SPECIFICATION MCSpec
CONSTANTS
  a = a  b = b  c = c  NoType = NoType
  MaxLen = 5
  ElementTypes <- FlatTypes
  f1 = f1  f2 = f2
  i1 = i1  i2 = i2  i3 = i3
  Comment = Comment
  NoFile = NoFile  NoDoc = NoDoc  NoId = NoId  NoMenu = NoMenu
  Sessions <- MCSessions
  FreshAtt = 0
  File <- MCFile
  Id <- MCId
SYMMETRY MCSymmetry
INVARIANTS
  ManualIsUsers
  ClearIsMinimal
  DeletionTakesItsOwn
  StructureIsSaved
  OffersAreSound
  AddIsComplete
  RemovalsStayValid
PROPERTIES
  StaysValid
  DeletionsReported
