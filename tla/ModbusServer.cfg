SPECIFICATION FairSpec
CONSTANTS
  c1 = c1
  c2 = c2
  c3 = c3
  Conn = {c1, c2, c3}
  Impatient = {c2}
  MaxNumC = 2
  MaxReq = 2
INVARIANTS CommandHasOwner AnswersInOrder
  
