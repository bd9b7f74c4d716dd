SPECIFICATION FairSpec
CONSTANTS
  p1 = p1
  Master = m
  Poller = {p1}
  Job = {}
  Client = {k1}
  Stoppable = {}
  SocketFails = FALSE
  Answers = {"OK", "BAD", "GW", "NOSL"}
  MaxTcpErr = 2
  IdMod = 3
  WireCap = 2
  NoCmd = NoCmd
  Up <- MCUp
  Tape <- MCTape
INVARIANT AnswerMatches
 
