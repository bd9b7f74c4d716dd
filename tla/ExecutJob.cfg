SPECIFICATION Spec
CONSTANTS
  p1 = p1
  Master = m
  Poller = {p1}
  Job = {j1}
  Client = {}
  Stoppable = {j1}
  SocketFails = TRUE
  Answers = {"OK", "CON", "GW"}
  MaxTcpErr = 1
  IdMod = 3
  WireCap = 2
  NoCmd = NoCmd
  Up <- MCUp
  Tape <- MCTape
INVARIANTS  JobsNotForgotten
CHECK_DEADLOCK FALSE
