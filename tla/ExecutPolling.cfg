SPECIFICATION FairSpec
CONSTANTS
  p1 = p1
  Master = m
  Poller = {p1, p2}
  Job = {}
  Client = {}
  Stoppable = {}
  SocketFails = FALSE
  Answers = {"OK", "BAD", "GW"}
  MaxTcpErr = 1
  IdMod = 2
  WireCap = 1
  NoCmd = NoCmd
  Up <- MCUp
  Tape <- MCTape
INVARIANTS NobodyForgotten TimersHaveWork
PROPERTY PollsForever
