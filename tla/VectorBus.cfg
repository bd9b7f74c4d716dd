SPECIFICATION Spec
CONSTANTS
  r1 = r1  r2 = r2
  Req = {r1, r2}
  Known = {r1}
  AnsLen <- MCAnsLen
  Hdr = 2
  MaxAsk = 2
  MaxFaults = 1
INVARIANTS AnswerIsOwn InStep NothingMissed
CHECK_DEADLOCK FALSE
