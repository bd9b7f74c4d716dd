---------------------------- MODULE DeviceLease -----------------------------
(***************************************************************************)
(* What the collectors promise: the threads they make do not contradict    *)
(* one another.  A thread takes its devices, all free, before it talks to  *)
(* any of them and gives all of them back when it has talked to the last.  *)
(***************************************************************************)
CONSTANTS Thread, Dev

VARIABLE lease  \* the devices each thread talks to

Free == Dev \ UNION {lease[t] : t \in Thread}

Take(t, D) ==
  /\ lease[t] = {}
  /\ D # {} /\ D \subseteq Free
  /\ lease' = [lease EXCEPT ![t] = D]

GiveBack(t) ==
  /\ lease[t] # {}
  /\ lease' = [lease EXCEPT ![t] = {}]

Init == lease = [t \in Thread |-> {}]

Next == \E t \in Thread : GiveBack(t) \/ \E D \in SUBSET Dev : Take(t, D)

Spec == Init /\ [][Next]_lease

(* Two threads never talk to the same device.                              *)
Exclusive ==
  \A t, u \in Thread : t # u => lease[t] \cap lease[u] = {}

=============================================================================
