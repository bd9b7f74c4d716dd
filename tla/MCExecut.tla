------------------------------ MODULE MCExecut ------------------------------
(* Instances of Execut.  The tapes are those dataServer generates, cut to  *)
(* one request of each kind: exe_TIME for the Master, exe_I and exe_SD for *)
(* the Pollers, oscCollector::exe_OSC for the Job.                         *)
EXTENDS Execut

CONSTANT p1  (* the Poller that the Job and the Client send through *)

(* Place 0 stands for -1: off the tape. *)
Line(type, ok, bad) == [type |-> type, ok |-> ok, bad |-> bad]

TimeTape ==
  [maxRepeat |-> 0,
   cmds |-> << Line("CONNECT", 2, 1), Line("BROADCAST", 2, 1) >>]
InfoTape ==
  [maxRepeat |-> 0,
   cmds |-> << Line("CONNECT", 2, 1), Line("IF", 3, 1), Line("DISCONNECT", 4, 0) >>]
DataTape ==
  [maxRepeat |-> 2,
   cmds |-> << Line("CONNECT", 2, 0), Line("IF", 3, 0), Line("IF", 3, 0),
               Line("DISCONNECT", 5, 0) >>]
JobTape ==
  [maxRepeat |-> 2,
   cmds |-> << Line("CONNECT", 2, 2), Line("BROADCAST", 3, 3), Line("FOR", 4, 0),
               Line("DISCONNECT", 5, 0) >>]

MCTape == [e \in Exe |-> CASE e = Master -> <<TimeTape>>
                           [] e \in Poller -> <<InfoTape, DataTape>>
                           [] e \in Job -> <<JobTape>>]

MCUp == [c \in Poller \cup Job \cup Client |->
           IF c \in Poller THEN Master ELSE p1]

=============================================================================
