-------------------------- MODULE MCSdiagCollector --------------------------
(* SdiagCollector with two devices: both have a channel of kind A, and the *)
(* first has two of kind C.                                                *)
EXTENDS SdiagCollector

CONSTANTS d1, d2

MCKind == [m \in Dev |-> [nk \in 0 .. NChan - 1 |->
             IF nk = 0 THEN "A" ELSE IF m = d1 THEN "C" ELSE "none"]]

Band(start, size) == [start |-> start, size |-> size]
Set(devs_, kind, passes, ranges) ==
  [devs |-> devs_, kind |-> kind, passes |-> passes, ranges |-> ranges]

(* A setting that is off before one that is on; ranges of one, two and     *)
(* three lines, one cut at the end of the spectrum; an unknown device.     *)
MCSettings ==
  { [known |-> {d1, d2}, sched |-> TRUE,
     sets |-> <<Set(<<>>, "A", 0, <<Band(1, 1)>>),
                Set(<<>>, "A", 1, <<Band(2, 3)>>)>>],
    [known |-> {d1}, sched |-> TRUE,
     sets |-> <<Set(<<d2, d1>>, "C", 1, <<Band(5, 4), Band(1, 2)>>),
                Set(<<d1>>, "A", 1, <<>>)>>],
    [known |-> {d2}, sched |-> FALSE,
     sets |-> <<Set(<<d2>>, "A", 1, <<Band(1, 1)>>)>>] }

=============================================================================
