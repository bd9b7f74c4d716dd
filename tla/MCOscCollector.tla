--------------------------- MODULE MCOscCollector ---------------------------
(* OscCollector with four devices: two behind one gateway, one behind      *)
(* another, one on the serial line that does not speak plain Modbus.       *)
EXTENDS OscCollector

CONSTANTS d1, d2, d3, d4

MCConn == [d \in Dev |-> CASE d \in {d1, d2} -> [tip |-> "TCP", adr |-> 1]
                           [] d = d3 -> [tip |-> "TCP", adr |-> 2]
                           [] d = d4 -> [tip |-> "COM485", adr |-> 1]]

Job(devs, sched) == [devs |-> devs, sched |-> sched]

(* A job that is off before, between and after good ones; overlapping      *)
(* jobs; an unknown device; devices that do not go together.               *)
MCConfigs ==
  { [known |-> {d1, d2, d3, d4},
     jobs |-> <<Job(<<d1>>, FALSE), Job(<<d1, d2>>, TRUE), Job(<<d1, d3>>, TRUE),
                Job(<<d2>>, TRUE)>>],
    [known |-> {d1, d3, d4},
     jobs |-> <<Job(<<d4>>, TRUE), Job(<<d3, d2>>, TRUE), Job(<<d2, d1>>, TRUE)>>] }

=============================================================================
