-------------------------- MODULE MCDataCollector --------------------------
(* DataCollector with one device and one register, which its configuration *)
(* makes a dynamic or a static one.                                        *)
EXTENDS DataCollector

CONSTANTS d1, r1

MCConfigs == {{}, {r1}}

=============================================================================
