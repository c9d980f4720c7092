--------------------------- MODULE MCEventStream ---------------------------
(* The instance of EventStream that TLC checks: its constants are numbers,   *)
(* which the configuration gives.                                            *)
EXTENDS EventStream
=============================================================================
