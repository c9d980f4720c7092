----------------------------- MODULE MCHttpPoll -----------------------------
(* The instance of HttpPoll that TLC checks: its constants are numbers, which *)
(* the configuration gives.                                                   *)
EXTENDS HttpPoll
=============================================================================
