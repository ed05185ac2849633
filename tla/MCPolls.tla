------------------------------ MODULE MCPolls ------------------------------
(* Two requests at a time, two manual calls (one at work, one remembered)  *)
(* and two flights (one at work, one whose result is still waited for).    *)
EXTENDS PollFlight
=============================================================================
