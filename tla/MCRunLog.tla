------------------------------ MODULE MCRunLog ------------------------------
(* Two runs, and two or three processes that share the log file.            *)
EXTENDS RunLog
=============================================================================
