------------------------------ MODULE MCSession -----------------------------
(* Two models, one of which sees, and two workspaces, so that a registry is *)
(* sometimes reused and sometimes replaced.                                 *)
EXTENDS Session
=============================================================================
