----------------------------- MODULE MCContext ------------------------------
(* One file that is read whole, and other tools; a prompt that two copies  *)
(* of the file and two more turns overfill.                                *)
EXTENDS WorkingContext

CONSTANT f

MCCallBatches == {<<[kind |-> "read", path |-> f, view |-> "whole"]>>, <<[kind |-> "other"]>>}
=============================================================================
