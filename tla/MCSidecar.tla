------------------------------ MODULE MCSidecar -----------------------------
(* An inbox of one request, so that the reader is held back by a full       *)
(* channel; one command and, where the configuration says so, an editor     *)
(* that answers lmp/edit.                                                   *)
EXTENDS Sidecar
=============================================================================
