------------------------------ MODULE MCMemory ------------------------------
(* Two runs and two processes that share the log; one file, read whole or  *)
(* in part, in every batch whose order matters; two threads, of one        *)
(* process or of two, that write one fact and an artifact with three       *)
(* revisions; a task launched twice, the first time with two asks; two     *)
(* daemons and two launchers that meet over a backlog of one connection.   *)
EXTENDS Memory, TLC

CONSTANTS f

Read(view) == [kind |-> "read", path |-> f, view |-> view]
Written == [kind |-> "write", path |-> f]
Elsewhere == [kind |-> "other"]
MCCallBatches ==
  {<<Read("whole")>>, <<Read("slice")>>, <<Read("whole"), Read("slice")>>, <<Written>>,
   <<Written, Read("whole")>>, <<Read("whole"), Written>>, <<Elsewhere>>}

AsksPerRun == <<2, 1>>
LaunchWays == {[hook |-> FALSE, detached |-> FALSE], [hook |-> TRUE, detached |-> TRUE]}

Alike ==
  Permutations(Writers) \union Permutations(Dbs) \union Permutations(Values) \union Permutations(Contents)

(* Where the durable context is followed no further: after two calls that  *)
(* overlapped, unless they left a counter below zero; after a commit at a  *)
(* clock that was set back; and the third commit is that of an artifact's  *)
(* revision, by a call of its own, which is what the length of a chain     *)
(* needs.  The other parts need one layout of its connections only.        *)
Calling == {w \in Writers : call[w] # NoCallYet}
Followed ==
  /\ memory # "facts" => \A v, w \in Writers : dbOf[v] = dbOf[w]
  /\ overlapped => ~setBack /\ (Calling = Writers \/ (items = <<>> /\ \E c \in Dbs : txnDepth[c] < 0))
  /\ setBack => commits <= 1
  /\ commits >= 2 => Cardinality(Calling) <= 1 /\ \A i \in DOMAIN items : items[i].key \in Artifacts
=============================================================================
