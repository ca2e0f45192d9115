------------------------------ MODULE McpCalls ------------------------------
(***************************************************************************)
(* What the client promises its callers, whatever the server does:         *)
(* requests are numbered as they are made, each is outstanding until it    *)
(* ends, and it ends once.  A request that is answered was served.         *)
(***************************************************************************)
EXTENDS Naturals

CONSTANTS MaxIds, Outcomes  \* how a call may end, "answer" among them

VARIABLES made, ended, served

Init == made = 0 /\ ended = [i \in 1 .. MaxIds |-> "no"] /\ served = {}

Make ==
  /\ made < MaxIds
  /\ made' = made + 1
  /\ UNCHANGED <<ended, served>>

Serve(i) ==
  /\ i \in 1 .. made \ served
  /\ served' = served \union {i}
  /\ UNCHANGED <<made, ended>>

End(i, how) ==
  /\ i \in 1 .. made /\ ended[i] = "no"
  /\ how = "answer" => i \in served
  /\ ended' = [ended EXCEPT ![i] = how]
  /\ UNCHANGED <<made, served>>

Next ==
  \/ Make
  \/ \E i \in 1 .. MaxIds : Serve(i) \/ \E how \in Outcomes : End(i, how)

Spec == Init /\ [][Next]_<<made, ended, served>>
=============================================================================
