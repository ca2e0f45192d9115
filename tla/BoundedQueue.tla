---------------------------- MODULE BoundedQueue ----------------------------
(***************************************************************************)
(* What the channel between the sidecar's reader thread and its main       *)
(* thread promises: a bounded first-in first-out queue that its producer   *)
(* closes, and a consumer that may stop only once the queue is closed and  *)
(* everything in it has been taken.                                        *)
(*                                                                         *)
(* SpscChannel implements this specification; Sidecar uses the queue as    *)
(* specified here.                                                         *)
(***************************************************************************)
EXTENDS Naturals, Sequences

CONSTANTS
  Values,   \* what the queue carries
  Size      \* how many values it holds at most

VARIABLES
  queue,    \* the values pushed and not yet popped, oldest first
  closed,   \* the producer will push nothing more
  stopped   \* the consumer has seen end-of-stream

vars == <<queue, closed, stopped>>

TypeOK ==
  /\ queue \in Seq(Values)
  /\ Len(queue) <= Size
  /\ closed \in BOOLEAN
  /\ stopped \in BOOLEAN

Init ==
  /\ queue = <<>>
  /\ closed = FALSE
  /\ stopped = FALSE

Push(v) ==
  /\ ~closed
  /\ Len(queue) < Size
  /\ queue' = Append(queue, v)
  /\ UNCHANGED <<closed, stopped>>

Pop ==
  /\ ~stopped
  /\ queue # <<>>
  /\ queue' = Tail(queue)
  /\ UNCHANGED <<closed, stopped>>

Close ==
  /\ ~closed
  /\ closed' = TRUE
  /\ UNCHANGED <<queue, stopped>>

(* The real exit condition of the consumer: closed, and nothing left.      *)
Stop ==
  /\ closed
  /\ queue = <<>>
  /\ stopped' = TRUE
  /\ UNCHANGED <<queue, closed>>

Next == (\E v \in Values : Push(v)) \/ Pop \/ Close \/ Stop

Spec == Init /\ [][Next]_vars
=============================================================================
