---------------------------- MODULE SpscChannel -----------------------------
(***************************************************************************)
(* platform::SpscChannel (src/platform/spsc_channel.hpp): a ring of Size   *)
(* slots with one producer thread and one consumer thread.  Each thread    *)
(* owns one index and keeps a cached copy of the other's, refreshed only   *)
(* when the ring looks full (producer) or empty (consumer).                *)
(*                                                                         *)
(* One action per atomic load or store, so the threads interleave between  *)
(* any two of them.  The indices run freely and wrap at Wrap, as a size_t  *)
(* wraps at 2^64; a slot is found by masking, which for a power of two is  *)
(* the remainder by Size.                                                  *)
(***************************************************************************)
EXTENDS Integers, Sequences

CONSTANTS
  Values,   \* what the channel carries
  Empty,    \* the default value a popped slot is reset to
  Size,     \* number of slots, after rounding up to a power of two
  Wrap      \* the indices are integers modulo Wrap

ASSUME SizeAssumption == Size \in Nat \ {0}
ASSUME WrapAssumption == Wrap \in Nat /\ Wrap > Size /\ Wrap % Size = 0

VARIABLES
  slots,       \* the ring
  head,        \* next slot to pop, stored by the consumer only
  tail,        \* next slot to push, stored by the producer only
  headCached,  \* the producer's last view of head
  tailCached,  \* the consumer's last view of tail
  closed,      \* end-of-stream, stored by the producer
  producer,    \* where the producer is in try_push
  consumer,    \* where the consumer is in try_pop or drained
  item,        \* the value being pushed
  out          \* the value last popped

vars == <<slots, head, tail, headCached, tailCached, closed, producer,
          consumer, item, out>>

Index == 0 .. Wrap - 1

(* Unsigned subtraction and increment of in-range indices.                 *)
Minus(i, j) == IF i >= j THEN i - j ELSE i - j + Wrap
IncUnwrapped(i) == i + 1   \* mutant: the index is not reduced
Inc(i) == IF i + 1 = Wrap THEN 0 ELSE i + 1

(* `index & mask_`                                                         *)
Slot(i) == i % Size

Init ==
  /\ slots = [s \in 0 .. Size - 1 |-> Empty]
  /\ head = 0 /\ tail = 0
  /\ headCached = 0 /\ tailCached = 0
  /\ closed = FALSE
  /\ producer = "idle" /\ consumer = "idle"
  /\ item = Empty /\ out = Empty

-----------------------------------------------------------------------------
(* The producer: try_push, and the caller that spins until it succeeds.    *)

BeginPush(v) ==
  /\ producer = "idle"
  /\ ~closed
  /\ item' = v
  /\ producer' = "check"
  /\ UNCHANGED <<slots, head, tail, headCached, tailCached, closed, consumer, out>>

LooksFullLate(h) == Minus(tail, h) > Size   \* mutant: off by one
LooksFull(h) == Minus(tail, h) >= Size

CheckRoom ==
  /\ producer = "check"
  /\ producer' = IF LooksFull(headCached) THEN "refresh" ELSE "write"
  /\ UNCHANGED <<slots, head, tail, headCached, tailCached, closed, consumer, item, out>>

(* A full ring sends the caller round again: try_push returned false.      *)
RefreshHead ==
  /\ producer = "refresh"
  /\ headCached' = head
  /\ producer' = IF LooksFull(head) THEN "check" ELSE "write"
  /\ UNCHANGED <<slots, head, tail, tailCached, closed, consumer, item, out>>

WriteSlot ==
  /\ producer = "write"
  /\ slots' = [slots EXCEPT ![Slot(tail)] = item]
  /\ producer' = "publish"
  /\ UNCHANGED <<head, tail, headCached, tailCached, closed, consumer, item, out>>

Publish ==
  /\ producer = "publish"
  /\ tail' = Inc(tail)
  /\ producer' = "idle"
  /\ UNCHANGED <<slots, head, headCached, tailCached, closed, consumer, item, out>>

(* End of stream: the producer closes after its last push.                 *)
Close ==
  /\ producer = "idle"
  /\ ~closed
  /\ closed' = TRUE
  /\ UNCHANGED <<slots, head, tail, headCached, tailCached, producer, consumer, item, out>>

-----------------------------------------------------------------------------
(* The consumer: try_pop, and drained, which it asks between two pops.     *)

CheckAvailable ==
  /\ consumer = "idle"
  /\ consumer' = IF head = tailCached THEN "refresh" ELSE "take"
  /\ UNCHANGED <<slots, head, tail, headCached, tailCached, closed, producer, item, out>>

(* Mutant: the copy of tail is compared again and never refreshed.         *)
RefreshTailStale ==
  /\ consumer = "refresh"
  /\ consumer' = IF head = tailCached THEN "idle" ELSE "take"
  /\ UNCHANGED <<slots, head, tail, headCached, tailCached, closed, producer, item, out>>

(* Still empty: try_pop returned false.                                    *)
RefreshTail ==
  /\ consumer = "refresh"
  /\ tailCached' = tail
  /\ consumer' = IF head = tail THEN "idle" ELSE "take"
  /\ UNCHANGED <<slots, head, tail, headCached, closed, producer, item, out>>

TakeSlot ==
  /\ consumer = "take"
  /\ out' = slots[Slot(head)]
  /\ slots' = [slots EXCEPT ![Slot(head)] = Empty]
  /\ consumer' = "release"
  /\ UNCHANGED <<head, tail, headCached, tailCached, closed, producer, item>>

Release ==
  /\ consumer = "release"
  /\ head' = Inc(head)
  /\ consumer' = "idle"
  /\ UNCHANGED <<slots, tail, headCached, tailCached, closed, producer, item, out>>

(* drained() is two loads: closed first, then the emptiness test.          *)
AskClosed ==
  /\ consumer = "idle"
  /\ closed
  /\ consumer' = "was_closed"
  /\ UNCHANGED <<slots, head, tail, headCached, tailCached, closed, producer, item, out>>

AskEmptyCached ==   \* mutant: trusts the consumer's copy of tail
  /\ consumer = "was_closed"
  /\ consumer' = IF head = tailCached THEN "stopped" ELSE "idle"
  /\ UNCHANGED <<slots, head, tail, headCached, tailCached, closed, producer, item, out>>

AskEmpty ==
  /\ consumer = "was_closed"
  /\ consumer' = IF head = tail THEN "stopped" ELSE "idle"
  /\ UNCHANGED <<slots, head, tail, headCached, tailCached, closed, producer, item, out>>

-----------------------------------------------------------------------------
ProducerStep == CheckRoom \/ RefreshHead \/ WriteSlot \/ Publish

PopStep == CheckAvailable \/ RefreshTail \/ TakeSlot \/ Release

DrainedStep == AskClosed \/ AskEmpty

Next ==
  \/ \E v \in Values : BeginPush(v)
  \/ ProducerStep
  \/ Close
  \/ PopStep
  \/ DrainedStep

Spec == Init /\ [][Next]_vars

-----------------------------------------------------------------------------
TypeOK ==
  /\ slots \in [0 .. Size - 1 -> Values \union {Empty}]
  /\ head \in Index /\ tail \in Index
  /\ headCached \in Index /\ tailCached \in Index
  /\ closed \in BOOLEAN
  /\ producer \in {"idle", "check", "refresh", "write", "publish"}
  /\ consumer \in {"idle", "refresh", "take", "release", "was_closed", "stopped"}
  /\ item \in Values \union {Empty}
  /\ out \in Values \union {Empty}

(* The two threads never touch the same slot at once: the slot about to be *)
(* written is not one the consumer is reading or clearing, although each   *)
(* thread decided from a copy of the other's index that may be stale       *)
(* (the comments at lines 45-49 and 65-68 of the source argue this).       *)
SlotsNotShared ==
  producer = "write" /\ consumer = "take" => Slot(tail) # Slot(head)

(* The ring as a queue: pushed once tail is stored, popped once head is.   *)
Occupied == Minus(tail, head)

Contents ==
  [i \in 1 .. Occupied |->
     IF i = 1 /\ consumer = "release" THEN out ELSE slots[(head + i - 1) % Size]]

Queue == INSTANCE BoundedQueue
           WITH queue <- Contents, stopped <- consumer = "stopped"

(* Every step of the ring is a step of the bounded queue or changes        *)
(* nothing of it: no value is lost, duplicated, reordered or overwritten,  *)
(* and drained() is true only when the channel is closed and empty.        *)
ImplementsQueue == Queue!Spec

(* What was pushed is taken, and a closed channel is eventually seen to    *)
(* be drained: the process whose parent has gone does exit.                *)
ClosedIsDrained == closed ~> consumer = "stopped"
=============================================================================
