---------------------------- MODULE WiresProofs -----------------------------
(***************************************************************************)
(* What is proved of the ring, and of the wires as a whole; the pipes and  *)
(* the task directory have modules of their own, McpProofs and             *)
(* WorkerProofs.                                                           *)
(***************************************************************************)
EXTENDS Wires, WorkerProofs, McpProofs

-----------------------------------------------------------------------------
(***************************************************************************)
(* Safety of the ring for every size, every wrap-around point that is a    *)
(* multiple of it, and every set of values.                                *)
(*                                                                         *)
(* The heart of it is how stale a cached index may be.  The producer's     *)
(* copy of head lags behind head, head behind the consumer's copy of tail, *)
(* and that behind tail; the whole stretch is never longer than the ring.  *)
(* The indices wrap, so the order is stated by distances.                  *)
(***************************************************************************)
(* headCached <= head <= tailCached <= tail <= headCached + Size.          *)
StaleViews ==
  /\ Minus(tail, headCached) <= Size
  /\ Minus(tail, headCached) = Minus(tail, head) + Minus(head, headCached)
  /\ Minus(tail, head) = Minus(tail, tailCached) + Minus(tailCached, head)

(* What each thread established before it touches a slot.                  *)
RoomSeen == producer \in {"write", "publish"} => Minus(tail, headCached) < Size
ItemSeen == consumer \in {"take", "release"} => head # tailCached

IInv == TypeOK /\ StaleViews /\ RoomSeen /\ ItemSeen

-----------------------------------------------------------------------------
(* Indices.                                                                *)

LEMMA WrapFacts == Size \in Nat /\ Wrap \in Nat /\ 0 < Size /\ Size < Wrap
BY SizeAssumption, WrapAssumption

LEMMA IncInIndex ==
  ASSUME NEW i \in Index
  PROVE  Inc(i) \in Index
BY WrapFacts DEF Inc, Index

LEMMA MinusRange ==
  ASSUME NEW i \in Index, NEW j \in Index
  PROVE  /\ Minus(i, j) \in 0 .. Wrap - 1
         /\ Minus(i, j) = 0 <=> i = j
BY WrapFacts DEF Minus, Index

(* Advancing the end of a stretch that does not span the whole range makes *)
(* it longer by one; advancing the start of a non-empty one, shorter.      *)
LEMMA MinusIncLeft ==
  ASSUME NEW i \in Index, NEW j \in Index, Minus(i, j) < Wrap - 1
  PROVE  Minus(Inc(i), j) = Minus(i, j) + 1
BY WrapFacts DEF Minus, Inc, Index

LEMMA MinusIncRight ==
  ASSUME NEW i \in Index, NEW j \in Index, i # j
  PROVE  Minus(i, Inc(j)) = Minus(i, j) - 1
BY WrapFacts DEF Minus, Inc, Index

-----------------------------------------------------------------------------
(* Slots: the division that masking stands for.                            *)

LEMMA DivMod ==
  ASSUME NEW s \in Nat \ {0}, NEW a \in Nat
  PROVE  /\ a \div s \in Int /\ a % s \in Int
         /\ a = s * (a \div s) + (a % s)
         /\ 0 <= a % s /\ a % s < s
OBVIOUS

(* No multiple of s lies strictly between 0 and s.                         *)
LEMMA NoMultipleBetween ==
  ASSUME NEW s \in Nat \ {0}, NEW m \in Int
  PROVE  ~(0 < s * m /\ s * m < s)
<1>1. CASE m <= 0
  <2>1. s * m <= 0
    BY <1>1
  <2> QED
    BY <2>1
<1>2. CASE m >= 1
  <2>1. s * m >= s
    BY <1>2
  <2> QED
    BY <2>1
<1> QED
  BY <1>1, <1>2

LEMMA Distribute ==
  ASSUME NEW s \in Int, NEW a \in Int, NEW b \in Int
  PROVE  s * (a - b) = s * a - s * b /\ s * (a + b) = s * a + s * b
OBVIOUS

LEMMA SlotInRange ==
  ASSUME NEW i \in Index
  PROVE  Slot(i) \in 0 .. Size - 1
<1>1. i \in Nat
  BY WrapFacts DEF Index
<1> QED
  BY <1>1, DivMod, WrapFacts DEF Slot

(* Indices closer than a whole ring apart have slots of their own.         *)
LEMMA SlotsDiffer ==
  ASSUME NEW i \in Index, NEW j \in Index, 0 < Minus(i, j), Minus(i, j) < Size
  PROVE  Slot(i) # Slot(j)
<1>1. SUFFICES ASSUME Slot(i) = Slot(j)
               PROVE  FALSE
  OBVIOUS
<1> DEFINE qi == i \div Size
           qj == j \div Size
           qw == Wrap \div Size
<1>2. i \in Nat /\ j \in Nat /\ Size \in Nat \ {0} /\ Wrap \in Nat
  BY WrapFacts DEF Index
<1>3. /\ qi \in Int /\ qj \in Int /\ qw \in Int
      /\ i = Size * qi + Slot(i) /\ j = Size * qj + Slot(j)
      /\ Slot(i) \in Int /\ Slot(j) \in Int
  BY <1>2, DivMod DEF Slot
<1>4. Wrap = Size * qw
  <2>1. Wrap = Size * qw + (Wrap % Size)
    BY <1>2, DivMod
  <2>2. Wrap % Size = 0
    BY WrapAssumption
  <2> QED
    BY <2>1, <2>2, <1>2, <1>3
<1>5. i - j = Size * (qi - qj)
  <2> HIDE DEF qi, qj
  <2>1. i - j = Size * qi - Size * qj
    BY <1>1, <1>2, <1>3
  <2> QED
    BY <2>1, <1>2, <1>3, Distribute
<1>6. CASE i >= j
  <2> HIDE DEF qi, qj
  <2>1. Minus(i, j) = Size * (qi - qj)
    BY <1>5, <1>6 DEF Minus
  <2> QED
    BY <2>1, <1>2, <1>3, NoMultipleBetween
<1>7. CASE ~(i >= j)
  <2> HIDE DEF qi, qj, qw
  <2>1. Minus(i, j) = Size * (qi - qj) + Size * qw
    BY <1>4, <1>5, <1>7 DEF Minus
  <2>2. Minus(i, j) = Size * ((qi - qj) + qw)
    BY <2>1, <1>2, <1>3, Distribute
  <2> QED
    BY <2>2, <1>2, <1>3, NoMultipleBetween
<1> QED
  BY <1>6, <1>7
-----------------------------------------------------------------------------
(* The inductive invariant.                                                *)

LEMMA InitIInv == Init => IInv
<1> SUFFICES ASSUME Init PROVE IInv
  OBVIOUS
<1>1. 0 \in Index
  BY WrapFacts DEF Index
<1>2. slots \in [0 .. Size - 1 -> Values \union {Empty}]
  BY DEF Init
<1>3. TypeOK
  BY <1>1, <1>2 DEF Init, TypeOK
<1>4. StaleViews /\ RoomSeen /\ ItemSeen
  BY WrapFacts DEF Init, StaleViews, RoomSeen, ItemSeen, Minus
<1> QED
  BY <1>3, <1>4 DEF IInv

LEMMA TypeStep == TypeOK /\ [Next]_vars => TypeOK'
<1> SUFFICES ASSUME TypeOK, [Next]_vars
             PROVE  TypeOK'
  OBVIOUS
<1>1. ASSUME NEW v \in Values, BeginPush(v) PROVE TypeOK'
  BY <1>1 DEF BeginPush, TypeOK
<1>2. CASE CheckRoom
  BY <1>2 DEF CheckRoom, TypeOK
<1>3. CASE RefreshHead
  BY <1>3 DEF RefreshHead, TypeOK
<1>4. CASE WriteSlot
  <2>1. slots' \in [0 .. Size - 1 -> Values \union {Empty}]
    BY <1>4, SlotInRange DEF WriteSlot, TypeOK
  <2> QED
    BY <2>1, <1>4 DEF WriteSlot, TypeOK
<1>5. CASE Publish
  BY <1>5, IncInIndex DEF Publish, TypeOK
<1>6. CASE Close
  BY <1>6 DEF Close, TypeOK
<1>7. CASE CheckAvailable
  BY <1>7 DEF CheckAvailable, TypeOK
<1>8. CASE RefreshTail
  BY <1>8 DEF RefreshTail, TypeOK
<1>9. CASE TakeSlot
  <2>1. /\ slots' \in [0 .. Size - 1 -> Values \union {Empty}]
        /\ out' \in Values \union {Empty}
    BY <1>9, SlotInRange DEF TakeSlot, TypeOK
  <2> QED
    BY <2>1, <1>9 DEF TakeSlot, TypeOK
<1>10. CASE Release
  BY <1>10, IncInIndex DEF Release, TypeOK
<1>11. CASE AskClosed
  BY <1>11 DEF AskClosed, TypeOK
<1>12. CASE AskEmpty
  BY <1>12 DEF AskEmpty, TypeOK
<1>13. CASE UNCHANGED vars
  BY <1>13 DEF vars, TypeOK
<1> QED
  BY <1>1, <1>2, <1>3, <1>4, <1>5, <1>6, <1>7, <1>8, <1>9, <1>10, <1>11, <1>12, <1>13
  DEF Next, ProducerStep, PopStep, DrainedStep

(* The views, one action at a time; only the four that store an index or a *)
(* copy of one have something to show.                                     *)
LEMMA ViewsStep == IInv /\ [Next]_vars => (StaleViews /\ RoomSeen /\ ItemSeen)'
<1> SUFFICES ASSUME IInv, [Next]_vars
             PROVE  (StaleViews /\ RoomSeen /\ ItemSeen)'
  OBVIOUS
<1> USE DEF IInv, StaleViews, RoomSeen, ItemSeen
<1>0. /\ head \in Index /\ tail \in Index
      /\ headCached \in Index /\ tailCached \in Index
  BY DEF TypeOK
<1> DEFINE ViewsKept == UNCHANGED <<head, tail, headCached, tailCached>>
<1>1. ASSUME ViewsKept PROVE StaleViews'
  BY <1>1 DEF Minus
<1>2. ASSUME NEW v \in Values, BeginPush(v) PROVE (StaleViews /\ RoomSeen /\ ItemSeen)'
  BY <1>1, <1>2 DEF BeginPush
<1>3. CASE CheckRoom
  <2>1. RoomSeen'
    <3>1. Minus(tail, headCached) \in 0 .. Wrap - 1
      BY <1>0, MinusRange
    <3> QED
      BY <3>1, <1>3, WrapFacts DEF CheckRoom, LooksFull, Minus
  <2> QED
    BY <2>1, <1>1, <1>3 DEF CheckRoom
<1>4. CASE RefreshHead
  <2>1. /\ Minus(tail, head) \in Nat /\ Minus(head, headCached) \in Nat
        /\ Minus(head, head) = 0
    BY <1>0, MinusRange
  <2>2. /\ tail' = tail /\ head' = head /\ tailCached' = tailCached
        /\ headCached' = head
    BY <1>4 DEF RefreshHead
  <2>3. StaleViews'
    BY <2>1, <2>2, WrapFacts DEF Minus
  <2>4. RoomSeen'
    BY <2>1, <2>2, <1>4, WrapFacts DEF RefreshHead, LooksFull, Minus
  <2>5. ItemSeen'
    BY <1>4 DEF RefreshHead
  <2> QED
    BY <2>3, <2>4, <2>5
<1>5. CASE WriteSlot
  <2>1. RoomSeen'
    BY <1>5 DEF WriteSlot, Minus
  <2> QED
    BY <2>1, <1>1, <1>5 DEF WriteSlot
<1>6. CASE Publish
  <2>1. /\ tail' = Inc(tail) /\ head' = head
        /\ headCached' = headCached /\ tailCached' = tailCached
        /\ consumer' = consumer /\ producer' = "idle"
    BY <1>6 DEF Publish
  <2>2. Minus(tail, headCached) < Size
    BY <1>6 DEF Publish
  <2>3. /\ Minus(tail, headCached) \in Nat /\ Minus(tail, head) \in Nat
        /\ Minus(head, headCached) \in Nat /\ Minus(tail, tailCached) \in Nat
        /\ Minus(tailCached, head) \in Nat
    BY <1>0, MinusRange
  <2>4. /\ Minus(tail, headCached) < Wrap - 1
        /\ Minus(tail, head) < Wrap - 1
        /\ Minus(tail, tailCached) < Wrap - 1
    BY <2>2, <2>3, WrapFacts
  <2>5. /\ Minus(Inc(tail), headCached) = Minus(tail, headCached) + 1
        /\ Minus(Inc(tail), head) = Minus(tail, head) + 1
        /\ Minus(Inc(tail), tailCached) = Minus(tail, tailCached) + 1
    BY <1>0, <2>4, MinusIncLeft
  <2>6. /\ Minus(tail, headCached)' = Minus(Inc(tail), headCached)
        /\ Minus(tail, head)' = Minus(Inc(tail), head)
        /\ Minus(tail, tailCached)' = Minus(Inc(tail), tailCached)
        /\ Minus(head, headCached)' = Minus(head, headCached)
        /\ Minus(tailCached, head)' = Minus(tailCached, head)
    BY <2>1 DEF Minus
  <2>7. StaleViews'
    BY <2>2, <2>3, <2>5, <2>6, WrapFacts
  <2> QED
    BY <2>1, <2>7
<1>7. CASE Close
  BY <1>1, <1>7 DEF Close
<1>8. CASE CheckAvailable
  <2>1. ItemSeen'
    BY <1>8 DEF CheckAvailable
  <2> QED
    BY <2>1, <1>1, <1>8 DEF CheckAvailable, Minus
<1>9. CASE RefreshTail
  <2>1. /\ tail' = tail /\ head' = head /\ headCached' = headCached
        /\ tailCached' = tail /\ producer' = producer
    BY <1>9 DEF RefreshTail
  <2>2. Minus(tail, tail) = 0 /\ Minus(tail, head) \in Nat
    BY <1>0, MinusRange
  <2>3. StaleViews' /\ RoomSeen'
    BY <2>1, <2>2 DEF Minus
  <2>4. ItemSeen'
    BY <2>1, <1>9 DEF RefreshTail
  <2> QED
    BY <2>3, <2>4
<1>10. CASE TakeSlot
  BY <1>1, <1>10 DEF TakeSlot, Minus
<1>11. CASE Release
  <2>1. /\ head' = Inc(head) /\ tail' = tail
        /\ headCached' = headCached /\ tailCached' = tailCached
        /\ producer' = producer /\ consumer' = "idle"
    BY <1>11 DEF Release
  <2>2. /\ Minus(tail, headCached) \in Nat /\ Minus(tail, head) \in Nat
        /\ Minus(head, headCached) \in Nat /\ Minus(tail, tailCached) \in Nat
        /\ Minus(tailCached, head) \in Nat
    BY <1>0, MinusRange
  <2>3. head # tailCached
    BY <1>11 DEF Release
  <2>4. Minus(tailCached, head) # 0
    BY <1>0, <2>3, MinusRange
  <2>5. head # tail
    BY <1>0, <2>2, <2>4, MinusRange
  <2>6. Minus(head, headCached) < Wrap - 1
    BY <2>2, <2>4, WrapFacts
  <2>7. /\ Minus(tail, Inc(head)) = Minus(tail, head) - 1
        /\ Minus(tailCached, Inc(head)) = Minus(tailCached, head) - 1
        /\ Minus(Inc(head), headCached) = Minus(head, headCached) + 1
    BY <1>0, <2>3, <2>5, <2>6, MinusIncRight, MinusIncLeft
  <2>8. /\ Minus(tail, headCached)' = Minus(tail, headCached)
        /\ Minus(tail, head)' = Minus(tail, Inc(head))
        /\ Minus(tail, tailCached)' = Minus(tail, tailCached)
        /\ Minus(head, headCached)' = Minus(Inc(head), headCached)
        /\ Minus(tailCached, head)' = Minus(tailCached, Inc(head))
    BY <2>1 DEF Minus
  <2>9. StaleViews'
    BY <2>2, <2>7, <2>8, WrapFacts
  <2>10. RoomSeen'
    BY <2>1, <2>8
  <2> QED
    BY <2>1, <2>9, <2>10
<1>12. CASE AskClosed
  BY <1>1, <1>12 DEF AskClosed, Minus
<1>13. CASE AskEmpty
  BY <1>1, <1>13 DEF AskEmpty, Minus
<1>14. CASE UNCHANGED vars
  BY <1>1, <1>14 DEF vars, Minus
<1> QED
  BY <1>2, <1>3, <1>4, <1>5, <1>6, <1>7, <1>8, <1>9, <1>10, <1>11, <1>12, <1>13, <1>14
  DEF Next, ProducerStep, PopStep, DrainedStep

LEMMA Invariance == Spec => []IInv
<1>1. Init => IInv
  BY InitIInv
<1>2. IInv /\ [Next]_vars => IInv'
  BY TypeStep, ViewsStep DEF IInv
<1> QED
  BY <1>1, <1>2, PTL DEF Spec

-----------------------------------------------------------------------------
(* Types, and with them that no index leaves its range and no slot outside *)
(* the ring is touched.                                                    *)
THEOREM TypeCorrect == Spec => []TypeOK
<1>1. IInv => TypeOK
  BY DEF IInv
<1> QED
  BY <1>1, Invariance, PTL

(* The producer never writes the slot the consumer is about to read and    *)
(* clear, on a ring of any size.                                           *)
THEOREM NoSharedSlot == Spec => []SlotsNotShared
<1>1. IInv => SlotsNotShared
  <2> SUFFICES ASSUME IInv, producer = "write", consumer = "take"
               PROVE  Slot(tail) # Slot(head)
    BY DEF SlotsNotShared
  <2>1. /\ head \in Index /\ tail \in Index
        /\ headCached \in Index /\ tailCached \in Index
    BY DEF IInv, TypeOK
  <2>2. /\ Minus(tail, headCached) < Size
        /\ Minus(tailCached, head) # 0
    BY <2>1, MinusRange DEF IInv, RoomSeen, ItemSeen
  <2>3. /\ Minus(tail, headCached) \in Nat /\ Minus(tail, head) \in Nat
        /\ Minus(head, headCached) \in Nat /\ Minus(tail, tailCached) \in Nat
        /\ Minus(tailCached, head) \in Nat
    BY <2>1, MinusRange
  <2>4. 0 < Minus(tail, head) /\ Minus(tail, head) < Size
    BY <2>2, <2>3, WrapFacts DEF IInv, StaleViews
  <2> QED
    BY <2>1, <2>4, SlotsDiffer
<1> QED
  BY <1>1, Invariance, PTL

-----------------------------------------------------------------------------
(* The ring implements the bounded queue.                                  *)

(* Positions of the ring beyond the last index, before they are masked.    *)
LEMMA MaskRange ==
  ASSUME NEW a \in Nat
  PROVE  a % Size \in 0 .. Size - 1
BY DivMod, WrapFacts

LEMMA MaskDiffers ==
  ASSUME NEW a \in Nat, NEW b \in Nat, a < b, b - a < Size
  PROVE  a % Size # b % Size
<1>1. SUFFICES ASSUME a % Size = b % Size
               PROVE  FALSE
  OBVIOUS
<1> DEFINE qa == a \div Size
           qb == b \div Size
<1>2. /\ qa \in Int /\ qb \in Int /\ a % Size \in Int
      /\ a = Size * qa + (a % Size) /\ b = Size * qb + (b % Size)
  BY DivMod, WrapFacts
<1> HIDE DEF qa, qb
<1>3. b - a = Size * qb - Size * qa
  BY <1>1, <1>2, WrapFacts
<1>4. b - a = Size * (qb - qa)
  BY <1>2, <1>3, Distribute, WrapFacts
<1> QED
  BY <1>2, <1>4, NoMultipleBetween, WrapFacts

LEMMA MaskOfWrapped ==
  ASSUME NEW a \in Nat, a >= Wrap
  PROVE  (a - Wrap) % Size = a % Size
<1> DEFINE b == a - Wrap
           qa == a \div Size
           qb == b \div Size
           qw == Wrap \div Size
<1>1. b \in Nat
  BY WrapFacts
<1>2. /\ qa \in Int /\ qb \in Int /\ qw \in Int
      /\ a % Size \in Int /\ b % Size \in Int
      /\ 0 <= a % Size /\ a % Size < Size /\ 0 <= b % Size /\ b % Size < Size
      /\ a = Size * qa + (a % Size) /\ b = Size * qb + (b % Size)
  BY <1>1, DivMod, WrapFacts
<1>3. Wrap = Size * qw
  BY DivMod, WrapFacts, WrapAssumption
<1> DEFINE ra == a % Size
           rb == b % Size
<1>4. ra - rb = Size * qw - (Size * qa - Size * qb)
  <2>1. a = b + Wrap
    BY WrapFacts
  <2> HIDE DEF qa, qb, qw, b
  <2> QED
    BY <1>1, <1>2, <1>3, <2>1, WrapFacts
<1> HIDE DEF qa, qb, qw, ra, rb
<1>5. ra - rb = Size * (qw - (qa - qb))
  BY <1>2, <1>4, Distribute, WrapFacts
<1>6. ~(0 < ra - rb /\ ra - rb < Size) /\ ~(0 < rb - ra /\ rb - ra < Size)
  <2>1. rb - ra = Size * (0 - (qw - (qa - qb)))
    <3>1. Size * (0 - (qw - (qa - qb))) = Size * 0 - Size * (qw - (qa - qb))
      BY <1>2, Distribute, WrapFacts
    <3> QED
      BY <3>1, <1>2, <1>5, WrapFacts DEF ra, rb
  <2> QED
    BY <2>1, <1>2, <1>5, NoMultipleBetween, WrapFacts
<1>7. ra \in Int /\ rb \in Int /\ 0 <= ra /\ ra < Size /\ 0 <= rb /\ rb < Size
  BY <1>2 DEF ra, rb
<1>8. ra = rb
  BY <1>6, <1>7, WrapFacts
<1> QED
  BY <1>8 DEF ra, rb

(* The slot `n` places after an index, however the index wraps.            *)
LEMMA SlotOfInc ==
  ASSUME NEW i \in Index, NEW n \in Nat
  PROVE  (Inc(i) + n) % Size = (i + 1 + n) % Size
<1>1. CASE i + 1 = Wrap
  <2>1. i + 1 + n \in Nat /\ i + 1 + n >= Wrap /\ (i + 1 + n) - Wrap = n /\ Inc(i) + n = n
    BY <1>1, WrapFacts DEF Index, Inc
  <2> QED
    BY <2>1, MaskOfWrapped
<1>2. CASE i + 1 # Wrap
  BY <1>2 DEF Inc
<1> QED
  BY <1>1, <1>2

LEMMA SlotOfEnd ==
  ASSUME NEW i \in Index, NEW j \in Index
  PROVE  (j + Minus(i, j)) % Size = Slot(i)
<1>1. CASE i >= j
  <2>1. j + Minus(i, j) = i
    BY <1>1, WrapFacts DEF Minus, Index
  <2> QED
    BY <2>1 DEF Slot
<1>2. CASE ~(i >= j)
  <2>1. j + Minus(i, j) = i + Wrap /\ i \in Nat /\ i + Wrap \in Nat /\ (i + Wrap) - Wrap = i
    BY <1>2, WrapFacts DEF Minus, Index
  <2> QED
    BY <2>1, MaskOfWrapped, WrapFacts DEF Slot
<1> QED
  BY <1>1, <1>2

(* What the two threads hold between their own steps.                      *)
Pending ==
  /\ producer # "idle" => item \in Values /\ ~closed
  /\ producer = "publish" => slots[Slot(tail)] = item
  /\ consumer = "was_closed" => closed

(* Room and items as the queue sees them.                                  *)
LEMMA QueueBounds ==
  ASSUME IInv
  PROVE  /\ Occupied \in 0 .. Size
         /\ producer \in {"write", "publish"} => Occupied < Size
         /\ consumer \in {"take", "release"} => Occupied > 0
<1>1. /\ head \in Index /\ tail \in Index
      /\ headCached \in Index /\ tailCached \in Index
  BY DEF IInv, TypeOK
<1>2. /\ Minus(tail, headCached) \in Nat /\ Minus(tail, head) \in Nat
      /\ Minus(head, headCached) \in Nat /\ Minus(tail, tailCached) \in Nat
      /\ Minus(tailCached, head) \in Nat
      /\ head # tailCached => Minus(tailCached, head) # 0
  BY <1>1, MinusRange
<1> QED
  BY <1>2, WrapFacts DEF IInv, StaleViews, RoomSeen, ItemSeen, Occupied

(* The slot the producer may write is none of those the queue is in.       *)
LEMMA TailIsFree ==
  ASSUME IInv, Occupied < Size, NEW i \in 1 .. Occupied
  PROVE  (head + i - 1) % Size # Slot(tail)
<1>1. head \in Index /\ tail \in Index /\ Occupied \in Nat /\ head \in Nat
  BY QueueBounds, WrapFacts DEF IInv, TypeOK, Index
<1>2. /\ head + i - 1 \in Nat /\ head + Occupied \in Nat
      /\ head + i - 1 < head + Occupied /\ (head + Occupied) - (head + i - 1) < Size
  BY <1>1, WrapFacts
<1>3. (head + i - 1) % Size # (head + Occupied) % Size
  BY <1>2, MaskDiffers
<1> QED
  BY <1>1, <1>3, SlotOfEnd DEF Occupied

LEMMA HeadIsAlone ==
  ASSUME IInv, NEW i \in 2 .. Occupied
  PROVE  (head + i - 1) % Size # Slot(head)
<1>1. head \in Nat /\ Occupied \in 0 .. Size
  BY QueueBounds, WrapFacts DEF IInv, TypeOK, Index
<1>2. head + i - 1 \in Nat /\ head < head + i - 1 /\ (head + i - 1) - head < Size
  BY <1>1, WrapFacts
<1> QED
  BY <1>1, <1>2, MaskDiffers DEF Slot

RingInv == IInv /\ Pending

LEMMA PendingStep == RingInv /\ [Next]_vars => Pending'
<1> SUFFICES ASSUME RingInv, [Next]_vars
             PROVE  Pending'
  OBVIOUS
<1> USE DEF RingInv, Pending
<1>1. ASSUME NEW v \in Values, BeginPush(v) PROVE Pending'
  BY <1>1 DEF BeginPush
<1>2. CASE CheckRoom \/ RefreshHead \/ Publish \/ Close
  BY <1>2 DEF CheckRoom, RefreshHead, Publish, Close
<1>3. CASE WriteSlot
  BY <1>3, SlotInRange DEF WriteSlot, IInv, TypeOK
<1>4. CASE TakeSlot
  <2>1. producer = "publish" => Slot(tail) # Slot(head) /\ slots'[Slot(tail)] = slots[Slot(tail)]
    <3> SUFFICES ASSUME producer = "publish"
                 PROVE  Slot(tail) # Slot(head) /\ slots'[Slot(tail)] = slots[Slot(tail)]
      OBVIOUS
    <3>1. Occupied < Size /\ 1 \in 1 .. Occupied /\ head \in Nat /\ tail \in Index
      BY <1>4, QueueBounds, WrapFacts DEF TakeSlot, IInv, TypeOK, Index
    <3>2. (head + 1 - 1) % Size # Slot(tail) /\ head + 1 - 1 = head
      BY <3>1, TailIsFree
    <3> QED
      BY <1>4, <3>1, <3>2, SlotInRange DEF TakeSlot, IInv, TypeOK, Slot
  <2> QED
    BY <1>4, <2>1 DEF TakeSlot
<1>5. CASE CheckAvailable \/ RefreshTail \/ Release \/ DrainedStep
  BY <1>5 DEF CheckAvailable, RefreshTail, Release, DrainedStep, AskClosed, AskEmpty
<1>6. CASE UNCHANGED vars
  BY <1>6 DEF vars
<1> QED
  BY <1>1, <1>2, <1>3, <1>4, <1>5, <1>6 DEF Next, ProducerStep, PopStep

LEMMA RingInvariance == Spec => []RingInv
<1>1. Init => RingInv
  BY InitIInv DEF Init, RingInv, Pending
<1>2. RingInv /\ [Next]_vars => RingInv'
  BY PendingStep, TypeStep, ViewsStep DEF RingInv, IInv
<1> QED
  BY <1>1, <1>2, PTL DEF Spec

-----------------------------------------------------------------------------
(* The mapped queue.                                                       *)

Cell(i) == IF i = 1 /\ consumer = "release" THEN out ELSE slots[(head + i - 1) % Size]

ContentsAre ==
  /\ Contents \in Seq(Values \union {Empty})
  /\ Len(Contents) = Occupied
  /\ \A i \in 1 .. Occupied : Contents[i] = Cell(i)

LEMMA ContentsIsSeq == IInv => ContentsAre
<1> SUFFICES ASSUME IInv PROVE ContentsAre
  OBVIOUS
<1>1. Occupied \in Nat /\ head \in Nat
  BY QueueBounds, WrapFacts DEF IInv, TypeOK, Index
<1>2. ASSUME NEW i \in 1 .. Occupied
      PROVE  Cell(i) \in Values \union {Empty}
  <2>1. (head + i - 1) % Size \in 0 .. Size - 1
    BY <1>1, MaskRange
  <2> QED
    BY <2>1 DEF IInv, TypeOK, Cell
<1>3. Contents = [i \in 1 .. Occupied |-> Cell(i)]
  BY DEF Contents, Cell
<1>4. Contents \in [1 .. Occupied -> Values \union {Empty}]
  BY <1>2, <1>3
<1>5. Contents \in Seq(Values \union {Empty})
  BY <1>1, <1>4, SeqDef
<1>6. Len(Contents) = Occupied
  <2>1. DOMAIN Contents = 1 .. Occupied /\ DOMAIN Contents = 1 .. Len(Contents) /\ Len(Contents) \in Nat
    BY <1>4, <1>5, LenProperties
  <2> QED
    BY <2>1, <1>1
<1> QED
  BY <1>3, <1>5, <1>6 DEF ContentsAre

(* Steps that store neither index and touch no slot the queue is in.       *)
LEMMA ContentsKept ==
  ASSUME IInv, IInv', Occupied' = Occupied,
         \A i \in 1 .. Occupied : Cell(i)' = Cell(i)
  PROVE  Contents' = Contents
<1>1. ContentsAre
  BY ContentsIsSeq
<1>0. IInv' => ContentsAre'
  BY ContentsIsSeq, PTL
<1>2. /\ Contents' \in Seq(Values \union {Empty}) /\ Len(Contents') = Occupied'
      /\ \A i \in 1 .. Occupied' : Contents'[i] = Cell(i)'
  BY <1>0 DEF ContentsAre
<1> QED
  BY <1>1, <1>2, SeqEqual DEF ContentsAre

LEMMA QueuePushes ==
  ASSUME RingInv, IInv', Publish
  PROVE  Queue!Push(item)
<1> USE DEF RingInv
<1>1. ContentsAre
  BY ContentsIsSeq
<1>0. IInv' => ContentsAre'
  BY ContentsIsSeq, PTL
<1>2. /\ Contents' \in Seq(Values \union {Empty}) /\ Len(Contents') = Occupied'
      /\ \A i \in 1 .. Occupied' : Contents'[i] = Cell(i)'
  BY <1>0 DEF ContentsAre
<1>3. /\ Occupied \in Nat /\ Occupied < Size /\ head \in Index /\ tail \in Index
  BY QueueBounds DEF Publish, IInv, TypeOK
<1>4. Occupied' = Occupied + 1
  <2>1. Minus(Inc(tail), head) = Minus(tail, head) + 1
    BY <1>3, MinusIncLeft, WrapFacts DEF Occupied
  <2> QED
    BY <2>1 DEF Publish, Occupied, Minus
<1>5. ASSUME NEW i \in 1 .. Occupied
      PROVE  Cell(i)' = Cell(i)
  BY DEF Publish, Cell
<1>6. ASSUME NEW n \in Nat, n = Occupied + 1
      PROVE  Cell(n)' = item
  <2>1. head + n - 1 = head + Occupied /\ (n = 1 => Occupied = 0)
    BY <1>3, <1>6, WrapFacts DEF Index
  <2>2. ~(n = 1 /\ consumer = "release")
    BY <2>1, QueueBounds
  <2>3. (head + n - 1) % Size = Slot(tail)
    BY <1>3, <2>1, SlotOfEnd DEF Occupied
  <2> QED
    BY <2>2, <2>3 DEF Publish, Pending, Cell
<1> DEFINE appended == Append(Contents, item)
<1>7. /\ appended \in Seq(Values \union {Empty}) /\ Len(appended) = Occupied + 1
      /\ \A i \in 1 .. Occupied : appended[i] = Contents[i]
      /\ appended[Occupied + 1] = item
  BY <1>1, <1>3, AppendProperties DEF Publish, Pending, ContentsAre
<1>8. Contents' = appended
  <2> HIDE DEF appended
  <2>1. ASSUME NEW i \in 1 .. Occupied + 1
        PROVE  Contents'[i] = appended[i]
    <3>1. i \in 1 .. Occupied \/ i = Occupied + 1
      BY <1>3
    <3>2. Contents'[i] = Cell(i)'
      BY <1>2, <1>4
    <3>3. CASE i \in 1 .. Occupied
      BY <3>2, <3>3, <1>1, <1>5, <1>7 DEF ContentsAre
    <3>4. CASE i = Occupied + 1
      <4>1. Cell(i)' = item
        BY <3>4, <1>3, <1>6
      <4> QED
        BY <3>2, <3>4, <4>1, <1>7
    <3> QED
      BY <3>1, <3>3, <3>4
  <2> QED
    BY <2>1, <1>2, <1>4, <1>7, SeqEqual
<1> QED
  BY <1>1, <1>3, <1>8 DEF Queue!Push, Publish, Pending, ContentsAre

LEMMA QueuePops ==
  ASSUME RingInv, IInv', Release
  PROVE  Queue!Pop
<1> USE DEF RingInv
<1>1. ContentsAre
  BY ContentsIsSeq
<1>0. IInv' => ContentsAre'
  BY ContentsIsSeq, PTL
<1>2. /\ Contents' \in Seq(Values \union {Empty}) /\ Len(Contents') = Occupied'
      /\ \A i \in 1 .. Occupied' : Contents'[i] = Cell(i)'
  BY <1>0 DEF ContentsAre
<1>3. /\ Occupied \in Nat /\ Occupied > 0 /\ head \in Index /\ tail \in Index
  BY QueueBounds DEF Release, IInv, TypeOK
<1>4. Occupied' = Occupied - 1
  <2>1. tail # head
    BY <1>3, MinusRange DEF Occupied
  <2>2. Minus(tail, Inc(head)) = Minus(tail, head) - 1
    BY <1>3, <2>1, MinusIncRight
  <2> QED
    BY <2>2 DEF Release, Occupied, Minus
<1>5. ASSUME NEW i \in 1 .. Occupied - 1, NEW n \in Nat, n = i + 1
      PROVE  Cell(i)' = Cell(n)
  <2>1. head' = Inc(head) /\ slots' = slots /\ consumer' = "idle"
    BY DEF Release
  <2>2. Cell(i)' = slots[(Inc(head) + i - 1) % Size]
    BY <2>1 DEF Cell
  <2>3. i - 1 \in Nat /\ head \in Nat /\ Inc(head) \in Nat
    BY <1>3, IncInIndex, WrapFacts DEF Index
  <2>4. Inc(head) + i - 1 = Inc(head) + (i - 1) /\ head + n - 1 = head + 1 + (i - 1) /\ n # 1
    BY <1>5, <2>3
  <2>5. (Inc(head) + (i - 1)) % Size = (head + 1 + (i - 1)) % Size
    BY <1>3, <2>3, SlotOfInc
  <2> QED
    BY <2>2, <2>4, <2>5 DEF Cell
<1> DEFINE rest == Tail(Contents)
<1>6. /\ Contents # <<>>
      /\ rest \in Seq(Values \union {Empty}) /\ Len(rest) = Occupied - 1
      /\ \A i \in 1 .. Occupied - 1 : rest[i] = Contents[i + 1]
  BY <1>1, <1>3, HeadTailProperties DEF ContentsAre
<1>7. Contents' = rest
  <2> HIDE DEF rest
  <2>1. ASSUME NEW i \in 1 .. Occupied - 1
        PROVE  Contents'[i] = rest[i]
    <3>1. i + 1 \in 1 .. Occupied /\ i + 1 \in Nat
      BY <1>3
    <3>2. Contents'[i] = Cell(i)'
      BY <1>2, <1>4
    <3>3. Cell(i)' = Cell(i + 1)
      BY <1>5, <3>1
    <3>4. rest[i] = Contents[i + 1] /\ Contents[i + 1] = Cell(i + 1)
      BY <1>1, <1>6, <3>1 DEF ContentsAre
    <3> QED
      BY <3>2, <3>3, <3>4
  <2> QED
    BY <2>1, <1>2, <1>4, <1>6, SeqEqual
<1> QED
  BY <1>6, <1>7 DEF Queue!Pop, Release

LEMMA EmptyContents ==
  ASSUME IInv, head = tail
  PROVE  Contents = <<>>
<1>1. ContentsAre
  BY ContentsIsSeq
<1>2. Occupied = 0
  BY MinusRange DEF Occupied, IInv, TypeOK
<1> QED
  BY <1>1, <1>2, EmptySeq DEF ContentsAre

LEMMA QueueInit == Init => Queue!Init
<1> SUFFICES ASSUME Init PROVE Queue!Init
  OBVIOUS
<1>1. Contents = <<>>
  BY InitIInv, EmptyContents DEF Init
<1> QED
  BY <1>1 DEF Init, Queue!Init

(* Every other step leaves the queue as it is.                             *)
LEMMA QueueStep == RingInv /\ IInv' /\ [Next]_vars => [Queue!Next]_(Queue!vars)
<1> SUFFICES ASSUME RingInv, IInv', [Next]_vars
             PROVE  [Queue!Next]_(Queue!vars)
  OBVIOUS
<1> USE DEF RingInv
<1>1. ASSUME UNCHANGED <<slots, head, tail, out>>, consumer' = "release" <=> consumer = "release"
      PROVE  Contents' = Contents
  BY <1>1, ContentsKept DEF Occupied, Minus, Cell
<1>2. ASSUME NEW v \in Values, BeginPush(v) PROVE UNCHANGED Queue!vars
  BY <1>1, <1>2 DEF BeginPush, Queue!vars
<1>3. CASE CheckRoom \/ RefreshHead
  BY <1>1, <1>3 DEF CheckRoom, RefreshHead, Queue!vars
<1>4. CASE WriteSlot
  <2>1. Occupied' = Occupied
    BY <1>4 DEF WriteSlot, Occupied, Minus
  <2>2. ASSUME NEW i \in 1 .. Occupied
        PROVE  Cell(i)' = Cell(i)
    <3>1. (head + i - 1) % Size # Slot(tail)
      BY <1>4, QueueBounds, TailIsFree DEF WriteSlot
    <3> QED
      BY <1>4, <3>1 DEF WriteSlot, Cell, IInv, TypeOK
  <2>3. Contents' = Contents
    BY <2>1, <2>2, ContentsKept
  <2> QED
    BY <1>4, <2>3 DEF WriteSlot, Queue!vars
<1>5. CASE Publish
  <2>1. Queue!Push(item) /\ item \in Values
    BY <1>5, QueuePushes DEF Publish, Pending
  <2> QED
    BY <2>1 DEF Queue!Next
<1>6. CASE Close
  <2>1. Contents' = Contents
    BY <1>1, <1>6 DEF Close
  <2> QED
    BY <1>6, <2>1 DEF Close, Queue!Close, Queue!Next
<1>7. CASE CheckAvailable \/ RefreshTail \/ AskClosed
  BY <1>1, <1>7 DEF CheckAvailable, RefreshTail, AskClosed, Queue!vars
<1>8. CASE TakeSlot
  <2>1. Occupied' = Occupied /\ Occupied \in Nat /\ head \in Nat
    BY <1>8, QueueBounds, WrapFacts DEF TakeSlot, Occupied, Minus, IInv, TypeOK, Index
  <2>2. ASSUME NEW i \in 1 .. Occupied
        PROVE  Cell(i)' = Cell(i)
    <3>1. CASE i = 1
      <4>1. head + 1 - 1 = head
        BY <2>1
      <4> QED
        BY <1>8, <3>1, <4>1 DEF TakeSlot, Cell, Slot
    <3>2. CASE i # 1
      <4>1. (head + i - 1) % Size # Slot(head)
        BY SMTT(30), <2>1, <3>2, HeadIsAlone
      <4> QED
        BY <1>8, <3>2, <4>1 DEF TakeSlot, Cell, IInv, TypeOK
    <3> QED
      BY <3>1, <3>2
  <2>3. Contents' = Contents
    BY <2>1, <2>2, ContentsKept
  <2> QED
    BY <1>8, <2>3 DEF TakeSlot, Queue!vars
<1>9. CASE Release
  BY <1>9, QueuePops DEF Queue!Next
<1>10. CASE AskEmpty
  <2>1. Contents' = Contents
    BY <1>1, <1>10 DEF AskEmpty
  <2>2. CASE head = tail
    BY <1>10, <2>1, <2>2, EmptyContents DEF AskEmpty, Pending, Queue!Stop, Queue!Next
  <2>3. CASE head # tail
    BY <1>10, <2>1, <2>3 DEF AskEmpty, Queue!vars
  <2> QED
    BY <2>2, <2>3
<1>11. CASE UNCHANGED vars
  BY <1>1, <1>11 DEF vars, Queue!vars
<1> QED
  BY <1>2, <1>3, <1>4, <1>5, <1>6, <1>7, <1>8, <1>9, <1>10, <1>11
     DEF Next, ProducerStep, PopStep, DrainedStep

(* Nothing is lost, duplicated, reordered or overwritten, and drained() is *)
(* true only of a closed and empty channel: the ring of any size is the    *)
(* bounded queue.                                                          *)
THEOREM RingIsQueue == Spec => ImplementsQueue
<1>1. RingInv => IInv
  BY DEF RingInv
<1> QED
  BY <1>1, QueueInit, QueueStep, RingInvariance, PTL DEF Spec, ImplementsQueue, Queue!Spec

-----------------------------------------------------------------------------
(***************************************************************************)
(* The ring, the pipes and the task directory side by side: a behaviour of *)
(* the whole is a behaviour of each of them, the steps of the others being *)
(* steps that leave it alone.  What is proved of each is therefore true of *)
(* the whole.                                                              *)
(***************************************************************************)
LEMMA WiresSteps ==
  [WiresNext]_wiresVars => [Next]_vars /\ [McpNext]_mcpVars /\ [WorkerNext]_workerVars
<1> SUFFICES ASSUME [WiresNext]_wiresVars
             PROVE  [Next]_vars /\ [McpNext]_mcpVars /\ [WorkerNext]_workerVars
  OBVIOUS
<1>1. CASE InRing(Next)
  BY <1>1 DEF InRing
<1>2. CASE InPipes(McpNext)
  BY <1>2 DEF InPipes
<1>3. CASE InDirectory(WorkerNext)
  BY <1>3 DEF InDirectory
<1>4. CASE UNCHANGED wiresVars
  BY <1>4 DEF wiresVars
<1> QED BY <1>1, <1>2, <1>3, <1>4 DEF WiresNext

(* No wire disturbs another.                                               *)
THEOREM WiresAreApart == WiresSpec => Spec /\ McpSpec /\ WorkerSpec
<1>1. WiresInit => Init /\ McpInit /\ WorkerInit
  BY DEF WiresInit
<1> QED BY <1>1, WiresSteps, PTL DEF WiresSpec, Spec, McpSpec, WorkerSpec

(* The types of everything that is said over the ring, the pipes and the   *)
(* directory.                                                              *)
THEOREM WiresTypeCorrect == WiresSpec => []WiresTypeOK
<1>1. TypeOK /\ McpTypeOK /\ WorkerTypeOK => WiresTypeOK
  BY DEF WiresTypeOK
<1> QED BY <1>1, WiresAreApart, TypeCorrect, McpTypeCorrect, WorkerTypeCorrect, PTL

(* What the runs check of the whole, for every size of ring and pipe, any  *)
(* number of calls, workers, launches and asks.                            *)
THEOREM WiresAreSafe ==
  WiresSpec => [](SlotsNotShared /\ NobodyLeftWaiting /\ DrainAnswersAll /\ WithheldIsUnwanted)
  BY WiresAreApart, NoSharedSlot, EverybodyIsTold, DrainIsComplete, OnlyTheUnwantedIsWithheld, PTL

(* The ring is a bounded queue and the connection keeps its promises to    *)
(* its callers, in the whole as each alone.                                *)
THEOREM WiresRefine == WiresSpec => ImplementsQueue /\ ImplementsCalls
  BY WiresAreApart, RingIsQueue, CallsAreKept, PTL
=============================================================================
