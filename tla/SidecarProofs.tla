--------------------------- MODULE SidecarProofs ----------------------------
(***************************************************************************)
(* Safety of the control plane, for any capacity of the inbox, any bounds  *)
(* and any commands and editor.                                            *)
(*                                                                         *)
(* A request is a position in `sent`, and the link between the client and  *)
(* the main thread loses, repeats and reorders nothing, so the inbox, what *)
(* the reader holds and what is still on the wire are at every moment the  *)
(* last requests sent, in order.  From that follow the replies, and that a *)
(* cancel framed under a card is met before anything sent after it.        *)
(***************************************************************************)
EXTENDS Sidecar, SequenceTheorems, TLAPS

-----------------------------------------------------------------------------
(* The link: what any step does to it.                                     *)

(* Requests framed, pushed and popped so far.                              *)
Framed == Len(sent) - Len(wire)
Pushed == Framed - (IF held = Nothing THEN 0 ELSE 1)
Popped == Pushed - Len(inbox)

(* An answer is given to a card or a round trip that was put up.           *)
RequestFits(r) ==
  /\ r.kind = "approve" => r.ask \in 1 .. Len(asked) /\ asked[r.ask].kind = "card"
  /\ r.kind = "reply" => r.ask \in 1 .. Len(asked) /\ asked[r.ask].kind \in Queries

Sends(r) ==
  /\ Len(sent) < MaxRequests
  /\ sent' = Append(sent, r)
  /\ wire' = Append(wire, Len(sent) + 1)
  /\ RequestFits(r)
  /\ UNCHANGED <<held, inbox, replies>>

Frames ==
  /\ held = Nothing /\ wire # <<>>
  /\ held' = Head(wire) /\ wire' = Tail(wire)
  /\ UNCHANGED <<sent, inbox, replies>>

Pushes ==
  /\ held # Nothing
  /\ Len(inbox) < Capacity
  /\ inbox' = Append(inbox, held) /\ held' = Nothing
  /\ UNCHANGED <<sent, wire, replies>>

Pops(count) ==
  /\ inbox # <<>>
  /\ inbox' = Tail(inbox)
  /\ Replies(Head(inbox), count)
  /\ UNCHANGED <<sent, wire, held>>

Refused(n) == sent[n].kind = "start" /\ ~sent[n].yes

LEMMA ClientLink ==
  ASSUME Client
  PROVE  UNCHANGED <<sent, wire, held, inbox, replies>> \/ \E r \in Request : Sends(r)
<1>1. ASSUME NEW kind \in Kinds, NEW usable \in BOOLEAN, Say(kind, usable)
      PROVE  Plain(kind, usable) \in Request /\ Sends(Plain(kind, usable))
  BY <1>1 DEF Say, Send, Sends, Plain, Request, Kinds, RequestFits, asks
<1>2. ASSUME NEW k \in 1 .. Len(asked), NEW yes \in BOOLEAN, NEW always \in BOOLEAN,
             AnswerCard(k, yes, always)
      PROVE  \E r \in Request : Sends(r)
  <2> DEFINE r == [kind |-> "approve", ask |-> k, yes |-> yes, always |-> always]
  <2>1. r \in Request
    BY DEF Request, Kinds
  <2>2. Sends(r)
    BY <1>2 DEF AnswerCard, Send, Sends, RequestFits, asks
  <2> QED
    BY <2>1, <2>2
<1>3. ASSUME NEW k \in 1 .. Len(asked), NEW ok \in BOOLEAN, AnswerQuery(k, ok)
      PROVE  \E r \in Request : Sends(r)
  <2> DEFINE r == [kind |-> "reply", ask |-> k, yes |-> ok, always |-> FALSE]
  <2>1. r \in Request
    BY DEF Request, Kinds
  <2>2. Sends(r)
    BY <1>3 DEF AnswerQuery, Send, Sends, RequestFits, asks
  <2> QED
    BY <2>1, <2>2
<1>4. CASE ClientDies
  BY <1>4 DEF ClientDies, link
<1> QED
  BY <1>1, <1>2, <1>3, <1>4 DEF Client

LEMMA ReaderLink ==
  ASSUME Reader
  PROVE  UNCHANGED <<sent, wire, held, inbox, replies>> \/ Frames \/ Pushes
BY DEF Reader, ReaderFrames, ReaderPushes, ReaderCloses, Room, Frames, Pushes, client

LEMMA DispatchLink ==
  ASSUME Dispatch
  PROVE  \/ UNCHANGED <<sent, wire, held, inbox, replies>>
         \/ Pops(1)
         \/ Refused(Head(inbox)) /\ Pops(2)
<1>1. CASE DispatchOther \/ DispatchShutdown \/ DispatchStart \/ DispatchMessage
  BY <1>1 DEF DispatchOther, DispatchShutdown, DispatchStart, DispatchMessage, PopFor, Pop, Reply, Pops,
              Refused, client
<1>2. CASE LoadFails \/ BeginRun \/ MainExits
  BY <1>2 DEF LoadFails, BeginRun, MainExits, client, link
<1> QED
  BY <1>1, <1>2 DEF Dispatch

LEMMA RunLink ==
  ASSUME Turn \/ Calls
  PROVE  UNCHANGED <<sent, wire, held, inbox, replies>> \/ Pops(1)
<1>1. CASE TakeOne
  BY <1>1 DEF TakeOne, Handle, Reply, Pops, client
<1>2. CASE TurnTop \/ BeginTurn \/ Generate \/ EndTurn \/ Rescue \/ EndRun
  BY <1>2 DEF TurnTop, BeginTurn, Generate, EndTurn, Rescue, EndRun, client, link
<1>3. CASE CardAnswered \/ QueryAnswered \/ OtherWhileWaiting
  BY <1>3 DEF CardAnswered, QueryAnswered, OtherWhileWaiting, Handle, Reply, Pops, client
<1>4. CASE \/ \E what \in Cards : Escalate(what) \/ Waive(what)
           \/ \E kind \in Queries : AskEditor(kind)
           \/ CheckToken \/ NothingToPop
  BY <1>4 DEF Escalate, Waive, AskEditor, CheckToken, NothingToPop, client, link
<1> QED
  BY <1>1, <1>2, <1>3, <1>4 DEF Turn, Calls

LEMMA LinkStep ==
  ASSUME [Next]_vars
  PROVE  \/ UNCHANGED <<sent, wire, held, inbox, replies>>
         \/ \E r \in Request : Sends(r)
         \/ Frames \/ Pushes \/ Pops(1)
         \/ Refused(Head(inbox)) /\ Pops(2)
BY ClientLink, ReaderLink, DispatchLink, RunLink DEF Next, vars, client, link

-----------------------------------------------------------------------------
(* The link in order.                                                      *)

LinkTyped ==
  /\ sent \in Seq(Request) /\ Len(sent) <= MaxRequests
  /\ wire \in Seq(1 .. Len(sent))
  /\ held \in 1 .. Len(sent) \union {Nothing}
  /\ inbox \in Seq(1 .. Len(sent)) /\ Len(inbox) <= Capacity
  /\ replies \in [1 .. MaxRequests -> Nat]

InOrder ==
  /\ Popped \in Nat
  /\ \A i \in 1 .. Len(inbox) : inbox[i] = Popped + i
  /\ held # Nothing => held = Framed
  /\ \A i \in 1 .. Len(wire) : wire[i] = Framed + i

(* Nothing is answered before it is popped.                                *)
UnansweredAhead == \A n \in 1 .. MaxRequests : n > Popped => replies[n] = 0

LinkInv == LinkTyped /\ InOrder /\ UnansweredAhead /\ OneReply

LEMMA LinkInit == Init => LinkInv
BY BoundsAssumption, CapacityAssumption, KindsAssumption
   DEF Init, LinkInv, LinkTyped, InOrder, UnansweredAhead, OneReply, Popped, Pushed, Framed

LEMMA LinkCounts ==
  ASSUME LinkTyped
  PROVE  /\ Len(sent) \in Nat /\ Len(wire) \in Nat /\ Len(inbox) \in Nat
         /\ Framed \in Int /\ Pushed \in Int /\ Popped \in Int
         /\ MaxRequests \in Nat /\ Capacity \in Nat
         /\ Nothing \notin Nat
BY BoundsAssumption, CapacityAssumption, KindsAssumption DEF LinkTyped, Popped, Pushed, Framed

LEMMA SendsKeeps ==
  ASSUME LinkInv, NEW r \in Request, Sends(r)
  PROVE  LinkInv' /\ Framed <= Framed' /\ Popped' = Popped
<1> USE DEF LinkInv
<1>1. /\ Len(sent) \in Nat /\ Len(wire) \in Nat /\ Len(inbox) \in Nat /\ MaxRequests \in Nat
  BY LinkCounts
<1>2. /\ sent' \in Seq(Request) /\ Len(sent') = Len(sent) + 1
      /\ \A n \in 1 .. Len(sent) : sent'[n] = sent[n]
  BY <1>1 DEF Sends, LinkTyped
<1>3. /\ wire' \in Seq(1 .. Len(sent')) /\ Len(wire') = Len(wire) + 1
      /\ \A i \in 1 .. Len(wire) : wire'[i] = wire[i]
      /\ wire'[Len(wire')] = Len(sent')
  <2>1. wire \in Seq(1 .. Len(sent'))
    BY <1>1, <1>2, SeqMonotonic DEF LinkTyped
  <2> QED
    BY <2>1, <1>1, <1>2 DEF Sends
<1>4. Framed' = Framed /\ Pushed' = Pushed /\ Popped' = Popped
  BY <1>1, <1>2, <1>3 DEF Sends, Framed, Pushed, Popped
<1>5. LinkTyped'
  <2>1. inbox \in Seq(1 .. Len(sent'))
    BY <1>1, <1>2, SeqMonotonic DEF LinkTyped
  <2>2. Len(sent') <= MaxRequests
    BY <1>1, <1>2 DEF Sends
  <2> QED
    BY <1>1, <1>2, <1>3, <2>1, <2>2 DEF Sends, LinkTyped
<1>6. InOrder'
  <2>1. Popped' \in Nat
    BY <1>4 DEF InOrder
  <2>2. \A i \in 1 .. Len(inbox') : inbox'[i] = Popped' + i
    BY <1>4 DEF Sends, InOrder
  <2>3. held' # Nothing => held' = Framed'
    BY <1>4 DEF Sends, InOrder
  <2>4. ASSUME NEW i \in 1 .. Len(wire')
        PROVE  wire'[i] = Framed' + i
    <3>1. CASE i \in 1 .. Len(wire)
      BY <3>1, <1>3, <1>4 DEF InOrder
    <3>2. CASE i = Len(wire')
      <4>1. wire'[i] = Len(sent) + 1 /\ i = Len(wire) + 1
        BY <3>2, <1>2, <1>3
      <4> QED
        BY <4>1, <1>1, <1>4 DEF Framed
    <3> QED
      BY <3>1, <3>2, <1>1, <1>3
  <2> QED
    BY <2>1, <2>2, <2>3, <2>4 DEF InOrder
<1>7. UnansweredAhead'
  BY <1>4 DEF Sends, UnansweredAhead
<1>8. OneReply'
  <2> SUFFICES ASSUME NEW n \in 1 .. Len(sent')
               PROVE  replies'[n] <= IF sent'[n].kind = "start" /\ ~sent'[n].yes THEN 2 ELSE 1
    BY DEF OneReply
  <2>1. replies' = replies
    BY DEF Sends
  <2>2. CASE n \in 1 .. Len(sent)
    BY <2>1, <2>2, <1>2 DEF OneReply
  <2>3. CASE n = Len(sent) + 1
    <3>1. n > Popped /\ n \in 1 .. MaxRequests
      BY <2>3, <1>1, <1>2 DEF Popped, Pushed, Framed, Sends
    <3>2. replies[n] = 0
      BY <3>1 DEF UnansweredAhead
    <3> QED
      BY <2>1, <3>2
  <2> QED
    BY <2>2, <2>3, <1>1, <1>2
<1> QED
  BY <1>4, <1>5, <1>6, <1>7, <1>8, LinkCounts

LEMMA FramesKeeps ==
  ASSUME LinkInv, Frames
  PROVE  LinkInv' /\ Framed <= Framed' /\ Popped' = Popped
<1> USE DEF LinkInv
<1>1. /\ Len(sent) \in Nat /\ Len(wire) \in Nat /\ Len(inbox) \in Nat /\ Nothing \notin Nat
  BY LinkCounts
<1>2. /\ Head(wire) \in 1 .. Len(sent) /\ Head(wire) = wire[1] /\ Len(wire) > 0
      /\ Tail(wire) \in Seq(1 .. Len(sent)) /\ Len(Tail(wire)) = Len(wire) - 1
      /\ \A i \in 1 .. Len(Tail(wire)) : Tail(wire)[i] = wire[i + 1]
  BY HeadTailProperties, EmptySeq, <1>1 DEF Frames, LinkTyped
<1>3. held' # Nothing /\ held' = Framed + 1
  BY <1>1, <1>2 DEF Frames, InOrder
<1>4. Framed' = Framed + 1 /\ Pushed' = Pushed /\ Popped' = Popped
  BY <1>1, <1>2, <1>3 DEF Frames, Framed, Pushed, Popped
<1>5. LinkTyped'
  BY <1>1, <1>2 DEF Frames, LinkTyped
<1>6. InOrder'
  <2>1. Popped' \in Nat
    BY <1>4 DEF InOrder
  <2>2. \A i \in 1 .. Len(inbox') : inbox'[i] = Popped' + i
    BY <1>4 DEF Frames, InOrder
  <2>3. held' # Nothing => held' = Framed'
    BY <1>3, <1>4
  <2>4. \A i \in 1 .. Len(wire') : wire'[i] = Framed' + i
    <3> SUFFICES ASSUME NEW i \in 1 .. Len(Tail(wire))
                 PROVE  Tail(wire)[i] = Framed + 1 + i
      BY <1>4 DEF Frames
    <3>1. i + 1 \in 1 .. Len(wire) /\ Tail(wire)[i] = wire[i + 1]
      BY <1>1, <1>2
    <3>2. wire[i + 1] = Framed + (i + 1)
      BY <3>1 DEF InOrder
    <3> QED
      BY <3>1, <3>2, <1>1 DEF Framed
  <2> QED
    BY <2>1, <2>2, <2>3, <2>4 DEF InOrder
<1>7. UnansweredAhead' /\ OneReply'
  BY <1>4 DEF Frames, UnansweredAhead, OneReply
<1> QED
  BY <1>4, <1>5, <1>6, <1>7, LinkCounts

LEMMA PushesKeeps ==
  ASSUME LinkInv, Pushes
  PROVE  LinkInv' /\ Framed <= Framed' /\ Popped' = Popped
<1> USE DEF LinkInv
<1>1. /\ Len(sent) \in Nat /\ Len(wire) \in Nat /\ Len(inbox) \in Nat /\ Capacity \in Nat
  BY LinkCounts
<1>2. /\ inbox' \in Seq(1 .. Len(sent)) /\ Len(inbox') = Len(inbox) + 1
      /\ \A i \in 1 .. Len(inbox) : inbox'[i] = inbox[i]
      /\ inbox'[Len(inbox')] = held
  BY <1>1, AppendProperties DEF Pushes, LinkTyped
<1>4. Framed' = Framed /\ Pushed' = Pushed + 1 /\ Popped' = Popped /\ held = Popped + Len(inbox')
  BY <1>1, <1>2 DEF Pushes, Framed, Pushed, Popped, InOrder
<1>5. LinkTyped'
  BY <1>1, <1>2 DEF Pushes, LinkTyped
<1>6. InOrder'
  <2>1. Popped' \in Nat
    BY <1>4 DEF InOrder
  <2>2. ASSUME NEW i \in 1 .. Len(inbox')
        PROVE  inbox'[i] = Popped' + i
    <3>1. CASE i \in 1 .. Len(inbox)
      BY <3>1, <1>2, <1>4 DEF InOrder
    <3>2. CASE i = Len(inbox')
      BY <3>2, <1>2, <1>4
    <3> QED
      BY <3>1, <3>2, <1>1, <1>2
  <2>3. held' = Nothing
    BY DEF Pushes
  <2>4. \A i \in 1 .. Len(wire') : wire'[i] = Framed' + i
    BY <1>4 DEF Pushes, InOrder
  <2> QED
    BY <2>1, <2>2, <2>3, <2>4 DEF InOrder
<1>7. UnansweredAhead' /\ OneReply'
  BY <1>4 DEF Pushes, UnansweredAhead, OneReply
<1> QED
  BY <1>4, <1>5, <1>6, <1>7, LinkCounts

(* What is popped is the next request in order, and nobody answered it.    *)
LEMMA NextInOrder ==
  ASSUME LinkInv, inbox # <<>>
  PROVE  /\ Head(inbox) = Popped + 1 /\ Head(inbox) \in 1 .. Len(sent)
         /\ Head(inbox) \in 1 .. MaxRequests
         /\ replies[Head(inbox)] = 0
<1>1. /\ Len(sent) \in Nat /\ Len(inbox) \in Nat /\ MaxRequests \in Nat /\ Popped \in Int
  BY LinkCounts DEF LinkInv
<1>2. Head(inbox) \in 1 .. Len(sent) /\ Head(inbox) = inbox[1] /\ Len(inbox) > 0
  BY HeadTailProperties, EmptySeq, <1>1 DEF LinkInv, LinkTyped
<1>3. Head(inbox) = Popped + 1 /\ Head(inbox) \in 1 .. MaxRequests
  BY <1>1, <1>2 DEF LinkInv, InOrder, LinkTyped
<1> QED
  BY <1>1, <1>2, <1>3 DEF LinkInv, UnansweredAhead

LEMMA PopsKeeps ==
  ASSUME LinkInv, NEW count \in {1, 2}, Pops(count), count = 2 => Refused(Head(inbox))
  PROVE  LinkInv' /\ Framed <= Framed'
<1> USE DEF LinkInv
<1>1. /\ Len(sent) \in Nat /\ Len(wire) \in Nat /\ Len(inbox) \in Nat /\ Popped \in Nat
  BY LinkCounts DEF InOrder
<1>2. /\ Tail(inbox) \in Seq(1 .. Len(sent)) /\ Len(Tail(inbox)) = Len(inbox) - 1
      /\ \A i \in 1 .. Len(Tail(inbox)) : Tail(inbox)[i] = inbox[i + 1]
      /\ Len(inbox) > 0
  BY HeadTailProperties, EmptySeq, <1>1 DEF Pops, LinkTyped
<1>3. /\ Head(inbox) = Popped + 1 /\ Head(inbox) \in 1 .. Len(sent)
      /\ Head(inbox) \in 1 .. MaxRequests /\ replies[Head(inbox)] = 0
  BY NextInOrder DEF Pops
<1>4. Framed' = Framed /\ Pushed' = Pushed /\ Popped' = Popped + 1
  BY <1>1, <1>2 DEF Pops, Framed, Pushed, Popped
<1>5. /\ replies' \in [1 .. MaxRequests -> Nat]
      /\ replies'[Head(inbox)] = count
      /\ \A n \in 1 .. MaxRequests : n # Head(inbox) => replies'[n] = replies[n]
  BY <1>3 DEF Pops, Replies, LinkTyped
<1>6. LinkTyped'
  BY <1>1, <1>2, <1>5, CapacityAssumption DEF Pops, LinkTyped
<1>7. InOrder'
  <2>1. Popped' \in Nat
    BY <1>1, <1>4
  <2>2. \A i \in 1 .. Len(inbox') : inbox'[i] = Popped' + i
    BY <1>1, <1>2, <1>4 DEF Pops, InOrder
  <2>3. held' # Nothing => held' = Framed'
    BY <1>4 DEF Pops, InOrder
  <2>4. \A i \in 1 .. Len(wire') : wire'[i] = Framed' + i
    BY <1>4 DEF Pops, InOrder
  <2> QED
    BY <2>1, <2>2, <2>3, <2>4 DEF InOrder
<1>8. UnansweredAhead'
  BY <1>1, <1>3, <1>4, <1>5 DEF UnansweredAhead
<1>9. OneReply'
  <2> SUFFICES ASSUME NEW n \in 1 .. Len(sent)
               PROVE  replies'[n] <= IF sent[n].kind = "start" /\ ~sent[n].yes THEN 2 ELSE 1
    BY DEF OneReply, Pops
  <2>1. CASE n = Head(inbox)
    BY <2>1, <1>5 DEF Refused
  <2>2. CASE n # Head(inbox)
    <3>1. n \in 1 .. MaxRequests
      BY <1>1, BoundsAssumption DEF LinkTyped
    <3> QED
      BY <2>2, <3>1, <1>5 DEF OneReply
  <2> QED
    BY <2>1, <2>2
<1> QED
  BY <1>4, <1>6, <1>7, <1>8, <1>9, LinkCounts

LEMMA RestKeeps ==
  ASSUME LinkInv, UNCHANGED <<sent, wire, held, inbox, replies>>
  PROVE  LinkInv' /\ Framed <= Framed' /\ Popped' = Popped
<1>1. LinkInv' /\ Framed' = Framed /\ Popped' = Popped
  BY DEF LinkInv, LinkTyped, InOrder, UnansweredAhead, OneReply, Popped, Pushed, Framed
<1> QED
  BY <1>1, LinkCounts DEF LinkInv

LEMMA LinkKept ==
  ASSUME LinkInv, [Next]_vars
  PROVE  LinkInv' /\ Framed <= Framed'
BY LinkStep, RestKeeps, SendsKeeps, FramesKeeps, PushesKeeps, PopsKeeps

(* Only the main thread pops.                                              *)
LEMMA OthersPopNothing ==
  ASSUME LinkInv, Client \/ Reader \/ UNCHANGED vars
  PROVE  Popped' = Popped
<1>1. CASE UNCHANGED vars
  BY <1>1, RestKeeps DEF vars, client, link
<1> QED
  BY <1>1, ClientLink, ReaderLink, RestKeeps, SendsKeeps, FramesKeeps, PushesKeeps

(* Whatever happens, requests are only added, and an answer is to a card.  *)
LEMMA SentGrows ==
  ASSUME LinkInv, [Next]_vars
  PROVE  /\ Len(sent) \in Nat /\ Len(sent') \in Nat /\ Len(sent) <= Len(sent')
         /\ \A n \in 1 .. Len(sent) : sent'[n] = sent[n]
         /\ \A n \in 1 .. Len(sent') : n > Len(sent) => RequestFits(sent'[n])
<1>1. Len(sent) \in Nat /\ sent \in Seq(Request)
  BY DEF LinkInv, LinkTyped
<1>2. CASE sent' = sent
  BY <1>1, <1>2
<1>3. ASSUME NEW r \in Request, Sends(r)
      PROVE  /\ Len(sent') = Len(sent) + 1
             /\ \A n \in 1 .. Len(sent) : sent'[n] = sent[n]
             /\ sent'[Len(sent')] = r
             /\ RequestFits(r)
  BY <1>1, <1>3 DEF Sends
<1>4. CASE \E r \in Request : Sends(r)
  BY <1>1, <1>3, <1>4
<1> QED
  BY <1>2, <1>4, LinkStep DEF Frames, Pushes, Pops

-----------------------------------------------------------------------------
(* Cards and editor round trips: what any step does to them.               *)

Waiting == {"card", "card_pop", "query", "query_pop"}

PutsUp(kind, what) ==
  /\ phase = "calls"
  /\ kind = "card" => what \in Cards
  /\ kind # "card" => kind \in Queries /\ what = kind
  /\ PutUp(kind, what)
  /\ UNCHANGED <<sent, answered, pass, decided, ran, waived, consents, writesAllowed,
                 commandsAllowed>>

Leaves ==
  /\ UNCHANGED <<asked, pass, seq, decided, ran, waived, consents, writesAllowed, commandsAllowed>>
  /\ phase' \in {"card", "card_pop"} => phase \in {"card", "card_pop"}
  /\ phase' \in Waiting => phase \in Waiting

LEMMA AskStep ==
  ASSUME [Next]_vars
  PROVE  \/ Leaves \/ BeginRun \/ CardAnswered \/ QueryAnswered
         \/ \E what \in Cards : PutsUp("card", what) \/ Waive(what)
         \/ \E kind \in Queries : PutsUp(kind, kind)
<1> USE DEF Leaves, Waiting, asks, run, session, client
<1>1. CASE Client
  BY ZenonT(60), <1>1 DEF Client, Say, AnswerCard, AnswerQuery, Send, ClientDies
<1>2. CASE Reader
  BY <1>2 DEF Reader, ReaderFrames, ReaderPushes, ReaderCloses
<1>3. CASE Dispatch
  <2>1. CASE DispatchOther \/ DispatchShutdown \/ DispatchStart \/ DispatchMessage
    BY <2>1 DEF DispatchOther, DispatchShutdown, DispatchStart, DispatchMessage
  <2>2. CASE LoadFails \/ BeginRun \/ MainExits
    BY <2>2 DEF LoadFails, MainExits
  <2> QED
    BY <1>3, <2>1, <2>2 DEF Dispatch
<1>4. CASE Turn
  BY <1>4 DEF Turn, TurnTop, TakeOne, BeginTurn, Generate, EndTurn, Rescue, EndRun
<1>5. CASE Calls
  <2>1. ASSUME NEW what \in Cards, Escalate(what) PROVE PutsUp("card", what)
    BY <2>1 DEF Escalate, PutsUp
  <2>2. ASSUME NEW kind \in Queries, AskEditor(kind) PROVE PutsUp(kind, kind)
    BY <2>2, KindsAssumption DEF AskEditor, PutsUp
  <2>3. CASE CheckToken \/ NothingToPop \/ OtherWhileWaiting
    BY <2>3 DEF CheckToken, NothingToPop, OtherWhileWaiting, WaitAgain
  <2> QED
    BY <1>5, <2>1, <2>2, <2>3 DEF Calls
<1>6. CASE UNCHANGED vars
  BY <1>6 DEF vars
<1> QED
  BY <1>1, <1>2, <1>3, <1>4, <1>5, <1>6 DEF Next

AsksTyped ==
  /\ asked \in Seq(Ask)
  /\ pass \in Nat /\ seq \in Nat
  /\ decided \subseteq (1 .. Len(asked)) \X (1 .. Len(sent))
  /\ ran \subseteq 1 .. Len(asked)

AnswersFit == \A n \in 1 .. Len(sent) : RequestFits(sent[n])

(* A wait is for the last card or round trip, which nobody has decided.    *)
WaitsForLast ==
  /\ \A k \in 1 .. Len(asked) : asked[k].kind = "card" => asked[k].what \in Cards
  /\ phase \in Waiting =>
       /\ Awaiting \in 1 .. Len(asked)
       /\ \A d \in decided : d[1] # Awaiting
  /\ phase \in {"card", "card_pop"} => asked[Awaiting].kind = "card"

(* The counter of the inbox tells the asks of one pass apart.              *)
Numbered ==
  \A k \in 1 .. Len(asked) :
    /\ asked[k].pass <= pass
    /\ asked[k].pass = pass => asked[k].id[2] <= seq
    /\ \A j \in 1 .. Len(asked) :
         asked[j].pass = asked[k].pass /\ asked[j].id[2] = asked[k].id[2] => j = k

AskInv == AsksTyped /\ AnswersFit /\ WaitsForLast /\ Numbered

LEMMA AskInit == Init => AskInv
BY DEF Init, AskInv, AsksTyped, AnswersFit, WaitsForLast, Numbered, Waiting

LEMMA AskFields ==
  ASSUME asked \in Seq(Ask), NEW k \in 1 .. Len(asked)
  PROVE  asked[k].pass \in Nat /\ asked[k].id[2] \in Nat
<1>1. asked[k] \in Ask
  OBVIOUS
<1>2. asked[k].pass \in Nat /\ asked[k].id \in Nat \X Nat
  BY <1>1 DEF Ask
<1> QED
  BY <1>2

(* What is on the books stays as it was written.                           *)
LEMMA AskedGrows ==
  ASSUME AskInv, NEW kind \in {"card", "edit", "intel"}, NEW what \in Cards \union Queries,
         PutUp(kind, what), runId \in Nat
  PROVE  /\ Len(asked) \in Nat /\ Len(asked') = Len(asked) + 1
         /\ asked' \in Seq(Ask)
         /\ \A k \in 1 .. Len(asked) : asked'[k] = asked[k]
         /\ asked'[Len(asked')] = [kind |-> kind, id |-> <<runId, seq + 1>>, what |-> what,
                                   pass |-> pass]
<1> DEFINE new == [kind |-> kind, id |-> <<runId, seq + 1>>, what |-> what, pass |-> pass]
<1>1. new \in Ask
  BY DEF Ask, AskInv, AsksTyped
<1>2. asked' = Append(asked, new) /\ asked \in Seq(Ask)
  BY DEF PutUp, AskInv, AsksTyped
<1> HIDE DEF new
<1>3. /\ Len(asked) \in Nat /\ Len(asked') = Len(asked) + 1
      /\ asked' \in Seq(Ask)
      /\ \A k \in 1 .. Len(asked) : asked'[k] = asked[k]
      /\ asked'[Len(asked')] = new
  BY <1>1, <1>2
<1> QED
  BY <1>3 DEF new

(* Answers keep fitting while cards are only added.                        *)
LEMMA AnswersKeepFitting ==
  ASSUME LinkInv, AnswersFit, [Next]_vars, Len(asked) \in Nat, Len(asked') \in Nat,
         Len(asked) <= Len(asked'),
         \A k \in 1 .. Len(asked) : asked'[k] = asked[k]
  PROVE  AnswersFit'
<1> SUFFICES ASSUME NEW n \in 1 .. Len(sent')
             PROVE  /\ sent'[n].kind = "approve" =>
                         /\ sent'[n].ask \in 1 .. Len(asked')
                         /\ asked'[sent'[n].ask].kind = "card"
                    /\ sent'[n].kind = "reply" =>
                         /\ sent'[n].ask \in 1 .. Len(asked')
                         /\ asked'[sent'[n].ask].kind \in Queries
  BY DEF AnswersFit, RequestFits
<1>1. RequestFits(sent'[n])
  BY SentGrows DEF AnswersFit
<1> QED
  BY <1>1 DEF RequestFits

LEMMA PutUpKeeps ==
  ASSUME LinkInv, AskInv, runId \in Nat, [Next]_vars,
         NEW kind \in {"card", "edit", "intel"}, NEW what \in Cards \union Queries,
         PutsUp(kind, what)
  PROVE  AskInv'
<1> USE DEF AskInv
<1>1. /\ Len(asked) \in Nat /\ Len(asked') = Len(asked) + 1
      /\ asked' \in Seq(Ask)
      /\ \A k \in 1 .. Len(asked) : asked'[k] = asked[k]
      /\ asked'[Len(asked')] = [kind |-> kind, id |-> <<runId, seq + 1>>, what |-> what,
                                pass |-> pass]
  BY AskedGrows DEF PutsUp
<1>2. /\ seq \in Nat /\ pass \in Nat /\ seq' = seq + 1 /\ pass' = pass
      /\ asked \in [1 .. Len(asked) -> Ask]
  BY <1>1 DEF PutsUp, PutUp, AsksTyped
<1>3. AsksTyped'
  BY <1>1, <1>2 DEF PutsUp, AsksTyped
<1>4. AnswersFit'
  BY <1>1, AnswersKeepFitting
<1>5. WaitsForLast'
  <2>1. \A k \in 1 .. Len(asked') : asked'[k].kind = "card" => asked'[k].what \in Cards
    BY <1>1 DEF WaitsForLast, PutsUp
  <2>2. Awaiting' \in 1 .. Len(asked') /\ Awaiting' = Len(asked) + 1
    BY <1>1 DEF Awaiting
  <2>3. \A d \in decided' : d[1] # Awaiting'
    BY <1>1, <2>2 DEF PutsUp, AsksTyped
  <2>4. phase' \in {"card", "card_pop"} => asked'[Awaiting'].kind = "card"
    BY <1>1, <2>2 DEF PutsUp, PutUp
  <2> QED
    BY <2>1, <2>2, <2>3, <2>4 DEF WaitsForLast
<1>6. Numbered'
  <2>1. asked'[Len(asked')].pass = pass' /\ asked'[Len(asked')].id[2] = seq'
    BY <1>1, <1>2
  <2>2. ASSUME NEW k \in 1 .. Len(asked)
        PROVE  /\ asked'[k] = asked[k] /\ asked[k].pass \in Nat /\ asked[k].id[2] \in Nat
               /\ asked[k].pass <= pass
               /\ asked[k].pass = pass => asked[k].id[2] < seq'
    <3>1. asked[k].pass \in Nat /\ asked[k].id[2] \in Nat
      BY AskFields DEF AsksTyped
    <3>2. asked[k].pass <= pass /\ (asked[k].pass = pass => asked[k].id[2] <= seq)
      BY DEF Numbered
    <3> QED
      BY <3>1, <3>2, <1>1, <1>2
  <2>3. \A k \in 1 .. Len(asked') : k \in 1 .. Len(asked) \/ k = Len(asked')
    BY <1>1
  <2>4. ASSUME NEW k \in 1 .. Len(asked')
        PROVE  asked'[k].pass <= pass' /\ (asked'[k].pass = pass' => asked'[k].id[2] <= seq')
    <3>1. CASE k \in 1 .. Len(asked)
      <4>1. asked[k].id[2] \in Nat /\ seq' \in Nat
        BY <3>1, <2>2, <1>2
      <4> QED
        BY <3>1, <4>1, <2>2, <1>2
    <3>2. CASE k = Len(asked')
      BY <3>2, <2>1, <1>2
    <3> QED
      BY <3>1, <3>2, <2>3
  <2>5. ASSUME NEW k \in 1 .. Len(asked'), NEW j \in 1 .. Len(asked'),
               asked'[j].pass = asked'[k].pass, asked'[j].id[2] = asked'[k].id[2]
        PROVE  j = k
    <3>1. CASE j \in 1 .. Len(asked) /\ k \in 1 .. Len(asked)
      BY <3>1, <2>2, <2>5 DEF Numbered
    <3>2. CASE j \in 1 .. Len(asked) /\ k = Len(asked')
      BY <3>2, <2>1, <2>2, <2>5, <1>2
    <3>3. CASE k \in 1 .. Len(asked) /\ j = Len(asked')
      BY <3>3, <2>1, <2>2, <2>5, <1>2
    <3> QED
      BY <3>1, <3>2, <3>3, <2>3
  <2> QED
    BY <2>4, <2>5 DEF Numbered
<1> QED
  BY <1>3, <1>4, <1>5, <1>6

(* An answer accepted under a wait closes it.                              *)
Decides ==
  /\ phase \in {"card_pop", "query_pop"}
  /\ inbox # <<>>
  /\ Answers(Head(inbox))
  /\ decided' = decided \union {<<Awaiting, Head(inbox)>>}
  /\ ran' = ran \/ ran' = ran \union {Awaiting}
  /\ phase' = "calls"
  /\ UNCHANGED <<sent, asked, pass, seq>>

LEMMA AnswerDecides ==
  ASSUME CardAnswered \/ QueryAnswered
  PROVE  Decides
<1>1. CASE CardAnswered
  BY <1>1 DEF CardAnswered, Decides, client, session
<1>2. CASE QueryAnswered
  BY <1>2 DEF QueryAnswered, Decides, client, session, run
<1> QED
  BY <1>1, <1>2

LEMMA AskKept ==
  ASSUME LinkInv, AskInv, runId \in Nat, [Next]_vars
  PROVE  AskInv'
<1> USE DEF AskInv
<1>1. Len(asked) \in Nat
  BY DEF AsksTyped
<1>2. asked' = asked => AnswersFit'
  BY <1>1, AnswersKeepFitting
<1>3. Len(sent) \in Nat /\ Len(sent') \in Nat /\ Len(sent) <= Len(sent')
  BY SentGrows
<1>4. CASE Leaves
  BY SMTT(30), <1>2, <1>3, <1>4 DEF Leaves, AsksTyped, WaitsForLast, Numbered, Awaiting
<1>5. CASE BeginRun
  <2>1. /\ UNCHANGED <<asked, decided, ran, sent>> /\ pass' = pass + 1 /\ seq' = 0
        /\ phase' = "top"
    BY <1>5 DEF BeginRun, asks, client
  <2>2. Numbered'
    <3>1. pass \in Nat
      BY DEF AsksTyped
    <3>2. ASSUME NEW k \in 1 .. Len(asked)
          PROVE  asked[k].pass <= pass + 1 /\ asked[k].pass # pass + 1
      <4>1. asked[k].pass \in Nat /\ asked[k].pass <= pass
        BY AskFields DEF AsksTyped, Numbered
      <4> QED
        BY <4>1, <3>1
    <3> QED
      BY <2>1, <3>2 DEF Numbered
  <2> QED
    BY <1>2, <2>1, <2>2 DEF AsksTyped, WaitsForLast, Waiting
<1>6. CASE CardAnswered \/ QueryAnswered
  <2>1. Decides
    BY <1>6, AnswerDecides
  <2>2. Awaiting \in 1 .. Len(asked) /\ Head(inbox) \in 1 .. Len(sent)
    BY <2>1, NextInOrder DEF Decides, WaitsForLast, Waiting
  <2>3. AsksTyped'
    <3>1. <<Awaiting, Head(inbox)>> \in (1 .. Len(asked)) \X (1 .. Len(sent))
      BY <2>2
    <3>2. decided' \subseteq (1 .. Len(asked)) \X (1 .. Len(sent)) /\ ran' \subseteq 1 .. Len(asked)
      BY <3>1, <2>1, <2>2 DEF Decides, AsksTyped
    <3> QED
      BY <3>2, <2>1 DEF Decides, AsksTyped
  <2>4. WaitsForLast' /\ Numbered'
    BY <2>1 DEF Decides, WaitsForLast, Waiting, Numbered
  <2>5. AnswersFit'
    BY <1>2, <2>1 DEF Decides
  <2> QED
    BY <2>3, <2>4, <2>5
<1>7. ASSUME NEW what \in Cards, Waive(what)
      PROVE  AskInv'
  <2>1. UNCHANGED <<asked, decided, ran, sent, pass, seq, phase>>
    BY <1>7 DEF Waive, client, run
  <2> QED
    BY <1>2, <2>1 DEF AsksTyped, WaitsForLast, Waiting, Numbered, Awaiting
<1>8. ASSUME NEW what \in Cards, PutsUp("card", what)
      PROVE  AskInv'
  BY <1>8, PutUpKeeps
<1>9. ASSUME NEW kind \in Queries, PutsUp(kind, kind)
      PROVE  AskInv'
  BY <1>9, PutUpKeeps, KindsAssumption
<1> QED
  BY <1>4, <1>5, <1>6, <1>7, <1>8, <1>9, AskStep

-----------------------------------------------------------------------------
(* What the answers decide.                                                *)

(* Books that were written are not rewritten, whatever the step.           *)
LEMMA AskedIsKept ==
  ASSUME AskInv, runId \in Nat, [Next]_vars
  PROVE  /\ Len(asked) <= Len(asked')
         /\ \A k \in 1 .. Len(asked) : asked'[k] = asked[k]
<1>0. Len(asked) \in Nat
  BY DEF AskInv, AsksTyped
<1>1. ASSUME asked' = asked
      PROVE  Len(asked) <= Len(asked') /\ \A k \in 1 .. Len(asked) : asked'[k] = asked[k]
  BY <1>0, <1>1
<1>2. ASSUME NEW kind \in {"card", "edit", "intel"}, NEW what \in Cards \union Queries,
             PutsUp(kind, what)
      PROVE  Len(asked) <= Len(asked') /\ \A k \in 1 .. Len(asked) : asked'[k] = asked[k]
  <2>1. PutUp(kind, what)
    BY <1>2 DEF PutsUp
  <2>2. Len(asked') = Len(asked) + 1 /\ \A k \in 1 .. Len(asked) : asked'[k] = asked[k]
    BY <2>1, AskedGrows
  <2> QED
    BY <1>0, <2>2
<1>3. ASSUME Leaves \/ BeginRun \/ CardAnswered \/ QueryAnswered \/ \E what \in Cards : Waive(what)
      PROVE  asked' = asked
  BY <1>3 DEF Leaves, BeginRun, CardAnswered, QueryAnswered, Waive, asks
<1>4. ASSUME \/ \E what \in Cards : PutsUp("card", what)
             \/ \E kind \in Queries : PutsUp(kind, kind)
      PROVE  Len(asked) <= Len(asked') /\ \A k \in 1 .. Len(asked) : asked'[k] = asked[k]
  BY <1>2, <1>4, KindsAssumption
<1> QED
  BY <1>1, <1>3, <1>4, AskStep

(* An accepted answer carries the id of what it decided.                   *)
Decided(d) ==
  /\ sent[d[2]].kind \in {"approve", "reply"}
  /\ RequestId(sent[d[2]].ask) = RequestId(d[1])
DecidedById == \A d \in decided : Decided(d)

(* It goes on doing so: nothing of the books it is read from changes.      *)
LEMMA DecisionsStand ==
  ASSUME LinkInv, AskInv, runId \in Nat, [Next]_vars,
         NEW k \in 1 .. Len(asked), NEW n \in 1 .. Len(sent), Decided(<<k, n>>)
  PROVE  Decided(<<k, n>>)'
<1>1. sent'[n] = sent[n] /\ asked'[k] = asked[k]
  BY SentGrows, AskedIsKept
<1>2. sent[n].kind \in {"approve", "reply"} /\ RequestId(sent[n].ask) = RequestId(k)
  BY DEF Decided
<1>3. sent[n].ask \in 1 .. Len(asked)
  BY <1>2 DEF AskInv, AnswersFit, RequestFits
<1>4. asked'[sent[n].ask] = asked[sent[n].ask]
  BY <1>3, AskedIsKept
<1> QED
  BY <1>1, <1>2, <1>4 DEF Decided, RequestId

LEMMA DecidedKept ==
  ASSUME LinkInv, AskInv, DecidedById, runId \in Nat, [Next]_vars
  PROVE  DecidedById'
<1>1. ASSUME NEW k \in 1 .. Len(asked), NEW n \in 1 .. Len(sent), <<k, n>> \in decided
      PROVE  Decided(<<k, n>>)'
  BY <1>1, DecisionsStand DEF DecidedById
<1>2. ASSUME decided' = decided
      PROVE  DecidedById'
  BY <1>1, <1>2 DEF DecidedById, AskInv, AsksTyped
<1>3. ASSUME Decides
      PROVE  DecidedById'
  <2>1. PICK k \in 1 .. Len(asked), n \in 1 .. Len(sent) : k = Awaiting /\ n = Head(inbox)
    BY <1>3, NextInOrder DEF Decides, AskInv, WaitsForLast, Waiting
  <2>2. Decided(<<k, n>>)
    BY <1>3, <2>1 DEF Decides, Answers, Decided
  <2>3. Decided(<<k, n>>)'
    BY <2>2, DecisionsStand
  <2>4. decided' = decided \union {<<k, n>>}
    BY <1>3, <2>1 DEF Decides
  <2> QED
    BY <1>1, <2>3, <2>4 DEF DecidedById, AskInv, AsksTyped
<1>4. ASSUME CardAnswered \/ QueryAnswered PROVE Decides
  BY <1>4, AnswerDecides
<1>5. ASSUME \/ Leaves \/ BeginRun
             \/ \E what \in Cards : PutsUp("card", what) \/ Waive(what)
             \/ \E kind \in Queries : PutsUp(kind, kind)
      PROVE  decided' = decided
  BY <1>5 DEF Leaves, BeginRun, Waive, PutsUp, asks
<1> QED
  BY <1>2, <1>3, <1>4, <1>5, AskStep

(* Ids are told apart within a pass, so an answer stays where it was given.*)
LEMMA AnswersStay ==
  ASSUME AskInv, DecidedById
  PROVE  AnswersStayInPass
<1> SUFFICES ASSUME NEW d \in decided,
                    asked[sent[d[2]].ask].pass = asked[d[1]].pass
             PROVE  sent[d[2]].ask = d[1]
  BY DEF AnswersStayInPass
<1>1. d[1] \in 1 .. Len(asked) /\ d[2] \in 1 .. Len(sent)
  BY DEF AskInv, AsksTyped
<1>2. Decided(d)
  BY DEF DecidedById
<1>3. sent[d[2]].ask \in 1 .. Len(asked)
  BY <1>1, <1>2 DEF Decided, AskInv, AnswersFit, RequestFits
<1>4. asked[sent[d[2]].ask].id[2] = asked[d[1]].id[2]
  BY <1>2 DEF Decided, RequestId
<1> QED
  BY <1>1, <1>3, <1>4 DEF AskInv, Numbered

(* The request that let card k run is an approval of it.                   *)
Approved(k, n) ==
  sent[n].kind = "approve" /\ sent[n].yes /\ RequestId(sent[n].ask) = RequestId(k)

LEMMA RanKept ==
  ASSUME LinkInv, AskInv, RanOnApproval, runId \in Nat, [Next]_vars
  PROVE  RanOnApproval'
<1>0. RanOnApproval <=> \A k \in ran : \E n \in 1 .. Len(sent) : Approved(k, n)
  BY DEF RanOnApproval, Approved
<1>1. ASSUME NEW k \in 1 .. Len(asked), NEW n \in 1 .. Len(sent), Approved(k, n)
      PROVE  n \in 1 .. Len(sent') /\ Approved(k, n)'
  <2>1. sent'[n] = sent[n] /\ asked'[k] = asked[k] /\ n \in 1 .. Len(sent')
    BY SentGrows, AskedIsKept
  <2>2. sent[n].ask \in 1 .. Len(asked)
    BY <1>1 DEF Approved, AskInv, AnswersFit, RequestFits
  <2>3. asked'[sent[n].ask] = asked[sent[n].ask]
    BY <2>2, AskedIsKept
  <2> QED
    BY <1>1, <2>1, <2>3 DEF Approved, RequestId
<1>2. ASSUME NEW k \in ran
      PROVE  \E n \in 1 .. Len(sent') : Approved(k, n)'
  BY <1>0, <1>1 DEF AskInv, AsksTyped
<1>3. ASSUME ran' = ran
      PROVE  RanOnApproval'
  BY <1>2, <1>3 DEF RanOnApproval, Approved
<1>4. ASSUME CardAnswered
      PROVE  RanOnApproval'
  <2>1. PICK k \in 1 .. Len(asked), n \in 1 .. Len(sent) : k = Awaiting /\ n = Head(inbox)
    BY <1>4, AnswerDecides, NextInOrder DEF Decides, AskInv, WaitsForLast, Waiting
  <2>2. ran' = IF sent[n].yes THEN ran \union {k} ELSE ran
    BY <1>4, <2>1 DEF CardAnswered, Approves
  <2>3. sent[n].yes => Approved(k, n)
    BY <1>4, <2>1 DEF CardAnswered, Answers, Approved
  <2>4. sent[n].yes => \E m \in 1 .. Len(sent') : Approved(k, m)'
    BY <1>1, <2>3
  <2> QED
    BY <1>2, <2>2, <2>4 DEF RanOnApproval, Approved
<1>5. ASSUME \/ Leaves \/ BeginRun \/ QueryAnswered
             \/ \E what \in Cards : PutsUp("card", what) \/ Waive(what)
             \/ \E kind \in Queries : PutsUp(kind, kind)
      PROVE  ran' = ran
  BY <1>5 DEF Leaves, BeginRun, QueryAnswered, Waive, PutsUp, asks
<1> QED
  BY <1>3, <1>4, <1>5, AskStep

-----------------------------------------------------------------------------
(* Consents.                                                               *)

ConsentsTyped ==
  /\ writesAllowed \in BOOLEAN /\ commandsAllowed \subseteq Commands
  /\ waived \subseteq Nat \X Cards /\ consents \subseteq Nat \X Cards

(* What this RunInbox lets pass, the operator consented to in this run.    *)
OnRecord ==
  /\ writesAllowed => <<pass, Writes>> \in consents
  /\ \A c \in commandsAllowed : <<pass, c>> \in consents

ConsentInv == ConsentsTyped /\ OnRecord /\ ConsentIsRunScoped

LEMMA ConsentKept ==
  ASSUME AskInv, ConsentInv, [Next]_vars
  PROVE  ConsentInv'
<1> USE DEF ConsentInv
<1>0. pass \in Nat
  BY DEF AskInv, AsksTyped
<1>1. CASE UNCHANGED <<pass, writesAllowed, commandsAllowed, waived, consents>>
  BY <1>1 DEF ConsentsTyped, OnRecord, ConsentIsRunScoped
<1>2. CASE BeginRun
  BY <1>2 DEF BeginRun, NoConsents, asks, ConsentsTyped, OnRecord, ConsentIsRunScoped
<1>3. ASSUME NEW what \in Cards, Waive(what)
      PROVE  ConsentInv'
  <2>1. UNCHANGED <<pass, writesAllowed, commandsAllowed, consents>>
    BY <1>3 DEF Waive, run
  <2>2. waived' = waived \union {<<pass, what>>} /\ <<pass, what>> \in consents
    BY <1>3 DEF Waive, Consented, OnRecord
  <2> QED
    BY <1>0, <2>1, <2>2 DEF ConsentsTyped, OnRecord, ConsentIsRunScoped
<1>4. CASE CardAnswered
  <2> DEFINE r == sent[Head(inbox)]
             what == asked[Awaiting].what
             command == IF GrantsCommand(r) /\ what # Writes THEN {what} ELSE {}
             granted == command \union (IF GrantsWrites(r) THEN {Writes} ELSE {})
  <2>1. /\ writesAllowed' = (writesAllowed \/ GrantsWrites(r))
        /\ commandsAllowed' = commandsAllowed \union command
        /\ consents' = consents \union {<<pass, g>> : g \in granted}
        /\ UNCHANGED <<pass, waived>>
    BY <1>4 DEF CardAnswered
  <2>2. what \in Cards
    BY <1>4 DEF CardAnswered, AskInv, WaitsForLast, Waiting
  <2>3. command \subseteq Commands /\ granted \subseteq Cards /\ command \subseteq granted
        /\ (GrantsWrites(r) => Writes \in granted)
    BY <2>2 DEF Cards
  <2> HIDE DEF granted, command, r, what
  <2>4. ConsentsTyped'
    <3>1. writesAllowed' \in BOOLEAN
      BY <2>1 DEF ConsentsTyped, GrantsWrites
    <3> QED
      BY <1>0, <2>1, <2>3, <3>1 DEF ConsentsTyped
  <2>5. OnRecord'
    BY <2>1, <2>3 DEF OnRecord
  <2>6. ConsentIsRunScoped'
    BY <2>1 DEF ConsentIsRunScoped
  <2> QED
    BY <2>4, <2>5, <2>6
<1>5. ASSUME \/ Leaves \/ QueryAnswered
             \/ \E what \in Cards : PutsUp("card", what)
             \/ \E kind \in Queries : PutsUp(kind, kind)
      PROVE  UNCHANGED <<pass, writesAllowed, commandsAllowed, waived, consents>>
  BY <1>5 DEF Leaves, QueryAnswered, PutsUp, run
<1> QED
  BY <1>1, <1>2, <1>3, <1>4, <1>5, AskStep

-----------------------------------------------------------------------------
(* The conversation: what any step does to it.                             *)

Between == {"dispatch", "loading", "rebinding", "exited"}

ConversationTyped ==
  /\ context \in Seq(1 .. Len(sent))
  /\ steering \in Seq(1 .. Len(sent))
  /\ acked \in Seq(1 .. Len(sent))

(* Between runs there is no RunInbox for anything to lie in.               *)
NothingLeftBehind == phase \in Between => steering = <<>>

ConversationInv == ConversationTyped /\ NothingLeftBehind /\ SteeringKept

Talks(n) ==
  \/ steering' = Append(steering, n) /\ context' = context /\ phase' \notin Between
  \/ phase \in Between /\ context' = Append(context, n) /\ steering' = steering

LEMMA ConversationStep ==
  ASSUME [Next]_vars
  PROVE  \/ /\ UNCHANGED <<context, steering, acked>>
            /\ phase' \in Between => phase \in Between
         \/ HandOver /\ acked' = acked
         \/ BeginRun
         \/ inbox # <<>> /\ acked' = Append(acked, Head(inbox)) /\ Talks(Head(inbox))
<1> USE DEF Between, session, run, history
<1>1. CASE Client
  BY <1>1 DEF Client, Say, AnswerCard, AnswerQuery, Send, ClientDies
<1>2. CASE Reader
  BY <1>2 DEF Reader, ReaderFrames, ReaderPushes, ReaderCloses
<1>3. CASE Dispatch
  <2>1. CASE DispatchOther \/ DispatchShutdown \/ DispatchStart \/ LoadFails \/ MainExits
    BY <2>1 DEF DispatchOther, DispatchShutdown, DispatchStart, LoadFails, MainExits
  <2>2. CASE DispatchMessage
    BY <2>2 DEF DispatchMessage, PopFor, Pop, Talks
  <2> QED
    BY <1>3, <2>1, <2>2 DEF Dispatch
<1>4. CASE Turn
  <2>1. CASE TurnTop \/ Generate \/ EndTurn
    BY <2>1 DEF TurnTop, Generate, EndTurn
  <2>2. CASE BeginTurn \/ Rescue \/ EndRun
    BY <2>2 DEF BeginTurn, Rescue, EndRun
  <2>3. CASE TakeOne
    BY <2>3 DEF TakeOne, Handle, Talks
  <2> QED
    BY <1>4, <2>1, <2>2, <2>3 DEF Turn
<1>5. CASE Calls
  <2>1. CASE \/ \E what \in Cards : Escalate(what) \/ Waive(what)
             \/ \E kind \in Queries : AskEditor(kind)
             \/ CheckToken \/ NothingToPop \/ CardAnswered \/ QueryAnswered
    BY <2>1 DEF Escalate, Waive, AskEditor, PutUp, CheckToken, NothingToPop, WaitAgain, CardAnswered,
                QueryAnswered
  <2>2. CASE OtherWhileWaiting
    BY <2>2 DEF OtherWhileWaiting, Handle, Talks, WaitAgain
  <2> QED
    BY <1>5, <2>1, <2>2 DEF Calls
<1>6. CASE UNCHANGED vars
  BY <1>6 DEF vars
<1> QED
  BY <1>1, <1>2, <1>3, <1>4, <1>5, <1>6 DEF Next

(* Appending on the right of what is already in order.                     *)
LEMMA AppendedLast ==
  ASSUME NEW S, NEW s \in Seq(S), NEW t \in Seq(S), NEW e \in S
  PROVE  s \o Append(t, e) = Append(s \o t, e)
<1>1. Append(t, e) = t \o <<e>> /\ <<e>> \in Seq(S) /\ s \o t \in Seq(S)
  BY AppendIsConcat, ConcatProperties
<1>2. Append(s \o t, e) = (s \o t) \o <<e>>
  BY <1>1, AppendIsConcat
<1> QED
  BY <1>1, <1>2, ConcatAssociative

LEMMA ConversationKept ==
  ASSUME LinkInv, ConversationInv, [Next]_vars
  PROVE  ConversationInv'
<1> USE DEF ConversationInv
<1> DEFINE Now == 1 .. Len(sent)
           Next1 == 1 .. Len(sent')
<1>1. Now \subseteq Next1
  BY SentGrows
<1>2. \A s \in Seq(Now) : s \in Seq(Next1)
  BY <1>1, SeqMonotonic
<1> HIDE DEF Now, Next1
<1>3. context \in Seq(Now) /\ steering \in Seq(Now) /\ acked \in Seq(Now)
  BY DEF ConversationTyped, Now
<1>4. ASSUME context' \in Seq(Now), steering' \in Seq(Now), acked' \in Seq(Now)
      PROVE  ConversationTyped'
  BY <1>2, <1>4 DEF ConversationTyped, Next1
<1>5. CASE UNCHANGED <<context, steering, acked>> /\ (phase' \in Between => phase \in Between)
  BY <1>3, <1>4, <1>5 DEF NothingLeftBehind, SteeringKept
<1>6. CASE HandOver /\ acked' = acked
  <2>1. context' = acked /\ steering' = <<>> /\ acked' = acked
    BY <1>6 DEF HandOver, SteeringKept
  <2>2. context' \o steering' = acked'
    BY <1>3, <2>1, ConcatEmptySeq
  <2>3. steering' \in Seq(Now)
    BY <2>1
  <2> QED
    BY <1>3, <1>4, <2>1, <2>2, <2>3 DEF NothingLeftBehind, SteeringKept
<1>7. CASE BeginRun
  <2>1. steering' = <<>> /\ phase' = "top"
    BY <1>7 DEF BeginRun
  <2>2. CASE context' = <<>> /\ acked' = <<>>
    BY <2>1, <2>2, <1>4 DEF NothingLeftBehind, SteeringKept, Between
  <2>3. CASE context' = context /\ acked' = acked /\ phase = "rebinding"
    BY <1>3, <1>4, <2>1, <2>3 DEF NothingLeftBehind, SteeringKept, Between
  <2> QED
    BY <1>7, <2>2, <2>3 DEF BeginRun
<1>8. ASSUME inbox # <<>>, acked' = Append(acked, Head(inbox)), Talks(Head(inbox))
      PROVE  ConversationInv'
  <2>1. PICK n \in Now : n = Head(inbox)
    BY <1>8, NextInOrder DEF Now
  <2>2. Append(acked, n) \in Seq(Now) /\ Append(context, n) \in Seq(Now) /\ Append(steering, n) \in Seq(Now)
    BY <1>3
  <2>3. CASE steering' = Append(steering, n) /\ context' = context /\ phase' \notin Between
    <3>1. context \o Append(steering, n) = Append(context \o steering, n)
      BY <1>3, AppendedLast
    <3> QED
      BY <1>3, <1>4, <1>8, <2>1, <2>2, <2>3, <3>1 DEF NothingLeftBehind, SteeringKept
  <2>4. CASE phase \in Between /\ context' = Append(context, n) /\ steering' = steering
    <3>1. steering = <<>> /\ context = acked
      BY <2>4, <1>3, ConcatEmptySeq DEF NothingLeftBehind, SteeringKept
    <3>2. Append(context, n) \o <<>> = Append(context, n)
      BY <2>2, ConcatEmptySeq
    <3> QED
      BY <1>3, <1>4, <1>8, <2>1, <2>2, <2>4, <3>1, <3>2 DEF NothingLeftBehind, SteeringKept
  <2> QED
    BY <1>8, <2>1, <2>3, <2>4 DEF Talks
<1> QED
  BY <1>5, <1>6, <1>7, <1>8, ConversationStep

-----------------------------------------------------------------------------
(* The token: set when a cancel is framed, long before it is popped.       *)

TokenTyped ==
  /\ token \in BOOLEAN
  /\ cancelFrom \in 0 .. Len(sent)
  /\ token <=> cancelFrom # 0

(* A cancel that comes while a card is up is still ahead of the wait.      *)
CancelAhead ==
  /\ cancelFrom # 0 => cancelFrom <= Framed /\ sent[cancelFrom].kind = "cancel"
  /\ phase = "card_pop" /\ cancelFrom # 0 => Popped < cancelFrom

TokenInv == TokenTyped /\ CancelAhead

LEMMA TokenStep ==
  ASSUME [Next]_vars
  PROVE  \/ /\ UNCHANGED <<token, cancelFrom>>
            /\ phase' = "card_pop" =>
                 ~token \/ (phase = "card_pop" /\ (Client \/ Reader \/ UNCHANGED vars))
         \/ ReaderFrames
         \/ BeginRun
<1> USE DEF history, link
<1>1. CASE Client
  BY <1>1 DEF Client, Say, AnswerCard, AnswerQuery, Send, ClientDies
<1>2. CASE Reader
  BY <1>2 DEF Reader, ReaderPushes, ReaderCloses
<1>3. CASE Dispatch
  BY <1>3 DEF Dispatch, DispatchOther, DispatchShutdown, DispatchStart, DispatchMessage, LoadFails, MainExits
<1>4. CASE Turn
  BY <1>4 DEF Turn, TurnTop, TakeOne, Handle, BeginTurn, Generate, EndTurn, Rescue, EndRun
<1>5. CASE Calls
  <2>1. ASSUME NEW what \in Cards, Escalate(what) \/ Waive(what)
        PROVE  UNCHANGED <<token, cancelFrom>> /\ phase' # "card_pop"
    BY <2>1 DEF Escalate, Waive, PutUp
  <2>2. ASSUME NEW kind \in Queries, AskEditor(kind)
        PROVE  UNCHANGED <<token, cancelFrom>> /\ phase' # "card_pop"
    BY <2>2 DEF AskEditor, PutUp
  <2>3. CASE CheckToken
    BY <2>3 DEF CheckToken
  <2>4. CASE NothingToPop \/ CardAnswered \/ QueryAnswered \/ OtherWhileWaiting
    BY <2>4 DEF NothingToPop, CardAnswered, QueryAnswered, OtherWhileWaiting, Handle, WaitAgain
  <2> QED
    BY <1>5, <2>1, <2>2, <2>3, <2>4 DEF Calls
<1>6. CASE UNCHANGED vars
  BY <1>6 DEF vars
<1> QED
  BY <1>1, <1>2, <1>3, <1>4, <1>5, <1>6 DEF Next

LEMMA TokenKept ==
  ASSUME LinkInv, TokenInv, [Next]_vars
  PROVE  TokenInv'
<1> USE DEF TokenInv
<1>1. /\ Len(sent) \in Nat /\ Len(sent') \in Nat /\ Len(sent) <= Len(sent')
      /\ \A n \in 1 .. Len(sent) : sent'[n] = sent[n]
  BY SentGrows
<1>2. Framed \in Int /\ Framed' \in Int /\ Framed <= Framed' /\ Popped \in Nat
  BY LinkKept, LinkCounts DEF LinkInv, Framed, LinkTyped, InOrder
<1>3. cancelFrom \in Nat /\ (cancelFrom # 0 => cancelFrom \in 1 .. Len(sent))
  BY <1>1 DEF TokenTyped
<1>4. CASE /\ UNCHANGED <<token, cancelFrom>>
           /\ phase' = "card_pop" =>
                ~token \/ (phase = "card_pop" /\ (Client \/ Reader \/ UNCHANGED vars))
  <2>1. TokenTyped'
    BY <1>1, <1>4 DEF TokenTyped
  <2>2. cancelFrom' # 0 => cancelFrom' <= Framed' /\ sent'[cancelFrom'].kind = "cancel"
    BY <1>1, <1>2, <1>3, <1>4 DEF CancelAhead
  <2>3. ASSUME phase' = "card_pop", cancelFrom' # 0
        PROVE  Popped' < cancelFrom'
    <3>1. phase = "card_pop" /\ Popped' = Popped
      BY <1>4, <2>3, OthersPopNothing DEF TokenTyped
    <3> QED
      BY <1>4, <2>3, <3>1 DEF CancelAhead
  <2> QED
    BY <2>1, <2>2, <2>3 DEF CancelAhead
<1>5. CASE ReaderFrames
  <2>1. /\ wire # <<>> /\ sent' = sent /\ wire' = Tail(wire) /\ Popped' = Popped
    BY <1>5, OthersPopNothing DEF ReaderFrames, Reader, client
  <2>2. /\ Head(wire) \in 1 .. Len(sent) /\ Head(wire) = wire[1] /\ Len(wire) \in Nat /\ 0 < Len(wire)
        /\ Len(wire') = Len(wire) - 1
    BY <2>1, HeadTailProperties, EmptySeq DEF LinkInv, LinkTyped
  <2>3. Head(wire) = Framed + 1 /\ Framed' = Framed + 1
    BY <1>1, <2>1, <2>2 DEF LinkInv, InOrder, Framed
  <2>4. Popped < Head(wire)
    BY <2>3, <1>1, <2>2 DEF LinkInv, LinkTyped, Popped, Pushed, Framed
  <2>5. CASE sent[Head(wire)].kind = "cancel" /\ cancelFrom = 0
    <3>1. token' = TRUE /\ cancelFrom' = Head(wire)
      BY <1>5, <2>5 DEF ReaderFrames
    <3> QED
      BY <1>1, <2>1, <2>2, <2>3, <2>4, <2>5, <3>1 DEF TokenTyped, CancelAhead
  <2>6. CASE ~(sent[Head(wire)].kind = "cancel" /\ cancelFrom = 0)
    <3>1. cancelFrom' = cancelFrom /\ (token' <=> token) /\ token' \in BOOLEAN /\ phase' = phase
      BY <1>5, <2>6 DEF ReaderFrames, TokenTyped
    <3> QED
      BY <1>2, <1>3, <2>1, <2>3, <3>1 DEF TokenTyped, CancelAhead
  <2> QED
    BY <2>5, <2>6
<1>6. CASE BeginRun
  <2>1. token' = FALSE /\ cancelFrom' = 0
    BY <1>6 DEF BeginRun
  <2>2. 0 \in 0 .. Len(sent')
    BY <1>1
  <2> QED
    BY <2>1, <2>2 DEF TokenTyped, CancelAhead
<1> QED
  BY <1>4, <1>5, <1>6, TokenStep

-----------------------------------------------------------------------------
(* The rest of the state, which nothing above depends on.                  *)

RestTyped ==
  /\ answered \subseteq 1 .. Len(asked)
  /\ stdin \in {"open", "eof"}
  /\ closed \in BOOLEAN
  /\ phase \in Phases
  /\ hasContext \in BOOLEAN /\ runId \in Nat
  /\ turns \in Nat
  /\ shutdown \in BOOLEAN
  /\ cancelAcked \in BOOLEAN

SidecarInv ==
  /\ LinkInv /\ AskInv /\ DecidedById /\ RanOnApproval
  /\ ConsentInv /\ ConversationInv /\ TokenInv /\ RestTyped

LEMMA SidecarInvInit == Init => SidecarInv
<1> SUFFICES ASSUME Init PROVE SidecarInv
  OBVIOUS
<1>1. LinkInv
  BY LinkInit
<1>2. AskInv
  BY AskInit
<1>3. DecidedById /\ RanOnApproval /\ ConsentInv
  BY DEF Init, DecidedById, RanOnApproval, ConsentInv, ConsentsTyped, OnRecord, ConsentIsRunScoped
<1>4. ConversationInv
  BY EmptySeq, ConcatEmptySeq DEF Init, ConversationInv, ConversationTyped, NothingLeftBehind, SteeringKept
<1>5. TokenInv
  <2>1. token = FALSE /\ cancelFrom = 0 /\ cancelFrom \in 0 .. Len(sent)
    BY DEF Init
  <2>2. TokenTyped
    BY <2>1 DEF TokenTyped
  <2>3. CancelAhead
    BY <2>1 DEF CancelAhead
  <2> QED
    BY <2>2, <2>3 DEF TokenInv
<1>6. RestTyped
  BY DEF Init, RestTyped, Phases
<1> QED
  BY <1>1, <1>2, <1>3, <1>4, <1>5, <1>6 DEF SidecarInv

LEMMA RestKept ==
  ASSUME LinkInv, AskInv, RestTyped, [Next]_vars
  PROVE  RestTyped'
<1> USE DEF RestTyped
<1>0. /\ Len(asked) \in Nat /\ Len(asked') \in Nat /\ Len(asked) <= Len(asked')
  BY AskedIsKept, AskKept DEF AskInv, AsksTyped
<1>1. CASE Client
  <2>1. ASSUME NEW kind \in Kinds, NEW usable \in BOOLEAN, Say(kind, usable) PROVE RestTyped'
    BY <2>1 DEF Say, Send, session, run, asks, history
  <2>2. ASSUME NEW k \in 1 .. Len(asked), NEW r \in Request, Send(r), answered' = answered \union {k}
        PROVE  RestTyped'
    BY <2>2 DEF Send, session, run, asks, history
  <2>3. CASE ClientDies
    BY <2>3 DEF ClientDies, link, session, run, asks, history
  <2>4. ASSUME NEW k \in 1 .. Len(asked), NEW yes \in BOOLEAN, NEW always \in BOOLEAN,
               AnswerCard(k, yes, always)
        PROVE  RestTyped'
    <3>1. [kind |-> "approve", ask |-> k, yes |-> yes, always |-> always] \in Request
      BY <1>0 DEF Request, Kinds
    <3> QED
      BY <2>2, <2>4, <3>1 DEF AnswerCard
  <2>5. ASSUME NEW k \in 1 .. Len(asked), NEW ok \in BOOLEAN, AnswerQuery(k, ok)
        PROVE  RestTyped'
    <3>1. [kind |-> "reply", ask |-> k, yes |-> ok, always |-> FALSE] \in Request
      BY <1>0 DEF Request, Kinds
    <3> QED
      BY <2>2, <2>5, <3>1 DEF AnswerQuery
  <2> QED
    BY <1>1, <2>1, <2>3, <2>4, <2>5 DEF Client
<1>2. CASE Reader
  BY <1>2 DEF Reader, ReaderFrames, ReaderPushes, ReaderCloses, client, session, run, asks, history
<1>3. CASE Dispatch
  <2>1. CASE DispatchOther \/ DispatchShutdown
    BY <2>1 DEF DispatchOther, DispatchShutdown, client, session, run, asks, history, Phases
  <2>2. CASE DispatchStart
    <3>1. runId' \in Nat /\ phase' \in {"loading", phase}
      BY <2>2 DEF DispatchStart
    <3> QED
      BY <2>2, <3>1 DEF DispatchStart, client, run, asks, history, Phases
  <2>3. CASE DispatchMessage
    BY <2>3 DEF DispatchMessage, client, run, asks, Phases
  <2>4. CASE LoadFails \/ MainExits
    BY <2>4 DEF LoadFails, MainExits, client, link, session, run, asks, history, Phases
  <2>5. CASE BeginRun
    <3>1. hasContext' \in BOOLEAN
      BY <2>5 DEF BeginRun
    <3>2. /\ turns' = 0 /\ shutdown' = FALSE /\ cancelAcked' = FALSE /\ phase' = "top"
          /\ UNCHANGED <<answered, stdin, closed, runId, asked>>
      BY <2>5 DEF BeginRun, client, link, asks
    <3> QED
      BY <3>1, <3>2 DEF Phases, Turning
  <2> QED
    BY <1>3, <2>1, <2>2, <2>3, <2>4, <2>5 DEF Dispatch
<1>4. CASE Turn
  <2>1. CASE TurnTop \/ EndTurn
    BY <2>1 DEF TurnTop, EndTurn, client, link, session, run, asks, history, Phases, Turning
  <2>4. CASE Generate
    BY <2>4 DEF Generate, client, link, session, asks, history, Phases, Turning
  <2>2. CASE BeginTurn \/ Rescue \/ EndRun
    BY <2>2 DEF BeginTurn, Rescue, EndRun, client, link, asks, history, Phases, Turning
  <2>3. CASE TakeOne
    BY <2>3 DEF TakeOne, Handle, client, session, asks
  <2> QED
    BY <1>4, <2>1, <2>2, <2>3, <2>4 DEF Turn
<1>5. CASE Calls
  <2>1. ASSUME NEW kind, NEW what, PutUp(kind, what),
               UNCHANGED <<client, session, turns, shutdown, history, closed>>
        PROVE  RestTyped'
    BY <2>1, <1>0 DEF PutUp, client, session, history, Phases, Turning
  <2>2. ASSUME NEW what \in Cards, Escalate(what) PROVE RestTyped'
    BY <2>1, <2>2 DEF Escalate, link
  <2>3. ASSUME NEW kind \in Queries, AskEditor(kind) PROVE RestTyped'
    BY <2>1, <2>3 DEF AskEditor, link
  <2>4. ASSUME NEW what \in Cards, Waive(what) PROVE RestTyped'
    BY <2>4 DEF Waive, client, link, session, run, history
  <2>5. CASE CheckToken \/ NothingToPop
    BY <2>5 DEF CheckToken, NothingToPop, WaitAgain, client, link, session, run, asks, history, Phases, Turning
  <2>6. CASE CardAnswered \/ QueryAnswered
    BY <2>6 DEF CardAnswered, QueryAnswered, client, session, run, history, Phases, Turning
  <2>7. CASE OtherWhileWaiting
    BY <2>7 DEF OtherWhileWaiting, Handle, WaitAgain, client, session, asks, Phases, Turning
  <2> QED
    BY <1>5, <2>2, <2>3, <2>4, <2>5, <2>6, <2>7 DEF Calls
<1>6. CASE UNCHANGED vars
  BY <1>6 DEF vars, client, link, session, run, asks, history
<1> QED
  BY <1>1, <1>2, <1>3, <1>4, <1>5, <1>6 DEF Next

LEMMA SidecarInvNext == SidecarInv /\ [Next]_vars => SidecarInv'
<1> SUFFICES ASSUME SidecarInv, [Next]_vars PROVE SidecarInv'
  OBVIOUS
<1> USE DEF SidecarInv
<1>1. runId \in Nat
  BY DEF RestTyped
<1>2. LinkInv' /\ AskInv' /\ DecidedById' /\ RanOnApproval'
  BY <1>1, LinkKept, AskKept, DecidedKept, RanKept
<1>3. ConsentInv' /\ ConversationInv' /\ TokenInv' /\ RestTyped'
  BY ConsentKept, ConversationKept, TokenKept, RestKept
<1> QED
  BY <1>2, <1>3

(* The conjunction of what the links, the cards, the consents, the         *)
(* conversation and the token keep is inductive.                           *)
THEOREM SidecarInvariant == Spec => []SidecarInv
BY SidecarInvInit, SidecarInvNext, PTL DEF Spec

-----------------------------------------------------------------------------
(* No step takes any variable of the control plane out of its type: the    *)
(* inbox holds at most Capacity requests, and no decision, consent or      *)
(* acknowledgement names a request or a card that does not exist.          *)
THEOREM SidecarTypeCorrect == Spec => []TypeOK
<1>1. SidecarInv => TypeOK
  BY DEF SidecarInv, LinkInv, LinkTyped, AskInv, AsksTyped, ConsentInv, ConsentsTyped, ConversationInv,
         ConversationTyped, TokenInv, TokenTyped, RestTyped, TypeOK
<1> QED
  BY <1>1, SidecarInvariant, PTL

(* Whoever pops a request - dispatch_one, a turn boundary, a card or an    *)
(* edit wait - answers it, and nobody answers it again.                    *)
THEOREM AnsweredOnce == Spec => []OneReply
<1>1. SidecarInv => OneReply
  BY DEF SidecarInv, LinkInv
<1> QED
  BY <1>1, SidecarInvariant, PTL

(* What the user was told is accepted is in the conversation or on its way *)
(* there, in order, whatever the run was doing and however it ended.       *)
THEOREM NothingSaidIsLost == Spec => []SteeringKept
<1>1. SidecarInv => SteeringKept
  BY DEF SidecarInv, ConversationInv
<1> QED
  BY <1>1, SidecarInvariant, PTL

(* A call runs on a yes to a card that carries its id, never otherwise.    *)
THEOREM DenyByDefault == Spec => []RanOnApproval
<1>1. SidecarInv => RanOnApproval
  BY DEF SidecarInv
<1> QED
  BY <1>1, SidecarInvariant, PTL

(* Within a run a late answer decides what it was given for, or nothing.   *)
THEOREM LateAnswersDecideNothing == Spec => []AnswersStayInPass
<1>1. SidecarInv => AnswersStayInPass
  BY AnswersStay DEF SidecarInv
<1> QED
  BY <1>1, SidecarInvariant, PTL

(* What passes without a card was consented to in the same run.            *)
THEOREM ConsentDiesWithRun == Spec => []ConsentIsRunScoped
<1>1. SidecarInv => ConsentIsRunScoped
  BY DEF SidecarInv, ConsentInv
<1> QED
  BY <1>1, SidecarInvariant, PTL

(* An approval that runs a call in a run already cancelled was sent before *)
(* the cancel: the token check before each pop, and the order of the       *)
(* inbox, leave no other.                                                  *)
THEOREM CancelStopsApprovals == Spec => NoApprovalAfterCancel
<1>1. ASSUME SidecarInv, [Next]_vars
      PROVE  [\A k \in ran' \ ran : \A n \in 1 .. Len(sent) :
                <<k, n>> \in decided' /\ cancelFrom # 0 => n < cancelFrom]_vars
  <2> SUFFICES ASSUME NEW k \in ran' \ ran, NEW n \in 1 .. Len(sent),
                      <<k, n>> \in decided', cancelFrom # 0
               PROVE  n < cancelFrom
    OBVIOUS
  <2>1. CardAnswered
    BY <1>1, AskStep DEF Leaves, BeginRun, QueryAnswered, PutsUp, Waive, asks
  <2>2. /\ phase = "card_pop" /\ inbox # <<>> /\ k = Awaiting
        /\ sent[Head(inbox)].kind = "approve"
        /\ decided' = decided \union {<<Awaiting, Head(inbox)>>}
    BY <2>1 DEF CardAnswered, Answers
  <2>3. n = Head(inbox)
    BY <1>1, <2>2 DEF SidecarInv, AskInv, WaitsForLast, Waiting
  <2>4. n = Popped + 1 /\ Popped \in Nat
    BY <1>1, <2>2, <2>3, NextInOrder DEF SidecarInv, LinkInv, InOrder
  <2>5. Popped < cancelFrom /\ cancelFrom \in Nat /\ n # cancelFrom
    BY <1>1, <2>2, <2>3 DEF SidecarInv, TokenInv, TokenTyped, CancelAhead
  <2> QED
    BY <2>4, <2>5
<1> QED
  BY <1>1, SidecarInvariant, PTL DEF Spec, NoApprovalAfterCancel
=============================================================================
