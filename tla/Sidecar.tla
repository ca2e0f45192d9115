------------------------------ MODULE Sidecar -------------------------------
(***************************************************************************)
(* The control plane of the sidecar process (src/surface/sidecar.cpp,      *)
(* src/surface/transport.cpp): what happens to what the human says while   *)
(* the model is working.                                                   *)
(*                                                                         *)
(* Three parties.  The CLIENT (the editor extension) writes requests to    *)
(* the sidecar's stdin and closes it when it dies.  The READER thread      *)
(* frames them, sets the cancel token itself for lmp/cancel, and pushes    *)
(* every request to the inbox.  The MAIN thread pops the inbox: in         *)
(* dispatch_one when nothing runs, and through RunInbox at the turn        *)
(* boundaries and under the approval cards of a run.                       *)
(*                                                                         *)
(* A request is its position in the sequence `sent`; a card or an editor   *)
(* round trip is its position in `asked`, which no code keeps: it is how   *)
(* the properties tell apart two cards that carry the same request id.     *)
(***************************************************************************)
EXTENDS Naturals, Sequences, FiniteSets

CONSTANTS
  Capacity,     \* of the inbox (256 in the code)
  Commands,     \* commands a model may ask to run
  Queries,      \* what this client answers: a subset of {"edit", "intel"}
  MaxRequests,  \* bound: requests the client sends
  MaxAsks,      \* bound: cards and editor round trips
  MaxTurns,     \* config_.budget.max_iterations
  Nothing       \* the reader holds no message

ASSUME CapacityAssumption == Capacity \in Nat \ {0}
ASSUME BoundsAssumption ==
  MaxRequests \in Nat /\ MaxAsks \in Nat /\ MaxTurns \in Nat
ASSUME KindsAssumption ==
  /\ Queries \subseteq {"edit", "intel"}
  /\ Commands \cap {"write", "edit", "intel"} = {}
  /\ Nothing \notin Nat

VARIABLES
  sent,       \* every request the client has written, in order
  answered,   \* the cards and round trips the client has answered
  stdin,      \* "open" or "eof"
  wire,       \* written and not yet framed by the reader
  held,       \* framed by the reader and not yet pushed
  inbox,      \* the channel, as BoundedQueue specifies it
  closed,     \* the reader saw end-of-file and closed the channel
  token,      \* model::CancelToken
  phase,      \* where the main thread is
  hasContext, \* session.ctx is not null
  runId,      \* session.run_id, the last one minted
  pass,       \* how many times run_loop was entered
  turns,      \* report.iterations of this pass
  seq,        \* RunInbox::seq_
  steering,   \* RunInbox::steering_
  writesAllowed,    \* RunInbox::allow_writes_for_run_
  commandsAllowed,  \* RunInbox::run_allowed_commands_
  shutdown,   \* RunInbox::shutdown_
  context,    \* the user messages in session.ctx
  replies,    \* how many replies each request got
  asked,      \* every card and round trip, in order
  decided,    \* <<ask, request>>: the answer accepted for it
  ran,        \* the cards whose ask() returned true
  acked,      \* history: the messages acknowledged for this context
  waived,     \* history: <<pass, what>> allowed without a card
  consents,   \* history: <<pass, what>> the operator consented to
  cancelFrom, \* history: first cancel framed since the token was reset, or 0
  cancelAcked \* history: this pass acknowledged a cancel

client == <<sent, answered, stdin>>
link == <<wire, held, inbox, closed>>
session == <<hasContext, runId, context>>
run == <<pass, turns, seq, steering, writesAllowed, commandsAllowed, shutdown>>
asks == <<asked, decided, ran, waived, consents>>
history == <<acked, cancelFrom, cancelAcked>>

vars == <<client, link, token, phase, session, run, replies, asks, history>>

-----------------------------------------------------------------------------
(* The phases of the main thread inside Agent::run, and inside a run_loop. *)
Turning == {"top", "drain", "generating", "calls", "card", "card_pop",
            "query", "query_pop", "rescue"}
Phases == Turning \union
          {"dispatch", "loading", "rebinding", "late", "exited"}

Writes == "write"
Cards == Commands \union {Writes}

Kinds == {"start", "message", "cancel", "shutdown", "approve", "reply"}
(* `yes` is the answer an approve or a reply gives; of a start, that its   *)
(* settings are usable.                                                    *)
Request == [kind : Kinds, ask : Nat, yes : BOOLEAN, always : BOOLEAN]
Plain(kind, usable) == [kind |-> kind, ask |-> 0, yes |-> usable, always |-> FALSE]

(* run_id_ + "/" + ++seq_; an edit's id also names its kind.               *)
Ask == [kind : {"card", "edit", "intel"}, id : Nat \X Nat, what : Cards \union Queries,
        pass : Nat]
RequestId(k) == <<asked[k].kind, asked[k].id>>

Awaiting == Len(asked)

Init ==
  /\ sent = <<>> /\ answered = {} /\ stdin = "open"
  /\ wire = <<>> /\ held = Nothing /\ inbox = <<>> /\ closed = FALSE
  /\ token = FALSE
  /\ phase = "dispatch"
  /\ hasContext = FALSE /\ runId = 0 /\ context = <<>>
  /\ pass = 0 /\ turns = 0 /\ seq = 0 /\ steering = <<>>
  /\ writesAllowed = FALSE /\ commandsAllowed = {} /\ shutdown = FALSE
  /\ replies = [n \in 1 .. MaxRequests |-> 0]
  /\ asked = <<>> /\ decided = {} /\ ran = {} /\ waived = {} /\ consents = {}
  /\ acked = <<>> /\ cancelFrom = 0 /\ cancelAcked = FALSE

-----------------------------------------------------------------------------
(* The client.                                                             *)

Send(request) ==
  /\ stdin = "open"
  /\ phase # "exited"
  /\ Len(sent) < MaxRequests
  /\ sent' = Append(sent, request)
  /\ wire' = Append(wire, Len(sent) + 1)
  /\ UNCHANGED <<stdin, held, inbox, closed, token, phase, session, run,
                 replies, asks, history>>

Say(kind, usable) ==
  /\ kind \in {"start", "message", "cancel", "shutdown"}
  /\ usable => kind = "start"
  /\ Send(Plain(kind, usable))
  /\ UNCHANGED answered

(* A card stays on screen until it is clicked, whatever became of the run  *)
(* that raised it; a click removes it.                                     *)
AnswerCard(k, yes, always) ==
  /\ asked[k].kind = "card"
  /\ k \notin answered
  /\ always => yes
  /\ Send([kind |-> "approve", ask |-> k, yes |-> yes, always |-> always])
  /\ answered' = answered \union {k}

(* The editor answers each lmp/edit and lmp/code_intel once, in its time.  *)
AnswerQuery(k, ok) ==
  /\ asked[k].kind \in Queries
  /\ k \notin answered
  /\ Send([kind |-> "reply", ask |-> k, yes |-> ok, always |-> FALSE])
  /\ answered' = answered \union {k}

ClientDies ==
  /\ stdin = "open"
  /\ stdin' = "eof"
  /\ UNCHANGED <<sent, answered, link, token, phase, session, run, replies, asks, history>>

-----------------------------------------------------------------------------
(* The reader thread: StdinReader::deliver and the loop around it.         *)

ReaderFrames ==
  /\ phase # "exited"
  /\ held = Nothing
  /\ wire # <<>>
  /\ held' = Head(wire)
  /\ wire' = Tail(wire)
  /\ LET cancelling == sent[Head(wire)].kind = "cancel"
     IN  /\ token' = (token \/ cancelling)
         /\ cancelFrom' = IF cancelling /\ cancelFrom = 0 THEN Head(wire)
                                                          ELSE cancelFrom
  /\ UNCHANGED <<client, inbox, closed, phase, session, run, replies, asks,
                 acked, cancelAcked>>

(* Mutants: a push that does not look for room, one that drops when full.  *)
RoomAlways == TRUE

ReaderPushesOrDrops ==
  /\ phase # "exited"
  /\ held # Nothing
  /\ inbox' = IF Len(inbox) < Capacity THEN Append(inbox, held) ELSE inbox
  /\ held' = Nothing
  /\ UNCHANGED <<client, wire, closed, token, phase, session, run, replies, asks, history>>

(* Backpressure: the reader spins while the inbox is full.                 *)
Room == Len(inbox) < Capacity

ReaderPushes ==
  /\ phase # "exited"
  /\ held # Nothing
  /\ Room
  /\ inbox' = Append(inbox, held)
  /\ held' = Nothing
  /\ UNCHANGED <<client, wire, closed, token, phase, session, run, replies, asks, history>>

ReaderCloses ==
  /\ phase # "exited"
  /\ stdin = "eof" /\ wire = <<>> /\ held = Nothing
  /\ ~closed
  /\ closed' = TRUE
  /\ UNCHANGED <<client, wire, held, inbox, token, phase, session, run, replies, asks, history>>

-----------------------------------------------------------------------------
(* The main thread with nothing running: main's loop and dispatch_one.     *)

Replies(n, count) == replies' = [replies EXCEPT ![n] = @ + count]
Reply(n) == Replies(n, 1)

Drained == closed /\ inbox = <<>>

Pop(kinds) ==
  /\ inbox # <<>>
  /\ sent[Head(inbox)].kind \in kinds
  /\ inbox' = Tail(inbox)

PopFor(kinds) == Pop(kinds) /\ Reply(Head(inbox))

(* lmp/cancel, an answer nobody waits for, a follow-up with no session or  *)
(* with settings that are refused.                                         *)
DispatchOther ==
  /\ phase = "dispatch"
  /\ PopFor({"cancel", "approve", "reply", "message"})
  /\ UNCHANGED <<client, wire, held, closed, token, phase, session, run, asks, history>>

DispatchShutdown ==
  /\ phase = "dispatch"
  /\ PopFor({"shutdown"})
  /\ phase' = "exited"
  /\ UNCHANGED <<client, wire, held, closed, token, session, run, asks, history>>

(* The reply and the new run id come first; settings that are refused then *)
(* get an error reply as well, under the same request id.                  *)
DispatchStart ==
  /\ phase = "dispatch"
  /\ Pop({"start"})
  /\ runId' = runId + 1
  /\ IF sent[Head(inbox)].yes
       THEN Reply(Head(inbox)) /\ phase' = "loading"
       ELSE Replies(Head(inbox), 2) /\ phase' = phase
  /\ UNCHANGED <<client, wire, held, closed, token, hasContext, context, run, asks, history>>

(* A follow-up: the same context and run id, one more user turn.           *)
DispatchMessage ==
  /\ phase = "dispatch"
  /\ hasContext
  /\ PopFor({"message"})
  /\ context' = Append(context, Head(inbox))
  /\ acked' = Append(acked, Head(inbox))
  /\ phase' = "rebinding"
  /\ UNCHANGED <<client, wire, held, closed, token, hasContext, runId, run,
                 asks, cancelFrom, cancelAcked>>

(* ensure_model refuses and the previous session stays as it was; what a   *)
(* load that fails halfway leaves behind is in Session.                    *)
LoadFails ==
  /\ phase = "loading"
  /\ phase' = "dispatch"
  /\ UNCHANGED <<client, link, token, session, run, replies, asks, history>>

(* What a new RunInbox starts with; the mutant keeps the last run's.       *)
ConsentsSurvive == UNCHANGED <<writesAllowed, commandsAllowed>>
NoConsents == writesAllowed' = FALSE /\ commandsAllowed' = {}

(* run_loop down to agent.run: a new RunInbox, and the token is reset.     *)
BeginRun ==
  /\ phase \in {"loading", "rebinding"}
  /\ IF phase = "loading"
       THEN hasContext' = TRUE /\ context' = <<>> /\ acked' = <<>>
       ELSE UNCHANGED <<hasContext, context, acked>>
  /\ seq' = 0 /\ steering' = <<>> /\ shutdown' = FALSE
  /\ NoConsents
  /\ token' = FALSE
  /\ pass' = pass + 1
  /\ turns' = 0
  /\ cancelFrom' = 0 /\ cancelAcked' = FALSE
  /\ phase' = "top"
  /\ UNCHANGED <<client, link, runId, replies, asks>>

MainExits ==
  /\ phase = "dispatch"
  /\ Drained
  /\ phase' = "exited"
  /\ UNCHANGED <<client, link, token, session, run, replies, asks, history>>

-----------------------------------------------------------------------------
(* RunInbox::handle with no card up: what a run does with a request.       *)
Handle(n) ==
  LET kind == sent[n].kind
  IN  /\ Reply(n)
      /\ steering' = IF kind = "message" THEN Append(steering, n) ELSE steering
      /\ acked' = IF kind = "message" THEN Append(acked, n) ELSE acked
      /\ shutdown' = (shutdown \/ kind = "shutdown")
      /\ cancelAcked' = (cancelAcked \/ kind = "cancel")

(* take_messages, until the inbox is empty: at the top of a turn, after a  *)
(* turn that achieved nothing, and after agent.run has returned.           *)
TakeOne ==
  /\ phase \in {"drain", "rescue", "late"}
  /\ inbox # <<>>
  /\ inbox' = Tail(inbox)
  /\ Handle(Head(inbox))
  /\ UNCHANGED <<client, wire, held, closed, token, phase, session, pass, turns, seq,
                 writesAllowed, commandsAllowed, asks, cancelFrom>>

(* take_messages returns what it collected, and the caller adds it.        *)
HandOver ==
  /\ inbox = <<>>
  /\ context' = context \o steering
  /\ steering' = <<>>

(* Agent::run: cancelled before anything else, then steering, then budget. *)
TurnTop ==
  /\ phase = "top"
  /\ phase' = IF token THEN "late" ELSE "drain"
  /\ UNCHANGED <<client, link, token, session, run, replies, asks, history>>

BeginTurn ==
  /\ phase = "drain"
  /\ HandOver
  /\ phase' \in IF turns >= MaxTurns THEN {"late"} ELSE {"late", "generating"}
  /\ UNCHANGED <<client, link, token, hasContext, runId, pass, turns, seq, writesAllowed,
                 commandsAllowed, shutdown, replies, asks, history>>

(* A generation ends cancelled only if the token was set; it may also end  *)
(* before it notices.  A backend error ends the run.                       *)
Generate ==
  /\ phase = "generating"
  /\ turns' = turns + 1
  /\ phase' \in {"calls", "late"}
  /\ UNCHANGED <<client, link, token, session, pass, seq, steering, writesAllowed,
                 commandsAllowed, shutdown, replies, asks, history>>

(* The turn's calls are over: it halted the run, was worth another turn,   *)
(* or made no progress.                                                    *)
EndTurn ==
  /\ phase = "calls"
  /\ phase' \in {"top", "late", "rescue"}
  /\ UNCHANGED <<client, link, token, session, run, replies, asks, history>>

(* Something the user said is worth a turn that would otherwise be the     *)
(* last one.                                                               *)
Rescue ==
  /\ phase = "rescue"
  /\ HandOver
  /\ phase' \in IF steering # <<>> THEN {"top"} ELSE {"top", "late"}
  /\ UNCHANGED <<client, link, token, hasContext, runId, pass, turns, seq, writesAllowed,
                 commandsAllowed, shutdown, replies, asks, history>>

(* Mutant: what the last drain returns is dropped with the RunInbox.       *)
EndRunForgets ==
  /\ phase = "late"
  /\ inbox = <<>>
  /\ steering' = <<>>
  /\ phase' = IF shutdown THEN "exited" ELSE "dispatch"
  /\ UNCHANGED <<client, link, token, session, pass, turns, seq, writesAllowed,
                 commandsAllowed, shutdown, replies, asks, history>>

(* What was acknowledged after the loop's last drain carries into the      *)
(* session; a shutdown acknowledged during the run is acted on now.        *)
EndRun ==
  /\ phase = "late"
  /\ HandOver
  /\ phase' = IF shutdown THEN "exited" ELSE "dispatch"
  /\ UNCHANGED <<client, link, token, hasContext, runId, pass, turns, seq, writesAllowed,
                 commandsAllowed, shutdown, replies, asks, history>>

-----------------------------------------------------------------------------
(* Tool calls that need the human or the editor.                           *)

(* A card or an edit goes out under the next id of this RunInbox.          *)
PutUp(kind, what) ==
  /\ Len(asked) < MaxAsks
  /\ seq' = seq + 1
  /\ asked' = Append(asked, [kind |-> kind, id |-> <<runId, seq + 1>>, what |-> what,
                             pass |-> pass])
  /\ phase' = IF kind = "card" THEN "card" ELSE "query"

Consented(what) ==
  IF what = Writes THEN writesAllowed ELSE what \in commandsAllowed

(* The approver: consent already given in this run, or a card.             *)
Escalate(what) ==
  /\ phase = "calls"
  /\ ~Consented(what)
  /\ PutUp("card", what)
  /\ UNCHANGED <<client, link, token, session, pass, turns, steering, writesAllowed,
                 commandsAllowed, shutdown, replies, decided, ran, waived, consents, history>>

Waive(what) ==
  /\ phase = "calls"
  /\ Consented(what)
  /\ waived' = waived \union {<<pass, what>>}
  /\ UNCHANGED <<client, link, token, phase, session, run, replies, asked, decided, ran,
                 consents, history>>

(* A write that passed its gate goes through the editor; a symbol lookup   *)
(* needs no gate.                                                          *)
AskEditor(kind) ==
  /\ phase = "calls"
  /\ kind \in Queries
  /\ PutUp(kind, kind)
  /\ UNCHANGED <<client, link, token, session, pass, turns, steering, writesAllowed,
                 commandsAllowed, shutdown, replies, decided, ran, waived, consents, history>>

(* Mutant: the wait listens to the inbox only.                             *)
CheckTokenDeaf ==
  /\ phase \in {"card", "query"}
  /\ phase' = IF phase = "card" THEN "card_pop" ELSE "query_pop"
  /\ UNCHANGED <<client, link, token, session, run, replies, asks, history>>

(* One round of the wait: the token, then end-of-stream, then one pop.     *)
CheckToken ==
  /\ phase \in {"card", "query"}
  /\ phase' = IF token THEN "calls"
              ELSE IF phase = "card" THEN "card_pop" ELSE "query_pop"
  /\ UNCHANGED <<client, link, token, session, run, replies, asks, history>>

WaitAgain == IF phase = "card_pop" THEN "card" ELSE "query"

NothingToPopForever ==   \* mutant: the wait outlives the parent
  /\ phase \in {"card_pop", "query_pop"}
  /\ inbox = <<>>
  /\ phase' = WaitAgain
  /\ UNCHANGED <<client, link, token, session, run, replies, asks, history>>

NothingToPop ==
  /\ phase \in {"card_pop", "query_pop"}
  /\ inbox = <<>>
  /\ phase' = IF Drained THEN "calls" ELSE WaitAgain
  /\ UNCHANGED <<client, link, token, session, run, replies, asks, history>>

(* Mutant: an answer is for whatever is on screen.                         *)
AnswersAny(n) == sent[n].kind = IF phase = "card_pop" THEN "approve" ELSE "reply"

(* An answer is for the card on screen when the request ids are equal.     *)
Answers(n) ==
  /\ sent[n].kind = IF phase = "card_pop" THEN "approve" ELSE "reply"
  /\ RequestId(sent[n].ask) = RequestId(Awaiting)

(* The consents an answer carries: writes whatever the answer was, the     *)
(* card's command only with an approval.  The flags are the clicked card's.*)
GrantsWrites(r) == r.always /\ asked[r.ask].what = Writes
GrantsCommand(r) == r.always /\ r.yes /\ asked[r.ask].what # Writes

ApprovesAny(r) == TRUE   \* mutant: any answer to the card runs the call
Approves(r) == r.yes

CardAnswered ==
  /\ phase = "card_pop"
  /\ inbox # <<>>
  /\ LET n == Head(inbox)
         r == sent[n]
         what == asked[Awaiting].what
         command == IF GrantsCommand(r) /\ what # Writes THEN {what} ELSE {}
         granted == command \union (IF GrantsWrites(r) THEN {Writes} ELSE {})
     IN  /\ Answers(n)
         /\ Reply(n)
         /\ inbox' = Tail(inbox)
         /\ decided' = decided \union {<<Awaiting, n>>}
         /\ ran' = IF Approves(r) THEN ran \union {Awaiting} ELSE ran
         /\ writesAllowed' = (writesAllowed \/ GrantsWrites(r))
         /\ commandsAllowed' = commandsAllowed \union command
         /\ consents' = consents \union {<<pass, g>> : g \in granted}
  /\ phase' = "calls"
  /\ UNCHANGED <<client, wire, held, closed, token, session, pass, turns, seq, steering,
                 shutdown, asked, waived, history>>

(* The editor says whether the bytes landed, or what it found.             *)
QueryAnswered ==
  /\ phase = "query_pop"
  /\ inbox # <<>>
  /\ Answers(Head(inbox))
  /\ Reply(Head(inbox))
  /\ inbox' = Tail(inbox)
  /\ decided' = decided \union {<<Awaiting, Head(inbox)>>}
  /\ phase' = "calls"
  /\ UNCHANGED <<client, wire, held, closed, token, session, run, asked, ran, waived,
                 consents, history>>

(* Mutant: what the wait is not for stays in the inbox.                    *)
OtherIsPeeked ==
  /\ phase \in {"card_pop", "query_pop"}
  /\ inbox # <<>>
  /\ ~Answers(Head(inbox))
  /\ Handle(Head(inbox))
  /\ phase' = IF sent[Head(inbox)].kind \in {"cancel", "shutdown"} THEN "calls"
                                                                   ELSE WaitAgain
  /\ UNCHANGED <<client, link, token, session, pass, turns, seq,
                 writesAllowed, commandsAllowed, asks, cancelFrom>>

(* A cancel or a shutdown ends the wait with a refusal; everything else,   *)
(* a stale answer included, leaves the card up.                            *)
OtherWhileWaiting ==
  /\ phase \in {"card_pop", "query_pop"}
  /\ inbox # <<>>
  /\ ~Answers(Head(inbox))
  /\ inbox' = Tail(inbox)
  /\ Handle(Head(inbox))
  /\ phase' = IF sent[Head(inbox)].kind \in {"cancel", "shutdown"} THEN "calls"
                                                                   ELSE WaitAgain
  /\ UNCHANGED <<client, wire, held, closed, token, session, pass, turns, seq,
                 writesAllowed, commandsAllowed, asks, cancelFrom>>

-----------------------------------------------------------------------------
Client ==
  \/ \E kind \in Kinds, usable \in BOOLEAN : Say(kind, usable)
  \/ \E k \in 1 .. Len(asked), yes, always \in BOOLEAN : AnswerCard(k, yes, always)
  \/ \E k \in 1 .. Len(asked), ok \in BOOLEAN : AnswerQuery(k, ok)
  \/ ClientDies

Reader == ReaderFrames \/ ReaderPushes \/ ReaderCloses

Dispatch ==
  \/ DispatchOther \/ DispatchShutdown \/ DispatchStart \/ DispatchMessage
  \/ LoadFails \/ BeginRun \/ MainExits

Turn == TurnTop \/ TakeOne \/ BeginTurn \/ Generate \/ EndTurn \/ Rescue \/ EndRun

Calls ==
  \/ \E what \in Cards : Escalate(what) \/ Waive(what)
  \/ \E kind \in Queries : AskEditor(kind)
  \/ CheckToken \/ NothingToPop \/ CardAnswered \/ QueryAnswered \/ OtherWhileWaiting

Next == Client \/ Reader \/ Dispatch \/ Turn \/ Calls

Spec == Init /\ [][Next]_vars

(* The two threads keep running; the client promises nothing.              *)
FairSpec == Spec /\ WF_vars(Reader) /\ WF_vars(Dispatch \/ Turn \/ Calls)

-----------------------------------------------------------------------------
TypeOK ==
  /\ sent \in Seq(Request) /\ Len(sent) <= MaxRequests
  /\ answered \subseteq 1 .. Len(asked)
  /\ stdin \in {"open", "eof"}
  /\ wire \in Seq(1 .. Len(sent))
  /\ held \in 1 .. Len(sent) \union {Nothing}
  /\ inbox \in Seq(1 .. Len(sent)) /\ Len(inbox) <= Capacity
  /\ closed \in BOOLEAN /\ token \in BOOLEAN
  /\ phase \in Phases
  /\ hasContext \in BOOLEAN /\ runId \in Nat
  /\ context \in Seq(1 .. Len(sent))
  /\ pass \in Nat /\ turns \in Nat /\ seq \in Nat
  /\ steering \in Seq(1 .. Len(sent))
  /\ writesAllowed \in BOOLEAN /\ commandsAllowed \subseteq Commands
  /\ shutdown \in BOOLEAN
  /\ replies \in [1 .. MaxRequests -> Nat]
  /\ asked \in Seq(Ask)
  /\ decided \subseteq (1 .. Len(asked)) \X (1 .. Len(sent))
  /\ ran \subseteq 1 .. Len(asked)
  /\ waived \subseteq Nat \X Cards /\ consents \subseteq Nat \X Cards
  /\ acked \in Seq(1 .. Len(sent))
  /\ cancelFrom \in 0 .. Len(sent)
  /\ cancelAcked \in BOOLEAN

(* No request is answered twice, whoever pops it: dispatch_one, a turn     *)
(* boundary, a card or an edit wait.  The exception is a start that was    *)
(* accepted, with a run id, before its settings were refused.              *)
OneReply ==
  \A n \in 1 .. Len(sent) :
    replies[n] <= IF sent[n].kind = "start" /\ ~sent[n].yes THEN 2 ELSE 1

(* Every message acknowledged with accepted:true is in the conversation or *)
(* on its way there, once and in the order the user said it, also when it  *)
(* was said under a card of a run that then ended.                         *)
SteeringKept == context \o steering = acked

(* Deny by default: a call ran only because the operator said yes to it.   *)
(* A cancel, a shutdown, a stale answer and a dead parent all refuse.      *)
RanOnApproval ==
  \A k \in ran : \E n \in 1 .. Len(sent) :
    /\ sent[n].kind = "approve" /\ sent[n].yes
    /\ RequestId(sent[n].ask) = RequestId(k)

(* Within one run an answer decides the card or edit it was given for and  *)
(* no other, however late it comes.                                        *)
AnswersStayInPass ==
  \A d \in decided :
    asked[sent[d[2]].ask].pass = asked[d[1]].pass => sent[d[2]].ask = d[1]

(* The same across runs: "an approval is for one specific command, not for *)
(* a position in a queue" (sidecar.cpp:538).                               *)
AnswersDecideTheirOwnAsk == \A d \in decided : sent[d[2]].ask = d[1]

(* A call allowed without a card was consented to in that same run:        *)
(* consent given to one mission is not consent to the next.                *)
ConsentIsRunScoped == waived \subseteq consents

(* Once the operator has cancelled a run that is turning, nothing they     *)
(* approve afterwards runs in it.                                          *)
NoApprovalAfterCancel ==
  [][\A k \in ran' \ ran : \A n \in 1 .. Len(sent) :
       <<k, n>> \in decided' /\ cancelFrom # 0 => n < cancelFrom]_vars

(* "The reader thread set the token when it framed the message; this is    *)
(* only the acknowledgement" (sidecar.cpp:544): a run that acknowledges a  *)
(* cancel has the token to notice.                                         *)
AckedCancelIsSet == phase \in Turning /\ cancelAcked => token

(* Every request is answered, unless the process ends first.               *)
RequestsAnswered ==
  \A n \in 1 .. MaxRequests : n <= Len(sent) ~> replies[n] > 0 \/ phase = "exited"

(* A cancel that finds a run turning ends it, even under a card nobody     *)
(* will answer.                                                            *)
CancelEndsRun == phase \in Turning /\ token ~> phase \notin Turning

(* A dead parent ends the process, whatever it was waiting for.            *)
EofEndsProcess == stdin = "eof" ~> phase = "exited"
=============================================================================
