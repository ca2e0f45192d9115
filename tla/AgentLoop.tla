----------------------------- MODULE AgentLoop ------------------------------
(***************************************************************************)
(* The turn loop (Agent::run and Agent::step, src/loop/agent.cpp): what    *)
(* the calls of a turn do and in which order, what counts as progress,     *)
(* when a run that makes none is nudged and when it is ended, and when a   *)
(* run says it completed.                                                  *)
(*                                                                         *)
(* The workspace is one file.  What is remembered of it is either its      *)
(* "current" bytes or "older" ones.  A call is only what came of it: cards *)
(* and the inbox are modelled elsewhere.  A follow-up is a new Agent over  *)
(* the same context.                                                       *)
(***************************************************************************)
EXTENDS Naturals, FiniteSets, SequencesExt

CONSTANTS
  Batches,      \* the sequences of calls a generation may end with
  Bulk,         \* whether the file is over kMinElideBytes
  Nudges,       \* kRunNudgesBeforeEnding, kPlanNudgesBeforeEnding, or the cap configured
  MaxTurns,     \* budget.max_iterations
  MaxFollowUps  \* bound: follow-ups in the session

(* look reads something else, act changes nothing or fails, a build may    *)
(* move the file, and fail; again is whether the call returns what these   *)
(* arguments last returned.  A refused call is refused by the gate, or its *)
(* arguments are unusable.                                                 *)
Calls ==
  [kind : {"read", "write", "refused"}]
    \union [kind : {"plan"}, open : BOOLEAN]
    \union [kind : {"look", "act", "finish", "ask", "exit_plan"}, again : BOOLEAN]
    \union [kind : {"build"}, ok : BOOLEAN, moves : BOOLEAN, again : BOOLEAN]

(* A generation without a call: an answer, one that lists choices, one cut *)
(* for repeating itself or by the token cap, or cut inside a call.         *)
Texts == {"answer", "choices", "cut", "cut_call"}

ASSUME BatchAssumption == Batches \subseteq Seq(Calls) \ {<<>>}
ASSUME LoopBounds ==
  Bulk \in BOOLEAN /\ Nudges \in Nat /\ MaxTurns \in Nat /\ MaxFollowUps \in Nat

VARIABLES
  conversational, \* policy_.conversational: a run that plans
  contract,       \* an operator_verify_contract is configured
  turns,          \* report.iterations
  inert,          \* inert_turns_
  noAnswer,       \* any of inert_streak_had_tool_call_, _had_cut_, _had_degenerate_
  reason,         \* report.termination_reason, "none" until the run ends
  completed,      \* report.completed
  planOnly,       \* consecutive_plan_only_turns, counted to the two that lock `plan`
  listOpen,       \* open_checklist_items() > 0
  sentLists,      \* the lists the repeat detector has seen
  lastCheck,      \* last_check(): "none", "passed" or "failed"
  lastRead,       \* what the detector last recorded of the read, or "none", or
                  \* "note": the reference given in place of the bytes
  held,           \* which bytes of the file the context holds
  followUps,
  quiet,          \* history: turns in a row that brought nothing
  plain,          \* history: turns in a row, since progress, that only answered
  handed          \* history: the run's last turn called finish or exit_plan_mode

agentVars ==
  <<conversational, contract, turns, inert, noAnswer, reason, completed, planOnly, listOpen,
    sentLists, lastCheck, lastRead, held, followUps, quiet, plain, handed>>

AgentInit ==
  /\ conversational \in BOOLEAN /\ contract \in BOOLEAN
  /\ turns = 0 /\ inert = 0 /\ noAnswer = FALSE
  /\ reason = "none" /\ completed = FALSE
  /\ planOnly = 0 /\ listOpen = FALSE /\ sentLists = {}
  /\ lastCheck = "none" /\ lastRead = "none" /\ held = {}
  /\ followUps = 0
  /\ quiet = 0 /\ plain = 0 /\ handed = FALSE

-----------------------------------------------------------------------------
(* The calls of one turn.  at is how often the file moved since the turn   *)
(* began.                                                                  *)

(* can_run_in_parallel: whatever neither writes, runs nor is remote, plan  *)
(* excepted; the calls that end a run are not.                             *)
Eligible(call) == call.kind \in {"read", "look", "finish", "ask", "exit_plan"}

(* Two or more of them run together, before any other call of the batch.   *)
Ahead(batch) == Cardinality({i \in DOMAIN batch : Eligible(batch[i])}) > 1

Started == [at |-> 0, counted |-> FALSE, open |-> listOpen, halt |-> "none", results |-> <<>>]

Result(ran, fresh, brought) ==
  [ran |-> ran, fresh |-> fresh, brought |-> brought, elided |-> FALSE, at |-> 0]
Refused == Result(FALSE, FALSE, FALSE)
Returns(s, result) == [s EXCEPT !.results = Append(@, result)]

(* elide_redundant_reread: a reference stands in for bytes the context     *)
(* holds, unless it holds older ones as well.  observation_is_new is asked *)
(* about what the model will see.                                          *)
Read(s, at) ==
  LET same == at = 0 /\ lastRead = "current"
      elided == same /\ Bulk /\ held = {"current"}
  IN  Returns(s, [ran |-> TRUE, fresh |-> elided \/ ~same,
                  brought |-> at > 0 \/ "current" \notin held, elided |-> elided, at |-> at])

PlanLocked == planOnly = 2 /\ ~conversational

Halts(s, why) == [Returns(s, Result(TRUE, TRUE, FALSE)) EXCEPT !.halt = why]

(* A call that runs ahead gets what Registry::execute says, which for the  *)
(* calls that end a run is that the loop must handle them.                 *)
RunsAhead(s, call) ==
  CASE call.kind = "read" -> Read(s, 0)
    [] OTHER -> Returns(s, Result(TRUE, ~call.again, ~call.again))

(* dispatch_call, in the order of the batch.                               *)
Dispatch(s, call) ==
  CASE call.kind = "read" -> Read(s, s.at)
    [] call.kind \in {"look", "act"} -> Returns(s, Result(TRUE, ~call.again, ~call.again))
    [] call.kind = "write" ->
         [Returns(s, Result(TRUE, TRUE, TRUE)) EXCEPT !.at = @ + 1, !.counted = TRUE]
    [] call.kind = "build" ->
         [Returns(s, Result(TRUE, ~call.again, ~call.again))
           EXCEPT !.at = IF call.moves THEN @ + 1 ELSE @, !.counted = @ \/ call.ok]
    [] call.kind = "plan" /\ ~PlanLocked ->
         [Returns(s, Result(TRUE, call.open \notin sentLists, call.open \notin sentLists))
           EXCEPT !.open = call.open]
    [] call.kind = "finish" /\ ~conversational -> Halts(s, "ended")
    [] call.kind = "ask" -> Halts(s, "awaiting_user")
    [] call.kind = "exit_plan" /\ conversational -> Halts(s, "plan_ready")
    [] OTHER -> Returns(s, Refused)

RunsCall(batch, s, call) ==
  IF Ahead(batch) /\ Eligible(call) THEN RunsAhead(s, call) ELSE Dispatch(s, call)

RunBatch(batch) ==
  LET done[n \in 0 .. Len(batch)] ==
        IF n = 0 THEN Started ELSE RunsCall(batch, done[n - 1], batch[n])
  IN  done[Len(batch)]

(* classify_turn and turn_made_progress.                                   *)
Executed(s) == s.results[1].ran
Progressed(s) == Executed(s) /\ \E i \in DOMAIN s.results : s.results[i].fresh
Brought(s) == \E i \in DOMAIN s.results : s.results[i].brought

-----------------------------------------------------------------------------
(* What the turn leaves in the context and in the repeat detector.         *)
Aged(x, moved) == IF moved /\ x = "current" THEN "older" ELSE x
AgeAt(s, at) == IF at = s.at THEN "current" ELSE "older"
Indices(batch, kind) == {i \in DOMAIN batch : batch[i].kind = kind}

(* record_call: the last read of the batch is the one that stays.  A       *)
(* reference is recorded as what the read returned.                        *)
Recorded(s, batch) ==
  LET reads == Indices(batch, "read")
  IN  IF reads = {} THEN Aged(lastRead, s.at > 0)
      ELSE LET r == s.results[Max(reads)] IN IF r.elided THEN "note" ELSE AgeAt(s, r.at)

(* The context holds what was read, less what compaction drops, the older  *)
(* first.                                                                  *)
HoldsAfter(s, batch) ==
  LET shown == {i \in Indices(batch, "read") : ~s.results[i].elided}
      all == {Aged(x, s.at > 0) : x \in held} \union {AgeAt(s, s.results[i].at) : i \in shown}
  IN  {all, all \ {"older"}, {}}

-----------------------------------------------------------------------------
(* The rest of the turn: t says what came of it.                           *)

(* A run nobody ended by a call ends itself after too many turns in a row  *)
(* that brought nothing.  One that only answered has handed back; one that *)
(* called tools to no effect, or had to be cut, has stalled.               *)
Silence(stalled) ==
  IF conversational THEN "awaiting_user" ELSE IF stalled THEN "stalled" ELSE "ended"

(* Mutant: only the last turn says how the run ended.                      *)
StallsByLastTurn(t) == ~t.answer
Stalls(t) == noAnswer \/ ~t.answer

(* run_operator_check, after a turn that wrote; a run that hands back with *)
(* no reading of the check takes one.                                      *)
Answers(why) == why \in {"ended", "plan_ready"}
Checks(t, why) ==
  contract /\ ((t.counted /\ t.halt = "none") \/ (Answers(why) /\ lastCheck = "none"))

Closes(t, why) ==
  /\ reason' = why
  /\ IF Checks(t, why) THEN lastCheck' \in {"passed", "failed"} ELSE UNCHANGED lastCheck
  /\ completed' = (Answers(why) /\ ~t.open /\ (contract => lastCheck' = "passed"))
  /\ handed' = (t.halt # "none" /\ Answers(why))

(* Only a turn that ran something or only talked can count against the     *)
(* run, and not when a steering message came in during it.                 *)
CountsAgainst(t, rescued) == ~t.progressed /\ t.countable /\ ~rescued

Saturated(n) == IF n <= Nudges THEN n + 1 ELSE n

AfterTurn(t, rescued) ==
  LET against == CountsAgainst(t, rescued) /\ t.halt = "none"
      spent == against /\ inert = Nudges
  IN  /\ turns' = turns + 1
      /\ inert' = IF t.progressed THEN 0 ELSE IF against /\ ~spent THEN inert + 1 ELSE inert
      /\ noAnswer' = IF t.progressed THEN FALSE ELSE IF against THEN Stalls(t) ELSE noAnswer
      /\ Closes(t, IF spent THEN Silence(Stalls(t)) ELSE t.halt)
      /\ plain' = IF t.progressed THEN 0
                  ELSE IF against THEN (IF t.answer THEN Saturated(plain) ELSE 0) ELSE plain
      /\ quiet' = IF t.brought THEN 0
                  ELSE IF t.progressed \/ against THEN Saturated(quiet) ELSE quiet

CallsTurn(batch, rescued) ==
  /\ reason = "none" /\ turns < MaxTurns
  /\ LET s == RunBatch(batch)
     IN  /\ AfterTurn([halt |-> s.halt, progressed |-> Progressed(s), countable |-> Executed(s),
                       answer |-> FALSE, counted |-> s.counted, open |-> s.open,
                       brought |-> Brought(s)], rescued)
         /\ listOpen' = s.open
         /\ sentLists' = sentLists \union
              {batch[i].open : i \in {j \in Indices(batch, "plan") : s.results[j].ran}}
         /\ lastRead' = Recorded(s, batch)
         /\ held' \in HoldsAfter(s, batch)
         /\ planOnly' = IF Executed(s) /\ Len(batch) = 1 /\ batch[1].kind = "plan"
                          THEN (IF planOnly < 2 THEN planOnly + 1 ELSE planOnly)
                          ELSE IF Progressed(s) THEN 0 ELSE planOnly
  /\ UNCHANGED <<conversational, contract, followUps>>

(* Choices listed in a run that plans are put to the operator as if it had *)
(* called ask_user.                                                        *)
TextTurn(text, rescued) ==
  /\ reason = "none" /\ turns < MaxTurns
  /\ AfterTurn([halt |-> IF text = "choices" /\ conversational THEN "awaiting_user" ELSE "none",
                progressed |-> FALSE, countable |-> text # "cut_call",
                answer |-> text \in {"answer", "choices"}, counted |-> FALSE,
                open |-> listOpen, brought |-> FALSE], rescued)
  /\ UNCHANGED <<conversational, contract, planOnly, listOpen, sentLists, lastRead, held,
                 followUps>>

(* Before a turn: cancelled, which is asked first, out of turns, or out of *)
(* time.  During one: cancelled, or failed by the backend.                 *)
StopsWith(why) ==
  /\ reason = "none" /\ reason' = why
  /\ UNCHANGED <<conversational, contract, inert, noAnswer, completed, planOnly, listOpen,
                 sentLists, lastCheck, lastRead, held, followUps, quiet, plain, handed>>

StopsBefore(why) ==
  /\ StopsWith(why) /\ UNCHANGED turns
  /\ why = "max_turns" => turns >= MaxTurns
  /\ why = "out_of_time" => turns < MaxTurns

StopsWithin(why) == StopsWith(why) /\ turns < MaxTurns /\ turns' = turns + 1

(* A follow-up: a new Agent, with a new detector, over the same context.   *)
FollowUp(conv) ==
  /\ reason # "none" /\ followUps < MaxFollowUps
  /\ followUps' = followUps + 1 /\ conversational' = conv
  /\ turns' = 0 /\ inert' = 0 /\ noAnswer' = FALSE /\ reason' = "none" /\ completed' = FALSE
  /\ sentLists' = {} /\ lastRead' = "none" /\ quiet' = 0 /\ plain' = 0 /\ handed' = FALSE
  /\ UNCHANGED <<contract, planOnly, listOpen, lastCheck, held>>

(* The operator changes the file behind the run.                           *)
OperatorEdits ==
  /\ reason = "none" /\ "current" \in held \union {lastRead}
  /\ held' = {Aged(x, TRUE) : x \in held} /\ lastRead' = Aged(lastRead, TRUE)
  /\ UNCHANGED <<conversational, contract, turns, inert, noAnswer, reason, completed, planOnly,
                 listOpen, sentLists, lastCheck, followUps, quiet, plain, handed>>

AgentNext ==
  \/ \E batch \in Batches, rescued \in BOOLEAN : CallsTurn(batch, rescued)
  \/ \E text \in Texts, rescued \in BOOLEAN : TextTurn(text, rescued)
  \/ \E why \in {"cancelled", "max_turns", "out_of_time"} : StopsBefore(why)
  \/ \E why \in {"cancelled", "backend_error"} : StopsWithin(why)
  \/ \E conv \in BOOLEAN : FollowUp(conv)
  \/ OperatorEdits

AgentSpec == AgentInit /\ [][AgentNext]_agentVars

-----------------------------------------------------------------------------
AgentTypeOK ==
  /\ {conversational, contract, noAnswer, completed, listOpen, handed} \subseteq BOOLEAN
  /\ turns \in 0 .. MaxTurns /\ inert \in 0 .. Nudges /\ planOnly \in 0 .. 2
  /\ quiet \in 0 .. Nudges + 1 /\ plain \in 0 .. Nudges + 1
  /\ reason \in {"none", "ended", "stalled", "awaiting_user", "plan_ready", "cancelled",
                 "max_turns", "out_of_time", "backend_error"}
  /\ sentLists \subseteq BOOLEAN
  /\ lastCheck \in {"none", "passed", "failed"}
  /\ lastRead \in {"none", "note", "current", "older"} /\ held \subseteq {"current", "older"}
  /\ followUps \in 0 .. MaxFollowUps

(* A run is reported completed only when it handed back: its last turn     *)
(* called finish or presented its plan, or every turn since it last made   *)
(* progress, one more than it is nudged for, was a plain answer.  Calling  *)
(* tools to no effect or repeating itself until it is stopped never counts *)
(* as completion.                                                          *)
CompletedWasHandedBack == completed => handed \/ plain > Nudges

(* Turns in a row that wrote nothing and returned no bytes the context did *)
(* not have end the run after the nudges it is allowed                     *)
(* (agent.cpp:1742-1748, agent.hpp:639).                                   *)
SpinEndsTheRun == quiet > Nudges => reason # "none"
=============================================================================
