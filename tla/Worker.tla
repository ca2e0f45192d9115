------------------------------- MODULE Worker -------------------------------
(***************************************************************************)
(* One task directory and the processes that meet in it: result.json,      *)
(* awaiting_user.json and answer.json; the worker processes that are       *)
(* launched for the task one after the other (execute_task_packet), each   *)
(* with the supervisor that forked it (worker_main); and the parent that   *)
(* hears wake events, looks at the files, answers and launches again       *)
(* (scripts/piper_worker.py).  A worker may be killed between any two      *)
(* steps.  A question of the model and an irreversible call are asked in   *)
(* the same way, through the same files.                                   *)
(***************************************************************************)
EXTENDS Naturals

CONSTANTS
  Launches,   \* bound: the launches of the task are numbered 1..Launches
  MaxAsks,    \* bound on the asks of each run, [1..Launches -> Nat]
  Policies,   \* on_ask: a subset of {"wait", "continue", "end"}
  Ways,       \* how it is launched: with a wake URL or not, detached or not
  NoFile      \* the content of a file that does not exist

ASSUME WorkerAssumption ==
  /\ Launches \in Nat \ {0} /\ MaxAsks \in [1 .. Launches -> Nat]
  /\ Policies \subseteq {"wait", "continue", "end"}
  /\ Ways \subseteq {way \in [hook : BOOLEAN, detached : BOOLEAN] : way.detached => way.hook}

VARIABLES
  result,    \* result.json: the run that wrote it and its status
  awaiting,  \* awaiting_user.json: the run (its pid and run_id) and the seq of its ask
  answer,    \* answer.json: the ask it is bound to; what it says is for its reader
  attempts,  \* per launch, the worker process and its supervisor
  posted,    \* the final wakes that were attempted, <<run, kind>>
  heard,     \* those that reached the parent
  parent     \* the ask `piper answer` has found open and is about to answer

workerVars == <<result, awaiting, answer, attempts, posted, heard, parent>>

Attempts == 1 .. Launches
IsAsk(a) == a.run \in Attempts /\ a.seq \in 1 .. MaxAsks[a.run]
Statuses == {"ok", "error", "timeout", "stalled", "needs_input"}
FinalKinds == {"done", "stalled", "needs_input", "died"}

(* What the run has found out, RunFacts and the locals it is taken from.   *)
NoFacts ==
  [reason |-> "none", timedOut |-> FALSE, needsInput |-> FALSE, unanswered |-> FALSE,
   token |-> FALSE, unattended |-> FALSE, known |-> FALSE]

NotLaunched ==
  [at |-> "none", hook |-> FALSE, detached |-> FALSE, on |-> "wait", supervisor |-> "none",
   facts |-> NoFacts, seq |-> 0, asks |-> {}, status |-> "none"]

WorkerInit ==
  /\ result = NoFile /\ awaiting = NoFile /\ answer = NoFile
  /\ attempts = [r \in Attempts |-> NotLaunched]
  /\ posted = {} /\ heard = {} /\ parent = NoFile

At(r, place) == attempts[r].at = place
Alive(r) == attempts[r].at \notin {"none", "exited", "dead"}
Moves(r, place) == attempts' = [attempts EXCEPT ![r].at = place]
Learns(r, place, facts) == attempts' = [attempts EXCEPT ![r].at = place, ![r].facts = facts]

(* Its memory goes with a process.                                         *)
Gone(r, place) ==
  attempts' = [attempts EXCEPT ![r] = [@ EXCEPT !.at = place, !.facts = NoFacts, !.seq = 0, !.asks = {},
                                        !.on = "wait", !.status = "none"]]

PutsResult(r, status) == result' = [run |-> r, status |-> status]
Awaits(r, seq) == awaiting' = [run |-> r, seq |-> seq]

UNCHANGEDfiles == UNCHANGED <<result, awaiting, answer>>
UNCHANGEDwakes == UNCHANGED <<posted, heard>>

-----------------------------------------------------------------------------
(* The parent.                                                             *)

(* It launches again when it has seen the last launch end: a result, a     *)
(* final wake, or the exit of a launcher it is attached to.                *)
SawTheEnd(r) ==
  \/ result # NoFile
  \/ \E k \in FinalKinds : <<r, k>> \in heard
  \/ ~attempts[r].detached /\ ~Alive(r) /\ attempts[r].supervisor # "waits"

MayLaunch(r) == At(r, "none") /\ (r > 1 => ~At(r - 1, "none") /\ SawTheEnd(r - 1))

(* worker_main removes the old result before it forks.  A detached launch  *)
(* needs a wake URL; with one there is always a supervisor.                *)
Launch(r, way, on) ==
  /\ MayLaunch(r)
  /\ result' = NoFile
  /\ attempts' = [attempts EXCEPT ![r] =
       [@ EXCEPT !.at = "launched", !.hook = way.hook, !.detached = way.detached, !.on = on,
                 !.supervisor = IF way.hook THEN "waits" ELSE "none"]]
  /\ UNCHANGED <<awaiting, answer, parent>> /\ UNCHANGEDwakes

(* A packet that does not load is answered with a result of its own, and   *)
(* with no wake: its URL is in the packet.                                 *)
LaunchRefused(r) ==
  /\ MayLaunch(r)
  /\ PutsResult(r, "error")
  /\ Moves(r, "exited")
  /\ UNCHANGED <<awaiting, answer, parent>> /\ UNCHANGEDwakes

(* A fork that fails leaves neither worker nor supervisor.                 *)
LaunchFails(r, way) ==
  /\ MayLaunch(r) /\ way.hook
  /\ result' = NoFile
  /\ attempts' = [attempts EXCEPT ![r].at = "exited", ![r].hook = TRUE, ![r].detached = way.detached]
  /\ UNCHANGED <<awaiting, answer, parent>> /\ UNCHANGEDwakes

(* collect_run_status: a result outranks an ask, and an ask counts only    *)
(* while the process that wrote it lives.                                  *)
ShowsAsk == result = NoFile /\ awaiting # NoFile /\ Alive(awaiting.run)

(* `piper answer` looks, binds its answer to the ask it saw, and writes.   *)
ParentLooks ==
  /\ parent = NoFile /\ ShowsAsk
  /\ parent' = awaiting
  /\ UNCHANGED attempts /\ UNCHANGEDfiles /\ UNCHANGEDwakes

ParentAnswers ==
  /\ parent # NoFile
  /\ answer' = parent
  /\ parent' = NoFile
  /\ UNCHANGED <<result, awaiting, attempts>> /\ UNCHANGEDwakes

-----------------------------------------------------------------------------
(* The worker sets up its directory.                                       *)

ClearsStaleFiles(r) ==
  /\ At(r, "launched")
  /\ awaiting' = NoFile /\ answer' = NoFile /\ result' = NoFile
  /\ Moves(r, "cleared")
  /\ UNCHANGED parent /\ UNCHANGEDwakes

OpensLog(r) ==
  /\ At(r, "cleared") /\ Moves(r, "running")
  /\ UNCHANGED parent /\ UNCHANGEDfiles /\ UNCHANGEDwakes

OpenLogFails(r) ==
  /\ At(r, "cleared")
  /\ PutsResult(r, "error")
  /\ attempts' = [attempts EXCEPT ![r].at = "wrote", ![r].status = "error"]
  /\ UNCHANGED <<awaiting, answer, parent>> /\ UNCHANGEDwakes

-----------------------------------------------------------------------------
(* The mission.  The loop ends for a reason of its own or because the      *)
(* model asked; a call held past the time-out is the reason then.  An ask  *)
(* takes the next sequence number of the run's event log.                  *)

Takes(r) == attempts[r].seq + 1
CanAsk(r) == At(r, "running") /\ attempts[r].seq < MaxAsks[r]
Given(r, reason) == IF attempts[r].facts.timedOut THEN "timeout_awaiting_user" ELSE reason

LoopEnds(r, reason) ==
  /\ At(r, "running")
  /\ Learns(r, "ended", [attempts[r].facts EXCEPT !.reason = Given(r, reason)])
  /\ UNCHANGED parent /\ UNCHANGEDfiles /\ UNCHANGEDwakes

ModelAsks(r) ==
  /\ CanAsk(r)
  /\ attempts' = [attempts EXCEPT ![r].at = IF attempts[r].facts.timedOut THEN "ended" ELSE "asked",
                          ![r].seq = Takes(r), ![r].facts.reason = Given(r, "awaiting_user")]
  /\ UNCHANGED parent /\ UNCHANGEDfiles /\ UNCHANGEDwakes

Recorded(r, seq, by, of) == attempts[r].asks \union {[seq |-> seq, by |-> by, answer |-> of]}

(* The approver, for an irreversible call nothing has decided yet (the     *)
(* policy allows it, or the command was denied before): a policy that does *)
(* not wait cancels the run, otherwise it asks.                            *)
HoldsCall(r) ==
  /\ CanAsk(r) /\ attempts[r].on # "wait"
  /\ attempts' = [attempts EXCEPT ![r].seq = Takes(r), ![r].asks = Recorded(r, Takes(r), "nobody", NoFile),
                          ![r].facts = [@ EXCEPT !.needsInput = TRUE, !.token = TRUE]]
  /\ UNCHANGED parent /\ UNCHANGEDfiles /\ UNCHANGEDwakes

AsksForCall(r) ==
  /\ CanAsk(r) /\ attempts[r].on = "wait"
  /\ Awaits(r, Takes(r))
  /\ attempts' = [attempts EXCEPT ![r].at = "gated", ![r].seq = Takes(r)]
  /\ UNCHANGED <<result, answer, parent>> /\ UNCHANGEDwakes

(* A question of the model: an answer given to the same question before    *)
(* serves again; "continue" answers the first one itself; a policy that    *)
(* does not wait ends the run on it.                                       *)
Resumed(facts) == [facts EXCEPT !.reason = "none", !.token = FALSE]

ReusesAnswer(r) ==
  /\ At(r, "asked") /\ attempts[r].facts.known
  /\ Learns(r, "running", Resumed(attempts[r].facts))
  /\ UNCHANGED parent /\ UNCHANGEDfiles /\ UNCHANGEDwakes

AnswersUnattended(r) ==
  /\ At(r, "asked") /\ attempts[r].on = "continue" /\ ~attempts[r].facts.unattended
  /\ attempts' = [attempts EXCEPT ![r].at = "running", ![r].facts = Resumed([@ EXCEPT !.unattended = TRUE]),
                          ![r].asks = Recorded(r, attempts[r].seq, "unattended", NoFile)]
  /\ UNCHANGED parent /\ UNCHANGEDfiles /\ UNCHANGEDwakes

EndsOnQuestion(r) ==
  /\ At(r, "asked") /\ attempts[r].on # "wait"
  /\ attempts[r].on = "continue" => attempts[r].facts.unattended
  /\ attempts' = [attempts EXCEPT ![r].at = "ended", ![r].facts.needsInput = TRUE,
                          ![r].asks = Recorded(r, attempts[r].seq, "nobody", NoFile)]
  /\ UNCHANGED parent /\ UNCHANGEDfiles /\ UNCHANGEDwakes

AsksQuestion(r) ==
  /\ At(r, "asked") /\ attempts[r].on = "wait"
  /\ Awaits(r, attempts[r].seq)
  /\ Moves(r, "asking")
  /\ UNCHANGED <<result, answer, parent>> /\ UNCHANGEDwakes

-----------------------------------------------------------------------------
(* Waiting for answer.json: read_and_consume_answer and the two loops      *)
(* around it.  The ask that is open is the last one taken.                 *)

Polls(r) == attempts[r].at \in {"asking", "gated"}
OpenAsk(r) == [run |-> r, seq |-> attempts[r].seq]
BoundBySeq(r) == answer.seq = attempts[r].seq
Bound(r) == answer = OpenAsk(r)

TakesAnswer(r) ==
  /\ Polls(r) /\ answer # NoFile /\ Bound(r)
  /\ answer' = NoFile
  /\ \E place \in IF At(r, "asking") THEN {"told"} ELSE {"allowed", "refused"} :
       attempts' = [attempts EXCEPT ![r].at = place,
                            ![r].asks = Recorded(r, attempts[r].seq, "operator", answer)]
  /\ UNCHANGED <<result, awaiting, parent>> /\ UNCHANGEDwakes

DiscardsAnswer(r) ==
  /\ Polls(r) /\ answer # NoFile /\ ~Bound(r)
  /\ answer' = NoFile
  /\ UNCHANGED <<result, awaiting, attempts, parent>> /\ UNCHANGEDwakes

(* awaiting_user.json goes after the answer it asked for.                  *)
GoesOn(r) ==
  /\ attempts[r].at \in {"told", "allowed", "refused"}
  /\ awaiting' = NoFile
  /\ Learns(r, "running",
            IF At(r, "told") THEN Resumed([attempts[r].facts EXCEPT !.known = TRUE]) ELSE attempts[r].facts)
  /\ UNCHANGED <<result, answer, parent>> /\ UNCHANGEDwakes

(* Neither wait outlasts the task's time-out; both close the ask.          *)
ClosesAsk == awaiting' = NoFile
TimesOut(r) ==
  /\ Polls(r) /\ ClosesAsk
  /\ IF At(r, "asking")
       THEN Learns(r, "ended", [attempts[r].facts EXCEPT !.reason = "timeout_awaiting_user"])
       ELSE Learns(r, "running", [attempts[r].facts EXCEPT !.timedOut = TRUE, !.token = TRUE])
  /\ UNCHANGED <<result, answer, parent>> /\ UNCHANGEDwakes

SeesToken(r) ==
  /\ Polls(r) /\ attempts[r].facts.token /\ ClosesAsk
  /\ IF At(r, "asking") THEN Learns(r, "ended", [attempts[r].facts EXCEPT !.reason = "cancelled"])
                        ELSE Learns(r, "running", [attempts[r].facts EXCEPT !.unanswered = TRUE])
  /\ UNCHANGED <<result, answer, parent>> /\ UNCHANGEDwakes

-----------------------------------------------------------------------------
(* The end of the run.  finalize_run is the one place that decides.        *)

StatusCompletedFirst(f, check) ==
  IF f.reason = "completed" THEN IF check = "red" THEN "error" ELSE "ok"
  ELSE IF f.needsInput THEN "needs_input" ELSE "error"

(* Of a run that went its own way.                                         *)
Checked(reason, check) ==
  CASE reason = "completed" -> IF check = "red" THEN "error" ELSE "ok"
    [] reason = "max_turns" -> IF check = "green" THEN "ok" ELSE "stalled"
    [] reason = "ended"     -> IF check = "green" THEN "ok" ELSE "error"
    [] OTHER -> "error"

Status(f, check) ==
  IF f.reason \in {"timeout_awaiting_user", "wall_clock"} THEN "timeout"
  ELSE IF f.needsInput THEN "needs_input"
  ELSE IF f.unanswered THEN "error" ELSE Checked(f.reason, check)

WakeKind(status) ==
  CASE status = "ok" -> "done" [] status = "needs_input" -> "needs_input" [] OTHER -> "stalled"

(* run_check: no command, a green exit, or a red one, a time-out or a      *)
(* command that could not run.                                             *)
Checks == {"none", "green", "red"}

Finalizes(r, check) ==
  /\ At(r, "ended")
  /\ awaiting' = NoFile
  /\ attempts' = [attempts EXCEPT ![r].at = "final", ![r].status = Status(attempts[r].facts, check),
                          ![r].facts = NoFacts]
  /\ UNCHANGED <<result, answer, parent>> /\ UNCHANGEDwakes

WritesResult(r) ==
  /\ At(r, "final")
  /\ PutsResult(r, attempts[r].status)
  /\ Moves(r, "wrote")
  /\ UNCHANGED <<awaiting, answer, parent>> /\ UNCHANGEDwakes

(* A POST is tried once and may fail.                                      *)
Posts(r, kind) ==
  /\ posted' = posted \union {<<r, kind>>}
  /\ heard' \in {heard, heard \union {<<r, kind>>}}

PostsFinal(r) ==
  /\ At(r, "wrote")
  /\ Gone(r, "exited")
  /\ IF attempts[r].hook THEN Posts(r, WakeKind(attempts[r].status)) ELSE UNCHANGEDwakes
  /\ UNCHANGED parent /\ UNCHANGEDfiles

WorkerKilled(r) ==
  /\ Alive(r) /\ Gone(r, "dead")
  /\ UNCHANGED parent /\ UNCHANGEDfiles /\ UNCHANGEDwakes

(* The supervisor waits for the process, then for nothing but the file.    *)
DiedWithResult(r) == result # NoFile
DiedSilently(r) == result = NoFile
SupervisorReaps(r) ==
  /\ attempts[r].supervisor = "waits" /\ attempts[r].at \in {"exited", "dead"}
  /\ attempts' = [attempts EXCEPT ![r].supervisor = "gone"]
  /\ IF DiedSilently(r) THEN Posts(r, "died") ELSE UNCHANGEDwakes
  /\ UNCHANGED parent /\ UNCHANGEDfiles

-----------------------------------------------------------------------------
WorkerStep(r) ==
  \/ ClearsStaleFiles(r) \/ OpensLog(r) \/ OpenLogFails(r)
  \/ \E reason \in {"completed", "max_turns", "ended", "wall_clock", "cancelled"} : LoopEnds(r, reason)
  \/ ModelAsks(r) \/ HoldsCall(r) \/ AsksForCall(r)
  \/ ReusesAnswer(r) \/ AnswersUnattended(r) \/ EndsOnQuestion(r) \/ AsksQuestion(r)
  \/ TakesAnswer(r) \/ DiscardsAnswer(r) \/ GoesOn(r) \/ SeesToken(r)
  \/ \E check \in Checks : Finalizes(r, check)
  \/ WritesResult(r) \/ PostsFinal(r)

WorkerNext ==
  \/ ParentLooks \/ ParentAnswers
  \/ \E r \in Attempts :
       \/ \E way \in Ways : LaunchFails(r, way) \/ \E on \in Policies : Launch(r, way, on)
       \/ LaunchRefused(r)
       \/ WorkerStep(r) \/ TimesOut(r) \/ WorkerKilled(r) \/ SupervisorReaps(r)

WorkerSpec == WorkerInit /\ [][WorkerNext]_workerVars

-----------------------------------------------------------------------------
WorkerTypeOK ==
  /\ result = NoFile \/ result \in [run : Attempts, status : Statuses]
  /\ awaiting = NoFile \/ IsAsk(awaiting)
  /\ answer = NoFile \/ IsAsk(answer)
  /\ parent = NoFile \/ IsAsk(parent)
  /\ posted \subseteq Attempts \X FinalKinds /\ heard \subseteq posted
  /\ \A r \in Attempts : /\ attempts[r].seq \in 0 .. MaxAsks[r]
                        /\ attempts[r].status \in Statuses \union {"none"}

(* A status of "ask" (`piper status`, `piper await`) is true: the process   *)
(* that wrote the file is still waiting for, or just taking, an answer to  *)
(* that very ask, whatever was left behind by runs that ended or died.     *)
NoGhostAsk ==
  ShowsAsk => /\ attempts[awaiting.run].at \in {"asking", "gated", "told", "allowed", "refused"}
              /\ awaiting = OpenAsk(awaiting.run)

(* What an operator's answer decides is the ask the operator saw, although *)
(* looking and answering are two steps, both runs number their asks from   *)
(* one and the file stays behind when its reader does.                     *)
AnswerFits ==
  \A r \in Attempts : \A a \in attempts[r].asks :
    a.by = "operator" => a.answer = [run |-> r, seq |-> a.seq]

(* The operator is shown the ask that is waited for, and the ask the       *)
(* operator saw is the one decided (sidecar.cpp:2386, worker.cpp:1513).    *)
AskAndAnswerAgree == NoGhostAsk /\ AnswerFits

(* A task reported as ok left nothing with the operator: every ask of the  *)
(* run had an answer, the unattended one at most once.                     *)
OkHasNoOpenQuestion ==
  \A r \in Attempts :
    attempts[r].status = "ok" =>
      /\ \A a \in attempts[r].asks : a.by # "nobody"
      /\ \A a, b \in attempts[r].asks : a.by = "unattended" /\ b.by = "unattended" => a = b

(* A supervised run is never just gone: it leaves a result or its parent   *)
(* is sent a final wake, wherever it was killed.                           *)
EveryRunTold ==
  \A r \in Attempts :
    (At(r, "launched") /\ attempts[r].hook) ~>
      (At(r, "wrote") \/ \E k \in FinalKinds : <<r, k>> \in posted)
=============================================================================
