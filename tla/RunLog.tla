------------------------------- MODULE RunLog -------------------------------
(***************************************************************************)
(* The event log and resuming a run from it (src/platform/event_log.cpp,   *)
(* src/context/resume.cpp, and the events the sidecar and the agent        *)
(* append).                                                                *)
(*                                                                         *)
(* The log file outlives the processes that append to it: each opens it    *)
(* for appending and numbers its events from one.  lmp/resume rebuilds a   *)
(* context from the live file alone.  An event carries a run id only when  *)
(* its emitter put one there: run_begin and the edit events do, the        *)
(* agent's tool_result does not.                                           *)
(*                                                                         *)
(* A turn is the number of its tool_result among all there ever were; an   *)
(* edit is the number of its request among all there ever were.            *)
(***************************************************************************)
EXTENDS Naturals, Sequences, FiniteSets, SequencesExt

CONSTANTS
  MaxRuns,       \* bound: runs begun
  MaxProcesses,  \* bound: times the sidecar is started
  MaxEvents      \* bound: events one process appends

ASSUME LogBounds == MaxRuns \in Nat /\ MaxProcesses \in Nat /\ MaxEvents \in Nat

VARIABLES
  log,        \* the live file
  nextSeq,    \* EventLogWriter::next_seq_
  up,         \* the sidecar process is running
  processes,  \* processes started so far
  run,        \* session.run_id while there is a context, else 0
  turns,      \* the tool turns of session.ctx, oldest first
  running,    \* run_loop is turning
  edit,       \* the edit waiting for the editor, else 0
  runs,       \* run ids minted so far
  edits,      \* edits requested so far
  owner,      \* history: owner[t] is the run whose turn t was
  openEdits,  \* history: <<run, edit>> begun and not ended
  born,       \* history: the process a run was begun in, and after how many turns
  movedOn     \* history: runs resumed in another process than that

writer == <<log, nextSeq>>
session == <<run, turns, running, edit>>
history == <<owner, openEdits, born, movedOn>>
vars == <<writer, up, processes, session, runs, edits, history>>

Kinds == {"run_begin", "tool_result", "edit_begin", "edit_end", "other"}

Init ==
  /\ log = <<>> /\ nextSeq = 1
  /\ up = FALSE /\ processes = 0
  /\ run = 0 /\ turns = <<>> /\ running = FALSE /\ edit = 0
  /\ runs = 0 /\ edits = 0
  /\ owner = <<>> /\ openEdits = {} /\ born = <<>> /\ movedOn = {}

-----------------------------------------------------------------------------
(* The writer.  A file that has grown too large is rotated away just       *)
(* before an event: what is read back starts with that event.              *)
Event(kind, carries, what) ==
  [seq |-> nextSeq, kind |-> kind, run |-> carries, what |-> what]

LogAppend(kind, carries, what) ==
  /\ nextSeq <= MaxEvents
  /\ nextSeq' = nextSeq + 1
  /\ \/ log' = Append(log, Event(kind, carries, what))
     \/ log # <<>> /\ log' = <<Event(kind, carries, what)>>

-----------------------------------------------------------------------------
(* The reader: reconstruct_context over the events of the live file.       *)

(* The elements of s that are in a set, in their order.                    *)
Kept(s, set) ==
  LET upTo[n \in 0 .. Len(s)] ==
        IF n = 0 THEN <<>>
        ELSE IF s[n] \in set THEN Append(upTo[n - 1], s[n]) ELSE upTo[n - 1]
  IN  upTo[Len(s)]

(* An event without a run id matches every run.                            *)
MatchesRun(e, r) == e.run = 0 \/ e.run = r

Begins(r) == {i \in 1 .. Len(log) : log[i].kind = "run_begin" /\ log[i].run = r}

Rebuildable(r) == Begins(r) # {}

BeginOf(r) == log[CHOOSE i \in Begins(r) : \A j \in Begins(r) : i <= j]

(* Replayed: what matches, except what carries a smaller sequence number   *)
(* than the run_begin.                                                     *)
ReplaysAll(e, r) == MatchesRun(e, r)   \* mutant: from the start of the file
Replays(e, r) == MatchesRun(e, r) /\ e.seq >= BeginOf(r).seq

RebuiltTurns(r) ==
  LET results == Kept(log, {e \in Range(log) : e.kind = "tool_result" /\ Replays(e, r)})
  IN  [i \in 1 .. Len(results) |-> results[i].what]

(* The last edit_begin replayed is open unless an edit_end replayed after  *)
(* it names the same request.                                              *)
EditInFlight(r) ==
  \E i \in 1 .. Len(log) :
    /\ log[i].kind = "edit_begin" /\ Replays(log[i], r)
    /\ \A j \in i + 1 .. Len(log) :
         Replays(log[j], r) =>
           /\ log[j].kind # "edit_begin"
           /\ log[j].kind = "edit_end" => log[j].what # log[i].what

-----------------------------------------------------------------------------
(* Processes.                                                              *)

FirstSeqZero == 0   \* mutant: numbering starts one too low
FirstSeq == 1

StartProcess ==
  /\ ~up
  /\ processes < MaxProcesses
  /\ up' = TRUE
  /\ processes' = processes + 1
  /\ nextSeq' = FirstSeq
  /\ UNCHANGED <<log, session, runs, edits, history>>

(* The process dies, or exits, at any point: everything but the log goes.  *)
Dies ==
  /\ up
  /\ up' = FALSE
  /\ run' = 0 /\ turns' = <<>> /\ running' = FALSE /\ edit' = 0
  /\ UNCHANGED <<writer, processes, runs, edits, history>>

-----------------------------------------------------------------------------
(* A run, as far as the log is concerned.                                  *)

(* lmp/start: run_begin carries the id just minted.                        *)
BeginRun ==
  /\ up /\ ~running
  /\ runs < MaxRuns
  /\ runs' = runs + 1
  /\ LogAppend("run_begin", runs + 1, 0)
  /\ run' = runs + 1 /\ turns' = <<>> /\ running' = TRUE
  /\ born' = Append(born, [process |-> processes, after |-> Len(owner)])
  /\ UNCHANGED <<up, processes, edit, edits, owner, openEdits, movedOn>>

(* lmp/message: the same run goes on.                                      *)
FollowUp ==
  /\ up /\ ~running /\ run # 0
  /\ running' = TRUE
  /\ UNCHANGED <<writer, up, processes, run, turns, edit, runs, edits, history>>

(* One executed call: its turn in the context, its result in the log.      *)
ToolTurn ==
  /\ up /\ running /\ edit = 0
  /\ LogAppend("tool_result", 0, Len(owner) + 1)
  /\ turns' = Append(turns, Len(owner) + 1)
  /\ owner' = Append(owner, run)
  /\ UNCHANGED <<up, processes, run, running, edit, runs, edits, openEdits, born, movedOn>>

(* RunInbox::apply_edit up to the wait for the editor.                     *)
EditBegins ==
  /\ up /\ running /\ edit = 0
  /\ LogAppend("edit_begin", run, edits + 1)
  /\ edits' = edits + 1
  /\ edit' = edits + 1
  /\ openEdits' = openEdits \union {<<run, edits + 1>>}
  /\ UNCHANGED <<up, processes, run, turns, running, runs, owner, born, movedOn>>

EditEndsUnlogged ==   \* mutant: edit_end is not appended
  /\ up /\ edit # 0
  /\ edit' = 0
  /\ openEdits' = openEdits \ {<<run, edit>>}
  /\ UNCHANGED <<writer, up, processes, run, turns, running, runs, edits, owner, born, movedOn>>

EditEnds ==
  /\ up /\ edit # 0
  /\ LogAppend("edit_end", run, edit)
  /\ edit' = 0
  /\ openEdits' = openEdits \ {<<run, edit>>}
  /\ UNCHANGED <<up, processes, run, turns, running, runs, edits, owner, born, movedOn>>

(* The run ends; run_end, like everything else the agent emits, carries no *)
(* run id and is not replayed.                                             *)
EndRun ==
  /\ up /\ running /\ edit = 0
  /\ LogAppend("other", 0, 0)
  /\ running' = FALSE
  /\ UNCHANGED <<up, processes, run, turns, edit, runs, edits, history>>

(* Every other event: the journal's and the model's before run_begin, the  *)
(* agent's in a turn.  No run id, not replayed, but it takes a number.     *)
Trace ==
  /\ up
  /\ LogAppend("other", 0, 0)
  /\ UNCHANGED <<up, processes, session, runs, edits, history>>

-----------------------------------------------------------------------------
(* lmp/resume with an unchanged identity, which is all the gate asks for   *)
(* besides the edit.  run_resumed carries the run id and is not replayed.  *)
GateAllows(r) == ~EditInFlight(r)

Resume(r) ==
  /\ up /\ ~running
  /\ Rebuildable(r)
  /\ GateAllows(r)
  /\ LogAppend("other", r, 0)
  /\ run' = r /\ turns' = RebuiltTurns(r)
  /\ movedOn' = IF born[r].process = processes THEN movedOn ELSE movedOn \union {r}
  /\ UNCHANGED <<up, processes, running, edit, runs, edits, owner, openEdits, born>>

-----------------------------------------------------------------------------
Next ==
  \/ StartProcess \/ Dies
  \/ BeginRun \/ FollowUp \/ ToolTurn \/ EditBegins \/ EditEnds \/ EndRun \/ Trace
  \/ \E r \in 1 .. runs : Resume(r)

Spec == Init /\ [][Next]_vars

-----------------------------------------------------------------------------
Runs == 1 .. runs
Turns == 1 .. Len(owner)
Events == [seq : Nat, kind : Kinds, run : 0 .. runs, what : 0 .. Len(owner) + edits]

TypeOK ==
  /\ log \in Seq(Events) /\ nextSeq \in 1 .. MaxEvents + 1
  /\ up \in BOOLEAN /\ processes \in 0 .. MaxProcesses
  /\ run \in 0 .. runs /\ turns \in Seq(Turns)
  /\ running \in BOOLEAN /\ edit \in 0 .. edits
  /\ runs \in 0 .. MaxRuns /\ edits \in Nat
  /\ owner \in Seq(Runs) /\ openEdits \subseteq Runs \X (1 .. edits)
  /\ born \in [Runs -> [process : 1 .. MaxProcesses, after : 0 .. Len(owner)]] /\ movedOn \subseteq Runs

OwnTurns(r) == {t \in Turns : owner[t] = r}

(* A run that never left the process it began in loses none of its turns   *)
(* to a resume, and gets them in order, as long as its run_begin is still  *)
(* in the live file.                                                       *)
ReplayKeepsOwnTurns ==
  \A r \in Runs \ movedOn :
    Rebuildable(r) => Kept(RebuiltTurns(r), OwnTurns(r)) = Kept([t \in Turns |-> t], OwnTurns(r))

(* As long as one process writes the file, a replay starts where the run   *)
(* did: nothing taken before its run_begin is in it.                       *)
NoOlderTurns ==
  processes = 1 =>
    \A r \in Runs : Rebuildable(r) =>
      \A i \in 1 .. Len(RebuiltTurns(r)) : RebuiltTurns(r)[i] > born[r].after

(* What a replay promises of turns: all of the run's own, none from before *)
(* it, for the runs and processes of which each is true.                   *)
ReplayIsFaithful == ReplayKeepsOwnTurns /\ NoOlderTurns

(* An edit the editor may have half applied keeps its run from being       *)
(* resumed, and a finished one does not: for a run that was not resumed in *)
(* another process before.                                                 *)
EditGuardAtHome ==
  \A r \in Runs \ movedOn :
    Rebuildable(r) => (EditInFlight(r) <=> \E k \in 1 .. edits : <<r, k>> \in openEdits)

(* "Auto-resume is refused when an edit was in flight" (resume.hpp:7): a   *)
(* run with an edit that began and never ended is not resumed.             *)
NoResumeWithEditInFlight ==
  run # 0 /\ edit = 0 => \A k \in 1 .. edits : <<run, k>> \notin openEdits
=============================================================================
