--------------------------- MODULE WorkingContext ---------------------------
(***************************************************************************)
(* What the model is shown of the files it read (src/context/context.*,    *)
(* Agent::compact_to_budget and the reads in src/loop/agent.cpp).          *)
(*                                                                         *)
(* A file is a version; a read of it returns the bytes [path, view,        *)
(* version], a view being the whole file or a range of its lines.  A turn  *)
(* of the context says in which form it holds the bytes it was given:      *)
(*   bytes  verbatim, with the notes the harness added                     *)
(*   ref    a reference to a copy higher up (elision_note)                 *)
(*   same   "was read again below and is unchanged"                        *)
(*   old    "was edited after this snapshot was taken"                     *)
(*   floor  "Body dropped; fetch again"                                    *)
(*   other  a result of any other tool, or words of the operator           *)
(***************************************************************************)
EXTENDS Naturals, SequencesExt, FiniteSetsExt

CONSTANTS
  Files,      \* the paths read and written
  Views,      \* "whole" (read_file) and ranges (read_slice)
  CallBatches, \* the batches a turn may consist of: sequences of ContextCalls
  Short,      \* versions shorter than kMinElideBytes, kMinDuplicateBytes and a stub
  Heavy,      \* tokens of a body that is not
  Capacity,   \* context_budget_tokens
  HighWater,  \* kCompactAtPercent of it
  LowWater,   \* kCompactToPercent of it
  KeepRecent, \* kMinRecentTurns
  MaxVersion, \* bound: edits of a file
  MaxShown    \* bound: turns recorded

ContextCalls ==
  [kind : {"read"}, path : Files, view : Views] \union [kind : {"write"}, path : Files]
    \union [kind : {"other"}]

ASSUME BatchesAssumption == \A b \in CallBatches : b \in Seq(ContextCalls) /\ b # <<>>
ASSUME MarksAssumption ==
  /\ {Heavy, Capacity, HighWater, LowWater, KeepRecent, MaxVersion, MaxShown} \subseteq Nat
  /\ LowWater <= HighWater /\ HighWater <= Capacity

VARIABLES
  version,   \* version[f]: what the file holds now
  recent,    \* recent_: the turns in the prompt, oldest first
  pending,   \* pending_collapses_
  seen,      \* seen[<<f, view>>]: what the repeat detector last recorded of that read
  recorded   \* turns_recorded_

contextVars == <<version, recent, pending, seen, recorded>>

Bytes == [path : Files, view : Views, version : 0 .. MaxVersion]
Nothing == [form |-> "none"]
Reads == Files \X Views

ContextInit ==
  /\ version = [f \in Files |-> 0]
  /\ recent = <<>> /\ pending = <<>> /\ seen = [r \in Reads |-> Nothing]
  /\ recorded = 0

-----------------------------------------------------------------------------
(* What the context holds.                                                 *)

LongBytes(b) == b.version \notin Short

Verbatim(form, b, notes) == [form |-> form, of |-> b, notes |-> notes]

(* has_observation: these bytes, with no note added.                       *)
HasObservation(turns, b) == \E i \in DOMAIN turns : turns[i].body = Verbatim("bytes", b, {})

(* stale_copies_of_path: notes aside, what else was read of the path.      *)
IsStale(turn, b) == turn.labelled /\ turn.body.of.path = b.path /\ turn.body.of # b
HasStale(turns, b) == \E i \in DOMAIN turns : IsStale(turns[i], b)

-----------------------------------------------------------------------------
(* One read (adopt_readonly_result, and the end of dispatch_call): b is    *)
(* what the tool returned, turns what the model is shown.                  *)
Unchanged(b) == seen[<<b.path, b.view>>] = Verbatim("bytes", b, {})

Elides(turns, b) ==
  Unchanged(b) /\ LongBytes(b) /\ HasObservation(turns, b) /\ ~HasStale(turns, b)

NotesWithoutStale(turns, b) == IF Unchanged(b) THEN {"repeat"} ELSE {}   \* mutant
NotesOn(turns, b) ==
  (IF Unchanged(b) THEN {"repeat"} ELSE {}) \union (IF HasStale(turns, b) THEN {"stale"} ELSE {})

AnswerTo(turns, b) ==
  IF Elides(turns, b) THEN Verbatim("ref", b, {}) ELSE Verbatim("bytes", b, NotesOn(turns, b))

(* collapse_duplicate_read: one entry for a path, the latest.              *)
Without(queue, path) ==
  LET found == {i \in DOMAIN queue : queue[i].path = path}
  IN  IF found = {} THEN queue ELSE RemoveAt(queue, Min(found))
Queued(queue, body) ==
  IF body.form = "ref" \/ ~LongBytes(body.of) THEN queue
  ELSE Append(Without(queue, body.of.path), body.of)

(* record_call by way of without_cache_note, which takes the repeat note   *)
(* off where it comes last.                                                *)
Remembered(body) ==
  IF body.form = "bytes" /\ "stale" \notin body.notes
    THEN Verbatim("bytes", body.of, {}) ELSE body

-----------------------------------------------------------------------------
(* Making room.  A prompt is [turns, queue].                               *)

Weight(turn) == IF turn.body.form = "bytes" /\ LongBytes(turn.body.of) THEN Heavy ELSE 1
Tokens(turns) == FoldLeft(LAMBDA sum, turn : sum + Weight(turn), 0, turns)

Becomes(turn, form) == [turn EXCEPT !.body.form = form, !.body.notes = {}, !.labelled = FALSE]

(* apply_pending_collapses, one entry after the other: each by way of      *)
(* supersede_duplicate_observation, then supersede_stale_copies_of_path.   *)
(* What one entry has made give way no later one meets.                    *)
IsSame(turn, b) == turn.body = Verbatim("bytes", b, {})
Collapsed(turns, queue) ==
  [i \in DOMAIN turns |->
     LET meets == {n \in DOMAIN queue : IsSame(turns[i], queue[n]) \/ IsStale(turns[i], queue[n])}
     IN  IF meets = {} THEN turns[i]
         ELSE Becomes(turns[i], IF IsSame(turns[i], queue[Min(meets)]) THEN "same" ELSE "old")]

(* compact_oldest, one turn after the other.                               *)
Fewest(turns) ==
  Min({n \in 0 .. Len(turns) : Len(turns) - n <= KeepRecent
                                 \/ Tokens(SubSeq(turns, n + 1, Len(turns))) <= LowWater})

(* floor_stub_for: bodies give way, the oldest first, until the rest fits. *)
FloorOldest(turns) ==
  LET bodies == {i \in DOMAIN turns : Weight(turns[i]) > 1}
      Floored(upTo) ==
        [i \in DOMAIN turns |->
           IF i \in bodies /\ i <= upTo THEN Becomes(turns[i], "floor") ELSE turns[i]]
      enough == {n \in 0 .. Len(turns) : n = Len(turns) \/ Tokens(Floored(n)) <= Capacity}
  IN  Floored(Min(enough))

CompactToBudget(prompt) ==
  LET collapsed == Collapsed(prompt.turns, prompt.queue)
      dropped == Fewest(collapsed)
  IN  IF Tokens(prompt.turns) <= HighWater THEN prompt
      ELSE IF collapsed # prompt.turns /\ Tokens(collapsed) <= HighWater
        THEN [prompt EXCEPT !.turns = collapsed, !.queue = <<>>]
      ELSE [turns |-> FloorOldest(SubSeq(collapsed, dropped + 1, Len(collapsed))),
            queue |-> <<>>]

Prompt == [turns |-> recent, queue |-> pending]
Shows(prompt) == recent' = prompt.turns /\ pending' = prompt.queue

-----------------------------------------------------------------------------
(* add_turn.                                                               *)
TurnOf(body) == [body |-> body, labelled |-> body.form = "bytes"]
Spoken == [form |-> "other"]

(* Reads run together before the rest when there are two.                  *)
ReadsOf(batch) == {i \in DOMAIN batch : batch[i].kind = "read"}
WritesBefore(batch, i) ==
  {j \in DOMAIN batch : batch[j].kind = "write" /\ batch[j].path = batch[i].path
                          /\ j < i /\ Cardinality(ReadsOf(batch)) = 1}
ReadBy(batch, i) ==
  [path |-> batch[i].path, view |-> batch[i].view,
   version |-> version[batch[i].path] + Cardinality(WritesBefore(batch, i))]
BodyOf(batch, i, turns) ==
  IF i \in ReadsOf(batch) THEN AnswerTo(turns, ReadBy(batch, i)) ELSE Spoken

TurnsOf(batch, turns) == [i \in DOMAIN batch |-> TurnOf(BodyOf(batch, i, turns))]

AllQueued(queue, new) ==
  LET upTo[n \in 0 .. Len(new)] ==
        IF n = 0 THEN queue
        ELSE IF new[n].labelled THEN Queued(upTo[n - 1], new[n].body) ELSE upTo[n - 1]
  IN  upTo[Len(new)]

WithTurns(prompt, new) == [turns |-> prompt.turns \o new, queue |-> AllQueued(prompt.queue, new)]

(* Room is made before the generation and after the turn.                  *)
ContextTurn(batch) ==
  LET before == CompactToBudget(Prompt)
      new == TurnsOf(batch, before.turns)
      Wrote(f) == Cardinality({i \in DOMAIN batch : batch[i] = [kind |-> "write", path |-> f]})
  IN  /\ recorded + Len(batch) <= MaxShown
      /\ \A f \in Files : version[f] + Wrote(f) <= MaxVersion
      /\ Shows(CompactToBudget(WithTurns(before, new)))
      /\ seen' = [r \in Reads |->
           LET mine == {i \in ReadsOf(batch) : <<batch[i].path, batch[i].view>> = r}
           IN  IF mine = {} THEN seen[r] ELSE Remembered(new[Max(mine)].body)]
      /\ version' = [f \in Files |-> version[f] + Wrote(f)]
      /\ recorded' = recorded + Len(batch)

(* add_user_message, by steering or by a follow-up, which is a new Agent:  *)
(* it has queued nothing and seen nothing.                                 *)
Told(follows) ==
  /\ recorded < MaxShown
  /\ recent' = Append(recent, TurnOf(Spoken))
  /\ pending' = IF follows THEN <<>> ELSE pending
  /\ seen' = IF follows THEN [r \in Reads |-> Nothing] ELSE seen
  /\ recorded' = recorded + 1 /\ UNCHANGED version

(* The operator, or a command, changes a file.                             *)
ChangedOutside(f) ==
  /\ version[f] < MaxVersion /\ version' = [version EXCEPT ![f] = @ + 1]
  /\ UNCHANGED <<recent, pending, seen, recorded>>

ContextNext ==
  \/ \E batch \in CallBatches : ContextTurn(batch)
  \/ \E follows \in BOOLEAN : Told(follows)
  \/ \E f \in Files : ChangedOutside(f)

ContextSpec == ContextInit /\ [][ContextNext]_contextVars

-----------------------------------------------------------------------------
ContextTypeOK ==
  /\ version \in [Files -> 0 .. MaxVersion]
  /\ \A i \in DOMAIN recent : recent[i].labelled => recent[i].body.form = "bytes"
  /\ \A i \in DOMAIN pending : pending[i] \in Bytes
  /\ recorded \in 0 .. MaxShown

(* Of two states of a file that the model is shown, the later one says     *)
(* that it is the current one, and that the earlier is out of date:        *)
(* however reads, references, edits and making room alternated             *)
(* (note_stale_copies, agent.cpp:621).                                     *)
OlderCopyIsMarked ==
  \A i, j \in DOMAIN recent :
    i < j /\ recent[i].labelled /\ recent[j].labelled
      /\ recent[i].body.of.path = recent[j].body.of.path
      /\ recent[i].body.of.version # recent[j].body.of.version
    => "stale" \in recent[j].body.notes

(* "the collapse always leaves exactly ONE live copy -- the newest"        *)
(* (context.hpp:336): what is said to have been read again below was, even *)
(* if that copy has since had to give way.                                 *)
CollapseLeavesTheNewest ==
  \A i \in DOMAIN recent : recent[i].body.form = "same" =>
    \E j \in i + 1 .. Len(recent) :
      recent[j].body.form \notin {"ref", "other"} /\ recent[j].body.of = recent[i].body.of
=============================================================================
