------------------------------ MODULE KvCache -------------------------------
(***************************************************************************)
(* What a generation keeps of the one before (KvCacheLedger and            *)
(* plan_turn_reuse, src/model/kv_cache.cpp), how the backend prefills and  *)
(* decodes over it (src/model/mlx_backend.cpp), and how speculative blocks *)
(* are taken back (src/model/speculative.cpp).                             *)
(*                                                                         *)
(* A position is a token and the image it lies in.  The model's caches are *)
(* the sequence of positions they were computed from.  Which tokens are    *)
(* drafted, accepted or sampled is any.                                    *)
(***************************************************************************)
EXTENDS Naturals, SequencesExt

CONSTANTS
  Stable,     \* what a prompt can begin with, up to the live state
  Live,       \* what the live state can be
  Primer,       \* the generation prompt, which no message renders to
  Generated,  \* the positions that can be generated
  Chunk,      \* tokens prefilled at a time
  MaxNew,     \* max_new_tokens
  MaxDraft,   \* drafted tokens in a block
  MaxDeferred \* max_deferred

Positions == [id : STRING, image : STRING]

ASSUME PromptAssumption ==
  /\ Stable \union Live \subseteq Seq(Positions) /\ <<>> \notin Stable
  /\ {Primer} \union Generated \subseteq Positions
ASSUME PrimerAssumption == \A s \in Stable \union Live : Primer \notin {s[i] : i \in DOMAIN s}
ASSUME GenerationBounds ==
  Chunk \in Nat \ {0} /\ {MaxNew, MaxDraft, MaxDeferred} \subseteq Nat

VARIABLES
  ledger,      \* KvCacheLedger: the ids and tags recorded
  consumed,    \* what the model's caches were computed from
  checkpoint,  \* impl_->ckpt: [len, holds], or NoCheckpoint
  task,        \* [prompt, stable, end, warm]: the generation in progress, or NoTask
  kvPc,        \* "idle", "prefill" or "decode"
  speculative, \* whether decoding is speculative
  defers,      \* can_draft_deferred of the proposer
  pending,     \* tokens committed and not yet forwarded
  emitted,     \* what the generation has given to the sink
  astray       \* history: a forward pass threw and its positions stayed

kvVars == <<ledger, consumed, checkpoint, task, kvPc, speculative, defers, pending, emitted,
            astray>>

NoCheckpoint == [len |-> 0, holds |-> <<>>]
NoTask == [prompt |-> <<>>, stable |-> 0, end |-> 0, warm |-> FALSE]

KvInit ==
  /\ ledger = <<>> /\ consumed = <<>> /\ checkpoint = NoCheckpoint
  /\ task = NoTask /\ kvPc = "idle"
  /\ speculative \in BOOLEAN /\ defers \in BOOLEAN
  /\ pending = <<>> /\ emitted = <<>> /\ astray = FALSE

-----------------------------------------------------------------------------
(* plan_reuse and plan_turn_reuse.                                         *)

(* Mutant: images are told apart by nothing, since every pad has one id.   *)
SameToken(p, q) == p.id = q.id
SamePosition(p, q) == p = q

Reusable(prompt) ==
  Max({n \in 0 .. Len(ledger) :
         n <= Len(prompt) /\ \A i \in 1 .. n : SamePosition(ledger[i], prompt[i])})

Restorable(prompt) == checkpoint.len > 0 /\ checkpoint.len <= Reusable(prompt)

(* Mutant: the caches are reset and the checkpoint forgotten.              *)
StartsAgainButCheckpoint ==
  /\ ledger' = <<>> /\ consumed' = <<>> /\ UNCHANGED checkpoint /\ astray' = FALSE

(* reset_live_kv.                                                          *)
StartsAgain ==
  /\ ledger' = <<>> /\ consumed' = <<>> /\ checkpoint' = NoCheckpoint /\ astray' = FALSE

(* Back to the checkpoint: the model's caches are truncated to it and the  *)
(* recurrences restored from it.                                           *)
GoesBack ==
  /\ ledger' = SubSeq(ledger, 1, checkpoint.len)
  /\ consumed' = checkpoint.holds
  /\ astray' = (Len(checkpoint.holds) # checkpoint.len)
  /\ UNCHANGED checkpoint

(* Extend when the ledger is a prefix of the prompt, else restore when the *)
(* checkpoint is one, else reset.                                          *)
Reuses(prompt) ==
  CASE Reusable(prompt) = Len(ledger) -> UNCHANGED <<ledger, consumed, checkpoint, astray>>
    [] Reusable(prompt) < Len(ledger) /\ Restorable(prompt) -> GoesBack
    [] OTHER -> StartsAgain

(* A prompt that is all reused leaves no logits to sample from, and the    *)
(* generation ends in an error.                                            *)
Begins(stable, live, warm) ==
  LET prompt == stable \o live \o <<Primer>>
  IN  /\ kvPc = "idle"
      /\ IF warm THEN StartsAgain ELSE Reuses(prompt)
      /\ IF ledger' = prompt
           THEN UNCHANGED <<kvPc, task>>
           ELSE /\ kvPc' = "prefill"
                /\ task' = [prompt |-> prompt, stable |-> Len(stable), warm |-> warm,
                            end |-> IF warm THEN Len(stable) ELSE Len(prompt)]
      /\ UNCHANGED <<speculative, defers, pending, emitted>>

(* The end of a generation, whatever ended it.                             *)
Over == kvPc' = "idle" /\ task' = NoTask /\ pending' = <<>> /\ emitted' = <<>>
Continues == UNCHANGED <<kvPc, task>>

-----------------------------------------------------------------------------
(* prefill_tokens.  The stable boundary is an edge of a chunk, and there   *)
(* the checkpoint is taken.                                                *)
At == Len(ledger)
ChunkEnd ==
  LET e == Min({At + Chunk, task.end})
  IN  IF At < task.stable /\ task.stable < e THEN task.stable ELSE e
Piece == SubSeq(task.prompt, At + 1, ChunkEnd)

PrefillChunk ==
  /\ kvPc = "prefill" /\ At < task.end
  /\ ledger' = ledger \o Piece /\ consumed' = consumed \o Piece
  /\ checkpoint' = IF ChunkEnd = task.stable
                     THEN [len |-> ChunkEnd, holds |-> consumed'] ELSE checkpoint
  /\ Continues
  /\ UNCHANGED <<speculative, defers, pending, emitted, astray>>

PrefillEnds ==
  /\ kvPc = "prefill" /\ At = task.end
  /\ IF task.warm THEN Over
                  ELSE kvPc' = "decode" /\ UNCHANGED <<task, pending, emitted>>
  /\ UNCHANGED <<ledger, consumed, checkpoint, speculative, defers, astray>>

(* Cancelled before a chunk or a token; or no token is legal, or the turn  *)
(* has none left.                                                          *)
Stops ==
  /\ kvPc # "idle" /\ Over
  /\ UNCHANGED <<ledger, consumed, checkpoint, speculative, defers, astray>>

(* The allocator throws while a forward pass is evaluated: its positions   *)
(* are in the caches already, and generate only reports the error.  (The   *)
(* bound is one such pass until the caches are right again.)               *)
Throws(forwarded) ==
  /\ ~astray
  /\ consumed' = consumed \o forwarded /\ astray' = TRUE
  /\ Over
  /\ UNCHANGED <<ledger, checkpoint, speculative, defers>>

-----------------------------------------------------------------------------
(* Plain decoding.  A token is in the ledger before the sink sees it, and  *)
(* is forwarded only if the sink wants more.                               *)
Token(p, stops) ==
  /\ kvPc = "decode" /\ ~speculative /\ Len(emitted) < MaxNew
  /\ ledger' = Append(ledger, p)
  /\ IF stops
       THEN Over /\ consumed' \in {consumed, Append(consumed, p)}
       ELSE /\ consumed' = Append(consumed, p) /\ emitted' = Append(emitted, p)
            /\ Continues /\ UNCHANGED pending
  /\ UNCHANGED <<checkpoint, speculative, defers, astray>>

-----------------------------------------------------------------------------
(* Speculative decoding.  SpeculativeDecoder::step forwards what it keeps  *)
(* of a block, or puts it off: [forwarded, owed].                          *)

(* flush: a proposer that cannot draft ahead owes nothing.                 *)
Flushes == ~defers \/ Len(pending) >= MaxDeferred
Owed == IF Flushes THEN <<>> ELSE pending
Flushed == IF Flushes THEN pending ELSE <<>>

(* No draft, or a block that could not answer and was taken back.          *)
One(p) == [forwarded |-> pending \o <<p>>, owed |-> <<>>]

(* update_cache_and_forward, with m of the drafts accepted and p after     *)
(* them: a block accepted in full stays in the caches; of any other the    *)
(* whole is taken back, and what was committed is forwarded again or       *)
(* waits for the next block.                                               *)
Block(drafted, m, p) ==
  LET committed == SubSeq(drafted, 1, m) \o <<p>>
  IN  CASE m = Len(drafted) /\ defers ->
             [forwarded |-> Flushed \o Owed \o drafted, owed |-> <<p>>]
        [] m < Len(drafted) /\ defers /\ Len(Owed \o committed) <= MaxDeferred ->
             [forwarded |-> Flushed, owed |-> Owed \o committed]
        [] OTHER -> [forwarded |-> Flushed \o Owed \o committed, owed |-> <<>>]

(* The sink may refuse any of the tokens, or the budget end among them.    *)
Commits(committed, step, stops) ==
  /\ kvPc = "decode" /\ speculative /\ Len(emitted) < MaxNew
  /\ ledger' = ledger \o step.forwarded /\ consumed' = consumed \o step.forwarded
  /\ IF stops \/ Len(emitted \o committed) > MaxNew
       THEN Over
       ELSE /\ pending' = step.owed /\ emitted' = emitted \o committed
            /\ Continues
  /\ UNCHANGED <<checkpoint, speculative, defers, astray>>

DecodesOne(p, stops) == Commits(<<p>>, One(p), stops)

DecodesBlock(drafted, m, p, stops) ==
  /\ m <= Len(drafted)
  /\ m < Len(drafted) => p # drafted[m + 1]
  /\ Commits(SubSeq(drafted, 1, m) \o <<p>>, Block(drafted, m, p), stops)

Drafts == UNION {[1 .. n -> Generated] : n \in 1 .. MaxDraft}

(* MlxBackend::load: a model loaded anew.                                  *)
Reloads ==
  /\ kvPc = "idle" /\ ledger # <<>>
  /\ StartsAgain
  /\ UNCHANGED <<task, kvPc, speculative, defers, pending, emitted>>

KvNext ==
  \/ \E stable \in Stable, live \in Live, warm \in BOOLEAN : Begins(stable, live, warm)
  \/ PrefillChunk \/ PrefillEnds \/ Stops \/ Reloads
  \/ kvPc = "prefill" /\ At < task.end /\ Throws(Piece)
  \/ \E p \in Generated, stops \in BOOLEAN : Token(p, stops) \/ DecodesOne(p, stops)
  \/ \E drafted \in Drafts :
       \/ \E m \in 0 .. MaxDraft, p \in Generated, stops \in BOOLEAN :
            DecodesBlock(drafted, m, p, stops)
       \/ kvPc = "decode" /\ speculative /\ Throws(pending \o drafted)

KvSpec == KvInit /\ [][KvNext]_kvVars

-----------------------------------------------------------------------------
KvTypeOK ==
  /\ kvPc \in {"idle", "prefill", "decode"}
  /\ {speculative, defers, astray} \subseteq BOOLEAN
  /\ {ledger, consumed, pending, emitted, task.prompt, checkpoint.holds} \subseteq Seq(Positions)
  /\ checkpoint.len \in 0 .. Len(ledger) /\ Len(emitted) <= MaxNew

(* What the model has computed, with what it owes, is the prompt and the   *)
(* tokens given out, image for image: nothing of an earlier prompt, of a   *)
(* picture it was not shown or of a rejected draft is left.                *)
ContextIsExact == consumed \o pending = task.prompt \o emitted

(* Across extensions, restores to a checkpoint taken generations ago,      *)
(* cancelled prefills, warmed prefixes and rejected blocks (kv_cache.hpp:8,*)
(* mlx_backend.cpp:1093); but not after a pass that threw, whose positions *)
(* stay in the caches until they are next reset or taken back.             *)
DecodesExactContext == kvPc = "decode" /\ ~astray => ContextIsExact
=============================================================================
