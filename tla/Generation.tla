----------------------------- MODULE Generation -----------------------------
(***************************************************************************)
(* One constrained generation: the grammar that says what may come next    *)
(* (src/model/grammar.cpp), the budgets laid over its mask, the drafts     *)
(* that walk it and are taken back (src/model/speculative.cpp), the decode *)
(* loop that commits tokens to the sink (src/model/mlx_backend.cpp), and   *)
(* the thread that shows their text (src/loop/token_stream.cpp).           *)
(*                                                                         *)
(* Which tokens are drafted, and which of the legal ones is sampled, is    *)
(* any.  Inside a call the authority is parsephony's guard, an automaton   *)
(* given by its states; a word is bytes, some of them half a character.    *)
(***************************************************************************)
EXTENDS Naturals, FiniteSets, SequencesExt

CONSTANTS
  Words,        \* tokens that are not structural
  Bytes,        \* Bytes[w]: each byte is "whole", "head" or "tail" of a character
  GuardStates,  \* states of ToolCallGuard
  Opened,       \* after "<tool_call>\n"
  Whole,        \* complete()
  Refuses,      \* what Fed is where the guard reports an error
  Fed,          \* Fed[<<state, token>>]
  MaxCalls,     \* kMaxCallsPerTurn
  ThinkCap,     \* think_token_cap
  ToolCap,      \* tool_token_cap
  TokenBudget,  \* max_new_tokens
  DraftLength,  \* max_draft
  Window,       \* kWindow
  Repeats,      \* kMaxRepeats
  QueueSlots    \* kQueueSlots

Structural == {"think_close", "call_open", "call_close", "im_end", "special"}
Tokens == Words \union Structural

ASSUME TokenAssumption ==
  /\ Words \intersect Structural = {}
  /\ Bytes \in [Words -> Seq({"whole", "head", "tail"})]
ASSUME GuardAssumption ==
  /\ {Opened, Whole} \subseteq GuardStates /\ Refuses \notin GuardStates
  /\ Fed \in [GuardStates \X (Words \union {"call_close"}) -> GuardStates \union {Refuses}]
ASSUME BudgetAssumption ==
  {MaxCalls, ThinkCap, ToolCap, TokenBudget, DraftLength, Window, Repeats, QueueSlots}
    \subseteq Nat \ {0}

VARIABLES
  grammar,    \* TurnGrammar: [phase, guard, think, text, calls, tool]
  offered,    \* whether the turn has tools, so that the grammar has a guard
  drafting,   \* decode_speculative, or the plain loop
  committed,  \* tokens of the step not yet given to the sink
  genPc,      \* "step", "feed", "join" or "done"
  verdict,    \* how the generation ended, "none" before
  queue, closed, \* TokenStreamer's channel
  shower,     \* its thread: [at, channel, text, held]
  shown,      \* what was emitted: [channel, text]
  given       \* history: the tokens the sink was given

generationVars ==
  <<grammar, offered, drafting, committed, genPc, verdict, queue, closed, shower, shown, given>>

Channels == {"thinking", "answer"}
NothingHeld == [c \in Channels |-> <<>>]
FreshTurn ==
  [phase |-> "think", guard |-> Opened, think |-> <<>>, text |-> <<>>, calls |-> 0, tool |-> 0]

GenerationInit ==
  /\ grammar = FreshTurn /\ offered \in BOOLEAN /\ drafting \in BOOLEAN
  /\ committed = <<>> /\ genPc = "step" /\ verdict = "none"
  /\ queue = <<>> /\ closed = FALSE
  /\ shower = [at |-> "loop", channel |-> "answer", text |-> <<>>, held |-> NothingHeld]
  /\ shown = <<>> /\ given = <<>>

-----------------------------------------------------------------------------
(* TurnGrammar::advance.                                                   *)
AtCallCap(g) == g.calls >= MaxCalls

Accepts(g, t) ==
  \/ g.phase = "think" /\ t \in Words \union {"think_close"}
  \/ /\ g.phase = "text"
     /\ \/ t \in Words \union {"think_close", "im_end"}
        \/ t = "call_open" /\ offered /\ ~AtCallCap(g)
  \/ /\ g.phase = "call" /\ t \in Words \union {"call_close"}
     /\ Fed[<<g.guard, t>>] # Refuses
     /\ t = "call_close" => Fed[<<g.guard, t>>] = Whole

(* close_call: on the guard's completion, however the closer was spelt.    *)
FedCall(g, t) ==
  LET fed == [g EXCEPT !.guard = Fed[<<g.guard, t>>], !.tool = @ + 1]
  IN  IF fed.guard = Whole THEN [fed EXCEPT !.calls = @ + 1, !.phase = "text"] ELSE fed

Advanced(g, t) ==
  IF g.phase = "call" THEN FedCall(g, t)
  ELSE CASE t = "think_close" -> [g EXCEPT !.phase = "text"]
         [] t = "im_end" -> [g EXCEPT !.phase = "done"]
         [] t = "call_open" -> [g EXCEPT !.phase = "call", !.guard = Opened, !.tool = @ + 1]
         [] OTHER -> IF g.phase = "think" THEN [g EXCEPT !.think = Append(@, t)]
                                          ELSE [g EXCEPT !.text = Append(@, t)]

(* permitted and the masks built of it.  Outside a call a probe stands for *)
(* every state with its phase and the one bit about the cap.               *)
Probe(g) == [FreshTurn EXCEPT !.phase = g.phase, !.calls = IF AtCallCap(g) THEN MaxCalls ELSE 0]
GrammarMask(g) == {t \in Tokens : Accepts(IF g.phase = "call" THEN g ELSE Probe(g), t)}

(* ThinkCapMask under ToolCapMask.                                         *)
AtThinkCap(g) == g.phase = "think" /\ Len(g.think) >= ThinkCap
BudgetExhausted(g) == g.phase = "call" /\ g.tool >= ToolCap
Mask(g) ==
  IF BudgetExhausted(g) THEN {} ELSE IF AtThinkCap(g) THEN {"think_close"} ELSE GrammarMask(g)
BlockStable(g) == g.phase \in {"think", "text"} /\ ~AtThinkCap(g)

-----------------------------------------------------------------------------
(* walk_masks.                                                             *)
After(g, tokens) ==
  LET turn[n \in 0 .. Len(tokens)] == IF n = 0 THEN g ELSE Advanced(turn[n - 1], tokens[n])
  IN  turn[Len(tokens)]
Upto(tokens, n) == SubSeq(tokens, 1, n)

Probed(g, drafted) ==
  LET legal == {n \in 0 .. Len(drafted) :
        \A i \in 1 .. n : LET here == After(g, Upto(drafted, i - 1))
                          IN  drafted[i] \in Mask(here) /\ Accepts(here, drafted[i])}
  IN  CHOOSE n \in legal : \A k \in legal : k <= n

(* A draft ends before a position with nothing legal in it.                *)
Walked(g, drafted) ==
  LET n == Probed(g, drafted)
  IN  Upto(drafted, IF n > 0 /\ Mask(After(g, Upto(drafted, n))) = {} THEN n - 1 ELSE n)

(* Mutant: what the probe counted stays.                                   *)
RolledBackButCount(mark, g) ==
  [g EXCEPT !.phase = mark.phase, !.guard = mark.guard, !.calls = mark.calls,
            !.think = Upto(@, Len(mark.think)), !.text = Upto(@, Len(mark.text))]

(* rollback: what is append-only is cut to its size at the checkpoint.     *)
RolledBack(mark, g) ==
  [g EXCEPT !.phase = mark.phase, !.guard = mark.guard, !.calls = mark.calls, !.tool = mark.tool,
            !.think = Upto(@, Len(mark.think)), !.text = Upto(@, Len(mark.text))]

Draft(g, drafted) == IF BlockStable(g) THEN drafted ELSE Walked(g, drafted)
MaskAt(g, drafted, i) == IF BlockStable(g) THEN Mask(g) ELSE Mask(After(g, Upto(drafted, i)))
GrammarAfterWalk(drafted) ==
  IF BlockStable(grammar) THEN grammar
  ELSE RolledBack(grammar, After(grammar, Upto(drafted, Probed(grammar, drafted))))

-----------------------------------------------------------------------------
(* The decode loops.                                                       *)
Streaming == UNCHANGED <<queue, closed, shower, shown>>
Settings == UNCHANGED <<offered, drafting>>

(* The generation is over; the loop joins the streamer (finish).           *)
Ends(how) == verdict' = how /\ genPc' = "join" /\ closed' = TRUE /\ committed' = <<>>

(* Cancelled, out of the budget of a call, or at a state the guard cannot  *)
(* leave; or the backend throws.                                           *)
StopsGenerating(how) ==
  /\ genPc = "step"
  /\ how = "capped" => BudgetExhausted(grammar)
  /\ Ends(how)
  /\ Settings /\ UNCHANGED <<grammar, queue, shower, shown, given>>

Commit(tokens) ==
  committed' = tokens /\ genPc' = "feed" /\ Settings /\ Streaming /\ UNCHANGED <<verdict, given>>

(* One token: the plain loop, or decode_one.                               *)
Samples(p) ==
  /\ genPc = "step" /\ p \in Mask(grammar)
  /\ Commit(<<p>>) /\ UNCHANGED grammar

(* A block of which m drafts are accepted and p is sampled after them; a   *)
(* draft of which the walk keeps nothing is one token.                     *)
SamplesBlock(drafted, m, p) ==
  /\ genPc = "step" /\ drafting /\ ~BudgetExhausted(grammar)
  /\ LET draft == Draft(grammar, drafted)
     IN  /\ m <= Len(draft) /\ p \in MaskAt(grammar, draft, m)
         /\ m < Len(draft) => p # draft[m + 1]
         /\ Commit(Append(Upto(draft, m), p))
  /\ grammar' = GrammarAfterWalk(drafted)

-----------------------------------------------------------------------------
(* GrammarSink::on_token.                                                  *)

(* LoopBreaker: the last window of prose was seen often enough.            *)
Looping(prose) ==
  LET At(i) == SubSeq(prose, i, i + Window - 1)
      last == Len(prose) - Window + 1
  IN  Len(prose) >= Window /\ Cardinality({i \in 1 .. last : At(i) = At(last)}) >= Repeats

GrewOf(g) ==
  IF Len(g.think) > Len(grammar.think) THEN {"thinking"}
  ELSE IF Len(g.text) > Len(grammar.text) THEN {"answer"} ELSE {}

(* push waits while the queue is full.                                     *)
OnToken ==
  /\ genPc = "feed"
  /\ LET t == Head(committed)
         legal == Accepts(grammar, t)
         g == IF legal THEN Advanced(grammar, t) ELSE grammar
         channel == GrewOf(g)
         loops == channel # {} /\ Looping(g.think \o g.text)
     IN  /\ grammar' = g /\ given' = Append(given, t)
         /\ channel # {} => Len(queue) < QueueSlots
         /\ queue' = queue \o (IF channel = {} THEN <<>>
                               ELSE <<[id |-> t, channel |-> CHOOSE c \in channel : TRUE]>>)
         /\ IF ~legal THEN Ends("rejected")
            ELSE IF g.phase = "done" THEN Ends("complete")
            ELSE IF loops THEN Ends("looped")
            ELSE IF BudgetExhausted(g) \/ Len(given') = TokenBudget THEN Ends("capped")
            ELSE /\ committed' = Tail(committed)
                 /\ genPc' = IF Len(committed) = 1 THEN "step" ELSE "feed"
                 /\ UNCHANGED <<verdict, closed>>
  /\ Settings /\ UNCHANGED <<shower, shown>>

Joins ==
  /\ genPc = "join" /\ shower.at = "gone" /\ genPc' = "done"
  /\ Settings /\ Streaming /\ UNCHANGED <<grammar, committed, verdict, given>>

-----------------------------------------------------------------------------
(* TokenStreamer::run, with a decoder for each channel: it lets its bytes  *)
(* go up to the end of the last whole character, and holds the rest, which *)
(* the next token may complete.  A byte that fits nowhere goes with the    *)
(* character after it.                                                     *)
EndsCharacter(bytes, n) ==
  \/ bytes[n] = "whole"
  \/ n > 1 /\ bytes[n - 1] = "head" /\ bytes[n] = "tail"
Readable(bytes) == {0} \union {n \in 1 .. Len(bytes) : EndsCharacter(bytes, n)}
Decodes(held, bytes) ==
  LET all == held \o bytes
      n == CHOOSE n \in Readable(all) : \A k \in Readable(all) : k <= n
  IN  [text |-> SubSeq(all, 1, n), held |-> SubSeq(all, n + 1, Len(all))]

(* Mutant: what fits nowhere is let go at once.                            *)
DecodesAll(held, bytes) == [text |-> held \o bytes, held |-> <<>>]

Emitted(s) == IF s.text = <<>> THEN shown ELSE Append(shown, [channel |-> s.channel, text |-> s.text])

ShowerStands == UNCHANGED <<grammar, offered, drafting, committed, genPc, verdict, closed, given>>

Pops ==
  /\ shower.at = "loop" /\ queue # <<>>
  /\ LET event == Head(queue)
         d == Decodes(shower.held[event.channel], Bytes[event.id])
         switches == shower.channel # event.channel
     IN  /\ shown' = IF switches THEN Emitted(shower) ELSE shown
         /\ shower' = [at |-> "ask", channel |-> event.channel,
                       text |-> (IF switches THEN <<>> ELSE shower.text) \o d.text,
                       held |-> [shower.held EXCEPT ![event.channel] = d.held]]
  /\ queue' = Tail(queue) /\ ShowerStands

(* Only what is already queued is coalesced.                               *)
AsksForMore ==
  /\ shower.at = "ask"
  /\ IF queue = <<>> THEN shown' = Emitted(shower) /\ shower' = [shower EXCEPT !.at = "loop", !.text = <<>>]
                     ELSE shower' = [shower EXCEPT !.at = "loop"] /\ UNCHANGED shown
  /\ UNCHANGED queue /\ ShowerStands

(* Drained: the rest, and then what the decoders still held (flush).       *)
Leaves ==
  /\ shower.at = "loop" /\ queue = <<>> /\ closed
  /\ LET TailOf(c) == IF shower.held[c] = <<>> THEN <<>>
                      ELSE <<[channel |-> c, text |-> shower.held[c]]>>
     IN  shown' = Emitted(shower) \o TailOf("thinking") \o TailOf("answer")
  /\ shower' = [shower EXCEPT !.at = "gone", !.text = <<>>, !.held = NothingHeld]
  /\ UNCHANGED queue /\ ShowerStands

GenerationNext ==
  \/ \E how \in {"cancelled", "capped", "error"} : StopsGenerating(how)
  \/ \E p \in Tokens : Samples(p)
  \/ \E n \in 1 .. DraftLength : \E drafted \in [1 .. n -> Words], m \in 0 .. n, p \in Tokens :
       SamplesBlock(drafted, m, p)
  \/ OnToken \/ Joins
  \/ Pops \/ AsksForMore \/ Leaves

GenerationSpec == GenerationInit /\ [][GenerationNext]_generationVars

-----------------------------------------------------------------------------
(* What a turn may hold.  The budgets are exceeded only by the rest of a   *)
(* block drafted below the think cap and by the opening of a call at the   *)
(* tool cap (grammar.hpp:211).                                             *)
GenerationTypeOK ==
  /\ grammar.phase \in {"think", "text", "call", "done"} /\ grammar.guard \in GuardStates
  /\ Len(grammar.think) <= ThinkCap + DraftLength
  /\ grammar.tool <= ToolCap + 1 /\ grammar.calls <= MaxCalls
  /\ genPc \in {"step", "feed", "join", "done"} /\ Len(queue) <= QueueSlots
  /\ verdict \in {"none", "cancelled", "capped", "error", "complete", "looped", "rejected"}

(* The grammar refuses no token the masks let through, and stands where    *)
(* the tokens given out bring it: nothing is left of a draft that was      *)
(* probed and taken back, although one mask stands for many states and for *)
(* the whole of a block (grammar.hpp:91, grammar.hpp:164).                 *)
TurnIsLegal == verdict # "rejected" /\ grammar = After(FreshTurn, given)

(* What is shown of a channel is the beginning of what the turn records,   *)
(* and when the turn is read all of it: whatever was coalesced, and        *)
(* wherever a character was split between tokens.  Before the end nothing  *)
(* is shown that stops in the middle of a character (token_stream.hpp:21,  *)
(* streaming_decoder.cpp:63, agent.cpp:1299).                              *)
ShownOf(c) ==
  LET text[n \in 0 .. Len(shown)] ==
        IF n = 0 THEN <<>>
        ELSE IF shown[n].channel = c THEN text[n - 1] \o shown[n].text ELSE text[n - 1]
  IN  text[Len(shown)]
BytesOf(ids) ==
  LET spelt[n \in 0 .. Len(ids)] == IF n = 0 THEN <<>> ELSE spelt[n - 1] \o Bytes[ids[n]]
  IN  spelt[Len(ids)]
ShownIsRecorded ==
  /\ \A c \in Channels :
       LET record == BytesOf(IF c = "thinking" THEN grammar.think ELSE grammar.text)
       IN  /\ IsPrefix(ShownOf(c), record)
           /\ genPc = "done" => ShownOf(c) = record
  /\ shower.at # "gone" =>
       \A i \in DOMAIN shown : Len(shown[i].text) \in Readable(shown[i].text)

(* From the mask to the screen: a turn is made of legal tokens, and what   *)
(* the operator saw of it is what it says.                                 *)
TurnIsWhole == TurnIsLegal /\ ShownIsRecorded
=============================================================================
