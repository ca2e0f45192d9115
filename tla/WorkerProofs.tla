---------------------------- MODULE WorkerProofs ----------------------------
(***************************************************************************)
(* Worker, proved for any number of launches and asks.                     *)
(***************************************************************************)
EXTENDS Worker, TLAPS

WorkerPlaces ==
  {"none", "launched", "cleared", "running", "asked", "asking", "gated", "told", "allowed",
   "refused", "ended", "final", "wrote", "exited", "dead"}
Deciding == {"asking", "gated", "told", "allowed", "refused"}
Undecided == WorkerPlaces \ {"final", "wrote", "exited", "dead"}

Reasons ==
  {"none", "completed", "max_turns", "ended", "wall_clock", "cancelled", "awaiting_user",
   "timeout_awaiting_user"}
RunFacts ==
  [reason : Reasons, timedOut : BOOLEAN, needsInput : BOOLEAN, unanswered : BOOLEAN,
   token : BOOLEAN, unattended : BOOLEAN, known : BOOLEAN]
AskRecord == {a \in [run : Attempts, seq : Nat] : a.seq \in 1 .. MaxAsks[a.run]}
Asked == [seq : Nat, by : {"operator", "unattended", "nobody"}, answer : AskRecord \union {NoFile}]
Attempt ==
  [at : WorkerPlaces, hook : BOOLEAN, detached : BOOLEAN, on : Policies \union {"wait"},
   supervisor : {"none", "waits", "gone"}, facts : RunFacts, seq : Nat, asks : SUBSET Asked,
   status : Statuses \union {"none"}]

(* What goes with the place a launch has reached.                          *)
Placed(a, r) ==
  /\ a.seq <= MaxAsks[r]
  /\ a.at \in {"final", "wrote"} => a.status # "none"
  /\ a.at \in {"asked"} \union Deciding => a.seq > 0

Decided(a, r) == \A x \in a.asks : x.by = "operator" => x.answer = [run |-> r, seq |-> x.seq]

(* Until finalize_run the facts know of every ask nobody answers.          *)
Accounted(a) ==
  /\ a.at \in Undecided =>
       /\ a.status = "none"
       /\ \A x \in a.asks : /\ x.by = "nobody" => a.facts.needsInput
                            /\ x.by = "unattended" => a.facts.unattended
  /\ a.status = "ok" => \A x \in a.asks : x.by # "nobody"
  /\ \A x, y \in a.asks : x.by = "unattended" /\ y.by = "unattended" => x = y

Books(a, r) == a \in Attempt /\ Placed(a, r) /\ Decided(a, r) /\ Accounted(a)
AttemptsBooked == attempts \in [Attempts -> Attempt] /\ \A r \in Attempts : Books(attempts[r], r)

FilesTyped ==
  /\ result = NoFile \/ result \in [run : Attempts, status : Statuses]
  /\ awaiting \in AskRecord \union {NoFile}
  /\ answer \in AskRecord \union {NoFile}
  /\ parent \in AskRecord \union {NoFile}

(* An ask that is on file is of a run that was launched, and of the one    *)
(* decision it waits for while it lives.                                   *)
Deserted ==
  awaiting # NoFile =>
    /\ ~At(awaiting.run, "none")
    /\ Alive(awaiting.run) => /\ attempts[awaiting.run].at \in Deciding
                              /\ awaiting = OpenAsk(awaiting.run)

WakesTyped == posted \subseteq Attempts \X FinalKinds /\ heard \subseteq posted

WorkerInv == AttemptsBooked /\ FilesTyped /\ Deserted /\ WakesTyped

-----------------------------------------------------------------------------
(* What one launch does to its record, and to nobody else's.               *)
Rewrites(r) ==
  /\ attempts' \in [Attempts -> Attempt]
  /\ \A x \in Attempts : x # r => attempts'[x] = attempts[x]
  /\ Books(attempts'[r], r)

LEMMA OneField ==
  ASSUME NEW A, NEW f \in [Attempts -> A], NEW r \in Attempts, NEW p
  PROVE  [f EXCEPT ![r].at = p] = [f EXCEPT ![r] = [f[r] EXCEPT !.at = p]]
  OBVIOUS

LEMMA TwoFields ==
  ASSUME NEW A, NEW f \in [Attempts -> A], NEW r \in Attempts, NEW p, NEW q
  PROVE  [f EXCEPT ![r].at = p, ![r].facts = q] = [f EXCEPT ![r] = [f[r] EXCEPT !.at = p, !.facts = q]]
  OBVIOUS

LEMMA ForkFields ==
  ASSUME NEW A, NEW f \in [Attempts -> A], NEW r \in Attempts, NEW p, NEW q, NEW s
  PROVE  [f EXCEPT ![r].at = p, ![r].hook = q, ![r].detached = s]
         = [f EXCEPT ![r] = [f[r] EXCEPT !.at = p, !.hook = q, !.detached = s]]
  OBVIOUS

LEMMA ExceptBooked ==
  ASSUME AttemptsBooked, NEW r \in Attempts, NEW a, Books(a, r),
         attempts' = [attempts EXCEPT ![r] = a]
  PROVE  Rewrites(r) /\ attempts'[r] = a
  BY DEF AttemptsBooked, Rewrites, Books

(* A record whose asks stay, and whose facts only grow, stays booked.       *)
LEMMA BooksKept ==
  ASSUME NEW r \in Attempts, NEW a, NEW b \in Attempt,
         Books(a, r), Placed(b, r), b.asks = a.asks,
         b.status = "ok" => a.status = "ok",
         b.at \in Undecided =>
           /\ a.at \in Undecided /\ b.status = a.status
           /\ a.facts.needsInput => b.facts.needsInput
           /\ a.facts.unattended => b.facts.unattended
  PROVE  Books(b, r)
  BY DEF Books, Decided, Accounted

(* The steps of a launch by the parent.                                    *)
LEMMA LaunchBooked ==
  ASSUME WorkerAssumption, AttemptsBooked, NEW r \in Attempts,
         NEW way \in Ways, NEW on \in Policies, Launch(r, way, on)
  PROVE  Rewrites(r) /\ attempts'[r].at = "launched"
<1> DEFINE a == attempts[r]
<1> DEFINE b == [a EXCEPT !.at = "launched", !.hook = way.hook, !.detached = way.detached, !.on = on,
                          !.supervisor = IF way.hook THEN "waits" ELSE "none"]
<1>1. Books(a, r) /\ a.at = "none"
  BY DEF AttemptsBooked, Launch, MayLaunch, At
<1>2. way.hook \in BOOLEAN /\ way.detached \in BOOLEAN
  BY DEF WorkerAssumption
<1>3. b \in Attempt
  BY <1>1, <1>2 DEF Books, Attempt, WorkerPlaces
<1>4. b.at = "launched" /\ b.seq = a.seq /\ b.asks = a.asks /\ b.facts = a.facts /\ b.status = a.status
  BY <1>1 DEF Books, Attempt
<1>5. Placed(b, r)
  BY <1>1, <1>4 DEF Books, Placed, Deciding
<1>6. Books(b, r)
  BY ZenonT(60), <1>1, <1>3, <1>4, <1>5, BooksKept DEF Undecided, WorkerPlaces
<1>7. attempts' = [attempts EXCEPT ![r] = b]
  BY DEF Launch
<1> HIDE DEF a, b
<1> QED BY <1>4, <1>6, <1>7, ExceptBooked

LEMMA RefusalBooked ==
  ASSUME AttemptsBooked, NEW r \in Attempts, LaunchRefused(r)
  PROVE  Rewrites(r) /\ attempts'[r].at = "exited"
<1> DEFINE a == attempts[r]
<1> DEFINE b == [a EXCEPT !.at = "exited"]
<1>1. Books(a, r) /\ a.at = "none"
  BY DEF AttemptsBooked, LaunchRefused, MayLaunch, At
<1>2. b \in Attempt /\ b.at = "exited" /\ b.seq = a.seq /\ b.asks = a.asks /\ b.status = a.status
  BY <1>1 DEF Books, Attempt, WorkerPlaces
<1>3. Books(b, r)
  BY <1>1, <1>2, BooksKept DEF Books, Placed, Undecided, Deciding
<1>4. attempts' = [attempts EXCEPT ![r] = b]
  BY OneField DEF LaunchRefused, Moves, AttemptsBooked
<1> QED BY <1>2, <1>3, <1>4, ExceptBooked

LEMMA FailedForkBooked ==
  ASSUME WorkerAssumption, AttemptsBooked, NEW r \in Attempts, NEW way \in Ways, LaunchFails(r, way)
  PROVE  Rewrites(r) /\ attempts'[r].at = "exited"
<1> DEFINE a == attempts[r]
<1> DEFINE b == [a EXCEPT !.at = "exited", !.hook = TRUE, !.detached = way.detached]
<1>1. Books(a, r) /\ a.at = "none" /\ way.detached \in BOOLEAN
  BY DEF AttemptsBooked, LaunchFails, MayLaunch, At, WorkerAssumption
<1>2. b \in Attempt /\ b.at = "exited" /\ b.seq = a.seq /\ b.asks = a.asks /\ b.status = a.status
  BY <1>1 DEF Books, Attempt, WorkerPlaces
<1>3. Books(b, r)
  BY ZenonT(60), <1>1, <1>2, BooksKept DEF Books, Placed, Undecided, Deciding
<1>4. attempts' = [attempts EXCEPT ![r] = b]
  <2>1. attempts' = [attempts EXCEPT ![r].at = "exited", ![r].hook = TRUE, ![r].detached = way.detached]
    BY DEF LaunchFails
  <2>2. attempts \in [Attempts -> Attempt]
    BY DEF AttemptsBooked
  <2>3. \A p, q, s : [attempts EXCEPT ![r].at = p, ![r].hook = q, ![r].detached = s]
                     = [attempts EXCEPT ![r] = [attempts[r] EXCEPT !.at = p, !.hook = q, !.detached = s]]
    BY <2>2, ForkFields
  <2> QED BY <2>1, <2>3
<1> QED BY <1>2, <1>3, <1>4, ExceptBooked

(* A step that changes the place of a launch and nothing else of it.       *)
LEMMA MoveBooked ==
  ASSUME AttemptsBooked, NEW r \in Attempts, NEW place \in WorkerPlaces, Moves(r, place),
         place \in Undecided => attempts[r].at \in Undecided,
         place \in {"asked"} \union Deciding => attempts[r].at \in {"asked"} \union Deciding,
         place \in {"final", "wrote"} => attempts[r].at \in {"final", "wrote"}
  PROVE  Rewrites(r) /\ attempts'[r].at = place /\ attempts'[r].seq = attempts[r].seq
<1> DEFINE a == attempts[r]
<1> DEFINE b == [a EXCEPT !.at = place]
<1>1. Books(a, r)
  BY DEF AttemptsBooked
<1>2. b \in Attempt /\ b.at = place /\ b.seq = a.seq /\ b.asks = a.asks
        /\ b.status = a.status /\ b.facts = a.facts
  BY <1>1 DEF Books, Attempt
<1>3. Placed(b, r)
  BY <1>1, <1>2 DEF Books, Placed
<1>4. Books(b, r)
  <2> b.at \in Undecided => a.at \in Undecided
    BY <1>2
  <2> HIDE DEF a, b
  <2> QED BY <1>1, <1>2, <1>3, BooksKept
<1>5. attempts' = [attempts EXCEPT ![r] = b]
  BY OneField DEF Moves, AttemptsBooked
<1> QED BY <1>2, <1>4, <1>5, ExceptBooked

(* One that moves it with what it has learnt, and takes no ask.            *)
LEMMA LessonBooked ==
  ASSUME AttemptsBooked, NEW r \in Attempts, NEW place \in {"running", "ended"}, NEW facts \in RunFacts,
         Learns(r, place, facts), attempts[r].at \in Undecided,
         attempts[r].facts.needsInput => facts.needsInput,
         attempts[r].facts.unattended => facts.unattended
  PROVE  Rewrites(r) /\ attempts'[r].at = place /\ attempts'[r].seq = attempts[r].seq
<1> DEFINE a == attempts[r]
<1> DEFINE b == [a EXCEPT !.at = place, !.facts = facts]
<1>1. Books(a, r)
  BY DEF AttemptsBooked
<1>2. b \in Attempt /\ b.at = place /\ b.seq = a.seq /\ b.asks = a.asks
        /\ b.status = a.status /\ b.facts = facts
  BY <1>1 DEF Books, Attempt, WorkerPlaces
<1>3. Placed(b, r)
  BY <1>1, <1>2 DEF Books, Placed, Deciding
<1>4. /\ a.at \in Undecided
      /\ a.facts.needsInput => b.facts.needsInput
      /\ a.facts.unattended => b.facts.unattended
  BY <1>2
<1>5. Books(b, r)
  <2> HIDE DEF a, b
  <2> QED BY <1>1, <1>2, <1>3, <1>4, BooksKept
<1>6. attempts' = [attempts EXCEPT ![r] = b]
  BY TwoFields DEF Learns, AttemptsBooked
<1> QED BY <1>2, <1>5, <1>6, ExceptBooked

(* The memory that goes with a process leaves nothing to answer for.       *)
LEMMA GoneBooked ==
  ASSUME AttemptsBooked, NEW r \in Attempts, NEW place \in {"exited", "dead"}, Gone(r, place)
  PROVE  Rewrites(r) /\ attempts'[r].at = place
<1> DEFINE a == attempts[r]
<1> DEFINE b == [a EXCEPT !.at = place, !.facts = NoFacts, !.seq = 0, !.asks = {},
                          !.on = "wait", !.status = "none"]
<1>1. Books(a, r)
  BY DEF AttemptsBooked
<1>2. NoFacts \in RunFacts
  BY DEF NoFacts, RunFacts, Reasons
<1>3. b \in Attempt /\ b.at = place /\ b.seq = 0 /\ b.asks = {} /\ b.status = "none"
  BY <1>1, <1>2 DEF Books, Attempt, WorkerPlaces
<1>4. MaxAsks[r] \in Nat
  BY WorkerAssumption DEF WorkerAssumption, Attempts
<1>5. Books(b, r)
  BY <1>3, <1>4 DEF Books, Placed, Decided, Accounted, Undecided, Deciding
<1>6. attempts' = [attempts EXCEPT ![r] = b]
  BY DEF Gone
<1> QED BY <1>3, <1>5, <1>6, ExceptBooked


(* One that adds an ask: of the operator's only what was bound to it, of   *)
(* the unattended ones only the first, of nobody's with the fact.          *)
LEMMA RecordBooked ==
  ASSUME NEW r \in Attempts, NEW a, NEW b \in Attempt, NEW x,
         Books(a, r), Placed(b, r), b.asks = a.asks \union {x},
         a.at \in Undecided, b.status = a.status,
         a.facts.needsInput => b.facts.needsInput,
         a.facts.unattended => b.facts.unattended,
         x.by = "operator" => x.answer = [run |-> r, seq |-> x.seq],
         x.by = "nobody" => b.facts.needsInput,
         x.by = "unattended" => ~a.facts.unattended /\ b.facts.unattended
  PROVE  Books(b, r)
<1>1. Decided(b, r)
  BY DEF Books, Decided
<1>2. b.status = "none"
  BY DEF Books, Accounted
<1>3. \A y \in b.asks : /\ y.by = "nobody" => b.facts.needsInput
                        /\ y.by = "unattended" => b.facts.unattended
  BY DEF Books, Accounted
<1>4. ASSUME NEW y \in b.asks, NEW z \in b.asks, y.by = "unattended", z.by = "unattended"
      PROVE  y = z
  BY <1>4 DEF Books, Accounted
<1> QED BY <1>1, <1>2, <1>3, <1>4 DEF Books, Accounted

LEMMA ModelAsksBooked ==
  ASSUME AttemptsBooked, NEW r \in Attempts, ModelAsks(r)
  PROVE  Rewrites(r) /\ attempts'[r].at \in {"ended", "asked"}
<1> DEFINE a == attempts[r]
<1> DEFINE place == IF a.facts.timedOut THEN "ended" ELSE "asked"
<1> DEFINE b == [a EXCEPT !.at = place, !.seq = a.seq + 1, !.facts.reason = Given(r, "awaiting_user")]
<1>1. Books(a, r) /\ a.at = "running" /\ a.seq < MaxAsks[r] /\ MaxAsks[r] \in Nat
  BY WorkerAssumption DEF AttemptsBooked, ModelAsks, CanAsk, At, WorkerAssumption, Attempts
<1>2. Given(r, "awaiting_user") \in Reasons
  BY <1>1 DEF Given, Reasons, Books, Attempt, RunFacts
<1>3. place \in {"ended", "asked"} /\ a.seq + 1 \in Nat
  BY <1>1 DEF Books, Attempt
<1>4. b \in Attempt /\ b.at = place /\ b.seq = a.seq + 1 /\ b.asks = a.asks /\ b.status = a.status
        /\ b.facts.needsInput = a.facts.needsInput /\ b.facts.unattended = a.facts.unattended
  <2> HIDE DEF place
  <2> QED BY <1>1, <1>2, <1>3 DEF Books, Attempt, RunFacts, WorkerPlaces
<1>5. attempts' = [attempts EXCEPT ![r] = b]
  BY DEF ModelAsks, AttemptsBooked, Takes
<1>6. Placed(b, r)
  <2> HIDE DEF a, b
  <2> QED BY <1>1, <1>4 DEF Placed, Books, Attempt
<1>7. Books(b, r)
  <2> a.at \in Undecided
    BY <1>1 DEF Undecided, WorkerPlaces
  <2> HIDE DEF a, b
  <2> QED BY <1>1, <1>4, <1>6, BooksKept
<1> QED BY ZenonT(60), <1>3, <1>4, <1>5, <1>7, ExceptBooked

LEMMA HoldsCallBooked ==
  ASSUME AttemptsBooked, NEW r \in Attempts, HoldsCall(r)
  PROVE  Rewrites(r) /\ attempts'[r].at = "running"
<1> DEFINE a == attempts[r]
<1> DEFINE x == [seq |-> a.seq + 1, by |-> "nobody", answer |-> NoFile]
<1> DEFINE f == [a.facts EXCEPT !.needsInput = TRUE, !.token = TRUE]
<1> DEFINE b == [a EXCEPT !.seq = a.seq + 1, !.asks = a.asks \union {x}, !.facts = f]
<1>1. Books(a, r) /\ a.at = "running" /\ a.seq < MaxAsks[r] /\ MaxAsks[r] \in Nat
  BY WorkerAssumption DEF AttemptsBooked, HoldsCall, CanAsk, At, WorkerAssumption, Attempts
<1>2. x \in Asked
  BY <1>1 DEF Asked, Books, Attempt
<1>3. f \in RunFacts /\ f.needsInput /\ f.unattended = a.facts.unattended
  BY <1>1 DEF Books, Attempt, RunFacts
<1>4. b \in Attempt /\ b.at = a.at /\ b.seq = a.seq + 1 /\ b.asks = a.asks \union {x}
        /\ b.status = a.status /\ b.facts = f
  <2>1. a \in Attempt /\ a.seq + 1 \in Nat /\ a.asks \union {x} \in SUBSET Asked
    BY <1>1, <1>2 DEF Books, Attempt
  <2> HIDE DEF a, x, f
  <2> QED BY <1>3, <2>1 DEF Attempt
<1>5. attempts' = [attempts EXCEPT ![r] = b]
  BY DEF HoldsCall, AttemptsBooked, Takes, Recorded
<1>6. Placed(b, r)
  <2> HIDE DEF a, b
  <2> QED BY <1>1, <1>4 DEF Placed, Books, Attempt, Deciding
<1>7. Books(b, r)
  <2> a.at \in Undecided
    BY <1>1 DEF Undecided, WorkerPlaces
  <2> x.by = "nobody"
    OBVIOUS
  <2> HIDE DEF a, b, x, f
  <2> QED BY <1>1, <1>3, <1>4, <1>6, RecordBooked
<1> QED BY <1>1, <1>4, <1>5, <1>7, ExceptBooked

LEMMA AsksForCallBooked ==
  ASSUME AttemptsBooked, NEW r \in Attempts, AsksForCall(r)
  PROVE  Rewrites(r) /\ attempts'[r].at = "gated" /\ attempts'[r].seq = Takes(r)
<1> DEFINE a == attempts[r]
<1> DEFINE b == [a EXCEPT !.at = "gated", !.seq = a.seq + 1]
<1>1. Books(a, r) /\ a.at = "running" /\ a.seq < MaxAsks[r] /\ MaxAsks[r] \in Nat
  BY WorkerAssumption DEF AttemptsBooked, AsksForCall, CanAsk, At, WorkerAssumption, Attempts
<1>2. b \in Attempt /\ b.at = "gated" /\ b.seq = a.seq + 1 /\ b.asks = a.asks /\ b.status = a.status
        /\ b.facts = a.facts
  <2>1. a \in Attempt /\ a.seq + 1 \in Nat
    BY <1>1 DEF Books, Attempt
  <2> HIDE DEF a
  <2> QED BY <2>1 DEF Attempt, WorkerPlaces
<1>3. attempts' = [attempts EXCEPT ![r] = b]
  BY DEF AsksForCall, AttemptsBooked, Takes
<1>4. Placed(b, r)
  <2> HIDE DEF a, b
  <2> QED BY <1>1, <1>2 DEF Placed, Books, Attempt
<1>5. Books(b, r)
  <2> a.at \in Undecided
    BY <1>1 DEF Undecided, WorkerPlaces
  <2> HIDE DEF a, b
  <2> QED BY <1>1, <1>2, <1>4, BooksKept
<1> QED BY <1>2, <1>3, <1>5, ExceptBooked DEF Takes

LEMMA UnattendedBooked ==
  ASSUME AttemptsBooked, NEW r \in Attempts, AnswersUnattended(r)
  PROVE  Rewrites(r) /\ attempts'[r].at = "running"
<1> DEFINE a == attempts[r]
<1> DEFINE x == [seq |-> a.seq, by |-> "unattended", answer |-> NoFile]
<1> DEFINE f == [a.facts EXCEPT !.unattended = TRUE, !.reason = "none", !.token = FALSE]
<1> DEFINE b == [a EXCEPT !.at = "running", !.facts = f, !.asks = a.asks \union {x}]
<1>1. Books(a, r) /\ a.at = "asked" /\ ~a.facts.unattended
  BY DEF AttemptsBooked, AnswersUnattended, At
<1>2. x \in Asked
  BY <1>1 DEF Asked, Books, Attempt
<1>3. f \in RunFacts /\ f.unattended /\ f.needsInput = a.facts.needsInput
  BY <1>1 DEF Books, Attempt, RunFacts, Reasons
<1>4. b \in Attempt /\ b.at = "running" /\ b.seq = a.seq /\ b.asks = a.asks \union {x}
        /\ b.status = a.status /\ b.facts = f
  <2> HIDE DEF x, f
  <2> QED BY <1>1, <1>2, <1>3 DEF Books, Attempt, WorkerPlaces
<1>5. attempts' = [attempts EXCEPT ![r] = b]
  BY <1>1 DEF AnswersUnattended, AttemptsBooked, Resumed, Recorded, Books, Attempt, RunFacts
<1>6. Placed(b, r)
  <2> HIDE DEF a, b
  <2> QED BY <1>1, <1>4 DEF Placed, Books, Attempt, Deciding
<1>7. Books(b, r)
  <2> a.at \in Undecided
    BY <1>1 DEF Undecided, WorkerPlaces
  <2> x.by = "unattended"
    OBVIOUS
  <2> HIDE DEF a, b, x, f
  <2> QED BY <1>1, <1>3, <1>4, <1>6, RecordBooked
<1> QED BY <1>4, <1>5, <1>7, ExceptBooked

LEMMA EndsOnQuestionBooked ==
  ASSUME AttemptsBooked, NEW r \in Attempts, EndsOnQuestion(r)
  PROVE  Rewrites(r) /\ attempts'[r].at = "ended"
<1> DEFINE a == attempts[r]
<1> DEFINE x == [seq |-> a.seq, by |-> "nobody", answer |-> NoFile]
<1> DEFINE f == [a.facts EXCEPT !.needsInput = TRUE]
<1> DEFINE b == [a EXCEPT !.at = "ended", !.facts = f, !.asks = a.asks \union {x}]
<1>1. Books(a, r) /\ a.at = "asked"
  BY DEF AttemptsBooked, EndsOnQuestion, At
<1>2. x \in Asked
  BY <1>1 DEF Asked, Books, Attempt
<1>3. f \in RunFacts /\ f.needsInput /\ f.unattended = a.facts.unattended
  BY <1>1 DEF Books, Attempt, RunFacts
<1>4. b \in Attempt /\ b.at = "ended" /\ b.seq = a.seq /\ b.asks = a.asks \union {x}
        /\ b.status = a.status /\ b.facts = f
  <2> HIDE DEF x, f
  <2> QED BY <1>1, <1>2, <1>3 DEF Books, Attempt, WorkerPlaces
<1>5. attempts' = [attempts EXCEPT ![r] = b]
  BY <1>1 DEF EndsOnQuestion, AttemptsBooked, Recorded
<1>6. Placed(b, r)
  <2> HIDE DEF a, b
  <2> QED BY <1>1, <1>4 DEF Placed, Books, Attempt, Deciding
<1>7. Books(b, r)
  <2> a.at \in Undecided
    BY <1>1 DEF Undecided, WorkerPlaces
  <2> x.by = "nobody"
    OBVIOUS
  <2> HIDE DEF a, b, x, f
  <2> QED BY <1>1, <1>3, <1>4, <1>6, RecordBooked
<1> QED BY <1>4, <1>5, <1>7, ExceptBooked

(* What the worker takes is bound to the ask that is open, and so decides  *)
(* the ask it was given for.                                               *)
LEMMA TakesAnswerBooked ==
  ASSUME AttemptsBooked, FilesTyped, NEW r \in Attempts, TakesAnswer(r)
  PROVE  /\ Rewrites(r)
         /\ attempts'[r].at \in Deciding /\ attempts'[r].seq = attempts[r].seq
<1> DEFINE a == attempts[r]
<1>1. PICK place \in {"told", "allowed", "refused"} :
        attempts' = [attempts EXCEPT ![r].at = place, ![r].asks = Recorded(r, a.seq, "operator", answer)]
  BY DEF TakesAnswer
<1> DEFINE x == [seq |-> a.seq, by |-> "operator", answer |-> answer]
<1> DEFINE b == [a EXCEPT !.at = place, !.asks = a.asks \union {x}]
<1>2. Books(a, r) /\ a.at \in {"asking", "gated"}
  BY DEF AttemptsBooked, TakesAnswer, Polls
<1>3. answer = [run |-> r, seq |-> a.seq] /\ answer \in AskRecord
  BY DEF TakesAnswer, Bound, OpenAsk, FilesTyped
<1>4. x \in Asked /\ x.by = "operator" /\ x.answer = [run |-> r, seq |-> x.seq]
  BY <1>2, <1>3 DEF Asked, Books, Attempt
<1>5. b \in Attempt /\ b.at = place /\ b.seq = a.seq /\ b.asks = a.asks \union {x}
        /\ b.status = a.status /\ b.facts = a.facts
  <2> HIDE DEF x
  <2> QED BY <1>2, <1>4 DEF Books, Attempt, WorkerPlaces
<1>6. attempts' = [attempts EXCEPT ![r] = b]
  BY <1>1 DEF AttemptsBooked, Recorded
<1>7. Placed(b, r)
  <2> HIDE DEF a, b
  <2> QED BY <1>2, <1>5 DEF Placed, Books, Attempt, Deciding
<1>8. Books(b, r)
  <2> a.at \in Undecided
    BY <1>2 DEF Undecided, WorkerPlaces
  <2> HIDE DEF a, b, x
  <2> QED BY <1>2, <1>4, <1>5, <1>7, RecordBooked
<1> QED BY <1>5, <1>6, <1>8, ExceptBooked DEF Deciding

(* finalize_run calls nothing ok that is left with the operator.           *)
LEMMA StatusTyped ==
  ASSUME NEW f, NEW check
  PROVE  Status(f, check) \in Statuses
  BY DEF Status, Checked, Statuses

LEMMA OkNeedsNobody ==
  ASSUME NEW f \in RunFacts, NEW check, Status(f, check) = "ok"
  PROVE  ~f.needsInput
  BY DEF Status, RunFacts

LEMMA FinalizesBooked ==
  ASSUME AttemptsBooked, NEW r \in Attempts, NEW check, Finalizes(r, check)
  PROVE  Rewrites(r) /\ attempts'[r].at = "final"
<1> DEFINE a == attempts[r]
<1> DEFINE status == Status(a.facts, check)
<1> DEFINE b == [a EXCEPT !.at = "final", !.status = status, !.facts = NoFacts]
<1>1. Books(a, r) /\ a.at = "ended"
  BY DEF AttemptsBooked, Finalizes, At
<1>2. NoFacts \in RunFacts /\ a.facts \in RunFacts
  BY <1>1 DEF NoFacts, RunFacts, Reasons, Books, Attempt
<1>3. b \in Attempt /\ b.at = "final" /\ b.seq = a.seq /\ b.asks = a.asks /\ b.status = status
  <2> status \in Statuses
    BY StatusTyped
  <2> HIDE DEF status
  <2> QED BY <1>1, <1>2 DEF Books, Attempt, WorkerPlaces
<1>4. attempts' = [attempts EXCEPT ![r] = b]
  BY DEF Finalizes, AttemptsBooked
<1>5. status = "ok" => \A x \in a.asks : x.by # "nobody"
  BY <1>1, <1>2, OkNeedsNobody DEF Books, Accounted, Undecided, WorkerPlaces
<1>6. Books(b, r)
  <2> status # "none"
    BY StatusTyped DEF Statuses
  <2> HIDE DEF a, b, status
  <2> QED BY <1>1, <1>3, <1>5 DEF Books, Placed, Decided, Accounted, Undecided, Deciding
<1> QED BY <1>3, <1>4, <1>6, ExceptBooked

LEMMA OpenLogFailsBooked ==
  ASSUME AttemptsBooked, NEW r \in Attempts, OpenLogFails(r)
  PROVE  Rewrites(r) /\ attempts'[r].at = "wrote"
<1> DEFINE a == attempts[r]
<1> DEFINE b == [a EXCEPT !.at = "wrote", !.status = "error"]
<1>1. Books(a, r)
  BY DEF AttemptsBooked
<1>2. b \in Attempt /\ b.at = "wrote" /\ b.seq = a.seq /\ b.asks = a.asks /\ b.status = "error"
  BY <1>1 DEF Books, Attempt, WorkerPlaces, Statuses
<1>3. attempts' = [attempts EXCEPT ![r] = b]
  BY DEF OpenLogFails, AttemptsBooked
<1>4. Placed(b, r)
  BY <1>1, <1>2 DEF Books, Placed, Deciding
<1>5. Books(b, r)
  <2> HIDE DEF a, b
  <2> QED BY <1>1, <1>2, <1>4, BooksKept DEF Undecided
<1> QED BY <1>2, <1>3, <1>5, ExceptBooked

LEMMA ReapsBooked ==
  ASSUME AttemptsBooked, NEW r \in Attempts, SupervisorReaps(r)
  PROVE  Rewrites(r) /\ attempts'[r].at = attempts[r].at /\ attempts'[r].seq = attempts[r].seq
<1> DEFINE a == attempts[r]
<1> DEFINE b == [a EXCEPT !.supervisor = "gone"]
<1>1. Books(a, r)
  BY DEF AttemptsBooked
<1>2. b \in Attempt /\ b.at = a.at /\ b.seq = a.seq /\ b.asks = a.asks /\ b.status = a.status
        /\ b.facts = a.facts
  BY <1>1 DEF Books, Attempt
<1>3. attempts' = [attempts EXCEPT ![r] = b]
  BY DEF SupervisorReaps, AttemptsBooked
<1>4. Books(b, r)
  <2> HIDE DEF a, b
  <2> QED BY <1>1, <1>2 DEF Books, Placed, Decided, Accounted
<1> QED BY <1>2, <1>3, <1>4, ExceptBooked


-----------------------------------------------------------------------------
(* How a step treats the ask on file: it removes it; or the run puts its   *)
(* own there; or it leaves it, and then a run that decides goes on         *)
(* deciding the same ask or ends.                                          *)
FileFollows(r) ==
  \/ awaiting' = NoFile
  \/ awaiting' = [run |-> r, seq |-> attempts'[r].seq] /\ attempts'[r].at \in Deciding
  \/ /\ awaiting' = awaiting
     /\ \/ attempts'[r].at \in {"exited", "dead"}
        \/ attempts[r].at \notin Deciding \union {"exited", "dead"}
        \/ attempts'[r].at \in Deciding /\ attempts[r].at \in Deciding /\ attempts'[r].seq = attempts[r].seq

StepOf(r) == Rewrites(r) /\ FileFollows(r)

LEMMA ParentsStep ==
  ASSUME WorkerInv, NEW r \in Attempts,
         \/ \E way \in Ways : LaunchFails(r, way) \/ \E on \in Policies : Launch(r, way, on)
         \/ LaunchRefused(r) \/ WorkerKilled(r) \/ SupervisorReaps(r)
  PROVE  StepOf(r)
<1> USE DEF WorkerInv, StepOf, FileFollows
<1>1. CASE \E way \in Ways : LaunchFails(r, way)
  BY <1>1, FailedForkBooked, WorkerAssumption DEF LaunchFails
<1>2. CASE \E way \in Ways, on \in Policies : Launch(r, way, on)
  BY ZenonT(60), <1>2, LaunchBooked, WorkerAssumption DEF Launch, MayLaunch, At, Deciding
<1>3. CASE LaunchRefused(r)
  BY <1>3, RefusalBooked DEF LaunchRefused
<1>4. CASE WorkerKilled(r)
  BY <1>4, GoneBooked DEF WorkerKilled, UNCHANGEDfiles
<1>5. CASE SupervisorReaps(r)
  BY <1>5, ReapsBooked DEF SupervisorReaps, UNCHANGEDfiles
<1> QED BY <1>1, <1>2, <1>3, <1>4, <1>5

LEMMA SetupStep ==
  ASSUME WorkerInv, NEW r \in Attempts, ClearsStaleFiles(r) \/ OpensLog(r) \/ OpenLogFails(r)
  PROVE  StepOf(r)
<1> USE DEF WorkerInv, StepOf, FileFollows
<1>1. CASE ClearsStaleFiles(r)
  BY <1>1, MoveBooked DEF ClearsStaleFiles, At, Undecided, WorkerPlaces, Deciding
<1>2. CASE OpensLog(r)
  BY <1>2, MoveBooked DEF OpensLog, At, Undecided, WorkerPlaces, Deciding, UNCHANGEDfiles
<1>3. CASE OpenLogFails(r)
  BY <1>3, OpenLogFailsBooked DEF OpenLogFails, At, Deciding
<1> QED BY <1>1, <1>2, <1>3

LEMMA MissionStep ==
  ASSUME WorkerInv, NEW r \in Attempts,
         \/ \E reason \in {"completed", "max_turns", "ended", "wall_clock", "cancelled"} : LoopEnds(r, reason)
         \/ ModelAsks(r) \/ HoldsCall(r) \/ AsksForCall(r) \/ ReusesAnswer(r)
         \/ AnswersUnattended(r) \/ EndsOnQuestion(r) \/ AsksQuestion(r)
  PROVE  StepOf(r)
<1> USE DEF WorkerInv, StepOf, FileFollows
<1>1. attempts[r] \in Attempt /\ attempts[r].facts \in RunFacts
  BY DEF AttemptsBooked, Books, Attempt
<1>2. ASSUME NEW reason \in {"completed", "max_turns", "ended", "wall_clock", "cancelled"},
             LoopEnds(r, reason)
      PROVE  StepOf(r)
  <2> DEFINE f == [attempts[r].facts EXCEPT !.reason = Given(r, reason)]
  <2>1. f \in RunFacts /\ f.needsInput = attempts[r].facts.needsInput
          /\ f.unattended = attempts[r].facts.unattended
    BY <1>1, <1>2 DEF RunFacts, Given, Reasons
  <2>2. attempts[r].at = "running" /\ Learns(r, "ended", f)
    BY <1>2 DEF LoopEnds, At
  <2> HIDE DEF f
  <2> QED BY <1>2, <2>1, <2>2, LessonBooked DEF LoopEnds, Undecided, WorkerPlaces, Deciding, UNCHANGEDfiles
<1>3. CASE ModelAsks(r)
  BY <1>3, ModelAsksBooked DEF ModelAsks, CanAsk, At, Deciding, UNCHANGEDfiles
<1>4. CASE HoldsCall(r)
  BY <1>4, HoldsCallBooked DEF HoldsCall, CanAsk, At, Deciding, UNCHANGEDfiles
<1>5. CASE AsksForCall(r)
  BY <1>5, AsksForCallBooked DEF AsksForCall, Awaits, Deciding
<1>6. CASE ReusesAnswer(r)
  <2> DEFINE f == Resumed(attempts[r].facts)
  <2>1. f \in RunFacts /\ f.needsInput = attempts[r].facts.needsInput
          /\ f.unattended = attempts[r].facts.unattended
    BY <1>1 DEF RunFacts, Resumed, Reasons
  <2>2. attempts[r].at = "asked" /\ Learns(r, "running", f)
    BY <1>6 DEF ReusesAnswer, At
  <2> HIDE DEF f
  <2> QED BY <1>6, <2>1, <2>2, LessonBooked DEF ReusesAnswer, Undecided, WorkerPlaces, Deciding, UNCHANGEDfiles
<1>7. CASE AnswersUnattended(r)
  BY <1>7, UnattendedBooked DEF AnswersUnattended, At, Deciding, UNCHANGEDfiles
<1>8. CASE EndsOnQuestion(r)
  BY <1>8, EndsOnQuestionBooked DEF EndsOnQuestion, At, Deciding, UNCHANGEDfiles
<1>9. CASE AsksQuestion(r)
  BY <1>9, MoveBooked DEF AsksQuestion, Awaits, At, Undecided, WorkerPlaces, Deciding
<1> QED BY <1>2, <1>3, <1>4, <1>5, <1>6, <1>7, <1>8, <1>9

LEMMA WaitStep ==
  ASSUME WorkerInv, NEW r \in Attempts,
         TakesAnswer(r) \/ GoesOn(r) \/ TimesOut(r) \/ SeesToken(r)
  PROVE  StepOf(r)
<1> USE DEF WorkerInv, StepOf, FileFollows
<1>1. attempts[r] \in Attempt /\ attempts[r].facts \in RunFacts
  BY DEF AttemptsBooked, Books, Attempt
<1>2. CASE TakesAnswer(r)
  BY <1>2, TakesAnswerBooked DEF TakesAnswer, Polls, Deciding
<1>3. ASSUME attempts[r].at \in Deciding, awaiting' = NoFile,
             NEW place \in {"running", "ended"}, NEW f \in RunFacts, Learns(r, place, f),
             f.needsInput = attempts[r].facts.needsInput, f.unattended = attempts[r].facts.unattended
      PROVE  StepOf(r)
  BY <1>3, LessonBooked DEF Deciding, Undecided, WorkerPlaces
<1>4. CASE GoesOn(r)
  <2> USE <1>4 DEF GoesOn, At, Deciding
  <2>1. CASE attempts[r].at = "told"
    <3>1. Learns(r, "running", Resumed([attempts[r].facts EXCEPT !.known = TRUE]))
      BY <2>1
    <3> QED BY <1>1, <1>3, <2>1, <3>1 DEF Resumed, RunFacts, Reasons
  <2>2. CASE attempts[r].at \in {"allowed", "refused"}
    <3>1. Learns(r, "running", attempts[r].facts)
      BY <2>2
    <3> QED BY <1>1, <1>3, <2>2, <3>1
  <2> QED BY <2>1, <2>2
<1>5. CASE TimesOut(r)
  <2>1. attempts[r].at \in Deciding /\ awaiting' = NoFile
    BY <1>5 DEF TimesOut, Polls, ClosesAsk, Deciding
  <2>2. CASE attempts[r].at = "asking"
    BY <1>1, <1>3, <1>5, <2>1, <2>2 DEF TimesOut, At, RunFacts, Reasons
  <2>3. CASE attempts[r].at # "asking"
    BY <1>1, <1>3, <1>5, <2>1, <2>3 DEF TimesOut, At, RunFacts
  <2> QED BY <2>2, <2>3
<1>6. CASE SeesToken(r)
  <2>1. attempts[r].at \in Deciding /\ awaiting' = NoFile
    BY <1>6 DEF SeesToken, Polls, ClosesAsk, Deciding
  <2>2. CASE attempts[r].at = "asking"
    BY <1>1, <1>3, <1>6, <2>1, <2>2 DEF SeesToken, At, RunFacts, Reasons
  <2>3. CASE attempts[r].at # "asking"
    BY <1>1, <1>3, <1>6, <2>1, <2>3 DEF SeesToken, At, RunFacts
  <2> QED BY <2>2, <2>3
<1> QED BY <1>2, <1>4, <1>5, <1>6

LEMMA EndStep ==
  ASSUME WorkerInv, NEW r \in Attempts,
         (\E check \in Checks : Finalizes(r, check)) \/ WritesResult(r) \/ PostsFinal(r)
  PROVE  StepOf(r)
<1> USE DEF WorkerInv, StepOf, FileFollows
<1>1. CASE \E check \in Checks : Finalizes(r, check)
  BY <1>1, FinalizesBooked DEF Finalizes
<1>2. CASE WritesResult(r)
  BY <1>2, MoveBooked DEF WritesResult, At, Undecided, WorkerPlaces, Deciding
<1>3. CASE PostsFinal(r)
  BY <1>3, GoneBooked DEF PostsFinal, UNCHANGEDfiles
<1> QED BY <1>1, <1>2, <1>3

(* Every step is one of a launch, or leaves the launches and the ask.      *)
LEMMA WorkerSteps ==
  ASSUME WorkerInv, [WorkerNext]_workerVars
  PROVE  (\E r \in Attempts : StepOf(r)) \/ UNCHANGED <<attempts, awaiting>>
<1>1. CASE ParentLooks \/ ParentAnswers \/ (\E r \in Attempts : DiscardsAnswer(r)) \/ UNCHANGED workerVars
  BY <1>1 DEF ParentLooks, ParentAnswers, DiscardsAnswer, workerVars, UNCHANGEDfiles
<1>2. ASSUME NEW r \in Attempts, WorkerStep(r), ~DiscardsAnswer(r)
      PROVE  StepOf(r)
  BY <1>2, SetupStep, MissionStep, WaitStep, EndStep DEF WorkerStep
<1>3. ASSUME NEW r \in Attempts, TimesOut(r)
      PROVE  StepOf(r)
  BY <1>3, WaitStep
<1> QED BY <1>1, <1>2, <1>3, ParentsStep DEF WorkerNext

-----------------------------------------------------------------------------
LEMMA AttemptsBookedKept ==
  ASSUME WorkerInv, [WorkerNext]_workerVars
  PROVE  AttemptsBooked'
<1>1. CASE UNCHANGED attempts
  BY <1>1 DEF WorkerInv, AttemptsBooked, Books, Placed, Decided, Accounted
<1>2. ASSUME NEW r \in Attempts, Rewrites(r)
      PROVE  AttemptsBooked'
  BY <1>2 DEF WorkerInv, AttemptsBooked, Rewrites
<1> QED BY <1>1, <1>2, WorkerSteps DEF StepOf

LEMMA DesertedKept ==
  ASSUME WorkerInv, [WorkerNext]_workerVars
  PROVE  Deserted'
<1> USE DEF Deserted, At, Alive, OpenAsk
<1>1. CASE UNCHANGED <<attempts, awaiting>>
  BY <1>1 DEF WorkerInv
<1>2. ASSUME NEW r \in Attempts, Rewrites(r), FileFollows(r)
      PROVE  Deserted'
  <2>1. CASE awaiting' = NoFile
    BY <2>1
  <2>2. CASE awaiting' = [run |-> r, seq |-> attempts'[r].seq] /\ attempts'[r].at \in Deciding
    BY <2>2 DEF Deciding
  <2>3. CASE /\ awaiting' = awaiting /\ awaiting # NoFile
             /\ \/ attempts'[r].at \in {"exited", "dead"}
                \/ attempts[r].at \notin Deciding \union {"exited", "dead"}
                \/ /\ attempts'[r].at \in Deciding /\ attempts[r].at \in Deciding
                   /\ attempts'[r].seq = attempts[r].seq
    <3>1. awaiting.run \in Attempts
      BY <2>3 DEF WorkerInv, FilesTyped, AskRecord
    <3>2. CASE awaiting.run # r
      BY <1>2, <2>3, <3>1, <3>2 DEF WorkerInv, Rewrites
    <3>3. CASE awaiting.run = r
      BY <2>3, <3>3 DEF WorkerInv, Deciding
    <3> QED BY <3>2, <3>3
  <2> QED BY <1>2, <2>1, <2>2, <2>3 DEF FileFollows
<1> QED BY <1>1, <1>2, WorkerSteps DEF StepOf

LEMMA ResultTyped ==
  ASSUME WorkerInv, [WorkerNext]_workerVars
  PROVE  result' = NoFile \/ result' \in [run : Attempts, status : Statuses]
<1>1. \/ result' \in {result, NoFile}
      \/ \E r \in Attempts : \/ result' = [run |-> r, status |-> "error"]
                             \/ WritesResult(r)
  BY ZenonT(60) DEF WorkerNext, WorkerStep, workerVars, ParentLooks, ParentAnswers, Launch, LaunchFails,
         LaunchRefused, ClearsStaleFiles, OpensLog, OpenLogFails, LoopEnds, ModelAsks, HoldsCall,
         AsksForCall, ReusesAnswer, AnswersUnattended, EndsOnQuestion, AsksQuestion, TakesAnswer,
         DiscardsAnswer, GoesOn, TimesOut, SeesToken, Finalizes, PostsFinal, WorkerKilled,
         SupervisorReaps, PutsResult, UNCHANGEDfiles
<1>2. ASSUME NEW r \in Attempts, WritesResult(r)
      PROVE  result' \in [run : Attempts, status : Statuses]
  BY <1>2 DEF WritesResult, PutsResult, At, WorkerInv, AttemptsBooked, Books, Placed, Attempt
<1>3. "error" \in Statuses
  BY DEF Statuses
<1> QED BY <1>1, <1>2, <1>3 DEF WorkerInv, FilesTyped

LEMMA AwaitingTyped ==
  ASSUME WorkerInv, [WorkerNext]_workerVars
  PROVE  awaiting' \in AskRecord \union {NoFile}
<1>1. CASE UNCHANGED <<attempts, awaiting>>
  BY <1>1 DEF WorkerInv, FilesTyped
<1>2. ASSUME NEW r \in Attempts, Rewrites(r), FileFollows(r)
      PROVE  awaiting' \in AskRecord \union {NoFile}
  <2>1. CASE awaiting' \in {NoFile, awaiting}
    BY <2>1 DEF WorkerInv, FilesTyped
  <2>2. CASE awaiting' = [run |-> r, seq |-> attempts'[r].seq] /\ attempts'[r].at \in Deciding
    <3>1. MaxAsks[r] \in Nat
      BY WorkerAssumption DEF WorkerAssumption, Attempts
    <3>2. attempts'[r].seq \in 1 .. MaxAsks[r]
      BY <1>2, <2>2, <3>1 DEF Rewrites, Books, Placed, Attempt
    <3> QED BY <2>2, <3>2 DEF AskRecord
  <2> QED BY <1>2, <2>1, <2>2 DEF FileFollows
<1> QED BY <1>1, <1>2, WorkerSteps DEF StepOf

(* The parent and its answer come from the ask on file.                    *)
LEMMA AnswersTyped ==
  ASSUME WorkerInv, [WorkerNext]_workerVars
  PROVE  {answer', parent'} \subseteq AskRecord \union {NoFile}
<1>1. ASSUME NEW r \in Attempts, WorkerStep(r)
      PROVE  answer' \in {answer, NoFile} /\ UNCHANGED parent
  <2>1. CASE \/ ClearsStaleFiles(r) \/ OpensLog(r) \/ OpenLogFails(r) \/ \E why : LoopEnds(r, why)
             \/ ModelAsks(r) \/ HoldsCall(r) \/ AsksForCall(r) \/ ReusesAnswer(r) \/ AnswersUnattended(r)
    BY <2>1 DEF ClearsStaleFiles, OpensLog, OpenLogFails, LoopEnds, ModelAsks, HoldsCall, AsksForCall,
       ReusesAnswer, AnswersUnattended, UNCHANGEDfiles
  <2>2. CASE \/ EndsOnQuestion(r) \/ AsksQuestion(r) \/ TakesAnswer(r) \/ DiscardsAnswer(r) \/ GoesOn(r)
             \/ SeesToken(r) \/ (\E check : Finalizes(r, check)) \/ WritesResult(r) \/ PostsFinal(r)
    BY <2>2 DEF EndsOnQuestion, AsksQuestion, TakesAnswer, DiscardsAnswer, GoesOn, SeesToken, Finalizes,
       WritesResult, PostsFinal, UNCHANGEDfiles
  <2> QED BY <1>1, <2>1, <2>2 DEF WorkerStep
<1>2. ASSUME NEW r \in Attempts,
             \/ \E way \in Ways : LaunchFails(r, way) \/ \E on \in Policies : Launch(r, way, on)
             \/ LaunchRefused(r) \/ TimesOut(r) \/ WorkerKilled(r) \/ SupervisorReaps(r)
      PROVE  UNCHANGED <<answer, parent>>
  BY <1>2 DEF LaunchFails, Launch, LaunchRefused, TimesOut, WorkerKilled, SupervisorReaps, UNCHANGEDfiles
<1>3. CASE ParentLooks \/ ParentAnswers \/ UNCHANGED workerVars
  BY <1>3 DEF ParentLooks, ParentAnswers, workerVars, UNCHANGEDfiles, WorkerInv, FilesTyped
<1> QED BY <1>1, <1>2, <1>3 DEF WorkerNext, WorkerInv, FilesTyped

LEMMA WakesTypedKept ==
  ASSUME WorkerInv, [WorkerNext]_workerVars
  PROVE  WakesTyped'
<1>1. UNCHANGED <<posted, heard>> \/ \E r \in Attempts : PostsFinal(r) \/ SupervisorReaps(r)
  <2> USE DEF UNCHANGEDwakes
  <2>1. ASSUME NEW r \in Attempts, WorkerStep(r)
        PROVE  UNCHANGED <<posted, heard>> \/ PostsFinal(r)
    BY <2>1 DEF WorkerStep, ClearsStaleFiles, OpensLog, OpenLogFails, LoopEnds, ModelAsks, HoldsCall,
       AsksForCall, ReusesAnswer, AnswersUnattended, EndsOnQuestion, AsksQuestion, TakesAnswer,
       DiscardsAnswer, GoesOn, SeesToken, Finalizes, WritesResult
  <2>2. ASSUME NEW r \in Attempts,
               \/ \E way \in Ways : LaunchFails(r, way) \/ \E on \in Policies : Launch(r, way, on)
               \/ LaunchRefused(r) \/ TimesOut(r) \/ WorkerKilled(r)
        PROVE  UNCHANGED <<posted, heard>>
    BY <2>2 DEF LaunchFails, Launch, LaunchRefused, TimesOut, WorkerKilled
  <2>3. CASE ParentLooks \/ ParentAnswers \/ UNCHANGED workerVars
    BY <2>3 DEF ParentLooks, ParentAnswers, workerVars
  <2> QED BY <2>1, <2>2, <2>3 DEF WorkerNext
<1>2. ASSUME NEW r \in Attempts, PostsFinal(r) \/ SupervisorReaps(r)
      PROVE  UNCHANGED <<posted, heard>> \/ \E kind \in FinalKinds : Posts(r, kind)
  <2>1. \A status : WakeKind(status) \in FinalKinds
    BY DEF WakeKind, FinalKinds
  <2>2. "died" \in FinalKinds
    BY DEF FinalKinds
  <2> QED BY <1>2, <2>1, <2>2 DEF PostsFinal, SupervisorReaps, UNCHANGEDwakes
<1>3. ASSUME NEW r \in Attempts, NEW kind \in FinalKinds, Posts(r, kind)
      PROVE  WakesTyped'
  BY <1>3 DEF Posts, WakesTyped, WorkerInv
<1> QED BY <1>1, <1>2, <1>3 DEF WakesTyped, WorkerInv

LEMMA WorkerInvInit == WorkerInit => WorkerInv
<1> SUFFICES ASSUME WorkerInit PROVE WorkerInv
  OBVIOUS
<1>1. NoFacts \in RunFacts
  BY DEF NoFacts, RunFacts, Reasons
<1>2. NotLaunched \in Attempt
  BY <1>1 DEF NotLaunched, Attempt, WorkerPlaces
<1>3. ASSUME NEW r \in Attempts
      PROVE  Books(NotLaunched, r)
  <2>1. MaxAsks[r] \in Nat
    BY WorkerAssumption DEF WorkerAssumption, Attempts
  <2>2. NotLaunched.at = "none" /\ NotLaunched.seq = 0 /\ NotLaunched.asks = {} /\ NotLaunched.status = "none"
    BY DEF NotLaunched
  <2> QED BY <1>2, <2>1, <2>2 DEF Books, Placed, Decided, Accounted, Deciding
<1> QED BY <1>2, <1>3 DEF WorkerInit, WorkerInv, AttemptsBooked, FilesTyped, Deserted, WakesTyped

LEMMA WorkerInvKept == WorkerInv /\ [WorkerNext]_workerVars => WorkerInv'
  BY AttemptsBookedKept, DesertedKept, ResultTyped, AwaitingTyped, AnswersTyped, WakesTypedKept
  DEF WorkerInv, FilesTyped

(* The inductive invariant of a task directory.                            *)
THEOREM WorkerInvariant == WorkerSpec => []WorkerInv
  BY WorkerInvInit, WorkerInvKept, PTL DEF WorkerSpec

(* The type invariant, for any number of launches and asks.                *)
THEOREM WorkerTypeCorrect == WorkerSpec => []WorkerTypeOK
<1>1. WorkerInv => WorkerTypeOK
  <2> SUFFICES ASSUME WorkerInv PROVE WorkerTypeOK
    OBVIOUS
  <2>1. \A a : a \in AskRecord => IsAsk(a)
    BY DEF AskRecord, IsAsk
  <2>2. \A r \in Attempts : /\ attempts[r].seq \in 0 .. MaxAsks[r]
                           /\ attempts[r].status \in Statuses \union {"none"}
    BY WorkerAssumption
    DEF WorkerAssumption, WorkerInv, AttemptsBooked, Books, Placed, Attempt, Attempts
  <2> QED BY <2>1, <2>2 DEF WorkerInv, FilesTyped, WakesTyped, WorkerTypeOK
<1> QED BY <1>1, WorkerInvariant, PTL

(* An ask that shows is waited for by the process that wrote it, and what  *)
(* the operator's answer decides is the ask it was given for: whichever    *)
(* runs were killed before, left their files and number their asks alike   *)
(* (sidecar.cpp:2386, worker.cpp:1513).                                    *)
THEOREM AnswersReachTheirAsk == WorkerSpec => []AskAndAnswerAgree
<1>1. WorkerInv => AskAndAnswerAgree
  BY DEF WorkerInv, AttemptsBooked, Books, Decided, Deserted, Deciding, ShowsAsk, AskAndAnswerAgree,
         NoGhostAsk, AnswerFits
<1> QED BY <1>1, WorkerInvariant, PTL

(* A task that is reported ok left no ask with the operator, whatever its  *)
(* check says (finalize_run, worker.cpp:545).                              *)
THEOREM OkIsEarned == WorkerSpec => []OkHasNoOpenQuestion
<1>1. WorkerInv => OkHasNoOpenQuestion
  BY DEF WorkerInv, AttemptsBooked, Books, Accounted, OkHasNoOpenQuestion
<1> QED BY <1>1, WorkerInvariant, PTL
=============================================================================
