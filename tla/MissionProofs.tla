--------------------------- MODULE MissionProofs ----------------------------
(***************************************************************************)
(* What is proved of the parts Mission puts side by side, one part after   *)
(* the other: the session's, the turn loop's, the shell command's, the     *)
(* caches', one generation's; what the tools do to the workspace has a     *)
(* module of its own.  The types of all of them, and Mission as a whole,   *)
(* come last.                                                              *)
(***************************************************************************)
EXTENDS Mission, WorkspaceProofs, WellFoundedInduction, SequenceTheorems

-----------------------------------------------------------------------------
(***************************************************************************)
(* What the session holds stays of one piece, for any models, workspaces   *)
(* and numbers of runs: the conjunction of the three invariants below is   *)
(* inductive as it stands, each request being shown to restore what it     *)
(* replaces.                                                               *)
(***************************************************************************)
SessionInv == TypeOK /\ ToolsActOnItsWorkspace /\ JournalFollowsContext

LEMMA SessionInvInit == Init => SessionInv
BY RunBounds DEF Init, SessionInv, TypeOK, ToolsActOnItsWorkspace, JournalFollowsContext

-----------------------------------------------------------------------------
(* The helpers.                                                            *)

(* Whatever a load ends in, the two halves of the model go together.       *)
LEMMA LoadIsWhole ==
  ASSUME NEW m \in Models, tok \in Models \union {None}, backend = tok,
         NEW loaded \in Loads(m), EnsureModel(m, loaded)
  PROVE  tok' \in Models \union {None} /\ backend' = tok'
BY DEF Loads, EnsureModel

LEMMA EnsuredType ==
  ASSUME NEW m \in Models, NEW w \in Workspaces, registry = None \/ registry \in Registries
  PROVE  EnsuredRegistry(m, w) \in Registries /\ EnsuredRegistry(m, w).workspace = w
BY DEF EnsuredRegistry, Registries

(* Declaring the recall tools changes nothing of a registry but its source.*)
LEMMA DeclaredType ==
  ASSUME NEW r \in Registries, opens \in Nat, NEW n \in Nat, opens <= n,
         NEW source \in {None, TheSession} \union 1 .. n
  PROVE  /\ DeclareRecall(r, source) \in [workspace : Workspaces, sees : BOOLEAN,
                                          recall : {None, TheSession} \union 1 .. n]
         /\ DeclareRecall(r, source).workspace = r.workspace
         /\ DeclareRecall(r, source).sees = r.sees
BY DEF DeclareRecall, Registries

-----------------------------------------------------------------------------
LEMMA SessionInvKept == SessionInv /\ [Next]_vars => SessionInv'
<1> SUFFICES ASSUME SessionInv, [Next]_vars
             PROVE  SessionInv'
  OBVIOUS
<1> USE DEF SessionInv
<1>0. /\ opens \in Nat /\ minted \in Nat /\ runId \in Nat
      /\ registry = None \/ registry \in Registries
  BY RunBounds DEF TypeOK
<1>1. ASSUME NEW m \in Models, LoadModel(m) PROVE SessionInv'
  <2>1. tok' \in Models \union {None} /\ backend' = tok'
    BY <1>1, LoadIsWhole DEF LoadModel, TypeOK
  <2>2. UNCHANGED <<registry, journal, ctx, runId, phase, minted, opens, begun>>
    BY <1>1 DEF LoadModel
  <2> QED
    BY <2>1, <2>2 DEF TypeOK, Registries, ToolsActOnItsWorkspace, JournalFollowsContext, Sink
<1>2. CASE UnloadModel
  BY <1>2 DEF UnloadModel, TypeOK, ToolsActOnItsWorkspace, JournalFollowsContext
<1>3. ASSUME NEW m \in Models, StartFails(m) PROVE SessionInv'
  <2>1. tok' \in Models \union {None} /\ backend' = tok'
    BY <1>3, LoadIsWhole DEF StartFails, TypeOK
  <2>2. /\ minted < MaxRuns /\ minted' = minted + 1 /\ runId' = minted'
        /\ UNCHANGED <<registry, journal, ctx, phase, opens, begun>>
    BY <1>3 DEF StartFails
  <2>3. TypeOK'
    BY <1>0, <2>1, <2>2, RunBounds DEF TypeOK, Registries
  <2> QED
    BY <2>2, <2>3 DEF ToolsActOnItsWorkspace, JournalFollowsContext, Sink
<1>4. ASSUME NEW m \in Models, NEW w \in Workspaces, Start(m, w) PROVE SessionInv'
  <2>0. PICK opened \in BOOLEAN :
        LET j == OpenedJournal(minted + 1, opened)
            r == EnsuredRegistry(m, w)
            declared == IF opened THEN DeclareRecall(r, TheSession) ELSE r
        IN  /\ opened => opens < MaxOpens
            /\ opens' = IF opened THEN opens + 1 ELSE opens
            /\ ctx' = [run |-> minted + 1, workspace |-> w, sink |-> Sink(j)]
            /\ journal' = j
            /\ registry' = declared
            /\ begun' = begun \union {[run |-> minted + 1, workspace |-> w, model |-> m,
                                       tools |-> Tools(declared)]}
    BY <1>4 DEF Start
  <2> DEFINE r == EnsuredRegistry(m, w)
             declared == IF opened THEN DeclareRecall(r, TheSession) ELSE r
  <2>1. tok' \in Models \union {None} /\ backend' = tok'
    BY <1>4, LoadIsWhole DEF Start, TypeOK
  <2>2. /\ minted < MaxRuns /\ minted' = minted + 1 /\ runId' = minted + 1
        /\ phase' = "running"
    BY <1>4 DEF Start
  <2>3. opens' \in Nat /\ opens <= opens' /\ opens' <= MaxOpens
    BY <1>0, <2>0, RunBounds DEF TypeOK
  <2>4. r \in Registries /\ r.workspace = w
    BY <1>0, EnsuredType
  <2>5. /\ registry' \in [workspace : Workspaces, sees : BOOLEAN,
                          recall : {None, TheSession} \union 1 .. opens']
        /\ registry'.workspace = w
    <3>0. registry' = declared
      BY <2>0
    <3> HIDE DEF r
    <3>1. CASE opened
      <4>1. registry' = DeclareRecall(r, TheSession)
        BY <3>0, <3>1
      <4> QED
        BY <4>1, <1>0, <2>3, <2>4, DeclaredType
    <3>2. CASE ~opened
      <4>1. registry' = r
        BY <3>0, <3>2
      <4> QED
        BY <4>1, <1>0, <2>3, <2>4 DEF Registries
    <3> QED
      BY <3>1, <3>2
  <2>6. Tools(declared) \in BOOLEAN \X BOOLEAN
    BY <2>0, <2>5 DEF Tools
  <2>7. journal' = None \/ journal' \in [id : 1 .. opens', run : 1 .. minted']
    BY <1>0, <2>0, <2>2 DEF OpenedJournal
  <2>8. ctx' \in [run : 1 .. minted', workspace : Workspaces,
                  sink : {None} \union 1 .. opens']
    BY <1>0, <2>0, <2>2, <2>7 DEF OpenedJournal, Sink
  <2>9. begun' \subseteq [run : 1 .. minted', workspace : Workspaces, model : Models,
                          tools : BOOLEAN \X BOOLEAN]
    BY <1>0, <2>0, <2>2, <2>6 DEF TypeOK
  <2>10. TypeOK'
    BY <1>0, <2>1, <2>2, <2>3, <2>5, <2>7, <2>8, <2>9, RunBounds DEF TypeOK, Registries
  <2>11. ToolsActOnItsWorkspace'
    BY <2>0, <2>5 DEF ToolsActOnItsWorkspace
  <2>12. JournalFollowsContext'
    BY <2>0, <2>7, <2>8 DEF JournalFollowsContext, OpenedJournal, Sink
  <2> QED
    BY <2>10, <2>11, <2>12
<1>5. ASSUME NEW m \in Models, ResumeFailsEarly(m) PROVE SessionInv'
  <2>1. tok' \in Models \union {None} /\ backend' = tok'
    BY <1>5, LoadIsWhole DEF ResumeFailsEarly, TypeOK
  <2>2. UNCHANGED <<registry, journal, ctx, runId, phase, minted, opens, begun>>
    BY <1>5 DEF ResumeFailsEarly
  <2> QED
    BY <2>1, <2>2 DEF TypeOK, Registries, ToolsActOnItsWorkspace, JournalFollowsContext, Sink
<1>6. ASSUME NEW b \in begun, NEW m \in Models, NEW w \in Workspaces, ResumeRefused(b, m, w)
      PROVE  SessionInv'
  <2>1. tok' \in Models \union {None} /\ backend' = tok'
    BY <1>6, LoadIsWhole DEF ResumeRefused, TypeOK
  <2>2. /\ opens' \in Nat /\ opens <= opens' /\ opens' <= MaxOpens
        /\ registry' = None
        /\ UNCHANGED <<journal, ctx, runId, phase, minted, begun>>
    BY <1>0, <1>6, RunBounds DEF ResumeRefused, RegistryOnRefusal, TypeOK
  <2>3. TypeOK'
    BY <1>0, <2>1, <2>2, RunBounds DEF TypeOK, Registries
  <2> QED
    BY <2>2, <2>3 DEF ToolsActOnItsWorkspace, JournalFollowsContext, Sink
<1>7. ASSUME NEW b \in begun, NEW m \in Models, NEW w \in Workspaces, ResumeAllowed(b, m, w)
      PROVE  SessionInv'
  <2>0. PICK opened \in BOOLEAN :
        LET j == OpenedJournal(b.run, opened)
            r == CandidateRegistry(m, w, j)
        IN  /\ opened => opens < MaxOpens
            /\ IdentityMatches(b, m, w, Tools(r))
            /\ opens' = IF opened THEN opens + 1 ELSE opens
            /\ ctx' = [run |-> b.run, workspace |-> b.workspace, sink |-> Sink(j)]
            /\ journal' = JournalOnResume(j)
            /\ registry' = r
    BY <1>7 DEF ResumeAllowed
  <2> DEFINE j == OpenedJournal(b.run, opened)
             r == EnsuredRegistry(m, w)
  <2>1. tok' \in Models \union {None} /\ backend' = tok'
    BY <1>7, LoadIsWhole DEF ResumeAllowed, TypeOK
  <2>2. runId' = b.run /\ UNCHANGED <<phase, minted, begun>>
    BY <1>7 DEF ResumeAllowed
  <2>3. opens' \in Nat /\ opens <= opens' /\ opens' <= MaxOpens
    BY <1>0, <2>0, RunBounds DEF TypeOK
  <2>4. b.run \in 1 .. minted /\ b.workspace \in Workspaces /\ b.workspace = w
    BY <2>0 DEF TypeOK, IdentityMatches
  <2>5. r \in Registries /\ r.workspace = w
    BY <1>0, EnsuredType
  <2>6. /\ registry' \in [workspace : Workspaces, sees : BOOLEAN,
                          recall : {None, TheSession} \union 1 .. opens']
        /\ registry'.workspace = w
    <3> HIDE DEF r
    <3>1. registry' = IF j = None THEN r ELSE DeclareRecall(r, j.id)
      BY <2>0 DEF CandidateRegistry, r
    <3>2. CASE j = None
      BY <3>1, <3>2, <1>0, <2>3, <2>5 DEF Registries
    <3>3. CASE j # None
      <4>1. opened /\ j.id = opens + 1 /\ j.id \in 1 .. opens'
        BY <3>3, <1>0, <2>0, <2>3 DEF OpenedJournal
      <4>2. registry' = DeclareRecall(r, j.id)
        BY <3>1, <3>3
      <4> HIDE DEF j
      <4> QED
        BY <4>1, <4>2, <1>0, <2>3, <2>5, DeclaredType
    <3> QED
      BY <3>2, <3>3
  <2>7. journal' = j /\ (j = None \/ j \in [id : 1 .. opens', run : 1 .. minted'])
    BY <1>0, <2>0, <2>2, <2>4 DEF OpenedJournal, JournalOnResume
  <2>8. ctx' \in [run : 1 .. minted', workspace : Workspaces,
                  sink : {None} \union 1 .. opens']
    BY <1>0, <2>0, <2>2, <2>4, <2>7 DEF Sink
  <2>9. TypeOK'
    BY <1>0, <2>1, <2>2, <2>3, <2>4, <2>6, <2>7, <2>8, RunBounds DEF TypeOK, Registries
  <2>10. ToolsActOnItsWorkspace'
    BY <2>0, <2>4, <2>6 DEF ToolsActOnItsWorkspace
  <2>11. JournalFollowsContext'
    BY <2>0, <2>7 DEF JournalFollowsContext, OpenedJournal, Sink
  <2> QED
    BY <2>9, <2>10, <2>11
<1>8. CASE Message
  BY <1>8 DEF Message, TypeOK, Registries, ToolsActOnItsWorkspace, JournalFollowsContext, Sink
<1>9. CASE EndRun
  BY <1>9 DEF EndRun, TypeOK, Registries, ToolsActOnItsWorkspace, JournalFollowsContext, Sink
<1>10. CASE UNCHANGED vars
  BY <1>10 DEF vars, TypeOK, Registries, ToolsActOnItsWorkspace, JournalFollowsContext, Sink
<1> QED
  BY <1>1, <1>2, <1>3, <1>4, <1>5, <1>6, <1>7, <1>8, <1>9, <1>10 DEF Next

LEMMA SessionInvariant == Spec => []SessionInv
BY SessionInvInit, SessionInvKept, PTL DEF Spec

-----------------------------------------------------------------------------
(* A tokenizer and a backend are only ever held together and of one        *)
(* directory, whatever loads failed half-way, and every pointer between    *)
(* the parts has its type.                                                 *)
THEOREM TypeCorrect == Spec => []TypeOK
<1>1. SessionInv => TypeOK
  BY DEF SessionInv
<1> QED
  BY <1>1, SessionInvariant, PTL

(* A follow-up never acts on another project than its conversation's.      *)
THEOREM ToolsStayHome == Spec => []ToolsActOnItsWorkspace
<1>1. SessionInv => ToolsActOnItsWorkspace
  BY DEF SessionInv
<1> QED
  BY <1>1, SessionInvariant, PTL

(* No turn is journalled into a destroyed store or under another run.      *)
THEOREM SinkIsAlive == Spec => []JournalFollowsContext
<1>1. SessionInv => JournalFollowsContext
  BY DEF SessionInv
<1> QED
  BY <1>1, SessionInvariant, PTL

-----------------------------------------------------------------------------
(***************************************************************************)
(* That a run reported completed handed back (CompletedWasHandedBack), for *)
(* any batches, any number of nudges and any bounds.                       *)
(***************************************************************************)
(* Turns that counted against the run and called nothing have all been     *)
(* answers: the streak is no longer than their number.                     *)
StreakIsAnswers == ~noAnswer => plain >= inert
OpenIsIncomplete == reason = "none" => ~completed

HandBackInv ==
  /\ inert \in 0 .. Nudges /\ plain \in Nat
  /\ noAnswer \in BOOLEAN /\ completed \in BOOLEAN /\ handed \in BOOLEAN
  /\ StreakIsAnswers
  /\ OpenIsIncomplete
  /\ CompletedWasHandedBack

-----------------------------------------------------------------------------
(* What a turn does to the invariant, whatever came of the turn.           *)
LEMMA AfterTurnKeepsInv ==
  ASSUME HandBackInv, NEW t, NEW rescued \in BOOLEAN,
         t.progressed \in BOOLEAN, t.answer \in BOOLEAN, AfterTurn(t, rescued), reason = "none"
  PROVE  HandBackInv'
<1> DEFINE against == CountsAgainst(t, rescued) /\ t.halt = "none"
           spent == against /\ inert = Nudges
           why == IF spent THEN Silence(Stalls(t)) ELSE t.halt
<1>0. Nudges \in Nat
  BY LoopBounds
<1>1. /\ inert' = (IF t.progressed THEN 0 ELSE IF against /\ ~spent THEN inert + 1 ELSE inert)
      /\ noAnswer' = (IF t.progressed THEN FALSE ELSE IF against THEN Stalls(t) ELSE noAnswer)
      /\ Closes(t, why)
      /\ plain' = (IF t.progressed THEN 0
                   ELSE IF against THEN (IF t.answer THEN Saturated(plain) ELSE 0) ELSE plain)
  BY DEF AfterTurn
<1>2. /\ inert \in 0 .. Nudges /\ plain \in Nat /\ noAnswer \in BOOLEAN
      /\ ~noAnswer => plain >= inert
  BY DEF HandBackInv, StreakIsAnswers
<1>n. inert \in 0 .. Nudges /\ plain \in Nat
  BY <1>2
<1>3. /\ reason' = why
      /\ completed' = (Answers(why) /\ ~t.open /\ (contract => lastCheck' = "passed"))
      /\ handed' = (t.halt # "none" /\ Answers(why))
  BY <1>1 DEF Closes
<1>4. completed' \in BOOLEAN /\ handed' \in BOOLEAN
  BY <1>3
<1>5. completed' => Answers(why)
  BY <1>3
<1>6. against => ~t.progressed /\ t.halt = "none"
  BY DEF CountsAgainst
<1>7. /\ inert' \in 0 .. Nudges /\ plain' \in Nat /\ noAnswer' \in BOOLEAN
      /\ ~noAnswer' => plain' >= inert'
  <2>1. CASE t.progressed
    <3>1. inert' = 0
      BY <2>1, <1>1
    <3>2. plain' = 0
      BY <2>1, <1>1
    <3>3. noAnswer' = FALSE
      BY <2>1, <1>1
    <3>4. inert' \in 0 .. Nudges /\ plain' \in Nat /\ plain' >= inert'
      BY <3>1, <3>2, <1>0
    <3> QED BY <3>3, <3>4
  <2>2. CASE ~t.progressed /\ against
    <3>1. noAnswer' = Stalls(t) /\ Stalls(t) = (noAnswer \/ ~t.answer)
      BY <2>2, <1>1 DEF Stalls
    <3>2. inert' = (IF inert = Nudges THEN inert ELSE inert + 1)
      BY <2>2, <1>1
    <3>3. plain' = (IF t.answer THEN (IF plain <= Nudges THEN plain + 1 ELSE plain) ELSE 0)
      BY <2>2, <1>1 DEF Saturated
    <3> HIDE DEF against, spent, why
    <3>4. inert' \in 0 .. Nudges /\ plain' \in Nat
      <4>1. inert' \in 0 .. Nudges
        BY <3>2, <1>0, <1>n
      <4>2. plain + 1 \in Nat
        BY <1>n
      <4>3. plain' \in Nat
        BY <3>3, <4>2, <1>n
      <4> QED BY <4>1, <4>3
    <3>5. ~noAnswer' => ~noAnswer /\ t.answer
      BY <3>1, <1>2
    <3>6. ~noAnswer' => plain' >= inert'
      <4> SUFFICES ASSUME ~noAnswer' PROVE plain' >= inert'
        OBVIOUS
      <4>1. plain >= inert /\ t.answer
        BY <3>5, <1>2
      <4>2. plain' = (IF plain <= Nudges THEN plain + 1 ELSE plain)
        BY <4>1, <3>3
      <4> QED BY <4>1, <4>2, <3>2, <1>0, <1>n
    <3> QED BY <3>1, <3>4, <3>6, <1>2
  <2>3. CASE ~t.progressed /\ ~against
    BY <2>3, <1>1, <1>2
  <2> QED BY <2>1, <2>2, <2>3
<1>8. completed' => handed' \/ plain' > Nudges
  <2> SUFFICES ASSUME completed', ~handed' PROVE plain' > Nudges
    OBVIOUS
  <2>1. Answers(why) /\ t.halt = "none"
    <3>1. Answers(why)
      BY <1>5
    <3>2. t.halt = "none"
      BY <3>1, <1>3
    <3> QED BY <3>1, <3>2
  <2>2. spent
    BY <2>1 DEF Answers
  <2>3. ~Stalls(t)
    BY <2>1, <2>2 DEF Answers, Silence
  <2>4. ~noAnswer /\ t.answer
    BY <2>3, <1>2 DEF Stalls
  <2>5. plain' = (IF plain <= Nudges THEN plain + 1 ELSE plain)
    BY <2>2, <2>4, <1>1, <1>6 DEF Saturated
  <2>6. inert = Nudges
    BY <2>2
  <2> QED BY <2>4, <2>5, <2>6, <1>0, <1>2, <1>n
<1>9. reason' = "none" => ~completed'
  BY <1>3, <1>5 DEF Answers
<1> QED
  BY <1>4, <1>7, <1>8, <1>9
     DEF HandBackInv, StreakIsAnswers, OpenIsIncomplete, CompletedWasHandedBack

-----------------------------------------------------------------------------
(* A turn with calls and one without are both the turn above.             *)
LEMMA CallsTurnKeepsInv ==
  ASSUME HandBackInv, NEW batch, NEW rescued \in BOOLEAN, CallsTurn(batch, rescued)
  PROVE  HandBackInv'
<1>1. PICK s : s = RunBatch(batch)
  OBVIOUS
<1>2. PICK t : t = [halt |-> s.halt, progressed |-> Progressed(s), countable |-> Executed(s),
                    answer |-> FALSE, counted |-> s.counted, open |-> s.open,
                    brought |-> Brought(s)]
  OBVIOUS
<1>3. AfterTurn(t, rescued) /\ reason = "none"
  <2> HIDE DEF RunBatch, AfterTurn
  <2> QED BY <1>1, <1>2 DEF CallsTurn
<1>4. t.progressed \in BOOLEAN /\ t.answer \in BOOLEAN
  BY <1>2 DEF Progressed
<1> QED
  BY <1>3, <1>4, AfterTurnKeepsInv

LEMMA TextTurnKeepsInv ==
  ASSUME HandBackInv, NEW text \in Texts, NEW rescued \in BOOLEAN, TextTurn(text, rescued)
  PROVE  HandBackInv'
<1>1. PICK t : t = [halt |-> IF text = "choices" /\ conversational THEN "awaiting_user"
                                                                  ELSE "none",
                    progressed |-> FALSE, countable |-> text # "cut_call",
                    answer |-> text \in {"answer", "choices"}, counted |-> FALSE,
                    open |-> listOpen, brought |-> FALSE]
  OBVIOUS
<1>2. AfterTurn(t, rescued) /\ reason = "none"
  <2> HIDE DEF AfterTurn
  <2> QED BY <1>1 DEF TextTurn
<1>3. t.progressed \in BOOLEAN /\ t.answer \in BOOLEAN
  BY <1>1
<1> QED
  BY <1>2, <1>3, AfterTurnKeepsInv

(* A run stopped from outside was not complete and does not become so.     *)
LEMMA StopKeepsInv ==
  ASSUME HandBackInv, NEW why, StopsWith(why)
  PROVE  HandBackInv'
  BY DEF HandBackInv, StopsWith, StreakIsAnswers, OpenIsIncomplete, CompletedWasHandedBack

(* A new Agent has nothing to report and no streak.                        *)
FreshRun == inert = 0 /\ noAnswer = FALSE /\ completed = FALSE /\ plain = 0 /\ handed = FALSE

LEMMA FreshRunInv == FreshRun => HandBackInv
<1> SUFFICES ASSUME FreshRun PROVE HandBackInv
  OBVIOUS
<1>1. inert \in 0 .. Nudges /\ plain \in Nat /\ plain >= inert
  BY LoopBounds DEF FreshRun
<1>2. noAnswer = FALSE /\ completed = FALSE /\ handed = FALSE
  BY DEF FreshRun
<1> QED
  BY <1>1, <1>2
     DEF HandBackInv, StreakIsAnswers, OpenIsIncomplete, CompletedWasHandedBack

LEMMA InitInv == AgentInit => HandBackInv
  BY FreshRunInv DEF AgentInit, FreshRun

LEMMA NextInv == HandBackInv /\ [AgentNext]_agentVars => HandBackInv'
<1> SUFFICES ASSUME HandBackInv, [AgentNext]_agentVars
             PROVE  HandBackInv'
  OBVIOUS
<1>1. CASE \E batch \in Batches, rescued \in BOOLEAN : CallsTurn(batch, rescued)
  BY <1>1, CallsTurnKeepsInv
<1>2. CASE \E text \in Texts, rescued \in BOOLEAN : TextTurn(text, rescued)
  BY <1>2, TextTurnKeepsInv
<1>3. CASE \E why \in {"cancelled", "max_turns", "out_of_time"} : StopsBefore(why)
  BY <1>3, StopKeepsInv DEF StopsBefore
<1>4. CASE \E why \in {"cancelled", "backend_error"} : StopsWithin(why)
  BY <1>4, StopKeepsInv DEF StopsWithin
<1>5. CASE \E conv \in BOOLEAN : FollowUp(conv)
  <2>1. FreshRun'
    BY <1>5 DEF FollowUp, FreshRun
  <2> QED BY <2>1, FreshRunInv, PTL
<1>6. CASE OperatorEdits
  BY <1>6
     DEF OperatorEdits, HandBackInv, StreakIsAnswers, OpenIsIncomplete, CompletedWasHandedBack
<1>7. CASE UNCHANGED agentVars
  BY <1>7
     DEF agentVars, HandBackInv, StreakIsAnswers, OpenIsIncomplete, CompletedWasHandedBack
<1> QED
  BY <1>1, <1>2, <1>3, <1>4, <1>5, <1>6, <1>7 DEF AgentNext

(* A run is reported completed only when it handed back: by calling finish *)
(* or presenting its plan, or by answering in plain words through every    *)
(* nudge since it last made progress (agent.cpp, silence_reason and the    *)
(* completed of the report).                                               *)
THEOREM CompletionIsHandedBack == AgentSpec => []CompletedWasHandedBack
<1>1. HandBackInv => CompletedWasHandedBack
  BY DEF HandBackInv
<1> QED
  BY <1>1, InitInv, NextInv, PTL DEF AgentSpec

-----------------------------------------------------------------------------
(***************************************************************************)
(* OutcomeIsTrue of Runner, for any jobs, pipe, cap and amount of output.  *)
(* It speaks of the end; what makes it true is kept all along: what was    *)
(* taken from the pipe is stored or dropped, the pipe is over when its end *)
(* was seen, and after a kill there is no shell to start anything.         *)
(***************************************************************************)
(* What was written is in the pipe, stored, or known to have been cut.     *)
Accounted ==
  IF outcome.truncated THEN outcome.stored = OutputCap /\ written - unread > OutputCap
  ELSE outcome.stored = written - unread

(* Until something ended the loop nothing is decided.                      *)
Undecided ==
  /\ runner \in {"start", "token", "clock", "select"} => outcome.status = "ToolError"
  /\ runner = "reap" => outcome.status \in {"ToolError", "Cancelled", "Timeout"}
  /\ runner = "start" => alive = {} /\ holding = {} /\ written = 0 /\ unread = 0

(* The end of the output was seen only when nobody could write any more.   *)
OutputOver ==
  runner \in {"reap", "done"} /\ outcome.status \in {"Ok", "ToolError"} /\ ~pipeFailed =>
    holding = {} /\ unread = 0

(* The shell is gone before the status is taken from it.                   *)
ShellGone ==
  /\ runner = "done" => Shell \notin alive
  /\ runner = "done" /\ outcome.status = "Ok" => shellEnd = "success"

(* A kill leaves nothing of the group and no shell to add to it.           *)
GroupGone ==
  outcome.status \in {"Cancelled", "Timeout"} =>
    /\ Shell \notin alive /\ alive \intersect grouped = {}
    /\ outcome.status = "Cancelled" => toldToStop
    /\ outcome.status = "Timeout" => overdue

RunnerInv == RunnerTypeOK /\ Accounted /\ Undecided /\ OutputOver /\ ShellGone /\ GroupGone

LEMMA InvEnough == RunnerInv => OutcomeIsTrue
  BY RunnerAssumption DEF RunnerInv, RunnerTypeOK, Outcomes, Accounted, OutputOver, ShellGone, GroupGone,
       OutcomeIsTrue

LEMMA InvInit == RunnerInit => RunnerInv
<1> SUFFICES ASSUME RunnerInit PROVE RunnerInv
  OBVIOUS
<1>1. pipeFailed \in BOOLEAN
  BY Zenon DEF RunnerInit
<1>2. RunnerTypeOK
  BY <1>1, RunnerAssumption DEF RunnerInit, NotStarted, RunnerTypeOK, Outcomes, Processes
<1>3. Accounted /\ Undecided
  BY RunnerAssumption DEF RunnerInit, NotStarted, Accounted, Undecided
<1>4. OutputOver /\ ShellGone /\ GroupGone
  BY DEF RunnerInit, NotStarted, OutputOver, ShellGone, GroupGone
<1> QED
  BY <1>2, <1>3, <1>4 DEF RunnerInv

(* What a kill does to the processes, whoever asks for it.                 *)
LEMMA KillLeaves ==
  ASSUME RunnerInv, KillsGroup
  PROVE  /\ Shell \notin alive' /\ alive' \intersect grouped' = {}
         /\ holding' \subseteq alive' /\ alive' \subseteq Processes /\ grouped' \subseteq Processes
         /\ shellEnd' \in {"not", "success", "failure", "signalled"}
         /\ written' = written /\ unread' = unread
  BY DEF KillsGroup, RunnerInv, RunnerTypeOK, Outcomes

(* How a batch of bytes is counted.                                        *)
LEMMA StoresCounts ==
  ASSUME RunnerInv, NEW n \in 1 .. unread, outcome' = Stores(n), unread' = unread - n, written' = written
  PROVE  /\ Accounted' /\ outcome'.status = outcome.status
         /\ outcome' \in Outcomes
<1> USE RunnerAssumption DEF RunnerInv, RunnerTypeOK, Outcomes
<1>1. CASE n > OutputCap - outcome.stored
  <2>1. outcome' = [outcome EXCEPT !.stored = OutputCap, !.truncated = TRUE]
    BY <1>1 DEF Stores
  <2>2. outcome'.stored = OutputCap /\ outcome'.truncated = TRUE /\ outcome'.status = outcome.status
    BY <2>1
  <2>3. outcome' \in Outcomes
    <3>1. [outcome EXCEPT !.stored = OutputCap] \in Outcomes
      BY DEF Outcomes
    <3> QED
      BY <2>1, <3>1 DEF Outcomes
  <2>4. written' - unread' > OutputCap
    <3>1. CASE outcome.truncated
      BY <3>1 DEF Accounted
    <3>2. CASE ~outcome.truncated
      BY <3>2, <1>1 DEF Accounted
    <3> QED
      BY <3>1, <3>2
  <2>5. Accounted'
    BY <2>2, <2>4, Zenon DEF Accounted
  <2> QED
    BY <2>2, <2>3, <2>5
<1>2. CASE ~(n > OutputCap - outcome.stored)
  <2>1. outcome.truncated = FALSE /\ outcome.stored = written - unread
    BY <1>2 DEF Accounted
  <2>2. outcome' = [outcome EXCEPT !.stored = outcome.stored + n, !.truncated = FALSE]
    BY <1>2, <2>1 DEF Stores
  <2>3. /\ outcome'.stored = outcome.stored + n /\ outcome'.truncated = FALSE
        /\ outcome'.status = outcome.status
    BY <2>2
  <2>4. outcome' \in Outcomes
    <3>1. outcome.stored + n \in 0 .. OutputCap
      BY <1>2
    <3>2. [outcome EXCEPT !.stored = outcome.stored + n] \in Outcomes
      BY <3>1 DEF Outcomes
    <3> QED
      BY <2>2, <3>2 DEF Outcomes
  <2>5. outcome'.stored = written' - unread'
    BY <2>1, <2>3
  <2>6. Accounted'
    BY <2>3, <2>5, Zenon DEF Accounted
  <2> QED
    BY <2>3, <2>4, <2>6
<1> QED
  BY <1>1, <1>2

(* One step of the harness.                                                *)
LEMMA HarnessKeeps == RunnerInv /\ RunnerStep => RunnerInv'
<1> SUFFICES ASSUME RunnerInv, RunnerStep PROVE RunnerInv'
  OBVIOUS
<1> USE RunnerAssumption DEF RunnerInv, RunnerTypeOK, Outcomes, Accounted, Undecided, OutputOver, ShellGone,
          GroupGone, SettingsStay, command
<1>1. CASE DoesNotStart \/ CannotSpawn
  BY <1>1 DEF DoesNotStart, CannotSpawn, ReturnsAs
<1>2. CASE Spawns
  BY <1>2 DEF Spawns, Processes
<1>3. CASE LooksAtToken
  <2>1. CASE toldToStop
    <3>1. KillsGroup /\ runner' = "reap" /\ outcome' = [outcome EXCEPT !.status = "Cancelled"]
      BY <1>3, <2>1 DEF LooksAtToken
    <3> QED
      BY <1>3, <2>1, <3>1, KillLeaves
         DEF LooksAtToken
  <2>2. CASE ~toldToStop
    BY <1>3, <2>2 DEF LooksAtToken
  <2> QED
    BY <2>1, <2>2
<1>4. CASE LooksAtClock
  <2>1. CASE overdue
    <3>1. KillsGroup /\ runner' = "reap" /\ outcome' = [outcome EXCEPT !.status = "Timeout"]
      BY <1>4, <2>1 DEF LooksAtClock
    <3> QED
      BY <1>4, <2>1, <3>1, KillLeaves
         DEF LooksAtClock
  <2>2. CASE ~overdue
    BY <1>4, <2>2 DEF LooksAtClock
  <2> QED
    BY <2>1, <2>2
<1>5. CASE \E n \in 1 .. PipeRoom : Reads(n)
  <2>1. PICK n \in 1 .. PipeRoom : Reads(n)
    BY <1>5
  <2>2. n \in 1 .. unread /\ outcome' = Stores(n) /\ unread' = unread - n /\ written' = written
    BY <2>1 DEF Reads
  <2>3. Accounted' /\ outcome'.status = outcome.status /\
        outcome' \in Outcomes
    BY <2>2, StoresCounts
  <2> QED
    BY <2>1, <2>2, <2>3 DEF Reads
<1>6. CASE SelectTimesOut \/ SeesEndOfOutput \/ ReadFails
  BY <1>6 DEF SelectTimesOut, SeesEndOfOutput, ReadFails
<1>7. CASE Reaps
  BY <1>7 DEF Reaps, ReturnsAs
<1> QED
  BY <1>1, <1>2, <1>3, <1>4, <1>5, <1>6, <1>7 DEF RunnerStep

(* One step of a process.                                                  *)
LEMMA CommandKeeps == RunnerInv /\ CommandStep => RunnerInv'
<1> SUFFICES ASSUME RunnerInv, CommandStep PROVE RunnerInv'
  OBVIOUS
<1> USE RunnerAssumption DEF RunnerInv, RunnerTypeOK, Outcomes, Accounted, Undecided, OutputOver, ShellGone,
          GroupGone, OnItsOwn
<1>1. ASSUME NEW j \in Jobs, StartsJob(j) PROVE RunnerInv'
  BY <1>1 DEF StartsJob, Processes
<1>2. ASSUME NEW j \in Jobs, LeavesGroup(j) PROVE RunnerInv'
  BY <1>2 DEF LeavesGroup
<1>3. ASSUME NEW p \in Processes, Prints(p) PROVE RunnerInv'
  BY <1>3 DEF Prints
<1>4. ASSUME NEW p \in Processes, ClosesOutput(p) PROVE RunnerInv'
  BY <1>4 DEF ClosesOutput
<1>5. ASSUME NEW p \in Processes, NEW how \in {"success", "failure", "signalled"}, ProcessExits(p, how)
      PROVE RunnerInv'
  BY <1>5 DEF ProcessExits
<1> QED
  BY <1>1, <1>2, <1>3, <1>4, <1>5 DEF CommandStep

LEMMA InvNext == RunnerInv /\ [RunnerNext]_runnerVars => RunnerInv'
<1> SUFFICES ASSUME RunnerInv, [RunnerNext]_runnerVars PROVE RunnerInv'
  OBVIOUS
<1>1. CASE RunnerStep
  BY <1>1, HarnessKeeps
<1>2. CASE CommandStep
  BY <1>2, CommandKeeps
<1>3. CASE ToldToStop \/ TimePasses \/ UNCHANGED runnerVars
  BY <1>3 DEF ToldToStop, TimePasses, runnerVars, command, RunnerInv, RunnerTypeOK, Outcomes, Accounted,
       Undecided, OutputOver, ShellGone, GroupGone
<1> QED
  BY <1>1, <1>2, <1>3 DEF RunnerNext

(* What run_sandboxed reports is what happened, whatever the command does  *)
(* and whenever the clock and the operator step in (sandbox.hpp:160).      *)
THEOREM ReportIsTrue == RunnerSpec => []OutcomeIsTrue
<1>1. RunnerSpec => []RunnerInv
  BY InvInit, InvNext, PTL DEF RunnerSpec
<1> QED
  BY <1>1, InvEnough, PTL

-----------------------------------------------------------------------------
(***************************************************************************)
(* Least and greatest elements of sets of numbers.                         *)
(***************************************************************************)
LEMMA LeastExists ==
  ASSUME NEW S \in SUBSET Nat, S # {}
  PROVE  \E m \in S : \A n \in S : m <= n
<1> DEFINE R == OpToRel(<, Nat)
<1>1. \E x \in S : \A y \in S : ~(<<y, x>> \in R)
  BY WFMin, NatLessThanWellFounded
<1>2. \A x, y \in Nat : y < x => <<y, x>> \in R
  BY DEF OpToRel
<1> HIDE DEF R
<1>3. \A x, y \in S : <<y, x>> \notin R => x <= y
  BY <1>2
<1> QED
  BY <1>1, <1>3

LEMMA MaxIs ==
  ASSUME NEW N \in Nat, NEW S \in SUBSET (0 .. N), S # {}
  PROVE  Max(S) \in S /\ \A n \in S : n <= Max(S)
<1> DEFINE D == {N - n : n \in S}
<1>1. D \in SUBSET Nat /\ D # {}
  <2>1. \A n \in S : n \in Nat /\ N - n \in Nat
    OBVIOUS
  <2> QED
    BY <2>1
<1>2. PICK d \in D : \A e \in D : d <= e
  <2> HIDE DEF D
  <2> QED
    BY <1>1, LeastExists
<1>3. PICK m \in S : d = N - m
  BY <1>2
<1>4. \A n \in S : m >= n
  <2> TAKE n \in S
  <2>1. N - n \in D
    OBVIOUS
  <2>2. N - m <= N - n
    BY <2>1, <1>2, <1>3
  <2>3. m \in Nat /\ n \in Nat
    OBVIOUS
  <2> QED
    BY <2>2, <2>3
<1>5. Max(S) \in S /\ \A n \in S : Max(S) >= n
  BY <1>4 DEF Max
<1>6. \A n \in S : n \in Nat
  OBVIOUS
<1> QED
  BY <1>5, <1>6

LEMMA MinOfTwo ==
  ASSUME NEW a \in Nat, NEW b \in Nat
  PROVE  Min({a, b}) = IF a <= b THEN a ELSE b
BY DEF Min

-----------------------------------------------------------------------------
(***************************************************************************)
(* What the model's caches were computed from is what the ledger says, or  *)
(* the difference shows: either in a length, or in that the ledger ends    *)
(* behind a generation prompt, which no later prompt extends.              *)
(***************************************************************************)
KvTyped ==
  /\ kvPc \in {"idle", "prefill", "decode"}
  /\ speculative \in BOOLEAN /\ defers \in BOOLEAN /\ astray \in BOOLEAN
  /\ ledger \in Seq(Positions) /\ consumed \in Seq(Positions)
  /\ pending \in Seq(Positions) /\ emitted \in Seq(Positions)
  /\ checkpoint \in [len : Nat, holds : Seq(Positions)]
  /\ task \in [prompt : Seq(Positions), stable : Nat, end : Nat, warm : BOOLEAN]
  /\ Len(emitted) <= MaxNew

(* A checkpoint taken over positions the ledger lacks is longer than it    *)
(* says.                                                                   *)
CheckpointKept ==
  /\ checkpoint.len <= Len(ledger) /\ checkpoint.len <= Len(checkpoint.holds)
  /\ Len(checkpoint.holds) = checkpoint.len => checkpoint.holds = SubSeq(ledger, 1, checkpoint.len)

Primed(s) == \E i \in 1 .. Len(s) : s[i] = Primer
Shadows == IF astray THEN Len(consumed) > Len(ledger) ELSE consumed = ledger
Shadowed == Shadows \/ (kvPc = "idle" /\ Primed(ledger))

IsPrompt(s) ==
  /\ Len(s) > 0 /\ s[Len(s)] = Primer
  /\ \A i \in 1 .. Len(s) : i < Len(s) => s[i] # Primer

Filling ==
  kvPc = "prefill" =>
    /\ IsPrompt(task.prompt)
    /\ task.stable <= task.end /\ task.end <= Len(task.prompt)
    /\ ~task.warm => task.end = Len(task.prompt)
    /\ Len(ledger) <= task.end /\ ledger = SubSeq(task.prompt, 1, Len(ledger))
Decoding ==
  /\ kvPc = "decode" => Primed(ledger) /\ ledger \o pending = task.prompt \o emitted
  /\ kvPc # "decode" \/ ~speculative => pending = <<>>
  /\ kvPc # "decode" => emitted = <<>>

KvInv == KvTyped /\ CheckpointKept /\ Shadowed /\ Filling /\ Decoding

LEMMA KvInvInit == KvInit => KvInv
<1> SUFFICES ASSUME KvInit PROVE KvInv
  OBVIOUS
<1>1. <<>> \in Seq(Positions) /\ Len(<<>>) = 0
  OBVIOUS
<1>2. KvTyped
  <2>1. 0 <= MaxNew
    BY GenerationBounds
  <2>2. NoCheckpoint \in [len : Nat, holds : Seq(Positions)]
    BY <1>1 DEF NoCheckpoint
  <2>3. NoTask \in [prompt : Seq(Positions), stable : Nat, end : Nat, warm : BOOLEAN]
    BY <1>1 DEF NoTask
  <2> QED
    BY <1>1, <2>1, <2>2, <2>3 DEF KvInit, KvTyped
<1>3. CheckpointKept
  BY <1>1 DEF KvInit, CheckpointKept, NoCheckpoint
<1> QED
  BY <1>2, <1>3 DEF KvInit, KvInv, Shadowed, Shadows, Filling, Decoding

LEMMA KvInvEnough == KvInv => KvTypeOK /\ DecodesExactContext
<1> SUFFICES ASSUME KvInv PROVE KvTypeOK /\ DecodesExactContext
  OBVIOUS
<1>1. KvTypeOK
  BY DEF KvInv, KvTyped, CheckpointKept, KvTypeOK
<1>2. DecodesExactContext
  BY DEF KvInv, KvTyped, Shadowed, Shadows, Decoding, DecodesExactContext, ContextIsExact
<1> QED
  BY <1>1, <1>2

-----------------------------------------------------------------------------
(* The longest common prefix.                                              *)
LEMMA ReusableIs ==
  ASSUME ledger \in Seq(Positions), NEW prompt \in Seq(Positions)
  PROVE  /\ Reusable(prompt) \in 0 .. Len(ledger) /\ Reusable(prompt) <= Len(prompt)
         /\ \A i \in 1 .. Reusable(prompt) : ledger[i] = prompt[i]
<1> DEFINE S == {n \in 0 .. Len(ledger) :
                   n <= Len(prompt) /\ \A i \in 1 .. n : SamePosition(ledger[i], prompt[i])}
<1>1. Len(ledger) \in Nat /\ Len(prompt) \in Nat
  OBVIOUS
<1>2. S \in SUBSET (0 .. Len(ledger)) /\ 0 \in S
  BY <1>1
<1>3. Max(S) \in S
  <2> HIDE DEF S
  <2> QED
    BY <1>1, <1>2, MaxIs
<1>4. Reusable(prompt) = Max(S)
  BY DEF Reusable
<1> QED
  BY <1>3, <1>4 DEF SamePosition

LEMMA PromptIs ==
  ASSUME NEW stable \in Stable, NEW live \in Live
  PROVE  LET prompt == stable \o live \o <<Primer>>
         IN  prompt \in Seq(Positions) /\ IsPrompt(prompt) /\ Len(stable) < Len(prompt)
<1> DEFINE said == stable \o live
           prompt == said \o <<Primer>>
<1>1. stable \in Seq(Positions) /\ live \in Seq(Positions) /\ Primer \in Positions
  BY PromptAssumption
<1>2. said \in Seq(Positions) /\ Len(said) = Len(stable) + Len(live)
  BY <1>1
<1>3. \A i \in 1 .. Len(said) : said[i] # Primer
  <2>1. \A i \in 1 .. Len(said) :
          said[i] = IF i <= Len(stable) THEN stable[i] ELSE live[i - Len(stable)]
    BY <1>1
  <2>2. \A s \in {stable, live} : \A i \in 1 .. Len(s) : s[i] # Primer
    BY <1>1, PrimerAssumption
  <2>3. \A i \in 1 .. Len(said) : ~(i <= Len(stable)) => i - Len(stable) \in 1 .. Len(live)
    BY <1>1, <1>2
  <2> QED
    BY <2>1, <2>2, <2>3, <1>1
<1>4. /\ prompt \in Seq(Positions) /\ Len(prompt) = Len(said) + 1 /\ prompt[Len(said) + 1] = Primer
      /\ \A i \in 1 .. Len(said) : prompt[i] = said[i]
  <2>1. prompt = Append(said, Primer)
    BY <1>1, <1>2
  <2> HIDE DEF said, prompt
  <2> QED
    BY <1>1, <1>2, <2>1
<1> HIDE DEF said, prompt
<1>5. IsPrompt(prompt) /\ Len(stable) < Len(prompt)
  BY <1>1, <1>2, <1>3, <1>4 DEF IsPrompt
<1> QED
  BY <1>4, <1>5 DEF prompt, said

-----------------------------------------------------------------------------
(* How a generation begins: with what it may keep of the last one.         *)
CachesTyped ==
  /\ ledger \in Seq(Positions) /\ consumed \in Seq(Positions) /\ astray \in BOOLEAN
  /\ checkpoint \in [len : Nat, holds : Seq(Positions)]

LEMMA StartsAgainCaches ==
  ASSUME StartsAgain
  PROVE  CachesTyped' /\ CheckpointKept' /\ Shadows' /\ ledger' = <<>>
<1>1. <<>> \in Seq(Positions) /\ Len(<<>>) = 0
  OBVIOUS
<1>2. SubSeq(<<>>, 1, 0) = <<>>
  OBVIOUS
<1>3. ledger' = <<>> /\ consumed' = <<>> /\ checkpoint' = NoCheckpoint /\ astray' = FALSE
  BY DEF StartsAgain
<1>4. CachesTyped'
  BY <1>1, <1>3 DEF CachesTyped, NoCheckpoint
<1>5. NoCheckpoint.len = 0 /\ NoCheckpoint.holds = <<>>
  BY DEF NoCheckpoint
<1>6. CheckpointKept'
  BY <1>1, <1>2, <1>3, <1>5 DEF CheckpointKept
<1> QED
  BY <1>3, <1>4, <1>6 DEF Shadows

LEMMA GoesBackCaches ==
  ASSUME KvTyped, CheckpointKept, GoesBack
  PROVE  /\ CachesTyped' /\ CheckpointKept' /\ Shadows'
         /\ Len(ledger') = checkpoint.len
         /\ \A i \in 1 .. checkpoint.len : ledger'[i] = ledger[i]
<1>1. /\ ledger \in Seq(Positions) /\ checkpoint.len \in 0 .. Len(ledger)
      /\ checkpoint.holds \in Seq(Positions)
  BY DEF KvTyped, CheckpointKept
<1>2. /\ ledger' \in Seq(Positions) /\ Len(ledger') = checkpoint.len
      /\ \A i \in 1 .. checkpoint.len : ledger'[i] = ledger[i]
  BY <1>1 DEF GoesBack
<1>3. SubSeq(ledger', 1, checkpoint.len) = ledger'
  BY <1>1, <1>2
<1>4. CachesTyped'
  BY <1>1, <1>2 DEF GoesBack, CachesTyped, KvTyped
<1>5. CheckpointKept'
  BY <1>1, <1>2, <1>3 DEF GoesBack, CheckpointKept
<1>6. Shadows'
  <2>1. CASE Len(checkpoint.holds) = checkpoint.len
    BY <2>1 DEF GoesBack, Shadows, CheckpointKept
  <2>2. CASE Len(checkpoint.holds) # checkpoint.len
    <3>1. astray' /\ consumed' = checkpoint.holds
      BY <2>2 DEF GoesBack
    <3>2. Len(checkpoint.holds) > checkpoint.len
      BY <2>2, <1>1 DEF CheckpointKept
    <3> QED
      BY <3>1, <3>2, <1>2 DEF Shadows
  <2> QED
    BY <2>1, <2>2
<1> QED
  BY <1>2, <1>4, <1>5, <1>6

(* A ledger that ends behind a generation prompt is no proper prefix of a  *)
(* prompt.                                                                 *)
LEMMA ReusesCaches ==
  ASSUME KvInv, kvPc = "idle", NEW prompt \in Seq(Positions), IsPrompt(prompt), Reuses(prompt)
  PROVE  /\ CachesTyped' /\ CheckpointKept'
         /\ Len(ledger') <= Len(prompt) /\ ledger' = SubSeq(prompt, 1, Len(ledger'))
         /\ Shadows' \/ ledger' = prompt
<1> USE DEF KvInv
<1> DEFINE n == Reusable(prompt)
<1>1. /\ ledger \in Seq(Positions) /\ Len(ledger) \in Nat /\ Len(prompt) \in Nat
      /\ checkpoint.len \in Nat
  BY DEF KvTyped
<1>2. n \in 0 .. Len(ledger) /\ n <= Len(prompt) /\ \A i \in 1 .. n : ledger[i] = prompt[i]
  BY <1>1, ReusableIs
<1> HIDE DEF n
<1>3. CASE n = Len(ledger)
  <2>1. UNCHANGED <<ledger, consumed, checkpoint, astray>>
    BY <1>3 DEF Reuses, n
  <2>2. ledger = SubSeq(prompt, 1, Len(ledger))
    <3>1. SubSeq(prompt, 1, n) \in Seq(Positions) /\ Len(SubSeq(prompt, 1, n)) = n
          /\ \A i \in 1 .. n : SubSeq(prompt, 1, n)[i] = prompt[i]
      BY <1>1, <1>2
    <3> QED
      BY <3>1, <1>1, <1>2, <1>3, SeqEqual
  <2>3. CachesTyped' /\ CheckpointKept'
    BY <2>1 DEF CachesTyped, CheckpointKept, KvTyped
  <2>4. CASE Len(ledger) = Len(prompt)
    <3>1. SubSeq(prompt, 1, Len(prompt)) = prompt
      BY <1>1
    <3> QED
      BY <2>1, <2>2, <2>3, <2>4, <3>1
  <2>5. CASE Len(ledger) < Len(prompt)
    <3>1. ~Primed(ledger)
      BY <2>5, <1>1, <1>2, <1>3 DEF Primed, IsPrompt
    <3>2. Shadows'
      BY <3>1, <2>1 DEF Shadowed, Shadows
    <3> QED
      BY <2>1, <2>2, <2>3, <2>5, <3>2, <1>1
  <2> QED
    BY <2>4, <2>5, <1>1, <1>2, <1>3
<1>4. CASE n < Len(ledger) /\ Restorable(prompt)
  <2>1. GoesBack
    BY <1>4, <1>1, <1>2 DEF Reuses, n
  <2>2. checkpoint.len <= n
    BY <1>4 DEF Restorable, n
  <2>3. /\ CachesTyped' /\ CheckpointKept' /\ Shadows'
        /\ Len(ledger') = checkpoint.len
        /\ \A i \in 1 .. checkpoint.len : ledger'[i] = ledger[i]
    BY <2>1, GoesBackCaches
  <2>4. \A i \in 1 .. checkpoint.len : ledger'[i] = prompt[i]
    BY <2>2, <2>3, <1>1, <1>2
  <2>5. SubSeq(prompt, 1, checkpoint.len) \in Seq(Positions)
        /\ Len(SubSeq(prompt, 1, checkpoint.len)) = checkpoint.len
        /\ \A i \in 1 .. checkpoint.len : SubSeq(prompt, 1, checkpoint.len)[i] = prompt[i]
    BY <2>2, <1>1, <1>2
  <2>6. ledger' = SubSeq(prompt, 1, checkpoint.len)
    BY <2>3, <2>4, <2>5, SeqEqual DEF CachesTyped
  <2> QED
    BY <2>2, <2>3, <2>6, <1>1, <1>2
<1>5. CASE n < Len(ledger) /\ ~Restorable(prompt)
  <2>1. StartsAgain
    BY <1>5, <1>1, <1>2 DEF Reuses, n
  <2>2. CachesTyped' /\ CheckpointKept' /\ Shadows' /\ ledger' = <<>>
    BY <2>1, StartsAgainCaches
  <2>3. SubSeq(prompt, 1, 0) = <<>>
    BY <1>1
  <2> QED
    BY <2>2, <2>3, <1>1
<1> QED
  BY <1>1, <1>2, <1>3, <1>4, <1>5

LEMMA BeginsStep ==
  ASSUME KvInv, NEW stable \in Stable, NEW live \in Live, NEW warm \in BOOLEAN, Begins(stable, live, warm)
  PROVE  KvInv'
<1> USE DEF KvInv
<1> DEFINE prompt == stable \o live \o <<Primer>>
           started == [prompt |-> prompt, stable |-> Len(stable), warm |-> warm,
                     end |-> IF warm THEN Len(stable) ELSE Len(prompt)]
<1>1. prompt \in Seq(Positions) /\ IsPrompt(prompt) /\ Len(stable) < Len(prompt)
  BY PromptIs
<1>2. stable \in Seq(Positions) /\ Len(stable) \in Nat /\ Len(prompt) \in Nat
  BY <1>1, PromptAssumption
<1>3. /\ kvPc = "idle" /\ pending' = pending /\ emitted' = emitted
      /\ speculative' = speculative /\ defers' = defers
      /\ IF warm THEN StartsAgain ELSE Reuses(prompt)
      /\ ledger' = prompt => kvPc' = kvPc /\ task' = task
      /\ ledger' # prompt => kvPc' = "prefill" /\ task' = started
  BY DEF Begins
<1>4. pending = <<>> /\ emitted = <<>>
  BY <1>3 DEF Decoding
<1> HIDE DEF prompt
<1>5. /\ CachesTyped' /\ CheckpointKept' /\ Len(ledger') <= started.end
      /\ ledger' = SubSeq(prompt, 1, Len(ledger'))
      /\ Shadows' \/ ledger' = prompt
  <2>1. CASE warm
    <3>1. CachesTyped' /\ CheckpointKept' /\ Shadows' /\ ledger' = <<>>
      BY <2>1, <1>3, StartsAgainCaches
    <3>2. SubSeq(prompt, 1, 0) = <<>>
      BY <1>1
    <3> QED
      BY <2>1, <3>1, <3>2, <1>2
  <2>2. CASE ~warm
    BY <2>2, <1>1, <1>3, ReusesCaches
  <2> QED
    BY <2>1, <2>2
<1>6. started \in [prompt : Seq(Positions), stable : Nat, end : Nat, warm : BOOLEAN]
  BY <1>1, <1>2
<1>7. KvTyped'
  BY <1>3, <1>4, <1>5, <1>6 DEF KvTyped, CachesTyped
<1>8. CASE ledger' = prompt
  <2>1. Primed(ledger')
    BY <1>1, <1>2, <1>8 DEF Primed, IsPrompt
  <2>2. kvPc' = "idle" /\ pending' = <<>> /\ emitted' = <<>>
    BY <1>3, <1>4, <1>8
  <2>3. Shadowed'
    BY <2>1, <2>2 DEF Shadowed, Primed
  <2> QED
    BY <1>5, <1>7, <2>2, <2>3 DEF Filling, Decoding
<1>9. CASE ledger' # prompt
  <2>1. kvPc' = "prefill" /\ task' = started /\ pending' = <<>> /\ emitted' = <<>>
    BY <1>3, <1>4, <1>9
  <2>2. Shadowed'
    BY <1>5, <1>9 DEF Shadowed
  <2>3. started.end <= Len(prompt) /\ started.stable <= started.end
    BY <1>1, <1>2
  <2>4. Filling'
    BY <1>1, <1>5, <2>1, <2>3 DEF Filling
  <2> QED
    BY <1>5, <1>7, <2>1, <2>2, <2>4 DEF Decoding
<1> QED
  BY <1>8, <1>9

-----------------------------------------------------------------------------
(* What is computed and recorded together.                                 *)
LEMMA CheckpointStays ==
  ASSUME KvTyped, CheckpointKept, NEW more \in Seq(Positions), ledger' = ledger \o more,
         checkpoint' = checkpoint
  PROVE  CheckpointKept'
<1>1. /\ ledger \in Seq(Positions) /\ checkpoint.len \in 0 .. Len(ledger)
      /\ Len(ledger') = Len(ledger) + Len(more) /\ Len(more) \in Nat
  BY DEF KvTyped, CheckpointKept
<1>2. SubSeq(ledger', 1, checkpoint.len) = SubSeq(ledger, 1, checkpoint.len)
  BY <1>1
<1> QED
  BY <1>1, <1>2 DEF CheckpointKept

LEMMA BothGrow ==
  ASSUME KvTyped, Shadows, NEW more \in Seq(Positions), ledger' = ledger \o more,
         consumed' = consumed \o more, astray' = astray
  PROVE  Shadows' /\ ledger' \in Seq(Positions) /\ consumed' \in Seq(Positions)
<1>1. ledger \in Seq(Positions) /\ consumed \in Seq(Positions)
  BY DEF KvTyped
<1>2. /\ ledger' \in Seq(Positions) /\ Len(ledger') = Len(ledger) + Len(more)
      /\ consumed' \in Seq(Positions) /\ Len(consumed') = Len(consumed) + Len(more)
      /\ Len(ledger) \in Nat /\ Len(consumed) \in Nat /\ Len(more) \in Nat
  BY <1>1
<1>3. CASE astray
  <2>1. Len(consumed) > Len(ledger)
    BY <1>3 DEF Shadows
  <2>2. Len(consumed') > Len(ledger')
    BY <2>1, <1>2
  <2> QED
    BY <2>2, <1>2, <1>3 DEF Shadows
<1>4. CASE ~astray
  BY <1>2, <1>4 DEF Shadows
<1> QED
  BY <1>2, <1>3, <1>4

LEMMA StaysPrimed ==
  ASSUME KvTyped, Primed(ledger), NEW more \in Seq(Positions), ledger' = ledger \o more
  PROVE  Primed(ledger')
<1>1. ledger \in Seq(Positions)
  BY DEF KvTyped
<1>2. PICK i \in 1 .. Len(ledger) : ledger[i] = Primer
  BY DEF Primed
<1>3. i \in 1 .. Len(ledger') /\ ledger'[i] = Primer
  BY <1>1, <1>2
<1> QED
  BY <1>3 DEF Primed

(* The end of a generation leaves only the caches.                         *)
LEMMA OverKeeps ==
  ASSUME Over, KvInv, speculative' = speculative, defers' = defers, CachesTyped', CheckpointKept',
         Shadowed'
  PROVE  KvInv'
<1>1. /\ kvPc' = "idle" /\ task' = NoTask /\ pending' = <<>> /\ emitted' = <<>>
  BY DEF Over
<1>2. NoTask \in [prompt : Seq(Positions), stable : Nat, end : Nat, warm : BOOLEAN]
      /\ <<>> \in Seq(Positions) /\ Len(<<>>) <= MaxNew
  <2>1. <<>> \in Seq(Positions) /\ Len(<<>>) = 0 /\ MaxNew \in Nat
    BY GenerationBounds
  <2> QED
    BY <2>1 DEF NoTask
<1>3. KvTyped'
  BY <1>1, <1>2 DEF KvInv, KvTyped, CachesTyped
<1> QED
  BY <1>1, <1>3 DEF KvInv, Filling, Decoding

LEMMA PrefillChunkStep == KvInv /\ PrefillChunk => KvInv'
<1> SUFFICES ASSUME KvInv, PrefillChunk
             PROVE  KvInv'
  OBVIOUS
<1> USE DEF KvInv
<1> DEFINE end == ChunkEnd
<1>1. /\ task.prompt \in Seq(Positions) /\ Len(task.prompt) \in Nat /\ task.stable \in Nat /\ task.end \in Nat
      /\ ledger \in Seq(Positions) /\ Len(ledger) \in Nat /\ consumed \in Seq(Positions)
  BY DEF KvTyped
<1>2. /\ kvPc = "prefill" /\ Len(ledger) < task.end /\ task.end <= Len(task.prompt)
      /\ task.stable <= task.end /\ ledger = SubSeq(task.prompt, 1, Len(ledger))
      /\ IsPrompt(task.prompt) /\ (~task.warm => task.end = Len(task.prompt))
  BY DEF PrefillChunk, Filling, At
<1>3. end \in Len(ledger) + 1 .. task.end
  <2>1. Chunk \in Nat /\ Chunk > 0
    BY GenerationBounds
  <2>2. Min({Len(ledger) + Chunk, task.end}) \in Len(ledger) + 1 .. task.end
    BY SMTT(30), <2>1, <1>1, <1>2, MinOfTwo
  <2> QED
    BY <2>2, <1>1, <1>2 DEF ChunkEnd, At
<1>4. /\ Piece = SubSeq(task.prompt, Len(ledger) + 1, end)
      /\ ledger' = ledger \o Piece /\ consumed' = consumed \o Piece
      /\ checkpoint' = IF end = task.stable THEN [len |-> end, holds |-> consumed'] ELSE checkpoint
      /\ kvPc' = kvPc /\ task' = task
      /\ UNCHANGED <<speculative, defers, pending, emitted, astray>>
  BY DEF PrefillChunk, Piece, At, Continues
<1> HIDE DEF end
<1>5. Piece \in Seq(Positions) /\ Len(Piece) = end - Len(ledger)
  BY SMTT(30), <1>1, <1>2, <1>3, <1>4
<1>6. Shadows' /\ ledger' \in Seq(Positions) /\ consumed' \in Seq(Positions)
  <2>1. Shadows
    BY <1>2 DEF Shadowed
  <2> QED
    BY <2>1, <1>4, <1>5, BothGrow
<1>7. ledger' = SubSeq(task.prompt, 1, end) /\ Len(ledger') = end
  <2>1. Len(ledger') = end
    BY <1>1, <1>3, <1>4, <1>5
  <2>2. \A i \in 1 .. end : ledger'[i] = task.prompt[i]
    <3>1. \A i \in 1 .. Len(ledger) : ledger[i] = task.prompt[i]
      BY <1>1, <1>2
    <3>2. \A i \in 1 .. Len(Piece) : Piece[i] = task.prompt[Len(ledger) + i]
      BY <1>1, <1>2, <1>3, <1>4, <1>5
    <3>3. \A i \in 1 .. end : ledger'[i] = IF i <= Len(ledger) THEN ledger[i] ELSE Piece[i - Len(ledger)]
      BY <1>1, <1>3, <1>4, <1>5
    <3>4. \A i \in 1 .. end : i <= Len(ledger) \/ i - Len(ledger) \in 1 .. Len(Piece)
      BY <1>1, <1>3, <1>5
    <3>5. \A i \in 1 .. end : Len(ledger) + (i - Len(ledger)) = i
      BY <1>1, <1>3
    <3> QED
      BY SMTT(30), <3>1, <3>2, <3>3, <3>4, <3>5, <1>1
  <2>3. SubSeq(task.prompt, 1, end) \in Seq(Positions) /\ Len(SubSeq(task.prompt, 1, end)) = end
        /\ \A i \in 1 .. end : SubSeq(task.prompt, 1, end)[i] = task.prompt[i]
    BY <1>1, <1>2, <1>3
  <2> QED
    BY <2>1, <2>2, <2>3, <1>6, SeqEqual
<1>8. CheckpointKept' /\ checkpoint' \in [len : Nat, holds : Seq(Positions)]
  <2>1. CASE end = task.stable
    <3>1. checkpoint' = [len |-> end, holds |-> consumed']
      BY <2>1, <1>4
    <3>2. Len(consumed') >= end /\ (Len(consumed') = end => consumed' = ledger')
      BY <1>6, <1>7 DEF Shadows
    <3>3. SubSeq(ledger', 1, end) = ledger'
      BY <1>6, <1>7
    <3>4. end \in Nat
      BY <1>1, <1>3
    <3> QED
      BY <3>1, <3>2, <3>3, <3>4, <1>6, <1>7 DEF CheckpointKept
  <2>2. CASE end # task.stable
    BY <2>2, <1>4, <1>5, CheckpointStays DEF KvTyped
  <2> QED
    BY <2>1, <2>2
<1>9. KvTyped'
  BY <1>4, <1>6, <1>8 DEF KvTyped
<1>10. Filling'
  BY SMTT(30), <1>1, <1>2, <1>3, <1>4, <1>7 DEF Filling
<1> QED
  BY <1>2, <1>4, <1>6, <1>8, <1>9, <1>10 DEF Shadowed, Decoding

(* A pass that throws leaves the caches longer than the ledger.            *)
LEMMA ThrowsStep ==
  ASSUME KvInv, kvPc # "idle", NEW forwarded \in Seq(Positions), Len(forwarded) > 0, Throws(forwarded)
  PROVE  KvInv'
<1> USE DEF KvInv
<1>1. /\ ledger \in Seq(Positions) /\ consumed = ledger /\ ledger' = ledger /\ checkpoint' = checkpoint
      /\ consumed' = consumed \o forwarded /\ astray' = TRUE
  BY DEF Throws, Shadowed, Shadows, KvTyped
<1>2. consumed' \in Seq(Positions) /\ Len(consumed') > Len(ledger')
  BY <1>1
<1>3. CachesTyped' /\ CheckpointKept' /\ Shadowed'
  BY <1>1, <1>2 DEF CachesTyped, CheckpointKept, Shadowed, Shadows, KvTyped
<1> QED
  BY <1>3, OverKeeps DEF Throws

LEMMA PrefillEndsStep == KvInv /\ PrefillEnds => KvInv'
<1> SUFFICES ASSUME KvInv, PrefillEnds
             PROVE  KvInv'
  OBVIOUS
<1> USE DEF KvInv
<1>1. /\ kvPc = "prefill" /\ Len(ledger) = task.end
      /\ UNCHANGED <<ledger, consumed, checkpoint, speculative, defers, astray>>
  BY DEF PrefillEnds, At
<1>2. CachesTyped' /\ CheckpointKept' /\ Shadows'
  BY <1>1 DEF CachesTyped, CheckpointKept, Shadowed, Shadows, KvTyped
<1>3. CASE task.warm
  BY <1>1, <1>2, <1>3, OverKeeps DEF PrefillEnds, Shadowed
<1>4. CASE ~task.warm
  <2>1. kvPc' = "decode" /\ UNCHANGED <<task, pending, emitted>>
    BY <1>4 DEF PrefillEnds
  <2>2. /\ task.prompt \in Seq(Positions) /\ IsPrompt(task.prompt) /\ task.end = Len(task.prompt)
        /\ ledger = SubSeq(task.prompt, 1, Len(ledger))
    BY <1>1, <1>4 DEF Filling, KvTyped
  <2>3. ledger = task.prompt
    BY <2>2, <1>1
  <2>4. Primed(ledger)
    BY <2>2, <2>3 DEF Primed, IsPrompt
  <2>5. pending = <<>> /\ emitted = <<>>
    BY <1>1 DEF Decoding
  <2>6. Decoding'
    BY <2>1, <2>3, <2>4, <2>5, <1>1 DEF Decoding, Primed
  <2>7. KvTyped'
    BY <2>1, <1>1 DEF KvTyped
  <2> QED
    BY <2>1, <2>6, <2>7, <1>2 DEF Shadowed, Filling
<1> QED
  BY <1>3, <1>4

LEMMA StopsStep == KvInv /\ Stops => KvInv'
<1> SUFFICES ASSUME KvInv, Stops
             PROVE  KvInv'
  OBVIOUS
<1>1. CachesTyped' /\ CheckpointKept' /\ Shadowed'
  BY DEF KvInv, Stops, CachesTyped, CheckpointKept, Shadowed, Shadows, KvTyped
<1> QED
  BY <1>1, OverKeeps DEF Stops

LEMMA ReloadsStep == KvInv /\ Reloads => KvInv'
<1> SUFFICES ASSUME KvInv, Reloads
             PROVE  KvInv'
  OBVIOUS
<1> USE DEF KvInv
<1>1. CachesTyped' /\ CheckpointKept' /\ Shadows'
  BY StartsAgainCaches DEF Reloads
<1>2. kvPc = "idle" /\ UNCHANGED <<task, kvPc, speculative, defers, pending, emitted>>
  BY DEF Reloads
<1>3. KvTyped'
  BY <1>1, <1>2 DEF KvTyped, CachesTyped
<1> QED
  BY <1>1, <1>2, <1>3 DEF Shadowed, Filling, Decoding

-----------------------------------------------------------------------------
(* Decoding: what is forwarded, and what is owed for, is what was owed and *)
(* what is given out.                                                      *)

(* The generation goes on.                                                 *)
LEMMA DecodesOn ==
  ASSUME KvInv, kvPc = "decode", NEW forwarded \in Seq(Positions), NEW owed \in Seq(Positions),
         NEW decoded \in Seq(Positions), forwarded \o owed = pending \o decoded,
         speculative \/ owed = <<>>,
         ledger' = ledger \o forwarded, consumed' = consumed \o forwarded,
         pending' = owed, emitted' = emitted \o decoded, Len(emitted \o decoded) <= MaxNew,
         UNCHANGED <<kvPc, task, checkpoint, speculative, defers, astray>>
  PROVE  KvInv'
<1> USE DEF KvInv
<1>1. /\ ledger \in Seq(Positions) /\ consumed \in Seq(Positions) /\ pending \in Seq(Positions)
      /\ emitted \in Seq(Positions) /\ task.prompt \in Seq(Positions)
      /\ Shadows /\ Primed(ledger) /\ ledger \o pending = task.prompt \o emitted
  BY DEF KvTyped, Shadowed, Decoding
<1>2. Shadows' /\ ledger' \in Seq(Positions) /\ consumed' \in Seq(Positions)
  BY <1>1, BothGrow
<1>3. CheckpointKept' /\ Primed(ledger')
  <2>1. CheckpointKept'
    BY CheckpointStays
  <2>2. Primed(ledger')
    BY <1>1, StaysPrimed
  <2> QED
    BY <2>1, <2>2
<1>4. ledger' \o pending' = task'.prompt \o emitted'
  <2> DEFINE said == task.prompt
  <2>1. /\ ledger \in Seq(Positions) /\ pending \in Seq(Positions) /\ said \in Seq(Positions)
        /\ emitted \in Seq(Positions) /\ decoded \in Seq(Positions) /\ forwarded \in Seq(Positions)
        /\ owed \in Seq(Positions)
    BY <1>1
  <2>2. /\ ledger' = ledger \o forwarded /\ pending' = owed /\ emitted' = emitted \o decoded
        /\ task'.prompt = said /\ forwarded \o owed = pending \o decoded
    OBVIOUS
  <2>3. ledger \o pending = said \o emitted
    BY <1>1
  <2> HIDE DEF said
  <2>4. (ledger \o forwarded) \o owed = ledger \o (forwarded \o owed)
    BY ONLY SMTT(30), <2>1
  <2>5. (ledger \o pending) \o decoded = ledger \o (pending \o decoded)
    BY ONLY SMTT(30), <2>1
  <2>6. (said \o emitted) \o decoded = said \o (emitted \o decoded)
    BY ONLY SMTT(30), <2>1
  <2> QED
    BY ONLY <2>2, <2>3, <2>4, <2>5, <2>6
<1>5. emitted' \in Seq(Positions)
  BY <1>1
<1>6. KvTyped'
  BY <1>2, <1>5 DEF KvTyped
<1>7. Decoding'
  BY <1>3, <1>4 DEF Decoding, Primed
<1> QED
  BY <1>2, <1>3, <1>6, <1>7 DEF Shadowed, Filling

(* The generation ends with these tokens, of which the caches may lack the *)
(* last: they end behind the prompt all the same.                          *)
LEMMA DecodesLast ==
  ASSUME KvInv, kvPc = "decode", Over, NEW forwarded \in Seq(Positions),
         ledger' = ledger \o forwarded, consumed' \in Seq(Positions),
         UNCHANGED <<checkpoint, speculative, defers, astray>>
  PROVE  KvInv'
<1> USE DEF KvInv
<1>1. ledger \in Seq(Positions) /\ Primed(ledger)
  BY DEF KvTyped, Decoding
<1>2. CheckpointKept' /\ Primed(ledger') /\ ledger' \in Seq(Positions)
  <2>1. CheckpointKept'
    BY CheckpointStays
  <2>2. Primed(ledger')
    BY <1>1, StaysPrimed
  <2>3. ledger' \in Seq(Positions)
    BY <1>1
  <2> QED
    BY <2>1, <2>2, <2>3
<1>3. CachesTyped' /\ Shadowed'
  BY <1>2 DEF CachesTyped, KvTyped, Shadowed, Over, Primed
<1> QED
  BY <1>2, <1>3, OverKeeps

LEMMA TokenStep ==
  ASSUME KvInv, NEW p \in Generated, NEW stops \in BOOLEAN, Token(p, stops)
  PROVE  KvInv'
<1> DEFINE one == <<p>>
<1>1. p \in Positions /\ one \in Seq(Positions)
  BY PromptAssumption
<1>2. /\ kvPc = "decode" /\ ~speculative /\ Len(emitted) < MaxNew /\ pending = <<>>
      /\ ledger \in Seq(Positions) /\ consumed \in Seq(Positions) /\ emitted \in Seq(Positions)
  BY DEF Token, KvInv, KvTyped, Decoding
<1>7. \A s \in Seq(Positions) : Append(s, p) = s \o one
  BY <1>1, AppendIsConcat
<1>3. /\ Append(ledger, p) = ledger \o one /\ Append(consumed, p) = consumed \o one
      /\ Append(emitted, p) = emitted \o one
  BY <1>2, <1>7
<1>4. ledger' = ledger \o one /\ UNCHANGED <<checkpoint, speculative, defers, astray>>
  BY <1>3 DEF Token
<1>5. CASE stops
  <2>1. Over /\ consumed' \in {consumed, Append(consumed, p)}
    BY <1>5 DEF Token
  <2>2. consumed' \in Seq(Positions)
    BY <2>1, <1>1, <1>2
  <2> QED
    BY <2>1, <2>2, <1>1, <1>2, <1>4, DecodesLast
<1>6. CASE ~stops
  <2>1. /\ consumed' = consumed \o one /\ emitted' = emitted \o one
        /\ UNCHANGED <<kvPc, task, pending>>
    BY <1>3, <1>6 DEF Token, Continues
  <2>2. one \o <<>> = pending \o one
    BY <1>1, <1>2
  <2>3. Len(emitted \o one) <= MaxNew
    BY <1>1, <1>2, GenerationBounds
  <2>4. <<>> \in Seq(Positions) /\ pending' = <<>>
    BY <2>1, <1>2
  <2> HIDE DEF one
  <2> QED
    BY <2>1, <2>2, <2>3, <2>4, <1>1, <1>2, <1>4, DecodesOn
<1> QED
  BY <1>5, <1>6

(* A block is forwarded or owed for as a whole, and so is what was owed    *)
(* before it.                                                              *)
Balanced(step, decoded) ==
  /\ step.forwarded \in Seq(Positions) /\ step.owed \in Seq(Positions)
  /\ step.forwarded \o step.owed = pending \o decoded

LEMMA OneBalances ==
  ASSUME pending \in Seq(Positions), NEW p \in Positions
  PROVE  Balanced(One(p), <<p>>)
<1>1. <<p>> \in Seq(Positions) /\ <<>> \in Seq(Positions)
  OBVIOUS
<1>2. pending \o <<p>> \in Seq(Positions) /\ (pending \o <<p>>) \o <<>> = pending \o <<p>>
  BY <1>1
<1> QED
  BY <1>1, <1>2 DEF Balanced, One

LEMMA BlockBalances ==
  ASSUME pending \in Seq(Positions), NEW drafted \in Seq(Positions), NEW m \in 0 .. Len(drafted),
         NEW p \in Positions
  PROVE  Balanced(Block(drafted, m, p), SubSeq(drafted, 1, m) \o <<p>>)
<1> DEFINE kept == SubSeq(drafted, 1, m)
           last == <<p>>
           decoded == kept \o last
<1>1. kept \in Seq(Positions) /\ last \in Seq(Positions) /\ decoded \in Seq(Positions)
  OBVIOUS
<1>2. m = Len(drafted) => kept = drafted
  OBVIOUS
<1>3. /\ Flushed \in Seq(Positions) /\ Owed \in Seq(Positions) /\ Flushed \o Owed = pending
  BY DEF Flushed, Owed
<1> DEFINE fl == Flushed
           ow == Owed
<1>4. /\ fl \in Seq(Positions) /\ ow \in Seq(Positions) /\ fl \o ow = pending
  BY <1>3
<1> HIDE DEF kept, last, decoded, fl, ow
<1>5. /\ pending \in Seq(Positions) /\ drafted \in Seq(Positions) /\ <<>> \in Seq(Positions)
      /\ pending \o drafted \in Seq(Positions) /\ pending \o decoded \in Seq(Positions)
      /\ ow \o decoded \in Seq(Positions)
  BY <1>1, <1>4
<1>6. (pending \o drafted) \o last = pending \o (drafted \o last)
  BY ONLY SMTT(30), <1>1, <1>5
<1>7. (fl \o ow) \o decoded = fl \o (ow \o decoded)
  <2>1. fl \in Seq(Positions) /\ ow \in Seq(Positions) /\ decoded \in Seq(Positions)
    BY <1>1, <1>4
  <2> QED
    BY ONLY SMTT(30), <2>1
<1>8. (pending \o decoded) \o <<>> = pending \o decoded
  BY ONLY <1>1, <1>5
<1>12. ASSUME NEW f \in Seq(Positions), NEW o \in Seq(Positions), f \o o = pending \o decoded,
              Block(drafted, m, p) = [forwarded |-> f, owed |-> o]
       PROVE  Balanced(Block(drafted, m, p), SubSeq(drafted, 1, m) \o <<p>>)
  <2>1. Block(drafted, m, p).forwarded = f /\ Block(drafted, m, p).owed = o
    BY <1>12
  <2>2. SubSeq(drafted, 1, m) \o <<p>> = decoded
    BY DEF decoded, kept, last
  <2> QED
    BY ONLY <2>1, <2>2, <1>12 DEF Balanced
<1>9. CASE m = Len(drafted) /\ defers
  <2>1. Block(drafted, m, p) = [forwarded |-> pending \o drafted, owed |-> last]
    BY <1>4, <1>9 DEF Block, fl, ow, last
  <2>2. decoded = drafted \o last
    BY <1>2, <1>9 DEF decoded
  <2> QED
    BY <2>1, <2>2, <1>1, <1>5, <1>6, <1>12
<1>10. CASE m < Len(drafted) /\ defers /\ Len(ow \o decoded) <= MaxDeferred
  <2>1. Block(drafted, m, p) = [forwarded |-> fl, owed |-> ow \o decoded]
    BY <1>10 DEF Block, fl, ow, last, decoded, kept
  <2> QED
    BY <2>1, <1>4, <1>5, <1>7, <1>12
<1>11. CASE /\ ~(m = Len(drafted) /\ defers)
            /\ ~(m < Len(drafted) /\ defers /\ Len(ow \o decoded) <= MaxDeferred)
  <2>1. Block(drafted, m, p) = [forwarded |-> pending \o decoded, owed |-> <<>>]
    BY <1>4, <1>11 DEF Block, fl, ow, last, decoded, kept
  <2> QED
    BY <2>1, <1>5, <1>8, <1>12
<1> QED
  BY <1>9, <1>10, <1>11

LEMMA CommitsStep ==
  ASSUME KvInv, NEW decoded \in Seq(Positions), NEW step, Balanced(step, decoded),
         NEW stops \in BOOLEAN, Commits(decoded, step, stops)
  PROVE  KvInv'
<1> USE DEF KvInv
<1> DEFINE forwarded == step.forwarded
           owed == step.owed
<1>1. /\ forwarded \in Seq(Positions) /\ owed \in Seq(Positions)
      /\ forwarded \o owed = pending \o decoded
  BY DEF Balanced
<1>2. /\ kvPc = "decode" /\ speculative
      /\ ledger' = ledger \o forwarded /\ consumed' = consumed \o forwarded
      /\ UNCHANGED <<checkpoint, speculative, defers, astray>>
  BY DEF Commits
<1>3. consumed \in Seq(Positions) /\ emitted \in Seq(Positions)
  BY DEF KvTyped
<1>4. CASE stops \/ Len(emitted \o decoded) > MaxNew
  <2>1. Over
    BY <1>4 DEF Commits
  <2> HIDE DEF forwarded, owed
  <2>2. consumed' \in Seq(Positions)
    BY <1>1, <1>2, <1>3
  <2> QED
    BY <2>1, <2>2, <1>1, <1>2, DecodesLast
<1>5. CASE ~(stops \/ Len(emitted \o decoded) > MaxNew)
  <2>1. pending' = owed /\ emitted' = emitted \o decoded /\ UNCHANGED <<kvPc, task>>
    BY <1>5 DEF Commits, Continues
  <2>2. Len(emitted \o decoded) <= MaxNew
    <3>1. Len(emitted \o decoded) \in Nat /\ MaxNew \in Nat
      BY <1>3, GenerationBounds
    <3> QED
      BY <3>1, <1>5
  <2> HIDE DEF forwarded, owed
  <2> QED
    BY <2>1, <2>2, <1>1, <1>2, DecodesOn
<1> QED
  BY <1>4, <1>5

LEMMA DraftsAre ==
  ASSUME NEW drafted \in Drafts
  PROVE  drafted \in Seq(Positions) /\ Len(drafted) > 0
<1>1. PICK n \in 1 .. MaxDraft : drafted \in [1 .. n -> Generated]
  BY DEF Drafts
<1>2. n \in Nat /\ n > 0 /\ Generated \subseteq Positions
  BY GenerationBounds, PromptAssumption
<1>3. drafted \in Seq(Generated) /\ Len(drafted) = n
  BY <1>1, <1>2
<1>4. drafted \in Seq(Positions)
  BY <1>2, <1>3
<1> QED
  BY <1>2, <1>3, <1>4

LEMMA PieceIs ==
  ASSUME KvInv, kvPc = "prefill", At < task.end
  PROVE  Piece \in Seq(Positions) /\ Len(Piece) > 0
<1>1. /\ task.prompt \in Seq(Positions) /\ Len(task.prompt) \in Nat /\ task.stable \in Nat /\ task.end \in Nat
      /\ Len(ledger) \in Nat /\ Len(ledger) < task.end /\ task.end <= Len(task.prompt)
      /\ task.stable <= task.end
  BY DEF KvInv, KvTyped, Filling, At
<1>2. Chunk \in Nat /\ Chunk > 0
  BY GenerationBounds
<1>3. Min({Len(ledger) + Chunk, task.end}) \in Len(ledger) + 1 .. task.end
  BY <1>1, <1>2, MinOfTwo
<1>4. ChunkEnd \in Len(ledger) + 1 .. task.end
  BY <1>1, <1>3 DEF ChunkEnd, At
<1> HIDE DEF KvInv
<1>5. SubSeq(task.prompt, Len(ledger) + 1, ChunkEnd) \in Seq(Positions)
      /\ Len(SubSeq(task.prompt, Len(ledger) + 1, ChunkEnd)) = ChunkEnd - Len(ledger)
  BY <1>1, <1>4
<1> QED
  BY <1>1, <1>4, <1>5 DEF Piece, At

LEMMA KvInvNext == KvInv /\ [KvNext]_kvVars => KvInv'
<1> SUFFICES ASSUME KvInv, [KvNext]_kvVars
             PROVE  KvInv'
  OBVIOUS
<1>1. CASE UNCHANGED kvVars
  BY <1>1 DEF kvVars, KvInv, KvTyped, CheckpointKept, Shadowed, Shadows, Filling, Decoding, Primed
<1>2. CASE \E stable \in Stable, live \in Live, warm \in BOOLEAN : Begins(stable, live, warm)
  BY <1>2, BeginsStep
<1>3. CASE PrefillChunk \/ PrefillEnds \/ Stops \/ Reloads
  BY <1>3, PrefillChunkStep, PrefillEndsStep, StopsStep, ReloadsStep
<1>4. CASE kvPc = "prefill" /\ At < task.end /\ Throws(Piece)
  BY <1>4, PieceIs, ThrowsStep
<1>5. ASSUME NEW p \in Generated, NEW stops \in BOOLEAN, Token(p, stops) \/ DecodesOne(p, stops)
      PROVE  KvInv'
  <2>1. p \in Positions /\ <<p>> \in Seq(Positions) /\ pending \in Seq(Positions)
    BY PromptAssumption DEF KvInv, KvTyped
  <2>2. Balanced(One(p), <<p>>)
    BY <2>1, OneBalances
  <2> QED
    BY <1>5, <2>1, <2>2, TokenStep, CommitsStep DEF DecodesOne
<1>6. ASSUME NEW drafted \in Drafts, NEW m \in 0 .. MaxDraft, NEW p \in Generated, NEW stops \in BOOLEAN,
             DecodesBlock(drafted, m, p, stops)
      PROVE  KvInv'
  <2>1. p \in Positions /\ pending \in Seq(Positions) /\ drafted \in Seq(Positions)
    BY PromptAssumption, DraftsAre DEF KvInv, KvTyped
  <2>2. m \in 0 .. Len(drafted)
    BY <1>6, <2>1 DEF DecodesBlock
  <2>3. Balanced(Block(drafted, m, p), SubSeq(drafted, 1, m) \o <<p>>)
    BY <2>1, <2>2, BlockBalances
  <2>4. SubSeq(drafted, 1, m) \o <<p>> \in Seq(Positions)
    BY <2>1, <2>2
  <2>5. Commits(SubSeq(drafted, 1, m) \o <<p>>, Block(drafted, m, p), stops)
    BY <1>6 DEF DecodesBlock
  <2> QED
    BY <2>3, <2>4, <2>5, CommitsStep
<1>7. ASSUME NEW drafted \in Drafts, kvPc = "decode" /\ speculative /\ Throws(pending \o drafted)
      PROVE  KvInv'
  <2>1. pending \in Seq(Positions) /\ drafted \in Seq(Positions) /\ Len(drafted) > 0
    BY DraftsAre DEF KvInv, KvTyped
  <2>2. pending \o drafted \in Seq(Positions) /\ Len(pending \o drafted) > 0
    BY <2>1
  <2> QED
    BY <1>7, <2>2, ThrowsStep
<1> QED
  BY <1>1, <1>2, <1>3, <1>4, <1>5, <1>6, <1>7 DEF KvNext

(* While tokens are decoded, the caches hold exactly the prompt and what   *)
(* was decoded, whatever was reused, rolled back, warmed, cancelled or     *)
(* rejected before: generate never continues over other positions than its *)
(* ledger names, as long as no pass has thrown; and what one that threw    *)
(* left behind is gone with the next reset.                                *)
THEOREM ContextStaysExact == KvSpec => []DecodesExactContext
<1>1. KvSpec => []KvInv
  BY KvInvInit, KvInvNext, PTL DEF KvSpec
<1> QED
  BY <1>1, KvInvEnough, PTL

-----------------------------------------------------------------------------
LEMMA GreatestExists ==
  ASSUME NEW N \in Nat, NEW S \in SUBSET (0 .. N), S # {}
  PROVE  \E n \in S : \A k \in S : k <= n
<1> DEFINE D == {N - n : n \in S}
<1>1. D \in SUBSET Nat /\ D # {}
  <2>1. \A n \in S : n \in Nat /\ N - n \in Nat
    OBVIOUS
  <2> QED
    BY <2>1
<1>2. PICK d \in D : \A e \in D : d <= e
  <2> HIDE DEF D
  <2> QED
    BY <1>1, LeastExists
<1>3. PICK m \in S : d = N - m
  BY <1>2
<1>4. \A n \in S : n <= m
  <2> TAKE n \in S
  <2>1. N - n \in D
    OBVIOUS
  <2>2. N - m <= N - n
    BY <2>1, <1>2, <1>3
  <2>3. m \in Nat /\ n \in Nat
    OBVIOUS
  <2> QED
    BY <2>2, <2>3
<1> QED
  BY <1>4

-----------------------------------------------------------------------------
(***************************************************************************)
(* One generation.  The grammar after some tokens, the bytes of some       *)
(* tokens, what is shown of a channel and what is still queued for it  *)
(* are the same recursion with another step, so what all of them have in   *)
(* common is proved once: Chain runs the step of a kind over a sequence.   *)
(***************************************************************************)
StepOf(kind, c, a, x) ==
  IF kind = "turn" THEN Advanced(a, x)
  ELSE IF kind = "bytes" THEN a \o Bytes[x]
  ELSE IF kind = "show" THEN IF x.channel = c THEN a \o x.text ELSE a
  ELSE IF x.channel = c THEN Append(a, x.id) ELSE a

Runs(f, kind, c, a, xs, N) ==
  /\ f[0] = a
  /\ \A n \in 1 .. N : f[n] = StepOf(kind, c, f[n - 1], xs[n])

Stepped(f, kind, c, a, xs, N) ==
  [n \in 0 .. N |-> IF n = 0 THEN a ELSE StepOf(kind, c, f[n - 1], xs[n])]

Chain(kind, c, a, xs) ==
  LET upTo[n \in 0 .. Len(xs)] ==
        IF n = 0 THEN a ELSE StepOf(kind, c, upTo[n - 1], xs[n])
  IN  upTo[Len(xs)]

LEMMA RunsExists ==
  ASSUME NEW kind, NEW c, NEW a, NEW xs, NEW N \in Nat
  PROVE  \E f : f = Stepped(f, kind, c, a, xs, N) /\ Runs(f, kind, c, a, xs, N)
<1> DEFINE Has(n) == \E f : f = [k \in 0 .. n |-> f[k]] /\ Runs(f, kind, c, a, xs, n)
           Fails == {n \in Nat : ~Has(n)}
<1>1. ASSUME Fails # {} PROVE FALSE
  <2>1. PICK m \in Fails : \A n \in Fails : m <= n
    <3>1. Fails \in SUBSET Nat
      OBVIOUS
    <3> HIDE DEF Fails
    <3> QED
      BY <1>1, <3>1, LeastExists
  <2>2. m \in Nat /\ ~Has(m)
    BY <2>1
  <2>3. m # 0
    <3> DEFINE f == [n \in 0 .. 0 |-> a]
    <3>1. f = [n \in 0 .. 0 |-> f[n]] /\ f[0] = a
      OBVIOUS
    <3>2. \A n \in 1 .. 0 : FALSE
      OBVIOUS
    <3> HIDE DEF f
    <3>3. Runs(f, kind, c, a, xs, 0)
      BY <3>1, <3>2 DEF Runs
    <3> QED
      BY <2>2, <3>1, <3>3
  <2>4. m - 1 \in Nat /\ ~(m <= m - 1)
    BY <2>2, <2>3
  <2>5. Has(m - 1)
    <3> HIDE DEF Has
    <3> QED
      BY <2>1, <2>4
  <2>6. PICK g : g = [k \in 0 .. m - 1 |-> g[k]] /\ Runs(g, kind, c, a, xs, m - 1)
    BY <2>5
  <2> DEFINE f == [n \in 0 .. m |-> IF n = m THEN StepOf(kind, c, g[m - 1], xs[m]) ELSE g[n]]
  <2>7. f = [n \in 0 .. m |-> f[n]]
    OBVIOUS
  <2>8. f[m] = StepOf(kind, c, g[m - 1], xs[m]) /\ \A n \in 0 .. m - 1 : f[n] = g[n]
    BY <2>2, <2>3
  <2> HIDE DEF f
  <2>9. Runs(f, kind, c, a, xs, m)
    <3>1. f[0] = a
      BY <2>2, <2>3, <2>6, <2>8 DEF Runs
    <3>2. ASSUME NEW n \in 1 .. m PROVE f[n] = StepOf(kind, c, f[n - 1], xs[n])
      <4>1. CASE n = m
        <5>1. f[n - 1] = g[m - 1]
          BY <2>2, <2>3, <2>8, <4>1
        <5> QED
          BY <5>1, <2>8, <4>1
      <4>2. CASE n # m
        <5>1. n \in 1 .. m - 1 /\ f[n] = g[n] /\ f[n - 1] = g[n - 1]
          BY <2>2, <2>8, <4>2
        <5> QED
          BY <5>1, <2>6 DEF Runs
      <4> QED
        BY <4>1, <4>2
    <3> QED
      BY <3>1, <3>2 DEF Runs
  <2> QED
    BY <2>2, <2>7, <2>9
<1> HIDE DEF Has
<1>2. Has(N)
  BY <1>1
<1>3. PICK f : f = [k \in 0 .. N |-> f[k]] /\ Runs(f, kind, c, a, xs, N)
  BY <1>2 DEF Has
<1> DEFINE h == Stepped(f, kind, c, a, xs, N)
<1>4. \A n \in 0 .. N : h[n] = f[n]
  <2> TAKE n \in 0 .. N
  <2>1. CASE n = 0
    BY <2>1, <1>3 DEF Runs, Stepped
  <2>2. CASE n # 0
    <3>1. n \in 1 .. N
      BY <2>2
    <3> QED
      BY <2>2, <3>1, <1>3 DEF Runs, Stepped
  <2> QED
    BY <2>1, <2>2
<1>5. h = [n \in 0 .. N |-> h[n]]
  BY DEF Stepped
<1>6. h = f
  <2> HIDE DEF h
  <2> QED
    BY <1>3, <1>4, <1>5
<1> QED
  BY <1>3, <1>6

LEMMA RunsTheSame ==
  ASSUME NEW kind, NEW c, NEW a, NEW xs, NEW N \in Nat, NEW f, NEW g, NEW ys,
         Runs(f, kind, c, a, xs, N), Runs(g, kind, c, a, ys, N),
         \A n \in 1 .. N : xs[n] = ys[n]
  PROVE  \A n \in 0 .. N : f[n] = g[n]
<1> DEFINE Fails == {n \in 0 .. N : f[n] # g[n]}
<1>1. ASSUME Fails # {} PROVE FALSE
  <2>1. PICK m \in Fails : \A n \in Fails : m <= n
    <3>1. Fails \in SUBSET Nat
      OBVIOUS
    <3> HIDE DEF Fails
    <3> QED
      BY <1>1, <3>1, LeastExists
  <2>2. m # 0
    BY <2>1 DEF Runs
  <2>3. m - 1 \in 0 .. N /\ ~(m <= m - 1) /\ m \in 1 .. N
    BY <2>1, <2>2
  <2>4. f[m - 1] = g[m - 1]
    BY <2>1, <2>3
  <2>5. f[m] = StepOf(kind, c, f[m - 1], xs[m])
    BY <2>3 DEF Runs
  <2>6. g[m] = StepOf(kind, c, g[m - 1], ys[m])
    BY <2>3 DEF Runs
  <2> QED
    BY <2>1, <2>3, <2>4, <2>5, <2>6
<1> QED
  BY <1>1

LEMMA ChainIs ==
  ASSUME NEW kind, NEW c, NEW a, NEW xs, Len(xs) \in Nat, NEW ys, NEW g,
         Runs(g, kind, c, a, ys, Len(xs)), \A n \in 1 .. Len(xs) : xs[n] = ys[n]
  PROVE  Chain(kind, c, a, xs) = g[Len(xs)]
<1> DEFINE upTo == CHOOSE f : f = Stepped(f, kind, c, a, xs, Len(xs))
<1>1. upTo = Stepped(upTo, kind, c, a, xs, Len(xs))
  <2>1. \E f : f = Stepped(f, kind, c, a, xs, Len(xs))
    BY RunsExists
  <2> QED
    BY <2>1, Zenon DEF upTo
<1>2. Chain(kind, c, a, xs) = upTo[Len(xs)]
  BY DEF Chain, upTo, Stepped
<1> HIDE DEF upTo
<1>3. Runs(upTo, kind, c, a, xs, Len(xs))
  <2>1. upTo[0] = a
    BY <1>1 DEF Stepped
  <2>2. \A n \in 1 .. Len(xs) : upTo[n] = StepOf(kind, c, upTo[n - 1], xs[n])
    BY <1>1 DEF Stepped
  <2> QED
    BY <2>1, <2>2 DEF Runs
<1>4. \A n \in 0 .. Len(xs) : upTo[n] = g[n]
  <2> DEFINE N == Len(xs)
  <2>1. /\ N \in Nat /\ Runs(g, kind, c, a, ys, N) /\ Runs(upTo, kind, c, a, xs, N)
        /\ \A n \in 1 .. N : xs[n] = ys[n]
    BY <1>3
  <2> HIDE DEF N
  <2>2. \A n \in 0 .. N : upTo[n] = g[n]
    BY ONLY <2>1, RunsTheSame
  <2> QED
    BY <2>2 DEF N
<1> QED
  BY <1>2, <1>4

LEMMA ChainRuns ==
  ASSUME NEW kind, NEW c, NEW a, NEW S, NEW xs \in Seq(S)
  PROVE  \E f : /\ Runs(f, kind, c, a, xs, Len(xs))
                /\ \A n \in 0 .. Len(xs) : f[n] = Chain(kind, c, a, SubSeq(xs, 1, n))
<1>1. Len(xs) \in Nat
  OBVIOUS
<1>2. PICK f : Runs(f, kind, c, a, xs, Len(xs))
  BY <1>1, RunsExists
<1>3. ASSUME NEW n \in 0 .. Len(xs)
      PROVE  f[n] = Chain(kind, c, a, SubSeq(xs, 1, n))
  <2> DEFINE ys == SubSeq(xs, 1, n)
  <2>1. Len(ys) = n /\ n \in Nat /\ \A i \in 1 .. n : ys[i] = xs[i] /\ i \in 1 .. Len(xs)
    BY <1>1
  <2>2. Runs(f, kind, c, a, xs, n)
    BY <1>2, <2>1 DEF Runs
  <2> HIDE DEF ys
  <2>3. Chain(kind, c, a, ys) = f[Len(ys)]
    BY <2>1, <2>2, ChainIs
  <2> QED
    BY <2>1, <2>3 DEF ys
<1> QED
  BY <1>2, <1>3

(* Two chains of which the second starts where the first ends are one.     *)
LEMMA ChainEmpty ==
  ASSUME NEW kind, NEW c, NEW a PROVE Chain(kind, c, a, <<>>) = a
<1> DEFINE f == [n \in 0 .. 0 |-> a]
<1>1. Len(<<>>) = 0 /\ f[0] = a /\ \A n \in 1 .. 0 : FALSE
  OBVIOUS
<1> HIDE DEF f
<1>2. Runs(f, kind, c, a, <<>>, Len(<<>>))
  BY <1>1 DEF Runs
<1>3. Chain(kind, c, a, <<>>) = f[Len(<<>>)]
  BY <1>1, <1>2, ChainIs
<1> QED
  BY <1>1, <1>3

LEMMA ChainAppend ==
  ASSUME NEW kind, NEW c, NEW a, NEW S, NEW xs \in Seq(S), NEW x \in S
  PROVE  Chain(kind, c, a, Append(xs, x)) = StepOf(kind, c, Chain(kind, c, a, xs), x)
<1> DEFINE ys == Append(xs, x)
           N == Len(xs)
<1>1. /\ ys \in Seq(S) /\ Len(ys) = N + 1 /\ N \in Nat /\ ys[N + 1] = x
      /\ \A n \in 1 .. N : ys[n] = xs[n]
  OBVIOUS
<1> HIDE DEF ys, N
<1>2. PICK f : Runs(f, kind, c, a, ys, N + 1)
  <2>1. N + 1 \in Nat
    BY <1>1
  <2> QED
    BY <2>1, RunsExists, Zenon
<1>3. Chain(kind, c, a, ys) = f[N + 1]
  BY <1>1, <1>2, ChainIs
<1>4. Chain(kind, c, a, xs) = f[N]
  <2>1. Runs(f, kind, c, a, ys, N)
    BY <1>1, <1>2 DEF Runs
  <2> QED
    BY <1>1, <2>1, ChainIs DEF N
<1>5. f[N + 1] = StepOf(kind, c, f[N], ys[N + 1])
  BY <1>1, <1>2 DEF Runs
<1> QED
  BY <1>1, <1>3, <1>4, <1>5 DEF ys

LEMMA UptoNext ==
  ASSUME NEW S, NEW xs \in Seq(S), NEW n \in 1 .. Len(xs)
  PROVE  /\ SubSeq(xs, 1, n) = Append(SubSeq(xs, 1, n - 1), xs[n])
         /\ SubSeq(xs, 1, n - 1) \in Seq(S) /\ xs[n] \in S
  OBVIOUS

LEMMA ChainUpto ==
  ASSUME NEW kind, NEW c, NEW a, NEW S, NEW xs \in Seq(S), NEW n \in 1 .. Len(xs)
  PROVE  Chain(kind, c, a, SubSeq(xs, 1, n)) =
           StepOf(kind, c, Chain(kind, c, a, SubSeq(xs, 1, n - 1)), xs[n])
<1>1. /\ SubSeq(xs, 1, n) = Append(SubSeq(xs, 1, n - 1), xs[n])
      /\ SubSeq(xs, 1, n - 1) \in Seq(S) /\ xs[n] \in S
  BY UptoNext
<1> DEFINE ys == SubSeq(xs, 1, n - 1)
           y == xs[n]
<1>2. Chain(kind, c, a, Append(ys, y)) = StepOf(kind, c, Chain(kind, c, a, ys), y)
  <2> HIDE DEF ys, y
  <2>1. ys \in Seq(S) /\ y \in S
    BY <1>1 DEF ys, y
  <2> QED
    BY ONLY <2>1, ChainAppend
<1> QED
  BY <1>1, <1>2, Zenon

LEMMA ChainConcat ==
  ASSUME NEW kind, NEW c, NEW a, NEW S, NEW xs \in Seq(S), NEW ys \in Seq(S)
  PROVE  Chain(kind, c, a, xs \o ys) = Chain(kind, c, Chain(kind, c, a, xs), ys)
<1> DEFINE b == Chain(kind, c, a, xs)
           Good(n) == Chain(kind, c, a, xs \o SubSeq(ys, 1, n)) = Chain(kind, c, b, SubSeq(ys, 1, n))
           Fails == {n \in 0 .. Len(ys) : ~Good(n)}
<1>1. ASSUME Fails # {} PROVE FALSE
  <2>1. PICK m \in Fails : \A n \in Fails : m <= n
    <3>1. Fails \in SUBSET Nat
      OBVIOUS
    <3> HIDE DEF Fails
    <3> QED
      BY <1>1, <3>1, LeastExists
  <2>2. m \in 0 .. Len(ys) /\ ~Good(m)
    BY <2>1
  <2>3. m # 0
    <3>1. SubSeq(ys, 1, 0) = <<>> /\ xs \o <<>> = xs
      <4>1. SubSeq(ys, 1, 0) = <<>>
        BY ONLY ys \in Seq(S), SMTT(20)
      <4>2. xs \o <<>> = xs
        BY ONLY xs \in Seq(S), SMTT(20)
      <4> QED
        BY ONLY <4>1, <4>2
    <3>2. Chain(kind, c, b, <<>>) = b
      BY ONLY ChainEmpty
    <3>3. Good(0)
      BY <3>1, <3>2, Zenon
    <3> QED
      BY <2>2, <3>3
  <2>4. m - 1 \in 0 .. Len(ys) /\ ~(m <= m - 1) /\ m \in 1 .. Len(ys)
    BY <2>2, <2>3
  <2> DEFINE zs == SubSeq(ys, 1, m - 1)
  <2>5. Good(m - 1)
    <3> HIDE DEF Good
    <3> QED
      BY <2>1, <2>4
  <2>6. SubSeq(ys, 1, m) = Append(zs, ys[m]) /\ zs \in Seq(S) /\ ys[m] \in S
    BY <2>4, UptoNext
  <2> HIDE DEF zs
  <2>7. xs \o Append(zs, ys[m]) = Append(xs \o zs, ys[m]) /\ xs \o zs \in Seq(S)
    BY <2>6
  <2>8. Chain(kind, c, a, xs \o Append(zs, ys[m])) = StepOf(kind, c, Chain(kind, c, a, xs \o zs), ys[m])
    <3> DEFINE ws == xs \o zs
               y == ys[m]
    <3>1. ws \in Seq(S) /\ y \in S
      BY <2>6, <2>7
    <3> HIDE DEF ws, y
    <3>2. Chain(kind, c, a, Append(ws, y)) = StepOf(kind, c, Chain(kind, c, a, ws), y)
      BY ONLY <3>1, ChainAppend
    <3> QED
      BY <2>7, <3>2, Zenon DEF ws, y
  <2>9. Chain(kind, c, b, Append(zs, ys[m])) = StepOf(kind, c, Chain(kind, c, b, zs), ys[m])
    BY <2>6, ChainAppend
  <2>10. Chain(kind, c, a, xs \o zs) = Chain(kind, c, b, zs)
    BY <2>5 DEF zs
  <2> HIDE DEF b
  <2> QED
    BY <2>2, <2>6, <2>8, <2>9, <2>10
<1>2. Good(Len(ys)) /\ SubSeq(ys, 1, Len(ys)) = ys
  <2>1. Len(ys) \in 0 .. Len(ys) /\ SubSeq(ys, 1, Len(ys)) = ys
    OBVIOUS
  <2> HIDE DEF Good
  <2> QED
    BY <1>1, <2>1
<1> QED
  BY <1>2

LEMMA ChainOne ==
  ASSUME NEW kind, NEW c, NEW a, NEW x
  PROVE  Chain(kind, c, a, <<x>>) = StepOf(kind, c, a, x)
<1> DEFINE S == {x}
           ys == <<>>
<1>1. <<x>> = Append(<<>>, x) /\ ys \in Seq(S) /\ x \in S
  OBVIOUS
<1> HIDE DEF S, ys
<1>2. Chain(kind, c, a, Append(ys, x)) = StepOf(kind, c, Chain(kind, c, a, ys), x)
  BY ONLY <1>1, ChainAppend
<1>3. Chain(kind, c, a, ys) = a
  BY ChainEmpty DEF ys
<1> QED
  BY <1>1, <1>2, <1>3, Zenon DEF ys

LEMMA ChainCons ==
  ASSUME NEW kind, NEW c, NEW a, NEW S, NEW x \in S, NEW ys \in Seq(S)
  PROVE  Chain(kind, c, a, <<x>> \o ys) = Chain(kind, c, StepOf(kind, c, a, x), ys)
<1> DEFINE xs == <<x>>
<1>1. xs \in Seq(S)
  OBVIOUS
<1> HIDE DEF xs
<1>2. Chain(kind, c, a, xs \o ys) = Chain(kind, c, Chain(kind, c, a, xs), ys)
  BY <1>1, ChainConcat
<1>3. Chain(kind, c, a, xs) = StepOf(kind, c, a, x)
  BY ChainOne DEF xs
<1> QED
  BY <1>2, <1>3 DEF xs

LEMMA ChainChosen ==
  ASSUME NEW kind, NEW c, NEW a, NEW xs, Len(xs) \in Nat, NEW f,
         f = Stepped(f, kind, c, a, xs, Len(xs))
  PROVE  Chain(kind, c, a, xs) = f[Len(xs)]
<1>1. f[0] = a
  BY DEF Stepped
<1>2. \A n \in 1 .. Len(xs) : f[n] = StepOf(kind, c, f[n - 1], xs[n])
  BY DEF Stepped
<1>3. Runs(f, kind, c, a, xs, Len(xs))
  BY <1>1, <1>2 DEF Runs
<1> QED
  BY <1>3, ChainIs

(* What is shown of a channel, as an operator of what was sent; and the *)
(* words of a channel that are queued.                                     *)
ShownIn(c, sent) ==
  LET text[n \in 0 .. Len(sent)] ==
        IF n = 0 THEN <<>>
        ELSE IF sent[n].channel = c THEN text[n - 1] \o sent[n].text ELSE text[n - 1]
  IN  text[Len(sent)]
QueuedIn(c, events) == Chain("queue", c, <<>>, events)

LEMMA AfterIsChain ==
  ASSUME NEW g, NEW S, NEW tokens \in Seq(S)
  PROVE  After(g, tokens) = Chain("turn", "any", g, tokens)
<1> DEFINE Step(f) == [n \in 0 .. Len(tokens) |->
                         IF n = 0 THEN g ELSE Advanced(f[n - 1], tokens[n])]
           done == CHOOSE f : f = Step(f)
           Same(f) == Stepped(f, "turn", "any", g, tokens, Len(tokens))
<1>1. \A f : Step(f) = Same(f)
  BY DEF Stepped, StepOf
<1>2. done = Step(done)
  <2>1. \E f : f = Same(f)
    <3>1. Len(tokens) \in Nat
      OBVIOUS
    <3> QED
      BY <3>1, RunsExists
  <2>2. \E f : f = Step(f)
    <3> HIDE DEF Same, Step
    <3> QED
      BY <2>1, <1>1
  <2> HIDE DEF Step
  <2> QED
    BY <2>2, Zenon DEF done
<1>3. After(g, tokens) = done[Len(tokens)]
  BY DEF After
<1> HIDE DEF done
<1>4. done = Same(done)
  BY <1>1, <1>2
<1>5. Len(tokens) \in Nat
  OBVIOUS
<1>6. Chain("turn", "any", g, tokens) = done[Len(tokens)]
  BY <1>4, <1>5, ChainChosen
<1> QED
  BY <1>3, <1>6

LEMMA BytesIsChain ==
  ASSUME NEW S, NEW ids \in Seq(S)
  PROVE  BytesOf(ids) = Chain("bytes", "any", <<>>, ids)
<1> DEFINE Step(f) == [n \in 0 .. Len(ids) |->
                         IF n = 0 THEN <<>> ELSE f[n - 1] \o Bytes[ids[n]]]
           done == CHOOSE f : f = Step(f)
           Same(f) == Stepped(f, "bytes", "any", <<>>, ids, Len(ids))
<1>1. \A f : Step(f) = Same(f)
  BY DEF Stepped, StepOf
<1>2. done = Step(done)
  <2>1. \E f : f = Same(f)
    <3>1. Len(ids) \in Nat
      OBVIOUS
    <3> QED
      BY <3>1, RunsExists
  <2>2. \E f : f = Step(f)
    <3> HIDE DEF Same, Step
    <3> QED
      BY <2>1, <1>1
  <2> HIDE DEF Step
  <2> QED
    BY <2>2, Zenon DEF done
<1>3. BytesOf(ids) = done[Len(ids)]
  BY DEF BytesOf
<1> HIDE DEF done
<1>4. done = Same(done)
  BY <1>1, <1>2
<1>5. Len(ids) \in Nat
  OBVIOUS
<1>6. Chain("bytes", "any", <<>>, ids) = done[Len(ids)]
  BY <1>4, <1>5, ChainChosen
<1> QED
  BY <1>3, <1>6

LEMMA ShownIsChain ==
  ASSUME NEW c, NEW S, NEW sent \in Seq(S)
  PROVE  ShownIn(c, sent) = Chain("show", c, <<>>, sent)
<1> DEFINE Step(f) == [n \in 0 .. Len(sent) |->
                         IF n = 0 THEN <<>> ELSE IF sent[n].channel = c THEN f[n - 1] \o sent[n].text ELSE f[n - 1]]
           done == CHOOSE f : f = Step(f)
           Same(f) == Stepped(f, "show", c, <<>>, sent, Len(sent))
<1>1. \A f : Step(f) = Same(f)
  BY DEF Stepped, StepOf
<1>2. done = Step(done)
  <2>1. \E f : f = Same(f)
    <3>1. Len(sent) \in Nat
      OBVIOUS
    <3> QED
      BY <3>1, RunsExists
  <2>2. \E f : f = Step(f)
    <3> HIDE DEF Same, Step
    <3> QED
      BY <2>1, <1>1
  <2> HIDE DEF Step
  <2> QED
    BY <2>2, Zenon DEF done
<1>3. ShownIn(c, sent) = done[Len(sent)]
  BY DEF ShownIn
<1> HIDE DEF done
<1>4. done = Same(done)
  BY <1>1, <1>2
<1>5. Len(sent) \in Nat
  OBVIOUS
<1>6. Chain("show", c, <<>>, sent) = done[Len(sent)]
  BY <1>4, <1>5, ChainChosen
<1> QED
  BY <1>3, <1>6

(* Induction, for a property given by the set of numbers that have it.     *)
LEMMA UpTo ==
  ASSUME NEW N \in Nat, NEW Good, 0 \in Good, \A n \in 1 .. N : n - 1 \in Good => n \in Good
  PROVE  N \in Good /\ \A n \in 0 .. N : n \in Good
<1> DEFINE Fails == {n \in 0 .. N : n \notin Good}
<1>1. ASSUME Fails # {} PROVE FALSE
  <2>1. PICK m \in Fails : \A n \in Fails : m <= n
    <3>1. Fails \in SUBSET Nat
      OBVIOUS
    <3> HIDE DEF Fails
    <3> QED
      BY <1>1, <3>1, LeastExists
  <2>2. m # 0
    BY <2>1
  <2>3. m - 1 \in 0 .. N /\ ~(m <= m - 1) /\ m \in 1 .. N
    BY <2>1, <2>2
  <2> QED
    BY <2>1, <2>3
<1>2. N \in 0 .. N
  OBVIOUS
<1> QED
  BY <1>1, <1>2

(* The grammar after some tokens.                                          *)
LEMMA AfterEmpty == ASSUME NEW g PROVE After(g, <<>>) = g
<1>1. <<>> \in Seq({})
  OBVIOUS
<1>2. After(g, <<>>) = Chain("turn", "any", g, <<>>)
  BY <1>1, AfterIsChain
<1> QED
  BY <1>2, ChainEmpty

LEMMA AfterAppend ==
  ASSUME NEW g, NEW S, NEW ts \in Seq(S), NEW t \in S
  PROVE  After(g, Append(ts, t)) = Advanced(After(g, ts), t)
<1> DEFINE us == Append(ts, t)
<1>1. us \in Seq(S)
  OBVIOUS
<1>2. Chain("turn", "any", g, Append(ts, t)) = StepOf("turn", "any", Chain("turn", "any", g, ts), t)
  BY ChainAppend
<1> HIDE DEF us
<1>3. After(g, us) = Chain("turn", "any", g, us) /\ After(g, ts) = Chain("turn", "any", g, ts)
  BY <1>1, AfterIsChain
<1>4. StepOf("turn", "any", After(g, ts), t) = Advanced(After(g, ts), t)
  BY DEF StepOf
<1> QED
  BY <1>2, <1>3, <1>4, Zenon DEF us

LEMMA AfterUpto ==
  ASSUME NEW g, NEW S, NEW ts \in Seq(S), NEW n \in 1 .. Len(ts)
  PROVE  After(g, Upto(ts, n)) = Advanced(After(g, Upto(ts, n - 1)), ts[n])
<1> DEFINE us == SubSeq(ts, 1, n - 1)
           u == ts[n]
<1>1. SubSeq(ts, 1, n) = Append(us, u) /\ us \in Seq(S) /\ u \in S
  BY UptoNext
<1> HIDE DEF us, u
<1>2. After(g, Append(us, u)) = Advanced(After(g, us), u)
  BY ONLY <1>1, AfterAppend
<1> QED
  BY <1>1, <1>2, Zenon DEF us, u, Upto

LEMMA AfterCons ==
  ASSUME NEW g, NEW S, NEW t \in S, NEW ts \in Seq(S)
  PROVE  After(g, <<t>> \o ts) = After(Advanced(g, t), ts)
<1> DEFINE us == <<t>> \o ts
<1>1. us \in Seq(S)
  OBVIOUS
<1>2. Chain("turn", "any", g, <<t>> \o ts) = Chain("turn", "any", StepOf("turn", "any", g, t), ts)
  BY ChainCons
<1>3. StepOf("turn", "any", g, t) = Advanced(g, t)
  BY DEF StepOf
<1> HIDE DEF us
<1>4. After(g, us) = Chain("turn", "any", g, us)
  BY <1>1, AfterIsChain
<1>5. After(Advanced(g, t), ts) = Chain("turn", "any", Advanced(g, t), ts)
  BY AfterIsChain
<1> QED
  BY <1>2, <1>3, <1>4, <1>5, Zenon DEF us

(* What is shown, and what is queued, of a channel.                        *)
LEMMA ShownAppend ==
  ASSUME NEW c, NEW S, NEW sent \in Seq(S), NEW e \in S
  PROVE  ShownIn(c, Append(sent, e)) =
           IF e.channel = c THEN ShownIn(c, sent) \o e.text ELSE ShownIn(c, sent)
<1> DEFINE es == Append(sent, e)
<1>1. es \in Seq(S)
  OBVIOUS
<1>2. Chain("show", c, <<>>, Append(sent, e)) = StepOf("show", c, Chain("show", c, <<>>, sent), e)
  BY ChainAppend
<1> HIDE DEF es
<1>3. ShownIn(c, es) = Chain("show", c, <<>>, es) /\ ShownIn(c, sent) = Chain("show", c, <<>>, sent)
  BY <1>1, ShownIsChain
<1>4. \A a : StepOf("show", c, a, e) = IF e.channel = c THEN a \o e.text ELSE a
  BY DEF StepOf
<1> QED
  BY <1>2, <1>3, <1>4, Zenon DEF es

LEMMA ShownEmpty == ASSUME NEW c PROVE ShownIn(c, <<>>) = <<>>
<1>1. <<>> \in Seq({})
  OBVIOUS
<1>2. ShownIn(c, <<>>) = Chain("show", c, <<>>, <<>>)
  BY <1>1, ShownIsChain
<1> QED
  BY <1>2, ChainEmpty

LEMMA QueuedAppend ==
  ASSUME NEW c, NEW S, NEW events \in Seq(S), NEW e \in S
  PROVE  QueuedIn(c, Append(events, e)) =
           IF e.channel = c THEN Append(QueuedIn(c, events), e.id) ELSE QueuedIn(c, events)
<1>1. Chain("queue", c, <<>>, Append(events, e)) = StepOf("queue", c, Chain("queue", c, <<>>, events), e)
  BY ChainAppend
<1>2. \A a : StepOf("queue", c, a, e) = IF e.channel = c THEN Append(a, e.id) ELSE a
  BY DEF StepOf
<1> QED
  BY <1>1, <1>2, Zenon DEF QueuedIn

LEMMA BytesAppend ==
  ASSUME NEW S, NEW ids \in Seq(S), NEW id \in S
  PROVE  BytesOf(Append(ids, id)) = BytesOf(ids) \o Bytes[id]
<1> DEFINE us == Append(ids, id)
<1>1. us \in Seq(S)
  OBVIOUS
<1>2. Chain("bytes", "any", <<>>, Append(ids, id)) = StepOf("bytes", "any", Chain("bytes", "any", <<>>, ids), id)
  BY ChainAppend
<1> HIDE DEF us
<1>3. BytesOf(us) = Chain("bytes", "any", <<>>, us) /\ BytesOf(ids) = Chain("bytes", "any", <<>>, ids)
  BY <1>1, BytesIsChain
<1>4. \A a : StepOf("bytes", "any", a, id) = a \o Bytes[id]
  BY DEF StepOf
<1> QED
  BY <1>2, <1>3, <1>4, Zenon DEF us

LEMMA BytesEmpty == BytesOf(<<>>) = <<>>
<1>1. <<>> \in Seq({})
  OBVIOUS
<1>2. BytesOf(<<>>) = Chain("bytes", "any", <<>>, <<>>)
  BY <1>1, BytesIsChain
<1> QED
  BY <1>2, ChainEmpty

Events == [id : Words, channel : Channels]
ByteKinds == {"whole", "head", "tail"}

LEMMA QueuedFrom ==
  ASSUME NEW c, NEW ids \in Seq(Words), NEW events \in Seq(Events)
  PROVE  /\ QueuedIn(c, events) \in Seq(Words)
         /\ Chain("queue", c, ids, events) = ids \o QueuedIn(c, events)
<1> DEFINE On(a, n) == Chain("queue", c, a, SubSeq(events, 1, n))
           Fits(n) == On(<<>>, n) \in Seq(Words) /\ On(ids, n) = ids \o On(<<>>, n)
           Good == {n \in 0 .. Len(events) : Fits(n)}
<1>1. 0 \in Good
  <2>1. SubSeq(events, 1, 0) = <<>> /\ ids \o <<>> = ids /\ <<>> \in Seq(Words)
    OBVIOUS
  <2>2. On(<<>>, 0) = <<>> /\ On(ids, 0) = ids
    BY <2>1, ChainEmpty
  <2> HIDE DEF On
  <2>3. 0 \in 0 .. Len(events)
    OBVIOUS
  <2> QED
    BY <2>1, <2>2, <2>3
<1>2. ASSUME NEW n \in 1 .. Len(events), n - 1 \in Good PROVE n \in Good
  <2>1. Fits(n - 1) /\ n \in 0 .. Len(events)
    BY <1>2
  <2> DEFINE e == events[n]
             p == On(<<>>, n - 1)
  <2>2. e \in Events /\ p \in Seq(Words)
    BY <2>1
  <2>3. \A a : On(a, n) = IF e.channel = c THEN Append(On(a, n - 1), e.id) ELSE On(a, n - 1)
    <3>1. \A a : On(a, n) = StepOf("queue", c, On(a, n - 1), e)
      BY ChainUpto
    <3> QED
      BY <3>1 DEF StepOf
  <2>4. e.id \in Words
    BY <2>2 DEF Events
  <2>5. On(ids, n - 1) = ids \o p
    BY <2>1
  <2> HIDE DEF On, e, p
  <2>6. On(<<>>, n) \in Seq(Words) /\ On(ids, n) = ids \o On(<<>>, n)
    <3>1. CASE e.channel = c
      <4>1. On(<<>>, n) = Append(p, e.id) /\ On(ids, n) = Append(ids \o p, e.id)
        <5>1. \A a : On(a, n) = Append(On(a, n - 1), e.id)
          BY <2>3, <3>1
        <5>2. On(<<>>, n) = Append(On(<<>>, n - 1), e.id) /\ On(ids, n) = Append(On(ids, n - 1), e.id)
          BY <5>1
        <5>3. p = On(<<>>, n - 1)
          BY DEF p
        <5> QED
          BY <5>2, <5>3, <2>5
      <4>2. Append(ids \o p, e.id) = ids \o Append(p, e.id) /\ Append(p, e.id) \in Seq(Words)
        <5> DEFINE i == e.id
        <5>1. i \in Words
          BY <2>4
        <5> HIDE DEF i
        <5>2. Append(ids \o p, i) = ids \o Append(p, i) /\ Append(p, i) \in Seq(Words)
          BY ONLY ids \in Seq(Words), <2>2, <5>1, SMTT(20)
        <5> QED
          BY <5>2 DEF i
      <4> QED
        BY <4>1, <4>2
    <3>2. CASE e.channel # c
      BY <2>2, <2>3, <2>5, <3>2 DEF p
    <3> QED
      BY <3>1, <3>2
  <2> QED
    BY <2>1, <2>6
<1>3. Len(events) \in Nat /\ SubSeq(events, 1, Len(events)) = events
  OBVIOUS
<1>4. Len(events) \in Good
  <2> HIDE DEF Good
  <2> QED
    BY <1>1, <1>2, <1>3, UpTo, Zenon
<1> QED
  BY <1>3, <1>4 DEF QueuedIn

LEMMA QueuedCons ==
  ASSUME NEW c, NEW e \in Events, NEW events \in Seq(Events)
  PROVE  QueuedIn(c, <<e>> \o events) =
           (IF e.channel = c THEN <<e.id>> ELSE <<>>) \o QueuedIn(c, events)
<1> DEFINE ids == IF e.channel = c THEN <<e.id>> ELSE <<>>
<1>1. ids \in Seq(Words)
  BY DEF Events
<1>2. StepOf("queue", c, <<>>, e) = ids
  BY DEF StepOf
<1>3. QueuedIn(c, <<e>> \o events) = Chain("queue", c, StepOf("queue", c, <<>>, e), events)
  BY ChainCons DEF QueuedIn
<1> HIDE DEF ids
<1>4. Chain("queue", c, ids, events) = ids \o QueuedIn(c, events)
  BY <1>1, QueuedFrom
<1> QED
  BY <1>2, <1>3, <1>4 DEF ids

LEMMA BytesOne == ASSUME NEW id \in Words PROVE Bytes[id] \in Seq(ByteKinds)
  BY TokenAssumption DEF ByteKinds

LEMMA BytesConcat ==
  ASSUME NEW ids \in Seq(Words), NEW more \in Seq(Words)
  PROVE  /\ BytesOf(ids) \in Seq(ByteKinds)
         /\ BytesOf(ids \o more) = BytesOf(ids) \o BytesOf(more)
<1> DEFINE Good(xs) == {n \in 0 .. Len(xs) : BytesOf(SubSeq(xs, 1, n)) \in Seq(ByteKinds)}
<1>1. ASSUME NEW xs \in Seq(Words) PROVE BytesOf(xs) \in Seq(ByteKinds)
  <2>1. 0 \in Good(xs)
    <3>1. SubSeq(xs, 1, 0) = <<>> /\ <<>> \in Seq(ByteKinds) /\ 0 \in 0 .. Len(xs)
      OBVIOUS
    <3> QED
      BY <3>1, BytesEmpty
  <2>2. ASSUME NEW n \in 1 .. Len(xs), n - 1 \in Good(xs) PROVE n \in Good(xs)
    <3> DEFINE ys == SubSeq(xs, 1, n - 1)
               y == xs[n]
    <3>1. SubSeq(xs, 1, n) = Append(ys, y) /\ ys \in Seq(Words) /\ y \in Words
      BY UptoNext
    <3>2. BytesOf(ys) \in Seq(ByteKinds) /\ n \in 0 .. Len(xs)
      BY <2>2
    <3> HIDE DEF ys, y
    <3>3. BytesOf(Append(ys, y)) = BytesOf(ys) \o Bytes[y]
      BY <3>1, BytesAppend
    <3>4. Bytes[y] \in Seq(ByteKinds)
      BY <3>1, BytesOne
    <3>5. BytesOf(ys) \o Bytes[y] \in Seq(ByteKinds)
      BY <3>2, <3>4
    <3> QED
      BY <3>1, <3>2, <3>3, <3>5
  <2>3. Len(xs) \in Nat /\ SubSeq(xs, 1, Len(xs)) = xs
    OBVIOUS
  <2>4. Len(xs) \in Good(xs)
    <3> HIDE DEF Good
    <3> QED
      BY <2>1, <2>2, <2>3, UpTo, Zenon
  <2> QED
    BY <2>3, <2>4
<1> DEFINE On(n) == BytesOf(ids \o SubSeq(more, 1, n)) = BytesOf(ids) \o BytesOf(SubSeq(more, 1, n))
           All == {n \in 0 .. Len(more) : On(n)}
<1>2. 0 \in All
  <2>1. SubSeq(more, 1, 0) = <<>> /\ ids \o <<>> = ids /\ 0 \in 0 .. Len(more)
    OBVIOUS
  <2>2. BytesOf(ids) \o <<>> = BytesOf(ids)
    BY <1>1
  <2> QED
    BY <2>1, <2>2, BytesEmpty
<1>3. ASSUME NEW n \in 1 .. Len(more), n - 1 \in All PROVE n \in All
  <2> DEFINE ys == SubSeq(more, 1, n - 1)
             y == more[n]
             b == BytesOf(ids)
             d == BytesOf(ys)
             z == Bytes[y]
  <2>1. SubSeq(more, 1, n) = Append(ys, y) /\ ys \in Seq(Words) /\ y \in Words
    BY UptoNext
  <2>2. BytesOf(ids \o ys) = b \o d /\ n \in 0 .. Len(more)
    BY <1>3
  <2>3. BytesOf(Append(ys, y)) = d \o z
    <3> HIDE DEF ys, y
    <3> QED
      BY <2>1, BytesAppend
  <2>4. BytesOf(ids \o Append(ys, y)) = BytesOf(ids \o ys) \o z
    <3> DEFINE ws == ids \o ys
    <3> HIDE DEF ys, y
    <3>1. ws \in Seq(Words) /\ ids \o Append(ys, y) = Append(ws, y)
      BY <2>1
    <3> HIDE DEF ws
    <3>2. BytesOf(Append(ws, y)) = BytesOf(ws) \o z
      BY <2>1, <3>1, BytesAppend
    <3> QED
      BY <3>1, <3>2 DEF ws
  <2>5. b \in Seq(ByteKinds) /\ d \in Seq(ByteKinds) /\ z \in Seq(ByteKinds)
    <3> HIDE DEF ys, y
    <3> QED
      BY <1>1, <2>1, BytesOne
  <2> HIDE DEF b, d, z
  <2>6. (b \o d) \o z = b \o (d \o z)
    BY ONLY <2>5
  <2> HIDE DEF ys, y
  <2>7. BytesOf(ids \o Append(ys, y)) = b \o BytesOf(Append(ys, y))
    BY ONLY <2>2, <2>3, <2>4, <2>6
  <2> QED
    BY <2>1, <2>2, <2>7 DEF b
<1>4. Len(more) \in Nat /\ SubSeq(more, 1, Len(more)) = more
  OBVIOUS
<1>5. Len(more) \in All
  <2> HIDE DEF All
  <2> QED
    BY <1>2, <1>3, <1>4, UpTo, Zenon
<1> QED
  BY <1>1, <1>4, <1>5

(* A decoder neither loses bytes nor turns them round, and lets go what    *)
(* ends with a whole character.                                            *)
Clean == {bytes \in Seq(ByteKinds) : Len(bytes) \in Readable(bytes)}

LEMMA DecodesSplits ==
  ASSUME NEW mid \in Seq(ByteKinds), NEW bytes \in Seq(ByteKinds)
  PROVE  LET d == Decodes(mid, bytes)
         IN  /\ d.text \in Clean /\ d.held \in Seq(ByteKinds)
             /\ d.text \o d.held = mid \o bytes
<1> DEFINE all == mid \o bytes
           m == CHOOSE n \in Readable(all) : \A k \in Readable(all) : k <= n
           text == SubSeq(all, 1, m)
           left == SubSeq(all, m + 1, Len(all))
<1>1. Decodes(mid, bytes) = [text |-> text, held |-> left]
  BY Zenon DEF Decodes
<1>2. all \in Seq(ByteKinds) /\ Len(all) \in Nat
  OBVIOUS
<1> HIDE DEF all
<1>3. m \in Readable(all)
  <2>1. Readable(all) \in SUBSET (0 .. Len(all)) /\ Readable(all) # {}
    BY <1>2 DEF Readable
  <2>2. \E n \in Readable(all) : \A k \in Readable(all) : k <= n
    <3> DEFINE S == Readable(all)
    <3> HIDE DEF S
    <3> QED
      BY <1>2, <2>1, GreatestExists DEF S
  <2> QED
    BY <2>2
<1> HIDE DEF m
<1>4. m \in 0 .. Len(all) /\ (m # 0 => EndsCharacter(all, m))
  BY <1>2, <1>3 DEF Readable
<1>5. /\ text \in Seq(ByteKinds) /\ left \in Seq(ByteKinds) /\ Len(text) = m
      /\ \A i \in 1 .. m : text[i] = all[i]
  BY <1>2, <1>4
<1>6. text \o left = all
  <2> DEFINE both == text \o left
  <2>1. Len(left) = Len(all) - m /\ \A i \in 1 .. Len(left) : left[i] = all[m + i]
    BY <1>2, <1>4
  <2> HIDE DEF text, left
  <2>2. /\ both \in Seq(ByteKinds) /\ Len(both) = Len(all)
        /\ \A i \in 1 .. Len(both) : both[i] = IF i <= m THEN text[i] ELSE left[i - m]
    <3>1. /\ both \in Seq(ByteKinds) /\ Len(both) = Len(text) + Len(left)
          /\ \A i \in 1 .. Len(text) + Len(left) :
               both[i] = IF i <= Len(text) THEN text[i] ELSE left[i - Len(text)]
      BY <1>5, ConcatProperties
    <3> HIDE DEF both
    <3>2. Len(text) + Len(left) = Len(all)
      BY <1>2, <1>4, <1>5, <2>1
    <3> QED
      BY <1>5, <3>1, <3>2
  <2>3. ASSUME NEW i \in 1 .. Len(both) PROVE both[i] = all[i]
    <3>1. CASE i <= m
      <4>1. i \in 1 .. m
        BY <1>2, <1>4, <2>2, <3>1
      <4> QED
        BY <1>5, <2>2, <3>1, <4>1
    <3>2. CASE ~(i <= m)
      <4>1. i - m \in 1 .. Len(left) /\ m + (i - m) = i
        BY <1>2, <1>4, <2>1, <2>2, <3>2
      <4> QED
        BY <2>1, <2>2, <3>2, <4>1
    <3> QED
      BY <3>1, <3>2
  <2> HIDE DEF both
  <2>4. both = all
    BY <1>2, <2>2, <2>3, SeqEqual
  <2> QED
    BY <2>4 DEF both
<1> HIDE DEF text, left
<1>7. Len(text) \in Readable(text)
  <2>1. CASE m = 0
    BY <1>5, <2>1 DEF Readable
  <2>2. CASE m # 0
    <3>1. m \in 1 .. m /\ (m > 1 => m - 1 \in 1 .. m)
      BY <1>2, <1>4, <2>2
    <3>2. EndsCharacter(text, m)
      BY <1>4, <1>5, <2>2, <3>1 DEF EndsCharacter
    <3> QED
      BY <1>5, <3>1, <3>2 DEF Readable
  <2> QED
    BY <2>1, <2>2
<1> DEFINE d == Decodes(mid, bytes)
<1>8. d.text = text /\ d.held = left
  BY <1>1
<1> HIDE DEF d
<1> QED
  BY <1>5, <1>6, <1>7, <1>8 DEF Clean, all, d

LEMMA CleanConcat == ASSUME NEW x \in Clean, NEW y \in Clean PROVE x \o y \in Clean
<1> DEFINE z == x \o y
<1>1. /\ x \in Seq(ByteKinds) /\ y \in Seq(ByteKinds) /\ z \in Seq(ByteKinds)
      /\ Len(x) \in Nat /\ Len(y) \in Nat /\ Len(z) = Len(x) + Len(y)
  BY DEF Clean
<1>2. CASE Len(y) = 0
  <2>1. z = x
    BY <1>1, <1>2
  <2> QED
    BY <2>1
<1>3. CASE Len(y) # 0
  <2>1. EndsCharacter(y, Len(y))
    BY <1>1, <1>3 DEF Clean, Readable
  <2>2. \A i \in 1 .. Len(y) : z[Len(x) + i] = y[i]
    BY <1>1
  <2>3. z[Len(z)] = y[Len(y)] /\ (Len(y) > 1 => z[Len(z) - 1] = y[Len(y) - 1])
    <3>1. Len(y) \in 1 .. Len(y) /\ (Len(y) > 1 => Len(y) - 1 \in 1 .. Len(y))
      BY <1>1, <1>3
    <3>2. Len(x) + (Len(y) - 1) = Len(z) - 1
      BY <1>1
    <3> HIDE DEF z
    <3> QED
      BY <1>1, <2>2, <3>1, <3>2
  <2> HIDE DEF z
  <2>4. EndsCharacter(z, Len(z)) /\ Len(z) \in 1 .. Len(z)
    BY <1>1, <1>3, <2>1, <2>3 DEF EndsCharacter
  <2>5. Len(z) \in Readable(z)
    BY <2>4 DEF Readable
  <2> QED
    BY <1>1, <2>5 DEF Clean, z
<1> QED
  BY <1>2, <1>3

LEMMA CleanEmpty == <<>> \in Clean /\ Clean \subseteq Seq(ByteKinds)
  BY DEF Clean, Readable

(* What the thread that shows has of a channel: the words it took are      *)
(* those of the turn that are not queued, and what was sent of it, what is *)
(* to be sent next and what its decoder holds are their bytes.             *)
Showers ==
  [at : {"loop", "ask", "gone"}, channel : Channels, text : Clean, held : [Channels -> Seq(ByteKinds)]]
Emissions == [channel : Channels, text : Seq(ByteKinds)]
CleanEmissions == [channel : Channels, text : Clean]
PendingIn(c, s) == IF s.channel = c THEN s.text ELSE <<>>
EmittedIn(s, sent) ==
  IF s.text = <<>> THEN sent ELSE Append(sent, [channel |-> s.channel, text |-> s.text])
TakenOf(c, took, sent, s) ==
  (ShownIn(c, sent) \o PendingIn(c, s)) \o s.held[c] = BytesOf(took)
Stands(c, prose, events, sent, s) ==
  \E took \in Seq(Words) : prose = took \o QueuedIn(c, events) /\ TakenOf(c, took, sent, s)

LEMMA CleanIsTyped == Seq(CleanEmissions) \subseteq Seq(Emissions)
<1>1. CleanEmissions \subseteq Emissions
  BY CleanEmpty DEF CleanEmissions, Emissions
<1> QED
  BY <1>1

LEMMA ShownTyped ==
  ASSUME NEW c, NEW sent \in Seq(Emissions) PROVE ShownIn(c, sent) \in Seq(ByteKinds)
<1> DEFINE Good == {n \in 0 .. Len(sent) : ShownIn(c, SubSeq(sent, 1, n)) \in Seq(ByteKinds)}
<1>1. 0 \in Good
  <2>1. SubSeq(sent, 1, 0) = <<>> /\ <<>> \in Seq(ByteKinds) /\ 0 \in 0 .. Len(sent)
    OBVIOUS
  <2> QED
    BY <2>1, ShownEmpty
<1>2. ASSUME NEW n \in 1 .. Len(sent), n - 1 \in Good PROVE n \in Good
  <2> DEFINE es == SubSeq(sent, 1, n - 1)
             e == sent[n]
             t == ShownIn(c, es)
  <2>1. SubSeq(sent, 1, n) = Append(es, e) /\ es \in Seq(Emissions) /\ e \in Emissions
    BY UptoNext
  <2>2. t \in Seq(ByteKinds) /\ n \in 0 .. Len(sent)
    BY <1>2
  <2> HIDE DEF es, e
  <2>3. ShownIn(c, Append(es, e)) = IF e.channel = c THEN t \o e.text ELSE t
    BY <2>1, ShownAppend
  <2> HIDE DEF t
  <2>4. e.text \in Seq(ByteKinds)
    BY <2>1 DEF Emissions
  <2>5. t \o e.text \in Seq(ByteKinds)
    <3> DEFINE u == e.text
    <3> HIDE DEF u
    <3>1. t \o u \in Seq(ByteKinds)
      BY <2>2, <2>4 DEF u
    <3> QED
      BY <3>1 DEF u
  <2> QED
    BY <2>1, <2>2, <2>3, <2>5
<1>3. Len(sent) \in Nat /\ SubSeq(sent, 1, Len(sent)) = sent
  OBVIOUS
<1>4. Len(sent) \in Good
  <2> HIDE DEF Good
  <2> QED
    BY <1>1, <1>2, <1>3, UpTo, Zenon
<1> QED
  BY <1>3, <1>4

LEMMA ShowerTyped ==
  ASSUME NEW s \in Showers
  PROVE  /\ s.channel \in Channels /\ s.text \in Clean /\ s.text \in Seq(ByteKinds)
         /\ s.held \in [Channels -> Seq(ByteKinds)]
         /\ \A c : PendingIn(c, s) \in Seq(ByteKinds)
<1>1. s.channel \in Channels /\ s.text \in Clean /\ s.held \in [Channels -> Seq(ByteKinds)]
  BY DEF Showers
<1>2. s.text \in Seq(ByteKinds) /\ <<>> \in Seq(ByteKinds)
  BY <1>1, CleanEmpty
<1> QED
  BY <1>1, <1>2 DEF PendingIn

LEMMA EmitShows ==
  ASSUME NEW c, NEW sent \in Seq(Emissions), NEW s \in Showers
  PROVE  /\ EmittedIn(s, sent) \in Seq(Emissions)
         /\ ShownIn(c, EmittedIn(s, sent)) = ShownIn(c, sent) \o PendingIn(c, s)
<1> DEFINE t == ShownIn(c, sent)
           e == [channel |-> s.channel, text |-> s.text]
<1>1. t \in Seq(ByteKinds)
  BY ShownTyped
<1>2. s.text \in Seq(ByteKinds) /\ e \in Emissions
  BY ShowerTyped DEF Emissions
<1>3. e.channel = s.channel /\ e.text = s.text
  OBVIOUS
<1>4. t \o <<>> = t
  <2> HIDE DEF t
  <2> QED
    BY <1>1
<1>5. CASE s.text = <<>>
  BY <1>4, <1>5 DEF EmittedIn, PendingIn
<1>6. CASE s.text # <<>>
  <2>1. EmittedIn(s, sent) = Append(sent, e)
    BY <1>6 DEF EmittedIn
  <2> HIDE DEF e
  <2>2. ShownIn(c, Append(sent, e)) = IF e.channel = c THEN t \o e.text ELSE t
    BY <1>2, ShownAppend
  <2>3. Append(sent, e) \in Seq(Emissions)
    BY <1>2
  <2> HIDE DEF t
  <2>4. (IF e.channel = c THEN t \o e.text ELSE t) = t \o PendingIn(c, s)
    BY <1>3, <1>4 DEF PendingIn
  <2> QED
    BY <2>1, <2>2, <2>3, <2>4 DEF t
<1> QED
  BY <1>5, <1>6

LEMMA EmitClean ==
  ASSUME NEW sent \in Seq(CleanEmissions), NEW s \in Showers
  PROVE  EmittedIn(s, sent) \in Seq(CleanEmissions)
<1> DEFINE e == [channel |-> s.channel, text |-> s.text]
<1>1. e \in CleanEmissions
  BY ShowerTyped DEF CleanEmissions
<1> HIDE DEF e
<1>2. Append(sent, e) \in Seq(CleanEmissions)
  BY <1>1
<1> QED
  BY <1>2 DEF EmittedIn, e

LEMMA PushStands ==
  ASSUME NEW c, NEW prose, NEW events \in Seq(Events), NEW sent, NEW s,
         Stands(c, prose, events, sent, s), NEW e \in Events
  PROVE  Stands(c, IF e.channel = c THEN Append(prose, e.id) ELSE prose, Append(events, e), sent, s)
<1> DEFINE q == QueuedIn(c, events)
           i == e.id
<1>1. PICK took \in Seq(Words) : prose = took \o q /\ TakenOf(c, took, sent, s)
  BY DEF Stands
<1>2. q \in Seq(Words) /\ i \in Words
  <2>1. <<>> \in Seq(Words)
    OBVIOUS
  <2>2. q \in Seq(Words)
    BY <2>1, QueuedFrom
  <2> QED
    BY <2>2 DEF Events
<1>3. QueuedIn(c, Append(events, e)) = IF e.channel = c THEN Append(q, i) ELSE q
  BY QueuedAppend
<1> HIDE DEF q, i
<1>4. Append(took \o q, i) = took \o Append(q, i)
  BY ONLY took \in Seq(Words), <1>2, SMTT(20)
<1>5. (IF e.channel = c THEN Append(prose, i) ELSE prose) = took \o QueuedIn(c, Append(events, e))
  BY <1>1, <1>3, <1>4
<1> QED
  BY <1>1, <1>5 DEF Stands, i

LEMMA StandsEnough ==
  ASSUME NEW c \in Channels, NEW prose, NEW events \in Seq(Events), NEW sent \in Seq(Emissions),
         NEW s \in Showers, Stands(c, prose, events, sent, s)
  PROVE  IsPrefix(ShownIn(c, sent), BytesOf(prose))
<1> DEFINE q == QueuedIn(c, events)
           t == ShownIn(c, sent)
           p == PendingIn(c, s)
           h == s.held[c]
<1>1. PICK took \in Seq(Words) : prose = took \o q /\ TakenOf(c, took, sent, s)
  BY DEF Stands
<1> DEFINE r == BytesOf(q)
<1>2. q \in Seq(Words)
  <2>1. <<>> \in Seq(Words)
    OBVIOUS
  <2> QED
    BY <2>1, QueuedFrom
<1>3. r \in Seq(ByteKinds) /\ BytesOf(prose) = BytesOf(took) \o r
  <2> HIDE DEF q
  <2> QED
    BY <1>1, <1>2, BytesConcat
<1>4. BytesOf(took) = (t \o p) \o h
  BY <1>1 DEF TakenOf
<1>5. t \in Seq(ByteKinds) /\ p \in Seq(ByteKinds) /\ h \in Seq(ByteKinds)
  BY ShownTyped, ShowerTyped
<1> HIDE DEF r, t, p, h
<1> DEFINE y == ((t \o p) \o h) \o r
<1>6. y \in Seq(ByteKinds) /\ Len(t) <= Len(y) /\ \A n \in 1 .. Len(t) : y[n] = t[n]
  BY ONLY <1>3, <1>5
<1>7. BytesOf(prose) = y
  BY <1>3, <1>4
<1> HIDE DEF y
<1>8. IsPrefix(t, y)
  BY ONLY <1>5, <1>6 DEF IsPrefix
<1> QED
  BY <1>7, <1>8 DEF t

(* What a pop leaves of the shower and of what is shown: token_streamer's  *)
(* run().                                                                  *)
PoppedBy(events, s) ==
  LET e == Head(events)
      d == Decodes(s.held[e.channel], Bytes[e.id])
  IN  [at |-> "ask", channel |-> e.channel,
       text |-> (IF s.channel # e.channel THEN <<>> ELSE s.text) \o d.text,
       held |-> [s.held EXCEPT ![e.channel] = d.held]]
PoppedShown(events, sent, s) ==
  IF s.channel # Head(events).channel THEN EmittedIn(s, sent) ELSE sent

LEMMA PopTyped ==
  ASSUME NEW events \in Seq(Events), events # <<>>,
         NEW sent \in Seq(CleanEmissions), NEW s \in Showers
  PROVE  PoppedBy(events, s) \in Showers /\ PoppedShown(events, sent, s) \in Seq(CleanEmissions)
<1> DEFINE e == Head(events)
           d == Decodes(s.held[e.channel], Bytes[e.id])
           start == IF s.channel # e.channel THEN <<>> ELSE s.text
           left == [s.held EXCEPT ![e.channel] = d.held]
           next == [at |-> "ask", channel |-> e.channel, text |-> start \o d.text, held |-> left]
<1>1. e \in Events
  OBVIOUS
<1>2. e.channel \in Channels /\ e.id \in Words
  BY <1>1 DEF Events
<1>3. s.held[e.channel] \in Seq(ByteKinds) /\ Bytes[e.id] \in Seq(ByteKinds)
  <2> HIDE DEF e
  <2> QED
    BY <1>2, ShowerTyped, BytesOne
<1>4. d.text \in Clean /\ d.held \in Seq(ByteKinds)
  <2> HIDE DEF e
  <2> QED
    BY <1>3, DecodesSplits
<1>5. start \in Clean
  BY ShowerTyped, CleanEmpty
<1>6. PoppedBy(events, s) = next
  BY Zenon DEF PoppedBy
<1>7. PoppedShown(events, sent, s) \in Seq(CleanEmissions)
  BY EmitClean DEF PoppedShown
<1> HIDE DEF d, e, start
<1>8. start \o d.text \in Clean
  BY <1>4, <1>5, CleanConcat
<1>9. left \in [Channels -> Seq(ByteKinds)]
  BY <1>4, ShowerTyped
<1> HIDE DEF left
<1>10. next \in Showers
  <2> DEFINE text == start \o d.text
  <2>1. text \in Clean
    BY <1>8
  <2> HIDE DEF text
  <2>2. [at |-> "ask", channel |-> e.channel, text |-> text, held |-> left] \in Showers
    BY <1>2, <1>9, <2>1 DEF Showers
  <2> QED
    BY <2>2 DEF text
<1> QED
  BY <1>6, <1>7, <1>10

LEMMA PopStands ==
  ASSUME NEW c \in Channels, NEW prose, NEW events \in Seq(Events), events # <<>>,
         NEW sent \in Seq(CleanEmissions), NEW s \in Showers,
         Stands(c, prose, events, sent, s)
  PROVE  Stands(c, prose, Tail(events), PoppedShown(events, sent, s), PoppedBy(events, s))
<1> DEFINE e == Head(events)
           d == Decodes(s.held[e.channel], Bytes[e.id])
           switches == s.channel # e.channel
           start == IF switches THEN <<>> ELSE s.text
           next == PoppedBy(events, s)
           after == PoppedShown(events, sent, s)
           rest == Tail(events)
<1>0. sent \in Seq(Emissions)
  BY CleanIsTyped
<1>1. e \in Events /\ rest \in Seq(Events) /\ events = <<e>> \o rest
  OBVIOUS
<1>2. e.channel \in Channels /\ e.id \in Words
  BY <1>1 DEF Events
<1>3. /\ d.text \in Seq(ByteKinds) /\ d.held \in Seq(ByteKinds)
      /\ d.text \o d.held = s.held[e.channel] \o Bytes[e.id]
  <2>1. s.held[e.channel] \in Seq(ByteKinds) /\ Bytes[e.id] \in Seq(ByteKinds)
    <3> HIDE DEF e
    <3> QED
      BY <1>2, ShowerTyped, BytesOne
  <2> HIDE DEF e
  <2> QED
    BY <2>1, DecodesSplits, CleanEmpty
<1>4. start \in Seq(ByteKinds)
  BY ShowerTyped, CleanEmpty
<1>5. after \in Seq(Emissions) /\ next \in Showers
  BY PopTyped, CleanIsTyped
<1>6. /\ next.held = [s.held EXCEPT ![e.channel] = d.held]
      /\ PendingIn(c, next) = (IF e.channel = c THEN start \o d.text ELSE <<>>)
  <2>1. next.held = [s.held EXCEPT ![e.channel] = d.held] /\ next.channel = e.channel /\ next.text = start \o d.text
    BY DEF PoppedBy
  <2> HIDE DEF next, d, e, start
  <2> QED
    BY <2>1 DEF PendingIn
<1>7. ShownIn(c, after) \o (IF e.channel = c THEN start ELSE <<>>) =
        ShownIn(c, sent) \o PendingIn(c, s)
  <2> DEFINE t == ShownIn(c, sent)
             p == PendingIn(c, s)
  <2>1. t \in Seq(ByteKinds) /\ p \in Seq(ByteKinds)
    BY <1>0, ShownTyped, ShowerTyped
  <2>2. ShownIn(c, EmittedIn(s, sent)) = t \o p
    BY <1>0, EmitShows
  <2>3. p = IF s.channel = c THEN s.text ELSE <<>>
    BY DEF PendingIn
  <2>4. after = IF switches THEN EmittedIn(s, sent) ELSE sent
    BY DEF PoppedShown
  <2> HIDE DEF t, p, e, after
  <2>5. t \o <<>> = t /\ (t \o p) \o <<>> = t \o p
    BY ONLY <2>1
  <2>6. CASE switches
    <3>1. ShownIn(c, after) = t \o p /\ start = <<>>
      BY <2>2, <2>4, <2>6
    <3> QED
      BY <2>5, <3>1 DEF t, p
  <2>7. CASE ~switches
    <3>1. ShownIn(c, after) = t /\ start = s.text /\ s.channel = e.channel
      BY <2>4, <2>7 DEF t
    <3> QED
      BY <2>3, <2>5, <3>1 DEF t, p
  <2> QED
    BY <2>6, <2>7
<1>8. PICK took \in Seq(Words) : prose = took \o QueuedIn(c, events) /\ TakenOf(c, took, sent, s)
  BY DEF Stands
<1>9. QueuedIn(c, events) = (IF e.channel = c THEN <<e.id>> ELSE <<>>) \o QueuedIn(c, rest)
  <2> HIDE DEF e, rest
  <2> QED
    BY <1>1, QueuedCons
<1>10. QueuedIn(c, rest) \in Seq(Words)
  <2>1. <<>> \in Seq(Words)
    OBVIOUS
  <2> HIDE DEF rest
  <2> QED
    BY <1>1, <2>1, QueuedFrom
<1>11. s.held \in [Channels -> Seq(ByteKinds)]
  BY ShowerTyped
<1> HIDE DEF next, after
<1>12. CASE e.channel # c
  <2>1. prose = took \o QueuedIn(c, rest)
    <3> DEFINE q == QueuedIn(c, rest)
    <3>1. <<>> \o q = q
      <4> HIDE DEF q
      <4> QED
        BY <1>10 DEF q
    <3> QED
      BY <1>8, <1>9, <1>12, <3>1
  <2>2. next.held[c] = s.held[c]
    <3> HIDE DEF d, e
    <3> QED
      BY <1>2, <1>6, <1>11, <1>12
  <2>3. ShownIn(c, after) \o PendingIn(c, next) = ShownIn(c, sent) \o PendingIn(c, s)
    BY <1>6, <1>7, <1>12
  <2>4. TakenOf(c, took, after, next)
    BY <1>8, <2>2, <2>3 DEF TakenOf
  <2> QED
    BY <2>1, <2>4 DEF Stands, next, after
<1>13. CASE e.channel = c
  <2> DEFINE i == e.id
             q == QueuedIn(c, rest)
             b == BytesOf(took)
             r == Bytes[i]
             now == Append(took, i)
             t == ShownIn(c, after)
             u == d.text
             v == d.held
             h == s.held[c]
  <2> HIDE DEF d, e, rest
  <2>1. i \in Words /\ q \in Seq(Words) /\ r \in Seq(ByteKinds)
    BY <1>2, <1>10, BytesOne
  <2>2. prose = took \o (<<i>> \o q)
    BY <1>8, <1>9, <1>13
  <2>3. BytesOf(now) = b \o r
    <3> HIDE DEF i
    <3> QED
      BY <2>1, BytesAppend
  <2>4. prose = now \o q /\ now \in Seq(Words)
    <3> HIDE DEF i, q
    <3>1. took \o (<<i>> \o q) = Append(took, i) \o q /\ Append(took, i) \in Seq(Words)
      BY ONLY <2>1, took \in Seq(Words)
    <3> QED
      BY <2>2, <3>1
  <2>5. u \o v = h \o r
    BY <1>3, <1>13
  <2>6. next.held[c] = v
    <3> HIDE DEF v
    <3>1. next.held = [s.held EXCEPT ![c] = v]
      BY <1>6, <1>13 DEF v
    <3> QED
      BY <1>11, <3>1
  <2>7. PendingIn(c, next) = start \o u
    BY <1>6, <1>13
  <2>8. b = (t \o start) \o h
    <3>1. t \o start = ShownIn(c, sent) \o PendingIn(c, s)
      BY <1>7, <1>13
    <3>2. b = (ShownIn(c, sent) \o PendingIn(c, s)) \o h
      BY <1>8 DEF TakenOf
    <3> HIDE DEF t, b, h, start
    <3> QED
      BY <3>1, <3>2
  <2>9. t \in Seq(ByteKinds) /\ u \in Seq(ByteKinds) /\ v \in Seq(ByteKinds) /\ h \in Seq(ByteKinds)
    <3>1. t \in Seq(ByteKinds)
      BY <1>5, ShownTyped
    <3>2. h \in Seq(ByteKinds)
      BY <1>11
    <3> QED
      BY <1>3, <3>1, <3>2
  <2> HIDE DEF t, u, v, h, start, b, r
  <2>10. (t \o (start \o u)) \o v = (t \o start) \o (u \o v)
    BY ONLY <1>4, <2>9, SMTT(20)
  <2>11. (t \o start) \o (h \o r) = ((t \o start) \o h) \o r
    BY ONLY <1>4, <2>1, <2>9, SMTT(20)
  <2> HIDE DEF now
  <2>12. TakenOf(c, now, after, next)
    BY <2>3, <2>5, <2>6, <2>7, <2>8, <2>10, <2>11 DEF TakenOf, t
  <2>13. Stands(c, prose, rest, after, next)
    BY <2>4, <2>12 DEF Stands
  <2> QED
    BY <2>13 DEF next, after, rest
<1> QED
  BY <1>12, <1>13

LEMMA AskStands ==
  ASSUME NEW c, NEW prose, NEW events, NEW sent \in Seq(Emissions), NEW s \in Showers,
         Stands(c, prose, events, sent, s)
  PROVE  Stands(c, prose, events, EmittedIn(s, sent), [s EXCEPT !.at = "loop", !.text = <<>>])
<1> DEFINE next == [s EXCEPT !.at = "loop", !.text = <<>>]
           after == EmittedIn(s, sent)
           t == ShownIn(c, sent)
           p == PendingIn(c, s)
<1>1. t \in Seq(ByteKinds) /\ p \in Seq(ByteKinds)
  BY ShownTyped, ShowerTyped
<1>2. ShownIn(c, after) = t \o p
  BY EmitShows
<1>3. next.text = <<>> /\ next.held = s.held
  BY DEF Showers
<1> HIDE DEF next, after
<1>4. PendingIn(c, next) = <<>>
  BY <1>3 DEF PendingIn
<1>5. ShownIn(c, after) \o PendingIn(c, next) = t \o p
  <2> HIDE DEF t, p
  <2>1. (t \o p) \o <<>> = t \o p
    BY ONLY <1>1
  <2> QED
    BY <1>2, <1>4, <2>1
<1>6. PICK took \in Seq(Words) : prose = took \o QueuedIn(c, events) /\ TakenOf(c, took, sent, s)
  BY DEF Stands
<1>7. TakenOf(c, took, after, next)
  BY <1>3, <1>5, <1>6, Zenon DEF TakenOf
<1> QED
  BY <1>6, <1>7 DEF Stands, next, after

(* The rest of a channel: what its decoder still holds.                    *)
LastOf(c, s) == IF s.held[c] = <<>> THEN <<>> ELSE <<[channel |-> c, text |-> s.held[c]]>>

LEMMA LastShows ==
  ASSUME NEW c, NEW x \in Channels, NEW s \in Showers, NEW sent \in Seq(Emissions)
  PROVE  /\ sent \o LastOf(x, s) \in Seq(Emissions)
         /\ ShownIn(c, sent \o LastOf(x, s)) =
              IF x = c THEN ShownIn(c, sent) \o s.held[c] ELSE ShownIn(c, sent)
<1> DEFINE h == s.held[x]
           e == [channel |-> x, text |-> h]
           t == ShownIn(c, sent)
<1>1. h \in Seq(ByteKinds) /\ t \in Seq(ByteKinds)
  BY ShowerTyped, ShownTyped
<1>2. CASE h = <<>>
  <2>1. sent \o <<>> = sent
    OBVIOUS
  <2>2. t \o <<>> = t
    <3> HIDE DEF t
    <3> QED
      BY <1>1
  <2>3. LastOf(x, s) = <<>>
    BY <1>2 DEF LastOf
  <2> QED
    BY <1>2, <2>1, <2>2, <2>3
<1>3. CASE h # <<>>
  <2> HIDE DEF h
  <2>1. e \in Emissions /\ e.channel = x /\ e.text = h
    BY <1>1 DEF Emissions
  <2>2. LastOf(x, s) = <<e>>
    BY <1>3 DEF LastOf, h
  <2> HIDE DEF e
  <2>3. sent \o <<e>> = Append(sent, e) /\ Append(sent, e) \in Seq(Emissions)
    BY <2>1
  <2>4. ShownIn(c, Append(sent, e)) = IF e.channel = c THEN t \o e.text ELSE t
    BY <2>1, ShownAppend
  <2> QED
    BY <2>1, <2>2, <2>3, <2>4 DEF h
<1> QED
  BY <1>2, <1>3

LEMMA LeaveShows ==
  ASSUME NEW c \in Channels, NEW prose, NEW sent \in Seq(Emissions), NEW s \in Showers,
         Stands(c, prose, <<>>, sent, s)
  PROVE  LET all == (EmittedIn(s, sent) \o LastOf("thinking", s)) \o LastOf("answer", s)
         IN  all \in Seq(Emissions) /\ ShownIn(c, all) = BytesOf(prose)
<1> DEFINE one == EmittedIn(s, sent)
           two == one \o LastOf("thinking", s)
           all == two \o LastOf("answer", s)
           t == ShownIn(c, one)
<1>1. one \in Seq(Emissions) /\ t = ShownIn(c, sent) \o PendingIn(c, s)
  BY EmitShows
<1>2. "thinking" \in Channels /\ "answer" \in Channels /\ (c = "thinking" \/ c = "answer")
  BY DEF Channels
<1> HIDE DEF one
<1>3. two \in Seq(Emissions) /\ ShownIn(c, two) = IF "thinking" = c THEN t \o s.held[c] ELSE t
  BY <1>1, <1>2, LastShows
<1> HIDE DEF two
<1>4. /\ all \in Seq(Emissions)
      /\ ShownIn(c, all) = IF "answer" = c THEN ShownIn(c, two) \o s.held[c] ELSE ShownIn(c, two)
  BY <1>2, <1>3, LastShows
<1>5. ShownIn(c, all) = t \o s.held[c]
  <2> HIDE DEF all, t
  <2> QED
    BY <1>2, <1>3, <1>4
<1>6. PICK took \in Seq(Words) : prose = took \o QueuedIn(c, <<>>) /\ TakenOf(c, took, sent, s)
  BY DEF Stands
<1>7. QueuedIn(c, <<>>) = <<>>
  BY ChainEmpty DEF QueuedIn
<1>8. prose = took
  <2>1. took \o <<>> = took
    OBVIOUS
  <2> QED
    BY <1>6, <1>7, <2>1
<1> HIDE DEF t, all
<1>9. ShownIn(c, all) = BytesOf(prose)
  BY <1>1, <1>5, <1>6, <1>8 DEF TakenOf
<1> QED
  BY <1>4, <1>9 DEF all, two, one
(* The grammar of a turn, for a turn that has tools or has none.           *)
Turns ==
  [phase : {"think", "text", "call", "done"}, guard : GuardStates,
   think : Seq(Words), text : Seq(Words), calls : Nat, tool : Nat]
AcceptsIn(tools, g, t) ==
  \/ g.phase = "think" /\ t \in Words \union {"think_close"}
  \/ /\ g.phase = "text"
     /\ \/ t \in Words \union {"think_close", "im_end"}
        \/ t = "call_open" /\ tools /\ ~AtCallCap(g)
  \/ /\ g.phase = "call" /\ t \in Words \union {"call_close"}
     /\ Fed[<<g.guard, t>>] # Refuses
     /\ t = "call_close" => Fed[<<g.guard, t>>] = Whole
MayFollow(tools, g, t) == t \in Tokens /\ AcceptsIn(tools, g, t) /\ ~BudgetExhausted(g)
Fits(g) ==
  /\ g.tool <= ToolCap + 1 /\ (g.phase # "call" => g.tool <= ToolCap)
  /\ g.calls <= MaxCalls /\ (g.phase = "call" => g.calls < MaxCalls)
ProseOf(c, g) == IF c = "thinking" THEN g.think ELSE g.text
WritesTo(c, g) == g.phase = IF c = "thinking" THEN "think" ELSE "text"

LEMMA Caps ==
  /\ MaxCalls \in Nat /\ ThinkCap \in Nat /\ ToolCap \in Nat /\ DraftLength \in Nat /\ QueueSlots \in Nat
  /\ MaxCalls > 0 /\ ThinkCap > 0 /\ ToolCap > 0 /\ DraftLength > 0 /\ QueueSlots > 0
  BY BudgetAssumption

LEMMA WordIsNoMark ==
  ASSUME NEW t \in Words
  PROVE  /\ t # "think_close" /\ t # "call_open" /\ t # "call_close" /\ t # "im_end"
         /\ t \in Tokens
  BY TokenAssumption DEF Structural, Tokens

(* What a token that may follow does, phase by phase.                      *)
LEMMA Steps ==
  ASSUME NEW tools, NEW g \in Turns, NEW t, MayFollow(tools, g, t)
  PROVE  \/ /\ t \in Words /\ g.phase = "think"
            /\ Advanced(g, t) = [g EXCEPT !.think = Append(@, t)]
         \/ /\ t \in Words /\ g.phase = "text"
            /\ Advanced(g, t) = [g EXCEPT !.text = Append(@, t)]
         \/ /\ t = "think_close" /\ g.phase \in {"think", "text"}
            /\ Advanced(g, t) = [g EXCEPT !.phase = "text"]
         \/ /\ t = "im_end" /\ g.phase = "text"
            /\ Advanced(g, t) = [g EXCEPT !.phase = "done"]
         \/ /\ t = "call_open" /\ g.phase = "text" /\ g.calls < MaxCalls
            /\ Advanced(g, t) = [g EXCEPT !.phase = "call", !.guard = Opened, !.tool = @ + 1]
         \/ /\ g.phase = "call" /\ g.tool < ToolCap /\ Fed[<<g.guard, t>>] = Whole
            /\ Advanced(g, t) = [g EXCEPT !.guard = Whole, !.tool = @ + 1, !.calls = @ + 1, !.phase = "text"]
         \/ /\ g.phase = "call" /\ g.tool < ToolCap /\ Fed[<<g.guard, t>>] \in GuardStates
            /\ Advanced(g, t) = [g EXCEPT !.guard = Fed[<<g.guard, t>>], !.tool = @ + 1]
<1>1. /\ g.phase \in {"think", "text", "call", "done"} /\ g.guard \in GuardStates
      /\ g.calls \in Nat /\ g.tool \in Nat
      /\ g = [phase |-> g.phase, guard |-> g.guard, think |-> g.think, text |-> g.text,
              calls |-> g.calls, tool |-> g.tool]
  BY DEF Turns
<1>2. CASE t \in Words /\ g.phase # "call"
  <2>1. t # "think_close" /\ t # "call_open" /\ t # "call_close" /\ t # "im_end"
    BY <1>2, WordIsNoMark
  <2>2. g.phase = "think" \/ g.phase = "text"
    BY <1>1, <1>2 DEF MayFollow, AcceptsIn
  <2>3. Advanced(g, t) = IF g.phase = "think" THEN [g EXCEPT !.think = Append(@, t)]
                         ELSE [g EXCEPT !.text = Append(@, t)]
    BY <1>2, <2>1, Zenon DEF Advanced
  <2> QED
    BY <1>2, <2>2, <2>3
<1>3. CASE t \notin Words /\ g.phase # "call"
  <2>1. \/ t = "think_close" /\ g.phase \in {"think", "text"}
        \/ t = "im_end" /\ g.phase = "text"
        \/ t = "call_open" /\ g.phase = "text" /\ g.calls < MaxCalls
    BY <1>1, <1>3, Caps DEF MayFollow, AcceptsIn, AtCallCap
  <2>2. CASE t = "think_close"
    <3>1. Advanced(g, t) = [g EXCEPT !.phase = "text"]
      BY <1>3, <2>2 DEF Advanced
    <3> QED
      BY <2>1, <2>2, <3>1
  <2>3. CASE t = "im_end"
    <3>1. Advanced(g, t) = [g EXCEPT !.phase = "done"]
      BY <1>3, <2>3 DEF Advanced
    <3> QED
      BY <2>1, <2>3, <3>1
  <2>4. CASE t = "call_open"
    <3>1. Advanced(g, t) = [g EXCEPT !.phase = "call", !.guard = Opened, !.tool = @ + 1]
      BY <1>3, <2>4 DEF Advanced
    <3> QED
      BY <2>1, <2>4, <3>1
  <2> QED
    BY <2>1, <2>2, <2>3, <2>4
<1>4. CASE g.phase = "call"
  <2> DEFINE s == Fed[<<g.guard, t>>]
             fed == [g EXCEPT !.guard = s, !.tool = @ + 1]
  <2>1. t \in Words \union {"call_close"} /\ s # Refuses /\ g.tool < ToolCap
    BY <1>1, <1>4, Caps DEF MayFollow, AcceptsIn, BudgetExhausted
  <2>2. s \in GuardStates
    <3>1. <<g.guard, t>> \in GuardStates \X (Words \union {"call_close"})
      BY <1>1, <2>1
    <3>2. s \in GuardStates \union {Refuses}
      BY <3>1, GuardAssumption
    <3> QED
      BY <2>1, <3>2
  <2>3. Advanced(g, t) = IF fed.guard = Whole THEN [fed EXCEPT !.calls = @ + 1, !.phase = "text"] ELSE fed
    BY <1>4 DEF Advanced, FedCall
  <2> HIDE DEF s
  <2>4. fed.guard = s
    BY <1>1
  <2>5. CASE s = Whole
    <3>1. Advanced(g, t) = [fed EXCEPT !.calls = @ + 1, !.phase = "text"]
      BY <2>3, <2>4, <2>5
    <3>2. [fed EXCEPT !.calls = @ + 1, !.phase = "text"] =
             [g EXCEPT !.guard = Whole, !.tool = @ + 1, !.calls = @ + 1, !.phase = "text"]
      BY <1>1, <2>5
    <3> QED
      BY <1>4, <2>1, <2>5, <3>1, <3>2 DEF s
  <2>6. CASE s # Whole
    BY <1>4, <2>1, <2>2, <2>3, <2>4, <2>6 DEF s
  <2> QED
    BY <2>5, <2>6
<1> QED
  BY <1>2, <1>3, <1>4

LEMMA StepKeeps ==
  ASSUME NEW tools, NEW g \in Turns, NEW t, MayFollow(tools, g, t)
  PROVE  /\ Advanced(g, t) \in Turns
         /\ Fits(g) => Fits(Advanced(g, t))
         /\ Advanced(g, t).phase = "think" => g.phase = "think" /\ t \in Words
         /\ \A c \in Channels :
              ProseOf(c, Advanced(g, t)) =
                IF t \in Words /\ WritesTo(c, g) THEN Append(ProseOf(c, g), t) ELSE ProseOf(c, g)
<1> DEFINE h == Advanced(g, t)
<1>1. /\ g.phase \in {"think", "text", "call", "done"} /\ g.guard \in GuardStates
      /\ g.think \in Seq(Words) /\ g.text \in Seq(Words) /\ g.calls \in Nat /\ g.tool \in Nat
      /\ g = [phase |-> g.phase, guard |-> g.guard, think |-> g.think, text |-> g.text,
              calls |-> g.calls, tool |-> g.tool]
  BY DEF Turns
<1>2. h = [phase |-> h.phase, guard |-> h.guard, think |-> h.think, text |-> h.text,
           calls |-> h.calls, tool |-> h.tool] /\
      \/ /\ t \in Words /\ g.phase = "think" /\ h.phase = g.phase
         /\ h.guard = g.guard /\ h.calls = g.calls /\ h.tool = g.tool
         /\ h.think = Append(g.think, t) /\ h.text = g.text
      \/ /\ t \in Words /\ g.phase = "text" /\ h.phase = g.phase
         /\ h.guard = g.guard /\ h.calls = g.calls /\ h.tool = g.tool
         /\ h.think = g.think /\ h.text = Append(g.text, t)
      \/ /\ (t \notin Words \/ g.phase \notin {"think", "text"})
         /\ h.think = g.think /\ h.text = g.text
         /\ \/ /\ h.phase \in {"text", "done"} /\ g.phase \in {"think", "text"} /\ h.guard = g.guard
               /\ h.calls = g.calls /\ h.tool = g.tool
            \/ /\ h.phase = "call" /\ g.phase = "text" /\ h.guard \in GuardStates
               /\ g.calls < MaxCalls /\ h.calls = g.calls /\ h.tool = g.tool + 1
            \/ /\ h.phase = "text" /\ g.phase = "call" /\ h.guard \in GuardStates
               /\ g.tool < ToolCap /\ h.calls = g.calls + 1 /\ h.tool = g.tool + 1
            \/ /\ h.phase = "call" /\ g.phase = "call" /\ h.guard \in GuardStates
               /\ g.tool < ToolCap /\ h.calls = g.calls /\ h.tool = g.tool + 1
  <2>1. t \in Words => t # "think_close" /\ t # "call_open" /\ t # "im_end"
    BY WordIsNoMark
  <2>2. CASE t \in Words /\ g.phase = "think" /\ h = [g EXCEPT !.think = Append(@, t)]
    <3> DEFINE w == Append(g.think, t)
    <3>1. h = [g EXCEPT !.think = w]
      BY <2>2
    <3> HIDE DEF h, w
    <3> QED
      BY <1>1, <2>2, <3>1 DEF w
  <2>3. CASE t \in Words /\ g.phase = "text" /\ h = [g EXCEPT !.text = Append(@, t)]
    <3> DEFINE w == Append(g.text, t)
    <3>1. h = [g EXCEPT !.text = w]
      BY <2>3
    <3> HIDE DEF h, w
    <3> QED
      BY <1>1, <2>3, <3>1 DEF w
  <2>4. CASE t = "think_close" /\ g.phase \in {"think", "text"} /\ h = [g EXCEPT !.phase = "text"]
    <3> HIDE DEF h
    <3> QED
      BY <1>1, <2>1, <2>4
  <2>5. CASE t = "im_end" /\ g.phase = "text" /\ h = [g EXCEPT !.phase = "done"]
    <3> HIDE DEF h
    <3> QED
      BY <1>1, <2>1, <2>5
  <2>6. CASE /\ t = "call_open" /\ g.phase = "text" /\ g.calls < MaxCalls
             /\ h = [g EXCEPT !.phase = "call", !.guard = Opened, !.tool = @ + 1]
    <3>1. Opened \in GuardStates
      BY GuardAssumption
    <3> HIDE DEF h
    <3> QED
      BY <1>1, <2>1, <2>6, <3>1
  <2>7. CASE /\ g.phase = "call" /\ g.tool < ToolCap
             /\ h = [g EXCEPT !.guard = Whole, !.tool = @ + 1, !.calls = @ + 1, !.phase = "text"]
    <3>1. Whole \in GuardStates
      BY GuardAssumption
    <3> HIDE DEF h
    <3> QED
      BY <1>1, <2>7, <3>1
  <2>8. CASE /\ g.phase = "call" /\ g.tool < ToolCap /\ Fed[<<g.guard, t>>] \in GuardStates
             /\ h = [g EXCEPT !.guard = Fed[<<g.guard, t>>], !.tool = @ + 1]
    <3> DEFINE s == Fed[<<g.guard, t>>]
    <3>1. s \in GuardStates /\ h = [g EXCEPT !.guard = s, !.tool = @ + 1]
      BY <2>8
    <3> HIDE DEF h, s
    <3> QED
      BY <1>1, <2>8, <3>1
  <2>9. \/ t \in Words /\ g.phase = "think" /\ h = [g EXCEPT !.think = Append(@, t)]
        \/ t \in Words /\ g.phase = "text" /\ h = [g EXCEPT !.text = Append(@, t)]
        \/ t = "think_close" /\ g.phase \in {"think", "text"} /\ h = [g EXCEPT !.phase = "text"]
        \/ t = "im_end" /\ g.phase = "text" /\ h = [g EXCEPT !.phase = "done"]
        \/ /\ t = "call_open" /\ g.phase = "text" /\ g.calls < MaxCalls
           /\ h = [g EXCEPT !.phase = "call", !.guard = Opened, !.tool = @ + 1]
        \/ /\ g.phase = "call" /\ g.tool < ToolCap
           /\ h = [g EXCEPT !.guard = Whole, !.tool = @ + 1, !.calls = @ + 1, !.phase = "text"]
        \/ /\ g.phase = "call" /\ g.tool < ToolCap /\ Fed[<<g.guard, t>>] \in GuardStates
           /\ h = [g EXCEPT !.guard = Fed[<<g.guard, t>>], !.tool = @ + 1]
    BY Steps, ZenonT(40)
  <2> QED
    BY <2>2, <2>3, <2>4, <2>5, <2>6, <2>7, <2>8, <2>9, Zenon
<1> HIDE DEF h
<1>3. \A x \in Seq(Words) : t \in Words => Append(x, t) \in Seq(Words)
  OBVIOUS
<1>4. h \in Turns
  <2>1. /\ h.phase \in {"think", "text", "call", "done"} /\ h.guard \in GuardStates
        /\ h.calls \in Nat /\ h.tool \in Nat
    BY <1>1, <1>2
  <2>2. h.think \in Seq(Words) /\ h.text \in Seq(Words)
    BY <1>1, <1>2, <1>3
  <2> QED
    BY <1>2, <2>1, <2>2 DEF Turns
<1>5. Fits(g) => Fits(h)
  <2>1. h.calls \in Nat /\ h.tool \in Nat
    BY <1>1, <1>2
  <2> QED
    BY <1>1, <1>2, <2>1, Caps DEF Fits
<1>6. ASSUME NEW c \in Channels
      PROVE  ProseOf(c, h) = IF t \in Words /\ WritesTo(c, g) THEN Append(ProseOf(c, g), t) ELSE ProseOf(c, g)
  <2>1. \/ /\ t \in Words /\ g.phase = "think"
           /\ h.think = Append(g.think, t) /\ h.text = g.text
        \/ /\ t \in Words /\ g.phase = "text"
           /\ h.think = g.think /\ h.text = Append(g.text, t)
        \/ /\ (t \notin Words \/ g.phase \notin {"think", "text"})
           /\ h.think = g.think /\ h.text = g.text
    BY <1>2
  <2> QED
    BY <2>1, Zenon DEF ProseOf, WritesTo
<1>7. h.phase = "think" => g.phase = "think" /\ t \in Words
  BY <1>2
<1> QED
  BY <1>4, <1>5, <1>6, <1>7 DEF h

(* A sequence of tokens each of which may follow those before it.          *)
LegalIn(tools, g, ts) ==
  \A i \in 1 .. Len(ts) : MayFollow(tools, After(g, Upto(ts, i - 1)), ts[i])
StartsAs(x, y) == Len(x) <= Len(y) /\ Upto(y, Len(x)) = x

LEMMA StartsAppend ==
  ASSUME NEW x \in Seq(Words), NEW y \in Seq(Words), StartsAs(x, y), NEW t \in Words
  PROVE  StartsAs(x, Append(y, t))
<1>1. Len(x) \in Nat /\ Len(x) <= Len(y) /\ Len(Append(y, t)) = Len(y) + 1
  BY DEF StartsAs
<1>2. SubSeq(Append(y, t), 1, Len(x)) = SubSeq(y, 1, Len(x))
  BY <1>1
<1> QED
  BY <1>1, <1>2 DEF StartsAs, Upto

LEMMA StartsItself == ASSUME NEW x \in Seq(Words) PROVE StartsAs(x, x)
<1>1. SubSeq(x, 1, Len(x)) = x /\ Len(x) \in Nat
  OBVIOUS
<1> QED
  BY <1>1 DEF StartsAs, Upto

LEMMA PathKeeps ==
  ASSUME NEW tools, NEW g \in Turns, NEW ts \in Seq(Tokens), LegalIn(tools, g, ts),
         NEW k \in 0 .. Len(ts)
  PROVE  LET h == After(g, Upto(ts, k))
         IN  /\ h \in Turns /\ (Fits(g) => Fits(h))
             /\ StartsAs(g.think, h.think) /\ StartsAs(g.text, h.text)
<1> DEFINE Reached(n) == After(g, Upto(ts, n))
           Kept(n) == /\ Reached(n) \in Turns /\ (Fits(g) => Fits(Reached(n)))
                      /\ StartsAs(g.think, Reached(n).think) /\ StartsAs(g.text, Reached(n).text)
           Good == {n \in 0 .. Len(ts) : Kept(n)}
<1>1. g.think \in Seq(Words) /\ g.text \in Seq(Words)
  BY DEF Turns
<1>2. 0 \in Good
  <2>1. Upto(ts, 0) = <<>> /\ 0 \in 0 .. Len(ts)
    BY DEF Upto
  <2>2. Reached(0) = g
    BY <2>1, AfterEmpty
  <2> HIDE DEF Reached
  <2> QED
    BY <1>1, <2>1, <2>2, StartsItself
<1>3. ASSUME NEW n \in 1 .. Len(ts), n - 1 \in Good PROVE n \in Good
  <2> DEFINE h == Reached(n - 1)
             t == ts[n]
             u == Reached(n)
  <2>1. Kept(n - 1) /\ n \in 0 .. Len(ts)
    BY <1>3
  <2>2. MayFollow(tools, h, t)
    BY DEF LegalIn
  <2>3. u = Advanced(h, t)
    BY AfterUpto
  <2>4. h \in Turns /\ (Fits(g) => Fits(h)) /\ StartsAs(g.think, h.think) /\ StartsAs(g.text, h.text)
    BY <2>1
  <2> HIDE DEF h, t
  <2>5. /\ Advanced(h, t) \in Turns /\ (Fits(h) => Fits(Advanced(h, t)))
        /\ \A c \in Channels :
             ProseOf(c, Advanced(h, t)) =
               IF t \in Words /\ WritesTo(c, h) THEN Append(ProseOf(c, h), t) ELSE ProseOf(c, h)
    BY <2>2, <2>4, StepKeeps
  <2> HIDE DEF u
  <2>6. /\ u.think = h.think \/ (t \in Words /\ u.think = Append(h.think, t))
        /\ u.text = h.text \/ (t \in Words /\ u.text = Append(h.text, t))
    <3>1. \A c \in Channels :
            ProseOf(c, u) = ProseOf(c, h) \/ (t \in Words /\ ProseOf(c, u) = Append(ProseOf(c, h), t))
      BY <2>3, <2>5
    <3>2. "thinking" \in Channels /\ "answer" \in Channels
      BY DEF Channels
    <3>3. \A x : ProseOf("thinking", x) = x.think /\ ProseOf("answer", x) = x.text
      BY DEF ProseOf
    <3>4. /\ ProseOf("thinking", u) = ProseOf("thinking", h) \/ (t \in Words /\ ProseOf("thinking", u) = Append(ProseOf("thinking", h), t))
          /\ ProseOf("answer", u) = ProseOf("answer", h) \/ (t \in Words /\ ProseOf("answer", u) = Append(ProseOf("answer", h), t))
      BY <3>1, <3>2
    <3> QED
      BY <3>3, <3>4
  <2>7. h.think \in Seq(Words) /\ h.text \in Seq(Words)
    BY <2>4 DEF Turns
  <2>8. StartsAs(g.think, u.think) /\ StartsAs(g.text, u.text)
    BY <1>1, <2>4, <2>6, <2>7, StartsAppend
  <2> QED
    BY <2>1, <2>3, <2>4, <2>5, <2>8 DEF u
<1>4. Len(ts) \in Nat
  OBVIOUS
<1>5. k \in Good
  <2> HIDE DEF Good
  <2> QED
    BY <1>2, <1>3, <1>4, UpTo, Zenon
<1> QED
  BY <1>5

LEMMA UptoUpto ==
  ASSUME NEW S, NEW ts \in Seq(S), NEW n \in 0 .. Len(ts)
  PROVE  /\ Upto(ts, n) \in Seq(S) /\ Len(Upto(ts, n)) = n /\ n \in Nat
         /\ \A i \in 1 .. n : Upto(ts, n)[i] = ts[i] /\ ts[i] \in S /\ i \in 1 .. Len(ts)
         /\ \A i \in 0 .. n : Upto(Upto(ts, n), i) = Upto(ts, i)
<1>1. SubSeq(ts, 1, n) \in Seq(S) /\ Len(SubSeq(ts, 1, n)) = n /\ n \in Nat
  OBVIOUS
<1>2. \A i \in 1 .. n : SubSeq(ts, 1, n)[i] = ts[i] /\ ts[i] \in S /\ i \in 1 .. Len(ts)
  OBVIOUS
<1>3. \A i \in 0 .. n : SubSeq(SubSeq(ts, 1, n), 1, i) = SubSeq(ts, 1, i)
  OBVIOUS
<1> QED
  BY <1>1, <1>2, <1>3 DEF Upto

LEMMA LegalUpto ==
  ASSUME NEW tools, NEW g, NEW ts \in Seq(Tokens), NEW n \in 0 .. Len(ts),
         \A i \in 1 .. n : MayFollow(tools, After(g, Upto(ts, i - 1)), ts[i])
  PROVE  LegalIn(tools, g, Upto(ts, n))
<1> DEFINE us == Upto(ts, n)
<1>1. Len(us) = n /\ n \in Nat /\ (\A i \in 1 .. n : us[i] = ts[i]) /\ \A i \in 0 .. n : Upto(us, i) = Upto(ts, i)
  BY UptoUpto
<1> HIDE DEF us
<1>2. ASSUME NEW i \in 1 .. Len(us) PROVE MayFollow(tools, After(g, Upto(us, i - 1)), us[i])
  <2>1. i \in 1 .. n /\ i - 1 \in 0 .. n
    BY <1>1
  <2>2. Upto(us, i - 1) = Upto(ts, i - 1) /\ us[i] = ts[i]
    BY <1>1, <2>1
  <2> QED
    BY <2>1, <2>2
<1> QED
  BY <1>2 DEF LegalIn, us

LEMMA LegalAppend ==
  ASSUME NEW tools, NEW g, NEW ts \in Seq(Tokens), LegalIn(tools, g, ts),
         NEW p, MayFollow(tools, After(g, ts), p)
  PROVE  Append(ts, p) \in Seq(Tokens) /\ LegalIn(tools, g, Append(ts, p))
<1> DEFINE us == Append(ts, p)
<1>1. p \in Tokens
  BY DEF MayFollow
<1>2. us \in Seq(Tokens) /\ Len(us) = Len(ts) + 1 /\ Len(ts) \in Nat /\ us[Len(ts) + 1] = p
  BY <1>1
<1>3. \A i \in 1 .. Len(ts) : us[i] = ts[i]
  BY <1>1
<1>4. \A i \in 0 .. Len(ts) : SubSeq(us, 1, i) = SubSeq(ts, 1, i)
  BY <1>1
<1>5. SubSeq(ts, 1, Len(ts)) = ts
  OBVIOUS
<1> HIDE DEF us
<1>6. ASSUME NEW i \in 1 .. Len(us) PROVE MayFollow(tools, After(g, Upto(us, i - 1)), us[i])
  <2>1. Upto(us, i - 1) = Upto(ts, i - 1)
    BY <1>2, <1>4 DEF Upto
  <2>2. CASE i \in 1 .. Len(ts)
    BY <1>3, <2>1, <2>2 DEF LegalIn
  <2>3. CASE i = Len(ts) + 1
    <3>1. Upto(ts, i - 1) = ts
      BY <1>2, <1>5, <2>3 DEF Upto
    <3> QED
      BY <1>2, <2>1, <2>3, <3>1
  <2> QED
    BY <1>2, <2>2, <2>3
<1> QED
  BY <1>2, <1>6 DEF LegalIn, us

LEMMA LegalTail ==
  ASSUME NEW tools, NEW g, NEW ts \in Seq(Tokens), ts # <<>>, LegalIn(tools, g, ts)
  PROVE  /\ MayFollow(tools, g, Head(ts)) /\ Tail(ts) \in Seq(Tokens)
         /\ LegalIn(tools, Advanced(g, Head(ts)), Tail(ts))
<1> DEFINE t == Head(ts)
           us == Tail(ts)
<1>1. t \in Tokens /\ us \in Seq(Tokens) /\ Len(ts) = Len(us) + 1 /\ Len(us) \in Nat /\ ts[1] = t
  OBVIOUS
<1>2. \A i \in 1 .. Len(us) : us[i] = ts[i + 1]
  OBVIOUS
<1>3. \A i \in 0 .. Len(us) : SubSeq(ts, 1, i + 1) = <<t>> \o SubSeq(us, 1, i) /\ SubSeq(us, 1, i) \in Seq(Tokens)
  OBVIOUS
<1>4. SubSeq(ts, 1, 0) = <<>>
  OBVIOUS
<1> HIDE DEF t, us
<1>5. MayFollow(tools, g, t)
  <2>1. MayFollow(tools, After(g, Upto(ts, 1 - 1)), ts[1])
    BY <1>1 DEF LegalIn
  <2>2. After(g, Upto(ts, 1 - 1)) = g
    <3>1. Upto(ts, 1 - 1) = <<>>
      BY <1>4 DEF Upto
    <3> QED
      BY <3>1, AfterEmpty
  <2> QED
    BY <1>1, <2>1, <2>2
<1>6. ASSUME NEW i \in 1 .. Len(us)
      PROVE  MayFollow(tools, After(Advanced(g, t), Upto(us, i - 1)), us[i])
  <2>1. MayFollow(tools, After(g, Upto(ts, (i + 1) - 1)), ts[i + 1])
    BY <1>1 DEF LegalIn
  <2> DEFINE w == SubSeq(us, 1, i - 1)
  <2>2. SubSeq(ts, 1, (i + 1) - 1) = <<t>> \o w /\ w \in Seq(Tokens)
    <3>1. i - 1 \in 0 .. Len(us) /\ (i + 1) - 1 = (i - 1) + 1
      BY <1>1
    <3> QED
      BY <1>3, <3>1
  <2> HIDE DEF w
  <2>3. After(g, <<t>> \o w) = After(Advanced(g, t), w)
    BY <1>1, <2>2, AfterCons
  <2> QED
    BY <1>2, <2>1, <2>2, <2>3 DEF w, Upto
<1> QED
  BY <1>1, <1>5, <1>6 DEF LegalIn, t, us

(* What the masks let through may follow.                                  *)
LEMMA AcceptsIs == ASSUME NEW g, NEW t PROVE Accepts(g, t) <=> AcceptsIn(offered, g, t)
  BY Zenon DEF Accepts, AcceptsIn

LEMMA SameCap ==
  ASSUME NEW tools, NEW g, NEW h, NEW t, g.phase # "call", h.phase = g.phase,
         AtCallCap(h) <=> AtCallCap(g), AcceptsIn(tools, h, t)
  PROVE  AcceptsIn(tools, g, t)
  BY DEF AcceptsIn

LEMMA MaskPermits ==
  ASSUME NEW g \in Turns, NEW p \in Mask(g)
  PROVE  /\ MayFollow(offered, g, p)
         /\ g.phase # "call" /\ ~AtThinkCap(g) => p \in GrammarMask(g)
         /\ AtThinkCap(g) => p = "think_close"
<1>1. ~BudgetExhausted(g)
  BY DEF Mask
<1>2. CASE AtThinkCap(g)
  <2>1. p = "think_close" /\ g.phase = "think"
    BY <1>1, <1>2 DEF Mask, AtThinkCap
  <2> QED
    BY <1>1, <1>2, <2>1 DEF MayFollow, AcceptsIn, Tokens, Structural
<1>3. CASE ~AtThinkCap(g)
  <2>1. p \in GrammarMask(g)
    BY <1>1, <1>3 DEF Mask
  <2>2. p \in Tokens /\ Accepts(IF g.phase = "call" THEN g ELSE Probe(g), p)
    BY <2>1 DEF GrammarMask
  <2>3. CASE g.phase = "call"
    BY <1>1, <1>3, <2>1, <2>2, <2>3, AcceptsIs DEF MayFollow
  <2>4. CASE g.phase # "call"
    <3>1. AcceptsIn(offered, Probe(g), p)
      BY <2>2, <2>4, AcceptsIs
    <3>2. Probe(g).phase = g.phase /\ Probe(g).calls = IF AtCallCap(g) THEN MaxCalls ELSE 0
      BY DEF Probe, FreshTurn
    <3>3. AtCallCap(Probe(g)) <=> AtCallCap(g)
      <4>1. AtCallCap(Probe(g)) <=> Probe(g).calls >= MaxCalls
        BY DEF AtCallCap
      <4>2. CASE AtCallCap(g)
        <5>1. Probe(g).calls = MaxCalls
          BY <3>2, <4>2
        <5> QED
          BY <4>1, <4>2, <5>1, Caps
      <4>3. CASE ~AtCallCap(g)
        <5>1. Probe(g).calls = 0
          BY <3>2, <4>3
        <5> QED
          BY <4>1, <4>3, <5>1, Caps
      <4> QED
        BY <4>2, <4>3
    <3>4. AcceptsIn(offered, g, p)
      BY <2>4, <3>1, <3>2, <3>3, SameCap
    <3> QED
      BY <1>1, <1>3, <2>1, <2>2, <3>4 DEF MayFollow
  <2> QED
    BY <2>3, <2>4
<1> QED
  BY <1>2, <1>3

(* Outside a call and below the think cap one mask stands for a block.     *)
LEMMA StableLegal ==
  ASSUME NEW g \in Turns, BlockStable(g), NEW ws \in Seq(Words), NEW p \in Mask(g)
  PROVE  Append(ws, p) \in Seq(Tokens) /\ LegalIn(offered, g, Append(ws, p))
<1> DEFINE Reached(n) == After(g, Upto(ws, n))
           Kept(n) == Reached(n) \in Turns /\ Reached(n).phase = g.phase /\ Reached(n).calls = g.calls
           Good == {n \in 0 .. Len(ws) : Kept(n)}
<1>1. g.phase \in {"think", "text"} /\ ~AtThinkCap(g)
  BY DEF BlockStable
<1>2. \A h, t : t \in Words /\ h.phase = g.phase => MayFollow(offered, h, t)
  BY <1>1, WordIsNoMark DEF MayFollow, AcceptsIn, BudgetExhausted
<1>3. 0 \in Good
  <2>1. Upto(ws, 0) = <<>> /\ 0 \in 0 .. Len(ws)
    BY DEF Upto
  <2>2. Reached(0) = g
    BY <2>1, AfterEmpty
  <2> HIDE DEF Reached
  <2> QED
    BY <2>1, <2>2
<1>4. ASSUME NEW n \in 1 .. Len(ws), n - 1 \in Good PROVE n \in Good
  <2> DEFINE h == Reached(n - 1)
             t == ws[n]
  <2>1. Kept(n - 1) /\ n \in 0 .. Len(ws)
    BY <1>4
  <2>2. Reached(n) = Advanced(h, t) /\ t \in Words
    BY AfterUpto
  <2>3. h \in Turns /\ h.phase = g.phase /\ h.calls = g.calls
    BY <2>1
  <2> HIDE DEF h, t
  <2>4. MayFollow(offered, h, t)
    BY <1>2, <2>2, <2>3
  <2>5. Advanced(h, t) \in Turns
    BY <2>3, <2>4, StepKeeps
  <2>6. \/ Advanced(h, t) = [h EXCEPT !.think = Append(@, t)]
        \/ Advanced(h, t) = [h EXCEPT !.text = Append(@, t)]
    <3>1. t # "think_close" /\ t # "im_end" /\ t # "call_open" /\ h.phase # "call"
      BY <1>1, <2>2, <2>3, WordIsNoMark
    <3> QED
      BY <2>3, <2>4, <3>1, Steps, Zenon
  <2>7. Advanced(h, t).phase = h.phase /\ Advanced(h, t).calls = h.calls
    BY <2>3, <2>6 DEF Turns
  <2> HIDE DEF Reached
  <2> QED
    BY <2>1, <2>2, <2>3, <2>5, <2>7
<1>5. Len(ws) \in Nat
  OBVIOUS
<1>6. \A n \in 0 .. Len(ws) : n \in Good
  <2> HIDE DEF Good
  <2> QED
    BY <1>3, <1>4, <1>5, UpTo, Zenon
<1>7. \A n \in 0 .. Len(ws) : Kept(n)
  BY <1>6
<1>8. ws \in Seq(Tokens)
  BY DEF Tokens
<1>9. LegalIn(offered, g, ws)
  <2> SUFFICES ASSUME NEW i \in 1 .. Len(ws)
               PROVE  MayFollow(offered, After(g, Upto(ws, i - 1)), ws[i])
    BY DEF LegalIn
  <2>1. i - 1 \in 0 .. Len(ws) /\ ws[i] \in Words
    BY <1>5
  <2>2. Reached(i - 1).phase = g.phase
    BY <1>7, <2>1
  <2> QED
    BY <1>2, <2>1, <2>2
<1>10. After(g, ws).phase = g.phase /\ After(g, ws).calls = g.calls
  <2>1. Upto(ws, Len(ws)) = ws /\ Len(ws) \in 0 .. Len(ws)
    BY <1>5 DEF Upto
  <2>2. Kept(Len(ws))
    BY <1>7, <2>1
  <2> QED
    BY <2>1, <2>2
<1>11. MayFollow(offered, After(g, ws), p)
  <2> DEFINE h == After(g, ws)
  <2>1. h.phase = g.phase /\ h.calls = g.calls
    BY <1>10
  <2> HIDE DEF h
  <2>2. MayFollow(offered, g, p)
    BY MaskPermits
  <2>3. AtCallCap(h) <=> AtCallCap(g)
    BY <2>1 DEF AtCallCap
  <2>4. AcceptsIn(offered, h, p)
    BY <1>1, <2>1, <2>2, <2>3, SameCap DEF MayFollow
  <2>5. ~BudgetExhausted(h)
    BY <1>1, <2>1 DEF BudgetExhausted
  <2>6. MayFollow(offered, h, p)
    BY <2>2, <2>4, <2>5 DEF MayFollow
  <2> QED
    BY <2>6 DEF h
<1> QED
  BY <1>8, <1>9, <1>11, LegalAppend

(* In a call, or at the think cap, the draft is walked: what it keeps may  *)
(* follow.                                                                 *)
LEMMA WalkLegal ==
  ASSUME NEW g, NEW drafted \in Seq(Words)
  PROVE  /\ Probed(g, drafted) \in 0 .. Len(drafted)
         /\ \A i \in 1 .. Probed(g, drafted) :
              /\ MayFollow(offered, After(g, Upto(drafted, i - 1)), drafted[i])
              /\ drafted[i] \in Mask(After(g, Upto(drafted, i - 1)))
<1> DEFINE NowHere(i) == After(g, Upto(drafted, i - 1))
           legal == {n \in 0 .. Len(drafted) :
                       \A i \in 1 .. n : drafted[i] \in Mask(NowHere(i)) /\ Accepts(NowHere(i), drafted[i])}
           most == CHOOSE n \in legal : \A k \in legal : k <= n
<1>1. Probed(g, drafted) = most
  BY DEF Probed
<1>2. 0 \in legal /\ legal \in SUBSET (0 .. Len(drafted)) /\ Len(drafted) \in Nat
  OBVIOUS
<1>3. \E n \in legal : \A k \in legal : k <= n
  <2>1. legal # {}
    BY <1>2
  <2> HIDE DEF legal
  <2> QED
    BY <1>2, <2>1, GreatestExists
<1>4. most \in legal
  <2> HIDE DEF legal
  <2> QED
    BY <1>3
<1> HIDE DEF most
<1>5. \A i \in 1 .. most : drafted[i] \in Mask(NowHere(i)) /\ Accepts(NowHere(i), drafted[i]) /\ drafted[i] \in Words
  <2>1. \A i \in 1 .. most : i \in 1 .. Len(drafted)
    BY <1>4, <1>2
  <2> QED
    BY <1>4, <2>1
<1>6. ASSUME NEW i \in 1 .. most PROVE MayFollow(offered, NowHere(i), drafted[i]) /\ drafted[i] \in Mask(NowHere(i))
  <2> DEFINE h == NowHere(i)
             t == drafted[i]
  <2>1. t \in Mask(h) /\ Accepts(h, t) /\ t \in Words
    BY <1>5
  <2> HIDE DEF h, t
  <2>2. ~BudgetExhausted(h)
    BY <2>1 DEF Mask
  <2>3. MayFollow(offered, h, t)
    BY <2>1, <2>2, AcceptsIs, WordIsNoMark DEF MayFollow
  <2> QED
    BY <2>1, <2>3 DEF h, t
<1> QED
  BY <1>1, <1>2, <1>4, <1>6

(* A block: the drafts that are accepted and the token sampled after them. *)
LEMMA BlockLegal ==
  ASSUME NEW g \in Turns, NEW drafted \in Seq(Words), Len(drafted) <= DraftLength,
         NEW m \in 0 .. Len(Draft(g, drafted)), NEW p \in MaskAt(g, Draft(g, drafted), m)
  PROVE  LET block == Append(Upto(Draft(g, drafted), m), p)
         IN  /\ block \in Seq(Tokens) /\ LegalIn(offered, g, block)
             /\ g.phase = "think" => \/ Len(g.think) + Len(block) <= ThinkCap + DraftLength
                                     \/ block = <<"think_close">>
<1> DEFINE draft == Draft(g, drafted)
           block == Append(Upto(draft, m), p)
<1>1. Len(drafted) \in Nat /\ drafted \in Seq(Tokens)
  BY DEF Tokens
<1>2. CASE BlockStable(g)
  <2>1. draft = drafted /\ p \in Mask(g)
    BY <1>2 DEF Draft, MaskAt
  <2> DEFINE us == Upto(drafted, m)
  <2>2. m \in 0 .. Len(drafted)
    BY <2>1
  <2>3. us \in Seq(Words) /\ Len(us) = m /\ m \in Nat
    BY <2>2, UptoUpto
  <2> HIDE DEF us
  <2>4. Append(us, p) \in Seq(Tokens) /\ LegalIn(offered, g, Append(us, p))
    BY <1>2, <2>1, <2>3, StableLegal
  <2>5. g.phase = "think" => Len(g.think) + Len(Append(us, p)) <= ThinkCap + DraftLength
    <3>1. g.think \in Seq(Words)
      BY DEF Turns
    <3>2. Len(g.think) \in Nat
      BY <3>1
    <3>3. Len(Append(us, p)) = m + 1
      BY <2>3
    <3>4. g.phase = "think" => Len(g.think) < ThinkCap
      BY <1>2, <3>2, Caps DEF BlockStable, AtThinkCap
    <3>5. m <= DraftLength
      BY <1>1, <2>2, Caps
    <3>6. m \in Nat /\ ThinkCap \in Nat /\ DraftLength \in Nat
      BY <2>3, Caps
    <3> DEFINE l == Len(g.think)
               k == Len(Append(us, p))
    <3> HIDE DEF l, k
    <3>7. \A x, y \in Nat : x < ThinkCap /\ y = m + 1 => x + y <= ThinkCap + DraftLength
      BY ONLY <3>5, <3>6
    <3>8. l \in Nat /\ k = m + 1 /\ m + 1 \in Nat /\ (g.phase = "think" => l < ThinkCap)
      BY <3>2, <3>3, <3>4, <3>6 DEF l, k
    <3>9. g.phase = "think" => l + k <= ThinkCap + DraftLength
      BY ONLY <3>7, <3>8
    <3> QED
      BY <3>9 DEF l, k
  <2>6. block = Append(us, p)
    BY <2>1 DEF us
  <2> HIDE DEF block
  <2> QED
    BY <2>4, <2>5, <2>6 DEF block
<1>3. CASE ~BlockStable(g)
  <2> DEFINE n == Probed(g, drafted)
             k == IF n > 0 /\ Mask(After(g, Upto(drafted, n))) = {} THEN n - 1 ELSE n
             us == Upto(drafted, m)
  <2>1. n \in 0 .. Len(drafted) /\ draft = Upto(drafted, k)
    BY <1>3, WalkLegal DEF Draft, Walked
  <2>2. k \in 0 .. Len(drafted) /\ k <= n
    <3> HIDE DEF n
    <3> QED
      BY <1>1, <2>1
  <2>3. Len(draft) = k /\ \A i \in 0 .. k : Upto(draft, i) = Upto(drafted, i)
    <3> HIDE DEF n, k
    <3> QED
      BY <2>1, <2>2, UptoUpto
  <2>4. m \in 0 .. k /\ Upto(draft, m) = us
    BY <2>3
  <2>5. m \in 0 .. Len(drafted) /\ m \in 0 .. n /\ m \in Nat
    <3> HIDE DEF n, k
    <3> QED
      BY <1>1, <2>1, <2>2, <2>4
  <2>6. p \in Mask(After(g, us))
    BY <1>3, <2>4 DEF MaskAt
  <2>7. \A i \in 1 .. m : MayFollow(offered, After(g, Upto(drafted, i - 1)), drafted[i])
    <3>1. \A i \in 1 .. m : i \in 1 .. n
      <4> HIDE DEF n
      <4> QED
        BY <2>1, <2>5, <1>1
    <3> QED
      BY <3>1, WalkLegal
  <2>8. us \in Seq(Tokens) /\ Len(us) = m
    BY <1>1, <2>5, UptoUpto
  <2>9. LegalIn(offered, g, us)
    BY <1>1, <2>5, <2>7, LegalUpto
  <2>10. After(g, us) \in Turns
    <3>1. Len(us) \in 0 .. Len(us) /\ Upto(us, Len(us)) = us
      BY <2>5, <2>8 DEF Upto
    <3> HIDE DEF us
    <3>2. After(g, Upto(us, Len(us))) \in Turns
      BY <2>8, <2>9, <3>1, PathKeeps
    <3> QED
      BY <3>1, <3>2
  <2>11. MayFollow(offered, After(g, us), p)
    <3> HIDE DEF us
    <3> QED
      BY <2>6, <2>10, MaskPermits
  <2>12. Append(us, p) \in Seq(Tokens) /\ LegalIn(offered, g, Append(us, p))
    <3> HIDE DEF us
    <3> QED
      BY <2>8, <2>9, <2>11, LegalAppend
  <2>13. ASSUME g.phase = "think" PROVE Append(us, p) = <<"think_close">>
    <3>1. AtThinkCap(g)
      BY <1>3, <2>13 DEF BlockStable
    <3>2. m = 0
      <4>1. ASSUME 1 \in 1 .. n PROVE FALSE
        <5>1. drafted[1] \in Mask(After(g, Upto(drafted, 1 - 1)))
          BY <4>1, WalkLegal
        <5>2. Upto(drafted, 1 - 1) = <<>>
          BY DEF Upto
        <5>3. drafted[1] \in Mask(g)
          BY <5>1, <5>2, AfterEmpty
        <5>4. drafted[1] = "think_close"
          BY <3>1, <5>3, MaskPermits
        <5>5. drafted[1] \in Words
          BY <1>1, <2>1, <4>1
        <5> QED
          BY <5>4, <5>5, WordIsNoMark
      <4> HIDE DEF n
      <4> QED
        BY <2>1, <2>5, <4>1, <1>1
    <3>3. us = <<>>
      BY <3>2 DEF Upto
    <3>4. p \in Mask(g)
      BY <2>6, <3>3, AfterEmpty
    <3>5. p = "think_close"
      BY <3>1, <3>4, MaskPermits
    <3> QED
      BY <3>3, <3>5
  <2>14. block = Append(us, p)
    BY <2>4
  <2> HIDE DEF block
  <2> QED
    BY <2>12, <2>13, <2>14 DEF block
<1> QED
  BY <1>2, <1>3

(* What was probed is taken back whole.                                    *)
LEMMA TakesBack ==
  ASSUME NEW g \in Turns, NEW h \in Turns, StartsAs(g.think, h.think), StartsAs(g.text, h.text)
  PROVE  RolledBack(g, h) = g
<1>1. Upto(h.think, Len(g.think)) = g.think /\ Upto(h.text, Len(g.text)) = g.text
  BY DEF StartsAs
<1> DEFINE a == Upto(h.think, Len(g.think))
           b == Upto(h.text, Len(g.text))
<1>2. RolledBack(g, h) = [h EXCEPT !.phase = g.phase, !.guard = g.guard, !.calls = g.calls, !.tool = g.tool,
                                   !.think = a, !.text = b]
  BY DEF RolledBack
<1> HIDE DEF a, b
<1>3. a = g.think /\ b = g.text
  BY <1>1 DEF a, b
<1>4. g = [phase |-> g.phase, guard |-> g.guard, think |-> g.think, text |-> g.text, calls |-> g.calls, tool |-> g.tool]
  BY DEF Turns
<1>5. DOMAIN h = {"phase", "guard", "think", "text", "calls", "tool"} /\ h = [x \in DOMAIN h |-> h[x]]
  BY DEF Turns
<1>6. RolledBack(g, h) = [phase |-> g.phase, guard |-> g.guard, think |-> a, text |-> b, calls |-> g.calls, tool |-> g.tool]
  BY <1>2, <1>5
<1> QED
  BY <1>3, <1>4, <1>6

LEMMA WalkLeaves ==
  ASSUME NEW g \in Turns, NEW drafted \in Seq(Words)
  PROVE  RolledBack(g, After(g, Upto(drafted, Probed(g, drafted)))) = g
<1> DEFINE n == Probed(g, drafted)
           us == Upto(drafted, n)
<1>1. drafted \in Seq(Tokens) /\ n \in 0 .. Len(drafted)
  BY WalkLegal DEF Tokens
<1>2. \A i \in 1 .. n : MayFollow(offered, After(g, Upto(drafted, i - 1)), drafted[i])
  BY WalkLegal
<1> HIDE DEF n
<1>3. us \in Seq(Tokens) /\ Len(us) = n /\ n \in Nat /\ LegalIn(offered, g, us)
  BY <1>1, <1>2, UptoUpto, LegalUpto
<1>4. Upto(us, Len(us)) = us /\ Len(us) \in 0 .. Len(us)
  BY <1>3 DEF Upto
<1> HIDE DEF us
<1>5. LET h == After(g, Upto(us, Len(us)))
      IN  h \in Turns /\ StartsAs(g.think, h.think) /\ StartsAs(g.text, h.text)
  BY <1>3, <1>4, PathKeeps
<1>6. RolledBack(g, After(g, us)) = g
  BY <1>4, <1>5, TakesBack
<1> QED
  BY <1>6 DEF us, n

-----------------------------------------------------------------------------
(* The inductive invariant, for the decode loop: what it committed may     *)
(* follow the turn so far, and fits in it.  For the thread that shows: it  *)
(* stands with each channel until it is gone, and then it showed all.      *)
TurnInv ==
  /\ grammar \in Turns /\ Fits(grammar) /\ Len(grammar.think) <= ThinkCap + DraftLength
  /\ given \in Seq(Tokens) /\ grammar = After(FreshTurn, given)
  /\ committed \in Seq(Tokens)
  /\ genPc \in {"step", "feed", "join", "done"}
  /\ verdict \in {"none", "cancelled", "capped", "error", "complete", "looped"}
  /\ closed <=> genPc \in {"join", "done"}
  /\ genPc = "feed" =>
       /\ committed # <<>> /\ LegalIn(offered, grammar, committed)
       /\ grammar.phase = "think" =>
            \/ Len(grammar.think) + Len(committed) <= ThinkCap + DraftLength
            \/ committed = <<"think_close">>
AllShown(g, sent) == \A c \in Channels : ShownIn(c, sent) = BytesOf(ProseOf(c, g))
AllStand(g, events, sent, s) == \A c \in Channels : Stands(c, ProseOf(c, g), events, sent, s)
ScreenTyped(events, sent, s) ==
  events \in Seq(Events) /\ Len(events) <= QueueSlots /\ s \in Showers /\ sent \in Seq(Emissions)
ScreenInv ==
  /\ ScreenTyped(queue, shown, shower)
  /\ genPc = "done" => shower.at = "gone"
  /\ shower.at = "gone" => closed /\ queue = <<>> /\ AllShown(grammar, shown)
  /\ shower.at # "gone" => AllStand(grammar, queue, shown, shower) /\ shown \in Seq(CleanEmissions)
GenInv == TurnInv /\ ScreenInv

LEMMA GenInvEnough == GenInv => TurnIsWhole /\ GenerationTypeOK
<1> SUFFICES ASSUME GenInv PROVE TurnIsWhole /\ GenerationTypeOK
  OBVIOUS
<1> USE DEF GenInv
<1>1. TurnIsLegal
  BY DEF TurnInv, TurnIsLegal
<1>2. ASSUME NEW c \in Channels
      PROVE  LET record == BytesOf(ProseOf(c, grammar))
             IN  IsPrefix(ShownIn(c, shown), record) /\ (genPc = "done" => ShownIn(c, shown) = record)
  <2>1. CASE shower.at = "gone"
    <3> DEFINE t == ShownIn(c, shown)
    <3>1. t = BytesOf(ProseOf(c, grammar))
      BY <2>1 DEF ScreenInv, ScreenTyped, AllShown, AllStand
    <3>2. t \in Seq(ByteKinds)
      BY ShownTyped DEF ScreenInv, ScreenTyped, AllShown, AllStand
    <3> HIDE DEF t
    <3>3. IsPrefix(t, t)
      BY ONLY <3>2 DEF IsPrefix
    <3> QED
      BY <3>1, <3>3 DEF t
  <2>2. CASE shower.at # "gone"
    <3>1. Stands(c, ProseOf(c, grammar), queue, shown, shower)
      BY <2>2 DEF ScreenInv, ScreenTyped, AllShown, AllStand
    <3>2. queue \in Seq(Events) /\ shown \in Seq(Emissions) /\ shower \in Showers /\ genPc # "done"
      BY <2>2 DEF ScreenInv, ScreenTyped, AllShown, AllStand
    <3> DEFINE prose == ProseOf(c, grammar)
    <3> HIDE DEF prose
    <3>3. IsPrefix(ShownIn(c, shown), BytesOf(prose))
      BY <3>1, <3>2, StandsEnough DEF prose
    <3> QED
      BY <3>2, <3>3 DEF prose
  <2> QED
    BY <2>1, <2>2
<1>3. ShownIsRecorded
  <2>1. \A c : ShownOf(c) = ShownIn(c, shown)
    BY DEF ShownOf, ShownIn
  <2>2. \A c : BytesOf(IF c = "thinking" THEN grammar.think ELSE grammar.text) = BytesOf(ProseOf(c, grammar))
    BY DEF ProseOf
  <2>3. ASSUME shower.at # "gone", NEW i \in DOMAIN shown
        PROVE  Len(shown[i].text) \in Readable(shown[i].text)
    <3>1. shown \in Seq(CleanEmissions)
      BY <2>3 DEF ScreenInv
    <3>2. shown[i] \in CleanEmissions
      BY <2>3, <3>1
    <3> QED
      BY <3>2 DEF CleanEmissions, Clean
  <2> QED
    BY <1>2, <2>1, <2>2, <2>3, Zenon DEF ShownIsRecorded
<1>4. GenerationTypeOK
  <2>1. grammar.phase \in {"think", "text", "call", "done"} /\ grammar.guard \in GuardStates
    BY DEF TurnInv, Turns
  <2> QED
    BY <2>1 DEF TurnInv, ScreenInv, ScreenTyped, Fits, GenerationTypeOK
<1> QED
  BY <1>1, <1>3, <1>4 DEF TurnIsWhole

LEMMA GenInvInit == GenerationInit => GenInv
<1> SUFFICES ASSUME GenerationInit PROVE GenInv
  OBVIOUS
<1> USE DEF GenerationInit
<1>1. <<>> \in Seq(Words) /\ <<>> \in Seq(Tokens) /\ <<>> \in Seq(Events) /\ <<>> \in Seq(Emissions) /\ <<>> \in Seq(ByteKinds)
  OBVIOUS
<1>2. TurnInv
  <2>1. FreshTurn \in Turns
    BY <1>1, GuardAssumption DEF FreshTurn, Turns
  <2>2. Fits(FreshTurn) /\ Len(FreshTurn.think) <= ThinkCap + DraftLength
    BY Caps DEF FreshTurn, Fits
  <2>3. After(FreshTurn, <<>>) = FreshTurn
    BY AfterEmpty
  <2> QED
    BY <1>1, <2>1, <2>2, <2>3 DEF TurnInv
<1>3. shower \in Showers
  <2>1. NothingHeld \in [Channels -> Seq(ByteKinds)] /\ "answer" \in Channels
    BY <1>1 DEF NothingHeld, Channels
  <2> QED
    BY <2>1, CleanEmpty DEF Showers
<1>4. ASSUME NEW c \in Channels PROVE Stands(c, ProseOf(c, grammar), queue, shown, shower)
  <2>1. ProseOf(c, grammar) = <<>> /\ PendingIn(c, shower) = <<>> /\ shower.held[c] = <<>>
    BY DEF ProseOf, PendingIn, FreshTurn, NothingHeld
  <2>2. QueuedIn(c, queue) = <<>> /\ ShownIn(c, shown) = <<>>
    BY ChainEmpty, ShownEmpty DEF QueuedIn
  <2>3. <<>> \o <<>> = <<>>
    OBVIOUS
  <2>4. TakenOf(c, <<>>, shown, shower)
    BY <2>1, <2>2, <2>3, BytesEmpty DEF TakenOf
  <2>5. ProseOf(c, grammar) = <<>> \o QueuedIn(c, queue)
    BY <2>1, <2>2, <2>3
  <2> QED
    BY <1>1, <2>4, <2>5, Zenon DEF Stands
<1>5. ScreenInv
  <2>1. shower.at = "loop" /\ genPc = "step" /\ queue = <<>> /\ shown = <<>>
    OBVIOUS
  <2>2. Len(queue) <= QueueSlots
    BY <2>1, Caps
  <2>3. shown \in Seq(CleanEmissions)
    BY <2>1
  <2> QED
    BY <1>1, <1>3, <1>4, <2>1, <2>2, <2>3 DEF ScreenInv, ScreenTyped, AllShown, AllStand
<1> QED
  BY <1>2, <1>5 DEF GenInv

LEMMA StopsGeneratingStep ==
  ASSUME GenInv, NEW how \in {"cancelled", "capped", "error"}, StopsGenerating(how) PROVE GenInv'
<1>1. /\ genPc = "step" /\ verdict' = how /\ genPc' = "join" /\ closed' = TRUE /\ committed' = <<>>
      /\ offered' = offered /\ grammar' = grammar /\ queue' = queue /\ shower' = shower
      /\ shown' = shown /\ given' = given
  BY DEF StopsGenerating, Ends, Settings
<1>2. <<>> \in Seq(Tokens)
  OBVIOUS
<1>3. TurnInv'
  BY <1>1, <1>2 DEF GenInv, TurnInv
<1>4. ScreenInv'
  BY <1>1 DEF GenInv, TurnInv, ScreenInv
<1> QED
  BY <1>3, <1>4 DEF GenInv

LEMMA CommitsKeep ==
  ASSUME GenInv, genPc = "step", NEW block \in Seq(Tokens), block # <<>>,
         LegalIn(offered, grammar, block),
         grammar.phase = "think" => \/ Len(grammar.think) + Len(block) <= ThinkCap + DraftLength
                                    \/ block = <<"think_close">>,
         Commit(block), grammar' = grammar
  PROVE  GenInv'
<1>1. /\ committed' = block /\ genPc' = "feed" /\ offered' = offered /\ verdict' = verdict
      /\ given' = given /\ queue' = queue /\ closed' = closed /\ shower' = shower /\ shown' = shown
  BY DEF Commit, Settings, Streaming
<1>2. TurnInv'
  BY <1>1 DEF GenInv, TurnInv
<1>3. ScreenInv'
  BY <1>1 DEF GenInv, TurnInv, ScreenInv
<1> QED
  BY <1>2, <1>3 DEF GenInv

LEMMA SamplesStep ==
  ASSUME GenInv, NEW p \in Tokens, Samples(p) PROVE GenInv'
<1> DEFINE g == grammar
           none == <<>>
<1>1. genPc = "step" /\ p \in Mask(g) /\ Commit(<<p>>) /\ grammar' = grammar
  BY DEF Samples
<1>2. g \in Turns /\ g.think \in Seq(Words) /\ Len(g.think) <= ThinkCap + DraftLength
  BY DEF GenInv, TurnInv, Turns
<1> HIDE DEF g
<1>3. MayFollow(offered, g, p) /\ (AtThinkCap(g) => p = "think_close")
  BY <1>1, <1>2, MaskPermits
<1>4. none \in Seq(Tokens) /\ Append(none, p) = <<p>> /\ Append(none, p) # <<>> /\ Len(<<p>>) = 1
      /\ Len(none) = 0 /\ \A i \in 1 .. 0 : FALSE
  OBVIOUS
<1>5. After(g, none) = g /\ LegalIn(offered, g, none)
  BY <1>4, AfterEmpty DEF LegalIn
<1> HIDE DEF none
<1>6. <<p>> \in Seq(Tokens) /\ LegalIn(offered, g, <<p>>) /\ <<p>> # <<>>
  <2>1. MayFollow(offered, After(g, none), p)
    BY <1>3, <1>5
  <2>2. Append(none, p) \in Seq(Tokens) /\ LegalIn(offered, g, Append(none, p))
    BY <1>4, <1>5, <2>1, LegalAppend
  <2> QED
    BY <1>4, <2>2
<1>7. g.phase = "think" => \/ Len(g.think) + Len(<<p>>) <= ThinkCap + DraftLength
                           \/ <<p>> = <<"think_close">>
  <2> DEFINE l == Len(g.think)
  <2>1. l \in Nat
    BY <1>2
  <2>2. CASE AtThinkCap(g)
    BY <1>3, <2>2
  <2>3. CASE ~AtThinkCap(g)
    <3>1. g.phase = "think" => ~(l >= ThinkCap)
      BY <2>3 DEF AtThinkCap
    <3> HIDE DEF l
    <3>2. g.phase = "think" => l + 1 <= ThinkCap + DraftLength
      BY <2>1, <3>1, Caps
    <3> QED
      BY <1>4, <3>2 DEF l
  <2> QED
    BY <2>2, <2>3
<1> QED
  BY <1>1, <1>6, <1>7, CommitsKeep DEF g

LEMMA DraftIs ==
  ASSUME NEW g, NEW drafted \in Seq(Words) PROVE Draft(g, drafted) \in Seq(Words)
<1> DEFINE k == Probed(g, drafted)
           j == IF k > 0 /\ Mask(After(g, Upto(drafted, k))) = {} THEN k - 1 ELSE k
<1>1. Walked(g, drafted) = Upto(drafted, j)
  BY DEF Walked
<1>2. k \in 0 .. Len(drafted) /\ Len(drafted) \in Nat
  BY WalkLegal
<1> HIDE DEF k
<1>3. j \in 0 .. Len(drafted)
  BY <1>2
<1> HIDE DEF j
<1>4. Walked(g, drafted) \in Seq(Words)
  BY <1>1, <1>3, UptoUpto
<1> QED
  BY <1>4 DEF Draft

LEMMA BlockStep ==
  ASSUME GenInv, NEW n \in 1 .. DraftLength, NEW drafted \in [1 .. n -> Words], NEW m \in 0 .. n,
         NEW p \in Tokens, SamplesBlock(drafted, m, p)
  PROVE  GenInv'
<1> DEFINE g == grammar
           draft == Draft(g, drafted)
           block == Append(Upto(draft, m), p)
<1>1. genPc = "step" /\ m <= Len(draft) /\ p \in MaskAt(g, draft, m) /\ Commit(block)
      /\ grammar' = GrammarAfterWalk(drafted)
  BY DEF SamplesBlock
<1>2. g \in Turns
  BY DEF GenInv, TurnInv
<1>3. drafted \in Seq(Words) /\ Len(drafted) = n /\ n \in Nat /\ n <= DraftLength
  BY Caps
<1>4. draft \in Seq(Words) /\ draft \in Seq(Tokens)
  <2>1. draft \in Seq(Words)
    BY <1>3, DraftIs
  <2> HIDE DEF draft
  <2> QED
    BY <2>1 DEF Tokens
<1>5. m \in 0 .. Len(draft)
  <2> HIDE DEF draft
  <2> QED
    BY <1>1, <1>4
<1>6. /\ block \in Seq(Tokens) /\ LegalIn(offered, g, block)
      /\ g.phase = "think" => \/ Len(g.think) + Len(block) <= ThinkCap + DraftLength
                              \/ block = <<"think_close">>
  <2> HIDE DEF g
  <2> QED
    BY <1>1, <1>2, <1>3, <1>5, BlockLegal
<1>7. block # <<>>
  <2> DEFINE us == Upto(draft, m)
  <2>1. us \in Seq(Tokens)
    <3> HIDE DEF draft
    <3> QED
      BY <1>4, <1>5, UptoUpto
  <2> HIDE DEF us
  <2>2. Append(us, p) # <<>>
    BY <2>1
  <2> QED
    BY <2>2 DEF us
<1>8. grammar' = grammar
  <2>1. RolledBack(g, After(g, Upto(drafted, Probed(g, drafted)))) = g
    <3> HIDE DEF g
    <3> QED
      BY <1>2, <1>3, WalkLeaves
  <2> QED
    BY <1>1, <2>1, Zenon DEF GrammarAfterWalk
<1> HIDE DEF block
<1> QED
  BY <1>1, <1>6, <1>7, <1>8, CommitsKeep DEF g

LEMMA JoinsStep == ASSUME GenInv, Joins PROVE GenInv'
<1>1. /\ genPc = "join" /\ shower.at = "gone" /\ genPc' = "done" /\ offered' = offered
      /\ queue' = queue /\ closed' = closed /\ shower' = shower /\ shown' = shown
      /\ grammar' = grammar /\ committed' = committed /\ verdict' = verdict /\ given' = given
  BY DEF Joins, Settings, Streaming
<1>2. TurnInv'
  BY <1>1 DEF GenInv, TurnInv
<1>3. ScreenInv'
  BY <1>1 DEF GenInv, TurnInv, ScreenInv
<1> QED
  BY <1>2, <1>3 DEF GenInv

(* The sink's step: where the token goes.                                  *)
LEMMA GrewIs ==
  ASSUME GenInv, NEW t, MayFollow(offered, grammar, t)
  PROVE  LET channel == GrewOf(Advanced(grammar, t))
         IN  \/ /\ channel = {}
                /\ \A c \in Channels : ProseOf(c, Advanced(grammar, t)) = ProseOf(c, grammar)
             \/ \E x \in Channels :
                  /\ channel = {x} /\ t \in Words
                  /\ \A c \in Channels :
                       ProseOf(c, Advanced(grammar, t)) =
                         IF x = c THEN Append(ProseOf(c, grammar), t) ELSE ProseOf(c, grammar)
<1> DEFINE g == grammar
           h == Advanced(g, t)
<1>1. g \in Turns /\ g.think \in Seq(Words) /\ g.text \in Seq(Words)
  BY DEF GenInv, TurnInv, Turns
<1>2. \A c \in Channels :
        ProseOf(c, h) = IF t \in Words /\ WritesTo(c, g) THEN Append(ProseOf(c, g), t) ELSE ProseOf(c, g)
  <2>1. MayFollow(offered, g, t)
    OBVIOUS
  <2> HIDE DEF g
  <2> QED
    BY <1>1, <2>1, StepKeeps
<1> HIDE DEF h
<1>3. "thinking" \in Channels /\ "answer" \in Channels /\ \A c \in Channels : c = "thinking" \/ c = "answer"
  BY DEF Channels
<1>4. /\ h.think = IF t \in Words /\ g.phase = "think" THEN Append(g.think, t) ELSE g.think
      /\ h.text = IF t \in Words /\ g.phase = "text" THEN Append(g.text, t) ELSE g.text
  <2>1. \A x : ProseOf("thinking", x) = x.think /\ ProseOf("answer", x) = x.text
    BY DEF ProseOf
  <2>2. \A x : (WritesTo("thinking", x) <=> x.phase = "think") /\ (WritesTo("answer", x) <=> x.phase = "text")
    BY DEF WritesTo
  <2>3. /\ ProseOf("thinking", h) = IF t \in Words /\ WritesTo("thinking", g) THEN Append(ProseOf("thinking", g), t) ELSE ProseOf("thinking", g)
        /\ ProseOf("answer", h) = IF t \in Words /\ WritesTo("answer", g) THEN Append(ProseOf("answer", g), t) ELSE ProseOf("answer", g)
    BY <1>2, <1>3, Zenon
  <2> QED
    BY <2>1, <2>2, <2>3
<1>5. GrewOf(h) = IF Len(h.think) > Len(g.think) THEN {"thinking"}
                  ELSE IF Len(h.text) > Len(g.text) THEN {"answer"} ELSE {}
  BY DEF GrewOf
<1> HIDE DEF g
<1>6. \A x \in Seq(Words) : Len(x) \in Nat /\ ~(Len(x) > Len(x)) /\ (t \in Words => Len(Append(x, t)) > Len(x))
  OBVIOUS
<1>7. CASE t \in Words /\ g.phase = "think"
  <2>1. GrewOf(h) = {"thinking"}
    BY <1>1, <1>4, <1>5, <1>6, <1>7
  <2>2. \A c \in Channels : WritesTo(c, g) <=> "thinking" = c
    BY <1>3, <1>7 DEF WritesTo
  <2>3. \A c \in Channels : ProseOf(c, h) = IF "thinking" = c THEN Append(ProseOf(c, g), t) ELSE ProseOf(c, g)
    BY <1>2, <1>7, <2>2
  <2> QED
    BY <1>3, <1>7, <2>1, <2>3 DEF g, h
<1>8. CASE t \in Words /\ g.phase = "text"
  <2>1. GrewOf(h) = {"answer"}
    BY <1>1, <1>4, <1>5, <1>6, <1>8
  <2>2. \A c \in Channels : WritesTo(c, g) <=> "answer" = c
    BY <1>3, <1>8 DEF WritesTo
  <2>3. \A c \in Channels : ProseOf(c, h) = IF "answer" = c THEN Append(ProseOf(c, g), t) ELSE ProseOf(c, g)
    BY <1>2, <1>8, <2>2
  <2> QED
    BY <1>3, <1>8, <2>1, <2>3 DEF g, h
<1>9. CASE t \notin Words \/ g.phase \notin {"think", "text"}
  <2>1. GrewOf(h) = {}
    BY <1>1, <1>4, <1>5, <1>6, <1>9
  <2>2. \A c \in Channels : t \in Words => ~WritesTo(c, g)
    BY <1>3, <1>9 DEF WritesTo
  <2>3. \A c \in Channels : ProseOf(c, h) = ProseOf(c, g)
    BY <1>2, <2>2
  <2> QED
    BY <2>1, <2>3 DEF g, h
<1> QED
  BY <1>7, <1>8, <1>9

LEMMA TokenTurn ==
  ASSUME GenInv, OnToken
  PROVE  /\ TurnInv' /\ genPc = "feed" /\ genPc' # "done"
         /\ MayFollow(offered, grammar, Head(committed))
         /\ grammar' = Advanced(grammar, Head(committed))
<1> DEFINE t == Head(committed)
           g == Advanced(grammar, t)
           rest == Tail(committed)
<1>1. /\ genPc = "feed" /\ committed \in Seq(Tokens) /\ committed # <<>>
      /\ LegalIn(offered, grammar, committed) /\ offered' = offered
      /\ grammar \in Turns /\ Fits(grammar) /\ ~closed
  BY DEF GenInv, TurnInv, OnToken, Settings
<1>2. MayFollow(offered, grammar, t) /\ rest \in Seq(Tokens) /\ LegalIn(offered, g, rest)
  BY <1>1, LegalTail
<1>3. Accepts(grammar, t) /\ t \in Tokens
  BY <1>2, AcceptsIs DEF MayFollow
<1> HIDE DEF t, rest
<1>4. /\ grammar' = g /\ given' = Append(given, t)
      /\ \/ /\ verdict' \in {"complete", "looped", "capped"} /\ genPc' = "join" /\ closed' = TRUE /\ committed' = <<>>
         \/ /\ committed' = rest /\ genPc' = (IF Len(committed) = 1 THEN "step" ELSE "feed")
            /\ verdict' = verdict /\ closed' = closed
  <2>1. grammar' = g /\ given' = Append(given, t)
    BY <1>3, Zenon DEF OnToken, t, rest
  <2>2. \/ Ends("complete") \/ Ends("looped") \/ Ends("capped")
        \/ /\ committed' = rest /\ genPc' = (IF Len(committed) = 1 THEN "step" ELSE "feed")
           /\ verdict' = verdict /\ closed' = closed
    BY <1>3, Zenon DEF OnToken, t, rest
  <2> QED
    BY <2>1, <2>2 DEF Ends
<1>5. g \in Turns /\ Fits(g)
  <2> HIDE DEF g
  <2> QED
    BY <1>1, <1>2, StepKeeps DEF g
<1>6. given' \in Seq(Tokens) /\ g = After(FreshTurn, Append(given, t))
  <2>1. given \in Seq(Tokens) /\ grammar = After(FreshTurn, given)
    BY DEF GenInv, TurnInv
  <2>2. After(FreshTurn, Append(given, t)) = Advanced(After(FreshTurn, given), t)
    BY <1>3, <2>1, AfterAppend
  <2>3. Append(given, t) \in Seq(Tokens)
    BY <1>3, <2>1
  <2> QED
    BY <1>4, <2>1, <2>2, <2>3
<1>7. /\ Len(g.think) <= ThinkCap + DraftLength
      /\ g.phase = "think" => \/ Len(g.think) + Len(rest) <= ThinkCap + DraftLength
                              \/ rest = <<"think_close">>
  <2> DEFINE a == Len(grammar.think)
             b == Len(g.think)
             k == Len(committed)
             j == Len(rest)
  <2>1. grammar.think \in Seq(Words)
    BY <1>1 DEF Turns
  <2>2. k = j + 1 /\ k \in Nat /\ j \in Nat
    BY <1>1 DEF rest
  <2>3. b = a \/ (t \in Words /\ grammar.phase = "think" /\ b = a + 1)
    <3>1. "thinking" \in Channels
      BY DEF Channels
    <3>2. ProseOf("thinking", g) = IF t \in Words /\ WritesTo("thinking", grammar) THEN Append(ProseOf("thinking", grammar), t) ELSE ProseOf("thinking", grammar)
      <4>1. \A c \in Channels : ProseOf(c, Advanced(grammar, t)) = IF t \in Words /\ WritesTo(c, grammar) THEN Append(ProseOf(c, grammar), t) ELSE ProseOf(c, grammar)
        BY <1>1, <1>2, StepKeeps
      <4> QED
        BY <3>1, <4>1, Zenon
    <3>3. g.think = grammar.think \/ (t \in Words /\ grammar.phase = "think" /\ g.think = Append(grammar.think, t))
      <4>1. \A x : ProseOf("thinking", x) = x.think /\ (WritesTo("thinking", x) <=> x.phase = "think")
        BY DEF ProseOf, WritesTo
      <4> HIDE DEF g
      <4> QED
        BY <3>2, <4>1
    <3>4. t \in Words => Len(Append(grammar.think, t)) = a + 1
      BY <2>1
    <3> HIDE DEF g
    <3> QED
      BY <3>3, <3>4
  <2>4. g.phase = "think" => grammar.phase = "think" /\ t # "think_close"
    <3>1. g.phase = "think" => grammar.phase = "think" /\ t \in Words
      BY <1>1, <1>2, StepKeeps
    <3> QED
      BY <3>1, WordIsNoMark
  <2>5. a \in Nat /\ a <= ThinkCap + DraftLength
    BY <2>1 DEF GenInv, TurnInv
  <2>6. grammar.phase = "think" => a + k <= ThinkCap + DraftLength \/ committed = <<"think_close">>
    BY <1>1 DEF GenInv, TurnInv
  <2>7. committed = <<"think_close">> => t = "think_close"
    BY DEF t
  <2>8. t \in Words => t # "think_close"
    BY WordIsNoMark
  <2> HIDE DEF a, b, k, j, g
  <2>9. b <= ThinkCap + DraftLength /\ (g.phase = "think" => b + j <= ThinkCap + DraftLength)
    <3>1. CASE b = a
      <4>1. g.phase = "think" => a + k <= ThinkCap + DraftLength
        BY <2>4, <2>6, <2>7
      <4> QED
        BY <2>2, <2>5, <3>1, <4>1, Caps
    <3>2. CASE t \in Words /\ grammar.phase = "think" /\ b = a + 1
      <4>1. a + k <= ThinkCap + DraftLength
        BY <2>6, <2>7, <2>8, <3>2
      <4> QED
        BY <2>2, <2>5, <3>2, <4>1, Caps
    <3> QED
      BY <2>3, <3>1, <3>2
  <2> QED
    BY <2>9 DEF b, j
<1>8. Len(committed) # 1 => rest # <<>>
  <2>1. Len(committed) = Len(rest) + 1 /\ Len(<<>>) = 0
    BY <1>1 DEF rest
  <2> QED
    BY <2>1
<1>9. <<>> \in Seq(Tokens)
  OBVIOUS
<1> HIDE DEF g
<1>10. TurnInv'
  <2>1. verdict \in {"none", "cancelled", "capped", "error", "complete", "looped"}
    BY DEF GenInv, TurnInv
  <2>2. /\ grammar' \in Turns /\ Fits(grammar') /\ Len(grammar'.think) <= ThinkCap + DraftLength
        /\ given' \in Seq(Tokens) /\ grammar' = After(FreshTurn, given')
    BY <1>4, <1>5, <1>6, <1>7
  <2>3. CASE /\ verdict' \in {"complete", "looped", "capped"} /\ genPc' = "join" /\ closed' = TRUE /\ committed' = <<>>
    BY <1>9, <2>2, <2>3 DEF TurnInv
  <2>4. CASE /\ committed' = rest /\ genPc' = (IF Len(committed) = 1 THEN "step" ELSE "feed")
             /\ verdict' = verdict /\ closed' = closed
    <3>1. LegalIn(offered', grammar', committed')
      BY <1>1, <1>2, <1>4, <2>4
    <3>2. grammar'.phase = "think" => \/ Len(grammar'.think) + Len(committed') <= ThinkCap + DraftLength
                                      \/ committed' = <<"think_close">>
      BY <1>4, <1>7, <2>4
    <3>3. genPc' \in {"step", "feed"} /\ (genPc' = "feed" => committed' # <<>>)
      BY <1>8, <2>4
    <3> QED
      BY <1>1, <1>2, <2>1, <2>2, <2>4, <3>1, <3>2, <3>3 DEF TurnInv
  <2> QED
    BY <1>4, <2>3, <2>4
<1> QED
  BY <1>1, <1>2, <1>4, <1>10 DEF t, g

LEMMA OnTokenStep == ASSUME GenInv, OnToken PROVE GenInv'
<1> DEFINE t == Head(committed)
           g == Advanced(grammar, t)
           channel == GrewOf(g)
           e == [id |-> t, channel |-> CHOOSE c \in channel : TRUE]
<1>1. TurnInv' /\ genPc = "feed" /\ genPc' # "done" /\ MayFollow(offered, grammar, t) /\ grammar' = g
  BY TokenTurn
<1>2. Accepts(grammar, t)
  BY <1>1, AcceptsIs DEF MayFollow
<1>3. /\ channel # {} => Len(queue) < QueueSlots
      /\ queue' = queue \o (IF channel = {} THEN <<>> ELSE <<e>>)
      /\ shower' = shower /\ shown' = shown
  <2> DEFINE h == IF Accepts(grammar, t) THEN g ELSE grammar
  <2>1. /\ GrewOf(h) # {} => Len(queue) < QueueSlots
        /\ queue' = queue \o (IF GrewOf(h) = {} THEN <<>>
                              ELSE <<[id |-> t, channel |-> CHOOSE c \in GrewOf(h) : TRUE]>>)
    BY Zenon DEF OnToken
  <2>2. h = g
    BY <1>2
  <2>3. shower' = shower /\ shown' = shown
    BY DEF OnToken
  <2> HIDE DEF g, h, t
  <2> QED
    BY <2>1, <2>2, <2>3
<1>4. \/ /\ channel = {}
         /\ \A c \in Channels : ProseOf(c, g) = ProseOf(c, grammar)
      \/ \E x \in Channels :
           /\ channel = {x} /\ t \in Words
           /\ \A c \in Channels : ProseOf(c, g) = IF x = c THEN Append(ProseOf(c, grammar), t) ELSE ProseOf(c, grammar)
  <2> HIDE DEF t
  <2> QED
    BY <1>1, GrewIs
<1> HIDE DEF t, g, channel
<1>5. /\ queue \in Seq(Events) /\ Len(queue) <= QueueSlots /\ Len(queue) \in Nat
      /\ shower \in Showers /\ shown \in Seq(Emissions) /\ shower.at # "gone"
      /\ shown \in Seq(CleanEmissions)
      /\ \A c \in Channels : Stands(c, ProseOf(c, grammar), queue, shown, shower)
  BY <1>1 DEF GenInv, TurnInv, ScreenInv, ScreenTyped, AllStand
<1>6. /\ queue' \in Seq(Events) /\ Len(queue') <= QueueSlots
      /\ \A c \in Channels : Stands(c, ProseOf(c, g), queue', shown, shower)
  <2>1. CASE channel = {} /\ \A c \in Channels : ProseOf(c, g) = ProseOf(c, grammar)
    <3>1. queue' = queue
      <4>1. queue' = queue \o <<>>
        BY <1>3, <2>1
      <4> QED
        BY <1>5, <4>1
    <3> QED
      BY <1>5, <2>1, <3>1
  <2>2. CASE \E x \in Channels :
               /\ channel = {x} /\ t \in Words
               /\ \A c \in Channels : ProseOf(c, g) = IF x = c THEN Append(ProseOf(c, grammar), t) ELSE ProseOf(c, grammar)
    <3>1. PICK x \in Channels :
            /\ channel = {x} /\ t \in Words
            /\ \A c \in Channels : ProseOf(c, g) = IF x = c THEN Append(ProseOf(c, grammar), t) ELSE ProseOf(c, grammar)
      BY <2>2
    <3> DEFINE event == [id |-> t, channel |-> x]
    <3>2. (CHOOSE c \in channel : TRUE) = x
      BY <3>1
    <3>3. event \in Events /\ event.id = t /\ event.channel = x
      BY <3>1 DEF Events
    <3>4. queue' = queue \o <<event>>
      BY <1>3, <3>1, <3>2
    <3> HIDE DEF event
    <3>5. queue' = Append(queue, event)
      BY <1>5, <3>3, <3>4
    <3>6. queue' \in Seq(Events) /\ Len(queue') = Len(queue) + 1
      BY <1>5, <3>3, <3>5
    <3>7. Len(queue') <= QueueSlots
      BY <1>3, <1>5, <3>1, <3>6, Caps
    <3>8. ASSUME NEW c \in Channels PROVE Stands(c, ProseOf(c, g), queue', shown, shower)
      <4> DEFINE prose == ProseOf(c, grammar)
      <4>1. ProseOf(c, g) = IF event.channel = c THEN Append(prose, event.id) ELSE prose
        BY <3>1, <3>3
      <4>2. Stands(c, prose, queue, shown, shower)
        BY <1>5
      <4> HIDE DEF prose
      <4>3. Stands(c, IF event.channel = c THEN Append(prose, event.id) ELSE prose, Append(queue, event), shown, shower)
        BY <1>5, <3>3, <4>2, PushStands
      <4> QED
        BY <3>5, <4>1, <4>3
    <3> QED
      BY <3>6, <3>7, <3>8
  <2> QED
    BY <1>4, <2>1, <2>2
<1>7. ScreenInv'
  <2>1. ScreenTyped(queue', shown', shower') /\ AllStand(grammar', queue', shown', shower')
    BY <1>1, <1>3, <1>5, <1>6, Zenon DEF ScreenTyped, AllStand
  <2>2. shower'.at # "gone" /\ genPc' # "done" /\ shown' \in Seq(CleanEmissions)
    BY <1>1, <1>3, <1>5
  <2> QED
    BY <2>1, <2>2 DEF ScreenInv
<1> QED
  BY <1>1, <1>7 DEF GenInv

(* The thread that shows.                                                  *)
LEMMA ShowerLeaves ==
  ASSUME GenInv, ShowerStands, ScreenInv' PROVE GenInv'
<1>1. /\ grammar' = grammar /\ offered' = offered /\ committed' = committed /\ genPc' = genPc
      /\ verdict' = verdict /\ closed' = closed /\ given' = given
  BY DEF ShowerStands
<1>2. TurnInv'
  BY <1>1 DEF GenInv, TurnInv
<1> QED
  BY <1>2 DEF GenInv

LEMMA PopsStep == ASSUME GenInv, Pops PROVE GenInv'
<1> DEFINE next == PoppedBy(queue, shower)
           after == PoppedShown(queue, shown, shower)
<1>1. /\ shower.at = "loop" /\ queue # <<>> /\ shower' = next /\ queue' = Tail(queue) /\ ShowerStands
  BY Zenon DEF Pops, PoppedBy
<1>2. shown' = after
  BY Zenon DEF Pops, PoppedShown, Emitted, EmittedIn
<1>3. /\ queue \in Seq(Events) /\ Len(queue) <= QueueSlots
      /\ shower \in Showers /\ shown \in Seq(Emissions) /\ genPc # "done"
      /\ shown \in Seq(CleanEmissions)
      /\ \A c \in Channels : Stands(c, ProseOf(c, grammar), queue, shown, shower)
  BY <1>1 DEF GenInv, ScreenInv, ScreenTyped, AllStand
<1>4. grammar' = grammar /\ genPc' = genPc /\ next.at = "ask"
  BY <1>1 DEF ShowerStands, PoppedBy
<1>5. ASSUME NEW c \in Channels PROVE Stands(c, ProseOf(c, grammar), Tail(queue), after, next)
  <2> DEFINE prose == ProseOf(c, grammar)
  <2>1. Stands(c, prose, queue, shown, shower)
    BY <1>3
  <2> HIDE DEF prose
  <2>2. Stands(c, prose, Tail(queue), after, next)
    BY <1>1, <1>3, <2>1, PopStands
  <2> QED
    BY <2>2 DEF prose
<1>6. next \in Showers /\ after \in Seq(CleanEmissions) /\ after \in Seq(Emissions)
  <2>1. next \in Showers /\ after \in Seq(CleanEmissions)
    BY <1>1, <1>3, PopTyped
  <2> QED
    BY <2>1, CleanIsTyped
<1> HIDE DEF next, after
<1>7. Tail(queue) \in Seq(Events) /\ Len(Tail(queue)) <= QueueSlots
  BY <1>1, <1>3, Caps
<1>8. ScreenInv'
  <2>1. shower' \in Showers /\ shown' \in Seq(Emissions) /\ shown' \in Seq(CleanEmissions)
    BY <1>1, <1>2, <1>6
  <2>2. shower'.at = "ask" /\ genPc' # "done"
    BY <1>1, <1>3, <1>4
  <2>3. \A c \in Channels : Stands(c, ProseOf(c, grammar'), queue', shown', shower')
    BY <1>1, <1>2, <1>4, <1>5
  <2> QED
    <3>1. ScreenTyped(queue', shown', shower') /\ AllStand(grammar', queue', shown', shower')
      BY <1>1, <1>7, <2>1, <2>3, Zenon DEF ScreenTyped, AllStand
    <3> QED
      BY <2>1, <2>2, <3>1 DEF ScreenInv
<1> QED
  BY <1>1, <1>8, ShowerLeaves

LEMMA AsksStep == ASSUME GenInv, AsksForMore PROVE GenInv'
<1>1. shower.at = "ask" /\ queue' = queue /\ ShowerStands
  BY DEF AsksForMore
<1>2. /\ queue \in Seq(Events) /\ Len(queue) <= QueueSlots
      /\ shower \in Showers /\ shown \in Seq(Emissions) /\ genPc # "done"
      /\ shown \in Seq(CleanEmissions)
      /\ \A c \in Channels : Stands(c, ProseOf(c, grammar), queue, shown, shower)
  BY <1>1 DEF GenInv, ScreenInv, ScreenTyped, AllStand
<1>3. grammar' = grammar /\ genPc' = genPc
  BY <1>1 DEF ShowerStands
<1>4. /\ shower' \in Showers /\ shower'.at = "loop" /\ shown' \in Seq(CleanEmissions)
      /\ \A c \in Channels : Stands(c, ProseOf(c, grammar), queue, shown', shower')
  <2>1. CASE queue = <<>>
    <3> DEFINE next == [shower EXCEPT !.at = "loop", !.text = <<>>]
               after == EmittedIn(shower, shown)
    <3>1. shown' = after /\ shower' = next
      BY <2>1, Zenon DEF AsksForMore, Emitted, EmittedIn
    <3>2. next \in Showers /\ next.at = "loop"
      BY <1>2, CleanEmpty DEF Showers
    <3>3. after \in Seq(CleanEmissions)
      BY <1>2, EmitClean
    <3>4. ASSUME NEW c \in Channels PROVE Stands(c, ProseOf(c, grammar), queue, after, next)
      BY <1>2, AskStands
    <3> QED
      BY <3>1, <3>2, <3>3, <3>4
  <2>2. CASE queue # <<>>
    <3> DEFINE next == [shower EXCEPT !.at = "loop"]
    <3>1. shown' = shown /\ shower' = next
      BY <2>2, Zenon DEF AsksForMore
    <3>2. /\ next \in Showers /\ next.at = "loop" /\ next.channel = shower.channel
          /\ next.text = shower.text /\ next.held = shower.held
      BY <1>2 DEF Showers
    <3> HIDE DEF next
    <3>3. ASSUME NEW c \in Channels PROVE Stands(c, ProseOf(c, grammar), queue, shown, next)
      <4>1. PendingIn(c, next) = PendingIn(c, shower)
        BY <3>2 DEF PendingIn
      <4>2. \A took : TakenOf(c, took, shown, next) <=> TakenOf(c, took, shown, shower)
        BY <3>2, <4>1 DEF TakenOf
      <4>3. Stands(c, ProseOf(c, grammar), queue, shown, shower)
        BY <1>2
      <4> QED
        BY <4>2, <4>3 DEF Stands
    <3> QED
      BY <1>2, <3>1, <3>2, <3>3
  <2> QED
    BY <2>1, <2>2
<1>5. ScreenInv'
  <2>0. shown' \in Seq(Emissions)
    BY <1>4, CleanIsTyped
  <2>1. ScreenTyped(queue', shown', shower') /\ AllStand(grammar', queue', shown', shower')
    BY <1>1, <1>2, <1>3, <1>4, <2>0, Zenon DEF ScreenTyped, AllStand
  <2> QED
    BY <1>2, <1>3, <1>4, <2>1 DEF ScreenInv
<1> QED
  BY <1>1, <1>5, ShowerLeaves

LEMMA LeavesStep == ASSUME GenInv, Leaves PROVE GenInv'
<1> DEFINE all == (EmittedIn(shower, shown) \o LastOf("thinking", shower)) \o LastOf("answer", shower)
           next == [shower EXCEPT !.at = "gone", !.text = <<>>, !.held = NothingHeld]
<1>1. shower.at = "loop" /\ queue = <<>> /\ closed /\ shower' = next /\ queue' = queue /\ ShowerStands
  BY DEF Leaves
<1>2. shown' = all
  BY Zenon DEF Leaves, Emitted, EmittedIn, LastOf
<1>3. /\ queue \in Seq(Events) /\ Len(queue) <= QueueSlots
      /\ shower \in Showers /\ shown \in Seq(Emissions)
      /\ \A c \in Channels : Stands(c, ProseOf(c, grammar), <<>>, shown, shower)
  BY <1>1 DEF GenInv, ScreenInv, ScreenTyped, AllStand
<1>4. grammar' = grammar /\ closed' = closed
  BY <1>1 DEF ShowerStands
<1>5. next \in Showers /\ next.at = "gone"
  <2>1. <<>> \in Seq(ByteKinds)
    OBVIOUS
  <2>2. NothingHeld \in [Channels -> Seq(ByteKinds)]
    BY <2>1 DEF NothingHeld
  <2> QED
    BY <1>3, <2>2, CleanEmpty DEF Showers
<1>6. ASSUME NEW c \in Channels
      PROVE  all \in Seq(Emissions) /\ ShownIn(c, all) = BytesOf(ProseOf(c, grammar))
  <2> DEFINE prose == ProseOf(c, grammar)
  <2>1. Stands(c, prose, <<>>, shown, shower)
    BY <1>3
  <2> HIDE DEF prose
  <2>2. all \in Seq(Emissions) /\ ShownIn(c, all) = BytesOf(prose)
    BY <1>3, <2>1, LeaveShows
  <2> QED
    BY <2>2 DEF prose
<1>7. "thinking" \in Channels
  BY DEF Channels
<1> HIDE DEF all, next
<1>8. ScreenInv'
  <2>1. shown' \in Seq(Emissions)
    BY <1>2, <1>6, <1>7
  <2>2. ScreenTyped(queue', shown', shower')
    BY <1>1, <1>3, <1>5, <2>1, Zenon DEF ScreenTyped
  <2>3. AllShown(grammar', shown')
    BY <1>2, <1>4, <1>6, Zenon DEF AllShown
  <2>4. closed' /\ queue' = <<>> /\ shower'.at = "gone"
    BY <1>1, <1>4, <1>5
  <2> QED
    BY <2>2, <2>3, <2>4 DEF ScreenInv
<1> QED
  BY <1>1, <1>8, ShowerLeaves

LEMMA GenInvNext == GenInv /\ [GenerationNext]_generationVars => GenInv'
<1> SUFFICES ASSUME GenInv, [GenerationNext]_generationVars PROVE GenInv'
  OBVIOUS
<1>1. ASSUME NEW how \in {"cancelled", "capped", "error"}, StopsGenerating(how) PROVE GenInv'
  BY <1>1, StopsGeneratingStep
<1>2. ASSUME NEW p \in Tokens, Samples(p) PROVE GenInv'
  BY <1>2, SamplesStep
<1>3. ASSUME NEW n \in 1 .. DraftLength, NEW drafted \in [1 .. n -> Words], NEW m \in 0 .. n,
             NEW p \in Tokens, SamplesBlock(drafted, m, p)
      PROVE  GenInv'
  BY <1>3, BlockStep
<1>4. CASE OnToken
  BY <1>4, OnTokenStep
<1>5. CASE Joins
  BY <1>5, JoinsStep
<1>6. CASE Pops
  BY <1>6, PopsStep
<1>7. CASE AsksForMore
  BY <1>7, AsksStep
<1>8. CASE Leaves
  BY <1>8, LeavesStep
<1>9. CASE UNCHANGED generationVars
  <2>1. TurnInv'
    BY <1>9 DEF generationVars, GenInv, TurnInv
  <2>2. ScreenInv'
    BY <1>9 DEF generationVars, GenInv, ScreenInv
  <2> QED
    BY <2>1, <2>2 DEF GenInv
<1> QED
  BY <1>1, <1>2, <1>3, <1>4, <1>5, <1>6, <1>7, <1>8, <1>9, Zenon DEF GenerationNext

(* The grammar refuses no token the masks let through and keeps nothing of *)
(* a draft it probed, and what is shown of a turn is what it records:      *)
(* rollback and the masks in src/model/grammar.cpp, TokenStreamer.         *)
THEOREM TurnStaysWhole == GenerationSpec => []TurnIsWhole
<1>1. GenerationSpec => []GenInv
  BY GenInvInit, GenInvNext, PTL DEF GenerationSpec
<1> QED
  BY <1>1, GenInvEnough, PTL

-----------------------------------------------------------------------------
(***************************************************************************)
(* The types of the parts whose invariants above say nothing of them, and  *)
(* then the parts side by side.                                            *)
(*                                                                         *)
(* A turn's calls are one more recursion, over a step that reads the loop: *)
(* whatever each of them does, the batch stays a record that says whether  *)
(* a list is open and what the run halts for.                              *)
(***************************************************************************)
Halting == {"none", "ended", "awaiting_user", "plan_ready"}
Reasons == Halting \union {"stalled", "cancelled", "max_turns", "out_of_time", "backend_error"}

UnderWay(s) ==
  /\ DOMAIN s = {"at", "counted", "open", "halt", "results"}
  /\ s.open \in BOOLEAN /\ s.halt \in Halting

LEMMA CallKeepsBatch ==
  ASSUME NEW batch, NEW each \in Calls, NEW s, UnderWay(s)
  PROVE  UnderWay(RunsCall(batch, s, each))
<1>1. ASSUME NEW r PROVE UnderWay(Returns(s, r)) /\ Returns(s, r).halt = s.halt
  BY DEF UnderWay, Returns
<1>2. ASSUME NEW n PROVE UnderWay(Read(s, n))
  BY <1>1, Zenon DEF Read
<1>3. ASSUME NEW why \in Halting PROVE UnderWay(Halts(s, why))
  <2> DEFINE r == Returns(s, Result(TRUE, TRUE, FALSE))
  <2>1. UnderWay(r)
    BY <1>1
  <2>2. Halts(s, why) = [r EXCEPT !.halt = why]
    BY DEF Halts
  <2> HIDE DEF r
  <2> QED
    BY <2>1, <2>2 DEF UnderWay
<1>4. UnderWay(RunsAhead(s, each))
  BY <1>1, <1>2, Zenon DEF RunsAhead
<1>5. CASE each.kind = "write"
  <2> DEFINE r == Returns(s, Result(TRUE, TRUE, TRUE))
             d == [r EXCEPT !.at = @ + 1, !.counted = TRUE]
  <2>1. UnderWay(r)
    BY <1>1
  <2>2. Dispatch(s, each) = d
    BY <1>5 DEF Dispatch
  <2> HIDE DEF r
  <2>3. UnderWay(d)
    BY <2>1 DEF UnderWay
  <2> QED
    BY <1>4, <2>2, <2>3, Zenon DEF RunsCall
<1>6. CASE each.kind = "build"
  <2> DEFINE r == Returns(s, Result(TRUE, ~each.again, ~each.again))
             d == [r EXCEPT !.at = IF each.moves THEN @ + 1 ELSE @, !.counted = @ \/ each.ok]
  <2>1. UnderWay(r)
    BY <1>1
  <2>2. Dispatch(s, each) = d
    BY <1>6 DEF Dispatch
  <2> HIDE DEF r
  <2>3. UnderWay(d)
    BY <2>1 DEF UnderWay
  <2> QED
    BY <1>4, <2>2, <2>3, Zenon DEF RunsCall
<1>7. CASE each.kind = "plan" /\ ~PlanLocked
  <2> DEFINE r == Returns(s, Result(TRUE, each.open \notin sentLists, each.open \notin sentLists))
             d == [r EXCEPT !.open = each.open]
  <2>1. UnderWay(r)
    BY <1>1
  <2>2. Dispatch(s, each) = d
    BY <1>7 DEF Dispatch
  <2>3. each.open \in BOOLEAN
    BY <1>7 DEF Calls
  <2> HIDE DEF r
  <2>4. UnderWay(d)
    BY <2>1, <2>3 DEF UnderWay
  <2> QED
    BY <1>4, <2>2, <2>4, Zenon DEF RunsCall
<1>8. CASE ~(each.kind = "write" \/ each.kind = "build" \/ (each.kind = "plan" /\ ~PlanLocked))
  <2>1. \/ Dispatch(s, each) = Read(s, s.at)
        \/ \E why \in Halting : Dispatch(s, each) = Halts(s, why)
        \/ \E r : Dispatch(s, each) = Returns(s, r)
    BY <1>8 DEF Dispatch, Halting
  <2>2. UnderWay(Dispatch(s, each))
    BY <1>1, <1>2, <1>3, <2>1
  <2> QED
    BY <1>4, <2>2, Zenon DEF RunsCall
<1> QED
  BY <1>5, <1>6, <1>7, <1>8

(* That a batch has a result at all, by the least call at which the finite *)
(* approximations would end.                                               *)
CallsRun(f, batch, N) ==
  f[0] = Started /\ \A n \in 1 .. N : f[n] = RunsCall(batch, f[n - 1], batch[n])
BatchStepped(f, batch, N) ==
  [n \in 0 .. N |-> IF n = 0 THEN Started ELSE RunsCall(batch, f[n - 1], batch[n])]

LEMMA CallsRunExists ==
  ASSUME NEW batch, NEW N \in Nat
  PROVE  \E f : f = BatchStepped(f, batch, N) /\ CallsRun(f, batch, N)
<1> DEFINE Has(n) == \E f : f = [k \in 0 .. n |-> f[k]] /\ CallsRun(f, batch, n)
           Fails == {n \in Nat : ~Has(n)}
<1>1. ASSUME Fails # {} PROVE FALSE
  <2>1. PICK m \in Fails : \A n \in Fails : m <= n
    <3>1. Fails \in SUBSET Nat
      OBVIOUS
    <3> HIDE DEF Fails
    <3> QED
      BY <1>1, <3>1, LeastExists
  <2>2. m \in Nat /\ ~Has(m)
    BY <2>1
  <2>3. m # 0
    <3> DEFINE f == [n \in 0 .. 0 |-> Started]
    <3>1. f = [n \in 0 .. 0 |-> f[n]] /\ f[0] = Started
      OBVIOUS
    <3>2. \A n \in 1 .. 0 : FALSE
      OBVIOUS
    <3> HIDE DEF f
    <3>3. CallsRun(f, batch, 0)
      BY <3>1, <3>2 DEF CallsRun
    <3> QED
      BY <2>2, <3>1, <3>3
  <2>4. m - 1 \in Nat /\ ~(m <= m - 1)
    BY <2>2, <2>3
  <2>5. Has(m - 1)
    <3> HIDE DEF Has
    <3> QED
      BY <2>1, <2>4
  <2>6. PICK g : g = [k \in 0 .. m - 1 |-> g[k]] /\ CallsRun(g, batch, m - 1)
    BY <2>5
  <2> DEFINE f == [n \in 0 .. m |-> IF n = m THEN RunsCall(batch, g[m - 1], batch[m]) ELSE g[n]]
  <2>7. f = [n \in 0 .. m |-> f[n]]
    OBVIOUS
  <2>8. f[m] = RunsCall(batch, g[m - 1], batch[m]) /\ \A n \in 0 .. m - 1 : f[n] = g[n]
    BY <2>2, <2>3
  <2> HIDE DEF f
  <2>9. CallsRun(f, batch, m)
    <3>1. f[0] = Started
      BY <2>2, <2>3, <2>6, <2>8 DEF CallsRun
    <3>2. ASSUME NEW n \in 1 .. m PROVE f[n] = RunsCall(batch, f[n - 1], batch[n])
      <4>1. CASE n = m
        <5>1. f[n - 1] = g[m - 1]
          BY <2>2, <2>3, <2>8, <4>1
        <5> QED
          BY <5>1, <2>8, <4>1
      <4>2. CASE n # m
        <5>1. n \in 1 .. m - 1 /\ f[n] = g[n] /\ f[n - 1] = g[n - 1]
          BY <2>2, <2>8, <4>2
        <5> QED
          BY <5>1, <2>6 DEF CallsRun
      <4> QED
        BY <4>1, <4>2
    <3> QED
      BY <3>1, <3>2 DEF CallsRun
  <2> QED
    BY <2>2, <2>7, <2>9
<1> HIDE DEF Has
<1>2. Has(N)
  BY <1>1
<1>3. PICK f : f = [k \in 0 .. N |-> f[k]] /\ CallsRun(f, batch, N)
  BY <1>2 DEF Has
<1> DEFINE h == BatchStepped(f, batch, N)
<1>4. \A n \in 0 .. N : h[n] = f[n]
  <2> TAKE n \in 0 .. N
  <2>1. CASE n = 0
    BY <2>1, <1>3 DEF CallsRun, BatchStepped
  <2>2. CASE n # 0
    <3>1. n \in 1 .. N
      BY <2>2
    <3> QED
      BY <2>2, <3>1, <1>3 DEF CallsRun, BatchStepped
  <2> QED
    BY <2>1, <2>2
<1>5. h = [n \in 0 .. N |-> h[n]]
  BY DEF BatchStepped
<1>6. h = f
  <2> HIDE DEF h
  <2> QED
    BY <1>3, <1>4, <1>5
<1> QED
  BY <1>3, <1>6

LEMMA BatchEndsTyped ==
  ASSUME NEW batch \in Seq(Calls), listOpen \in BOOLEAN PROVE UnderWay(RunBatch(batch))
<1> DEFINE done == CHOOSE f : f = BatchStepped(f, batch, Len(batch))
           Fails == {n \in 0 .. Len(batch) : ~UnderWay(done[n])}
<1>1. done = BatchStepped(done, batch, Len(batch))
  <2>1. Len(batch) \in Nat
    OBVIOUS
  <2>2. \E f : f = BatchStepped(f, batch, Len(batch))
    BY <2>1, CallsRunExists
  <2> QED
    BY <2>2, Zenon DEF done
<1>2. RunBatch(batch) = done[Len(batch)]
  BY Zenon DEF RunBatch, BatchStepped
<1> HIDE DEF done
<1>3. done[0] = Started /\ \A n \in 1 .. Len(batch) : done[n] = RunsCall(batch, done[n - 1], batch[n])
  BY <1>1 DEF BatchStepped
<1>4. UnderWay(Started)
  BY DEF Started, UnderWay, Halting
<1>5. ASSUME Fails # {} PROVE FALSE
  <2>1. PICK m \in Fails : \A n \in Fails : m <= n
    <3>1. Fails \in SUBSET Nat
      OBVIOUS
    <3> HIDE DEF Fails
    <3> QED
      BY <1>5, <3>1, LeastExists
  <2>2. m \in 0 .. Len(batch) /\ ~UnderWay(done[m])
    BY <2>1
  <2>3. m # 0
    BY <1>3, <1>4, <2>2
  <2>4. m - 1 \in 0 .. Len(batch) /\ ~(m <= m - 1) /\ m \in 1 .. Len(batch) /\ batch[m] \in Calls
    BY <2>2, <2>3
  <2>5. UnderWay(done[m - 1])
    BY <2>1, <2>4
  <2>6. UnderWay(RunsCall(batch, done[m - 1], batch[m]))
    BY <2>4, <2>5, CallKeepsBatch
  <2> QED
    BY <1>3, <2>2, <2>4, <2>6
<1> QED
  BY <1>2, <1>5

-----------------------------------------------------------------------------
(* What every turn does to the counters and to what is reported.           *)
LEMMA AfterTurnTyped ==
  ASSUME AgentTypeOK, NEW t, NEW rescued \in BOOLEAN, t.halt \in Halting,
         turns < MaxTurns, AfterTurn(t, rescued)
  PROVE  /\ turns' \in 0 .. MaxTurns /\ inert' \in 0 .. Nudges
         /\ quiet' \in 0 .. Nudges + 1 /\ plain' \in 0 .. Nudges + 1
         /\ noAnswer' \in BOOLEAN /\ completed' \in BOOLEAN /\ handed' \in BOOLEAN
         /\ reason' \in Reasons /\ lastCheck' \in {"none", "passed", "failed"}
<1> DEFINE against == CountsAgainst(t, rescued) /\ t.halt = "none"
           spent == against /\ inert = Nudges
           why == IF spent THEN Silence(Stalls(t)) ELSE t.halt
<1>1. /\ turns' = turns + 1
      /\ inert' = (IF t.progressed THEN 0 ELSE IF against /\ ~spent THEN inert + 1 ELSE inert)
      /\ noAnswer' = (IF t.progressed THEN FALSE ELSE IF against THEN Stalls(t) ELSE noAnswer)
      /\ Closes(t, why)
      /\ plain' = (IF t.progressed THEN 0
                   ELSE IF against THEN (IF t.answer THEN Saturated(plain) ELSE 0) ELSE plain)
      /\ quiet' = (IF t.brought THEN 0
                   ELSE IF t.progressed \/ against THEN Saturated(quiet) ELSE quiet)
  BY DEF AfterTurn
<1>2. /\ Nudges \in Nat /\ MaxTurns \in Nat /\ turns \in 0 .. MaxTurns /\ inert \in 0 .. Nudges
      /\ quiet \in 0 .. Nudges + 1 /\ plain \in 0 .. Nudges + 1 /\ noAnswer \in BOOLEAN
      /\ lastCheck \in {"none", "passed", "failed"}
  BY LoopBounds DEF AgentTypeOK
<1>3. ASSUME NEW n \in 0 .. Nudges + 1 PROVE Saturated(n) \in 0 .. Nudges + 1
  BY <1>2 DEF Saturated
<1>4. turns' \in 0 .. MaxTurns
  BY <1>1, <1>2
<1>5. inert' \in 0 .. Nudges
  <2>1. against /\ ~spent => inert # Nudges
    OBVIOUS
  <2> HIDE DEF against, spent
  <2> QED
    BY <1>1, <1>2, <2>1
<1>6. quiet' \in 0 .. Nudges + 1 /\ plain' \in 0 .. Nudges + 1
  <2>1. Saturated(quiet) \in 0 .. Nudges + 1 /\ Saturated(plain) \in 0 .. Nudges + 1
    BY <1>2, <1>3
  <2> HIDE DEF against, spent
  <2> QED
    BY <1>1, <1>2, <2>1
<1>7. noAnswer' \in BOOLEAN
  <2>1. Stalls(t) \in BOOLEAN
    BY DEF Stalls
  <2> HIDE DEF against, spent
  <2> QED
    BY <1>1, <1>2, <2>1, Zenon
<1>8. /\ reason' = why
      /\ lastCheck' \in {"passed", "failed"} \/ lastCheck' = lastCheck
      /\ completed' \in BOOLEAN /\ handed' \in BOOLEAN
  BY <1>1 DEF Closes
<1>9. why \in Reasons
  BY DEF Silence, Halting, Reasons
<1> QED
  BY <1>2, <1>4, <1>5, <1>6, <1>7, <1>8, <1>9

LEMMA CallsTurnTyped ==
  ASSUME AgentTypeOK, NEW batch \in Batches, NEW rescued \in BOOLEAN, CallsTurn(batch, rescued)
  PROVE  AgentTypeOK'
<1> DEFINE s == RunBatch(batch)
           t == [halt |-> s.halt, progressed |-> Progressed(s), countable |-> Executed(s),
                 answer |-> FALSE, counted |-> s.counted, open |-> s.open, brought |-> Brought(s)]
<1>1. batch \in Seq(Calls) /\ batch # <<>>
  BY BatchAssumption
<1>2. UnderWay(s)
  <2>1. listOpen \in BOOLEAN
    BY DEF AgentTypeOK
  <2> QED
    BY <1>1, <2>1, BatchEndsTyped
<1> HIDE DEF s
<1>3. /\ AfterTurn(t, rescued) /\ turns < MaxTurns /\ listOpen' = s.open
      /\ sentLists' = sentLists \union {batch[i].open : i \in {j \in Indices(batch, "plan") : s.results[j].ran}}
      /\ lastRead' = Recorded(s, batch) /\ held' \in HoldsAfter(s, batch)
      /\ planOnly' = (IF Executed(s) /\ Len(batch) = 1 /\ batch[1].kind = "plan"
                        THEN (IF planOnly < 2 THEN planOnly + 1 ELSE planOnly)
                        ELSE IF Progressed(s) THEN 0 ELSE planOnly)
      /\ conversational' = conversational /\ contract' = contract /\ followUps' = followUps
  BY DEF CallsTurn, s
<1>4. t.halt \in Halting
  BY <1>2 DEF UnderWay
<1> HIDE DEF t
<1>5. /\ turns' \in 0 .. MaxTurns /\ inert' \in 0 .. Nudges
      /\ quiet' \in 0 .. Nudges + 1 /\ plain' \in 0 .. Nudges + 1
      /\ noAnswer' \in BOOLEAN /\ completed' \in BOOLEAN /\ handed' \in BOOLEAN
      /\ reason' \in Reasons /\ lastCheck' \in {"none", "passed", "failed"}
  BY <1>3, <1>4, AfterTurnTyped
<1>6. listOpen' \in BOOLEAN
  BY <1>2, <1>3 DEF UnderWay
<1>7. sentLists' \subseteq BOOLEAN
  <2>1. ASSUME NEW i \in Indices(batch, "plan") PROVE batch[i].open \in BOOLEAN
    <3>1. batch[i] \in Calls /\ batch[i].kind = "plan"
      BY <1>1 DEF Indices
    <3> QED
      BY <3>1 DEF Calls
  <2>2. sentLists \subseteq BOOLEAN
    BY DEF AgentTypeOK
  <2> QED
    BY <1>3, <2>1, <2>2
<1>8. \A n : AgeAt(s, n) \in {"current", "older"}
  BY DEF AgeAt
<1>9. lastRead' \in {"none", "note", "current", "older"}
  <2>1. lastRead \in {"none", "note", "current", "older"}
    BY DEF AgentTypeOK
  <2>2. Recorded(s, batch) = Aged(lastRead, s.at > 0) \/ Recorded(s, batch) = "note" \/ \E n : Recorded(s, batch) = AgeAt(s, n)
    BY Zenon DEF Recorded
  <2> QED
    BY <1>3, <1>8, <2>1, <2>2 DEF Aged
<1>10. held' \subseteq {"current", "older"}
  <2> DEFINE shownOnes == {i \in Indices(batch, "read") : ~s.results[i].elided}
             old == {Aged(x, s.at > 0) : x \in held}
             new == {AgeAt(s, s.results[i].at) : i \in shownOnes}
  <2>1. held \subseteq {"current", "older"}
    BY DEF AgentTypeOK
  <2>2. old \subseteq {"current", "older"}
    BY <2>1 DEF Aged
  <2>3. new \subseteq {"current", "older"}
    BY <1>8
  <2>4. held' \in {old \union new, (old \union new) \ {"older"}, {}}
    BY <1>3 DEF HoldsAfter
  <2> HIDE DEF old, new
  <2> QED
    BY <2>2, <2>3, <2>4
<1>11. planOnly' \in 0 .. 2
  <2>1. planOnly \in 0 .. 2
    BY DEF AgentTypeOK
  <2> QED
    BY <1>3, <2>1
<1>12. {conversational', contract'} \subseteq BOOLEAN /\ followUps' \in 0 .. MaxFollowUps
  BY <1>3 DEF AgentTypeOK
<1> QED
  BY <1>5, <1>6, <1>7, <1>9, <1>10, <1>11, <1>12 DEF AgentTypeOK, Reasons, Halting

LEMMA TextTurnTyped ==
  ASSUME AgentTypeOK, NEW text \in Texts, NEW rescued \in BOOLEAN, TextTurn(text, rescued)
  PROVE  AgentTypeOK'
<1> DEFINE t == [halt |-> IF text = "choices" /\ conversational THEN "awaiting_user" ELSE "none",
                 progressed |-> FALSE, countable |-> text # "cut_call",
                 answer |-> text \in {"answer", "choices"}, counted |-> FALSE,
                 open |-> listOpen, brought |-> FALSE]
<1>1. /\ AfterTurn(t, rescued) /\ turns < MaxTurns
      /\ UNCHANGED <<conversational, contract, planOnly, listOpen, sentLists, lastRead, held, followUps>>
  BY DEF TextTurn
<1>2. t.halt \in Halting
  BY DEF Halting
<1> HIDE DEF t
<1>3. /\ turns' \in 0 .. MaxTurns /\ inert' \in 0 .. Nudges
      /\ quiet' \in 0 .. Nudges + 1 /\ plain' \in 0 .. Nudges + 1
      /\ noAnswer' \in BOOLEAN /\ completed' \in BOOLEAN /\ handed' \in BOOLEAN
      /\ reason' \in Reasons /\ lastCheck' \in {"none", "passed", "failed"}
  BY <1>1, <1>2, AfterTurnTyped
<1> QED
  BY <1>1, <1>3 DEF AgentTypeOK, Reasons, Halting

LEMMA AgentTypeInit == AgentInit => AgentTypeOK
<1> SUFFICES ASSUME AgentInit PROVE AgentTypeOK
  OBVIOUS
<1>1. 0 \in 0 .. MaxTurns /\ 0 \in 0 .. Nudges /\ 0 \in 0 .. Nudges + 1 /\ 0 \in 0 .. MaxFollowUps
  BY LoopBounds
<1>2. /\ turns \in 0 .. MaxTurns /\ inert \in 0 .. Nudges /\ planOnly \in 0 .. 2
      /\ quiet \in 0 .. Nudges + 1 /\ plain \in 0 .. Nudges + 1 /\ followUps \in 0 .. MaxFollowUps
  BY <1>1 DEF AgentInit
<1>3. {conversational, contract, noAnswer, completed, listOpen, handed} \subseteq BOOLEAN
  BY DEF AgentInit
<1> QED
  BY <1>2, <1>3 DEF AgentInit, AgentTypeOK

LEMMA AgentTypeNext == AgentTypeOK /\ [AgentNext]_agentVars => AgentTypeOK'
<1> SUFFICES ASSUME AgentTypeOK, [AgentNext]_agentVars PROVE AgentTypeOK'
  OBVIOUS
<1>1. ASSUME NEW batch \in Batches, NEW rescued \in BOOLEAN, CallsTurn(batch, rescued) PROVE AgentTypeOK'
  BY <1>1, CallsTurnTyped
<1>2. ASSUME NEW text \in Texts, NEW rescued \in BOOLEAN, TextTurn(text, rescued) PROVE AgentTypeOK'
  BY <1>2, TextTurnTyped
<1>3. ASSUME NEW why \in {"cancelled", "max_turns", "out_of_time"}, StopsBefore(why) PROVE AgentTypeOK'
  BY <1>3 DEF StopsBefore, StopsWith, AgentTypeOK
<1>4. ASSUME NEW why \in {"cancelled", "backend_error"}, StopsWithin(why) PROVE AgentTypeOK'
  <2>1. turns < MaxTurns /\ turns' = turns + 1 /\ turns \in 0 .. MaxTurns /\ MaxTurns \in Nat
    BY <1>4, LoopBounds DEF StopsWithin, AgentTypeOK
  <2>2. turns' \in 0 .. MaxTurns
    BY <2>1
  <2> QED
    BY <1>4, <2>2 DEF StopsWithin, StopsWith, AgentTypeOK
<1>5. ASSUME NEW conv \in BOOLEAN, FollowUp(conv) PROVE AgentTypeOK'
  <2>1. 0 \in 0 .. MaxTurns /\ 0 \in 0 .. Nudges /\ 0 \in 0 .. Nudges + 1
    BY LoopBounds
  <2>2. followUps' \in 0 .. MaxFollowUps
    BY <1>5, LoopBounds DEF FollowUp, AgentTypeOK
  <2> QED
    BY <1>5, <2>1, <2>2 DEF FollowUp, AgentTypeOK
<1>6. CASE OperatorEdits
  <2>1. /\ held' \subseteq {"current", "older"}
        /\ lastRead' \in {"none", "note", "current", "older"}
    BY <1>6 DEF OperatorEdits, AgentTypeOK, Aged
  <2> QED
    BY <1>6, <2>1 DEF OperatorEdits, AgentTypeOK
<1>7. CASE UNCHANGED agentVars
  BY <1>7 DEF agentVars, AgentTypeOK
<1> QED
  BY <1>1, <1>2, <1>3, <1>4, <1>5, <1>6, <1>7, Zenon DEF AgentNext

(* The counters of the turn loop keep to the budget, the nudges and the    *)
(* follow-ups they count, and what a run reports is one of the reasons it  *)
(* can end for: Agent::run and the report it fills in.                     *)
THEOREM AgentTypeCorrect == AgentSpec => []AgentTypeOK
BY AgentTypeInit, AgentTypeNext, PTL DEF AgentSpec

-----------------------------------------------------------------------------
(* The workspace: all but the number of the operator's changes is in the   *)
(* invariant that proves what a call may lose.                             *)
OutsideBounded == outsides \in 0 .. MaxOutside

LEMMA OutsideBoundedNext == OutsideBounded /\ [WorkspaceNext]_workspaceVars => OutsideBounded'
<1> SUFFICES ASSUME OutsideBounded, [WorkspaceNext]_workspaceVars PROVE OutsideBounded'
  OBVIOUS
<1>1. outsides' = outsides \/ \E p \in Paths, c \in Contents \union {Absent} : Outside(p, c)
  BY DEF WorkspaceNext, ReadFile, ReadSlice, Gate, Answer, PrepareWhole, PrepareDelete, PrepareEdit, PatchReads,
         RunCommand, AlreadyHolds, CheckPrecondition, Replace, NewMission, workspaceVars
<1>2. CASE outsides' = outsides
  BY <1>2 DEF OutsideBounded
<1>3. CASE \E p \in Paths, c \in Contents \union {Absent} : Outside(p, c)
  BY <1>3, OutsideBound DEF Outside, OutsideBounded
<1> QED
  BY <1>1, <1>2, <1>3

(* What the file tools and the operator do to the workspace and to what    *)
(* the registry notes of it: src/tools/file_tools.cpp.                     *)
THEOREM WorkspaceTypeCorrect == WorkspaceSpec => []WorkspaceTypeOK
<1>1. WorkspaceInit => OutsideBounded
  BY OutsideBound DEF WorkspaceInit, OutsideBounded
<1>2. WorkspaceInv /\ OutsideBounded => WorkspaceTypeOK
  BY DEF WorkspaceInv, FilesTyped, CallTyped, OutsideBounded, WorkspaceTypeOK, FileBytes, PendingCalls, CallStages
<1>3. WorkspaceSpec => [](WorkspaceInv /\ OutsideBounded)
  BY <1>1, WorkspaceInvInit, WorkspaceInvNext, OutsideBoundedNext, PTL DEF WorkspaceSpec
<1> QED
  BY <1>2, <1>3, PTL

-----------------------------------------------------------------------------
(***************************************************************************)
(* The parts side by side.  A behaviour of the whole is a behaviour of     *)
(* each part, because what one of them moves is none of what the others    *)
(* have: so all that is proved of a part alone holds of it in its place.   *)
(***************************************************************************)
LEMMA PartsBegin ==
  MissionInit => /\ Init /\ AgentInit /\ WorkspaceInit /\ KvInit
                 /\ GenerationInit /\ RunnerInit /\ FsInit
BY DEF MissionInit

LEMMA PartsMove ==
  [MissionNext]_missionVars =>
    /\ [Next]_vars /\ [AgentNext]_agentVars /\ [WorkspaceNext]_workspaceVars /\ [KvNext]_kvVars
    /\ [GenerationNext]_generationVars /\ [RunnerNext]_runnerVars /\ [FsNext]_fsVars
<1> SUFFICES ASSUME [MissionNext]_missionVars
             PROVE  /\ [Next]_vars /\ [AgentNext]_agentVars /\ [WorkspaceNext]_workspaceVars
                    /\ [KvNext]_kvVars /\ [GenerationNext]_generationVars /\ [RunnerNext]_runnerVars
                    /\ [FsNext]_fsVars
  OBVIOUS
<1>1. CASE MissionNext
  BY <1>1, Zenon DEF MissionNext
<1>2. CASE UNCHANGED missionVars
  BY <1>2 DEF missionVars
<1> QED
  BY <1>1, <1>2

(* The main thread's seven parts, explored one at a time (worker.cpp,      *)
(* agent.cpp, the tools, mlx_backend.cpp, the grammar and the sandbox).    *)
THEOREM MissionIsItsParts ==
  MissionSpec => /\ Spec /\ AgentSpec /\ WorkspaceSpec /\ KvSpec
                 /\ GenerationSpec /\ RunnerSpec /\ FsSpec
BY PartsBegin, PartsMove, PTL
   DEF MissionSpec, Spec, AgentSpec, WorkspaceSpec, KvSpec, GenerationSpec, RunnerSpec, FsSpec

(* Every variable of every part keeps its type.                            *)
THEOREM MissionTypeCorrect == MissionSpec => []MissionTypeOK
<1>1. KvSpec => []KvTypeOK
  BY KvInvInit, KvInvNext, KvInvEnough, PTL DEF KvSpec
<1>2. GenerationSpec => []GenerationTypeOK
  BY GenInvInit, GenInvNext, GenInvEnough, PTL DEF GenerationSpec
<1>3. RunnerInv => RunnerTypeOK
  BY DEF RunnerInv
<1>4. RunnerSpec => []RunnerTypeOK
  BY <1>3, InvInit, InvNext, PTL DEF RunnerSpec
<1>5. FsSpec => []FsTypeOK
  BY FsInvInit, FsInvNext, FsInvEnough, PTL DEF FsSpec
<1> QED
  BY <1>1, <1>2, <1>4, <1>5, MissionIsItsParts, TypeCorrect, AgentTypeCorrect, WorkspaceTypeCorrect, PTL
     DEF MissionTypeOK

(* All that the parts promise holds of the main thread as a whole: its     *)
(* tools act on the workspace of its mission and what it records follows   *)
(* its context, a completed run handed back, the model decodes exactly the *)
(* prompt, a turn is whole, a command's outcome is true, no file access    *)
(* leaves the workspace, and no operator's data is lost unread or unasked. *)
THEOREM MissionIsSafe ==
  MissionSpec => /\ [](ToolsActOnItsWorkspace /\ JournalFollowsContext /\ CompletedWasHandedBack
                         /\ DecodesExactContext /\ TurnIsWhole /\ OutcomeIsTrue /\ FileAccessIsSound)
                 /\ NoBlindOverwrite /\ OperatorsDataAsked
BY MissionIsItsParts, ToolsStayHome, SinkIsAlive, CompletionIsHandedBack, ContextStaysExact, TurnStaysWhole,
   ReportIsTrue, FilesAreSound, NothingIsOverwrittenBlind, LossIsAsked, PTL
=============================================================================
