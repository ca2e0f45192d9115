------------------------------ MODULE Session -------------------------------
(***************************************************************************)
(* What a sidecar process holds between requests (surface::Session,        *)
(* src/surface/session.hpp) and how each request that may replace a part   *)
(* of it does so, failures half-way included: load, unload, start, resume  *)
(* and follow-up (src/surface/sidecar.cpp, src/surface/session.cpp).       *)
(*                                                                         *)
(* The parts point at each other.  The context's sinks hold a pointer into *)
(* the journal; the registry's recall tools read a journal through a       *)
(* function that either looks at the session each time (TheSession) or     *)
(* holds the pointer of one journal (its number).                          *)
(***************************************************************************)
EXTENDS Naturals

CONSTANTS
  Models,      \* model directories a request may name
  Seeing,      \* those whose checkpoint has a vision tower
  Workspaces,
  None,        \* a null unique_ptr
  TheSession,  \* a recall source that asks the session at call time
  MaxRuns,     \* bound: run ids minted
  MaxOpens     \* bound: journals opened

ASSUME SeeingAssumption == Seeing \subseteq Models
ASSUME NoneAssumption ==
  {None, TheSession} \cap (Models \union Workspaces \union Nat) = {} /\ None # TheSession
ASSUME RunBounds == MaxRuns \in Nat /\ MaxOpens \in Nat

VARIABLES
  tok, backend,  \* the directory each was loaded from, or None
  registry,      \* [workspace, sees, recall] or None
  journal,       \* [id, run] or None
  ctx,           \* [run, workspace, sink] or None
  runId,         \* session.run_id, 0 when empty
  phase,         \* "idle", "running", or "crashed": a null pointer was used
  minted,        \* run ids minted so far
  opens,         \* journals opened so far, which numbers them
  begun          \* the run_begin events in the log: [run, workspace, model, tools]

vars == <<tok, backend, registry, journal, ctx, runId, phase, minted, opens, begun>>

Init ==
  /\ tok = None /\ backend = None
  /\ registry = None /\ journal = None /\ ctx = None
  /\ runId = 0 /\ phase = "idle"
  /\ minted = 0 /\ opens = 0 /\ begun = {}

-----------------------------------------------------------------------------
(* load_model: nothing when the directory and the draft head are those     *)
(* held; otherwise the tokenizer is read first, and a refusal there costs  *)
(* nothing, but the weights are freed before the new ones are read.  The   *)
(* draft head is not kept: a request may name the model that is held and   *)
(* another head, and is then one that loads it afresh.                     *)
Loads(m) ==
  {[tok |-> tok, backend |-> backend], [tok |-> None, backend |-> None], [tok |-> m, backend |-> m]}

EnsureModel(m, loaded) ==
  /\ loaded \in Loads(m)
  /\ tok' = loaded.tok /\ backend' = loaded.backend

IsReady(loaded, m) == loaded.tok = m /\ loaded.backend = m

(* ensure_registry: reused while workspace and vision are what they were.  *)
EnsuredRegistry(m, w) ==
  IF registry # None /\ registry.workspace = w /\ registry.sees = (m \in Seeing)
    THEN registry
    ELSE [workspace |-> w, sees |-> (m \in Seeing), recall |-> None]

(* declare_context_tools keeps the source it was first given.              *)
DeclareRecall(r, source) == IF r.recall = None THEN [r EXCEPT !.recall = source] ELSE r

(* What tools_json, and so the tool-schema hash, depends on.               *)
Tools(r) == <<r.sees, r.recall # None>>

(* ContextJournal::open may fail; opened, it points the sinks of the       *)
(* context it was opened against at itself.                                *)
OpenedJournal(run, ok) == IF ok THEN [id |-> opens + 1, run |-> run] ELSE None
Sink(j) == IF j = None THEN None ELSE j.id

-----------------------------------------------------------------------------
(* lmp/load_model and lmp/unload_model, which only an idle session serves. *)

LoadModel(m) ==
  /\ phase = "idle"
  /\ \E loaded \in Loads(m) : EnsureModel(m, loaded)
  /\ UNCHANGED <<registry, journal, ctx, runId, phase, minted, opens, begun>>

UnloadModel ==
  /\ phase = "idle"
  /\ journal' = None /\ ctx' = None /\ registry' = None
  /\ backend' = None /\ tok' = None
  /\ UNCHANGED <<runId, phase, minted, opens, begun>>

(* lmp/start, refused after its run id was minted: the settings are bad,   *)
(* the model does not load, or no token budget fits it.                    *)
StartFails(m) ==
  /\ phase = "idle"
  /\ minted < MaxRuns
  /\ minted' = minted + 1
  /\ runId' = minted + 1
  /\ \/ UNCHANGED <<tok, backend>>
     \/ \E loaded \in Loads(m) : EnsureModel(m, loaded)
  /\ UNCHANGED <<registry, journal, ctx, phase, opens, begun>>

(* lmp/start: a new context and journal for the new run.                   *)
Start(m, w) ==
  /\ phase = "idle"
  /\ minted < MaxRuns
  /\ minted' = minted + 1
  /\ runId' = minted + 1
  /\ \E loaded \in Loads(m) : IsReady(loaded, m) /\ EnsureModel(m, loaded)
  /\ \E opened \in BOOLEAN :
       LET j == OpenedJournal(minted + 1, opened)
           r == EnsuredRegistry(m, w)
           declared == IF opened THEN DeclareRecall(r, TheSession) ELSE r
       IN  /\ opened => opens < MaxOpens
           /\ opens' = IF opened THEN opens + 1 ELSE opens
           /\ ctx' = [run |-> minted + 1, workspace |-> w, sink |-> Sink(j)]
           /\ journal' = j
           /\ registry' = declared
           /\ begun' = begun \union {[run |-> minted + 1, workspace |-> w, model |-> m,
                                      tools |-> Tools(declared)]}
  /\ phase' = "running"

-----------------------------------------------------------------------------
(* lmp/resume.  Refused before anything but the model was touched: bad     *)
(* settings, the model does not load, or the log does not hold the run.    *)
ResumeFailsEarly(m) ==
  /\ phase = "idle"
  /\ \E loaded \in Loads(m) : EnsureModel(m, loaded)
  /\ UNCHANGED <<registry, journal, ctx, runId, phase, minted, opens, begun>>

(* can_auto_resume, over the identity the log recorded; what else it reads *)
(* (protocol version, an edit in flight) may refuse a matching identity.   *)
IdentityMatches(b, m, w, tools) ==
  b.workspace = w /\ b.model = m /\ b.tools = tools

(* The registry is brought up for the request before the gate is asked.    *)
CandidateRegistry(m, w, j) ==
  LET r == EnsuredRegistry(m, w)
  IN  IF j = None THEN r ELSE DeclareRecall(r, j.id)

(* Mutant: a refused resume keeps the registry it built.                   *)
RegistryKept(r) == r
RegistryOnRefusal(r) == None

(* Refused by the gate: the candidates are dropped, and the registry with  *)
(* them, because its recall tools may point into the candidate journal.    *)
ResumeRefused(b, m, w) ==
  /\ phase = "idle"
  /\ \E loaded \in Loads(m) : IsReady(loaded, m) /\ EnsureModel(m, loaded)
  /\ \E opened \in BOOLEAN :
       LET j == OpenedJournal(b.run, opened)
       IN  /\ opened => opens < MaxOpens
           /\ opens' = IF opened THEN opens + 1 ELSE opens
           /\ registry' = RegistryOnRefusal(CandidateRegistry(m, w, j))
  /\ UNCHANGED <<journal, ctx, runId, phase, minted, begun>>

(* Mutant: the candidate journal is not moved into the session.            *)
JournalLeftBehind(j) == journal
JournalOnResume(j) == j

ResumeAllowed(b, m, w) ==
  /\ phase = "idle"
  /\ \E loaded \in Loads(m) : IsReady(loaded, m) /\ EnsureModel(m, loaded)
  /\ \E opened \in BOOLEAN :
       LET j == OpenedJournal(b.run, opened)
           r == CandidateRegistry(m, w, j)
       IN  /\ opened => opens < MaxOpens
           /\ IdentityMatches(b, m, w, Tools(r))
           /\ opens' = IF opened THEN opens + 1 ELSE opens
           /\ ctx' = [run |-> b.run, workspace |-> b.workspace, sink |-> Sink(j)]
           /\ journal' = JournalOnResume(j)
           /\ registry' = r
  /\ runId' = b.run
  /\ UNCHANGED <<phase, minted, begun>>

-----------------------------------------------------------------------------
(* lmp/message with no run turning: one more turn of the session's run.    *)
(* Nothing but the context is asked for; run_loop uses the rest.           *)
Message ==
  /\ phase = "idle"
  /\ ctx # None
  /\ phase' = IF tok # None /\ backend # None /\ registry # None THEN "running" ELSE "crashed"
  /\ UNCHANGED <<tok, backend, registry, journal, ctx, runId, minted, opens, begun>>

EndRun ==
  /\ phase = "running"
  /\ phase' = "idle"
  /\ UNCHANGED <<tok, backend, registry, journal, ctx, runId, minted, opens, begun>>

-----------------------------------------------------------------------------
Next ==
  \/ \E m \in Models : LoadModel(m) \/ StartFails(m) \/ ResumeFailsEarly(m)
  \/ UnloadModel
  \/ \E m \in Models, w \in Workspaces : Start(m, w)
  \/ \E b \in begun, m \in Models, w \in Workspaces :
       ResumeRefused(b, m, w) \/ ResumeAllowed(b, m, w)
  \/ Message
  \/ EndRun

Spec == Init /\ [][Next]_vars

-----------------------------------------------------------------------------
Registries == [workspace : Workspaces, sees : BOOLEAN,
               recall : {None, TheSession} \union 1 .. opens]

(* Types, and what session.hpp:86-89 says of the model: a tokenizer and a  *)
(* backend are only ever held together, and of the same directory.         *)
TypeOK ==
  /\ tok \in Models \union {None} /\ backend = tok
  /\ registry = None \/ registry \in Registries
  /\ journal = None \/ journal \in [id : 1 .. opens, run : 1 .. minted]
  /\ ctx = None \/ ctx \in [run : 1 .. minted, workspace : Workspaces,
                            sink : {None} \union 1 .. opens]
  /\ runId \in 0 .. minted
  /\ phase \in {"idle", "running", "crashed"}
  /\ minted \in 0 .. MaxRuns /\ opens \in 0 .. MaxOpens
  /\ begun \subseteq [run : 1 .. minted, workspace : Workspaces, model : Models,
                      tools : BOOLEAN \X BOOLEAN]

(* The tools a conversation would use act on the workspace it is about,    *)
(* whatever was refused since it began: the registry is the one of the     *)
(* context's workspace, or there is none.                                  *)
ToolsActOnItsWorkspace ==
  ctx # None /\ registry # None => registry.workspace = ctx.workspace

(* "BEFORE ctx: its sink points here" (session.hpp:77): what the context   *)
(* writes its turns to is the journal the session holds, opened for the    *)
(* same run, so no turn goes to a destroyed store or another run's pages.  *)
JournalFollowsContext ==
  ctx # None => /\ ctx.sink = Sink(journal)
                /\ journal # None => journal.run = ctx.run

(* What the recall tools of a turning run read is alive.  registry.hpp:344 *)
(* says why a source that holds a journal's store is a dangling reference  *)
(* as soon as a reused registry meets the next mission's journal.          *)
RecallIsLive ==
  phase = "running" /\ registry.recall \notin {None, TheSession}
    => journal # None /\ journal.id = registry.recall
=============================================================================
