----------------------------- MODULE McpServer ------------------------------
(***************************************************************************)
(* The server end: mcp::Server (src/mcp/server.cpp) on its own standard    *)
(* input and output, as src/pcc/mcp_server.cpp runs it.  The transport's   *)
(* reader thread hands requests to a pool of workers and notes the ids     *)
(* that were cancelled; a worker decides when its handler has returned     *)
(* whether to answer.  At the end of its input the pool is drained.  The   *)
(* process may die at any time.                                            *)
(***************************************************************************)
EXTENDS McpWire

CONSTANTS Workers, NoRequest  \* what an idle worker holds

ASSUME ServerAssumption == NoRequest \notin Nat

VARIABLES
  server,       \* "serving", "draining", "exited", "dying", "dead"
  initialized,  \* Server::initialized_
  queue,        \* Server::queue_
  workers,      \* [Workers -> [at, id]]
  cancelled,    \* Server::cancelled_
  accepted,     \* history: the ids that were queued
  answered,     \* history: the ids whose answer was written
  silenced      \* history: the ids whose answer was withheld

serverVars == <<server, initialized, queue, workers, cancelled, accepted, answered, silenced>>

Waiting == [at |-> "waiting", id |-> NoRequest]
ServerInit ==
  /\ server = "serving" /\ initialized = FALSE
  /\ queue = <<>> /\ workers = [w \in Workers |-> Waiting] /\ cancelled = {}
  /\ accepted = {} /\ answered = {} /\ silenced = {}

Serving == server \in {"serving", "draining"}

-----------------------------------------------------------------------------
(* The reader thread, on_message: initialize and refusals are answered     *)
(* here, so that the handshake is not queued behind a slow tool.           *)

NextRequest(kind) == server = "serving" /\ toServer # <<>> /\ Head(toServer).kind = kind

Consumed ==
  /\ toServer' = Tail(toServer)
  /\ UNCHANGED <<clientWrites, serverReads, serverWrites>>

AnswersInline ==
  /\ NextRequest("request")
  /\ LET m == Head(toServer)
     IN  \/ m.method = "initialize" /\ WritesToClient(Answer(m.id))
         \/ m.method # "initialize" /\ ~initialized /\ WritesToClient(Refusal(m.id))
  /\ Consumed
  /\ UNCHANGED serverVars

Queues ==
  /\ NextRequest("request")
  /\ Head(toServer).method # "initialize" /\ initialized
  /\ queue' = Append(queue, Head(toServer).id)
  /\ accepted' = accepted \union {Head(toServer).id}
  /\ Consumed
  /\ UNCHANGED <<toClient, server, initialized, workers, cancelled, answered, silenced>>

NotesInitialized ==
  /\ NextRequest("initialized")
  /\ initialized' = TRUE
  /\ Consumed
  /\ UNCHANGED <<toClient, server, queue, workers, cancelled, accepted, answered, silenced>>

NotesCancelled ==
  /\ NextRequest("cancel")
  /\ cancelled' = cancelled \union {Head(toServer).id}
  /\ Consumed
  /\ UNCHANGED <<toClient, server, initialized, queue, workers, accepted, answered, silenced>>

InputEnds ==
  /\ server = "serving" /\ toServer = <<>> /\ ~clientWrites
  /\ server' = "draining"
  /\ UNCHANGED <<initialized, queue, workers, cancelled, accepted, answered, silenced>>
  /\ UNCHANGED wire

-----------------------------------------------------------------------------
(* worker_loop and run_request.  Every handler ends in a response: dispatch *)
(* turns whatever it throws into an error, which is an answer here.         *)

WorkerTakes(w) ==
  /\ Serving /\ workers[w].at = "waiting" /\ queue # <<>>
  /\ workers' = [workers EXCEPT ![w] = [at |-> "running", id |-> Head(queue)]]
  /\ queue' = Tail(queue)
  /\ UNCHANGED <<server, initialized, cancelled, accepted, answered, silenced>>
  /\ UNCHANGED wire

AnyCancel(id) == cancelled # {}  \* mutant: the flag of some request, not of this one
IsCancelled(id) == id \in cancelled

HandlerReturns(w) ==
  /\ Serving /\ workers[w].at = "running"
  /\ IF IsCancelled(workers[w].id)
       THEN /\ cancelled' = cancelled \ {workers[w].id}
            /\ silenced' = silenced \union {workers[w].id}
            /\ workers' = [workers EXCEPT ![w] = Waiting]
       ELSE /\ workers' = [workers EXCEPT ![w].at = "answering"]
            /\ UNCHANGED <<cancelled, silenced>>
  /\ UNCHANGED <<server, initialized, queue, accepted, answered>>
  /\ UNCHANGED wire

WorkerAnswers(w) ==
  /\ Serving /\ workers[w].at = "answering"
  /\ WritesToClient(Answer(workers[w].id))
  /\ answered' = answered \union {workers[w].id}
  /\ workers' = [workers EXCEPT ![w] = Waiting]
  /\ UNCHANGED <<toServer, clientWrites, serverReads, serverWrites>>
  /\ UNCHANGED <<server, initialized, queue, cancelled, accepted, silenced>>

(* stop_workers: a worker that waits ends once the queue is empty, and the *)
(* process exits when every worker was joined.                             *)
PoolIdle == \A w \in Workers : workers[w].at = "waiting"
QueueLeft == PoolIdle            \* mutant: a worker ends on draining, whatever is queued
PoolDone == queue = <<>> /\ PoolIdle

Exits ==
  /\ server = "draining" /\ PoolDone
  /\ server' = "exited"
  /\ serverReads' = FALSE /\ serverWrites' = FALSE
  /\ UNCHANGED <<toServer, toClient, clientWrites>>
  /\ UNCHANGED <<initialized, queue, workers, cancelled, accepted, answered, silenced>>

(* The process dies, of itself or of a signal.                             *)
Dies ==
  /\ Serving
  /\ server' = "dying"
  /\ serverReads' = FALSE
  /\ UNCHANGED <<toServer, toClient, clientWrites, serverWrites>>
  /\ UNCHANGED <<initialized, queue, workers, cancelled, accepted, answered, silenced>>

IsGone ==
  /\ server = "dying"
  /\ server' = "dead"
  /\ serverWrites' = FALSE
  /\ UNCHANGED <<toServer, toClient, clientWrites, serverReads>>
  /\ UNCHANGED <<initialized, queue, workers, cancelled, accepted, answered, silenced>>

ServerReader == AnswersInline \/ Queues \/ NotesInitialized \/ NotesCancelled \/ InputEnds
PoolStep(w) == WorkerTakes(w) \/ WorkerAnswers(w)

ServerStep ==
  \/ ServerReader
  \/ \E w \in Workers : PoolStep(w) \/ HandlerReturns(w)
  \/ Exits \/ Dies \/ IsGone

-----------------------------------------------------------------------------
ServerTypeOK ==
  /\ server \in {"serving", "draining", "exited", "dying", "dead"}
  /\ initialized \in BOOLEAN
  /\ queue \in Seq(Ids)
  /\ workers \in [Workers -> [at : {"waiting", "running", "answering"},
                              id : Ids \union {NoRequest}]]
  /\ cancelled \subseteq Ids
  /\ accepted \subseteq Ids /\ answered \subseteq Ids /\ silenced \subseteq Ids
=============================================================================
