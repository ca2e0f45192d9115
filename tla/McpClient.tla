----------------------------- MODULE McpClient ------------------------------
(***************************************************************************)
(* The client end of one MCP connection: mcp::Client (src/mcp/client.cpp)  *)
(* over its SubprocessTransport (src/mcp/transport.cpp), and the McpHost   *)
(* that spawns the server, shakes hands and registers its tools            *)
(* (src/tools/mcp_host.cpp).                                               *)
(*                                                                         *)
(* Threads call: one of them (Host) shakes hands before any other may, and *)
(* closes when nobody calls; in between, the calls of one turn may run at  *)
(* once (run_calls_concurrently).  The transport's reader thread completes *)
(* what they wait for.  A call that gives up, cancelled or out of time,    *)
(* takes its entry out of `pending` itself.                                *)
(***************************************************************************)
EXTENDS McpWire

CONSTANTS
  Threads, Host,
  NoCall  \* a thread outside any call

ASSUME ClientAssumption == Host \in Threads /\ NoCall \notin Nat

VARIABLES
  host,      \* where McpHost::connect_and_register is, then "ready" or "failed"
  nextId,    \* Client::next_id_
  pending,   \* the keys of Client::pending_
  promise,   \* [Ids -> ...] what the future of each request holds
  calls,     \* [Threads -> [at, id, method]]
  writable,  \* FdTransport::writable_
  reader,    \* the reader thread: "reading" or "done"
  closing,   \* Client::close: "open", "stopping", "terminating", "closed"
  ended      \* history: [Ids -> ...] how each call returned

client == <<host, nextId, pending, promise, calls, writable, reader, closing, ended>>

NotCalling == [at |-> "idle", id |-> NoCall, method |-> NoCall]
ClientInit ==
  /\ host = "initialize" /\ nextId = 1
  /\ pending = {} /\ promise = [i \in Ids |-> "unset"]
  /\ calls = [t \in Threads |-> NotCalling]
  /\ writable = TRUE /\ reader = "reading" /\ closing = "open"
  /\ ended = [i \in Ids |-> "no"]

CallAt(t, place) == calls[t].at = place
LastMinted(t) == nextId - 1  \* mutant: the counter read again instead of the id returned
CallId(t) == calls[t].id
CallGoes(t, place) == calls' = [calls EXCEPT ![t].at = place]

-----------------------------------------------------------------------------
(* send_async: mint an id, register it, write; retract when the write      *)
(* fails.                                                                  *)

Connected == writable /\ closing = "open"

(* The handler of a remote tool asks first whether anybody is there.       *)
ToolCalled(t) ==
  /\ host = "ready" /\ CallAt(t, "idle") /\ Connected
  /\ calls' = [calls EXCEPT ![t] = [at |-> "checked", id |-> NoCall, method |-> "call"]]
  /\ UNCHANGED <<host, nextId, pending, promise, writable, reader, closing, ended>>
  /\ UNCHANGED wire

HostCalls ==
  /\ host \in {"initialize", "list"} /\ CallAt(Host, "idle")
  /\ calls' = [calls EXCEPT ![Host] = [at |-> "checked", id |-> NoCall, method |-> host]]
  /\ UNCHANGED <<host, nextId, pending, promise, writable, reader, closing, ended>>
  /\ UNCHANGED wire

Registers(t) ==
  /\ CallAt(t, "checked") /\ nextId <= MaxIds
  /\ nextId' = nextId + 1
  /\ pending' = pending \union {nextId}
  /\ calls' = [calls EXCEPT ![t].at = "registered", ![t].id = nextId]
  /\ UNCHANGED <<host, promise, writable, reader, closing, ended>>
  /\ UNCHANGED wire

Written(t, m, next) ==
  /\ writable
  /\ WritesToServer(m)
  /\ CallGoes(t, next)
  /\ UNCHANGED <<writable, toClient, clientWrites, serverReads, serverWrites>>
NotWritten(t, next) ==
  /\ ~writable \/ ~serverReads
  /\ writable' = FALSE
  /\ CallGoes(t, next)
  /\ UNCHANGED wire

WritesRequest(t) ==
  /\ CallAt(t, "registered")
  /\ \/ Written(t, Request(calls[t].id, calls[t].method), "awaiting")
     \/ NotWritten(t, "retracting")
  /\ UNCHANGED <<host, nextId, pending, promise, reader, closing, ended>>

(* The entry may be gone: on_closed took it and has failed the call.       *)
Retracts(t) ==
  /\ CallAt(t, "retracting")
  /\ pending' = pending \ {calls[t].id}
  /\ promise' = IF calls[t].id \in pending THEN [promise EXCEPT ![calls[t].id] = "unwritten"]
                ELSE promise
  /\ CallGoes(t, "awaiting")
  /\ UNCHANGED <<host, nextId, writable, reader, closing, ended>>
  /\ UNCHANGED wire

-----------------------------------------------------------------------------
(* await: slices of a wait, and before each the cancel token and the       *)
(* deadline, which win over an answer that is already there.               *)

(* What the handshake does with the end of its call: an initialize that    *)
(* worked is announced; tools/list goes on while there is a cursor.  The   *)
(* answer may be an error, or name a version the client cannot speak.      *)
HostAfter(method, how) ==
  {"failed"} \union
    IF how # "answer" THEN {} ELSE IF method = "initialize" THEN {"announce"} ELSE {"list", "ready"}

Returns(t, id, how) ==
  /\ ended' = [ended EXCEPT ![id] = how]
  /\ calls' = [calls EXCEPT ![t] = NotCalling]
  /\ IF calls[t].method = "call" THEN host' = host
     ELSE host' \in HostAfter(calls[t].method, how)

Ready(t) ==
  /\ CallAt(t, "awaiting") /\ promise[CallId(t)] # "unset"
  /\ Returns(t, CallId(t), promise[CallId(t)])
  /\ UNCHANGED <<nextId, pending, promise, writable, reader, closing>>
  /\ UNCHANGED wire

DeadlineAfterAnswer(t) ==  \* mutant: the deadline is looked at when the wait is over
  /\ CallAt(t, "awaiting") /\ promise[CallId(t)] # "unset"
  /\ pending' = pending \ {CallId(t)}
  /\ CallGoes(t, "telling")
  /\ UNCHANGED <<host, nextId, promise, writable, reader, closing, ended>>
  /\ UNCHANGED wire
GivesUp(t) ==
  /\ CallAt(t, "awaiting")
  /\ pending' = pending \ {CallId(t)}
  /\ CallGoes(t, "telling")
  /\ UNCHANGED <<host, nextId, promise, writable, reader, closing, ended>>
  /\ UNCHANGED wire

(* notify(kCancelled), then the throw.                                     *)
TellsAndReturns(t) ==
  /\ CallAt(t, "telling")
  /\ Returns(t, CallId(t), "gave up")
  /\ \/ /\ writable /\ WritesToServer(Cancel(CallId(t)))
        /\ UNCHANGED <<writable, toClient, clientWrites, serverReads, serverWrites>>
     \/ /\ ~writable \/ ~serverReads
        /\ writable' = FALSE
        /\ UNCHANGED wire
  /\ UNCHANGED <<nextId, pending, promise, reader, closing>>

Announces ==
  /\ host = "announce"
  /\ host' = "list"
  /\ \/ /\ writable /\ WritesToServer(Initialized)
        /\ UNCHANGED <<writable, toClient, clientWrites, serverReads, serverWrites>>
     \/ /\ ~writable \/ ~serverReads
        /\ writable' = FALSE
        /\ UNCHANGED wire
  /\ UNCHANGED <<nextId, pending, promise, calls, reader, closing, ended>>
-----------------------------------------------------------------------------
(* The reader thread: handle_response, then on_closed once, at the end of  *)
(* the server's output or when stop wakes it.                              *)

Completed(id, how) == [promise EXCEPT ![id] = how]

ReadsResponse ==
  /\ reader = "reading" /\ toClient # <<>> /\ closing # "stopping"
  /\ LET m == Head(toClient)
     IN  IF m.id \in pending
           THEN /\ pending' = pending \ {m.id}
                /\ promise' = Completed(m.id, m.kind)
           ELSE UNCHANGED <<pending, promise>>   \* a late reply
  /\ toClient' = Tail(toClient)
  /\ UNCHANGED <<toServer, clientWrites, serverReads, serverWrites>>
  /\ UNCHANGED <<host, nextId, calls, writable, reader, closing, ended>>

FailsAllKept == UNCHANGED <<pending, promise>>  \* mutant: nobody is told
FailsAll ==
  /\ pending' = {}
  /\ promise' = [i \in Ids |-> IF i \in pending THEN "closed" ELSE promise[i]]

AtEof == toClient = <<>> /\ ~serverWrites   \* as a mutant of Woken: stop wakes nobody
Woken == AtEof \/ closing = "stopping"

ReaderEnds ==
  /\ reader = "reading" /\ Woken
  /\ reader' = "done"
  /\ FailsAll
  /\ UNCHANGED <<host, nextId, calls, writable, closing, ended>>
  /\ UNCHANGED wire

-----------------------------------------------------------------------------
(* close: by the main thread, which joined the threads of the last turn;   *)
(* after a failed handshake, by the destructor of the connection.  The     *)
(* reader thread is joined, and then the transport is destroyed, which     *)
(* closes the server's input, asks it to terminate and, when the grace     *)
(* period is over, kills it.                                               *)

Closes ==
  /\ closing = "open" /\ host \in {"ready", "failed"}
  /\ \A t \in Threads : CallAt(t, "idle")
  /\ closing' = "stopping"
  /\ writable' = FALSE
  /\ UNCHANGED <<host, nextId, pending, promise, calls, reader, ended>>
  /\ UNCHANGED wire

ReaderJoined ==
  /\ closing = "stopping" /\ reader = "done"
  /\ closing' = "terminating"
  /\ clientWrites' = FALSE
  /\ UNCHANGED <<toServer, toClient, serverReads, serverWrites>>
  /\ UNCHANGED <<host, nextId, pending, promise, calls, writable, reader, ended>>

ServerReaped ==
  /\ closing = "terminating" /\ ~serverWrites
  /\ closing' = "closed"
  /\ UNCHANGED <<host, nextId, pending, promise, calls, writable, reader, ended>>
  /\ UNCHANGED wire

ThreadStep(t) ==
  Registers(t) \/ WritesRequest(t) \/ Retracts(t) \/ Ready(t) \/ TellsAndReturns(t)

ClientStep ==
  \/ HostCalls \/ Announces
  \/ \E t \in Threads : ToolCalled(t) \/ ThreadStep(t) \/ GivesUp(t)
  \/ ReadsResponse \/ ReaderEnds
  \/ Closes \/ ReaderJoined \/ ServerReaped

-----------------------------------------------------------------------------
Calls == [at : {"idle", "checked", "registered", "retracting", "awaiting", "telling"},
          id : Ids \union {NoCall}, method : Methods \union {NoCall}]
Outcomes == {"answer", "refusal", "unwritten", "closed"}

ClientTypeOK ==
  /\ host \in {"initialize", "announce", "list", "ready", "failed"}
  /\ nextId \in 1 .. MaxIds + 1
  /\ pending \subseteq 1 .. nextId - 1
  /\ promise \in [Ids -> Outcomes \union {"unset"}]
  /\ calls \in [Threads -> Calls]
  /\ writable \in BOOLEAN /\ reader \in {"reading", "done"}
  /\ closing \in {"open", "stopping", "terminating", "closed"}
  /\ ended \in [Ids -> Outcomes \union {"no", "gave up"}]
=============================================================================
