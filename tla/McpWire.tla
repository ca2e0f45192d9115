------------------------------ MODULE McpWire -------------------------------
(***************************************************************************)
(* The two pipes between an MCP client and the server process it spawned   *)
(* (src/mcp/subprocess.cpp, src/mcp/transport.cpp).  A pipe has a capacity *)
(* and a writer waits while it is full; a write to a pipe nobody can read  *)
(* fails; a reader sees end-of-file when the pipe is empty and nobody can  *)
(* write.  The kernel closes the descriptors of a process that ends one by *)
(* one, its standard input first.                                          *)
(***************************************************************************)
EXTENDS Naturals, Sequences

CONSTANTS
  PipeSize,  \* messages a pipe holds
  MaxIds     \* bound: request ids the client mints

ASSUME PipeAssumption == PipeSize \in Nat \ {0} /\ MaxIds \in Nat

VARIABLES
  toServer,      \* the server's standard input
  toClient,      \* its standard output
  clientWrites,  \* the client holds the write end of toServer
  serverReads,   \* the server holds the read end of toServer
  serverWrites   \* the server holds the write end of toClient

wire == <<toServer, toClient, clientWrites, serverReads, serverWrites>>

Ids == 1 .. MaxIds
Request(id, method) == [kind |-> "request", id |-> id, method |-> method]
Cancel(id) == [kind |-> "cancel", id |-> id]
Initialized == [kind |-> "initialized"]
Answer(id) == [kind |-> "answer", id |-> id]
Refusal(id) == [kind |-> "refusal", id |-> id]

Methods == {"initialize", "list", "call"}
ToServer == [kind : {"request"}, id : Ids, method : Methods]
            \union [kind : {"cancel"}, id : Ids] \union {Initialized}
ToClient == [kind : {"answer", "refusal"}, id : Ids]

WireTypeOK ==
  /\ toServer \in Seq(ToServer) /\ Len(toServer) <= PipeSize
  /\ toClient \in Seq(ToClient) /\ Len(toClient) <= PipeSize
  /\ {clientWrites, serverReads, serverWrites} \subseteq BOOLEAN

WireInit ==
  /\ toServer = <<>> /\ toClient = <<>>
  /\ clientWrites = TRUE /\ serverReads = TRUE /\ serverWrites = TRUE

(* write_fd_all and Subprocess::write_all: the write is done when every    *)
(* byte is; meanwhile the writer waits, holding the write mutex.           *)
WritesToServer(m) ==
  /\ serverReads /\ Len(toServer) < PipeSize
  /\ toServer' = Append(toServer, m)
WritesToClient(m) ==
  /\ Len(toClient) < PipeSize
  /\ toClient' = Append(toClient, m)
=============================================================================
