-------------------------------- MODULE Mcp ---------------------------------
(***************************************************************************)
(* One MCP connection from end to end: the client and the server of this   *)
(* repository over two pipes.                                              *)
(***************************************************************************)
EXTENDS McpClient, McpServer

VARIABLE served  \* history: the ids some part of the server has answered

mcpVars == <<wire, client, serverVars, served>>

McpInit == WireInit /\ ClientInit /\ ServerInit /\ served = {}

(* An answer is served when it is written.                                 *)
NotesServed ==
  served' = IF Len(toClient') > Len(toClient)
              THEN served \union {toClient'[Len(toClient')].id} ELSE served

ByClient(A) == A /\ UNCHANGED <<serverVars, served>>
ByServer(A) == A /\ NotesServed /\ UNCHANGED client

McpNext == ByClient(ClientStep) \/ ByServer(ServerStep)

McpSpec == McpInit /\ [][McpNext]_mcpVars

-----------------------------------------------------------------------------
McpTypeOK == WireTypeOK /\ ClientTypeOK /\ ServerTypeOK /\ served \subseteq Ids

(* Every call ends once, and one that returns an answer returns an answer  *)
(* the server has written for that very request, although calls of one     *)
(* turn wait at the same time, answers come in any order and late ones     *)
(* follow a time-out (client.hpp: "two concurrent calls would await each   *)
(* other's replies").  None is refused: no request overtakes the handshake *)
(* of initialize and initialized.                                          *)
CallsSpec == INSTANCE McpCalls WITH
  made <- nextId - 1, Outcomes <- (Outcomes \union {"gave up"}) \ {"refusal"}
ImplementsCalls == CallsSpec!Spec

(* "Everyone waiting needs to hear about it now rather than at their       *)
(* individual timeouts": once the reader has seen the end of the server's  *)
(* output, nobody waits on a promise that is not kept.                     *)
NobodyLeftWaiting ==
  reader = "done" =>
    \A t \in Threads : CallAt(t, "awaiting") => promise[calls[t].id] # "unset"

(* A server that was not killed answered everything it accepted before it  *)
(* exited, but for what was cancelled.                                     *)
DrainAnswersAll == server = "exited" => accepted \subseteq answered \union silenced

(* An answer is only ever withheld from a caller that gave up, and was     *)
(* never written as well.                                                  *)
WithheldIsUnwanted ==
  \A i \in silenced :
    /\ i \notin answered
    /\ \A t \in Threads : calls[t].id = i => CallAt(t, "telling")

(* Every call returns, whether the server answers, hangs or dies.          *)
CallsReturn == \A t \in Threads : CallAt(t, "registered") ~> CallAt(t, "idle")

(* Closing ends with the server process gone, even one that hangs.         *)
CloseLeavesNoServer == (closing = "stopping") ~> (closing = "closed" /\ ~serverWrites)
=============================================================================
