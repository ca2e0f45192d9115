------------------------------- MODULE Wires --------------------------------
(***************************************************************************)
(* What processes and threads say to each other, under the fairness their  *)
(* scheduling gives: the ring between the thread that reads standard input *)
(* and the main thread, the two pipes of an MCP connection, and the task   *)
(* directory in which a worker that was launched tells its parent how it   *)
(* ended.  They share no state and are explored one at a time.             *)
(***************************************************************************)
EXTENDS SpscChannel, Mcp, Worker

VARIABLE wired  \* "ring", "pipes" or "directory", chosen once

wiresVars == <<vars, mcpVars, workerVars, wired>>

InRing(A) == wired = "ring" /\ A /\ UNCHANGED <<mcpVars, workerVars, wired>>
InPipes(A) == wired = "pipes" /\ A /\ UNCHANGED <<vars, workerVars, wired>>
InDirectory(A) == wired = "directory" /\ A /\ UNCHANGED <<vars, mcpVars, wired>>

WiresInit == wired \in {"ring", "pipes", "directory"} /\ Init /\ McpInit /\ WorkerInit
WiresNext == InRing(Next) \/ InPipes(McpNext) \/ InDirectory(WorkerNext)

(* Both threads are scheduled and neither blocks.  Every loop of the       *)
(* consumer asks drained and then try_pop (sidecar.cpp:2891, 314, 372), so *)
(* neither of the two questions is put off for ever by the other: that is  *)
(* the strong fairness of their first steps.                               *)
RingFairness ==
  /\ WF_wiresVars(InRing(ProducerStep))
  /\ SF_wiresVars(InRing(CheckAvailable))
  /\ WF_wiresVars(InRing(RefreshTail \/ TakeSlot \/ Release))
  /\ SF_wiresVars(InRing(AskClosed))
  /\ WF_wiresVars(InRing(AskEmpty))

(* What is scheduled of a connection: every thread of both processes, the  *)
(* time-outs of await, and the signals of terminate.  How long a handler   *)
(* runs, and whether a tool is called or the connection closed, is not.    *)
PipesFairness ==
  /\ WF_wiresVars(InPipes(ByClient(HostCalls \/ Announces)))
  /\ \A t \in Threads : WF_wiresVars(InPipes(ByClient(ThreadStep(t))))
  /\ \A t \in Threads : WF_wiresVars(InPipes(ByClient(GivesUp(t))))
  /\ WF_wiresVars(InPipes(ByClient(ReadsResponse \/ ReaderEnds)))
  /\ WF_wiresVars(InPipes(ByClient(ReaderJoined \/ ServerReaped)))
  /\ WF_wiresVars(InPipes(ByServer(ServerReader)))
  /\ \A w \in Workers : WF_wiresVars(InPipes(ByServer(PoolStep(w))))
  /\ WF_wiresVars(InPipes(ByServer(IsGone)))
  /\ WF_wiresVars(InPipes(ByServer(closing = "terminating" /\ Dies)))

(* A worker runs, its waits are bounded by its clock, its loop by its      *)
(* budget, and the supervisor outlives the worker.  The parent owes        *)
(* nothing.                                                                *)
DirectoryFairness ==
  \A r \in Attempts : /\ WF_wiresVars(InDirectory(WorkerStep(r) \/ SupervisorReaps(r)))
                  /\ WF_wiresVars(InDirectory(TimesOut(r)))

WiresSpec == WiresInit /\ [][WiresNext]_wiresVars
WiresFairSpec == WiresSpec /\ RingFairness /\ PipesFairness /\ DirectoryFairness

-----------------------------------------------------------------------------
WiresTypeOK == TypeOK /\ McpTypeOK /\ WorkerTypeOK
=============================================================================
