------------------------------- MODULE Memory -------------------------------
(***************************************************************************)
(* What outlasts a turn or a process: the event log a run is resumed from, *)
(* the prompt with the journal behind it, the durable context other        *)
(* processes write too, the directory a task's workers and its parent meet *)
(* in, and the socket over which a task may be handed to a daemon.  None   *)
(* of them reads another, so they are explored one at a time, like the     *)
(* sides of Mission.                                                       *)
(***************************************************************************)
EXTENDS RunLog, WorkingContext, FactStore, Worker, Daemon

VARIABLE memory  \* which of the five moves, chosen once

memoryVars == <<vars, contextVars, factVars, workerVars, daemonVars, memory>>

MemoryInit ==
  /\ memory \in {"log", "prompt", "facts", "directory", "socket"}
  /\ Init /\ ContextInit /\ FactInit /\ WorkerInit /\ DaemonInit

MemoryNext ==
  /\ UNCHANGED memory
  /\ \/ memory = "log" /\ Next /\ UNCHANGED <<contextVars, factVars, workerVars, daemonVars>>
     \/ memory = "prompt" /\ ContextNext /\ UNCHANGED <<vars, factVars, workerVars, daemonVars>>
     \/ memory = "facts" /\ FactNext /\ UNCHANGED <<vars, contextVars, workerVars, daemonVars>>
     \/ memory = "directory" /\ WorkerNext /\ UNCHANGED <<vars, contextVars, factVars, daemonVars>>
     \/ memory = "socket" /\ DaemonNext /\ UNCHANGED <<vars, contextVars, factVars, workerVars>>

MemorySpec == MemoryInit /\ [][MemoryNext]_memoryVars

-----------------------------------------------------------------------------
MemoryTypeOK == TypeOK /\ ContextTypeOK /\ FactTypeOK /\ WorkerTypeOK /\ DaemonTypeOK
=============================================================================
