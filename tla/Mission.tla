------------------------------ MODULE Mission -------------------------------
(***************************************************************************)
(* The sidecar's main thread while it works on missions: the parts it      *)
(* holds between requests, the turn loop it runs over them, what the       *)
(* loop's tools do to the workspace, what the backend keeps from one       *)
(* generation to the next, one generation token by token, one shell        *)
(* command, and the walks of the file system beneath the tools.  Each      *)
(* hands the others a value when it is done and reads none of their        *)
(* variables, so they are explored one at a time.                          *)
(***************************************************************************)
EXTENDS Session, AgentLoop, Workspace, KvCache, Generation, Runner, WorkspaceFs

VARIABLE side  \* which of the seven moves, chosen once

missionVars == <<vars, agentVars, workspaceVars, kvVars, generationVars, runnerVars, fsVars, side>>

(* What the others are left with does not matter, so it is one thing.      *)
MissionInit ==
  /\ side \in {"parts", "loop", "files", "cache", "tokens", "command", "paths"}
  /\ Init
  /\ AgentInit /\ (side # "loop" => ~conversational /\ ~contract)
  /\ WorkspaceInit /\ (side # "files" => \A p \in Paths : file[p] = Absent)
  /\ KvInit /\ (side # "cache" => ~speculative /\ ~defers)
  /\ GenerationInit /\ (side # "tokens" => ~offered /\ ~drafting)
  /\ RunnerInit /\ (side # "command" => tier = "T0" /\ ~usable)
  /\ FsInit /\ (side # "paths" => \A t \in Threads : op[t].what = "list" /\ op[t].parts = <<>>)

MissionNext ==
  /\ UNCHANGED side
  /\ \/ side = "parts" /\ Next
        /\ UNCHANGED <<agentVars, workspaceVars, kvVars, generationVars, runnerVars, fsVars>>
     \/ side = "loop" /\ AgentNext
        /\ UNCHANGED <<vars, workspaceVars, kvVars, generationVars, runnerVars, fsVars>>
     \/ side = "files" /\ WorkspaceNext
        /\ UNCHANGED <<vars, agentVars, kvVars, generationVars, runnerVars, fsVars>>
     \/ side = "cache" /\ KvNext
        /\ UNCHANGED <<vars, agentVars, workspaceVars, generationVars, runnerVars, fsVars>>
     \/ side = "tokens" /\ GenerationNext
        /\ UNCHANGED <<vars, agentVars, workspaceVars, kvVars, runnerVars, fsVars>>
     \/ side = "command" /\ RunnerNext
        /\ UNCHANGED <<vars, agentVars, workspaceVars, kvVars, generationVars, fsVars>>
     \/ side = "paths" /\ FsNext
        /\ UNCHANGED <<vars, agentVars, workspaceVars, kvVars, generationVars, runnerVars>>

MissionSpec == MissionInit /\ [][MissionNext]_missionVars

-----------------------------------------------------------------------------
MissionTypeOK ==
  /\ TypeOK /\ AgentTypeOK /\ WorkspaceTypeOK /\ KvTypeOK
  /\ GenerationTypeOK /\ RunnerTypeOK /\ FsTypeOK
=============================================================================
