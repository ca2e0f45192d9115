----------------------------- MODULE Workspace ------------------------------
(***************************************************************************)
(* What a run's tools do to the operator's files: the write gate           *)
(* (Agent::gate_call, src/loop/approval.cpp), the file tools of the        *)
(* registry (src/tools/registry.cpp) with the versions they remember       *)
(* (memory_file.cpp), and the atomic write under them (platform/fs.cpp).   *)
(* The operator's editor, and whatever a command does that the gate does   *)
(* not see, changes the same files at any moment (Outside).                *)
(*                                                                         *)
(* A file's bytes are a member of Contents and stand for their own hash.   *)
(* A call is a sequence of file operations, one except for apply_patch;    *)
(* an operation whose bytes are Absent deletes.                            *)
(***************************************************************************)
EXTENDS Naturals, Sequences

CONSTANTS
  Paths,
  Contents,
  Empty,       \* the content of no bytes
  Large,       \* contents over max_model_read_bytes, which read_file cuts short
  Absent,      \* no file, and no version noted
  AutoWrites,   \* config_.auto_approve_writes
  Destructive,  \* policy_.allow_destructive
  Sections,    \* the sections [to, add] that patches are made of
  MaxOutside   \* bound: changes the operator makes

ASSUME ContentAssumption == Empty \in Contents /\ Large \subseteq Contents /\ Absent \notin Contents
ASSUME SettingsAssumption == AutoWrites \in BOOLEAN /\ Destructive \in BOOLEAN
ASSUME SectionsAssumption ==
  Sections \subseteq {s \in [to : Contents \union {Absent}, add : BOOLEAN] : s.add => s.to # Absent}
ASSUME OutsideBound == MaxOutside \in Nat

VARIABLES
  file,         \* [Paths -> Contents \union {Absent}]: the disk
  versions,     \* Registry::read_versions_: the version each path was last noted at
  runWrote,     \* Agent::run_wrote_, which a new Agent takes from the context
  call,         \* the mutating call in progress, or NoCall; lost and yes are
                \* history: the paths with content of others when the gate
                \* looked, and that a human approved
  outsides,     \* changes made by the operator so far
  seen,         \* history: the contents of each path that a tool has read
  moved         \* history: the operator changed the file the call is about to
                \* replace after its version was checked

workspaceVars == <<file, versions, runWrote, call, outsides, seen, moved>>

NoCall == [pc |-> "none"]

WorkspaceInit ==
  /\ file \in [Paths -> Contents \union {Absent}]
  /\ versions = [p \in Paths |-> Absent]
  /\ runWrote = {}
  /\ call = NoCall
  /\ outsides = 0
  /\ seen = [p \in Paths |-> {}] /\ moved = FALSE

-----------------------------------------------------------------------------
(* Reading.  note_read_version is given the hash of the whole file.        *)
Note(p) ==
  /\ versions' = [versions EXCEPT ![p] = file[p]]
  /\ seen' = [seen EXCEPT ![p] = @ \union {file[p]}]

(* A read cut short notes no version, so that write_file will refuse it.   *)
ReadFile(p) ==
  /\ call = NoCall
  /\ file[p] \notin Large \union {Absent}
  /\ Note(p)
  /\ UNCHANGED <<file, runWrote, call, outsides, moved>>

(* A slice notes the version of the whole file, however little it shows.   *)
ReadSlice(p) ==
  /\ call = NoCall
  /\ file[p] # Absent
  /\ Note(p)
  /\ UNCHANGED <<file, runWrote, call, outsides, moved>>

-----------------------------------------------------------------------------
(* The gate.  A call that destroys data asks whatever auto-approve says:   *)
(* a delete, a patch that deletes, a whole-file write over content the run *)
(* did not write itself, a redirect over the same.  (A command that asks   *)
(* for other reasons too is a command that may be denied, and changes      *)
(* nothing more.)                                                          *)
OneFile(p, c) == <<[path |-> p, to |-> c, add |-> FALSE]>>
Loses(p) == p \notin runWrote /\ file[p] \notin {Absent, Empty}

(* Mutant: only the tool is asked, so a patch that deletes is not seen.    *)
DestroysByTool(tool, ops) ==
  \/ tool = "delete_file"
  \/ tool \in {"write_file", "shell"} /\ Loses(ops[1].path)

Destroys(tool, ops) ==
  \/ \E i \in DOMAIN ops : ops[i].to = Absent
  \/ tool \in {"write_file", "shell"} /\ Loses(ops[1].path)

Gate(tool, ops) ==
  /\ call = NoCall
  /\ tool = "delete_file" => Destructive
  /\ call' = [tool |-> tool, ops |-> ops, at |-> 1, pre |-> Absent, noop |-> TRUE,
              refused |-> FALSE, lost |-> {p \in Paths : Loses(p)}, yes |-> FALSE,
              pc |-> IF (tool # "shell" /\ ~AutoWrites) \/ Destroys(tool, ops)
                       THEN "asking" ELSE "granted"]
  /\ moved' = FALSE
  /\ UNCHANGED <<file, versions, runWrote, outsides, seen>>

(* A denial, or no approver attached, ends the call.                       *)
Answer(yes) ==
  /\ call.pc = "asking"
  /\ call' = IF yes THEN [call EXCEPT !.pc = "granted", !.yes = TRUE] ELSE NoCall
  /\ UNCHANGED <<file, versions, runWrote, outsides, seen, moved>>

-----------------------------------------------------------------------------
Op == call.ops[call.at]
Here == file[Op.path]

EndsCall == call' = NoCall /\ moved' = FALSE

(* Mutant: a file never read is overwritten at the version it has now.     *)
ExpectsCurrent(supplied, noted) ==
  IF supplied # Absent THEN supplied ELSE IF noted # Absent THEN noted ELSE Here

(* resolve_expected_version: what the model passes wins over what was      *)
(* noted; a model can only pass a version it was shown.                    *)
Supplied == {Absent} \union seen[Op.path]
Expected(supplied, noted) == IF supplied # Absent THEN supplied ELSE noted

(* write_file, and commit_think_block, whose bytes come from elsewhere: the *)
(* file is compared with the new bytes, then bound to the version expected *)
(* of it or to its absence.                                                *)
PrepareWhole(supplied) ==
  /\ call.pc = "granted" /\ call.tool = "write_file"
  /\ LET pre == IF Here = Absent THEN Absent ELSE Expected(supplied, versions[Op.path])
     IN  IF Here = Op.to \/ (Here # Absent /\ pre = Absent)
           THEN EndsCall
           ELSE call' = [call EXCEPT !.pc = "ready", !.pre = pre] /\ UNCHANGED moved
  /\ UNCHANGED <<file, versions, runWrote, outsides, seen>>

PrepareDelete(supplied) ==
  /\ call.pc = "granted" /\ call.tool = "delete_file"
  /\ LET pre == Expected(supplied, versions[Op.path])
     IN  IF pre = Absent
           THEN EndsCall
           ELSE call' = [call EXCEPT !.pc = "ready", !.pre = pre] /\ UNCHANGED moved
  /\ UNCHANGED <<file, versions, runWrote, outsides, seen>>

(* replace_in_file and append_file work on the bytes they read themselves. *)
(* An old_text that is not found, or found twice, ends the call after the  *)
(* version was noted.                                                      *)
PrepareEdit(supplied, found) ==
  /\ call.pc = "granted" /\ call.tool \in {"replace_in_file", "append_file"}
  /\ IF Here = Absent
       THEN /\ UNCHANGED <<versions, seen>>
            /\ IF call.tool = "append_file"
                 THEN call' = [call EXCEPT !.pc = "ready"] /\ UNCHANGED moved
                 ELSE EndsCall
       ELSE /\ Note(Op.path)
            /\ IF found \/ call.tool = "append_file"
                 THEN /\ call' = [call EXCEPT !.pc = "ready", !.pre = Expected(supplied, Here)]
                      /\ UNCHANGED moved
                 ELSE EndsCall
  /\ UNCHANGED <<file, runWrote, outsides>>

-----------------------------------------------------------------------------
(* apply_patch reads every file it names before it changes one.  A file to *)
(* update or delete that is missing ends it there; an Add section over a   *)
(* file that exists, or a hunk that does not match, refuses the patch once *)
(* all are read.                                                           *)
PatchReads(found) ==
  /\ call.pc = "granted" /\ call.tool = "apply_patch"
  /\ LET last == call.at = Len(call.ops)
         refused == call.refused \/ (IF Op.add THEN Here # Absent ELSE ~found)
     IN  IF (Here = Absent /\ ~Op.add) \/ (last /\ refused)
           THEN EndsCall
           ELSE /\ call' = [call EXCEPT !.refused = refused,
                                        !.at = IF last THEN 1 ELSE @ + 1,
                                        !.pc = IF last THEN "ready" ELSE @]
                /\ UNCHANGED moved
  /\ IF Here = Absent \/ Op.add THEN UNCHANGED <<versions, seen>> ELSE Note(Op.path)
  /\ UNCHANGED <<file, runWrote, outsides>>

Precondition ==
  IF call.tool = "apply_patch" /\ ~Op.add THEN versions[Op.path] ELSE call.pre

(* A command that truncates the file with a redirect, seen by the gate.    *)
RunCommand ==
  /\ call.pc = "granted" /\ call.tool = "shell"
  /\ file' = [file EXCEPT ![Op.path] = Op.to]
  /\ EndsCall
  /\ UNCHANGED <<versions, runWrote, outsides, seen>>

-----------------------------------------------------------------------------
(* commit_write and write_atomic_at.                                       *)

(* Done with one file: on to the next, or the call has succeeded.  A call  *)
(* that changed anything makes every path it names the run's own.          *)
NextOp(noop) ==
  IF call.at < Len(call.ops)
    THEN /\ call' = [call EXCEPT !.at = @ + 1, !.pc = "ready", !.noop = noop]
         /\ UNCHANGED runWrote
    ELSE /\ call' = NoCall
         /\ runWrote' = IF noop THEN runWrote
                        ELSE runWrote \union {call.ops[i].path : i \in DOMAIN call.ops}

(* already_holds: nothing is written over equal bytes.                     *)
AlreadyHolds ==
  /\ call.pc = "ready" /\ Op.to # Absent
  /\ IF Here = Op.to
       THEN NextOp(call.noop)
       ELSE call' = [call EXCEPT !.pc = "staged"] /\ UNCHANGED runWrote
  /\ UNCHANGED <<file, versions, outsides, seen, moved>>

(* The temporary is written and synced; the precondition is checked last.  *)
CheckPrecondition ==
  /\ call.pc = "staged" \/ (call.pc = "ready" /\ Op.to = Absent)
  /\ IF Here = Precondition
       THEN call' = [call EXCEPT !.pc = "checked"] /\ UNCHANGED moved
       ELSE EndsCall
  /\ UNCHANGED <<file, versions, runWrote, outsides, seen>>

(* The rename, or the unlink.  When the directory cannot be synced after   *)
(* it the call fails, although the file was replaced.                      *)
Replace(synced) ==
  /\ call.pc = "checked"
  /\ file' = [file EXCEPT ![Op.path] = Op.to]
  /\ moved' = FALSE
  /\ IF synced
       THEN /\ versions' = [versions EXCEPT ![Op.path] = Absent]
            /\ NextOp(FALSE)
       ELSE call' = NoCall /\ UNCHANGED <<versions, runWrote>>
  /\ UNCHANGED <<outsides, seen>>

-----------------------------------------------------------------------------
(* The operator, or anything else that changes files behind the tools.     *)
Outside(p, c) ==
  /\ outsides < MaxOutside
  /\ file[p] # c
  /\ file' = [file EXCEPT ![p] = c]
  /\ outsides' = outsides + 1
  /\ moved' = (moved \/ (call.pc = "checked" /\ Op.path = p))
  /\ UNCHANGED <<versions, runWrote, call, seen>>

(* A new mission in the same workspace: a new context, hence a new ledger  *)
(* of what the run wrote, over the registry the session kept.              *)
NewMission ==
  /\ call = NoCall
  /\ runWrote # {}
  /\ runWrote' = {}
  /\ UNCHANGED <<file, versions, call, outsides, seen, moved>>

Section(p, s) == [path |-> p, to |-> s.to, add |-> s.add]

WorkspaceNext ==
  \/ \E p \in Paths : ReadFile(p) \/ ReadSlice(p)
  \/ \E p \in Paths, c \in Contents :
       \E tool \in {"write_file", "replace_in_file", "append_file", "shell"} :
         Gate(tool, OneFile(p, c))
  \/ \E p \in Paths : Gate("delete_file", OneFile(p, Absent))
  \/ \E p, q \in Paths, s, t \in Sections :
       p # q /\ Gate("apply_patch", <<Section(p, s), Section(q, t)>>)
  \/ \E yes \in BOOLEAN : Answer(yes)
  \/ call # NoCall /\ \E supplied \in Supplied :
       PrepareWhole(supplied) \/ PrepareDelete(supplied)
       \/ \E found \in BOOLEAN : PrepareEdit(supplied, found)
  \/ \E found \in BOOLEAN : PatchReads(found)
  \/ RunCommand \/ AlreadyHolds \/ CheckPrecondition
  \/ \E synced \in BOOLEAN : Replace(synced)
  \/ \E p \in Paths, c \in Contents \union {Absent} : Outside(p, c)
  \/ NewMission

WorkspaceSpec == WorkspaceInit /\ [][WorkspaceNext]_workspaceVars

-----------------------------------------------------------------------------
WorkspaceTypeOK ==
  /\ file \in [Paths -> Contents \union {Absent}]
  /\ versions \in [Paths -> Contents \union {Absent}]
  /\ runWrote \subseteq Paths
  /\ moved \in BOOLEAN
  /\ outsides \in 0 .. MaxOutside
  /\ seen \in [Paths -> SUBSET Contents]
  /\ call = NoCall \/ call.pc \in {"asking", "granted", "ready", "staged", "checked"}

(* The call itself, not the operator, changes the file.                    *)
CallReplaces(p) == outsides' = outsides /\ file'[p] # file[p] /\ file[p] # Absent

(* No file tool replaces or deletes bytes that no tool of the run's        *)
(* registry had read, however the operator's edits fall between the read,  *)
(* the gate, the comparison and the rename; except an edit that lands in   *)
(* the window between the version check and the rename itself.             *)
NoBlindOverwrite ==
  [][\A p \in Paths :
       CallReplaces(p) /\ call.tool # "shell" => file[p] \in seen[p] \/ moved]_workspaceVars

(* Content that was there when the gate looked, at a path this run had not *)
(* written, is lost whole (a delete, a patch that deletes, a whole-file    *)
(* write, a redirect) only after a human said yes, auto-approve or not.    *)
OperatorsDataAsked ==
  [][\A p \in Paths :
       /\ CallReplaces(p) /\ p \in call.lost
       /\ file'[p] = Absent \/ call.tool \in {"write_file", "shell"}
       => call.yes]_workspaceVars
=============================================================================
