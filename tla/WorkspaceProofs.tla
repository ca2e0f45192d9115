-------------------------- MODULE WorkspaceProofs ---------------------------
(***************************************************************************)
(* What is proved of the two modules of the workspace: of the file tools   *)
(* first, NoBlindOverwrite and OperatorsDataAsked, and then of the calls   *)
(* underneath, FileAccessIsSound.                                          *)
(*                                                                         *)
(* The tools, for any paths, contents, patches and settings.  What a call  *)
(* is bound to, the version noted or the one supplied, is something a tool *)
(* has read of that path, and what the version check found stays there     *)
(* until the rename, unless the operator moved it: that is the first.  A   *)
(* call that got past the gate without a human deletes nothing and         *)
(* replaces nothing whole that was others': that is the second.            *)
(***************************************************************************)
EXTENDS Workspace, WorkspaceFs, SequenceTheorems, TLAPS

FileBytes == Contents \union {Absent}
FileTools == {"write_file", "replace_in_file", "append_file", "shell", "delete_file", "apply_patch"}
CallStages == {"asking", "granted", "ready", "staged", "checked"}
Ops == [path : Paths, to : FileBytes, add : BOOLEAN]
PendingCalls == [tool : FileTools, ops : Seq(Ops), at : Nat, pre : FileBytes, noop : BOOLEAN,
          refused : BOOLEAN, lost : SUBSET Paths, yes : BOOLEAN, pc : CallStages]

FilesTyped ==
  /\ file \in [Paths -> FileBytes]
  /\ versions \in [Paths -> FileBytes]
  /\ seen \in [Paths -> SUBSET Contents]
  /\ runWrote \subseteq Paths
  /\ moved \in BOOLEAN
  /\ outsides \in Nat

CallTyped == call # NoCall => call \in PendingCalls /\ call.at \in 1 .. Len(call.ops)

(* A version that is noted, or that a call is bound to, was read.          *)
NotedWasRead == \A p \in Paths : versions[p] # Absent => versions[p] \in seen[p]
BoundWasRead ==
  call # NoCall =>
    /\ call.tool = "apply_patch" => call.pre = Absent
    /\ call.tool # "apply_patch" => Len(call.ops) = 1
    /\ call.pre # Absent => call.pre \in seen[Op.path]
(* From the version check to the rename the file holds what was checked.   *)
CheckedHolds == call.pc = "checked" => moved \/ Here = Absent \/ Here \in seen[Op.path]
(* Nobody was asked: there is nothing of others to lose.                   *)
UnaskedIsHarmless ==
  call # NoCall /\ call.pc # "asking" /\ ~call.yes =>
    /\ \A i \in 1 .. Len(call.ops) : call.ops[i].to # Absent
    /\ call.tool \in {"write_file", "shell"} => call.ops[1].path \notin call.lost

WorkspaceInv == FilesTyped /\ CallTyped /\ NotedWasRead /\ BoundWasRead /\ CheckedHolds /\ UnaskedIsHarmless

LEMMA NoCallHasNoStage == NoCall.pc = "none" /\ NoCall \notin PendingCalls
  BY DEF NoCall, PendingCalls, CallStages

LEMMA WorkspaceInvInit == WorkspaceInit => WorkspaceInv
<1> SUFFICES ASSUME WorkspaceInit PROVE WorkspaceInv
  OBVIOUS
<1>1. FilesTyped
  <2>1. file \in [Paths -> FileBytes] /\ runWrote \subseteq Paths /\ moved \in BOOLEAN /\ outsides \in Nat
    BY DEF WorkspaceInit, FileBytes
  <2>2. versions \in [Paths -> FileBytes]
    BY DEF WorkspaceInit, FileBytes
  <2>3. seen \in [Paths -> SUBSET Contents]
    BY DEF WorkspaceInit
  <2> QED
    BY <2>1, <2>2, <2>3 DEF FilesTyped
<1>2. NotedWasRead
  BY DEF WorkspaceInit, NotedWasRead
<1> QED
  BY <1>1, <1>2, NoCallHasNoStage
     DEF WorkspaceInit, WorkspaceInv, CallTyped, BoundWasRead, CheckedHolds, UnaskedIsHarmless

(* The operation a call is at is one of its own.                           *)
LEMMA OpIsTyped ==
  ASSUME WorkspaceInv, call # NoCall
  PROVE  /\ call \in PendingCalls /\ Op \in Ops /\ Op.path \in Paths /\ Op.to \in FileBytes /\ Here \in FileBytes
         /\ Len(call.ops) \in Nat /\ call.at \in 1 .. Len(call.ops)
         /\ DOMAIN call.ops = 1 .. Len(call.ops)
<1>1. call \in PendingCalls /\ call.at \in 1 .. Len(call.ops)
  BY DEF WorkspaceInv, CallTyped
<1>2. call.ops \in Seq(Ops)
  BY <1>1 DEF PendingCalls
<1>3. Op \in Ops
  BY <1>1, <1>2 DEF Op
<1> QED
  BY <1>1, <1>2, <1>3 DEF Ops, Here, WorkspaceInv, FilesTyped

(* What it is bound to was read, or is that there is no file.              *)
LEMMA PreconditionWasRead ==
  ASSUME WorkspaceInv, call # NoCall
  PROVE  Precondition = Absent \/ Precondition \in seen[Op.path]
  BY OpIsTyped DEF Precondition, WorkspaceInv, NotedWasRead, BoundWasRead

(* Without a call there is little to keep.                                 *)
LEMMA CallEnds ==
  ASSUME WorkspaceInv, call' = NoCall, FilesTyped', NotedWasRead'
  PROVE  WorkspaceInv'
  BY NoCallHasNoStage DEF WorkspaceInv, CallTyped, BoundWasRead, CheckedHolds, UnaskedIsHarmless

(* A call in progress keeps its operations and what the gate saw.          *)
LEMMA CallGoesOn ==
  ASSUME WorkspaceInv, call # NoCall, FilesTyped', NotedWasRead', CheckedHolds',
         call' \in PendingCalls, call'.tool = call.tool, call'.ops = call.ops, call'.lost = call.lost,
         call'.at \in 1 .. Len(call.ops),
         call.tool = "apply_patch" => call'.pre = Absent,
         call'.pre # Absent => call'.pre \in seen'[Op'.path],
         call'.pc # "asking" /\ ~call'.yes => call.pc # "asking" /\ ~call.yes
  PROVE  WorkspaceInv'
<1>1. call' # NoCall
  BY NoCallHasNoStage
<1>2. CallTyped' /\ BoundWasRead'
  BY <1>1 DEF CallTyped, BoundWasRead, WorkspaceInv
<1>3. UnaskedIsHarmless'
  BY <1>1 DEF UnaskedIsHarmless, WorkspaceInv
<1> QED
  BY <1>2, <1>3 DEF WorkspaceInv

-----------------------------------------------------------------------------
(* What a read leaves behind.                                              *)
LEMMA NoteKeeps ==
  ASSUME WorkspaceInv, NEW p \in Paths, file[p] # Absent, Note(p), UNCHANGED <<file, runWrote, outsides>>,
         moved' \in BOOLEAN
  PROVE  /\ FilesTyped' /\ NotedWasRead'
         /\ \A q \in Paths : seen[q] \subseteq seen'[q]
         /\ file[p] \in seen'[p]
<1>1. file[p] \in Contents
  BY DEF WorkspaceInv, FilesTyped, FileBytes
<1>2. versions' \in [Paths -> FileBytes] /\ seen' \in [Paths -> SUBSET Contents]
  BY <1>1 DEF WorkspaceInv, FilesTyped, Note, FileBytes
<1>3. FilesTyped'
  BY <1>2 DEF WorkspaceInv, FilesTyped
<1>4. NotedWasRead' /\ (\A q \in Paths : seen[q] \subseteq seen'[q]) /\ file[p] \in seen'[p]
  BY DEF WorkspaceInv, FilesTyped, NotedWasRead, Note
<1> QED
  BY <1>3, <1>4

LEMMA ReadStep ==
  ASSUME WorkspaceInv, NEW p \in Paths, ReadFile(p) \/ ReadSlice(p)
  PROVE  WorkspaceInv'
<1>1. call' = NoCall /\ file[p] # Absent /\ Note(p) /\ UNCHANGED <<file, runWrote, outsides, moved>>
  BY DEF ReadFile, ReadSlice
<1>2. moved' \in BOOLEAN
  BY <1>1 DEF WorkspaceInv, FilesTyped
<1> QED
  BY <1>1, <1>2, NoteKeeps, CallEnds

(* Past the gate without a question goes only what destroys nothing.       *)
LEMMA GateStep ==
  ASSUME WorkspaceInv, NEW tool \in FileTools, NEW ops \in Seq(Ops), ops # <<>>, Gate(tool, ops),
         tool # "apply_patch" => Len(ops) = 1
  PROVE  WorkspaceInv'
<1>1. Len(ops) \in Nat \ {0} /\ DOMAIN ops = 1 .. Len(ops)
  OBVIOUS
<1>2. /\ call'.tool = tool /\ call'.ops = ops /\ call'.at = 1 /\ call'.pre = Absent /\ ~call'.yes
      /\ call'.lost = {p \in Paths : Loses(p)}
      /\ call'.pc = IF (tool # "shell" /\ ~AutoWrites) \/ Destroys(tool, ops) THEN "asking" ELSE "granted"
  BY DEF Gate
<1>3. call' \in PendingCalls
  BY DEF Gate, PendingCalls, CallStages, FileBytes
<1>4. call' # NoCall /\ call'.pc # "checked"
  BY <1>2, <1>3, NoCallHasNoStage
<1>5. FilesTyped' /\ NotedWasRead'
  BY DEF Gate, WorkspaceInv, FilesTyped, NotedWasRead
<1>6. CallTyped' /\ BoundWasRead' /\ CheckedHolds'
  BY <1>1, <1>2, <1>3, <1>4 DEF CallTyped, BoundWasRead, CheckedHolds
<1>7. UnaskedIsHarmless'
  <2> SUFFICES ASSUME ~Destroys(tool, ops)
               PROVE  /\ \A i \in 1 .. Len(ops) : ops[i].to # Absent
                      /\ tool \in {"write_file", "shell"} => ops[1].path \notin call'.lost
    BY <1>2 DEF UnaskedIsHarmless
  <2> QED
    BY <1>1, <1>2 DEF Destroys
<1> QED
  BY <1>5, <1>6, <1>7 DEF WorkspaceInv

LEMMA AnswerStep ==
  ASSUME WorkspaceInv, NEW yes \in BOOLEAN, Answer(yes)
  PROVE  WorkspaceInv'
<1>1. FilesTyped' /\ NotedWasRead'
  BY DEF Answer, WorkspaceInv, FilesTyped, NotedWasRead
<1>2. CASE ~yes
  BY <1>1, <1>2, CallEnds DEF Answer
<1>3. CASE yes
  <2>1. call # NoCall
    BY NoCallHasNoStage DEF Answer
  <2>2. call \in PendingCalls /\ call.at \in 1 .. Len(call.ops) /\ call.pc = "asking"
    BY <2>1, OpIsTyped DEF Answer
  <2> DEFINE between == [call EXCEPT !.pc = "granted"]
  <2>3. /\ between \in PendingCalls /\ between.tool = call.tool /\ between.ops = call.ops /\ between.lost = call.lost
        /\ between.at = call.at /\ between.pre = call.pre /\ between.pc = "granted"
    BY <2>2 DEF PendingCalls, CallStages
  <2>4. call' = [between EXCEPT !.yes = TRUE]
    BY <1>3, <2>2 DEF Answer, PendingCalls
  <2> HIDE DEF between
  <2>5. /\ call' \in PendingCalls /\ call'.tool = call.tool /\ call'.ops = call.ops /\ call'.lost = call.lost
        /\ call'.at = call.at /\ call'.pre = call.pre /\ call'.pc = "granted" /\ call'.yes
    BY <2>3, <2>4 DEF PendingCalls
  <2>6. seen' = seen /\ Op'.path = Op.path
    BY <2>5 DEF Answer, Op
  <2>7. CheckedHolds'
    BY <2>5 DEF CheckedHolds
  <2> QED
    BY <1>1, <2>1, <2>2, <2>5, <2>6, <2>7, CallGoesOn DEF WorkspaceInv, BoundWasRead
<1> QED
  BY <1>2, <1>3

(* A call that is ready is bound to a version that was read, or to none.   *)
LEMMA GetsReady ==
  ASSUME WorkspaceInv, call # NoCall, call.pc = "granted", call.tool # "apply_patch", NEW pre \in FileBytes,
         call' = [call EXCEPT !.pc = "ready", !.pre = pre], pre # Absent => pre \in seen'[Op.path],
         FilesTyped', NotedWasRead'
  PROVE  WorkspaceInv'
<1>1. call \in PendingCalls /\ call.at \in 1 .. Len(call.ops)
  BY OpIsTyped
<1> DEFINE between == [call EXCEPT !.pc = "ready"]
<1>2. /\ between \in PendingCalls /\ between.tool = call.tool /\ between.ops = call.ops /\ between.lost = call.lost
      /\ between.at = call.at /\ between.yes = call.yes /\ between.pc = "ready"
  BY <1>1 DEF PendingCalls, CallStages
<1>3. call' = [between EXCEPT !.pre = pre]
  BY <1>1 DEF PendingCalls
<1> HIDE DEF between
<1>4. /\ call' \in PendingCalls /\ call'.tool = call.tool /\ call'.ops = call.ops /\ call'.lost = call.lost
      /\ call'.at = call.at /\ call'.yes = call.yes /\ call'.pc = "ready" /\ call'.pre = pre
  BY <1>2, <1>3 DEF PendingCalls
<1>5. Op'.path = Op.path /\ CheckedHolds'
  BY <1>4 DEF Op, CheckedHolds
<1> QED
  BY <1>1, <1>4, <1>5, CallGoesOn

(* A model can pass only a version that it was shown.                      *)
LEMMA ExpectedWasRead ==
  ASSUME WorkspaceInv, call # NoCall, NEW supplied \in Supplied
  PROVE  /\ Expected(supplied, versions[Op.path]) \in FileBytes
         /\ Expected(supplied, versions[Op.path]) # Absent =>
              Expected(supplied, versions[Op.path]) \in seen[Op.path]
<1>1. Op.path \in Paths
  BY OpIsTyped
<1>2. seen[Op.path] \subseteq Contents /\ versions[Op.path] \in FileBytes
  BY <1>1 DEF WorkspaceInv, FilesTyped
<1> QED
  BY <1>1, <1>2 DEF Supplied, Expected, WorkspaceInv, NotedWasRead, FileBytes

LEMMA WholeStep ==
  ASSUME WorkspaceInv, call # NoCall, NEW supplied \in Supplied, PrepareWhole(supplied) \/ PrepareDelete(supplied)
  PROVE  WorkspaceInv'
<1> DEFINE expected == Expected(supplied, versions[Op.path])
<1>1. expected \in FileBytes /\ (expected # Absent => expected \in seen[Op.path])
  BY ExpectedWasRead
<1> HIDE DEF expected
<1>2. call.pc = "granted" /\ call.tool # "apply_patch" /\ UNCHANGED <<file, versions, runWrote, outsides, seen>>
  BY DEF PrepareWhole, PrepareDelete
<1>3. \/ EndsCall
      \/ \E pre \in {Absent, expected} : call' = [call EXCEPT !.pc = "ready", !.pre = pre] /\ moved' = moved
  BY DEF PrepareWhole, PrepareDelete, expected
<1>4. moved' \in BOOLEAN
  BY <1>3 DEF EndsCall, WorkspaceInv, FilesTyped
<1>5. FilesTyped' /\ NotedWasRead'
  BY <1>2, <1>4 DEF WorkspaceInv, FilesTyped, NotedWasRead
<1>6. CASE EndsCall
  BY <1>5, <1>6, CallEnds DEF EndsCall
<1>7. ASSUME NEW pre \in {Absent, expected}, call' = [call EXCEPT !.pc = "ready", !.pre = pre]
      PROVE  WorkspaceInv'
  <2>1. pre \in FileBytes /\ (pre # Absent => pre \in seen'[Op.path])
    BY <1>1, <1>2 DEF FileBytes
  <2> QED
    BY <1>2, <1>5, <1>7, <2>1, GetsReady
<1> QED
  BY <1>3, <1>6, <1>7

LEMMA EditStep ==
  ASSUME WorkspaceInv, call # NoCall, NEW supplied \in Supplied, NEW found \in BOOLEAN,
         PrepareEdit(supplied, found)
  PROVE  WorkspaceInv'
<1>1. call.pc = "granted" /\ call.tool # "apply_patch" /\ UNCHANGED <<file, runWrote, outsides>>
  BY DEF PrepareEdit
<1>2. Op.path \in Paths /\ Here \in FileBytes /\ call \in PendingCalls
  BY OpIsTyped
<1>3. moved' \in BOOLEAN
  BY DEF PrepareEdit, EndsCall, WorkspaceInv, FilesTyped
<1>4. CASE Here = Absent
  <2>1. FilesTyped' /\ NotedWasRead'
    BY <1>1, <1>3, <1>4 DEF PrepareEdit, WorkspaceInv, FilesTyped, NotedWasRead
  <2>2. CASE EndsCall
    BY <2>1, <2>2, CallEnds DEF EndsCall
  <2>3. CASE call' = [call EXCEPT !.pc = "ready"]
    <3>1. /\ call' \in PendingCalls /\ call'.tool = call.tool /\ call'.ops = call.ops /\ call'.lost = call.lost
          /\ call'.at = call.at /\ call'.yes = call.yes /\ call'.pc = "ready" /\ call'.pre = call.pre
      BY <1>2, <2>3 DEF PendingCalls, CallStages
    <3>2. Op'.path = Op.path /\ CheckedHolds' /\ seen' = seen
      BY <3>1, <1>4 DEF Op, CheckedHolds, PrepareEdit
    <3> QED
      BY <1>1, <2>1, <3>1, <3>2, OpIsTyped, CallGoesOn DEF WorkspaceInv, BoundWasRead
  <2> QED
    BY <1>4, <2>2, <2>3 DEF PrepareEdit
<1>5. CASE Here # Absent
  <2>1. Note(Op.path) /\ file[Op.path] # Absent
    BY <1>5 DEF PrepareEdit, Here
  <2>2. /\ FilesTyped' /\ NotedWasRead'
        /\ \A q \in Paths : seen[q] \subseteq seen'[q]
        /\ Here \in seen'[Op.path]
    BY <1>1, <1>2, <1>3, <2>1, NoteKeeps DEF Here
  <2>3. CASE EndsCall
    BY <2>2, <2>3, CallEnds DEF EndsCall
  <2>4. CASE call' = [call EXCEPT !.pc = "ready", !.pre = Expected(supplied, Here)]
    <3>1. Expected(supplied, Here) \in seen'[Op.path]
      BY <1>2, <2>2 DEF Expected, Supplied
    <3>2. Expected(supplied, Here) \in FileBytes
      BY <1>2, <2>2, <3>1 DEF FilesTyped, FileBytes
    <3> QED
      BY <1>1, <2>2, <2>4, <3>1, <3>2, GetsReady
  <2> QED
    BY <1>5, <2>3, <2>4 DEF PrepareEdit
<1> QED
  BY <1>4, <1>5

LEMMA PatchStep ==
  ASSUME WorkspaceInv, NEW found \in BOOLEAN, PatchReads(found)
  PROVE  WorkspaceInv'
<1>1. call # NoCall /\ call.pc = "granted" /\ call.tool = "apply_patch" /\ UNCHANGED <<file, runWrote, outsides>>
  BY NoCallHasNoStage DEF PatchReads
<1>2. call \in PendingCalls /\ call.at \in 1 .. Len(call.ops) /\ Len(call.ops) \in Nat /\ Op.path \in Paths
  BY <1>1, OpIsTyped
<1>3. moved' \in BOOLEAN
  BY DEF PatchReads, EndsCall, WorkspaceInv, FilesTyped
<1>4. FilesTyped' /\ NotedWasRead'
  <2>1. CASE Here = Absent \/ Op.add
    BY <1>1, <1>3, <2>1 DEF PatchReads, WorkspaceInv, FilesTyped, NotedWasRead
  <2>2. CASE ~(Here = Absent \/ Op.add)
    BY <1>1, <1>2, <1>3, <2>2, NoteKeeps DEF PatchReads, Here
  <2> QED
    BY <2>1, <2>2
<1>5. CASE EndsCall
  BY <1>4, <1>5, CallEnds DEF EndsCall
<1>6. ASSUME NEW refused \in BOOLEAN, NEW last \in BOOLEAN, last = (call.at = Len(call.ops)),
             call' = [call EXCEPT !.refused = refused, !.at = IF last THEN 1 ELSE @ + 1,
                                  !.pc = IF last THEN "ready" ELSE @]
      PROVE  WorkspaceInv'
  <2> DEFINE first == [call EXCEPT !.refused = refused]
             at == IF last THEN 1 ELSE call.at + 1
             second == [first EXCEPT !.at = at]
             pc == IF last THEN "ready" ELSE call.pc
  <2>1. at \in 1 .. Len(call.ops) /\ at \in Nat /\ pc \in CallStages /\ pc # "asking" /\ pc # "checked"
    <3>1. CASE last
      BY <3>1, <1>2 DEF CallStages
    <3>2. CASE ~last
      <4>1. call.at # Len(call.ops)
        BY <3>2, <1>6
      <4> QED
        BY <3>2, <4>1, <1>1, <1>2 DEF CallStages
    <3> QED
      BY <3>1, <3>2, <1>6
  <2>2. /\ first \in PendingCalls /\ first.tool = call.tool /\ first.ops = call.ops /\ first.lost = call.lost
        /\ first.at = call.at /\ first.yes = call.yes /\ first.pre = call.pre /\ first.pc = call.pc
    BY <1>2 DEF PendingCalls
  <2>3. call' = [second EXCEPT !.pc = pc]
    BY <1>2, <1>6 DEF PendingCalls
  <2> HIDE DEF first, at, pc
  <2>4. /\ second \in PendingCalls /\ second.tool = call.tool /\ second.ops = call.ops /\ second.lost = call.lost
        /\ second.at = at /\ second.yes = call.yes /\ second.pre = call.pre
    BY <2>1, <2>2 DEF PendingCalls
  <2> HIDE DEF second
  <2>5. /\ call' \in PendingCalls /\ call'.tool = call.tool /\ call'.ops = call.ops /\ call'.lost = call.lost
        /\ call'.at = at /\ call'.yes = call.yes /\ call'.pre = call.pre /\ call'.pc = pc
    BY <2>1, <2>3, <2>4 DEF PendingCalls
  <2>6. CheckedHolds' /\ call.pre = Absent
    BY <1>1, <2>1, <2>5 DEF CheckedHolds, WorkspaceInv, BoundWasRead
  <2> QED
    BY <1>1, <1>4, <2>1, <2>5, <2>6, CallGoesOn
<1> QED
  <2> DEFINE last == call.at = Len(call.ops)
             refused == call.refused \/ (IF Op.add THEN Here # Absent ELSE ~found)
  <2>1. refused \in BOOLEAN /\ last \in BOOLEAN
    BY <1>2 DEF PendingCalls
  <2>2. EndsCall \/ call' = [call EXCEPT !.refused = refused, !.at = IF last THEN 1 ELSE @ + 1,
                                         !.pc = IF last THEN "ready" ELSE @]
    BY DEF PatchReads
  <2> HIDE DEF refused
  <2> QED
    BY <1>5, <1>6, <2>1, <2>2

(* Only a patch has more than one operation, and it is bound to no version *)
(* that was supplied.                                                      *)
LEMMA OneOrPatch ==
  ASSUME WorkspaceInv, call # NoCall
  PROVE  /\ call.tool = "apply_patch" => call.pre = Absent
         /\ call.tool # "apply_patch" => call.at = 1 /\ ~(call.at < Len(call.ops))
<1>1. /\ call.tool = "apply_patch" => call.pre = Absent
      /\ call.tool # "apply_patch" => Len(call.ops) = 1
  BY DEF WorkspaceInv, BoundWasRead
<1>2. call.at \in 1 .. Len(call.ops) /\ Len(call.ops) \in Nat
  BY OpIsTyped
<1>3. Len(call.ops) = 1 => call.at = 1 /\ ~(call.at < Len(call.ops))
  BY <1>2
<1> QED
  BY <1>1, <1>3

(* A next operation is bound to what was noted of it, or to nothing.       *)
LEMMA NextOpKeeps ==
  ASSUME WorkspaceInv, call # NoCall, call.pc # "asking", NEW noop \in BOOLEAN, NextOp(noop),
         file' \in [Paths -> FileBytes], versions' \in [Paths -> FileBytes], moved' \in BOOLEAN,
         UNCHANGED <<seen, outsides>>, NotedWasRead'
  PROVE  WorkspaceInv'
<1>1. /\ call \in PendingCalls /\ call.at \in 1 .. Len(call.ops) /\ Len(call.ops) \in Nat
      /\ DOMAIN call.ops = 1 .. Len(call.ops) /\ call.ops \in Seq(Ops)
  BY OpIsTyped DEF PendingCalls
<1>2. runWrote' \subseteq Paths
  <2>1. \A i \in DOMAIN call.ops : call.ops[i] \in Ops
    BY <1>1
  <2>2. {call.ops[i].path : i \in DOMAIN call.ops} \subseteq Paths
    BY <2>1 DEF Ops
  <2> QED
    BY <2>2 DEF NextOp, WorkspaceInv, FilesTyped
<1>3. FilesTyped'
  BY <1>2 DEF WorkspaceInv, FilesTyped
<1>4. CASE call.at < Len(call.ops)
  <2> DEFINE first == [call EXCEPT !.at = call.at + 1]
             second == [first EXCEPT !.pc = "ready"]
  <2>1. /\ first \in PendingCalls /\ first.tool = call.tool /\ first.ops = call.ops /\ first.lost = call.lost
        /\ first.at = call.at + 1 /\ first.yes = call.yes /\ first.pre = call.pre
    BY <1>1 DEF PendingCalls
  <2>2. call' = [second EXCEPT !.noop = noop]
    BY <1>1, <1>4 DEF NextOp, PendingCalls
  <2> HIDE DEF first
  <2>3. /\ second \in PendingCalls /\ second.tool = call.tool /\ second.ops = call.ops /\ second.lost = call.lost
        /\ second.at = call.at + 1 /\ second.yes = call.yes /\ second.pre = call.pre /\ second.pc = "ready"
    BY <2>1 DEF PendingCalls, CallStages
  <2> HIDE DEF second
  <2>4. /\ call' \in PendingCalls /\ call'.tool = call.tool /\ call'.ops = call.ops /\ call'.lost = call.lost
        /\ call'.at = call.at + 1 /\ call'.yes = call.yes /\ call'.pre = call.pre /\ call'.pc = "ready"
    BY <2>2, <2>3 DEF PendingCalls
  <2>5. CheckedHolds'
    BY <2>4 DEF CheckedHolds
  <2>6. call.pre = Absent
    BY <1>4, OneOrPatch
  <2>7. call.at + 1 \in 1 .. Len(call.ops)
    BY <1>1, <1>4
  <2> QED
    BY <1>3, <2>4, <2>5, <2>6, <2>7, CallGoesOn
<1>5. CASE ~(call.at < Len(call.ops))
  BY <1>3, <1>5, CallEnds DEF NextOp
<1> QED
  BY <1>4, <1>5

(* A call goes to the next stage with all it has.                          *)
LEMMA StageKeeps ==
  ASSUME WorkspaceInv, call # NoCall, call.pc # "asking", NEW stage \in CallStages \ {"asking"},
         call' = [call EXCEPT !.pc = stage], UNCHANGED <<file, versions, runWrote, outsides, seen, moved>>,
         stage = "checked" => moved \/ Here = Absent \/ Here \in seen[Op.path]
  PROVE  WorkspaceInv'
<1>1. call \in PendingCalls /\ call.at \in 1 .. Len(call.ops)
  BY OpIsTyped
<1>2. /\ call' \in PendingCalls /\ call'.tool = call.tool /\ call'.ops = call.ops /\ call'.lost = call.lost
      /\ call'.at = call.at /\ call'.yes = call.yes /\ call'.pre = call.pre /\ call'.pc = stage
  BY <1>1 DEF PendingCalls
<1>3. FilesTyped' /\ NotedWasRead'
  BY DEF WorkspaceInv, FilesTyped, NotedWasRead
<1>4. Op' = Op /\ Here' = Here
  BY <1>2 DEF Op, Here
<1>5. CheckedHolds'
  BY <1>2, <1>4 DEF CheckedHolds
<1> QED
  BY <1>1, <1>2, <1>3, <1>4, <1>5, CallGoesOn DEF WorkspaceInv, BoundWasRead

LEMMA HoldsStep == ASSUME WorkspaceInv, AlreadyHolds PROVE WorkspaceInv'
<1>1. call # NoCall /\ call.pc = "ready" /\ UNCHANGED <<file, versions, outsides, seen, moved>>
  BY NoCallHasNoStage DEF AlreadyHolds
<1>2. CASE Here = Op.to
  <2>1. call.noop \in BOOLEAN /\ NextOp(call.noop)
    BY <1>1, <1>2, OpIsTyped DEF AlreadyHolds, PendingCalls
  <2> QED
    BY <1>1, <2>1, NextOpKeeps DEF WorkspaceInv, FilesTyped, NotedWasRead
<1>3. CASE Here # Op.to
  BY <1>1, <1>3, StageKeeps DEF AlreadyHolds, CallStages
<1> QED
  BY <1>2, <1>3

LEMMA CheckStep == ASSUME WorkspaceInv, CheckPrecondition PROVE WorkspaceInv'
<1>1. call # NoCall /\ call.pc # "asking" /\ UNCHANGED <<file, versions, runWrote, outsides, seen>>
  BY NoCallHasNoStage DEF CheckPrecondition
<1>2. CASE Here = Precondition
  BY <1>1, <1>2, PreconditionWasRead, StageKeeps DEF CheckPrecondition, CallStages
<1>3. CASE Here # Precondition
  <2>1. call' = NoCall /\ moved' = FALSE
    BY <1>3 DEF CheckPrecondition, EndsCall
  <2> QED
    BY <1>1, <2>1, CallEnds DEF WorkspaceInv, FilesTyped, NotedWasRead
<1> QED
  BY <1>2, <1>3

LEMMA ReplaceStep ==
  ASSUME WorkspaceInv, NEW flushed \in BOOLEAN, Replace(flushed)
  PROVE  WorkspaceInv'
<1>1. call # NoCall /\ call.pc = "checked" /\ UNCHANGED <<outsides, seen>> /\ moved' = FALSE
  BY NoCallHasNoStage DEF Replace
<1>2. Op.path \in Paths /\ Op.to \in FileBytes
  BY <1>1, OpIsTyped
<1>3. file' \in [Paths -> FileBytes]
  BY <1>2 DEF Replace, WorkspaceInv, FilesTyped
<1>4. CASE flushed
  <2>1. versions' = [versions EXCEPT ![Op.path] = Absent] /\ NextOp(FALSE)
    BY <1>4 DEF Replace
  <2>2. versions' \in [Paths -> FileBytes] /\ NotedWasRead'
    BY <1>1, <1>2, <2>1 DEF WorkspaceInv, FilesTyped, NotedWasRead, FileBytes
  <2> QED
    BY <1>1, <1>3, <2>1, <2>2, NextOpKeeps
<1>5. CASE ~flushed
  BY <1>1, <1>3, <1>5, CallEnds DEF Replace, WorkspaceInv, FilesTyped, NotedWasRead
<1> QED
  BY <1>4, <1>5

LEMMA ShellRuns == ASSUME WorkspaceInv, RunCommand PROVE WorkspaceInv'
<1>1. Op.path \in Paths /\ Op.to \in FileBytes
  BY NoCallHasNoStage, OpIsTyped DEF RunCommand
<1>2. file' \in [Paths -> FileBytes]
  BY <1>1 DEF RunCommand, WorkspaceInv, FilesTyped
<1> QED
  BY <1>2, CallEnds DEF RunCommand, EndsCall, WorkspaceInv, FilesTyped, NotedWasRead

(* The operator's change after the check is what moved remembers.          *)
LEMMA OutsideStep ==
  ASSUME WorkspaceInv, NEW p \in Paths, NEW c \in FileBytes, Outside(p, c)
  PROVE  WorkspaceInv'
<1>1. call' = call /\ seen' = seen
  BY DEF Outside
<1>2. FilesTyped' /\ NotedWasRead'
  BY DEF Outside, WorkspaceInv, FilesTyped, NotedWasRead
<1>3. CASE call = NoCall
  BY <1>1, <1>2, <1>3, CallEnds
<1>4. CASE call # NoCall
  <2>1. Op' = Op /\ Op.path \in Paths
    BY <1>1, <1>4, OpIsTyped DEF Op
  <2>2. CheckedHolds'
    <3> SUFFICES ASSUME call.pc = "checked", ~moved' PROVE Here' = Absent \/ Here' \in seen[Op.path]
      BY <1>1, <2>1 DEF CheckedHolds
    <3>1. ~moved /\ p # Op.path
      BY DEF Outside
    <3>2. Here' = Here
      BY <2>1, <3>1 DEF Here, Outside, WorkspaceInv, FilesTyped
    <3> QED
      BY <3>1, <3>2 DEF WorkspaceInv, CheckedHolds
  <2> QED
    BY <1>1, <1>2, <1>4, <2>1, <2>2, OpIsTyped, CallGoesOn DEF WorkspaceInv, BoundWasRead
<1> QED
  BY <1>3, <1>4

LEMMA MissionStep == ASSUME WorkspaceInv, NewMission PROVE WorkspaceInv'
  BY CallEnds DEF NewMission, WorkspaceInv, FilesTyped, NotedWasRead

LEMMA WorkspaceInvNext == WorkspaceInv /\ [WorkspaceNext]_workspaceVars => WorkspaceInv'
<1> SUFFICES ASSUME WorkspaceInv, [WorkspaceNext]_workspaceVars
             PROVE  WorkspaceInv'
  OBVIOUS
<1>1. CASE UNCHANGED workspaceVars
  BY <1>1 DEF workspaceVars, WorkspaceInv, FilesTyped, CallTyped, NotedWasRead, BoundWasRead, CheckedHolds,
              UnaskedIsHarmless, Op, Here
<1>2. ASSUME NEW p \in Paths, ReadFile(p) \/ ReadSlice(p) PROVE WorkspaceInv'
  BY <1>2, ReadStep
<1>3. ASSUME NEW p \in Paths, NEW c \in FileBytes, NEW tool \in FileTools, tool # "apply_patch", Gate(tool, OneFile(p, c))
      PROVE  WorkspaceInv'
  <2>1. OneFile(p, c) \in Seq(Ops) /\ OneFile(p, c) # <<>> /\ Len(OneFile(p, c)) = 1
    BY DEF OneFile, Ops
  <2> QED
    BY <1>3, <2>1, GateStep
<1>4. ASSUME NEW p \in Paths, NEW q \in Paths, NEW s \in Sections, NEW t \in Sections,
             Gate("apply_patch", <<Section(p, s), Section(q, t)>>)
      PROVE  WorkspaceInv'
  <2>1. Section(p, s) \in Ops /\ Section(q, t) \in Ops
    BY SectionsAssumption DEF Section, Ops, FileBytes
  <2>2. <<Section(p, s), Section(q, t)>> \in Seq(Ops) /\ <<Section(p, s), Section(q, t)>> # <<>>
    BY <2>1
  <2> QED
    BY <1>4, <2>2, GateStep DEF FileTools
<1>5. ASSUME NEW yes \in BOOLEAN, Answer(yes) PROVE WorkspaceInv'
  BY <1>5, AnswerStep
<1>6. ASSUME call # NoCall, NEW supplied \in Supplied,
             \/ PrepareWhole(supplied) \/ PrepareDelete(supplied)
             \/ \E found \in BOOLEAN : PrepareEdit(supplied, found)
      PROVE  WorkspaceInv'
  BY <1>6, WholeStep, EditStep
<1>7. ASSUME NEW found \in BOOLEAN, PatchReads(found) PROVE WorkspaceInv'
  BY <1>7, PatchStep
<1>8. CASE RunCommand \/ AlreadyHolds \/ CheckPrecondition
  BY <1>8, ShellRuns, HoldsStep, CheckStep
<1>9. ASSUME NEW flushed \in BOOLEAN, Replace(flushed) PROVE WorkspaceInv'
  BY <1>9, ReplaceStep
<1>10. ASSUME NEW p \in Paths, NEW c \in FileBytes, Outside(p, c) PROVE WorkspaceInv'
  BY <1>10, OutsideStep
<1>11. CASE NewMission
  BY <1>11, MissionStep
<1> QED
  <2>1. CASE \E p \in Paths, c \in Contents :
               \E tool \in {"write_file", "replace_in_file", "append_file", "shell"} : Gate(tool, OneFile(p, c))
    BY <2>1, <1>3 DEF FileTools, FileBytes
  <2>2. CASE \E p \in Paths : Gate("delete_file", OneFile(p, Absent))
    BY <2>2, <1>3 DEF FileTools, FileBytes
  <2>3. CASE \E p, q \in Paths, s, t \in Sections :
               p # q /\ Gate("apply_patch", <<Section(p, s), Section(q, t)>>)
    BY <2>3, <1>4
  <2>4. CASE \E p \in Paths, c \in Contents \union {Absent} : Outside(p, c)
    BY <2>4, <1>10 DEF FileBytes
  <2> QED
    BY <1>1, <1>2, <1>5, <1>6, <1>7, <1>8, <1>9, <1>11, <2>1, <2>2, <2>3, <2>4 DEF WorkspaceNext

-----------------------------------------------------------------------------
(* Only a rename, an unlink or a command changes a file in a call's name.  *)
LEMMA WhoReplaces ==
  ASSUME WorkspaceInv, WorkspaceNext, NEW p \in Paths, CallReplaces(p)
  PROVE  /\ call # NoCall /\ call.pc # "asking" /\ p = Op.path /\ file'[p] = Op.to
         /\ call.tool = "shell" \/ call.pc = "checked"
<1>1. CASE RunCommand
  <2>1. call # NoCall /\ call.pc = "granted" /\ call.tool = "shell" /\ file' = [file EXCEPT ![Op.path] = Op.to]
    BY <1>1, NoCallHasNoStage DEF RunCommand
  <2> QED
    BY <2>1, OpIsTyped DEF CallReplaces, WorkspaceInv, FilesTyped
<1>2. ASSUME NEW flushed \in BOOLEAN, Replace(flushed)
      PROVE  call # NoCall /\ call.pc = "checked" /\ p = Op.path /\ file'[p] = Op.to
  <2>1. call # NoCall /\ call.pc = "checked" /\ file' = [file EXCEPT ![Op.path] = Op.to]
    BY <1>2, NoCallHasNoStage DEF Replace
  <2> QED
    BY <2>1, OpIsTyped DEF CallReplaces, WorkspaceInv, FilesTyped
<1>3. CASE file' = file \/ outsides' # outsides
  BY <1>3 DEF CallReplaces
<1>4. ASSUME NEW q \in Paths, NEW c \in FileBytes, Outside(q, c) PROVE outsides' # outsides
  BY <1>4 DEF Outside, WorkspaceInv, FilesTyped
<1> QED
  <2>1. RunCommand \/ (\E flushed \in BOOLEAN : Replace(flushed)) \/ file' = file
        \/ \E q \in Paths, c \in FileBytes : Outside(q, c)
    BY DEF WorkspaceNext, ReadFile, ReadSlice, Gate, Answer, PrepareWhole, PrepareDelete, PrepareEdit, PatchReads,
           AlreadyHolds, CheckPrecondition, NewMission, FileBytes
  <2> QED
    BY <1>1, <1>2, <1>3, <1>4, <2>1

LEMMA BytesWereRead ==
  ASSUME WorkspaceInv, WorkspaceNext, NEW p \in Paths, CallReplaces(p), call.tool # "shell"
  PROVE  file[p] \in seen[p] \/ moved
  BY WhoReplaces DEF WorkspaceInv, CheckedHolds, Here, CallReplaces

LEMMA HumanWasAsked ==
  ASSUME WorkspaceInv, WorkspaceNext, NEW p \in Paths, CallReplaces(p), p \in call.lost,
         file'[p] = Absent \/ call.tool \in {"write_file", "shell"}
  PROVE  call.yes
<1> SUFFICES ASSUME ~call.yes PROVE FALSE
  OBVIOUS
<1>1. call # NoCall /\ call.pc # "asking" /\ p = Op.path /\ file'[p] = Op.to
  BY WhoReplaces
<1>2. call \in PendingCalls /\ call.at \in 1 .. Len(call.ops) /\ Len(call.ops) \in Nat
  BY <1>1, OpIsTyped
<1>3. /\ \A i \in 1 .. Len(call.ops) : call.ops[i].to # Absent
      /\ call.tool \in {"write_file", "shell"} => call.ops[1].path \notin call.lost
  BY <1>1 DEF WorkspaceInv, UnaskedIsHarmless
<1>4. call.tool \in {"write_file", "shell"}
  BY <1>1, <1>2, <1>3 DEF Op
<1>5. call.at = 1
  BY <1>1, <1>4, OneOrPatch
<1> QED
  BY <1>1, <1>3, <1>4, <1>5 DEF Op

(* No file tool replaces or deletes bytes that were never read, whatever   *)
(* the operator changes meanwhile, but for a change that lands between the *)
(* version check of write_atomic_at and its rename.                        *)
THEOREM NothingIsOverwrittenBlind == WorkspaceSpec => NoBlindOverwrite
<1>1. WorkspaceInv /\ [WorkspaceNext]_workspaceVars =>
        [\A p \in Paths : CallReplaces(p) /\ call.tool # "shell" => file[p] \in seen[p] \/ moved]_workspaceVars
  BY BytesWereRead
<1> QED
  BY <1>1, WorkspaceInvInit, WorkspaceInvNext, PTL DEF WorkspaceSpec, NoBlindOverwrite

(* What the gate saw and the run had not written is lost whole only after  *)
(* a human said yes.                                                       *)
THEOREM LossIsAsked == WorkspaceSpec => OperatorsDataAsked
<1>1. WorkspaceInv /\ [WorkspaceNext]_workspaceVars =>
        [\A p \in Paths :
           /\ CallReplaces(p) /\ p \in call.lost
           /\ file'[p] = Absent \/ call.tool \in {"write_file", "shell"}
           => call.yes]_workspaceVars
  BY HumanWasAsked
<1> QED
  BY <1>1, WorkspaceInvInit, WorkspaceInvNext, PTL DEF WorkspaceSpec, OperatorsDataAsked

-----------------------------------------------------------------------------
(***************************************************************************)
(* FileAccessIsSound of WorkspaceFs, for any tree and operations asked     *)
(* for.  The invariant says of each thread how far its walk has come and   *)
(* where it stands, that what an entry may name is complete and flushed by *)
(* a thread that writes it no more, that a scan's entries are those passed *)
(* on a descriptor of its own, and that a read has a prefix of its file.   *)
(***************************************************************************)
Stored == Files \union {Beyond} \union Threads
Writable == Files \union Threads
Leaf == [kind : {"file"}, what : Threads]
Places ==
  {"start", "look", "enter", "enter made", "make", "leaf", "temporary", "fill", "flush", "check",
   "commit", "settle", "reopen", "scan", "open", "size", "blocks", "done", "lost"}
Statuses == {"Ok", "OutsideRoot", "NotFound", "Symlink", "InvalidPath", "IsDirectory", "Conflict",
             "TooLarge", "IoError"}
Operation ==
  [what : {"list", "read", "contain", "remove", "write"}, parts : Seq(Entries \union {".."}),
   create : BOOLEAN, claim : {"any", "old", "absent"}, at : Folders, depth : Nat, file : Stored,
   size : Nat, got : Seq({Fresh, Old}), scans : Threads \union {Home}, names : SUBSET Entries, pc : Places,
   status : Statuses]

DiskTyped ==
  /\ DOMAIN tree = Folders \union {Elsewhere} /\ DOMAIN tree[Elsewhere] = Entries
  /\ \A d \in Folders : tree[d] \in [Entries -> Within \union Leaf]
  /\ stored \in [Stored -> Seq({Fresh, Old})]
  /\ synced \subseteq Threads /\ temps \in [Threads -> Folders \union {"none"}]
  /\ offset \in [Threads \union {Home} -> SUBSET Entries]
  /\ changed \subseteq Folders \X Entries /\ rewritten \subseteq Files
  /\ meddled \in 0 .. MaxMoves

(* How far a walk has come goes with where it stands.                      *)
Walks(o) ==
  /\ o.depth <= Len(o.parts)
  /\ o.pc = "start" => o.at = Home /\ o.depth = 0
  /\ o.pc = "start" /\ o.status = "Ok" => o.parts \in Seq(Entries)
  /\ o.pc \notin {"start", "done", "lost"} => o.parts \in Seq(Entries) /\ o.depth <= Depth(o)
  /\ o.pc \in {"look", "enter", "enter made", "make"} => o.depth < Depth(o)
  /\ o.pc \in {"leaf", "temporary", "fill", "flush", "check", "commit", "open"} =>
       o.what # "list" /\ o.depth = Depth(o)
  /\ o.pc \in {"leaf", "temporary", "fill", "flush", "check", "commit", "settle"} => o.what # "read"
  /\ o.pc = "settle" => o.what # "list"
  /\ o.pc \in {"temporary", "fill", "flush"} => o.what = "write"
  /\ o.pc \in {"reopen", "scan"} => o.what = "list"
  /\ o.pc \in {"open", "size", "blocks"} => o.what = "read"

WalksTyped == op \in [Threads -> Operation] /\ \A t \in Threads : Walks(op[t])

(* What an entry may name is complete and on the disk.                     *)
Complete(t) == stored[t] = <<Fresh, Fresh>> /\ t \in synced
Ended(t) == Complete(t) /\ op[t].pc \in {"settle", "done", "lost"}
Published ==
  \A d \in Folders : \A n \in Entries : \A t \in Threads : tree[d][n] = File(t) => Ended(t)

Writing(t) ==
  /\ op[t].pc \in {"start", "look", "enter", "enter made", "make", "leaf", "temporary"} => stored[t] = <<>>
  /\ op[t].pc = "fill" => stored[t] \in {<<>>, <<Fresh>>}
  /\ op[t].pc = "flush" => stored[t] = <<Fresh, Fresh>>
  /\ op[t].pc \in {"check", "commit"} /\ op[t].what = "write" => Complete(t)
  /\ temps[t] # "none" => op[t].pc \in {"fill", "flush", "check", "commit", "lost"}

Listing(t) ==
  /\ op[t].pc = "scan" => op[t].scans = t /\ offset[t] \subseteq op[t].names
  /\ op[t].what = "list" /\ op[t].pc = "done" /\ op[t].status = "Ok" =>
       \A n \in Entries :
         tree[op[t].at][n].kind # "absent" /\ <<op[t].at, n>> \notin changed => n \in op[t].names

Gets(o) == o.pc = "blocks" \/ (o.what = "read" /\ o.pc = "done" /\ o.status = "Ok")
Reading(t) ==
  /\ op[t].pc \notin {"blocks", "done", "lost"} => op[t].got = <<>>
  /\ op[t].pc = "size" \/ Gets(op[t]) =>
       op[t].file \in Files \/ (op[t].file \in Threads /\ Ended(op[t].file))
  /\ Gets(op[t]) =>
       /\ Len(op[t].got) <= op[t].size
       /\ op[t].pc = "done" => Len(op[t].got) = op[t].size
       /\ op[t].file \notin rewritten =>
            /\ op[t].size = Len(stored[op[t].file])
            /\ \A i \in 1 .. Len(op[t].got) : op[t].got[i] = stored[op[t].file][i]

FsInv ==
  /\ DiskTyped /\ WalksTyped /\ Published
  /\ \A t \in Threads : Writing(t) /\ Listing(t) /\ Reading(t)

-----------------------------------------------------------------------------
LEMMA FsInvEnough == FsInv => FileAccessIsSound /\ FsTypeOK
<1> SUFFICES ASSUME FsInv PROVE FileAccessIsSound /\ FsTypeOK
  OBVIOUS
<1> USE FsAssumption DEF FsInv, DiskTyped
<1>1. \A t \in Threads : op[t] \in Operation /\ Walks(op[t])
  BY DEF WalksTyped
<1>2. StaysInWorkspace
  <2> SUFFICES ASSUME NEW t \in Threads
               PROVE  op[t].at \in Folders /\ (op[t].pc \in {"size", "blocks"} => op[t].file # Beyond)
    BY DEF StaysInWorkspace
  <2> QED
    BY <1>1, Reading(t) DEF Operation, Reading, Gets
<1>3. ListsWhole
  BY DEF Listing, ListsWhole, AtStep
<1>4. ReadsWhole
  <2> SUFFICES ASSUME NEW t \in Threads, op[t].what = "read", op[t].pc = "done", op[t].status = "Ok"
               PROVE  /\ Len(op[t].got) = op[t].size
                      /\ op[t].file \notin rewritten => op[t].got = stored[op[t].file]
    BY DEF ReadsWhole, AtStep
  <2>1. Reading(t) /\ Gets(op[t])
    BY DEF Gets
  <2>2. op[t].got \in Seq({Fresh, Old}) /\ stored[op[t].file] \in Seq({Fresh, Old})
    BY <1>1 DEF Operation
  <2>3. Len(op[t].got) = op[t].size
    BY <2>1 DEF Reading
  <2>4. ASSUME op[t].file \notin rewritten PROVE op[t].got = stored[op[t].file]
    <3>1. Len(stored[op[t].file]) = Len(op[t].got)
          /\ \A i \in 1 .. Len(op[t].got) : op[t].got[i] = stored[op[t].file][i]
      BY <2>1, <2>3, <2>4 DEF Reading
    <3> QED
      BY <3>1, <2>2, SeqEqual
  <2> QED
    BY <2>3, <2>4
<1>5. WritesWhole
  <2>1. \A t \in Threads : AtStep(t, "done") => temps[t] = "none"
    BY DEF Writing, AtStep
  <2> QED
    BY <2>1 DEF WritesWhole, Published, Ended, Complete
<1>6. FsTypeOK
  <2>1. \A t \in Threads : op[t].names \subseteq Entries /\ op[t].depth \in 0 .. Len(op[t].parts)
    <3> TAKE t \in Threads
    <3>1. op[t].parts \in Seq(Entries \union {".."}) /\ op[t].depth \in Nat /\ op[t].names \subseteq Entries
      BY <1>1 DEF Operation
    <3>2. Len(op[t].parts) \in Nat
      BY <3>1, LenProperties
    <3>3. op[t].depth <= Len(op[t].parts)
      BY <1>1 DEF Walks
    <3> QED
      BY <3>1, <3>2, <3>3
  <2>2. \A d \in Folders \union {Elsewhere} : DOMAIN tree[d] = Entries
    OBVIOUS
  <2> QED
    BY <2>1, <2>2 DEF FsTypeOK
<1> QED
  BY <1>2, <1>3, <1>4, <1>5, <1>6 DEF FileAccessIsSound

LEMMA FsInvInit == FsInit => FsInv
<1> SUFFICES ASSUME FsInit PROVE FsInv
  OBVIOUS
<1> USE FsAssumption DEF FsInit
<1>1. DiskTyped
  <2>1. stored \in [Stored -> Seq({Fresh, Old})]
    <3>1. <<>> \in Seq({Fresh, Old}) /\ <<Old, Old>> \in Seq({Fresh, Old})
      OBVIOUS
    <3> QED
      BY <3>1 DEF Stored
  <2>2. \A d \in Folders : tree[d] \in [Entries -> Within \union Leaf]
    OBVIOUS
  <2>3. temps \in [Threads -> Folders \union {"none"}] /\ offset \in [Threads \union {Home} -> SUBSET Entries]
    OBVIOUS
  <2>4. /\ DOMAIN tree = Folders \union {Elsewhere} /\ DOMAIN tree[Elsewhere] = Entries
        /\ synced = {} /\ changed = {} /\ rewritten = {} /\ meddled \in 0 .. MaxMoves
    OBVIOUS
  <2> QED
    BY <2>1, <2>2, <2>3, <2>4 DEF DiskTyped
<1>2. \A t \in Threads :
        /\ op[t] \in Operation /\ Walks(op[t])
        /\ op[t].pc = "start" /\ op[t].got = <<>>
  <2> SUFFICES ASSUME NEW t \in Threads
               PROVE  /\ op[t] \in Operation /\ Walks(op[t])
                      /\ op[t].pc = "start" /\ op[t].got = <<>>
    OBVIOUS
  <2>1. PICK a \in Asked[t] : op[t] = StartOf(a)
    OBVIOUS
  <2>2. Parse(a) \in {"Ok", "OutsideRoot"}
    BY DEF Parse
  <2>3. /\ a.what \in {"list", "read", "contain", "remove", "write"}
        /\ a.create \in BOOLEAN /\ a.claim \in {"any", "old", "absent"}
        /\ Components(a) \in Seq(Entries \union {".."})
        /\ Parse(a) = "Ok" => Components(a) \in Seq(Entries)
    BY AskedAssumption
  <2>4. op[t] \in Operation
    BY <2>1, <2>2, <2>3 DEF StartOf, Operation, Places, Stored, Statuses
  <2>5. Walks(op[t])
    <3>1. Len(Components(a)) \in Nat
      BY <2>3
    <3> QED
      BY <2>1, <2>3, <3>1 DEF StartOf, Walks
  <2> QED
    BY <2>1, <2>4, <2>5 DEF StartOf
<1>3. WalksTyped
  BY <1>2 DEF WalksTyped
<1>4. Published
  BY DEF Published, File, Within, Nothing
<1>5. \A t \in Threads : Writing(t) /\ Listing(t) /\ Reading(t)
  BY <1>2 DEF Writing, Listing, Reading, Gets
<1> QED
  BY <1>1, <1>3, <1>4, <1>5 DEF FsInv

-----------------------------------------------------------------------------
(* One thread's operation goes on.                                         *)
Becomes(t, o) ==
  /\ op' \in [Threads -> Operation] /\ op'[t] = o
  /\ \A u \in Threads \ {t} : op'[u] = op[u]

LEMMA OneBecomes ==
  ASSUME FsInv, NEW t \in Threads, NEW o \in Operation, op' = [op EXCEPT ![t] = o]
  PROVE  Becomes(t, o)
BY DEF FsInv, WalksTyped, Becomes

LEMMA GoesTo ==
  ASSUME FsInv, NEW t \in Threads, NEW pc \in Places, Goes(t, pc)
  PROVE  Becomes(t, [op[t] EXCEPT !.pc = pc])
<1>0. op[t] \in Operation
  BY DEF FsInv, WalksTyped
<1>1. [op[t] EXCEPT !.pc = pc] \in Operation
  BY <1>0 DEF Operation
<1>2. op' = [op EXCEPT ![t] = [op[t] EXCEPT !.pc = pc]]
  BY DEF FsInv, WalksTyped, Goes
<1> QED
  BY <1>1, <1>2, OneBecomes

LEMMA ConcludesWith ==
  ASSUME FsInv, NEW t \in Threads, NEW status \in Statuses, Concludes(t, status)
  PROVE  Becomes(t, [op[t] EXCEPT !.pc = "done", !.status = status])
<1>0. op[t] \in Operation
  BY DEF FsInv, WalksTyped
<1>1. [op[t] EXCEPT !.pc = "done", !.status = status] \in Operation
  <2>1. "done" \in Places
    BY DEF Places
  <2> QED
    BY <1>0, <2>1 DEF Operation
<1>2. op' = [op EXCEPT ![t] = [op[t] EXCEPT !.pc = "done", !.status = status]]
  BY DEF FsInv, WalksTyped, Concludes
<1> QED
  BY <1>1, <1>2, OneBecomes

(* What a thread stands before.                                            *)
LEMMA Before ==
  ASSUME FsInv, NEW t \in Threads
  PROVE  /\ op[t] \in Operation /\ Walks(op[t]) /\ Len(op[t].parts) \in Nat
         /\ op[t].pc \in {"look", "enter", "enter made", "make", "leaf", "temporary", "fill", "flush",
                          "check", "commit", "open"} =>
              /\ Component(op[t]) \in Entries
              /\ FoundBy(op[t]) \in Within \union Leaf
              /\ FoundBy(op[t]).kind = "dir" => FoundBy(op[t]).what \in Folders
              /\ FoundBy(op[t]).kind = "file" =>
                   \/ FoundBy(op[t]).what \in Files
                   \/ FoundBy(op[t]).what \in Threads /\ Ended(FoundBy(op[t]).what)
<1>1. op[t] \in Operation /\ Walks(op[t])
  BY DEF FsInv, WalksTyped
<1>2. op[t].parts \in Seq(Entries \union {".."}) /\ op[t].depth \in Nat /\ op[t].at \in Folders
  BY <1>1 DEF Operation
<1>3. Len(op[t].parts) \in Nat
  BY <1>2, LenProperties
<1>4. ASSUME op[t].pc \in {"look", "enter", "enter made", "make", "leaf", "temporary", "fill", "flush",
                           "check", "commit", "open"}
      PROVE  /\ Component(op[t]) \in Entries
             /\ FoundBy(op[t]) \in Within \union Leaf
             /\ FoundBy(op[t]).kind = "dir" => FoundBy(op[t]).what \in Folders
             /\ FoundBy(op[t]).kind = "file" =>
                  \/ FoundBy(op[t]).what \in Files
                  \/ FoundBy(op[t]).what \in Threads /\ Ended(FoundBy(op[t]).what)
  <2>0. Depth(op[t]) \in Int /\ Depth(op[t]) <= Len(op[t].parts) /\ op[t].parts \in Seq(Entries)
    <3>1. op[t].pc \notin {"start", "done", "lost"}
      BY <1>4
    <3>2. op[t].parts \in Seq(Entries)
      BY <1>1, <3>1 DEF Walks
    <3>3. Depth(op[t]) \in Int /\ Depth(op[t]) <= Len(op[t].parts)
      BY <1>3 DEF Depth
    <3> QED
      BY <3>2, <3>3
  <2>1. op[t].depth + 1 <= Len(op[t].parts) /\ op[t].parts \in Seq(Entries)
    <3>1. CASE op[t].pc \in {"look", "enter", "enter made", "make"}
      <4>1. op[t].depth < Depth(op[t])
        BY <1>1, <3>1 DEF Walks
      <4> QED
        BY <4>1, <2>0, <1>2, <1>3
    <3>2. CASE op[t].pc \notin {"look", "enter", "enter made", "make"}
      <4>1. op[t].what # "list" /\ op[t].depth = Depth(op[t])
        BY <1>1, <1>4, <3>2 DEF Walks
      <4>2. Depth(op[t]) = Len(op[t].parts) - 1
        BY <4>1 DEF Depth
      <4> QED
        BY <4>1, <4>2, <2>0, <1>2, <1>3
    <3> QED
      BY <3>1, <3>2
  <2>2. Component(op[t]) \in Entries
    BY <2>1, <1>2, <1>3, ElementOfSeq DEF Component
  <2>3. FoundBy(op[t]) \in Within \union Leaf
    BY <2>2, <1>2 DEF FsInv, DiskTyped, FoundBy
  <2>4. FoundBy(op[t]).kind = "dir" => FoundBy(op[t]).what \in Folders
    BY <2>3 DEF Within, Leaf, Nothing
  <2>5. FoundBy(op[t]).kind = "file" => FoundBy(op[t]).what \in Files \/ FoundBy(op[t]) \in Leaf
    BY <2>3 DEF Within, Leaf, Nothing
  <2>6. FoundBy(op[t]) \in Leaf => FoundBy(op[t]).what \in Threads /\ FoundBy(op[t]) = File(FoundBy(op[t]).what)
    BY DEF Leaf, File
  <2>7. \A u \in Threads : FoundBy(op[t]) = File(u) => Ended(u)
    BY <2>2, <1>2 DEF FsInv, Published, FoundBy
  <2> QED
    BY <2>2, <2>3, <2>4, <2>5, <2>6, <2>7
<1> QED
  BY <1>1, <1>3, <1>4

LEMMA EndedWalks ==
  ASSUME FsInv, NEW t \in Threads, NEW status \in Statuses, Concludes(t, status)
  PROVE  WalksTyped'
<1>1. Becomes(t, [op[t] EXCEPT !.pc = "done", !.status = status]) /\ op[t] \in Operation /\ Walks(op[t])
  BY ConcludesWith, Before
<1>2. Walks([op[t] EXCEPT !.pc = "done", !.status = status])
  BY <1>1 DEF Operation, Walks
<1> QED
  BY <1>1, <1>2 DEF Becomes, WalksTyped, FsInv

LEMMA GoneWalks ==
  ASSUME FsInv, NEW t \in Threads, NEW pc \in Places, Goes(t, pc), Walks([op[t] EXCEPT !.pc = pc])
  PROVE  WalksTyped'
BY GoesTo DEF Becomes, WalksTyped, FsInv

LEMMA ArrivesWell ==
  ASSUME NEW o \in Operation, o.parts \in Seq(Entries), o.depth <= Depth(o), o.pc = Arrived(o)
  PROVE  Walks(o) /\ Arrived(o) \in {"look", "reopen", "open", "leaf"}
<1>1. o.depth \in Nat /\ Len(o.parts) \in Nat
  BY DEF Operation
<1>2. o.depth <= Len(o.parts)
  BY <1>1 DEF Depth
<1>3. CASE o.depth < Depth(o)
  BY <1>2, <1>3 DEF Walks, Arrived
<1>4. CASE ~(o.depth < Depth(o))
  <2>1. o.depth = Depth(o)
    BY <1>1, <1>4 DEF Depth
  <2> QED
    BY <1>2, <1>4, <2>1 DEF Walks, Arrived
<1> QED
  BY <1>3, <1>4

LEMMA StartsWalks ==
  ASSUME FsInv, NEW t \in Threads, Starts(t)
  PROVE  WalksTyped'
<1> DEFINE o == op[t]
<1>1. o \in Operation /\ Walks(o) /\ o.pc = "start" /\ o.at = Home /\ o.depth = 0 /\ Len(o.parts) \in Nat
  BY Before DEF Starts, AtStep, Walks
<1>2. CASE o.status # "Ok"
  <2>1. Goes(t, "done") /\ "done" \in Places
    BY <1>2 DEF Starts, Places
  <2>2. Walks([o EXCEPT !.pc = "done"])
    BY <1>1 DEF Walks, Operation
  <2> QED
    BY <2>1, <2>2, GoneWalks
<1>3. CASE \E status \in Statuses : Concludes(t, status)
  BY <1>3, EndedWalks
<1>4. CASE o.status = "Ok" /\ ~(\E status \in Statuses : Concludes(t, status))
  <2>1. /\ Goes(t, Arrived(o)) /\ o.parts \in Seq(Entries)
        /\ o.what = "list" \/ o.parts # <<>>
    BY <1>1, <1>4 DEF Starts, Statuses, Walks
  <2>2. 0 <= Depth(o)
    BY <1>1, <2>1 DEF Depth
  <2> DEFINE n == [o EXCEPT !.pc = Arrived(o)]
  <2>3. Arrived(o) \in Places
    BY DEF Arrived, Places
  <2>4. /\ n \in Operation /\ n.parts = o.parts /\ n.depth = 0 /\ n.what = o.what /\ n.pc = Arrived(o)
    BY <1>1, <2>3 DEF Operation
  <2>5. Arrived(n) = Arrived(o) /\ Depth(n) = Depth(o)
    BY <2>4, <1>1 DEF Arrived, Depth
  <2>6. Walks(n)
    BY <2>1, <2>2, <2>4, <2>5, ArrivesWell
  <2> QED
    BY <2>1, <2>3, <2>6, GoneWalks
<1> QED
  BY <1>2, <1>3, <1>4

LEMMA LooksWalks ==
  ASSUME FsInv, NEW t \in Threads, Looks(t) \/ LooksAtLeaf(t) \/ ChecksClaim(t)
  PROVE  WalksTyped'
<1>1. op[t] \in Operation /\ Walks(op[t])
  BY Before
<1>2. CASE \E status \in Statuses : Concludes(t, status)
  BY <1>2, EndedWalks
<1>3. CASE Looks(t) /\ ~\E status \in Statuses : Concludes(t, status)
  <2>1. op[t].pc = "look" /\ Goes(t, "enter") /\ "enter" \in Places
    BY <1>3 DEF Looks, ParentLook, ContainLook, DirectoryLook, Statuses, AtStep, Places
  <2>2. Walks([op[t] EXCEPT !.pc = "enter"])
    BY <1>1, <2>1 DEF Walks, Depth, Operation
  <2> QED
    BY <2>1, <2>2, GoneWalks
<1>4. CASE LooksAtLeaf(t) /\ ~\E status \in Statuses : Concludes(t, status)
  <2>1. PICK pc \in {"temporary", "commit", "check"} : Goes(t, pc) /\ (pc = "temporary" => op[t].what = "write")
    BY <1>4 DEF LooksAtLeaf, Statuses
  <2>2. op[t].pc = "leaf" /\ pc \in Places
    BY <1>4 DEF LooksAtLeaf, AtStep, Places
  <2>3. Walks([op[t] EXCEPT !.pc = pc])
    BY <1>1, <2>1, <2>2 DEF Walks, Depth, Operation
  <2> QED
    BY <2>1, <2>2, <2>3, GoneWalks
<1>5. CASE ChecksClaim(t) /\ ~\E status \in Statuses : Concludes(t, status)
  <2>1. op[t].pc = "check" /\ Goes(t, "commit") /\ "commit" \in Places
    BY <1>5 DEF ChecksClaim, Claimed, Statuses, AtStep, Places
  <2>2. Walks([op[t] EXCEPT !.pc = "commit"])
    BY <1>1, <2>1 DEF Walks, Depth, Operation
  <2> QED
    BY <2>1, <2>2, GoneWalks
<1> QED
  BY <1>2, <1>3, <1>4, <1>5

LEMMA OneDown ==
  ASSUME NEW o \in Operation, NEW d \in Folders
  PROVE  LET inside == [o EXCEPT !.at = d, !.depth = @ + 1]
         IN  /\ inside \in Operation /\ inside.parts = o.parts /\ inside.what = o.what
             /\ inside.depth = o.depth + 1
<1> DEFINE inside == [o EXCEPT !.at = d, !.depth = @ + 1]
<1>1. o.depth \in Nat /\ o.depth + 1 \in Nat
  BY DEF Operation
<1>2. inside \in Operation
  BY <1>1 DEF Operation
<1>3. inside.parts = o.parts /\ inside.what = o.what /\ inside.depth = o.depth + 1
  BY DEF Operation
<1> QED
  BY <1>2, <1>3

LEMMA SameWay ==
  ASSUME NEW o, NEW n, n.what = o.what, n.parts = o.parts
  PROVE  /\ Depth(n) = Depth(o) /\ (n.depth = o.depth => Arrived(n) = Arrived(o))
         /\ Len(o.parts) \in Nat => Depth(o) \in Int
BY DEF Depth, Arrived

LEMMA EntersWalks ==
  ASSUME FsInv, NEW t \in Threads, EntersComponent(t)
  PROVE  WalksTyped'
<1> DEFINE o == op[t]
           inside == [o EXCEPT !.at = FoundBy(o).what, !.depth = @ + 1]
           n == [inside EXCEPT !.pc = Arrived(inside)]
<1>1. o \in Operation /\ Walks(o) /\ o.pc \in {"enter", "enter made"} /\ Len(o.parts) \in Nat
  BY Before DEF EntersComponent
<1>2. CASE \E status \in Statuses : Concludes(t, status)
  BY <1>2, EndedWalks
<1>3. CASE o.pc = "enter" /\ Goes(t, "make")
  <2>1. "make" \in Places
    BY DEF Places
  <2>2. Walks([op[t] EXCEPT !.pc = "make"])
    BY <1>1, <1>3 DEF Walks, Depth, Operation
  <2> QED
    BY <1>3, <2>1, <2>2, GoneWalks
<1>4. CASE op' = [op EXCEPT ![t] = n] /\ FoundBy(o).kind = "dir"
  <2>1. FoundBy(o).what \in Folders
    BY <1>1, <1>4, Before
  <2>2. o.depth < Depth(o) /\ o.parts \in Seq(Entries) /\ o.depth \in Nat
    BY <1>1 DEF Walks, Operation
  <2>3. /\ inside \in Operation /\ inside.parts = o.parts /\ inside.what = o.what
        /\ inside.depth = o.depth + 1
    BY <1>1, <2>1, OneDown
  <2>4. Arrived(inside) \in Places
    BY DEF Arrived, Places
  <2>5. /\ n \in Operation /\ n.parts = o.parts /\ n.what = o.what /\ n.depth = o.depth + 1
        /\ n.pc = Arrived(inside)
    BY <2>3, <2>4 DEF Operation
  <2>6. Depth(n) = Depth(o) /\ Arrived(n) = Arrived(inside)
    <3>1. n.what = inside.what /\ n.depth = inside.depth /\ n.parts = inside.parts
      BY <2>3, <2>5
    <3>2. inside.what = o.what /\ inside.parts = o.parts
      BY <2>3
    <3>3. Depth(n) = Depth(o)
      BY <3>1, <3>2, SameWay
    <3>4. Arrived(n) = Arrived(inside)
      BY <3>1, SameWay
    <3> QED
      BY <3>3, <3>4
  <2>7. n.depth <= Depth(n)
    <3>1. Depth(o) \in Int
      <4> HIDE DEF o
      <4>1. Len(o.parts) \in Nat
        BY <1>1
      <4> QED
        BY <4>1, SameWay
    <3>2. o.depth + 1 <= Depth(o)
      BY <2>2, <3>1
    <3> QED
      BY <2>5, <2>6, <3>2
  <2>8. Walks(n)
    BY <2>2, <2>5, <2>6, <2>7, ArrivesWell
  <2> QED
    BY <1>4, <2>5, <2>8, OneBecomes DEF Becomes, WalksTyped, FsInv
<1> QED
  BY <1>1, <1>2, <1>3, <1>4 DEF EntersComponent, OpensDirectory, Statuses

LEMMA WritesWalks ==
  ASSUME FsInv, NEW t \in Threads,
         \/ MakesComponent(t) \/ MakesTemporary(t) \/ FillsTemporary(t) \/ FlushesTemporary(t)
         \/ CommitsEntry(t) \/ Settles(t) \/ CallFails(t) \/ EndsScan(t)
  PROVE  WalksTyped'
<1>1. op[t] \in Operation /\ Walks(op[t])
  BY Before
<1>2. CASE \E status \in Statuses : Concludes(t, status)
  BY <1>2, EndedWalks
<1>3. CASE ~\E status \in Statuses : Concludes(t, status)
  <2>1. PICK pc \in Places :
          /\ Goes(t, pc)
          /\ \/ op[t].pc = "make" /\ pc = "enter made"
             \/ op[t].pc = "temporary" /\ pc = "fill"
             \/ op[t].pc = "fill" /\ pc \in {"fill", "flush"}
             \/ op[t].pc = "flush" /\ pc = "check"
             \/ op[t].pc = "commit" /\ pc = "settle"
    BY <1>3 DEF MakesComponent, MakesTemporary, FillsTemporary, FlushesTemporary, CommitsEntry, Settles, CallFails,
         EndsScan, Statuses, AtStep, Places
  <2>2. Walks([op[t] EXCEPT !.pc = pc])
    BY <1>1, <2>1 DEF Walks, Depth, Operation
  <2> QED
    BY <2>1, <2>2, GoneWalks
<1> QED
  BY <1>2, <1>3

LEMMA MovedWalks ==
  ASSUME FsInv, NEW t \in Threads, NEW n \in Operation, op' = [op EXCEPT ![t] = n], Walks(n)
  PROVE  WalksTyped' /\ Becomes(t, n)
BY OneBecomes DEF Becomes, WalksTyped, FsInv

LEMMA ListsWalks ==
  ASSUME FsInv, NEW t \in Threads, Reopens(t) \/ \E e \in Entries : ReadsEntry(t, e)
  PROVE  WalksTyped'
<1> DEFINE o == op[t]
<1>1. o \in Operation /\ Walks(o)
  BY Before
<1>2. CASE Reopens(t)
  <2> DEFINE n == [o EXCEPT !.pc = "scan", !.scans = t]
  <2>1. op' = [op EXCEPT ![t] = n] /\ o.pc = "reopen"
    BY <1>2 DEF Reopens, AtStep, FsInv, WalksTyped
  <2>2. "scan" \in Places
    BY DEF Places
  <2>3. n \in Operation
    BY <1>1, <2>2 DEF Operation
  <2>4. Walks(n)
    BY <1>1, <2>1 DEF Operation, Walks, Depth
  <2> QED
    BY <2>1, <2>3, <2>4, MovedWalks
<1>3. ASSUME NEW e \in Entries, ReadsEntry(t, e) PROVE WalksTyped'
  <2> DEFINE n == [o EXCEPT !.names = @ \union {e}]
  <2>1. op' = [op EXCEPT ![t] = n] /\ o.pc = "scan"
    BY <1>3 DEF ReadsEntry, AtStep, FsInv, WalksTyped
  <2>2. n \in Operation
    BY <1>1 DEF Operation
  <2>3. Walks(n)
    BY <1>1, <2>1 DEF Operation, Walks, Depth
  <2> QED
    BY <2>1, <2>2, <2>3, MovedWalks
<1> QED
  BY <1>2, <1>3

LEMMA ReadsWalks ==
  ASSUME FsInv, NEW t \in Threads, OpensLeaf(t) \/ Sizes(t) \/ ReadsBlock(t)
  PROVE  WalksTyped'
<1> DEFINE o == op[t]
<1>1. o \in Operation /\ Walks(o)
  BY Before
<1>2. CASE \E status \in Statuses : Concludes(t, status)
  BY <1>2, EndedWalks
<1>3. CASE OpensLeaf(t) /\ ~\E status \in Statuses : Concludes(t, status)
  <2> DEFINE n == [o EXCEPT !.pc = "size", !.file = FoundBy(o).what]
  <2>1. op' = [op EXCEPT ![t] = n] /\ o.pc = "open" /\ FoundBy(o).kind \notin {"link", "absent", "dir"}
    BY <1>3 DEF OpensLeaf, AtStep, FsInv, WalksTyped, Statuses
  <2>2. FoundBy(o).what \in Stored
    <3>1. FoundBy(o) \in Within \union Leaf
      BY <2>1, Before
    <3> HIDE DEF o
    <3>2. FoundBy(o).kind = "file" /\ FoundBy(o).what \in Files \union Threads
      BY <3>1, <2>1 DEF Within, Leaf, Nothing
    <3> QED
      BY <3>2 DEF Stored
  <2>3. "size" \in Places
    BY DEF Places
  <2>4. n \in Operation
    BY <1>1, <2>2, <2>3 DEF Operation
  <2>5. Walks(n)
    BY <1>1, <2>1 DEF Operation, Walks, Depth
  <2> QED
    BY <2>1, <2>4, <2>5, MovedWalks
<1>4. CASE Sizes(t) /\ ~\E status \in Statuses : Concludes(t, status)
  <2> DEFINE n == [o EXCEPT !.pc = "blocks", !.size = Len(stored[o.file])]
  <2>1. op' = [op EXCEPT ![t] = n] /\ o.pc = "size"
    BY <1>4 DEF Sizes, AtStep, FsInv, WalksTyped, Statuses
  <2>2. Len(stored[o.file]) \in Nat
    BY <1>1, LenProperties DEF FsInv, DiskTyped, Operation
  <2>3. "blocks" \in Places
    BY DEF Places
  <2>4. n \in Operation
    BY <1>1, <2>2, <2>3 DEF Operation
  <2>5. Walks(n)
    BY <1>1, <2>1 DEF Operation, Walks, Depth
  <2> QED
    BY <2>1, <2>4, <2>5, MovedWalks
<1>5. CASE ReadsBlock(t) /\ ~\E status \in Statuses : Concludes(t, status)
  <2> DEFINE next == Len(o.got) + 1
             n == [o EXCEPT !.got = Append(@, stored[o.file][next])]
  <2>1. op' = [op EXCEPT ![t] = n] /\ o.pc = "blocks" /\ ~(next > Len(stored[o.file]))
    BY <1>5 DEF ReadsBlock, AtStep, FsInv, WalksTyped, Statuses
  <2>2. o.got \in Seq({Fresh, Old}) /\ stored[o.file] \in Seq({Fresh, Old})
    BY <1>1 DEF FsInv, DiskTyped, Operation
  <2>3. Len(o.got) \in Nat /\ Len(stored[o.file]) \in Nat
    BY <2>2, LenProperties
  <2>4. stored[o.file][next] \in {Fresh, Old}
    BY <2>1, <2>2, <2>3, ElementOfSeq
  <2>5. Append(o.got, stored[o.file][next]) \in Seq({Fresh, Old})
    BY <2>2, <2>4, AppendProperties
  <2>6. n \in Operation
    BY <1>1, <2>5 DEF Operation
  <2>7. Walks(n)
    BY <1>1, <2>1 DEF Operation, Walks, Depth
  <2> QED
    BY <2>1, <2>6, <2>7, MovedWalks
<1> QED
  BY <1>2, <1>3, <1>4, <1>5

LEMMA WalksKept ==
  ASSUME FsInv, FsNext
  PROVE  WalksTyped'
<1>1. ASSUME NEW t \in Threads, FsStep(t) PROVE WalksTyped'
  BY <1>1, StartsWalks, LooksWalks, EntersWalks, WritesWalks, ListsWalks, ReadsWalks DEF FsStep
<1>2. CASE op' = op
  BY <1>2 DEF FsInv, WalksTyped
<1>3. CASE PowerFails
  <2>1. ASSUME NEW t \in Threads
        PROVE  [op[t] EXCEPT !.pc = "lost"] \in Operation /\ Walks([op[t] EXCEPT !.pc = "lost"])
    <3>1. op[t] \in Operation /\ Walks(op[t]) /\ "lost" \in Places
      BY Before DEF Places
    <3>2. [op[t] EXCEPT !.pc = "lost"] \in Operation
      BY <3>1 DEF Operation
    <3>3. op[t].depth <= Len(op[t].parts)
      BY <3>1 DEF Walks
    <3>4. Walks([op[t] EXCEPT !.pc = "lost"])
      BY <3>1, <3>3 DEF Operation, Walks
    <3> QED
      BY <3>2, <3>4
  <2>2. op' = [t \in Threads |-> [op[t] EXCEPT !.pc = "lost"]]
    BY <1>3 DEF PowerFails
  <2> QED
    BY <2>1, <2>2 DEF WalksTyped
<1> QED
  BY <1>1, <1>2, <1>3 DEF FsNext, EntryMoved, FileRewritten

-----------------------------------------------------------------------------
(* Which steps leave the disk, and the scans, alone.                       *)
LEMMA QuietSteps ==
  ASSUME NEW t, FsStep(t)
  PROVE  \/ DiskStays /\ UNCHANGED offset
         \/ MakesComponent(t) \/ ChecksClaim(t) \/ MakesTemporary(t) \/ FillsTemporary(t) \/ FlushesTemporary(t)
         \/ CommitsEntry(t) \/ CallFails(t)
         \/ DiskStays /\ (Reopens(t) \/ \E n \in Entries : ReadsEntry(t, n))
<1>1. Starts(t) => DiskStays /\ UNCHANGED offset
  BY DEF Starts
<1>2. Looks(t) => DiskStays /\ UNCHANGED offset
  BY DEF Looks
<1>3. EntersComponent(t) => DiskStays /\ UNCHANGED offset
  BY DEF EntersComponent
<1>4. LooksAtLeaf(t) => DiskStays /\ UNCHANGED offset
  BY DEF LooksAtLeaf
<1>5. Settles(t) \/ EndsScan(t) => DiskStays /\ UNCHANGED offset
  BY DEF Settles, EndsScan
<1>6. OpensLeaf(t) => DiskStays /\ UNCHANGED offset
  BY DEF OpensLeaf
<1>7. Sizes(t) => DiskStays /\ UNCHANGED offset
  BY DEF Sizes
<1>8. ReadsBlock(t) => DiskStays /\ UNCHANGED offset
  BY DEF ReadsBlock
<1>9. Reopens(t) \/ (\E n \in Entries : ReadsEntry(t, n)) => DiskStays
  BY DEF Reopens, ReadsEntry
<1> QED
  BY <1>1, <1>2, <1>3, <1>4, <1>5, <1>6, <1>7, <1>8, <1>9 DEF FsStep

(* An entry that is not marked as changed is what it was; and one that     *)
(* names a thread's file did so before, or the thread put it there.        *)
EntriesKept ==
  /\ DOMAIN tree' = Folders \union {Elsewhere} /\ DOMAIN tree'[Elsewhere] = Entries
  /\ \A d \in Folders : tree'[d] \in [Entries -> Within \union Leaf]
  /\ changed \subseteq changed' /\ changed' \subseteq Folders \X Entries
  /\ \A d \in Folders : \A n \in Entries : <<d, n>> \notin changed' => tree'[d][n] = tree[d][n]
  /\ \A d \in Folders : \A n \in Entries : \A u \in Threads :
       tree'[d][n] = File(u) =>
         tree[d][n] = File(u) \/ (CommitsEntry(u) /\ op[u].what = "write" /\ op'[u].pc = "settle")

LEMMA EntryPut ==
  ASSUME FsInv, NEW d \in Folders, NEW n \in Entries, NEW x \in Within \union Leaf,
         tree' = tree \/ tree' = [tree EXCEPT ![d][n] = x], changed' = changed \union {<<d, n>>},
         \A u \in Threads :
           x = File(u) => CommitsEntry(u) /\ op[u].what = "write" /\ op'[u].pc = "settle"
  PROVE  EntriesKept
<1>1. /\ DOMAIN tree = Folders \union {Elsewhere} /\ DOMAIN tree[Elsewhere] = Entries
      /\ \A e \in Folders : tree[e] \in [Entries -> Within \union Leaf]
      /\ changed \subseteq Folders \X Entries /\ Elsewhere \notin Folders
  BY FsAssumption DEF FsInv, DiskTyped
<1>2. CASE tree' = tree
  BY <1>1, <1>2 DEF EntriesKept
<1>3. CASE tree' = [tree EXCEPT ![d][n] = x]
  <2>1. /\ DOMAIN tree' = DOMAIN tree /\ \A e \in DOMAIN tree \ {d} : tree'[e] = tree[e]
        /\ tree'[d] = [tree[d] EXCEPT ![n] = x]
    BY <1>1, <1>3
  <2>2. tree'[d] \in [Entries -> Within \union Leaf] /\ tree'[d][n] = x
        /\ \A k \in Entries \ {n} : tree'[d][k] = tree[d][k]
    BY <1>1, <2>1
  <2>3. \A e \in Folders : \A k \in Entries : <<e, k>> = <<d, n>> \/ tree'[e][k] = tree[e][k]
    BY <1>1, <2>1, <2>2
  <2>4. \A e \in Folders : tree'[e] \in [Entries -> Within \union Leaf]
    BY <1>1, <2>1, <2>2
  <2>5. DOMAIN tree' = Folders \union {Elsewhere} /\ DOMAIN tree'[Elsewhere] = Entries
    BY <1>1, <2>1
  <2>6. changed \subseteq changed' /\ changed' \subseteq Folders \X Entries /\ <<d, n>> \in changed'
    BY <1>1
  <2>7. \A e \in Folders : \A k \in Entries : <<e, k>> \notin changed' => tree'[e][k] = tree[e][k]
    BY <2>3, <2>6
  <2>8. ASSUME NEW e \in Folders, NEW k \in Entries, NEW u \in Threads, tree'[e][k] = File(u)
        PROVE  tree[e][k] = File(u) \/ (CommitsEntry(u) /\ op[u].what = "write" /\ op'[u].pc = "settle")
    <3>1. CASE <<e, k>> = <<d, n>>
      <4>1. x = File(u)
        BY <2>2, <2>8, <3>1
      <4> QED
        BY <4>1
    <3>2. CASE tree'[e][k] = tree[e][k]
      BY <2>8, <3>2
    <3> QED
      BY <2>3, <3>1, <3>2
  <2> QED
    BY <2>4, <2>5, <2>6, <2>7, <2>8 DEF EntriesKept
<1> QED
  BY <1>2, <1>3

LEMMA EntriesStep ==
  ASSUME FsInv, FsNext
  PROVE  EntriesKept
<1>1. CASE UNCHANGED <<tree, changed>>
  BY <1>1 DEF FsInv, DiskTyped, EntriesKept
<1>2. ASSUME NEW t \in Threads, MakesComponent(t), ~UNCHANGED <<tree, changed>> PROVE EntriesKept
  <2>1. op[t].pc = "make" /\ op[t].at \in Folders
    BY <1>2, Before DEF MakesComponent, AtStep, Operation
  <2>2. Component(op[t]) \in Entries
    BY <2>1, Before
  <2>3. Dir(Made) \in Within \union Leaf /\ \A u \in Threads : Dir(Made) # File(u)
    BY FsAssumption DEF Dir, File, Within
  <2> QED
    BY <1>2, <2>1, <2>2, <2>3, EntryPut DEF MakesComponent
<1>3. ASSUME NEW t \in Threads, CommitsEntry(t), ~UNCHANGED <<tree, changed>> PROVE EntriesKept
  <2>1. op[t].pc = "commit" /\ op[t].at \in Folders
    BY <1>3, Before DEF CommitsEntry, AtStep, Operation
  <2>2. Component(op[t]) \in Entries
    BY <2>1, Before
  <2> DEFINE x == IF op[t].what = "write" THEN File(t) ELSE Nothing
  <2>3. /\ tree' = [tree EXCEPT ![op[t].at][Component(op[t])] = x]
        /\ changed' = changed \union {<<op[t].at, Component(op[t])>>}
        /\ Goes(t, "settle")
    BY <1>3 DEF CommitsEntry
  <2>4. x \in Within \union Leaf
    BY DEF File, Within, Leaf
  <2>5. op'[t].pc = "settle"
    <3>1. "settle" \in Places
      BY DEF Places
    <3>2. Becomes(t, [op[t] EXCEPT !.pc = "settle"]) /\ op[t] \in Operation
      BY <3>1, <2>3, GoesTo, Before
    <3> QED
      BY <3>2 DEF Becomes, Operation
  <2>6. \A u \in Threads : x = File(u) => u = t /\ op[t].what = "write"
    BY DEF File, Nothing
  <2> HIDE DEF x
  <2> QED
    BY <1>3, <2>1, <2>2, <2>3, <2>4, <2>5, <2>6, EntryPut
<1>4. ASSUME NEW m \in Moves, EntryMoved(m) PROVE EntriesKept
  <2>1. m.in \in Folders /\ m.name \in Entries /\ m.to \in Within
    BY FsAssumption
  <2>2. \A u \in Threads : m.to # File(u)
    <3>1. ASSUME NEW u \in Threads, m.to = File(u) PROVE FALSE
      <4>1. m.to.kind = "file" /\ m.to.what = u
        BY <3>1 DEF File
      <4>2. m.to.what \in Files
        BY <2>1, <4>1 DEF Within, Nothing
      <4> QED
        BY <4>1, <4>2, FsAssumption
    <3> QED
      BY <3>1
  <2> QED
    BY <1>4, <2>1, <2>2, EntryPut DEF EntryMoved
<1> QED
  BY <1>1, <1>2, <1>3, <1>4, QuietSteps DEF FsNext, DiskStays, ChecksClaim, MakesTemporary, FillsTemporary,
     FlushesTemporary, CallFails, FileRewritten, PowerFails

(* A thread's file is what it was but for what the thread adds to it and   *)
(* the power takes of it; another file, but for who rewrites it in place.  *)
BlocksKept ==
  /\ stored' \in [Stored -> Seq({Fresh, Old})]
  /\ rewritten \subseteq rewritten' /\ rewritten' \subseteq Files
  /\ synced \subseteq synced' /\ synced' \subseteq Threads
  /\ \A f \in Files : f \notin rewritten' => stored'[f] = stored[f]
  /\ \A u \in Threads :
       stored'[u] = stored[u] \/ FillsTemporary(u) \/ (PowerFails /\ u \notin synced)

LEMMA BlocksStep ==
  ASSUME FsInv, FsNext
  PROVE  BlocksKept
<1>1. /\ stored \in [Stored -> Seq({Fresh, Old})] /\ rewritten \subseteq Files /\ synced \subseteq Threads
      /\ Threads \intersect Files = {} /\ Files \subseteq Stored /\ Threads \subseteq Stored
  BY FsAssumption DEF FsInv, DiskTyped, Stored
<1>2. CASE UNCHANGED <<stored, rewritten, synced>>
  BY <1>1, <1>2 DEF BlocksKept
<1>3. ASSUME NEW t \in Threads, FillsTemporary(t) PROVE BlocksKept
  <2>1. stored[t] \in Seq({Fresh, Old})
    BY <1>1
  <2>2. Append(stored[t], Fresh) \in Seq({Fresh, Old})
    BY <2>1, AppendProperties
  <2>3. stored' = [stored EXCEPT ![t] = Append(stored[t], Fresh)] /\ UNCHANGED <<rewritten, synced>>
    BY <1>3 DEF FillsTemporary
  <2>4. stored' \in [Stored -> Seq({Fresh, Old})] /\ \A f \in Stored \ {t} : stored'[f] = stored[f]
    BY <1>1, <2>2, <2>3
  <2> QED
    BY <1>1, <1>3, <2>3, <2>4 DEF BlocksKept
<1>4. ASSUME NEW t \in Threads, FlushesTemporary(t) PROVE BlocksKept
  BY <1>1, <1>4 DEF FlushesTemporary, BlocksKept
<1>5. ASSUME NEW f \in Files, FileRewritten(f) PROVE BlocksKept
  <2>1. PICK b \in {<<>>, <<Fresh, Fresh, Fresh>>} : stored' = [stored EXCEPT ![f] = b]
    BY <1>5 DEF FileRewritten
  <2>2. b \in Seq({Fresh, Old})
    <3>1. <<>> \in Seq({Fresh, Old}) /\ <<Fresh, Fresh, Fresh>> \in Seq({Fresh, Old})
      OBVIOUS
    <3> QED
      BY <3>1
  <2>3. stored' \in [Stored -> Seq({Fresh, Old})] /\ \A g \in Stored \ {f} : stored'[g] = stored[g]
    BY <1>1, <2>1, <2>2
  <2>4. rewritten' = rewritten \union {f} /\ synced' = synced
    BY <1>5 DEF FileRewritten
  <2> QED
    BY <1>1, <2>3, <2>4 DEF BlocksKept
<1>6. CASE PowerFails
  <2>1. PICK n \in 0 .. 2 :
          stored' = [f \in DOMAIN stored |->
                       IF f \in Threads \ synced /\ n < Len(stored[f]) THEN SubSeq(stored[f], 1, n)
                       ELSE stored[f]]
    BY <1>6 DEF PowerFails
  <2>2. ASSUME NEW f \in Stored, n < Len(stored[f])
        PROVE  SubSeq(stored[f], 1, n) \in Seq({Fresh, Old})
    <3>1. stored[f] \in Seq({Fresh, Old}) /\ Len(stored[f]) \in Nat
      BY <1>1, LenProperties
    <3>2. \A i \in 1 .. n : stored[f][i] \in {Fresh, Old}
      BY <3>1, <2>2, ElementOfSeq
    <3> QED
      BY <3>1, <3>2, SubSeqProperties
  <2>3. stored' \in [Stored -> Seq({Fresh, Old})]
    BY <1>1, <2>1, <2>2
  <2>4. \A f \in Stored : f \notin Threads \ synced => stored'[f] = stored[f]
    BY <1>1, <2>1
  <2>5. UNCHANGED <<rewritten, synced>>
    BY <1>6 DEF PowerFails
  <2> QED
    BY <1>1, <1>6, <2>3, <2>4, <2>5 DEF BlocksKept
<1> QED
  BY <1>2, <1>3, <1>4, <1>5, <1>6 DEF FsNext, FsStep, DiskStays, Starts, Looks, EntersComponent, MakesComponent,
     LooksAtLeaf, ChecksClaim, MakesTemporary, CommitsEntry, Settles, Reopens, ReadsEntry, EndsScan, OpensLeaf,
     Sizes, ReadsBlock, CallFails, EntryMoved

LEMMA DiskStep ==
  ASSUME FsInv, FsNext
  PROVE  DiskTyped'
<1>1. EntriesKept /\ BlocksKept
  BY EntriesStep, BlocksStep
<1>2. /\ temps \in [Threads -> Folders \union {"none"}] /\ offset \in [Threads \union {Home} -> SUBSET Entries]
      /\ meddled \in 0 .. MaxMoves /\ MaxMoves \in Nat
  BY FsAssumption DEF FsInv, DiskTyped
<1>3. temps' \in [Threads -> Folders \union {"none"}]
  <2>1. CASE UNCHANGED temps
    BY <1>2, <2>1
  <2>2. ASSUME NEW t \in Threads, WithoutTemporary(t) PROVE temps' \in [Threads -> Folders \union {"none"}]
    BY <1>2, <2>2 DEF WithoutTemporary
  <2>3. ASSUME NEW t \in Threads, MakesTemporary(t) PROVE temps' \in [Threads -> Folders \union {"none"}]
    <3>1. op[t].at \in Folders
      BY Before DEF Operation
    <3> QED
      BY <1>2, <2>3, <3>1 DEF MakesTemporary
  <2> QED
    BY <2>1, <2>2, <2>3, QuietSteps DEF FsNext, DiskStays, MakesComponent, FillsTemporary, FlushesTemporary,
       ChecksClaim, CommitsEntry, CallFails, EntryMoved, FileRewritten, PowerFails
<1>4. offset' \in [Threads \union {Home} -> SUBSET Entries]
  <2>1. CASE UNCHANGED offset
    BY <1>2, <2>1
  <2>2. ASSUME NEW t \in Threads, Reopens(t) PROVE offset' \in [Threads \union {Home} -> SUBSET Entries]
    BY <1>2, <2>2 DEF Reopens
  <2>3. ASSUME NEW t \in Threads, NEW n \in Entries, ReadsEntry(t, n)
        PROVE  offset' \in [Threads \union {Home} -> SUBSET Entries]
    <3>1. op[t].scans \in Threads \union {Home}
      BY Before DEF Operation
    <3> QED
      BY <1>2, <2>3, <3>1 DEF ReadsEntry
  <2> QED
    BY <2>1, <2>2, <2>3, QuietSteps DEF FsNext, MakesComponent, MakesTemporary, FillsTemporary, FlushesTemporary,
       ChecksClaim, CommitsEntry, CallFails, EntryMoved, FileRewritten, PowerFails
<1>5. meddled' \in 0 .. MaxMoves
  <2>1. meddled' = meddled \/ (meddled < MaxMoves /\ meddled' = meddled + 1)
    BY QuietSteps DEF FsNext, DiskStays, MakesComponent, MakesTemporary, FillsTemporary, FlushesTemporary,
       ChecksClaim, CommitsEntry, CallFails, EntryMoved, FileRewritten, PowerFails, Meddles
  <2> QED
    BY <1>2, <2>1
<1> QED
  BY <1>1, <1>3, <1>4, <1>5 DEF EntriesKept, BlocksKept, DiskTyped

LEMMA OthersWait ==
  ASSUME FsInv, NEW t \in Threads, FsStep(t)
  PROVE  \A u \in Threads \ {t} : op'[u] = op[u]
BY DEF FsInv, WalksTyped, FsStep, Goes, Concludes, Starts, Looks, EntersComponent, MakesComponent, MakesTemporary,
   FillsTemporary, FlushesTemporary, LooksAtLeaf, ChecksClaim, CommitsEntry, Settles, Reopens, ReadsEntry,
   EndsScan, OpensLeaf, Sizes, ReadsBlock, CallFails

LEMMA EndedStays ==
  ASSUME FsInv, FsNext, NEW u \in Threads, Ended(u)
  PROVE  Ended(u)' /\ stored'[u] = stored[u]
<1>1. BlocksKept /\ op[u] \in Operation
  BY BlocksStep, Before
<1>2. stored'[u] = stored[u]
  BY <1>1 DEF BlocksKept, Ended, Complete, FillsTemporary, AtStep
<1>3. Complete(u)'
  BY <1>1, <1>2 DEF BlocksKept, Ended, Complete
<1>4. op'[u].pc \in {"settle", "done", "lost"}
  <2>1. CASE op'[u] = op[u]
    BY <2>1 DEF Ended
  <2>2. CASE FsStep(u)
    <3>1. \E status \in Statuses : Concludes(u, status)
      BY <2>2 DEF Statuses, FsStep, Ended, AtStep, Starts, Looks, EntersComponent, MakesComponent, MakesTemporary,
         FillsTemporary, FlushesTemporary, LooksAtLeaf, ChecksClaim, CommitsEntry, Settles, Reopens, ReadsEntry,
         EndsScan, OpensLeaf, Sizes, ReadsBlock, CallFails
    <3>2. PICK status \in Statuses : Concludes(u, status)
      BY <3>1
    <3>3. op'[u] = [op[u] EXCEPT !.pc = "done", !.status = status]
      BY <3>2, ConcludesWith DEF Becomes
    <3> QED
      BY <1>1, <3>3 DEF Operation
  <2>3. CASE PowerFails
    BY <1>1, <2>3 DEF PowerFails, Operation
  <2> QED
    BY <2>1, <2>2, <2>3, OthersWait DEF FsNext, EntryMoved, FileRewritten
<1> QED
  BY <1>2, <1>3, <1>4 DEF Ended

LEMMA PublishedStep ==
  ASSUME FsInv, FsNext
  PROVE  Published'
<1> SUFFICES ASSUME NEW d \in Folders, NEW n \in Entries, NEW u \in Threads, tree'[d][n] = File(u)
             PROVE  Ended(u)'
  BY DEF Published
<1>1. EntriesKept
  BY EntriesStep
<1>2. CASE tree[d][n] = File(u)
  BY <1>2, EndedStays DEF FsInv, Published
<1>3. CASE CommitsEntry(u) /\ op[u].what = "write" /\ op'[u].pc = "settle"
  <2>1. Complete(u)
    BY <1>3 DEF FsInv, Writing, CommitsEntry, AtStep
  <2>2. UNCHANGED <<stored, synced>>
    BY <1>3 DEF CommitsEntry
  <2> QED
    BY <1>3, <2>1, <2>2 DEF Ended, Complete
<1> QED
  BY <1>1, <1>2, <1>3 DEF EntriesKept

-----------------------------------------------------------------------------
(* A thread that does not step keeps what is known of it.                  *)
LEMMA WaitingKept ==
  ASSUME FsInv, FsNext, ~PowerFails, NEW u \in Threads, ~FsStep(u)
  PROVE  Writing(u)' /\ Listing(u)' /\ Reading(u)'
<1>1. /\ op[u] \in Operation /\ Writing(u) /\ Listing(u) /\ Reading(u)
      /\ EntriesKept /\ BlocksKept
  BY Before, EntriesStep, BlocksStep DEF FsInv
<1>2. op'[u] = op[u]
  BY OthersWait DEF FsNext, EntryMoved, FileRewritten
<1>3. stored'[u] = stored[u] /\ (u \in synced => u \in synced')
  BY <1>1 DEF BlocksKept, FsStep
<1>4. temps'[u] = temps[u]
  <2>1. ASSUME NEW t \in Threads, FsStep(t) PROVE temps'[u] = temps[u]
    <3>1. t # u /\ temps \in [Threads -> Folders \union {"none"}]
      BY <2>1 DEF FsInv, DiskTyped
    <3>2. UNCHANGED temps \/ WithoutTemporary(t) \/ temps' = [temps EXCEPT ![t] = op[t].at]
      BY <2>1 DEF FsStep, DiskStays, Starts, Looks, EntersComponent, MakesComponent, FillsTemporary,
         FlushesTemporary, LooksAtLeaf, ChecksClaim, CommitsEntry, Settles, Reopens, ReadsEntry, EndsScan, OpensLeaf,
         Sizes, ReadsBlock, CallFails, MakesTemporary
    <3> QED
      BY <3>1, <3>2 DEF WithoutTemporary
  <2> QED
    BY <2>1 DEF FsNext, EntryMoved, FileRewritten
<1>5. op[u].pc = "scan" => offset'[u] = offset[u]
  <2>1. ASSUME NEW t \in Threads, FsStep(t) PROVE offset'[u] = offset[u]
    <3>1. t # u /\ offset \in [Threads \union {Home} -> SUBSET Entries]
      BY <2>1 DEF FsInv, DiskTyped
    <3>2. CASE UNCHANGED offset
      BY <3>2
    <3>3. CASE Reopens(t)
      BY <3>1, <3>3 DEF Reopens
    <3>4. ASSUME NEW n \in Entries, ReadsEntry(t, n) PROVE offset'[u] = offset[u]
      <4>1. op[t].scans = t
        BY <3>4 DEF ReadsEntry, AtStep, FsInv, Listing
      <4> QED
        BY <3>1, <3>4, <4>1 DEF ReadsEntry
    <3> QED
      BY <2>1, <3>2, <3>3, <3>4 DEF FsStep, Starts, Looks, EntersComponent, MakesComponent, FillsTemporary,
         FlushesTemporary, LooksAtLeaf, ChecksClaim, CommitsEntry, Settles, EndsScan, OpensLeaf,
         Sizes, ReadsBlock, CallFails, MakesTemporary
  <2> QED
    BY <2>1 DEF FsNext, EntryMoved, FileRewritten
<1>6. Writing(u)'
  BY <1>1, <1>2, <1>3, <1>4 DEF Writing, Complete
<1>7. Listing(u)'
  <2>1. op[u].at \in Folders
    BY <1>1 DEF Operation
  <2> QED
    BY <1>1, <1>2, <1>5, <2>1 DEF Listing, EntriesKept
<1>8. Reading(u)'
  <2>1. \A f \in Threads : Ended(f) => Ended(f)' /\ stored'[f] = stored[f]
    BY EndedStays
  <2>2. ASSUME op[u].pc = "size" \/ Gets(op[u])
        PROVE  /\ op[u].file \in Files \/ (op[u].file \in Threads /\ \A f \in Threads : f = op[u].file => Ended(f)')
               /\ op[u].file \notin rewritten' => stored'[op[u].file] = stored[op[u].file]
    BY <2>2, <2>1, <1>1 DEF Reading, BlocksKept
  <2>3. rewritten \subseteq rewritten'
    BY <1>1 DEF BlocksKept
  <2>4. op'[u].file = op[u].file /\ Gets(op'[u]) = Gets(op[u])
    BY <1>2
  <2> QED
    BY <1>1, <1>2, <2>2, <2>3, <2>4 DEF Reading, Ended, Complete
<1> QED
  BY <1>6, <1>7, <1>8

LEMMA PowerKeeps ==
  ASSUME FsInv, PowerFails, NEW u \in Threads
  PROVE  Writing(u)' /\ Listing(u)' /\ Reading(u)'
<1>1. op'[u].pc = "lost"
  BY Before DEF PowerFails, Operation
<1> QED
  BY <1>1 DEF Writing, Listing, Reading, Gets

-----------------------------------------------------------------------------
(* The thread that steps.                                                  *)
LEMMA GoingOn ==
  ASSUME FsInv, NEW t \in Threads, NEW pc \in Places, Goes(t, pc)
  PROVE  /\ op'[t].pc = pc /\ op'[t].what = op[t].what /\ op'[t].status = op[t].status
         /\ op'[t].got = op[t].got /\ op'[t].file = op[t].file /\ op'[t].size = op[t].size
         /\ op'[t].names = op[t].names /\ op'[t].at = op[t].at
<1>1. op'[t] = [op[t] EXCEPT !.pc = pc] /\ op[t] \in Operation
  BY GoesTo, Before DEF Becomes
<1> QED
  BY <1>1 DEF Operation

LEMMA Concluding ==
  ASSUME FsInv, NEW t \in Threads, NEW status \in Statuses, Concludes(t, status)
  PROVE  /\ op'[t].pc = "done" /\ op'[t].what = op[t].what /\ op'[t].status = status
         /\ op'[t].got = op[t].got /\ op'[t].file = op[t].file /\ op'[t].size = op[t].size
         /\ op'[t].names = op[t].names /\ op'[t].at = op[t].at
<1>1. op'[t] = [op[t] EXCEPT !.pc = "done", !.status = status] /\ op[t] \in Operation
  BY ConcludesWith, Before DEF Becomes
<1> QED
  BY <1>1 DEF Operation

LEMMA Without ==
  ASSUME FsInv, NEW t \in Threads, WithoutTemporary(t)
  PROVE  temps'[t] = "none"
BY DEF FsInv, DiskTyped, WithoutTemporary

(* On the way to the leaf, nothing is written, listed or read yet.         *)
LEMMA WalkingKept ==
  ASSUME FsInv, NEW t \in Threads, UNCHANGED <<stored, temps>>,
         op[t].pc \in {"start", "look", "enter", "enter made", "make", "leaf"},
         op'[t].pc \in {"look", "enter", "enter made", "make", "leaf", "reopen", "open", "temporary"}
           \/ (op'[t].pc \in {"check", "commit"} /\ op'[t].what = "remove"),
         op'[t].got = op[t].got
  PROVE  Writing(t)' /\ Listing(t)' /\ Reading(t)'
<1>1. Writing(t) /\ Reading(t)
  BY DEF FsInv
<1>2. Writing(t)'
  BY <1>1 DEF Writing
<1>3. Listing(t)'
  BY DEF Listing
<1>4. Reading(t)'
  BY <1>1 DEF Reading, Gets
<1> QED
  BY <1>2, <1>3, <1>4

(* An end that is no success of a listing or of a read.                    *)
LEMMA EndingKept ==
  ASSUME FsInv, NEW t \in Threads, NEW status \in Statuses, Concludes(t, status),
         status # "Ok" \/ op[t].what \notin {"list", "read"},
         temps'[t] = "none" \/ (temps' = temps /\ op[t].pc \notin {"fill", "flush", "check", "commit", "lost"})
  PROVE  Writing(t)' /\ Listing(t)' /\ Reading(t)'
<1>1. op'[t].pc = "done" /\ op'[t].what = op[t].what /\ op'[t].status = status
  BY Concluding
<1>2. temps'[t] = "none"
  BY DEF FsInv, Writing
<1> QED
  BY <1>1, <1>2 DEF Writing, Listing, Reading, Gets

LEMMA WalksKeep ==
  ASSUME FsInv, NEW t \in Threads,
         \/ Starts(t) \/ Looks(t) \/ EntersComponent(t) \/ MakesComponent(t) \/ LooksAtLeaf(t)
  PROVE  Writing(t)' /\ Listing(t)' /\ Reading(t)'
<1>1. op[t] \in Operation /\ Walks(op[t])
  BY Before
<1>2. UNCHANGED <<stored, temps>>
  BY DEF Starts, Looks, EntersComponent, MakesComponent, LooksAtLeaf, DiskStays
<1>3. op[t].pc \in {"start", "look", "enter", "enter made", "make", "leaf"}
  BY DEF Starts, Looks, EntersComponent, MakesComponent, LooksAtLeaf, AtStep
<1>4. ASSUME NEW status \in Statuses, Concludes(t, status),
             status # "Ok" \/ op[t].what \notin {"list", "read"}
      PROVE  Writing(t)' /\ Listing(t)' /\ Reading(t)'
  BY <1>2, <1>3, <1>4, EndingKept
<1>5. ASSUME NEW pc \in Places, Goes(t, pc),
             \/ pc \in {"look", "enter", "enter made", "make", "leaf", "reopen", "open", "temporary"}
             \/ pc \in {"check", "commit"} /\ op[t].what = "remove"
      PROVE  Writing(t)' /\ Listing(t)' /\ Reading(t)'
  BY <1>2, <1>3, <1>5, GoingOn, WalkingKept
<1>6. CASE Starts(t)
  <2>1. CASE op[t].status # "Ok"
    <3>1. Goes(t, "done") /\ "done" \in Places /\ op[t].pc = "start"
      BY <1>6, <2>1 DEF Starts, Places, AtStep
    <3>2. op'[t].pc = "done" /\ op'[t].status # "Ok"
      BY <2>1, <3>1, GoingOn
    <3>3. temps'[t] = "none"
      BY <1>2, <3>1 DEF FsInv, Writing
    <3> QED
      BY <3>2, <3>3 DEF Writing, Listing, Reading, Gets
  <2>2. CASE op[t].status = "Ok"
    <3>1. Arrived(op[t]) \in {"look", "reopen", "open", "leaf"} /\ Arrived(op[t]) \in Places
      BY DEF Arrived, Places
    <3>2. "Ok" \in Statuses /\ "IsDirectory" \in Statuses
      BY DEF Statuses
    <3> QED
      BY <1>6, <2>2, <3>1, <3>2, <1>4, <1>5 DEF Starts
  <2> QED
    BY <2>1, <2>2
<1>7. CASE Looks(t)
  <2>1. "enter" \in Places
    BY DEF Places
  <2>2. Goes(t, "enter")
        \/ \E status \in Statuses : Concludes(t, status) /\ (status # "Ok" \/ op[t].what = "contain")
    BY <1>7 DEF Looks, ParentLook, ContainLook, DirectoryLook, Statuses
  <2> QED
    BY <2>1, <2>2, <1>4, <1>5
<1>8. CASE EntersComponent(t)
  <2> DEFINE o == op[t]
             inside == [o EXCEPT !.at = FoundBy(o).what, !.depth = @ + 1]
             n == [inside EXCEPT !.pc = Arrived(inside)]
  <2>1. \/ op' = [op EXCEPT ![t] = n]
        \/ Goes(t, "make") \/ \E status \in Statuses \ {"Ok"} : Concludes(t, status)
    BY <1>8 DEF EntersComponent, OpensDirectory, Statuses
  <2>2. "make" \in Places
    BY DEF Places
  <2>3. CASE op' = [op EXCEPT ![t] = n]
    <3>1. op'[t] = n
      BY <2>3 DEF FsInv, WalksTyped
    <3>2. Arrived(inside) \in {"look", "reopen", "open", "leaf"}
      BY DEF Arrived
    <3>3. n.pc = Arrived(inside) /\ n.got = o.got
      BY <1>1 DEF Operation
    <3> QED
      BY <3>1, <3>2, <3>3, <1>2, <1>3, WalkingKept
  <2> QED
    BY <2>1, <2>2, <2>3, <1>4, <1>5
<1>9. CASE MakesComponent(t)
  <2>1. Goes(t, "enter made") /\ "enter made" \in Places
    BY <1>9 DEF MakesComponent, Places
  <2> QED
    BY <2>1, <1>5
<1>10. CASE LooksAtLeaf(t)
  <2>1. op[t].what \in {"contain", "remove", "write"}
    BY <1>1, <1>10 DEF LooksAtLeaf, AtStep, Walks, Operation
  <2>2. \/ \E status \in Statuses : Concludes(t, status)
        \/ Goes(t, "temporary")
        \/ op[t].what = "remove" /\ (Goes(t, "check") \/ Goes(t, "commit"))
    BY <1>10, <2>1 DEF LooksAtLeaf, Statuses
  <2>3. "temporary" \in Places /\ "check" \in Places /\ "commit" \in Places
    BY DEF Places
  <2> QED
    BY <2>1, <2>2, <2>3, <1>4, <1>5
<1> QED
  BY <1>6, <1>7, <1>8, <1>9, <1>10

(* A writer's files go on: nothing of a listing or a read is said of it.   *)
LEMMA WriterKept ==
  ASSUME FsInv, NEW t \in Threads, NEW pc \in {"fill", "flush", "check", "commit", "settle"}, Goes(t, pc),
         op[t].pc \in {"temporary", "fill", "flush", "check", "commit"}
  PROVE  pc \in Places /\ op'[t].pc = pc /\ op'[t].what = op[t].what /\ Listing(t)' /\ Reading(t)'
<1>1. pc \in Places
  BY DEF Places
<1>2. op'[t].pc = pc /\ op'[t].what = op[t].what /\ op'[t].got = op[t].got
  BY <1>1, GoingOn
<1>3. op[t].got = <<>>
  BY DEF FsInv, Reading
<1> QED
  BY <1>1, <1>2, <1>3 DEF Listing, Reading, Gets

LEMMA WritesKeep ==
  ASSUME FsInv, NEW t \in Threads,
         \/ ChecksClaim(t) \/ MakesTemporary(t) \/ FillsTemporary(t) \/ FlushesTemporary(t)
         \/ CommitsEntry(t) \/ Settles(t) \/ CallFails(t)
  PROVE  Writing(t)' /\ Listing(t)' /\ Reading(t)'
<1>1. op[t] \in Operation /\ Walks(op[t]) /\ Writing(t) /\ stored[t] \in Seq({Fresh, Old})
  BY Before DEF FsInv, DiskTyped, Stored
<1>2. CASE CallFails(t)
  BY <1>2, Without, EndingKept DEF CallFails, Statuses
<1>3. CASE Settles(t)
  <2>1. Concludes(t, "Ok") /\ op[t].pc = "settle" /\ temps' = temps /\ "Ok" \in Statuses
    BY <1>3 DEF Settles, AtStep, DiskStays, Statuses
  <2>2. op[t].what \notin {"list", "read"}
    BY <1>1, <2>1 DEF Walks
  <2> QED
    BY <2>1, <2>2, EndingKept
<1>4. CASE CommitsEntry(t)
  <2>1. op[t].pc = "commit" /\ WithoutTemporary(t) /\ UNCHANGED <<stored, synced>>
    BY <1>4 DEF CommitsEntry, AtStep
  <2>2. CASE \E status \in Statuses \ {"Ok"} : Concludes(t, status)
    BY <2>1, <2>2, Without, EndingKept
  <2>3. CASE Goes(t, "settle")
    <3>1. op'[t].pc = "settle" /\ Listing(t)' /\ Reading(t)'
      BY <2>1, <2>3, WriterKept
    <3>2. temps'[t] = "none"
      BY <2>1, Without
    <3> QED
      BY <3>1, <3>2 DEF Writing
  <2> QED
    BY <1>4, <2>2, <2>3 DEF CommitsEntry, Statuses
<1>5. CASE ChecksClaim(t)
  <2>1. op[t].pc = "check" /\ UNCHANGED <<stored, synced>>
    BY <1>5 DEF ChecksClaim, AtStep
  <2>2. CASE Claimed(op[t]) = "Ok"
    <3>1. Goes(t, "commit") /\ UNCHANGED temps
      BY <1>5, <2>2 DEF ChecksClaim
    <3>2. op'[t].pc = "commit" /\ op'[t].what = op[t].what /\ Listing(t)' /\ Reading(t)'
      BY <2>1, <3>1, WriterKept
    <3> QED
      BY <1>1, <2>1, <3>1, <3>2 DEF Writing, Complete
  <2>3. CASE Claimed(op[t]) # "Ok"
    <3>1. Claimed(op[t]) \in Statuses
      BY DEF Claimed, Statuses
    <3>2. Concludes(t, Claimed(op[t])) /\ WithoutTemporary(t)
      BY <1>5, <2>3 DEF ChecksClaim
    <3> QED
      BY <2>3, <3>1, <3>2, Without, EndingKept
  <2> QED
    BY <2>2, <2>3
<1>6. CASE MakesTemporary(t)
  <2>1. op[t].pc = "temporary" /\ Goes(t, "fill") /\ UNCHANGED <<stored, synced>>
    BY <1>6 DEF MakesTemporary, AtStep
  <2>2. op'[t].pc = "fill" /\ Listing(t)' /\ Reading(t)'
    BY <2>1, WriterKept
  <2> QED
    BY <1>1, <2>1, <2>2 DEF Writing
<1>7. CASE FillsTemporary(t)
  <2>1. /\ op[t].pc = "fill" /\ UNCHANGED <<synced, temps>>
        /\ Goes(t, IF Len(stored[t]) = 1 THEN "flush" ELSE "fill")
        /\ stored' = [stored EXCEPT ![t] = Append(stored[t], Fresh)]
    BY <1>7 DEF FillsTemporary, AtStep
  <2>2. stored'[t] = Append(stored[t], Fresh) /\ stored[t] \in {<<>>, <<Fresh>>}
    BY <1>1, <2>1 DEF FsInv, DiskTyped, Stored, Writing
  <2>3. CASE stored[t] = <<>>
    <3>1. stored'[t] = <<Fresh>> /\ Goes(t, "fill")
      BY <2>1, <2>2, <2>3
    <3>2. op'[t].pc = "fill" /\ Listing(t)' /\ Reading(t)'
      BY <2>1, <3>1, WriterKept
    <3> QED
      BY <3>1, <3>2 DEF Writing
  <2>4. CASE stored[t] = <<Fresh>>
    <3>0. Append(<<Fresh>>, Fresh) = <<Fresh, Fresh>> /\ Len(<<Fresh>>) = 1
      <4>1. /\ <<Fresh>> \in Seq({Fresh}) /\ Len(<<Fresh>>) = 1 /\ <<Fresh>>[1] = Fresh
            /\ <<Fresh, Fresh>> \in Seq({Fresh}) /\ Len(<<Fresh, Fresh>>) = 2
            /\ <<Fresh, Fresh>>[1] = Fresh /\ <<Fresh, Fresh>>[2] = Fresh
        OBVIOUS
      <4>2. /\ Append(<<Fresh>>, Fresh) \in Seq({Fresh}) /\ Len(Append(<<Fresh>>, Fresh)) = 2
            /\ Append(<<Fresh>>, Fresh)[1] = Fresh /\ Append(<<Fresh>>, Fresh)[2] = Fresh
        BY <4>1, AppendProperties
      <4>3. \A s, q \in Seq({Fresh}) :
              Len(s) = 2 /\ Len(q) = 2 /\ s[1] = q[1] /\ s[2] = q[2] => s = q
        <5>1. ASSUME NEW s \in Seq({Fresh}), NEW q \in Seq({Fresh}),
                     Len(s) = 2, Len(q) = 2, s[1] = q[1], s[2] = q[2]
              PROVE  s = q
          <6>1. \A i \in 1 .. Len(s) : s[i] = q[i]
            <7> TAKE i \in 1 .. Len(s)
            <7>1. i = 1 \/ i = 2
              BY <5>1
            <7> QED
              BY <5>1, <7>1
          <6> QED
            BY <5>1, <6>1, SeqEqual
        <5> QED
          BY <5>1
      <4> QED
        BY <4>1, <4>2, <4>3
    <3>1. stored'[t] = <<Fresh, Fresh>> /\ Goes(t, "flush")
      BY <2>1, <2>2, <2>4, <3>0
    <3>2. op'[t].pc = "flush" /\ Listing(t)' /\ Reading(t)'
      BY <2>1, <3>1, WriterKept
    <3> QED
      BY <3>1, <3>2 DEF Writing
  <2> QED
    BY <2>2, <2>3, <2>4
<1>8. CASE FlushesTemporary(t)
  <2>1. /\ op[t].pc = "flush" /\ Goes(t, "check") /\ UNCHANGED <<stored, temps>>
        /\ synced' = synced \union {t}
    BY <1>8 DEF FlushesTemporary, AtStep
  <2>2. op'[t].pc = "check" /\ Listing(t)' /\ Reading(t)'
    BY <2>1, WriterKept
  <2> QED
    BY <1>1, <2>1, <2>2 DEF Writing, Complete
<1> QED
  BY <1>2, <1>3, <1>4, <1>5, <1>6, <1>7, <1>8

LEMMA ListsKeep ==
  ASSUME FsInv, NEW t \in Threads, Reopens(t) \/ EndsScan(t) \/ \E e \in Entries : ReadsEntry(t, e)
  PROVE  Writing(t)' /\ Listing(t)' /\ Reading(t)'
<1>1. /\ op[t] \in Operation /\ Walks(op[t]) /\ Writing(t) /\ Listing(t) /\ Reading(t)
      /\ offset \in [Threads \union {Home} -> SUBSET Entries] /\ UNCHANGED <<tree, temps, changed>>
  BY Before DEF FsInv, DiskTyped, Reopens, EndsScan, ReadsEntry, DiskStays
<1>2. op[t].pc \in {"reopen", "scan"} /\ op[t].got = <<>> /\ op[t].what = "list" /\ temps[t] = "none"
  <2>1. op[t].pc \in {"reopen", "scan"}
    BY DEF Reopens, EndsScan, ReadsEntry, AtStep
  <2> QED
    BY <1>1, <2>1 DEF Walks, Writing, Reading
<1>3. ASSUME op'[t].pc = "scan", op'[t].got = op[t].got PROVE Writing(t)' /\ Reading(t)'
  BY <1>1, <1>2, <1>3 DEF Writing, Reading, Gets
<1>4. CASE Reopens(t)
  <2>1. op'[t] = [op[t] EXCEPT !.pc = "scan", !.scans = t] /\ offset'[t] = {}
    BY <1>1, <1>4 DEF Reopens, FsInv, WalksTyped
  <2>2. op'[t].pc = "scan" /\ op'[t].got = op[t].got /\ op'[t].scans = t
    BY <1>1, <2>1 DEF Operation
  <2> QED
    BY <1>3, <2>1, <2>2 DEF Listing
<1>5. ASSUME NEW e \in Entries, ReadsEntry(t, e) PROVE Writing(t)' /\ Listing(t)' /\ Reading(t)'
  <2>1. op[t].pc = "scan" /\ op[t].scans = t /\ offset[t] \subseteq op[t].names
    BY <1>1, <1>5 DEF ReadsEntry, AtStep, Listing
  <2>2. op'[t] = [op[t] EXCEPT !.names = @ \union {e}]
    BY <1>5 DEF ReadsEntry, FsInv, WalksTyped
  <2>3. op'[t].pc = "scan" /\ op'[t].got = op[t].got /\ op'[t].scans = t /\ op'[t].names = op[t].names \union {e}
    BY <1>1, <2>1, <2>2 DEF Operation
  <2>4. offset'[t] = offset[t] \union {e}
    BY <1>1, <1>5, <2>1 DEF ReadsEntry
  <2> QED
    BY <1>3, <2>1, <2>3, <2>4 DEF Listing
<1>6. CASE EndsScan(t)
  <2>1. op[t].pc = "scan" /\ Unpassed(op[t]) = {} /\ Concludes(t, "Ok") /\ "Ok" \in Statuses
    BY <1>6 DEF EndsScan, AtStep, Statuses
  <2>2. /\ op'[t].pc = "done" /\ op'[t].what = "list" /\ op'[t].names = op[t].names /\ op'[t].at = op[t].at
    BY <1>2, <2>1, Concluding
  <2>3. \A n \in Entries : tree[op[t].at][n].kind # "absent" => n \in op[t].names
    BY <1>1, <2>1 DEF Listing, Unpassed
  <2>4. Listing(t)'
    BY <1>1, <2>2, <2>3 DEF Listing
  <2> QED
    BY <1>1, <1>2, <2>2, <2>4 DEF Writing, Reading, Gets
<1> QED
  BY <1>4, <1>5, <1>6

LEMMA ReadsKeep ==
  ASSUME FsInv, NEW t \in Threads, OpensLeaf(t) \/ Sizes(t) \/ ReadsBlock(t)
  PROVE  Writing(t)' /\ Listing(t)' /\ Reading(t)'
<1> DEFINE o == op[t]
           n == op'[t]
<1>1. /\ o \in Operation /\ Walks(o) /\ Writing(t) /\ Reading(t) /\ UNCHANGED <<temps, stored, synced, rewritten>>
  BY Before DEF FsInv, OpensLeaf, Sizes, ReadsBlock, DiskStays
<1>2. o.pc \in {"open", "size", "blocks"} /\ o.what = "read" /\ temps[t] = "none"
  <2>1. o.pc \in {"open", "size", "blocks"}
    BY DEF OpensLeaf, Sizes, ReadsBlock, AtStep
  <2> QED
    BY <1>1, <2>1 DEF Walks, Writing
<1>3. CASE \E status \in Statuses \ {"Ok"} : Concludes(t, status)
  BY <1>1, <1>2, <1>3, EndingKept
<1>4. ASSUME n.pc \in {"size", "blocks", "done"}, n.what = "read" PROVE Writing(t)' /\ Listing(t)'
  BY <1>1, <1>2, <1>4 DEF Writing, Listing
<1>5. \A f \in Threads : Ended(f) => Ended(f)'
  <2>1. FsNext
    BY DEF FsNext, FsStep
  <2> QED
    BY <2>1, EndedStays
<1>6. CASE OpensLeaf(t) /\ ~\E status \in Statuses \ {"Ok"} : Concludes(t, status)
  <2>1. /\ n = [o EXCEPT !.pc = "size", !.file = FoundBy(o).what] /\ o.pc = "open"
        /\ FoundBy(o).kind \notin {"link", "absent", "dir"}
    BY <1>6 DEF OpensLeaf, AtStep, FsInv, WalksTyped, Statuses
  <2>2. n.pc = "size" /\ n.file = FoundBy(o).what /\ n.got = <<>> /\ n.what = "read"
    BY <1>1, <1>2, <2>1 DEF Operation, Reading
  <2>3. FoundBy(o).kind = "file"
    <3>1. FoundBy(o) \in Within \union Leaf
      BY <2>1, Before
    <3> HIDE DEF o
    <3> QED
      BY <3>1, <2>1 DEF Within, Leaf, Nothing
  <2>4. PICK f : f = FoundBy(o).what
    OBVIOUS
  <2>5. f \in Files \/ (f \in Threads /\ Ended(f))
    BY <2>1, <2>3, <2>4, Before
  <2>6. f \in Files \/ (f \in Threads /\ Ended(f)')
    BY <1>5, <2>5
  <2> QED
    BY <1>4, <2>2, <2>4, <2>6 DEF Reading, Gets, Ended, Complete
<1>7. CASE Sizes(t) /\ ~\E status \in Statuses \ {"Ok"} : Concludes(t, status)
  <2>1. n = [o EXCEPT !.pc = "blocks", !.size = Len(stored[o.file])] /\ o.pc = "size"
    BY <1>7 DEF Sizes, AtStep, FsInv, WalksTyped, Statuses
  <2>2. /\ n.pc = "blocks" /\ n.file = o.file /\ n.got = <<>> /\ n.what = "read"
        /\ n.size = Len(stored[o.file])
    BY <1>1, <1>2, <2>1 DEF Operation, Reading
  <2>3. o.file \in Files \/ (o.file \in Threads /\ Ended(o.file))
    BY <1>1, <2>1 DEF Reading
  <2>4. PICK f : f = o.file
    OBVIOUS
  <2>5. f \in Files \/ (f \in Threads /\ Ended(f)')
    BY <1>5, <2>3, <2>4
  <2>6. Len(stored[f]) \in Nat
    BY <1>1, <2>4, LenProperties DEF FsInv, DiskTyped, Operation
  <2>7. stored'[f] = stored[f]
    BY <1>1
  <2> QED
    BY <1>4, <2>2, <2>4, <2>5, <2>6, <2>7 DEF Reading, Gets, Ended, Complete
<1>8. CASE ReadsBlock(t) /\ ~\E status \in Statuses \ {"Ok"} : Concludes(t, status)
  <2>1. PICK f : f = o.file
    OBVIOUS
  <2>2. o.pc = "blocks" /\ Gets(o) /\ o.size \in Nat /\ o.got \in Seq({Fresh, Old}) /\ Len(o.got) \in Nat
    BY <1>1, <1>8, LenProperties DEF ReadsBlock, AtStep, Gets, Operation
  <2>3. f \in Files \/ (f \in Threads /\ Ended(f)')
    BY <1>1, <1>5, <2>1, <2>2 DEF Reading
  <2>4. /\ Len(o.got) <= o.size
        /\ f \notin rewritten =>
             /\ o.size = Len(stored[f])
             /\ \A i \in 1 .. Len(o.got) : o.got[i] = stored[f][i]
    BY <1>1, <2>1, <2>2 DEF Reading
  <2>5. CASE Len(o.got) = o.size
    <3>1. Concludes(t, "Ok") /\ "Ok" \in Statuses
      BY <1>8, <2>5 DEF ReadsBlock, Statuses
    <3>2. /\ n.pc = "done" /\ n.what = "read" /\ n.got = o.got /\ n.file = f /\ n.size = o.size
      BY <1>2, <2>1, <3>1, Concluding
    <3>3. Writing(t)' /\ Listing(t)'
      BY <1>4, <3>2
    <3> QED
      BY <1>1, <2>3, <2>4, <2>5, <3>2, <3>3 DEF Reading, Gets, Ended, Complete
  <2>6. CASE Len(o.got) # o.size
    <3> DEFINE next == Len(o.got) + 1
    <3>1. n = [o EXCEPT !.got = Append(@, stored[o.file][next])]
      BY <1>8, <2>6 DEF ReadsBlock, FsInv, WalksTyped, Statuses
    <3>2. /\ n.pc = "blocks" /\ n.what = "read" /\ n.got = Append(o.got, stored[f][next])
          /\ n.file = f /\ n.size = o.size
      BY <1>1, <1>2, <2>1, <2>2, <3>1 DEF Operation
    <3>3. next <= o.size
      BY <2>2, <2>4, <2>6
    <3>4. /\ Len(Append(o.got, stored[f][next])) = next
          /\ \A i \in 1 .. next :
               Append(o.got, stored[f][next])[i] = IF i = next THEN stored[f][next] ELSE o.got[i]
      <4>1. ASSUME NEW S, NEW q \in Seq(S), NEW e
            PROVE  /\ Len(Append(q, e)) = Len(q) + 1
                   /\ \A i \in 1 .. Len(q) + 1 : Append(q, e)[i] = IF i = Len(q) + 1 THEN e ELSE q[i]
        OBVIOUS
      <4> QED
        BY <2>2, <4>1
    <3>5. f \notin rewritten =>
            /\ o.size = Len(stored[f])
            /\ \A i \in 1 .. next : Append(o.got, stored[f][next])[i] = stored[f][i]
      <4> SUFFICES ASSUME f \notin rewritten, NEW i \in 1 .. next
                   PROVE  o.size = Len(stored[f]) /\ Append(o.got, stored[f][next])[i] = stored[f][i]
        BY <2>4
      <4>1. i # next => i \in 1 .. Len(o.got)
        BY <2>2
      <4> QED
        BY <2>4, <3>4, <4>1
    <3>6. Writing(t)' /\ Listing(t)'
      BY <1>4, <3>2
    <3>7. Reading(t)'
      <4>1. stored' = stored /\ rewritten' = rewritten /\ n.pc = "blocks" /\ n.file = f
        BY <1>1, <3>2
      <4>2. n.file \in Files \/ (n.file \in Threads /\ stored'[n.file] = <<Fresh, Fresh>> /\ n.file \in synced'
                                   /\ op'[n.file].pc \in {"settle", "done", "lost"})
        BY <2>3, <3>2 DEF Ended, Complete
      <4>3. Len(n.got) <= n.size
        BY <3>2, <3>3, <3>4
      <4>4. f \notin rewritten =>
              n.size = Len(stored[f]) /\ \A i \in 1 .. Len(n.got) : n.got[i] = stored[f][i]
        BY <3>2, <3>4, <3>5
      <4> QED
        BY <4>1, <4>2, <4>3, <4>4 DEF Reading, Gets, Ended, Complete
    <3> QED
      BY <3>6, <3>7
  <2> QED
    BY <2>5, <2>6
<1> QED
  BY <1>3, <1>6, <1>7, <1>8

LEMMA FsInvNext == FsInv /\ [FsNext]_fsVars => FsInv'
<1> SUFFICES ASSUME FsInv, [FsNext]_fsVars PROVE FsInv'
  OBVIOUS
<1>1. CASE FsNext
  <2>1. DiskTyped' /\ WalksTyped' /\ Published'
    BY <1>1, DiskStep, WalksKept, PublishedStep
  <2>2. ASSUME NEW t \in Threads PROVE Writing(t)' /\ Listing(t)' /\ Reading(t)'
    <3>1. CASE FsStep(t)
      BY <3>1, WalksKeep, WritesKeep, ListsKeep, ReadsKeep DEF FsStep
    <3>2. CASE PowerFails
      BY <3>2, PowerKeeps
    <3>3. CASE ~FsStep(t) /\ ~PowerFails
      BY <1>1, <3>3, WaitingKept
    <3> QED
      BY <3>1, <3>2, <3>3
  <2> QED
    BY <2>1, <2>2 DEF FsInv
<1>2. CASE UNCHANGED fsVars
  <2>1. DiskTyped'
    BY <1>2 DEF fsVars, FsInv, DiskTyped
  <2>2. WalksTyped'
    BY <1>2 DEF fsVars, FsInv, WalksTyped
  <2>3. Published'
    BY <1>2 DEF fsVars, FsInv, Published, Ended, Complete
  <2>4. \A t \in Threads : Writing(t)'
    BY <1>2 DEF fsVars, FsInv, Writing, Complete
  <2>5. \A t \in Threads : Listing(t)'
    BY <1>2 DEF fsVars, FsInv, Listing
  <2>6. \A t \in Threads : Reading(t)'
    BY <1>2 DEF fsVars, FsInv, Reading, Gets, Ended, Complete
  <2> QED
    BY <2>1, <2>2, <2>3, <2>4, <2>5, <2>6 DEF FsInv
<1> QED
  BY <1>1, <1>2

(* Whatever is moved or rewritten around the operations, and wherever the  *)
(* power fails: nothing outside the workspace is opened, a listing that    *)
(* succeeds has what was there all the time, a read that succeeds is       *)
(* whole, and what is written is whole or is not there (WorkspaceFs of     *)
(* fs.cpp).                                                                *)
THEOREM FilesAreSound == FsSpec => []FileAccessIsSound
<1>1. FsInit => FsInv
  BY FsInvInit
<1>2. FsInv /\ [FsNext]_fsVars => FsInv'
  BY FsInvNext
<1>3. FsInv => FileAccessIsSound
  BY FsInvEnough
<1> QED
  BY <1>1, <1>2, <1>3, PTL DEF FsSpec
=============================================================================
