---------------------------- MODULE WorkspaceFs -----------------------------
(***************************************************************************)
(* WorkspaceFs of src/platform/fs.cpp: each operation walks from the       *)
(* descriptor of the root, one component at a time, by a look (fstatat)    *)
(* and an openat that follows no link, and then lists, reads, replaces or  *)
(* removes what it came to.  Several threads do so at once while programs  *)
(* outside move entries and rewrite files, and the power may fail.         *)
(*                                                                         *)
(* A directory or a file is its inode.  A file's bytes are a sequence of   *)
(* blocks; a file that a thread writes is the inode named by the thread.   *)
(***************************************************************************)
EXTENDS Sequences, FiniteSets, Integers

CONSTANTS
  Home, Made,      \* the workspace root; the directory that mkdirat would make
  Folders,         \* directories of the workspace, these two included
  Elsewhere,       \* a directory outside
  Files, Beyond,   \* files of the workspace; a file outside
  Entries,         \* names of entries
  Tree0,           \* what every directory holds at first
  Moves,           \* what programs outside may make of an entry: [in, name, to]
  Asked,           \* for each thread, the operations it may be asked for
  Fresh, Old,      \* a block the threads write; a block of the first files
  SizeLimit,       \* max_bytes of a read, in blocks
  MaxMoves         \* bound: what is done from outside

Threads == DOMAIN Asked
Nothing == [kind |-> "absent", what |-> "nothing"]
Dir(d) == [kind |-> "dir", what |-> d]
File(f) == [kind |-> "file", what |-> f]
Link(to) == [kind |-> "link", what |-> to]

(* What an entry of the workspace may be before anybody writes.            *)
Within ==
  {Nothing} \union [kind : {"dir"}, what : Folders] \union [kind : {"file"}, what : Files]
    \union [kind : {"link"}, what : Folders \union Files \union {Elsewhere, Beyond}]

ASSUME FsAssumption ==
  /\ {Home, Made} \subseteq Folders /\ Elsewhere \notin Folders
  /\ Beyond \notin Files /\ Threads \intersect (Files \union {Beyond}) = {}
  /\ DOMAIN Tree0 = Folders \union {Elsewhere} /\ DOMAIN Tree0[Elsewhere] = Entries
  /\ \A d \in Folders : Tree0[d] \in [Entries -> Within]
  /\ Moves \subseteq [in : Folders, name : Entries, to : Within]
  /\ SizeLimit \in Nat /\ MaxMoves \in Nat

VARIABLES
  tree,    \* the entries of every directory
  stored,  \* the blocks of every file
  synced,  \* the written files whose blocks are on the disk
  op,      \* for each thread, its operation
  temps,   \* for each thread, the directory its temporary is in
  offset,  \* for each open directory that is scanned, the entries passed
  changed, rewritten,  \* entries that were changed, files that were rewritten in place
  meddled  \* how often from outside

fsVars == <<tree, stored, synced, op, temps, offset, changed, rewritten, meddled>>

Parse(asked) ==
  CASE ".." \in {asked.parts[i] : i \in DOMAIN asked.parts} -> "OutsideRoot"
    [] asked.from \notin {"here", "requested root", "canonical root"} -> "OutsideRoot"
    [] OTHER -> "Ok"
Components(asked) == SelectSeq(asked.parts, LAMBDA c : c # ".")

(* A path that is not refused is one of names.                             *)
ASSUME AskedAssumption ==
  \A t \in Threads : \A a \in Asked[t] :
    /\ a.what \in {"list", "read", "contain", "remove", "write"}
    /\ a.create \in BOOLEAN /\ a.claim \in {"any", "old", "absent"}
    /\ Components(a) \in Seq(Entries \union {".."})
    /\ Parse(a) = "Ok" => Components(a) \in Seq(Entries)

StartOf(asked) ==
  [what |-> asked.what, parts |-> Components(asked), create |-> asked.create,
   claim |-> asked.claim, at |-> Home, depth |-> 0, file |-> Beyond, size |-> 0, got |-> <<>>,
   scans |-> Home, names |-> {},
   pc |-> "start", status |-> Parse(asked)]

FsInit ==
  /\ tree = Tree0
  /\ stored = [f \in Files \union {Beyond} \union Threads |->
                 IF f \in Threads THEN <<>> ELSE <<Old, Old>>]
  /\ synced = {} /\ temps = [t \in Threads |-> "none"]
  /\ op \in {o \in [Threads -> UNION {{StartOf(a) : a \in Asked[t]} : t \in Threads}] :
               \A t \in Threads : \E a \in Asked[t] : o[t] = StartOf(a)}
  /\ offset = [s \in Threads \union {Home} |-> {}]
  /\ changed = {} /\ rewritten = {} /\ meddled = 0

-----------------------------------------------------------------------------
AtStep(t, pc) == op[t].pc = pc
DiskStays == UNCHANGED <<tree, stored, synced, temps, changed, rewritten, meddled>>
Goes(t, pc) == op' = [op EXCEPT ![t].pc = pc]
Concludes(t, status) == op' = [op EXCEPT ![t].pc = "done", ![t].status = status]

(* How many components are walked as directories.                          *)
Depth(o) == IF o.what = "list" THEN Len(o.parts) ELSE Len(o.parts) - 1
Component(o) == o.parts[o.depth + 1]
FoundBy(o) == tree[o.at][Component(o)]
Arrived(o) ==
  IF o.depth < Depth(o) THEN "look"
  ELSE CASE o.what = "list" -> "reopen"
         [] o.what = "read" -> "open"
         [] OTHER -> "leaf"

(* An empty path names the root, which only a listing and a check accept.  *)
Starts(t) ==
  /\ AtStep(t, "start")
  /\ LET o == op[t] IN
     IF o.status # "Ok" THEN Goes(t, "done")
     ELSE IF o.parts = <<>> /\ o.what = "contain" THEN Concludes(t, "Ok")
     ELSE IF o.parts = <<>> /\ o.what # "list" THEN Concludes(t, "IsDirectory")
     ELSE Goes(t, Arrived(o))
  /\ DiskStays /\ UNCHANGED offset

(* fstatat on a component that is to be a directory: on the way to         *)
(* something that must be there, to what may be created, or in a check.    *)
DirectoryLook(kind) ==
  CASE kind = "dir" -> "enter"
    [] kind = "absent" -> "NotFound"
    [] kind = "link" -> "Symlink"
    [] OTHER -> "InvalidPath"
ParentLook(kind) == IF kind = "absent" THEN "enter" ELSE DirectoryLook(kind)
ContainLook(kind) == IF kind = "absent" THEN "Ok" ELSE DirectoryLook(kind)

Looks(t) ==
  /\ AtStep(t, "look")
  /\ LET kind == FoundBy(op[t]).kind
         next == CASE op[t].what = "write" -> ParentLook(kind)
                   [] op[t].what = "contain" -> ContainLook(kind)
                   [] OTHER -> DirectoryLook(kind)
     IN  IF next = "enter" THEN Goes(t, next) ELSE Concludes(t, next)
  /\ DiskStays /\ UNCHANGED offset

(* openat(O_DIRECTORY | O_NOFOLLOW).                                       *)
(* Mutant: it follows a link.                                              *)
OpensFollowing(entry) ==
  IF entry.kind = "dir" \/ (entry.kind = "link" /\ entry.what = Elsewhere) THEN "Ok"
  ELSE IF entry.kind = "absent" THEN "NotFound" ELSE "InvalidPath"

OpensDirectory(entry) ==
  CASE entry.kind = "dir" -> "Ok"
    [] entry.kind = "absent" -> "NotFound"
    [] entry.kind = "link" -> "Symlink"
    [] OTHER -> "InvalidPath"

EntersComponent(t) ==
  /\ op[t].pc \in {"enter", "enter made"}
  /\ LET o == op[t]
         status == OpensDirectory(FoundBy(o))
         inside == [o EXCEPT !.at = FoundBy(o).what, !.depth = @ + 1]
     IN  IF status = "Ok" THEN op' = [op EXCEPT ![t] = [inside EXCEPT !.pc = Arrived(inside)]]
         ELSE IF status = "NotFound" /\ o.what = "write" /\ o.create /\ o.pc = "enter"
           THEN Goes(t, "make")
         ELSE Concludes(t, status)
  /\ DiskStays /\ UNCHANGED offset

(* mkdirat; that somebody else made it is as good.                         *)
MakesComponent(t) ==
  /\ AtStep(t, "make")
  /\ Goes(t, "enter made")
  /\ tree' = IF FoundBy(op[t]).kind # "absent" THEN tree
             ELSE [tree EXCEPT ![op[t].at][Component(op[t])] = Dir(Made)]
  /\ changed' = changed \union {<<op[t].at, Component(op[t])>>}
  /\ UNCHANGED <<stored, synced, temps, offset, rewritten, meddled>>

-----------------------------------------------------------------------------
(* contained_path and the leaf a file is to be replaced or removed at.     *)
LooksAtLeaf(t) ==
  /\ AtStep(t, "leaf")
  /\ LET o == op[t]
         kind == FoundBy(o).kind
     IN  CASE o.what = "contain" -> Concludes(t, IF kind = "link" THEN "Symlink" ELSE "Ok")
           [] kind = "link" -> Concludes(t, "Symlink")
           [] kind = "dir" -> Concludes(t, "IsDirectory")
           [] o.what = "write" -> Goes(t, "temporary")
           [] kind = "absent" -> Concludes(t, "NotFound")
           [] OTHER -> Goes(t, IF o.claim = "any" THEN "commit" ELSE "check")
  /\ DiskStays /\ UNCHANGED offset

(* check_write_precondition, and the same of remove_file, against what is  *)
(* there now.                                                              *)
Claimed(o) ==
  CASE o.claim = "any" -> "Ok"
    [] FoundBy(o).kind = "absent" ->
         IF o.claim = "absent" THEN "Ok" ELSE IF o.what = "write" THEN "Conflict" ELSE "NotFound"
    [] o.claim = "absent" -> "Conflict"
    [] FoundBy(o).kind = "link" -> "Symlink"
    [] FoundBy(o).kind = "dir" -> "IsDirectory"
    [] OTHER -> IF stored[FoundBy(o).what] = <<Old, Old>> THEN "Ok" ELSE "Conflict"

WithoutTemporary(t) == temps' = [temps EXCEPT ![t] = "none"]
ChecksClaim(t) ==
  /\ AtStep(t, "check")
  /\ IF Claimed(op[t]) = "Ok" THEN Goes(t, "commit") /\ UNCHANGED temps
     ELSE Concludes(t, Claimed(op[t])) /\ WithoutTemporary(t)
  /\ UNCHANGED <<tree, stored, synced, offset, changed, rewritten, meddled>>

(* write_atomic_at: a sibling is made, filled, flushed and renamed.        *)
MakesTemporary(t) ==
  /\ AtStep(t, "temporary") /\ Goes(t, "fill")
  /\ temps' = [temps EXCEPT ![t] = op[t].at]
  /\ UNCHANGED <<tree, stored, synced, offset, changed, rewritten, meddled>>

FillsTemporary(t) ==
  /\ AtStep(t, "fill")
  /\ stored' = [stored EXCEPT ![t] = Append(@, Fresh)]
  /\ Goes(t, IF Len(stored[t]) = 1 THEN "flush" ELSE "fill")
  /\ UNCHANGED <<tree, synced, temps, offset, changed, rewritten, meddled>>

FlushesTemporary(t) ==
  /\ AtStep(t, "flush") /\ Goes(t, "check")
  /\ synced' = synced \union {t}
  /\ UNCHANGED <<tree, stored, temps, offset, changed, rewritten, meddled>>

(* renameat or unlinkat, and then the fsync of the directory.              *)
CommitsEntry(t) ==
  /\ AtStep(t, "commit")
  /\ LET o == op[t] IN
     IF FoundBy(o).kind = "dir" \/ (o.what = "remove" /\ FoundBy(o).kind = "absent")
       THEN /\ Concludes(t, IF FoundBy(o).kind = "dir" THEN "IsDirectory" ELSE "NotFound")
            /\ UNCHANGED <<tree, changed>>
       ELSE /\ tree' = [tree EXCEPT ![o.at][Component(o)] =
                         IF o.what = "write" THEN File(t) ELSE Nothing]
            /\ changed' = changed \union {<<o.at, Component(o)>>}
            /\ Goes(t, "settle")
  /\ WithoutTemporary(t)
  /\ UNCHANGED <<stored, synced, offset, rewritten, meddled>>

Settles(t) == AtStep(t, "settle") /\ Concludes(t, "Ok") /\ DiskStays /\ UNCHANGED offset

-----------------------------------------------------------------------------
(* list_directory: a descriptor of its own, because the one of a walk of   *)
(* no component shares its offset with the root's.                         *)
Reopens(t) ==
  /\ AtStep(t, "reopen")
  /\ op' = [op EXCEPT ![t].pc = "scan", ![t].scans = t]
  /\ offset' = [offset EXCEPT ![t] = {}]
  /\ DiskStays

Unpassed(o) == {n \in Entries : tree[o.at][n].kind # "absent"} \ offset[o.scans]
ReadsEntry(t, n) ==
  /\ AtStep(t, "scan") /\ n \in Unpassed(op[t])
  /\ op' = [op EXCEPT ![t].names = @ \union {n}]
  /\ offset' = [offset EXCEPT ![op[t].scans] = @ \union {n}]
  /\ DiskStays
EndsScan(t) ==
  /\ AtStep(t, "scan") /\ Unpassed(op[t]) = {}
  /\ Concludes(t, "Ok") /\ DiskStays /\ UNCHANGED offset

(* The leaf of a read: opened without following, then sized, then read to  *)
(* exactly that size.                                                      *)
OpensLeaf(t) ==
  /\ AtStep(t, "open")
  /\ LET entry == FoundBy(op[t]) IN
     CASE entry.kind = "link" -> Concludes(t, "Symlink")
       [] entry.kind = "absent" -> Concludes(t, "NotFound")
       [] entry.kind = "dir" -> Concludes(t, "IsDirectory")
       [] OTHER -> op' = [op EXCEPT ![t].pc = "size", ![t].file = entry.what]
  /\ DiskStays /\ UNCHANGED offset

Sizes(t) ==
  /\ AtStep(t, "size")
  /\ LET size == Len(stored[op[t].file]) IN
     IF size > SizeLimit THEN Concludes(t, "TooLarge")
     ELSE op' = [op EXCEPT ![t].pc = "blocks", ![t].size = size]
  /\ DiskStays /\ UNCHANGED offset

ReadsBlock(t) ==
  /\ AtStep(t, "blocks")
  /\ LET o == op[t]
         next == Len(o.got) + 1
     IN  IF Len(o.got) = o.size THEN Concludes(t, "Ok")
         ELSE IF next > Len(stored[o.file]) THEN Concludes(t, "IoError")
         ELSE op' = [op EXCEPT ![t].got = Append(@, stored[o.file][next])]
  /\ DiskStays /\ UNCHANGED offset

(* Any call may fail: fail_with_cleanup.                                   *)
CallFails(t) ==
  /\ op[t].pc \notin {"start", "done", "lost"}
  /\ Concludes(t, "IoError") /\ WithoutTemporary(t)
  /\ UNCHANGED <<tree, stored, synced, offset, changed, rewritten, meddled>>

FsStep(t) ==
  \/ Starts(t) \/ Looks(t) \/ EntersComponent(t) \/ MakesComponent(t)
  \/ LooksAtLeaf(t) \/ ChecksClaim(t) \/ MakesTemporary(t) \/ FillsTemporary(t) \/ FlushesTemporary(t)
  \/ CommitsEntry(t) \/ Settles(t)
  \/ Reopens(t) \/ (\E n \in Entries : ReadsEntry(t, n)) \/ EndsScan(t)
  \/ OpensLeaf(t) \/ Sizes(t) \/ ReadsBlock(t) \/ CallFails(t)

-----------------------------------------------------------------------------
(* Outside, while somebody works: an entry is made something else, a file  *)
(* rewritten in place.  A directory has one name.                          *)
Meddles ==
  /\ \E t \in Threads : op[t].pc \notin {"done", "lost"}
  /\ meddled < MaxMoves /\ meddled' = meddled + 1
EntryMoved(m) ==
  /\ Meddles
  /\ tree[m.in][m.name] # m.to
  /\ m.to.kind = "dir" => \A d \in Folders : \A n \in Entries : tree[d][n] # m.to
  /\ tree' = [tree EXCEPT ![m.in][m.name] = m.to]
  /\ changed' = changed \union {<<m.in, m.name>>}
  /\ UNCHANGED <<stored, synced, op, temps, offset, rewritten>>

FileRewritten(f) ==
  /\ Meddles
  /\ stored' \in {[stored EXCEPT ![f] = b] : b \in {<<>>, <<Fresh, Fresh, Fresh>>}}
  /\ rewritten' = rewritten \union {f}
  /\ UNCHANGED <<tree, synced, op, temps, offset, changed>>

(* What was not flushed may be there in part.                              *)
PowerFails ==
  /\ \E t \in Threads : op[t].pc \notin {"done", "lost"}
  /\ op' = [t \in Threads |-> [op[t] EXCEPT !.pc = "lost"]]
  /\ \E n \in 0 .. 2 :
       stored' = [f \in DOMAIN stored |->
                    IF f \in Threads \ synced /\ n < Len(stored[f]) THEN SubSeq(stored[f], 1, n)
                    ELSE stored[f]]
  /\ UNCHANGED <<tree, synced, temps, offset, changed, rewritten, meddled>>

FsNext ==
  \/ \E t \in Threads : FsStep(t)
  \/ \E m \in Moves : EntryMoved(m)
  \/ \E f \in Files : FileRewritten(f)
  \/ PowerFails

FsSpec == FsInit /\ [][FsNext]_fsVars

-----------------------------------------------------------------------------
FsTypeOK ==
  /\ \A d \in Folders \union {Elsewhere} : DOMAIN tree[d] = Entries
  /\ synced \subseteq Threads /\ rewritten \subseteq Files
  /\ changed \subseteq Folders \X Entries
  /\ meddled \in 0 .. MaxMoves
  /\ \A t \in Threads : /\ temps[t] \in Folders \union {"none"}
                        /\ offset[t] \subseteq Entries /\ op[t].names \subseteq Entries
                        /\ op[t].depth \in 0 .. Len(op[t].parts)

(* A thread has never anything open but what lies in the workspace: what   *)
(* was a directory when it was looked at may be a link when it is opened.  *)
StaysInWorkspace ==
  \A t \in Threads : op[t].at \in Folders
    /\ (op[t].pc \in {"size", "blocks"} => op[t].file # Beyond)

(* A listing has every entry that was there all the time, also of a        *)
(* directory that another thread lists.                                    *)
ListsWhole ==
  \A t \in Threads :
    op[t].what = "list" /\ AtStep(t, "done") /\ op[t].status = "Ok" =>
      \A n \in Entries :
        tree[op[t].at][n].kind # "absent" /\ <<op[t].at, n>> \notin changed => n \in op[t].names

(* A read has all the bytes there were when it took the size, or it fails. *)
ReadsWhole ==
  \A t \in Threads :
    op[t].what = "read" /\ AtStep(t, "done") /\ op[t].status = "Ok" =>
      /\ Len(op[t].got) = op[t].size
      /\ op[t].file \notin rewritten => op[t].got = stored[op[t].file]

(* A file that was written is whole wherever the power fails, and no       *)
(* temporary stays behind a write that ended.                              *)
WritesWhole ==
  /\ \A d \in Folders : \A n \in Entries : \A t \in Threads :
       tree[d][n] = File(t) => stored[t] = <<Fresh, Fresh>>
  /\ \A t \in Threads : AtStep(t, "done") => temps[t] = "none"

(* What fs.hpp promises of each operation, while everything around it is   *)
(* changed by others: inside the workspace, and all of it or an error.     *)
FileAccessIsSound == StaysInWorkspace /\ ListsWhole /\ ReadsWhole /\ WritesWhole
=============================================================================
