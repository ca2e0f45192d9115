------------------------------ MODULE FactStore ------------------------------
(***************************************************************************)
(* The durable context (src/pcc/): a SQLite file that several processes    *)
(* write at once, the sidecar's journal among them.  The server serves     *)
(* calls on several threads that share one Store: one connection, one      *)
(* stack of savepoints, and one counter, without a lock, that names them.  *)
(*                                                                         *)
(* Of SQLite: a savepoint sees what was committed when it was opened, and  *)
(* what its connection wrote since; one connection writes at a time; to    *)
(* write over a snapshot that is no longer the latest, or while another    *)
(* writes, fails at once, because no busy timeout is set; a statement      *)
(* outside any savepoint commits by itself, and so does the release of the *)
(* outermost.  The statements of one connection come one after the other.  *)
(*                                                                         *)
(* An artifact is a fact whose value is the hash of its content; the hash  *)
(* stands for the content.                                                 *)
(***************************************************************************)
EXTENDS Integers, Sequences, FiniteSets

CONSTANTS
  Writers,     \* the threads that serve calls, of all processes
  Dbs,         \* the connections, one to a process
  NoWriter,
  FactKeys,    \* keys of facts
  Artifacts,   \* keys of artifacts: paths
  Values,      \* of facts
  Contents,    \* of artifacts
  NoBase,
  MaxChain,    \* kMaxChainDepth
  Open,        \* kOpenEnded
  MaxTime,     \* bound: moments
  MaxCommits,  \* bound: commits before the last calls
  MaxDepth     \* bound: txn_depth_, which grows with every decrement that is lost

ASSUME StoreBounds ==
  /\ MaxChain \in Nat /\ MaxTime \in Nat /\ MaxCommits \in Nat /\ MaxDepth \in Nat
  /\ FactKeys \intersect Artifacts = {} /\ NoWriter \notin Writers \union Dbs /\ NoBase \notin Contents
  /\ Open \notin 0 .. MaxTime

VARIABLES
  items,       \* the item table: [key, value, from, to], by id
  blobs,       \* the blob table: [hash, base, depth]
  commits,     \* commits to the file so far
  writing,     \* the connection that holds the write lock
  now,         \* the clock
  dbOf,        \* dbOf[w]: the connection of w's process
  db,          \* db[c]: what c sees while it has savepoints, and what they saved
  txnDepth,    \* txnDepth[c]: txn_depth_
  call,        \* call[w]: the tool call w serves
  txn,         \* txn[w]: where it stands, and the savepoints it opened
  effect,      \* effect[w]: what came of it
  overlapped,  \* history: two calls of one connection were under way at once
  setBack      \* history: the clock was set back

storeVars == <<items, blobs, commits, writing>>
connVars == <<db, txnDepth>>
callVars == <<call, txn, effect>>
worldVars == <<now, dbOf, overlapped, setBack>>
factVars == <<items, blobs, commits, writing, now, dbOf, db, txnDepth, call, txn, effect, overlapped, setBack>>

NoCallYet == [op |-> "none"]
Keys == FactKeys \union Artifacts
Tools ==
  [op : {"remember"}, key : FactKeys, value : Values]
    \union [op : {"put"}, key : Artifacts, value : Contents] \union [op : {"forget"}, key : Keys]
NoBlob == [hash |-> NoBase, base |-> NoBase, depth |-> 0]
NoTxn == [at |-> "none", base |-> NoBase, names |-> <<>>, number |-> 0, blob |-> NoBlob, held |-> 0, moment |-> 0]
NotInTxn == [items |-> <<>>, blobs |-> {}, snapshot |-> 0, stack |-> <<>>]

FactInit ==
  /\ items = <<>> /\ blobs = {} /\ commits = 0 /\ writing = NoWriter /\ now = 0
  /\ dbOf \in [Writers -> Dbs]
  /\ db = [c \in Dbs |-> NotInTxn] /\ txnDepth = [c \in Dbs |-> 0]
  /\ call = [w \in Writers |-> NoCallYet] /\ txn = [w \in Writers |-> NoTxn]
  /\ effect = [w \in Writers |-> "none"]
  /\ overlapped = FALSE /\ setBack = FALSE

-----------------------------------------------------------------------------
(* The rows that hold a key, and the last of them, 0 if none does.         *)
OpenRows(table, k) == {i \in DOMAIN table : table[i].key = k /\ table[i].to = Open}
OpenRow(table, k) ==
  LET rows == OpenRows(table, k)
  IN  IF rows = {} THEN 0 ELSE CHOOSE i \in rows : \A j \in rows : j <= i

Blob(table, hash) == CHOOSE b \in table : b.hash = hash
IsStored(table, hash) == \E b \in table : b.hash = hash

(* What can be rebuilt: its chain of deltas is there, and no longer than   *)
(* load follows before it calls the table corrupt.                         *)
Loadable(table) ==
  LET reach[budget \in 0 .. MaxChain] ==
        {b.hash : b \in {c \in table : c.base = NoBase \/ (budget > 0 /\ c.base \in reach[budget - 1])}}
  IN  reach[MaxChain]

-----------------------------------------------------------------------------
(* What a statement of c reads.                                            *)
Seen(c) ==
  IF db[c].stack = <<>> THEN [items |-> items, blobs |-> blobs, snapshot |-> commits, stack |-> <<>>]
  ELSE db[c]

(* The first write of a transaction asks for the lock.                     *)
CanWrite(c) == writing = c \/ (writing = NoWriter /\ Seen(c).snapshot = commits)

(* A statement of c leaves the tables so.                                  *)
Writes(c, rows, objects) ==
  /\ CanWrite(c)
  /\ IF db[c].stack = <<>>
       THEN /\ items' = rows /\ blobs' = objects /\ commits' = commits + 1
            /\ UNCHANGED <<writing, db>>
       ELSE /\ writing' = c /\ db' = [db EXCEPT ![c].items = rows, ![c].blobs = objects]
            /\ UNCHANGED <<items, blobs, commits>>

(* It finds no row to change; the lock it has asked for all the same.      *)
WritesNothing(c) ==
  /\ CanWrite(c) /\ writing' = IF db[c].stack = <<>> THEN writing ELSE c
  /\ UNCHANGED <<items, blobs, commits, db>>

Savepoints(c, name) == {i \in DOMAIN db[c].stack : db[c].stack[i].name = name}
Topmost(c, name) == CHOOSE i \in Savepoints(c, name) : \A j \in Savepoints(c, name) : j <= i

(* RELEASE ends the savepoint and those opened after it, whoever opened    *)
(* them; the outermost commits.                                            *)
Release(c, name) ==
  LET i == Topmost(c, name)
  IN  IF i > 1
        THEN /\ db' = [db EXCEPT ![c].stack = SubSeq(@, 1, i - 1)]
             /\ UNCHANGED storeVars
        ELSE /\ IF writing = c
                  THEN items' = db[c].items /\ blobs' = db[c].blobs /\ commits' = commits + 1 /\ writing' = NoWriter
                  ELSE UNCHANGED storeVars
             /\ db' = [db EXCEPT ![c] = NotInTxn]

(* ROLLBACK TO and RELEASE: all that was written since it was opened is    *)
(* undone, whoever wrote it.                                               *)
Rollback(c, name) ==
  IF Savepoints(c, name) = {} THEN UNCHANGED <<writing, db>>
  ELSE LET i == Topmost(c, name)
           saved == db[c].stack[i]
       IN  IF i > 1
             THEN /\ db' = [db EXCEPT ![c] = [items |-> saved.items, blobs |-> saved.blobs, snapshot |-> @.snapshot,
                                               stack |-> SubSeq(@.stack, 1, i - 1)]]
                  /\ UNCHANGED writing
             ELSE /\ db' = [db EXCEPT ![c] = NotInTxn]
                  /\ writing' = IF writing = c THEN NoWriter ELSE writing

-----------------------------------------------------------------------------
Goes(w, record) == txn' = [txn EXCEPT ![w] = record]
StandsAt(w, place) == Goes(w, [txn[w] EXCEPT !.at = place])
Innermost(w) == txn[w].names[Len(txn[w].names)]

(* An exception: the transactions w opened are undone on the way out.      *)
GoesWrong(w) ==
  /\ effect' = [effect EXCEPT ![w] = "refused"]
  /\ IF txn[w].names = <<>> THEN Goes(w, NoTxn) ELSE StandsAt(w, "failed")

(* A tool call arrives.  put_artifact asks for the base before, and        *)
(* outside of, its transaction: a value that holds by the clock.           *)
Serves(w, tool) ==
  /\ call[w] = NoCallYet
  /\ call' = [call EXCEPT ![w] = tool]
  /\ LET table == Seen(dbOf[w]).items
         held == {i \in DOMAIN table :
                    table[i].key = tool.key /\ table[i].from <= now /\ (table[i].to = Open \/ now < table[i].to)}
     IN  \E base \in IF tool.op = "put" /\ held # {} THEN {table[i].value : i \in held} ELSE {NoBase} :
           Goes(w, [NoTxn EXCEPT !.at = IF tool.op = "forget" THEN "prepare" ELSE "begin", !.base = base])
  /\ overlapped' = (overlapped \/ \E v \in Writers : dbOf[v] = dbOf[w] /\ call[v] # NoCallYet)
  /\ UNCHANGED <<storeVars, connVars, effect, now, dbOf, setBack>>

(* Transaction(db): txn_depth_++ reads, then writes, and no lock is held   *)
(* between.  No savepoint is called pcc_txn_-1.                            *)
Numbers(w) ==
  /\ txn[w].at = "begin" /\ txnDepth[dbOf[w]] <= MaxDepth
  /\ Goes(w, [txn[w] EXCEPT !.at = "open", !.number = txnDepth[dbOf[w]]])
  /\ UNCHANGED <<storeVars, connVars, worldVars, call, effect>>

OpensTxn(w) ==
  /\ txn[w].at = "open"
  /\ LET c == dbOf[w]
         name == txn[w].number
         first == txn[w].names = <<>>
     IN  /\ txnDepth' = [txnDepth EXCEPT ![c] = name + 1]
         /\ IF name < 0
              THEN GoesWrong(w) /\ UNCHANGED db
              ELSE /\ db' = [db EXCEPT ![c] = [Seen(c) EXCEPT !.stack =
                               Append(@, [name |-> name, items |-> Seen(c).items, blobs |-> Seen(c).blobs])]]
                   /\ Goes(w, [txn[w] EXCEPT !.at = IF first /\ call[w].op = "put" THEN "blob" ELSE "look",
                                              !.names = Append(@, name), !.number = 0])
                   /\ UNCHANGED effect
  /\ UNCHANGED <<storeVars, worldVars, call>>

(* Cas::put: a delta against the base while the chain stays within bounds, *)
(* whole otherwise; nothing for content that is there.                     *)
ChainsOn(depth) == depth < MaxChain
Follows(table, base) == IsStored(table, base) /\ ChainsOn(Blob(table, base).depth)
NewBlob(table, base, hash) ==
  IF Follows(table, base) THEN [hash |-> hash, base |-> base, depth |-> Blob(table, base).depth + 1]
  ELSE [hash |-> hash, base |-> NoBase, depth |-> 0]

PutsBlob(w) ==
  /\ txn[w].at = "blob"
  /\ LET table == Seen(dbOf[w]).blobs
     IN  IF IsStored(table, call[w].value) THEN Goes(w, [txn[w] EXCEPT !.at = "begin", !.base = NoBase])
         ELSE /\ Follows(table, txn[w].base) => txn[w].base \in Loadable(table)
              /\ Goes(w, [txn[w] EXCEPT !.at = "insert", !.base = NoBase,
                                         !.blob = NewBlob(table, txn[w].base, call[w].value)])
  /\ UNCHANGED <<storeVars, connVars, worldVars, call, effect>>

InsertsBlobOrNot(w) ==   \* mutant: an insert that failed is taken for done
  /\ txn[w].at = "insert" /\ Goes(w, [txn[w] EXCEPT !.at = "begin", !.blob = NoBlob])
  /\ LET seen == Seen(dbOf[w])
     IN  IF CanWrite(dbOf[w]) THEN Writes(dbOf[w], seen.items, seen.blobs \union {txn[w].blob})
         ELSE UNCHANGED <<storeVars, db>>
  /\ UNCHANGED <<txnDepth, worldVars, call, effect>>

InsertsBlob(w) ==
  /\ txn[w].at = "insert"
  /\ LET seen == Seen(dbOf[w])
     IN  /\ ~IsStored(seen.blobs, txn[w].blob.hash)
         /\ Writes(dbOf[w], seen.items, seen.blobs \union {txn[w].blob})
  /\ Goes(w, [txn[w] EXCEPT !.at = "begin", !.blob = NoBlob])
  /\ UNCHANGED <<txnDepth, worldVars, call, effect>>

(* Store::remember: a value that holds already is left alone; else the     *)
(* moment is taken, the row that holds is closed, and a row is added.      *)
Looks(w) ==
  /\ txn[w].at = "look"
  /\ LET table == Seen(dbOf[w]).items
         rows == OpenRows(table, call[w].key)
     IN  \E held \in IF rows = {} THEN {0} ELSE rows :
           Goes(w, [txn[w] EXCEPT !.held = held, !.moment = now,
                      !.at = IF held = 0 THEN "add"
                             ELSE IF table[held].value = call[w].value THEN "release" ELSE "close"])
  /\ UNCHANGED <<storeVars, connVars, worldVars, call, effect>>

ClosesHeldNow(w) ==   \* mutant: no savepoint, the statement commits
  /\ txn[w].at = "close" /\ CanWrite(dbOf[w]) /\ txn[w].held \in DOMAIN Seen(dbOf[w]).items
  /\ items' = [Seen(dbOf[w]).items EXCEPT ![txn[w].held].to = txn[w].moment] /\ commits' = commits + 1
  /\ db' = [db EXCEPT ![dbOf[w]].items = items', ![dbOf[w]].snapshot = commits']
  /\ StandsAt(w, "add")
  /\ UNCHANGED <<blobs, writing, txnDepth, worldVars, call, effect>>

ClosesHeld(w) ==
  /\ txn[w].at = "close"
  /\ LET seen == Seen(dbOf[w])
         held == txn[w].held
     IN  IF held \in DOMAIN seen.items
           THEN Writes(dbOf[w], [seen.items EXCEPT ![held] = [@ EXCEPT !.to = txn[w].moment]], seen.blobs)
           ELSE WritesNothing(dbOf[w])
  /\ StandsAt(w, "add")
  /\ UNCHANGED <<txnDepth, worldVars, call, effect>>

NewRow(tool, moment) == [key |-> tool.key, value |-> tool.value, from |-> moment, to |-> Open]
Adds(w) ==
  /\ txn[w].at = "add"
  /\ LET seen == Seen(dbOf[w])
     IN  Writes(dbOf[w], Append(seen.items, NewRow(call[w], txn[w].moment)), seen.blobs)
  /\ StandsAt(w, "release")
  /\ UNCHANGED <<txnDepth, worldVars, call, effect>>

(* commit(), and the load of --txn_depth_.                                 *)
Releases(w) ==
  /\ txn[w].at = "release"
  /\ LET c == dbOf[w]
         rest == SubSeq(txn[w].names, 1, Len(txn[w].names) - 1)
     IN  /\ Savepoints(c, Innermost(w)) # {}
         /\ Release(c, Innermost(w))
         /\ Goes(w, [txn[w] EXCEPT !.at = "leave", !.names = rest, !.number = txnDepth[c]])
         /\ effect' = IF rest = <<>> THEN [effect EXCEPT ![w] = "done"] ELSE effect
  /\ UNCHANGED <<txnDepth, worldVars, call>>

Leaves(w) ==
  /\ txn[w].at = "leave"
  /\ txnDepth' = [txnDepth EXCEPT ![dbOf[w]] = txn[w].number - 1]
  /\ Goes(w, IF txn[w].names = <<>> THEN NoTxn ELSE [txn[w] EXCEPT !.at = "release", !.number = 0])
  /\ UNCHANGED <<storeVars, db, worldVars, call, effect>>

(* A statement that fails throws: the base's chain is not whole; the blob  *)
(* is there by now; the lock is refused; the savepoint is gone.            *)
Throws(w) ==
  /\ LET c == dbOf[w]
         table == Seen(c).blobs
     IN  \/ /\ txn[w].at = "blob" /\ ~IsStored(table, call[w].value)
            /\ Follows(table, txn[w].base) /\ txn[w].base \notin Loadable(table)
         \/ txn[w].at = "insert" /\ (IsStored(table, txn[w].blob.hash) \/ ~CanWrite(c))
         \/ txn[w].at \in {"close", "add", "forget"} /\ ~CanWrite(c)
         \/ txn[w].at = "release" /\ Savepoints(c, Innermost(w)) = {}
  /\ GoesWrong(w)
  /\ UNCHANGED <<storeVars, connVars, worldVars, call>>

(* ~Transaction, innermost first: --txn_depth_, and what was written is    *)
(* undone.                                                                 *)
Unwinds(w) ==
  /\ txn[w].at = "failed"
  /\ Goes(w, [txn[w] EXCEPT !.at = "undo", !.number = txnDepth[dbOf[w]]])
  /\ UNCHANGED <<storeVars, connVars, worldVars, call, effect>>

Undoes(w) ==
  /\ txn[w].at = "undo"
  /\ LET rest == SubSeq(txn[w].names, 1, Len(txn[w].names) - 1)
     IN  /\ Rollback(dbOf[w], Innermost(w))
         /\ Goes(w, IF rest = <<>> THEN NoTxn ELSE [txn[w] EXCEPT !.at = "failed", !.names = rest, !.number = 0])
  /\ txnDepth' = [txnDepth EXCEPT ![dbOf[w]] = txn[w].number - 1]
  /\ UNCHANGED <<items, blobs, commits, worldVars, call, effect>>

(* Store::forget is one statement, given the moment it was prepared at.    *)
Prepares(w) ==
  /\ txn[w].at = "prepare"
  /\ Goes(w, [txn[w] EXCEPT !.at = "forget", !.moment = now])
  /\ UNCHANGED <<storeVars, connVars, worldVars, call, effect>>

Forgets(w) ==
  /\ txn[w].at = "forget"
  /\ LET c == dbOf[w]
         seen == Seen(c)
         rows == OpenRows(seen.items, call[w].key)
     IN  IF rows = {} THEN WritesNothing(c)
         ELSE Writes(c, [i \in DOMAIN seen.items |->
                           IF i \in rows THEN [seen.items[i] EXCEPT !.to = txn[w].moment] ELSE seen.items[i]],
                     seen.blobs)
  /\ effect' = [effect EXCEPT ![w] = "done"] /\ Goes(w, NoTxn)
  /\ UNCHANGED <<txnDepth, worldVars, call>>

Answers(w) ==
  /\ effect[w] # "none" /\ txn[w] = NoTxn
  /\ call' = [call EXCEPT ![w] = NoCallYet] /\ effect' = [effect EXCEPT ![w] = "none"]
  /\ UNCHANGED <<storeVars, connVars, worldVars, txn>>

(* A process dies; its savepoints and its lock go with its connection.     *)
Killed(c) ==
  /\ \E w \in Writers : dbOf[w] = c /\ call[w] # NoCallYet
  /\ db' = [db EXCEPT ![c] = NotInTxn] /\ txnDepth' = [txnDepth EXCEPT ![c] = 0]
  /\ writing' = IF writing = c THEN NoWriter ELSE writing
  /\ call' = [w \in Writers |-> IF dbOf[w] = c THEN NoCallYet ELSE call[w]]
  /\ txn' = [w \in Writers |-> IF dbOf[w] = c THEN NoTxn ELSE txn[w]]
  /\ effect' = [w \in Writers |-> IF dbOf[w] = c THEN "none" ELSE effect[w]]
  /\ UNCHANGED <<items, blobs, commits, worldVars>>

(* Store::append, as the sidecar's journal uses it: another commit to the  *)
(* file.  One that cannot be written is dropped (try_append).              *)
JournalsTurn ==
  /\ writing = NoWriter /\ commits' = commits + 1
  /\ UNCHANGED <<items, blobs, writing, connVars, callVars, worldVars>>

(* system_clock_us: time passes, or the clock is set.                      *)
Tick ==
  /\ now' \in 0 .. MaxTime \ {now} /\ setBack' = (setBack \/ now' < now)
  /\ UNCHANGED <<storeVars, connVars, callVars, dbOf, overlapped>>

FactNext ==
  \/ \E w \in Writers :
       \/ commits < MaxCommits /\ \E tool \in Tools : Serves(w, tool)
       \/ Numbers(w) \/ OpensTxn(w) \/ PutsBlob(w) \/ InsertsBlob(w) \/ Looks(w) \/ ClosesHeld(w) \/ Adds(w)
       \/ Releases(w) \/ Leaves(w) \/ Throws(w) \/ Unwinds(w) \/ Undoes(w)
       \/ Prepares(w) \/ Forgets(w) \/ Answers(w)
  \/ \E c \in Dbs : Killed(c)
  \/ commits < MaxCommits /\ JournalsTurn
  \/ Tick

StoreSpec == FactInit /\ [][FactNext]_factVars

-----------------------------------------------------------------------------
FactTypeOK ==
  /\ \A i \in DOMAIN items :
       items[i].key \in Keys /\ items[i].value \in Values \union Contents /\ items[i].from \in 0 .. MaxTime
         /\ items[i].to \in 0 .. MaxTime \union {Open}
  /\ writing \in Dbs \union {NoWriter} /\ now \in 0 .. MaxTime /\ txnDepth \in [Dbs -> Int]
  /\ writing \in Dbs => db[writing].stack # <<>> /\ db[writing].snapshot = commits
  /\ \A w \in Writers : call[w] \in Tools \union {NoCallYet}
  /\ effect \in [Writers -> {"none", "done", "refused"}]

(* Processes write at the same time, read what another is about to         *)
(* replace, and die between two statements: a fact is superseded, stored   *)
(* or forgotten as a whole or not at all, at one moment, the caller is     *)
(* told which, and no two values of a key hold at once                     *)
(* (mcp_server.cpp:135-138), as long as no two calls of one connection     *)
(* overlap.  Whatever calls overlap, what was stored once stays in the     *)
(* history, and what stopped being true does not come back.                *)

(* A value found to hold already counts from the moment it was seen.       *)
Settled(w) ==
  /\ txn[w].at \in {"blob", "insert", "look", "release", "leave"} \/ (txn[w].at \in {"begin", "open"} /\ txn[w].names # <<>>)
  /\ effect[w] = "none" /\ writing # dbOf[w]
  /\ LET table == Seen(dbOf[w]).items
         held == OpenRow(table, call[w].key)
     IN  held # 0 /\ table[held].value = call[w].value

(* What a table has of a key, oldest first.                                *)
Entry(row) == [value |-> row.value, from |-> row.from, to |-> row.to]
History(table, k) ==
  LET upTo[n \in 0 .. Len(table)] ==
        IF n = 0 THEN <<>>
        ELSE IF table[n].key = k THEN Append(upTo[n - 1], Entry(table[n])) ELSE upTo[n - 1]
  IN  upTo[Len(table)]

FactSpec == INSTANCE Facts WITH
  Values <- Values \union Contents,
  effect <- [w \in Writers |-> IF Settled(w) THEN "done" ELSE effect[w]],
  book <- [k \in Keys |-> History(items, k)],
  asked <- [w \in Writers |->
              IF call[w].op = "put"
                THEN [op |-> "remember", key |-> call[w].key, value |-> call[w].value]
                ELSE call[w]],
  steady <- ~setBack, apart <- ~overlapped,
  Times <- 0 .. MaxTime
ImplementsFacts == FactSpec!Spec

(* Every artifact's content can be rebuilt, and is there, whichever        *)
(* revision was the base and whoever had stored it (cas.cpp:174), as long  *)
(* as no two calls of one connection overlap.                              *)
EveryRevisionReads ==
  ~overlapped =>
    /\ \A b \in blobs : b.hash \in Loadable(blobs)
    /\ \A i \in DOMAIN items : items[i].key \in Artifacts => IsStored(blobs, items[i].value)

(* A key never holds two values (store.cpp:189-191).                       *)
OneValueHolds == \A k \in Keys : Cardinality(OpenRows(items, k)) <= 1
=============================================================================
