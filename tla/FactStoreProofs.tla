--------------------------- MODULE FactStoreProofs ---------------------------
(***************************************************************************)
(* Safety of the durable context for any processes, connections, keys,     *)
(* values and chain bound, and that it keeps what Facts promises.          *)
(*                                                                         *)
(* Whatever calls overlap, the connection that writes goes on from the     *)
(* file, in every table its savepoints could bring back, and one that has  *)
(* the latest snapshot sees the file (Disk): so no statement loses a row,  *)
(* and none reopens one.                                                   *)
(*                                                                         *)
(* While no two calls of a connection overlap, its savepoints are those of *)
(* one call, numbered from 0 (Shape), and what the call does is a          *)
(* transaction of its own (TxnStep).  It works on what its snapshot held   *)
(* and on what it wrote itself; TxnInv says how far it has come, and that  *)
(* a snapshot that is the latest is the table: so a write that is let      *)
(* through meets the very row it read.                                     *)
(***************************************************************************)
EXTENDS FactStore, WellFoundedInduction, SequenceTheorems, TLAPS

AnyValue == Values \union Contents
Rows == [key : Keys, value : AnyValue, from : 0 .. MaxTime, to : 0 .. MaxTime \union {Open}]
Blobs == [hash : Contents, base : AnyValue \union {NoBase}, depth : 0 .. MaxChain]
Saved == [name : Int, items : Seq(Rows), blobs : SUBSET Blobs]
Connections == [items : Seq(Rows), blobs : SUBSET Blobs, snapshot : Nat, stack : Seq(Saved)]
Stations ==
  {"none", "begin", "open", "blob", "insert", "look", "close", "add", "release", "leave", "failed", "undo",
   "prepare", "forget"}
Visits ==
  [at : Stations, base : AnyValue \union {NoBase}, names : Seq(Int), number : Int, blob : Blobs \union {NoBlob},
   held : Nat, moment : 0 .. MaxTime]
Effects == {"none", "done", "refused"}

-----------------------------------------------------------------------------
(* Whatever calls overlap.                                                 *)
DiskTyped ==
  /\ items \in Seq(Rows) /\ blobs \in SUBSET Blobs /\ commits \in Nat
  /\ writing \in Dbs \union {NoWriter} /\ db \in [Dbs -> Connections]
CallsTyped ==
  /\ now \in 0 .. MaxTime /\ dbOf \in [Writers -> Dbs] /\ txnDepth \in [Dbs -> Int]
  /\ call \in [Writers -> Tools \union {NoCallYet}] /\ txn \in [Writers -> Visits]
  /\ effect \in [Writers -> Effects]

(* Where a call stands is its own affair.                                  *)
FitsOn(b, table) == b.base = NoBase \/ \E c \in table : c.hash = b.base /\ c.depth < b.depth
Sound(t, c, e) ==
  LET ends == t.at = "leave" /\ t.names = <<>>
  IN  /\ c = NoCallYet => t = NoTxn /\ e = "none"
      /\ t.at = "none" => t = NoTxn
      /\ t.at \in {"none", "prepare", "forget"} => t.names = <<>>
      /\ t.at \in {"blob", "insert", "look", "close", "add", "release", "failed", "undo"} => t.names # <<>>
      /\ t.at \in {"blob", "insert"} => c.op = "put"
      /\ t.at \in {"begin", "open", "look", "close", "add", "release", "leave"} => c.op \in {"put", "remember"}
      /\ t.at \in {"prepare", "forget"} => c.op = "forget"
      /\ t.at = "insert" => t.blob \in Blobs /\ t.blob.hash = c.value
      /\ e # "none" => t.at \in {"none", "failed", "undo"} \/ ends
      /\ t.at \in {"failed", "undo"} => e = "refused"
      /\ ends => e = "done"
Underway(w) == Sound(txn[w], call[w], effect[w])

(* A table that goes on from another: nothing of it is lost, and what is   *)
(* closed in it stays closed.                                              *)
Continues(rows, more) ==
  /\ Len(rows) <= Len(more)
  /\ \A i \in 1 .. Len(rows) :
       /\ more[i].key = rows[i].key /\ more[i].value = rows[i].value /\ more[i].from = rows[i].from
       /\ rows[i].to # Open => more[i].to # Open

(* The connection that writes goes on from the file, as far back as it can *)
(* be undone; one that has the latest snapshot, and has not written, sees  *)
(* the file.                                                               *)
Tables(c) == {db[c].items} \union {db[c].stack[i].items : i \in DOMAIN db[c].stack}
Backed(c) ==
  /\ writing = c => db[c].stack # <<>> /\ db[c].snapshot = commits
  /\ db[c].stack # <<>> => db[c].snapshot <= commits
  /\ \A table \in Tables(c) :
       /\ writing = c => Continues(items, table)
       /\ writing # c /\ db[c].stack # <<>> /\ db[c].snapshot = commits => table = items
Disk == DiskTyped /\ \A c \in Dbs : Backed(c)
Serving == CallsTyped /\ \A w \in Writers : Underway(w)

-----------------------------------------------------------------------------
(* While none overlaps another of its connection, the savepoints of the    *)
(* connection are those of its call, numbered from 0.                      *)
Apart ==
  \A v, w \in Writers : v # w /\ dbOf[v] = dbOf[w] => call[v] = NoCallYet \/ call[w] = NoCallYet
NestedIn(t, d, depth) ==
  LET n == Len(t.names)
  IN  /\ \A i \in 1 .. n : t.names[i] = i - 1
      /\ Len(d.stack) = n /\ \A i \in 1 .. n : d.stack[i].name = i - 1
      /\ depth = IF t.at = "leave" THEN n + 1 ELSE n
      /\ t.at \in {"open", "undo"} => t.number = n
      /\ t.at = "leave" => t.number = n + 1
      /\ t.at = "insert" => ~IsStored(d.blobs, t.blob.hash) /\ FitsOn(t.blob, d.blobs)
Nested(w) == NestedIn(txn[w], db[dbOf[w]], txnDepth[dbOf[w]])
Free(c) == (\A w \in Writers : dbOf[w] = c => call[w] = NoCallYet) => db[c].stack = <<>> /\ txnDepth[c] = 0
Shape == Apart /\ (\A w \in Writers : call[w] # NoCallYet => Nested(w)) /\ (\A c \in Dbs : Free(c))

-----------------------------------------------------------------------------
(* A call is then a transaction: begun, or reading and writing what only   *)
(* its connection sees.                                                    *)
Reading == {"blob", "look", "close", "add", "release"}
Works(t, e) == t.at # "none" /\ e = "none"
Stage(t, e) ==
  IF ~Works(t, e) THEN "none"
  ELSE IF t.at \in {"begin", "open", "prepare"} THEN IF t.names = <<>> THEN "begin" ELSE "look"
  ELSE IF t.at = "insert" THEN "blob"
  ELSE IF t.at = "leave" THEN "release"
  ELSE t.at
TxnAt(at, held, moment, rows, objects, snapshot) ==
  [at |-> at, held |-> held, moment |-> moment, items |-> rows, blobs |-> objects, snapshot |-> snapshot]
Out == TxnAt("none", 0, 0, <<>>, {}, 0)
TxnFor(t, e, d) ==
  IF Stage(t, e) = "none" THEN Out
  ELSE IF Stage(t, e) \in Reading THEN TxnAt(Stage(t, e), t.held, t.moment, d.items, d.blobs, d.snapshot)
  ELSE TxnAt(Stage(t, e), t.held, t.moment, <<>>, {}, 0)
Working(w) == Works(txn[w], effect[w])
TxnOf(w) == TxnFor(txn[w], effect[w], db[dbOf[w]])
Txn == [w \in Writers |-> TxnOf(w)]
Txns ==
  [at : Reading \union {"none", "begin", "forget"}, held : Nat, moment : 0 .. MaxTime, items : Seq(Rows),
   blobs : SUBSET Blobs, snapshot : Nat]

Locks(w) == writing = dbOf[w] /\ Working(w)
MayWrite(w) == Locks(w) \/ ((\A u \in Writers : ~Locks(u)) /\ Txn[w].snapshot = commits)

TxnMoves(w, record) == Txn' = [Txn EXCEPT ![w] = record]
TxnGoes(w, at, rows, objects) == TxnMoves(w, TxnAt(at, Txn[w].held, Txn[w].moment, rows, objects, Txn[w].snapshot))
LocksStay == \A u \in Writers : Locks(u)' <=> Locks(u)
OnlyMoves(w) ==
  /\ dbOf' = dbOf
  /\ \A u \in Writers \ {w} : txn'[u] = txn[u] /\ call'[u] = call[u] /\ effect'[u] = effect[u]
  /\ \A d \in Dbs \ {dbOf[w]} : db'[d] = db[d] /\ txnDepth'[d] = txnDepth[d] /\ (writing' = d <=> writing = d)
LocksOf(w, held) == (Locks(w)' <=> held) /\ \A u \in Writers \ {w} : Locks(u)' <=> Locks(u)
Clock == <<now, setBack>>
RowClosed(rows, i, m) == IF i = 0 THEN rows ELSE [rows EXCEPT ![i] = [@ EXCEPT !.to = m]]
Added(rows, tool, m) == Append(rows, NewRow(tool, m))

TxnAsked(w, tool) ==
  /\ call[w] = NoCallYet /\ call' = [call EXCEPT ![w] = tool] /\ TxnMoves(w, TxnAt("begin", 0, 0, <<>>, {}, 0))
  /\ LocksStay /\ UNCHANGED <<items, blobs, commits, effect, Clock>>
TxnBegun(w) ==
  /\ Txn[w].at = "begin" /\ call[w].op # "forget"
  /\ TxnMoves(w, TxnAt(IF call[w].op = "put" THEN "blob" ELSE "look", Txn[w].held, Txn[w].moment, items, blobs, commits))
  /\ LocksStay /\ UNCHANGED <<items, blobs, commits, call, effect, Clock>>
TxnFound(w) ==
  /\ Txn[w].at = "blob" /\ IsStored(Txn[w].blobs, call[w].value) /\ TxnGoes(w, "look", Txn[w].items, Txn[w].blobs)
  /\ LocksStay /\ UNCHANGED <<items, blobs, commits, call, effect, Clock>>
TxnFilled(w) ==
  /\ Txn[w].at = "blob" /\ ~IsStored(Txn[w].blobs, call[w].value) /\ MayWrite(w)
  /\ \E b \in Blobs :
       /\ b.hash = call[w].value /\ FitsOn(b, Txn[w].blobs)
       /\ TxnGoes(w, "look", Txn[w].items, Txn[w].blobs \union {b})
  /\ LocksOf(w, TRUE) /\ UNCHANGED <<items, blobs, commits, call, effect, Clock>>
TxnLooked(w) ==
  /\ Txn[w].at = "look"
  /\ LET table == Txn[w].items
         rows == OpenRows(table, call[w].key)
     IN  \E held \in IF rows = {} THEN {0} ELSE rows :
           TxnMoves(w, TxnAt(IF held = 0 THEN "add"
                             ELSE IF table[held].value = call[w].value THEN "release" ELSE "close",
                             held, now, Txn[w].items, Txn[w].blobs, Txn[w].snapshot))
  /\ LocksStay /\ UNCHANGED <<items, blobs, commits, call, effect, Clock>>
TxnClosed(w) ==
  /\ Txn[w].at = "close" /\ MayWrite(w)
  /\ LET rows == Txn[w].items
     IN  TxnGoes(w, "add", IF Txn[w].held \in DOMAIN rows THEN RowClosed(rows, Txn[w].held, Txn[w].moment) ELSE rows,
                 Txn[w].blobs)
  /\ LocksOf(w, TRUE) /\ UNCHANGED <<items, blobs, commits, call, effect, Clock>>
TxnAdded(w) ==
  /\ Txn[w].at = "add" /\ MayWrite(w)
  /\ TxnGoes(w, "release", Added(Txn[w].items, call[w], Txn[w].moment), Txn[w].blobs)
  /\ LocksOf(w, TRUE) /\ UNCHANGED <<items, blobs, commits, call, effect, Clock>>
TxnCommitted(w) ==
  /\ Txn[w].at = "release" /\ TxnMoves(w, Out)
  /\ IF Locks(w) THEN items' = Txn[w].items /\ blobs' = Txn[w].blobs /\ commits' = commits + 1
     ELSE UNCHANGED <<items, blobs, commits>>
  /\ LocksOf(w, FALSE) /\ effect' = [effect EXCEPT ![w] = "done"] /\ UNCHANGED <<call, Clock>>
TxnRefused(w) ==
  /\ \/ Txn[w].at \in {"close", "add", "forget"}
     \/ Txn[w].at = "blob" /\ ~IsStored(Txn[w].blobs, call[w].value)
  /\ TxnMoves(w, Out) /\ LocksOf(w, FALSE) /\ effect' = [effect EXCEPT ![w] = "refused"]
  /\ UNCHANGED <<items, blobs, commits, call, Clock>>
TxnPrepared(w) ==
  /\ Txn[w].at = "begin" /\ call[w].op = "forget"
  /\ TxnMoves(w, TxnAt("forget", Txn[w].held, now, <<>>, {}, 0))
  /\ LocksStay /\ UNCHANGED <<items, blobs, commits, call, effect, Clock>>
TxnForgotten(w) ==
  /\ Txn[w].at = "forget" /\ TxnMoves(w, Out) /\ (\A u \in Writers : ~Locks(u)) /\ LocksStay
  /\ LET rows == OpenRows(items, call[w].key)
     IN  IF rows = {} THEN UNCHANGED <<items, commits>>
         ELSE /\ items' = [i \in DOMAIN items |->
                             IF i \in rows THEN [items[i] EXCEPT !.to = Txn[w].moment] ELSE items[i]]
              /\ commits' = commits + 1
  /\ effect' = [effect EXCEPT ![w] = "done"] /\ UNCHANGED <<blobs, call, Clock>>
TxnOver(w) ==
  /\ call[w] # NoCallYet /\ TxnMoves(w, Out) /\ LocksOf(w, FALSE)
  /\ call' = [call EXCEPT ![w] = NoCallYet] /\ effect' = [effect EXCEPT ![w] = "none"]
  /\ UNCHANGED <<items, blobs, commits, Clock>>

(* Nothing of any call: time passes, or someone else commits.              *)
TxnWaited ==
  /\ commits' = commits \/ (commits' = commits + 1 /\ \A u \in Writers : ~Locks(u))
  /\ now' \in 0 .. MaxTime /\ (setBack' <=> setBack \/ now' < now)
  /\ UNCHANGED Txn /\ LocksStay /\ UNCHANGED <<items, blobs, call, effect>>

TxnStep ==
  \/ \E w \in Writers :
       \/ \E tool \in Tools : TxnAsked(w, tool)
       \/ TxnBegun(w) \/ TxnFound(w) \/ TxnFilled(w) \/ TxnLooked(w) \/ TxnClosed(w) \/ TxnAdded(w)
       \/ TxnCommitted(w) \/ TxnRefused(w) \/ TxnPrepared(w) \/ TxnForgotten(w) \/ TxnOver(w)
  \/ TxnWaited

-----------------------------------------------------------------------------
(* Every delta has its base, one link nearer to what is stored whole.      *)
Chained(table) == \A b \in table : FitsOn(b, table)
Whole(rows, table) ==
  /\ Chained(table)
  /\ \A i \in DOMAIN rows : rows[i].key \in Artifacts => IsStored(table, rows[i].value)
SeesWhole(w) ==
  Txn[w].at \in Reading =>
    /\ Whole(Txn[w].items, Txn[w].blobs)
    /\ Txn[w].at # "blob" /\ call[w].op = "put" => IsStored(Txn[w].blobs, call[w].value)

(* Of the rows of a key only the last can hold.                            *)
Orderly(rows) ==
  \A i, j \in DOMAIN rows : i < j /\ rows[i].key = rows[j].key => rows[i].to # Open
Timely(rows, m) == \A i \in DOMAIN rows : rows[i].from <= m /\ (rows[i].to = Open \/ rows[i].to <= m)
InOrder == Orderly(items) /\ (~setBack => Timely(items, now))

Holds(rows, k, v) == OpenRow(rows, k) # 0 /\ rows[OpenRow(rows, k)].value = v

(* What a transaction sees is what its snapshot was, and what it wrote.    *)
Stands(w) ==
  /\ Txn[w].at \in Reading => Txn[w].snapshot <= commits
  /\ Txn[w].at \in {"close", "add", "release", "forget"} /\ ~setBack => Txn[w].moment <= now
  /\ Txn[w].at = "close" => Txn[w].held # 0 /\ Txn[w].held \in DOMAIN Txn[w].items
  /\ Txn[w].at \in {"blob", "look"} => Orderly(Txn[w].items)
Fresh(w) ==
  LET t == Txn[w]
      k == call[w].key
  IN  t.at \in Reading /\ t.snapshot = commits =>
        /\ t.at \in {"blob", "look", "close"} => t.items = items
        /\ t.at = "add" => t.items = RowClosed(items, t.held, t.moment)
        /\ t.at \in {"close", "add", "release"} =>
             (~setBack => Timely(items, t.moment)) /\ t.held = OpenRow(items, k)
        /\ t.at \in {"close", "add"} => ~Holds(items, k, call[w].value)
Locked(w) ==
  LET t == Txn[w]
      k == call[w].key
  IN  /\ Locks(w) => t.at \in {"look", "close", "add", "release"} /\ t.snapshot = commits
      /\ t.at = "look" /\ Locks(w) => ~Holds(t.items, k, call[w].value)
      /\ t.at = "release" /\ Locks(w) =>
           /\ t.items = Added(RowClosed(items, t.held, t.moment), call[w], t.moment)
           /\ ~Holds(items, k, call[w].value)
      /\ t.at = "release" /\ ~Locks(w) => Holds(t.items, k, call[w].value)
InTxn(w) == SeesWhole(w) /\ Stands(w) /\ Fresh(w) /\ Locked(w)
TxnInv == Whole(items, blobs) /\ InOrder /\ \A w \in Writers : InTxn(w)

StoreInv == Disk /\ Serving /\ (~overlapped => Shape /\ TxnInv)
-----------------------------------------------------------------------------
(* Every set of numbers that is not empty has a least, and a bounded one a *)
(* greatest.                                                               *)
LEMMA LeastExists ==
  ASSUME NEW S \in SUBSET Nat, S # {}
  PROVE  \E m \in S : \A n \in S : m <= n
<1> DEFINE R == OpToRel(<, Nat)
<1>1. \E x \in S : \A y \in S : ~(<<y, x>> \in R)
  BY WFMin, NatLessThanWellFounded
<1>2. \A x, y \in Nat : y < x => <<y, x>> \in R
  BY DEF OpToRel
<1> HIDE DEF R
<1>3. \A x, y \in S : <<y, x>> \notin R => x <= y
  BY <1>2
<1> QED
  BY <1>1, <1>3

LEMMA GreatestExists ==
  ASSUME NEW n \in Nat, NEW S \in SUBSET (1 .. n), S # {}
  PROVE  \E m \in S : \A j \in S : j <= m
<1> DEFINE Bounds == {b \in Nat : \A s \in S : s <= b}
<1>1. n \in Bounds
  OBVIOUS
<1>2. PICK m \in Bounds : \A b \in Bounds : m <= b
  <2> HIDE DEF Bounds
  <2>1. Bounds \in SUBSET Nat
    BY DEF Bounds
  <2> QED
    BY <1>1, <2>1, LeastExists
<1>3. m \in Nat /\ \A s \in S : s \in 1 .. n /\ s <= m
  BY <1>2
<1>4. m \in S
  <2> SUFFICES ASSUME m \notin S PROVE FALSE
    OBVIOUS
  <2>0. PICK s \in S : TRUE
    OBVIOUS
  <2>1. m - 1 \in Nat /\ \A j \in S : j <= m - 1
    <3>1. s \in 1 .. n /\ s <= m /\ \A j \in S : j # m
      BY <1>3, <2>0
    <3> QED
      BY <1>3, <3>1
  <2>2. m - 1 \in Bounds
    BY <2>1
  <2> QED
    BY <1>2, <1>3, <2>2
<1> QED
  BY <1>3, <1>4

-----------------------------------------------------------------------------
(* Tables.                                                                 *)
LEMMA RowIs ==
  ASSUME NEW rows \in Seq(Rows), NEW i \in DOMAIN rows
  PROVE  i \in Nat /\ i # 0 /\ i <= Len(rows) /\ rows[i] \in Rows
OBVIOUS

LEMMA ClosedIs ==
  ASSUME NEW rows \in Seq(Rows), NEW i \in {0} \union DOMAIN rows, NEW m \in 0 .. MaxTime
  PROVE  LET c == RowClosed(rows, i, m)
         IN  /\ c \in Seq(Rows) /\ DOMAIN c = DOMAIN rows /\ Len(c) = Len(rows)
             /\ \A j \in DOMAIN rows :
                  /\ c[j].key = rows[j].key /\ c[j].value = rows[j].value /\ c[j].from = rows[j].from
                  /\ c[j].to = IF j = i THEN m ELSE rows[j].to
                  /\ j # i => c[j] = rows[j]
<1> DEFINE c == RowClosed(rows, i, m)
<1>0. DOMAIN rows = 1 .. Len(rows) /\ Len(rows) \in Nat /\ \A j \in DOMAIN rows : j # 0 /\ rows[j] \in Rows
  OBVIOUS
<1>1. CASE i = 0
  <2>1. c = rows
    BY <1>1 DEF RowClosed
  <2> QED
    BY <1>0, <1>1, <2>1
<1>2. CASE i # 0
  <2> DEFINE r == [rows[i] EXCEPT !.to = m]
  <2>1. c = [rows EXCEPT ![i] = r] /\ i \in DOMAIN rows
    BY <1>2 DEF RowClosed
  <2>2. /\ r \in Rows /\ r.key = rows[i].key /\ r.value = rows[i].value /\ r.from = rows[i].from /\ r.to = m
    BY <1>0, <2>1 DEF Rows
  <2> HIDE DEF r, c
  <2>3. c \in [DOMAIN rows -> Rows] /\ c[i] = r /\ \A j \in DOMAIN rows : j # i => c[j] = rows[j]
    BY <1>0, <2>1, <2>2
  <2>4. c \in Seq(Rows) /\ Len(c) = Len(rows)
    BY <1>0, <2>3
  <2> QED
    BY <2>2, <2>3, <2>4 DEF c
<1> QED
  BY <1>1, <1>2

LEMMA AddedIs ==
  ASSUME NEW rows \in Seq(Rows), NEW tool \in Tools, tool.op \in {"put", "remember"}, NEW m \in 0 .. MaxTime
  PROVE  LET a == Added(rows, tool, m)
         IN  /\ a \in Seq(Rows) /\ Len(a) = Len(rows) + 1 /\ Len(a) \in DOMAIN a
             /\ \A j \in DOMAIN rows : j \in DOMAIN a /\ a[j] = rows[j] /\ j < Len(a)
             /\ a[Len(a)].key = tool.key /\ a[Len(a)].value = tool.value
             /\ a[Len(a)].from = m /\ a[Len(a)].to = Open
             /\ \A j \in DOMAIN a : j \in DOMAIN rows \/ j = Len(a)
<1> DEFINE r == [key |-> tool.key, value |-> tool.value, from |-> m, to |-> Open]
           a == Append(rows, r)
<1>1. r \in Rows
  BY DEF Rows, Tools, Keys, AnyValue
<1>2. r.key = tool.key /\ r.value = tool.value /\ r.from = m /\ r.to = Open /\ Added(rows, tool, m) = a
  BY DEF Added, NewRow
<1> HIDE DEF r
<1>3. /\ a \in Seq(Rows) /\ Len(a) = Len(rows) + 1 /\ Len(rows) \in Nat
      /\ \A j \in 1 .. Len(rows) : a[j] = rows[j]
      /\ a[Len(rows) + 1] = r
  BY <1>1
<1>4. DOMAIN a = 1 .. Len(rows) + 1 /\ DOMAIN rows = 1 .. Len(rows)
  BY <1>3
<1> HIDE DEF a
<1> QED
  BY <1>2, <1>3, <1>4

(* forget closes every row that holds the key.                             *)
AllClosed(rows, S, m) == [i \in DOMAIN rows |-> IF i \in S THEN [rows[i] EXCEPT !.to = m] ELSE rows[i]]

LEMMA AllClosedIs ==
  ASSUME NEW rows \in Seq(Rows), NEW S, NEW m \in 0 .. MaxTime
  PROVE  LET c == AllClosed(rows, S, m)
         IN  /\ c \in Seq(Rows) /\ DOMAIN c = DOMAIN rows /\ Len(c) = Len(rows)
             /\ \A j \in DOMAIN rows :
                  /\ c[j].key = rows[j].key /\ c[j].value = rows[j].value /\ c[j].from = rows[j].from
                  /\ c[j].to = IF j \in S THEN m ELSE rows[j].to
                  /\ j \notin S => c[j] = rows[j]
<1>1. DOMAIN rows = 1 .. Len(rows) /\ Len(rows) \in Nat /\ \A j \in DOMAIN rows : rows[j] \in Rows
  OBVIOUS
<1>2. \A r \in Rows : /\ [r EXCEPT !.to = m] \in Rows /\ [r EXCEPT !.to = m].key = r.key
                      /\ [r EXCEPT !.to = m].value = r.value /\ [r EXCEPT !.to = m].from = r.from
                      /\ [r EXCEPT !.to = m].to = m
  BY DEF Rows
<1> DEFINE c == AllClosed(rows, S, m)
<1>3. DOMAIN c = 1 .. Len(rows)
      /\ \A j \in 1 .. Len(rows) : c[j] = IF j \in S THEN [rows[j] EXCEPT !.to = m] ELSE rows[j]
  BY <1>1 DEF AllClosed
<1>4. c = [j \in 1 .. Len(rows) |-> c[j]]
  BY <1>1 DEF AllClosed
<1> HIDE DEF c
<1>5. \A j \in 1 .. Len(rows) : c[j] \in Rows
  BY <1>1, <1>2, <1>3
<1>6. c \in [1 .. Len(rows) -> Rows]
  BY <1>4, <1>5
<1>7. c \in Seq(Rows) /\ Len(c) = Len(rows)
  BY <1>1, <1>6
<1> QED
  BY <1>1, <1>2, <1>3, <1>7 DEF c

LEMMA ContinuesItself == ASSUME NEW rows \in Seq(Rows) PROVE Continues(rows, rows)
BY DEF Continues

LEMMA ContinuesOn ==
  ASSUME NEW a \in Seq(Rows), NEW b \in Seq(Rows), NEW c \in Seq(Rows), Continues(a, b), Continues(b, c)
  PROVE  Continues(a, c)
<1>1. Len(a) \in Nat /\ Len(b) \in Nat /\ Len(c) \in Nat /\ Len(a) <= Len(c)
  BY DEF Continues
<1>2. \A i \in 1 .. Len(a) : i \in 1 .. Len(b)
  BY <1>1 DEF Continues
<1> QED
  BY <1>1, <1>2 DEF Continues

LEMMA ClosedContinues ==
  ASSUME NEW rows \in Seq(Rows), NEW i \in {0} \union DOMAIN rows, NEW m \in 0 .. MaxTime, StoreBounds
  PROVE  Continues(rows, RowClosed(rows, i, m))
<1> DEFINE c == RowClosed(rows, i, m)
<1>1. m # Open
  BY DEF StoreBounds
<1>2. /\ Len(c) = Len(rows) /\ Len(rows) \in Nat
      /\ \A j \in DOMAIN rows :
           /\ c[j].key = rows[j].key /\ c[j].value = rows[j].value /\ c[j].from = rows[j].from
           /\ c[j].to = IF j = i THEN m ELSE rows[j].to
  BY ClosedIs
<1>3. \A j \in 1 .. Len(rows) : j \in DOMAIN rows
  OBVIOUS
<1> HIDE DEF c
<1> QED
  BY <1>1, <1>2, <1>3 DEF Continues, c

LEMMA AllClosedContinues ==
  ASSUME NEW rows \in Seq(Rows), NEW S, NEW m \in 0 .. MaxTime, StoreBounds
  PROVE  Continues(rows, AllClosed(rows, S, m))
<1> DEFINE c == AllClosed(rows, S, m)
<1>1. m # Open
  BY DEF StoreBounds
<1>2. /\ Len(c) = Len(rows) /\ Len(rows) \in Nat
      /\ \A j \in DOMAIN rows :
           /\ c[j].key = rows[j].key /\ c[j].value = rows[j].value /\ c[j].from = rows[j].from
           /\ c[j].to = IF j \in S THEN m ELSE rows[j].to
  BY AllClosedIs
<1>3. \A j \in 1 .. Len(rows) : j \in DOMAIN rows
  OBVIOUS
<1> HIDE DEF c
<1> QED
  BY <1>1, <1>2, <1>3 DEF Continues, c

LEMMA AddedContinues ==
  ASSUME NEW rows \in Seq(Rows), NEW tool \in Tools, tool.op \in {"put", "remember"}, NEW m \in 0 .. MaxTime
  PROVE  Continues(rows, Added(rows, tool, m))
<1> DEFINE a == Added(rows, tool, m)
<1>1. Len(a) = Len(rows) + 1 /\ Len(rows) \in Nat /\ \A j \in DOMAIN rows : a[j] = rows[j]
  BY AddedIs
<1>2. \A j \in 1 .. Len(rows) : j \in DOMAIN rows
  OBVIOUS
<1> HIDE DEF a
<1> QED
  BY <1>1, <1>2 DEF Continues, a

-----------------------------------------------------------------------------
(* What each statement leaves of the file and of the connections.          *)
LEMMA ConnectionIs ==
  ASSUME DiskTyped, NEW c \in Dbs
  PROVE  /\ db[c] \in Connections /\ db[c].items \in Seq(Rows) /\ db[c].blobs \in SUBSET Blobs /\ db[c].snapshot \in Nat
         /\ db[c].stack \in Seq(Saved)
         /\ Seen(c) \in Connections /\ Seen(c).items \in Seq(Rows) /\ Seen(c).blobs \in SUBSET Blobs
         /\ Seen(c).snapshot \in Nat /\ Seen(c).stack = db[c].stack
         /\ db[c].stack # <<>> => Seen(c) = db[c]
         /\ db[c].stack = <<>> => Seen(c).items = items /\ Seen(c).blobs = blobs /\ Seen(c).snapshot = commits
         /\ NotInTxn \in Connections
<1>1. db[c] \in Connections /\ NotInTxn \in Connections
  BY DEF DiskTyped, Connections, NotInTxn
<1>2. /\ db[c].items \in Seq(Rows) /\ db[c].blobs \in SUBSET Blobs /\ db[c].snapshot \in Nat
      /\ db[c].stack \in Seq(Saved)
  BY <1>1 DEF Connections
<1>3. CASE db[c].stack # <<>>
  BY <1>1, <1>2, <1>3 DEF Seen
<1>4. CASE db[c].stack = <<>>
  <2> DEFINE s == [items |-> items, blobs |-> blobs, snapshot |-> commits, stack |-> <<>>]
  <2>1. Seen(c) = s /\ s \in Connections
    BY <1>4 DEF Seen, DiskTyped, Connections
  <2> QED
    BY <1>1, <1>2, <1>4, <2>1 DEF DiskTyped
<1> QED
  BY <1>3, <1>4

LEMMA TableIs ==
  ASSUME DiskTyped, NEW c \in Dbs, NEW table \in Tables(c)
  PROVE  table \in Seq(Rows)
<1>1. db[c].items \in Seq(Rows) /\ db[c].stack \in Seq(Saved)
  BY ConnectionIs
<1>2. \A i \in DOMAIN db[c].stack : db[c].stack[i] \in Saved
  BY <1>1
<1> QED
  BY <1>1, <1>2 DEF Tables, Saved

(* A connection that a step leaves alone.                                  *)
LEMMA BackedStill ==
  ASSUME Disk, NEW c \in Dbs, db'[c] = db[c], writing' = c <=> writing = c,
         UNCHANGED <<items, commits>> \/ (writing # c /\ commits' = commits + 1)
  PROVE  Backed(c)'
<1>1. Backed(c) /\ commits \in Nat /\ db[c].snapshot \in Nat
  BY ConnectionIs DEF Disk, DiskTyped
<1>2. Tables(c)' = Tables(c)
  BY DEF Tables
<1>3. CASE UNCHANGED <<items, commits>>
  BY <1>1, <1>2, <1>3 DEF Backed
<1>4. CASE writing # c /\ commits' = commits + 1
  BY <1>1, <1>2, <1>4 DEF Backed
<1> QED
  BY <1>3, <1>4

LEMMA WritesBacked ==
  ASSUME Disk, NEW c \in Dbs, NEW rows \in Seq(Rows), NEW objects \in SUBSET Blobs,
         Continues(Seen(c).items, rows), Writes(c, rows, objects)
  PROVE  Disk' /\ Continues(items, items')
<1> USE StoreBounds DEF StoreBounds
<1>0. DiskTyped /\ Backed(c) /\ CanWrite(c) /\ items \in Seq(Rows) /\ commits \in Nat
  BY DEF Disk, DiskTyped, Writes
<1>1. CASE db[c].stack = <<>>
  <2>1. items' = rows /\ blobs' = objects /\ commits' = commits + 1 /\ UNCHANGED <<writing, db>>
    BY <1>1 DEF Writes
  <2>2. writing = NoWriter /\ Seen(c).items = items
    BY <1>0, <1>1, ConnectionIs DEF CanWrite, Backed
  <2>3. DiskTyped'
    BY <1>0, <2>1 DEF DiskTyped
  <2>4. \A d \in Dbs : Backed(d)'
    BY <2>1, <2>2, BackedStill
  <2> QED
    BY <2>1, <2>2, <2>3, <2>4 DEF Disk
<1>2. CASE db[c].stack # <<>>
  <2> DEFINE after == [db[c] EXCEPT !.items = rows, !.blobs = objects]
  <2>1. writing' = c /\ db' = [db EXCEPT ![c] = after] /\ UNCHANGED <<items, blobs, commits>>
    BY <1>0, <1>2 DEF Writes, DiskTyped, Connections
  <2>2. after \in Connections /\ after.items = rows /\ after.stack = db[c].stack /\ after.snapshot = db[c].snapshot
    BY <1>0, ConnectionIs DEF Connections
  <2> HIDE DEF after
  <2>3. db' \in [Dbs -> Connections] /\ db'[c] = after /\ \A d \in Dbs \ {c} : db'[d] = db[d]
    BY <1>0, <2>1, <2>2 DEF DiskTyped
  <2>4. DiskTyped'
    BY <1>0, <2>1, <2>3 DEF DiskTyped
  <2>5. writing \in {c, NoWriter} /\ db[c].snapshot = commits /\ Seen(c) = db[c]
    BY <1>0, <1>2, ConnectionIs DEF CanWrite, Backed
  <2>6. \A table \in Tables(c) : Continues(items, table)
    BY <1>0, <1>2, <2>5, ContinuesItself DEF Backed
  <2>7. Continues(items, rows)
    <3>1. db[c].items \in Tables(c) /\ db[c].items \in Seq(Rows)
      BY <1>0, ConnectionIs DEF Tables
    <3> QED
      BY <1>0, <2>5, <2>6, <3>1, ContinuesOn
  <2>8. \A table \in Tables(c)' : table = rows \/ table \in Tables(c)
    BY <2>2, <2>3 DEF Tables
  <2>9. Backed(c)'
    BY <1>0, <1>2, <2>1, <2>2, <2>3, <2>5, <2>6, <2>7, <2>8 DEF Backed
  <2>10. ASSUME NEW d \in Dbs \ {c} PROVE Backed(d)'
    <3>1. writing # d /\ writing' # d /\ db'[d] = db[d]
      BY <2>1, <2>3, <2>5
    <3> QED
      BY <2>1, <3>1, BackedStill
  <2> QED
    BY <1>0, <2>1, <2>4, <2>9, <2>10, ContinuesItself DEF Disk
<1> QED
  BY <1>1, <1>2

LEMMA NothingBacked ==
  ASSUME Disk, NEW c \in Dbs, WritesNothing(c)
  PROVE  Disk' /\ Continues(items, items')
<1> USE StoreBounds DEF StoreBounds
<1>0. DiskTyped /\ Backed(c) /\ CanWrite(c) /\ items \in Seq(Rows) /\ UNCHANGED <<items, blobs, commits, db>>
  BY DEF Disk, DiskTyped, WritesNothing
<1>1. CASE db[c].stack = <<>>
  <2>1. writing' = writing
    BY <1>1 DEF WritesNothing
  <2>2. \A d \in Dbs : Backed(d)'
    BY <1>0, <2>1, BackedStill
  <2> QED
    BY <1>0, <2>1, <2>2, ContinuesItself DEF Disk, DiskTyped
<1>2. CASE db[c].stack # <<>>
  <2>1. writing' = c
    BY <1>2 DEF WritesNothing
  <2>2. writing \in {c, NoWriter} /\ db[c].snapshot = commits
    BY <1>0, <1>2, ConnectionIs DEF CanWrite, Backed
  <2>3. \A table \in Tables(c) : Continues(items, table)
    BY <1>0, <1>2, <2>2, ContinuesItself DEF Backed
  <2>4. Tables(c)' = Tables(c)
    BY <1>0 DEF Tables
  <2>5. Backed(c)'
    BY <1>0, <1>2, <2>1, <2>2, <2>3, <2>4 DEF Backed
  <2>6. ASSUME NEW d \in Dbs \ {c} PROVE Backed(d)'
    BY <1>0, <2>1, <2>2, BackedStill
  <2> QED
    BY <1>0, <2>1, <2>5, <2>6, ContinuesItself DEF Disk, DiskTyped
<1> QED
  BY <1>1, <1>2

(* A connection whose savepoints are gone.                                 *)
LEMMA LeftBacked ==
  ASSUME Disk, NEW c \in Dbs, db' = [db EXCEPT ![c] = NotInTxn], writing' \in {writing, NoWriter} \ {c},
         \/ UNCHANGED <<items, blobs, commits>>
         \/ writing = c /\ items' = db[c].items /\ blobs' = db[c].blobs /\ commits' = commits + 1,
         writing # c => writing' = writing
  PROVE  Disk' /\ Continues(items, items')
<1> USE StoreBounds DEF StoreBounds
<1>1. DiskTyped /\ Backed(c) /\ items \in Seq(Rows) /\ db[c].items \in Seq(Rows) /\ db[c].blobs \in SUBSET Blobs
  BY ConnectionIs DEF Disk, DiskTyped
<1>2. db' \in [Dbs -> Connections] /\ db'[c] = NotInTxn /\ \A d \in Dbs \ {c} : db'[d] = db[d]
  BY <1>1, ConnectionIs DEF DiskTyped
<1>3. DiskTyped'
  BY <1>1, <1>2 DEF DiskTyped
<1>4. Backed(c)'
  BY <1>2 DEF Backed, NotInTxn
<1>5. ASSUME NEW d \in Dbs \ {c} PROVE Backed(d)'
  BY <1>2, BackedStill
<1>6. Continues(items, items')
  <2>1. db[c].items \in Tables(c)
    BY DEF Tables
  <2> QED
    BY <1>1, <2>1, ContinuesItself DEF Backed
<1> QED
  BY <1>3, <1>4, <1>5, <1>6 DEF Disk

LEMMA EditedIs ==
  ASSUME NEW r \in Connections, NEW z
  PROVE  [r EXCEPT !.stack = z] = [items |-> r.items, blobs |-> r.blobs, snapshot |-> r.snapshot, stack |-> z]
BY DEF Connections

LEMMA PrefixIs ==
  ASSUME NEW s \in Seq(Saved), NEW i \in DOMAIN s, i > 1
  PROVE  LET p == SubSeq(s, 1, i - 1)
         IN  /\ p \in Seq(Saved) /\ p # <<>> /\ Len(p) = i - 1
             /\ \A j \in DOMAIN p : j \in DOMAIN s /\ p[j] = s[j]
<1>1. i \in 1 .. Len(s) /\ Len(s) \in Nat /\ i - 1 \in 1 .. Len(s) /\ i \in Nat
  OBVIOUS
<1> DEFINE p == SubSeq(s, 1, i - 1)
<1>2. p \in Seq(Saved) /\ Len(p) = i - 1 /\ \A j \in 1 .. i - 1 : p[j] = s[j]
  BY <1>1
<1> HIDE DEF p
<1>3. DOMAIN p = 1 .. i - 1 /\ p # <<>>
  BY <1>1, <1>2
<1> QED
  BY <1>1, <1>2, <1>3 DEF p

(* One that has fewer savepoints, and sees a table it saw before.          *)
LEMMA FewerBacked ==
  ASSUME Disk, NEW c \in Dbs, NEW i \in DOMAIN db[c].stack, i > 1, NEW rows \in Tables(c), NEW objects \in SUBSET Blobs,
         db' = [db EXCEPT ![c] = [items |-> rows, blobs |-> objects, snapshot |-> db[c].snapshot,
                                  stack |-> SubSeq(db[c].stack, 1, i - 1)]],
         UNCHANGED storeVars
  PROVE  Disk' /\ Continues(items, items')
<1>1. /\ DiskTyped /\ Backed(c) /\ items \in Seq(Rows) /\ UNCHANGED <<items, blobs, commits, writing>>
      /\ rows \in Seq(Rows) /\ db[c].stack \in Seq(Saved) /\ db[c].snapshot \in Nat
  BY ConnectionIs, TableIs DEF Disk, DiskTyped, storeVars
<1> DEFINE rest == SubSeq(db[c].stack, 1, i - 1)
           after == [items |-> rows, blobs |-> objects, snapshot |-> db[c].snapshot, stack |-> rest]
<1>2. /\ rest \in Seq(Saved) /\ rest # <<>>
      /\ \A j \in DOMAIN rest : j \in DOMAIN db[c].stack /\ rest[j] = db[c].stack[j]
  BY <1>1, PrefixIs
<1> HIDE DEF rest
<1>3. after \in Connections /\ after.items = rows /\ after.snapshot = db[c].snapshot /\ after.stack = rest
  BY <1>1, <1>2 DEF Connections
<1>4. db' = [db EXCEPT ![c] = after]
  BY DEF rest
<1> HIDE DEF after
<1>5. db' \in [Dbs -> Connections] /\ db'[c] = after /\ \A d \in Dbs \ {c} : db'[d] = db[d]
  BY <1>1, <1>3, <1>4 DEF DiskTyped
<1>6. DiskTyped'
  BY <1>1, <1>5 DEF DiskTyped
<1>7. \A table \in Tables(c)' : table \in Tables(c)
  <2>1. db'[c].items = rows /\ db'[c].stack = rest
    BY <1>3, <1>5
  <2>2. \A table \in Tables(c)' : table = db'[c].items \/ \E j \in DOMAIN db'[c].stack : table = db'[c].stack[j].items
    BY DEF Tables
  <2>3. \A j \in DOMAIN rest : rest[j].items \in Tables(c)
    BY <1>2 DEF Tables
  <2> QED
    BY <2>1, <2>2, <2>3
<1>8. db[c].stack # <<>>
  OBVIOUS
<1>9. Backed(c)'
  BY <1>1, <1>2, <1>3, <1>5, <1>7, <1>8 DEF Backed
<1>10. ASSUME NEW d \in Dbs \ {c} PROVE Backed(d)'
  BY <1>1, <1>5, BackedStill
<1> QED
  BY <1>1, <1>6, <1>9, <1>10, ContinuesItself DEF Disk

LEMMA TopmostIs ==
  ASSUME DiskTyped, NEW c \in Dbs, NEW name, Savepoints(c, name) # {}
  PROVE  /\ Topmost(c, name) \in Savepoints(c, name) /\ Topmost(c, name) \in DOMAIN db[c].stack
         /\ Topmost(c, name) \in Nat /\ Topmost(c, name) >= 1
         /\ \A j \in Savepoints(c, name) : j <= Topmost(c, name)
<1>1. Savepoints(c, name) \in SUBSET (1 .. Len(db[c].stack)) /\ Len(db[c].stack) \in Nat
      /\ Savepoints(c, name) \subseteq DOMAIN db[c].stack
  BY ConnectionIs DEF Savepoints
<1>2. \E m \in Savepoints(c, name) : \A j \in Savepoints(c, name) : j <= m
  BY <1>1, GreatestExists
<1> HIDE DEF Savepoints
<1>3. /\ Topmost(c, name) \in Savepoints(c, name)
      /\ \A j \in Savepoints(c, name) : j <= Topmost(c, name)
  BY <1>2 DEF Topmost
<1> QED
  BY <1>1, <1>3

LEMMA ReleaseBacked ==
  ASSUME Disk, NEW c \in Dbs, NEW name, Savepoints(c, name) # {}, Release(c, name)
  PROVE  Disk' /\ Continues(items, items')
<1> DEFINE i == Topmost(c, name)
<1>1. i \in DOMAIN db[c].stack /\ i \in Nat /\ i >= 1 /\ DiskTyped
  BY TopmostIs DEF Disk
<1> HIDE DEF i
<1>2. CASE i > 1
  <2>1. db' = [db EXCEPT ![c].stack = SubSeq(@, 1, i - 1)] /\ UNCHANGED storeVars
    BY <1>2 DEF Release, i
  <2>2. db[c].items \in Tables(c) /\ db[c].blobs \in SUBSET Blobs /\ db[c] \in Connections /\ db \in [Dbs -> Connections]
    BY <1>1, ConnectionIs DEF Tables, DiskTyped
  <2>3. db' = [db EXCEPT ![c] = [items |-> db[c].items, blobs |-> db[c].blobs, snapshot |-> db[c].snapshot,
                                 stack |-> SubSeq(db[c].stack, 1, i - 1)]]
    <3>1. db' = [db EXCEPT ![c] = [db[c] EXCEPT !.stack = SubSeq(db[c].stack, 1, i - 1)]]
      BY <2>1, <2>2
    <3> QED
      BY <2>2, <3>1, EditedIs
  <2> QED
    BY <1>1, <1>2, <2>1, <2>2, <2>3, FewerBacked
<1>3. CASE ~(i > 1)
  <2>1. /\ db' = [db EXCEPT ![c] = NotInTxn]
        /\ IF writing = c
             THEN items' = db[c].items /\ blobs' = db[c].blobs /\ commits' = commits + 1 /\ writing' = NoWriter
             ELSE UNCHANGED storeVars
    BY <1>3 DEF Release, i
  <2> QED
    BY <2>1, LeftBacked, StoreBounds DEF storeVars, StoreBounds
<1> QED
  BY <1>2, <1>3

LEMMA RollbackBacked ==
  ASSUME Disk, NEW c \in Dbs, NEW name, Rollback(c, name), UNCHANGED <<items, blobs, commits>>
  PROVE  Disk' /\ Continues(items, items')
<1>0. DiskTyped /\ items \in Seq(Rows)
  BY DEF Disk, DiskTyped
<1>1. CASE Savepoints(c, name) = {}
  <2>1. UNCHANGED <<writing, db>>
    BY <1>1 DEF Rollback
  <2>2. \A d \in Dbs : Backed(d)'
    BY <2>1, BackedStill
  <2> QED
    BY <1>0, <2>1, <2>2, ContinuesItself DEF Disk, DiskTyped
<1>2. CASE Savepoints(c, name) # {}
  <2> DEFINE i == Topmost(c, name)
             saved == db[c].stack[i]
  <2>1. i \in DOMAIN db[c].stack /\ i \in Nat /\ i >= 1
    BY <1>0, <1>2, TopmostIs
  <2> HIDE DEF i
  <2>2. CASE i > 1
    <3>1. /\ db' = [db EXCEPT ![c] = [items |-> saved.items, blobs |-> saved.blobs, snapshot |-> @.snapshot,
                                       stack |-> SubSeq(@.stack, 1, i - 1)]]
          /\ UNCHANGED writing
      BY <1>2, <2>2 DEF Rollback, i
    <3>2. db[c] \in Connections /\ db \in [Dbs -> Connections] /\ saved \in Saved
      BY <1>0, <2>1, ConnectionIs DEF DiskTyped
    <3>3. saved.items \in Tables(c) /\ saved.blobs \in SUBSET Blobs
      BY <2>1, <3>2 DEF Tables, Saved
    <3> HIDE DEF saved
    <3>4. db' = [db EXCEPT ![c] = [items |-> saved.items, blobs |-> saved.blobs, snapshot |-> db[c].snapshot,
                                   stack |-> SubSeq(db[c].stack, 1, i - 1)]]
      BY <3>1, <3>2
    <3>5. UNCHANGED storeVars
      BY <3>1 DEF storeVars
    <3> QED
      BY <2>1, <2>2, <3>3, <3>4, <3>5, FewerBacked
  <2>3. CASE ~(i > 1)
    <3>1. db' = [db EXCEPT ![c] = NotInTxn] /\ writing' = IF writing = c THEN NoWriter ELSE writing
      BY <1>2, <2>3 DEF Rollback, i
    <3> QED
      BY <3>1, LeftBacked, StoreBounds DEF StoreBounds
  <2> QED
    BY <2>2, <2>3
<1> QED
  BY <1>1, <1>2

(* A savepoint more.                                                       *)
LEMMA OpenedBacked ==
  ASSUME Disk, NEW c \in Dbs, NEW name \in Int, UNCHANGED storeVars,
         db' = [db EXCEPT ![c] = [Seen(c) EXCEPT !.stack =
                  Append(@, [name |-> name, items |-> Seen(c).items, blobs |-> Seen(c).blobs])]]
  PROVE  Disk' /\ Continues(items, items')
<1>1. DiskTyped /\ Backed(c) /\ items \in Seq(Rows) /\ UNCHANGED <<items, blobs, commits, writing>> /\ commits \in Nat
  BY DEF Disk, DiskTyped, storeVars
<1>2. /\ Seen(c) \in Connections /\ Seen(c).items \in Seq(Rows) /\ Seen(c).blobs \in SUBSET Blobs
      /\ Seen(c).snapshot \in Nat /\ Seen(c).stack \in Seq(Saved) /\ Seen(c).stack = db[c].stack
  BY <1>1, ConnectionIs
<1> DEFINE s == [name |-> name, items |-> Seen(c).items, blobs |-> Seen(c).blobs]
           more == Append(Seen(c).stack, s)
           after == [Seen(c) EXCEPT !.stack = more]
<1>3. s \in Saved /\ s.items = Seen(c).items
  BY <1>2 DEF Saved
<1> HIDE DEF s
<1>4. /\ more \in Seq(Saved) /\ more # <<>>
      /\ \A i \in DOMAIN more : more[i] = s \/ (i \in DOMAIN db[c].stack /\ more[i] = db[c].stack[i])
  <2> DEFINE q == Seen(c).stack
  <2>1. q \in Seq(Saved) /\ q = db[c].stack
    BY <1>2
  <2> HIDE DEF q
  <2>2. /\ Append(q, s) \in Seq(Saved) /\ Append(q, s) # <<>>
        /\ \A i \in DOMAIN Append(q, s) : Append(q, s)[i] = s \/ (i \in DOMAIN q /\ Append(q, s)[i] = q[i])
    BY <1>3, <2>1
  <2> QED
    BY <2>1, <2>2 DEF q
<1> HIDE DEF more
<1>5. after \in Connections /\ after.items = Seen(c).items /\ after.snapshot = Seen(c).snapshot /\ after.stack = more
  BY <1>2, <1>4 DEF Connections
<1>6. db' = [db EXCEPT ![c] = after]
  BY DEF more, s
<1> HIDE DEF after
<1>7. db' \in [Dbs -> Connections] /\ db'[c] = after /\ \A d \in Dbs \ {c} : db'[d] = db[d]
  BY <1>1, <1>5, <1>6 DEF DiskTyped
<1>8. DiskTyped'
  BY <1>1, <1>7 DEF DiskTyped
<1>9. \A table \in Tables(c)' : table = Seen(c).items \/ \E i \in DOMAIN db[c].stack : table = db[c].stack[i].items
  <2>1. db'[c].items = Seen(c).items /\ db'[c].stack = more
    BY <1>5, <1>7
  <2>2. \A table \in Tables(c)' : table = db'[c].items \/ \E j \in DOMAIN db'[c].stack : table = db'[c].stack[j].items
    BY DEF Tables
  <2> QED
    BY <1>3, <1>4, <2>1, <2>2
<1>10. Backed(c)'
  <2>1. CASE db[c].stack = <<>>
    <3>1. writing # c /\ Seen(c).items = items /\ Seen(c).snapshot = commits
      BY <1>1, <2>1, ConnectionIs DEF Backed
    <3>2. \A table \in Tables(c)' : table = items
      BY <1>9, <2>1, <3>1
    <3> QED
      BY <1>1, <1>4, <1>5, <1>7, <3>1, <3>2 DEF Backed
  <2>2. CASE db[c].stack # <<>>
    <3>1. Seen(c) = db[c]
      BY <1>1, <2>2, ConnectionIs
    <3>2. \A table \in Tables(c)' : table \in Tables(c)
      BY <1>9, <3>1 DEF Tables
    <3> QED
      BY <1>1, <1>4, <1>5, <1>7, <2>2, <3>1, <3>2 DEF Backed
  <2> QED
    BY <2>1, <2>2
<1>11. ASSUME NEW d \in Dbs \ {c} PROVE Backed(d)'
  BY <1>1, <1>7, BackedStill
<1> QED
  BY <1>1, <1>8, <1>10, <1>11, ContinuesItself DEF Disk

LEMMA WaitingBacked ==
  ASSUME Disk, UNCHANGED <<items, blobs, writing, db>>,
         commits' = commits \/ (writing = NoWriter /\ commits' = commits + 1)
  PROVE  Disk' /\ Continues(items, items')
<1>1. DiskTyped' /\ items \in Seq(Rows)
  BY DEF Disk, DiskTyped
<1>2. \A d \in Dbs : Backed(d)'
  BY BackedStill, StoreBounds DEF StoreBounds
<1> QED
  BY <1>1, <1>2, ContinuesItself DEF Disk

-----------------------------------------------------------------------------
(* One call goes on.                                                       *)
LEMMA OneCall ==
  ASSUME Serving, NEW w \in Writers, NEW r \in Visits, Goes(w, r),
         NEW c \in Tools \union {NoCallYet}, NEW e \in Effects,
         call' = [call EXCEPT ![w] = c], effect' = [effect EXCEPT ![w] = e], UNCHANGED <<now, dbOf>>,
         txnDepth' \in [Dbs -> Int], Sound(r, c, e)
  PROVE  Serving'
<1>1. CallsTyped'
  BY DEF Serving, CallsTyped, Goes
<1>2. ASSUME NEW u \in Writers PROVE Underway(u)'
  <2>1. CASE u = w
    <3>1. txn'[w] = r /\ call'[w] = c /\ effect'[w] = e
      BY DEF Serving, CallsTyped, Goes
    <3> QED
      BY <2>1, <3>1 DEF Underway
  <2>2. CASE u # w
    <3>1. txn'[u] = txn[u] /\ call'[u] = call[u] /\ effect'[u] = effect[u]
      BY <2>2 DEF Serving, CallsTyped, Goes
    <3>2. Sound(txn[u], call[u], effect[u])
      BY DEF Serving, Underway
    <3> QED
      BY <3>1, <3>2 DEF Underway
  <2> QED
    BY <2>1, <2>2
<1> QED
  BY <1>1, <1>2 DEF Serving

LEMMA CallIs ==
  ASSUME Serving, NEW w \in Writers
  PROVE  /\ txn[w] \in Visits /\ txn[w].names \in Seq(Int) /\ txn[w].number \in Int /\ txn[w].moment \in 0 .. MaxTime
         /\ txn[w].at \in Stations /\ txn[w].held \in Nat
         /\ call[w] \in Tools \union {NoCallYet} /\ effect[w] \in Effects /\ Sound(txn[w], call[w], effect[w])
         /\ dbOf[w] \in Dbs /\ txnDepth[dbOf[w]] \in Int /\ txnDepth \in [Dbs -> Int] /\ NoTxn \in Visits
         /\ call = [call EXCEPT ![w] = call[w]] /\ effect = [effect EXCEPT ![w] = effect[w]]
         /\ txn = [txn EXCEPT ![w] = txn[w]]
         /\ txn[w].at # "none" => call[w] # NoCallYet /\ call[w] \in Tools
<1>1. /\ txn[w] \in Visits /\ call[w] \in Tools \union {NoCallYet} /\ effect[w] \in Effects
      /\ Sound(txn[w], call[w], effect[w]) /\ dbOf[w] \in Dbs /\ txnDepth[dbOf[w]] \in Int /\ txnDepth \in [Dbs -> Int]
      /\ call = [call EXCEPT ![w] = call[w]] /\ effect = [effect EXCEPT ![w] = effect[w]]
      /\ txn = [txn EXCEPT ![w] = txn[w]]
  BY DEF Serving, CallsTyped, Underway
<1>2. /\ txn[w].names \in Seq(Int) /\ txn[w].number \in Int /\ txn[w].moment \in 0 .. MaxTime /\ txn[w].held \in Nat
      /\ txn[w].at \in Stations
  BY <1>1 DEF Visits
<1>3. NoTxn \in Visits
  BY StoreBounds DEF NoTxn, Visits, Stations, StoreBounds
<1>4. txn[w].at # "none" => call[w] # NoCallYet
  BY <1>1 DEF Sound, NoTxn
<1> QED
  BY <1>1, <1>2, <1>3, <1>4

LEMMA LongerIs ==
  ASSUME NEW s \in Seq(Int), NEW n \in Int
  PROVE  Append(s, n) \in Seq(Int) /\ Append(s, n) # <<>> /\ Len(Append(s, n)) = Len(s) + 1
         /\ Append(s, n)[Len(s) + 1] = n /\ \A i \in 1 .. Len(s) : Append(s, n)[i] = s[i]
OBVIOUS

LEMMA ShorterIs ==
  ASSUME NEW s \in Seq(Int)
  PROVE  LET p == SubSeq(s, 1, Len(s) - 1)
         IN  /\ p \in Seq(Int)
             /\ s # <<>> => Len(p) = Len(s) - 1 /\ \A i \in 1 .. Len(s) - 1 : p[i] = s[i]
<1>1. Len(s) \in Nat /\ DOMAIN s = 1 .. Len(s)
  OBVIOUS
<1>2. CASE Len(s) = 0
  BY <1>2
<1>3. CASE Len(s) # 0
  <2>1. Len(s) - 1 \in 0 .. Len(s)
    BY <1>1, <1>3
  <2> DEFINE n == Len(s) - 1
  <2>2. n \in Nat /\ n <= Len(s) /\ \A i \in 1 .. n : s[i] \in Int
    BY <1>1, <2>1
  <2> HIDE DEF n
  <2>3. SubSeq(s, 1, n) \in Seq(Int) /\ Len(SubSeq(s, 1, n)) = n /\ \A i \in 1 .. n : SubSeq(s, 1, n)[i] = s[i]
    BY <2>2
  <2> QED
    BY <2>3 DEF n
<1> QED
  BY <1>1, <1>2, <1>3

(* The call fails.                                                         *)
LEMMA FailsServing ==
  ASSUME Serving, NEW w \in Writers, txn[w].at # "none", GoesWrong(w), UNCHANGED <<now, dbOf, call>>,
         txnDepth' \in [Dbs -> Int]
  PROVE  Serving'
<1>1. /\ txn[w] \in Visits /\ call[w] \in Tools /\ call[w] # NoCallYet /\ NoTxn \in Visits
      /\ call' = [call EXCEPT ![w] = call[w]] /\ Sound(txn[w], call[w], effect[w])
  BY CallIs
<1>2. effect' = [effect EXCEPT ![w] = "refused"] /\ "refused" \in Effects
  BY DEF GoesWrong, Effects
<1>3. CASE txn[w].names = <<>>
  <2>1. Goes(w, NoTxn)
    BY <1>3 DEF GoesWrong
  <2>2. Sound(NoTxn, call[w], "refused")
    BY <1>1 DEF Sound, NoTxn
  <2> QED
    BY <1>1, <1>2, <2>1, <2>2, OneCall
<1>4. CASE txn[w].names # <<>>
  <2> DEFINE r == [txn[w] EXCEPT !.at = "failed"]
  <2>1. Goes(w, r)
    BY <1>4 DEF GoesWrong, StandsAt
  <2>2. r \in Visits /\ r.at = "failed" /\ r.names = txn[w].names
    BY <1>1 DEF Visits, Stations
  <2> HIDE DEF r
  <2>3. Sound(r, call[w], "refused")
    BY <1>1, <1>4, <2>2 DEF Sound
  <2> QED
    BY <1>1, <1>2, <2>1, <2>2, <2>3, OneCall
<1> QED
  BY <1>3, <1>4

StoreKept == Disk /\ Serving
Ahead == Disk' /\ Serving' /\ Continues(items, items')

(* A step of one call, that is no statement.                               *)
LEMMA NoStatement ==
  ASSUME StoreKept, NEW w \in Writers, NEW r \in Visits, Goes(w, r), UNCHANGED <<storeVars, db, worldVars, call, effect>>,
         txnDepth' \in [Dbs -> Int], Sound(r, call[w], effect[w])
  PROVE  Ahead
<1>1. Disk' /\ Continues(items, items')
  BY WaitingBacked DEF StoreKept, storeVars
<1>2. Serving'
  BY CallIs, OneCall DEF StoreKept, worldVars
<1> QED
  BY <1>1, <1>2 DEF Ahead

LEMMA ServesKept ==
  ASSUME StoreKept, NEW w \in Writers, NEW tool \in Tools, Serves(w, tool)
  PROVE  Ahead
<1> DEFINE table == Seen(dbOf[w]).items
           held == {i \in DOMAIN table :
                      table[i].key = tool.key /\ table[i].from <= now /\ (table[i].to = Open \/ now < table[i].to)}
<1>1. /\ call[w] = NoCallYet /\ call' = [call EXCEPT ![w] = tool] /\ UNCHANGED <<storeVars, connVars, effect, now, dbOf>>
      /\ Disk /\ Serving /\ DiskTyped
  BY DEF Serves, StoreKept, Disk
<1>2. /\ dbOf[w] \in Dbs /\ effect[w] = "none" /\ txnDepth \in [Dbs -> Int]
      /\ effect = [effect EXCEPT ![w] = effect[w]] /\ txn[w] = NoTxn
  BY <1>1, CallIs DEF Sound
<1>3. PICK base \in IF tool.op = "put" /\ held # {} THEN {table[i].value : i \in held} ELSE {NoBase} :
        Goes(w, [NoTxn EXCEPT !.at = IF tool.op = "forget" THEN "prepare" ELSE "begin", !.base = base])
  BY DEF Serves
<1>4. base \in AnyValue \union {NoBase}
  <2>1. table \in Seq(Rows)
    BY <1>1, <1>2, ConnectionIs
  <2>2. \A i \in held : table[i] \in Rows
    BY <2>1
  <2> HIDE DEF table
  <2> QED
    BY <1>3, <2>2 DEF Rows
<1> HIDE DEF held
<1> DEFINE r == [NoTxn EXCEPT !.at = IF tool.op = "forget" THEN "prepare" ELSE "begin", !.base = base]
<1>5. /\ r \in Visits /\ r.at = IF tool.op = "forget" THEN "prepare" ELSE "begin"
      /\ r.names = <<>>
  <2>1. NoTxn \in Visits /\ NoTxn.names = <<>>
    BY <1>1, CallIs DEF NoTxn
  <2> HIDE DEF NoTxn
  <2> QED
    BY <1>4, <2>1 DEF Visits, Stations
<1> HIDE DEF r
<1>6. tool # NoCallYet /\ tool.op \in {"put", "remember", "forget"}
  BY DEF Tools, NoCallYet
<1>7. Sound(r, tool, "none")
  BY <1>5, <1>6 DEF Sound
<1>8. Serving'
  <2>1. Goes(w, r) /\ UNCHANGED <<now, dbOf>> /\ txnDepth' \in [Dbs -> Int] /\ "none" \in Effects
    BY <1>1, <1>2, <1>3 DEF r, connVars, Effects
  <2>2. effect' = [effect EXCEPT ![w] = "none"]
    BY <1>1, <1>2
  <2> QED
    BY <1>1, <1>5, <1>7, <2>1, <2>2, OneCall
<1>9. Disk' /\ Continues(items, items')
  BY <1>1, WaitingBacked DEF storeVars, connVars
<1> QED
  BY <1>8, <1>9 DEF Ahead

LEMMA NumbersKept ==
  ASSUME StoreKept, NEW w \in Writers, Numbers(w)
  PROVE  Ahead
<1> DEFINE r == [txn[w] EXCEPT !.at = "open", !.number = txnDepth[dbOf[w]]]
<1>1. txn[w].at = "begin" /\ Goes(w, r) /\ UNCHANGED <<storeVars, connVars, worldVars, call, effect>> /\ Serving
  BY DEF Numbers, StoreKept
<1>2. txn[w] \in Visits /\ txnDepth[dbOf[w]] \in Int /\ Sound(txn[w], call[w], effect[w]) /\ txnDepth \in [Dbs -> Int]
  BY <1>1, CallIs
<1>3. r \in Visits /\ r.at = "open" /\ r.names = txn[w].names
  BY <1>2 DEF Visits, Stations
<1> HIDE DEF r
<1>4. Sound(r, call[w], effect[w])
  BY <1>1, <1>2, <1>3 DEF Sound, NoTxn
<1> QED
  BY <1>1, <1>2, <1>3, <1>4, NoStatement DEF connVars

LEMMA OpensKept ==
  ASSUME StoreKept, NEW w \in Writers, OpensTxn(w)
  PROVE  Ahead
<1> DEFINE c == dbOf[w]
           name == txn[w].number
           first == txn[w].names = <<>>
           r == [txn[w] EXCEPT !.at = IF first /\ call[w].op = "put" THEN "blob" ELSE "look",
                               !.names = Append(@, name), !.number = 0]
<1>1. /\ txn[w].at = "open" /\ txnDepth' = [txnDepth EXCEPT ![c] = name + 1] /\ UNCHANGED <<storeVars, worldVars, call>>
      /\ Disk /\ Serving
  BY DEF OpensTxn, StoreKept
<1>2. /\ txn[w] \in Visits /\ name \in Int /\ c \in Dbs /\ Sound(txn[w], call[w], effect[w]) /\ txnDepth \in [Dbs -> Int]
      /\ txn[w].names \in Seq(Int) /\ call[w] # NoCallYet /\ call[w] \in Tools
      /\ effect = [effect EXCEPT ![w] = effect[w]] /\ call = [call EXCEPT ![w] = call[w]] /\ effect[w] \in Effects
  BY <1>1, CallIs
<1>3. txnDepth' \in [Dbs -> Int]
  BY <1>1, <1>2
<1>4. CASE name < 0
  <2>1. GoesWrong(w) /\ UNCHANGED db
    BY <1>4 DEF OpensTxn
  <2>2. Serving'
    BY <1>1, <1>3, <2>1, FailsServing DEF worldVars
  <2>3. Disk' /\ Continues(items, items')
    BY <1>1, <2>1, WaitingBacked DEF storeVars
  <2> QED
    BY <2>2, <2>3 DEF Ahead
<1>5. CASE ~(name < 0)
  <2>1. /\ db' = [db EXCEPT ![c] = [Seen(c) EXCEPT !.stack =
                    Append(@, [name |-> name, items |-> Seen(c).items, blobs |-> Seen(c).blobs])]]
        /\ Goes(w, r) /\ UNCHANGED effect
    BY <1>5 DEF OpensTxn
  <2>2. Disk' /\ Continues(items, items')
    BY <1>1, <1>2, <2>1, OpenedBacked
  <2>3. Append(txn[w].names, name) \in Seq(Int) /\ Append(txn[w].names, name) # <<>>
    BY <1>2, LongerIs
  <2> DEFINE more == Append(txn[w].names, name)
             place == IF first /\ call[w].op = "put" THEN "blob" ELSE "look"
  <2> HIDE DEF more, place
  <2>4. /\ r \in Visits /\ r.names # <<>>
        /\ r.at = IF first /\ call[w].op = "put" THEN "blob" ELSE "look"
    <3>1. place \in Stations /\ r = [txn[w] EXCEPT !.at = place, !.names = more, !.number = 0]
      BY DEF Stations, place, more
    <3>2. more \in Seq(Int) /\ more # <<>>
      BY <2>3 DEF more
    <3> HIDE DEF r
    <3>3. 0 \in Int
      OBVIOUS
    <3>4. r \in Visits
      BY <1>2, <3>1, <3>2, <3>3 DEF Visits
    <3>5. r.names = more /\ r.at = place
      BY <1>2, <3>1, <3>2, <3>3 DEF Visits
    <3> QED
      BY <3>2, <3>4, <3>5 DEF place
  <2> HIDE DEF r
  <2>5. Sound(r, call[w], effect[w])
    BY <1>1, <1>2, <2>4 DEF Sound, NoTxn
  <2>6. Serving'
    BY <1>1, <1>2, <1>3, <2>1, <2>4, <2>5, OneCall DEF worldVars
  <2> QED
    BY <2>2, <2>6 DEF Ahead
<1> QED
  BY <1>4, <1>5

LEMMA NewBlobIs ==
  ASSUME NEW table \in SUBSET Blobs, NEW base, NEW hash \in Contents, StoreBounds
  PROVE  LET b == NewBlob(table, base, hash)
         IN  b \in Blobs /\ b.hash = hash /\ FitsOn(b, table)
<1> DEFINE b == NewBlob(table, base, hash)
           on == Blob(table, base)
<1>1. CASE Follows(table, base)
  <2>1. on \in table /\ on.hash = base
    BY <1>1 DEF Follows, IsStored, Blob
  <2>2. on.depth \in 0 .. MaxChain /\ on.depth < MaxChain /\ base \in Contents
    BY <1>1, <2>1 DEF Follows, ChainsOn, Blobs
  <2>3. b = [hash |-> hash, base |-> base, depth |-> on.depth + 1]
    BY <1>1 DEF NewBlob
  <2>4. on.depth + 1 \in 0 .. MaxChain /\ on.depth < on.depth + 1
    BY <2>2 DEF StoreBounds
  <2> HIDE DEF on
  <2>5. b \in Blobs /\ b.hash = hash /\ b.base = base /\ on.depth < b.depth
    BY <2>2, <2>3, <2>4 DEF Blobs, AnyValue
  <2> HIDE DEF b
  <2> QED
    BY <2>1, <2>5 DEF FitsOn, b
<1>2. CASE ~Follows(table, base)
  <2>1. b = [hash |-> hash, base |-> NoBase, depth |-> 0]
    BY <1>2 DEF NewBlob
  <2> QED
    BY <2>1 DEF Blobs, FitsOn, StoreBounds
<1> QED
  BY <1>1, <1>2

LEMMA PutsKept ==
  ASSUME StoreKept, NEW w \in Writers, PutsBlob(w)
  PROVE  Ahead
<1> DEFINE c == dbOf[w]
           table == Seen(c).blobs
           b == NewBlob(table, txn[w].base, call[w].value)
           r == [txn[w] EXCEPT !.at = "begin", !.base = NoBase]
           s == [txn[w] EXCEPT !.at = "insert", !.base = NoBase, !.blob = b]
<1>1. txn[w].at = "blob" /\ UNCHANGED <<storeVars, connVars, worldVars, call, effect>> /\ Serving /\ DiskTyped
  BY DEF PutsBlob, StoreKept, Disk
<1>2. /\ txn[w] \in Visits /\ c \in Dbs /\ Sound(txn[w], call[w], effect[w]) /\ txnDepth \in [Dbs -> Int]
      /\ call[w] \in Tools /\ call[w] # NoCallYet /\ call[w].op = "put"
  BY <1>1, CallIs DEF Sound
<1>3. call[w].value \in Contents /\ table \in SUBSET Blobs
  BY <1>1, <1>2, ConnectionIs DEF Tools
<1>4. CASE IsStored(table, call[w].value)
  <2>1. Goes(w, r)
    BY <1>4 DEF PutsBlob
  <2>2. r \in Visits /\ r.at = "begin" /\ r.names = txn[w].names
    BY <1>2 DEF Visits, Stations
  <2> HIDE DEF r
  <2>3. Sound(r, call[w], effect[w])
    BY <1>1, <1>2, <2>2 DEF Sound
  <2> QED
    BY <1>1, <1>2, <2>1, <2>2, <2>3, NoStatement DEF connVars
<1>5. CASE ~IsStored(table, call[w].value)
  <2>1. Goes(w, s)
    BY <1>5 DEF PutsBlob
  <2>2. b \in Blobs /\ b.hash = call[w].value
    BY <1>3, NewBlobIs, StoreBounds
  <2> HIDE DEF b
  <2>3. s \in Visits /\ s.at = "insert" /\ s.names = txn[w].names /\ s.blob = b
    BY <1>2, <2>2 DEF Visits, Stations
  <2> HIDE DEF s
  <2>4. Sound(s, call[w], effect[w])
    BY <1>1, <1>2, <2>2, <2>3 DEF Sound
  <2> QED
    BY <1>1, <1>2, <2>1, <2>3, <2>4, NoStatement DEF connVars
<1> QED
  BY <1>4, <1>5

(* A statement, or a savepoint ended.                                      *)
LEMMA Statement ==
  ASSUME StoreKept, NEW w \in Writers, NEW r \in Visits, Goes(w, r), UNCHANGED <<worldVars, call>>,
         txnDepth' \in [Dbs -> Int], NEW e \in Effects, effect' = [effect EXCEPT ![w] = e], Sound(r, call[w], e),
         Disk' /\ Continues(items, items')
  PROVE  Ahead
<1>1. Serving'
  BY CallIs, OneCall DEF StoreKept, worldVars
<1> QED
  BY <1>1 DEF Ahead

LEMMA InsertsKept ==
  ASSUME StoreKept, NEW w \in Writers, InsertsBlob(w)
  PROVE  Ahead
<1> DEFINE c == dbOf[w]
           r == [txn[w] EXCEPT !.at = "begin", !.blob = NoBlob]
           more == Seen(c).blobs \union {txn[w].blob}
<1>1. /\ txn[w].at = "insert" /\ Writes(c, Seen(c).items, more) /\ Goes(w, r)
      /\ UNCHANGED <<txnDepth, worldVars, call, effect>> /\ Serving /\ Disk /\ DiskTyped
  BY DEF InsertsBlob, StoreKept, Disk
<1>2. /\ txn[w] \in Visits /\ c \in Dbs /\ Sound(txn[w], call[w], effect[w]) /\ txnDepth \in [Dbs -> Int]
      /\ effect = [effect EXCEPT ![w] = effect[w]] /\ effect[w] \in Effects
  BY <1>1, CallIs
<1>3. Seen(c).items \in Seq(Rows) /\ more \in SUBSET Blobs
  BY <1>1, <1>2, ConnectionIs DEF Sound, NoTxn
<1>4. Disk' /\ Continues(items, items')
  <2>1. Continues(Seen(c).items, Seen(c).items)
    BY <1>3, ContinuesItself
  <2> HIDE DEF more
  <2> QED
    BY <1>1, <1>2, <1>3, <2>1, WritesBacked
<1>5. r \in Visits /\ r.at = "begin" /\ r.names = txn[w].names
  BY <1>2 DEF Visits, Stations
<1> HIDE DEF r
<1>6. Sound(r, call[w], effect[w])
  BY <1>1, <1>2, <1>5 DEF Sound, NoTxn
<1> QED
  BY <1>1, <1>2, <1>4, <1>5, <1>6, Statement

LEMMA LooksKept ==
  ASSUME StoreKept, NEW w \in Writers, Looks(w)
  PROVE  Ahead
<1> DEFINE table == Seen(dbOf[w]).items
           rows == OpenRows(table, call[w].key)
<1>1. txn[w].at = "look" /\ UNCHANGED <<storeVars, connVars, worldVars, call, effect>> /\ Serving /\ DiskTyped
  BY DEF Looks, StoreKept, Disk
<1>2. /\ txn[w] \in Visits /\ dbOf[w] \in Dbs /\ Sound(txn[w], call[w], effect[w]) /\ txnDepth \in [Dbs -> Int]
  BY <1>1, CallIs
<1>3. PICK held \in IF rows = {} THEN {0} ELSE rows :
        Goes(w, [txn[w] EXCEPT !.held = held, !.moment = now,
                   !.at = IF held = 0 THEN "add"
                          ELSE IF table[held].value = call[w].value THEN "release" ELSE "close"])
  BY DEF Looks
<1>4. held \in Nat /\ now \in 0 .. MaxTime
  <2>1. table \in Seq(Rows)
    BY <1>1, <1>2, ConnectionIs
  <2>2. \A i \in rows : i \in Nat
    BY <2>1 DEF OpenRows
  <2> HIDE DEF rows
  <2> QED
    BY <1>1, <1>3, <2>2 DEF Serving, CallsTyped
<1> DEFINE place == IF held = 0 THEN "add" ELSE IF table[held].value = call[w].value THEN "release" ELSE "close"
           r == [txn[w] EXCEPT !.held = held, !.moment = now, !.at = place]
<1>5. place \in {"add", "release", "close"} /\ place \in Stations
  BY DEF Stations
<1>6. Goes(w, r)
  BY <1>3
<1> HIDE DEF place
<1>7. r \in Visits /\ r.at = place /\ r.names = txn[w].names
  BY <1>2, <1>4, <1>5 DEF Visits
<1> HIDE DEF r
<1>8. Sound(r, call[w], effect[w])
  BY <1>1, <1>2, <1>5, <1>7 DEF Sound, NoTxn
<1> QED
  BY <1>1, <1>2, <1>6, <1>7, <1>8, NoStatement DEF connVars

LEMMA ClosesKept ==
  ASSUME StoreKept, NEW w \in Writers, ClosesHeld(w)
  PROVE  Ahead
<1> DEFINE c == dbOf[w]
           held == txn[w].held
           more == [Seen(c).items EXCEPT ![held] = [@ EXCEPT !.to = txn[w].moment]]
           r == [txn[w] EXCEPT !.at = "add"]
<1>1. /\ txn[w].at = "close" /\ Goes(w, r) /\ UNCHANGED <<txnDepth, worldVars, call, effect>>
      /\ Serving /\ Disk /\ DiskTyped
  BY DEF ClosesHeld, StandsAt, StoreKept, Disk
<1>2. /\ txn[w] \in Visits /\ c \in Dbs /\ Sound(txn[w], call[w], effect[w]) /\ txnDepth \in [Dbs -> Int]
      /\ txn[w].moment \in 0 .. MaxTime
      /\ effect = [effect EXCEPT ![w] = effect[w]] /\ effect[w] \in Effects
  BY <1>1, CallIs
<1>3. Disk' /\ Continues(items, items')
  <2>1. CASE held \in DOMAIN Seen(c).items
    <3>1. Writes(c, more, Seen(c).blobs)
      BY <2>1 DEF ClosesHeld
    <3>2. Seen(c).items \in Seq(Rows) /\ Seen(c).blobs \in SUBSET Blobs
      BY <1>1, <1>2, ConnectionIs
    <3>3. more = RowClosed(Seen(c).items, held, txn[w].moment)
      BY <2>1, <3>2, RowIs DEF RowClosed
    <3>4. more \in Seq(Rows) /\ Continues(Seen(c).items, more)
      <4>1. held \in {0} \union DOMAIN Seen(c).items
        BY <2>1
      <4> HIDE DEF more, held
      <4> QED
        BY <1>2, <3>2, <3>3, <4>1, ClosedIs, ClosedContinues, StoreBounds
    <3> HIDE DEF more
    <3> QED
      BY <1>1, <1>2, <3>1, <3>2, <3>4, WritesBacked
  <2>2. CASE held \notin DOMAIN Seen(c).items
    <3>1. WritesNothing(c)
      BY <2>2 DEF ClosesHeld
    <3> QED
      BY <1>1, <1>2, <3>1, NothingBacked
  <2> QED
    BY <2>1, <2>2
<1>4. r \in Visits /\ r.at = "add" /\ r.names = txn[w].names
  BY <1>2 DEF Visits, Stations
<1> HIDE DEF r
<1>5. Sound(r, call[w], effect[w])
  BY <1>1, <1>2, <1>4 DEF Sound, NoTxn
<1> QED
  BY <1>1, <1>2, <1>3, <1>4, <1>5, Statement

LEMMA AddsKept ==
  ASSUME StoreKept, NEW w \in Writers, Adds(w)
  PROVE  Ahead
<1> DEFINE c == dbOf[w]
           more == Added(Seen(c).items, call[w], txn[w].moment)
           r == [txn[w] EXCEPT !.at = "release"]
<1>1. /\ txn[w].at = "add" /\ Goes(w, r) /\ Writes(c, more, Seen(c).blobs)
      /\ UNCHANGED <<txnDepth, worldVars, call, effect>> /\ Serving /\ Disk /\ DiskTyped
  BY DEF Adds, StandsAt, StoreKept, Disk, Added
<1>2. /\ txn[w] \in Visits /\ c \in Dbs /\ Sound(txn[w], call[w], effect[w]) /\ txnDepth \in [Dbs -> Int]
      /\ txn[w].moment \in 0 .. MaxTime /\ call[w] \in Tools
      /\ effect = [effect EXCEPT ![w] = effect[w]] /\ effect[w] \in Effects
  BY <1>1, CallIs
<1>3. Disk' /\ Continues(items, items')
  <2>1. Seen(c).items \in Seq(Rows) /\ Seen(c).blobs \in SUBSET Blobs /\ call[w].op \in {"put", "remember"}
    BY <1>1, <1>2, ConnectionIs DEF Sound, NoTxn
  <2>2. more \in Seq(Rows) /\ Continues(Seen(c).items, more)
    BY <1>2, <2>1, AddedIs, AddedContinues
  <2> HIDE DEF more
  <2> QED
    BY <1>1, <1>2, <2>1, <2>2, WritesBacked
<1>4. r \in Visits /\ r.at = "release" /\ r.names = txn[w].names
  BY <1>2 DEF Visits, Stations
<1> HIDE DEF r
<1>5. Sound(r, call[w], effect[w])
  BY <1>1, <1>2, <1>4 DEF Sound, NoTxn
<1> QED
  BY <1>1, <1>2, <1>3, <1>4, <1>5, Statement

LEMMA ReleasesKept ==
  ASSUME StoreKept, NEW w \in Writers, Releases(w)
  PROVE  Ahead
<1> DEFINE c == dbOf[w]
           rest == SubSeq(txn[w].names, 1, Len(txn[w].names) - 1)
           r == [txn[w] EXCEPT !.at = "leave", !.names = rest, !.number = txnDepth[c]]
           e == IF rest = <<>> THEN "done" ELSE effect[w]
<1>1. /\ txn[w].at = "release" /\ Savepoints(c, Innermost(w)) # {} /\ Release(c, Innermost(w)) /\ Goes(w, r)
      /\ effect' = IF rest = <<>> THEN [effect EXCEPT ![w] = "done"] ELSE effect
      /\ UNCHANGED <<txnDepth, worldVars, call>> /\ Serving /\ Disk /\ DiskTyped
  BY DEF Releases, StoreKept, Disk
<1>2. /\ txn[w] \in Visits /\ c \in Dbs /\ Sound(txn[w], call[w], effect[w]) /\ txnDepth \in [Dbs -> Int]
      /\ txn[w].names \in Seq(Int) /\ txnDepth[c] \in Int
      /\ effect = [effect EXCEPT ![w] = effect[w]] /\ effect[w] \in Effects
  BY <1>1, CallIs
<1>3. Disk' /\ Continues(items, items')
  BY <1>1, <1>2, ReleaseBacked
<1>4. rest \in Seq(Int)
  BY <1>2, ShorterIs
<1> HIDE DEF rest
<1>5. e \in Effects /\ effect' = [effect EXCEPT ![w] = e] /\ effect[w] = "none"
  BY <1>1, <1>2 DEF Effects, Sound
<1>6. r \in Visits /\ r.at = "leave" /\ r.names = rest
  BY <1>2, <1>4 DEF Visits, Stations
<1> HIDE DEF r
<1>7. Sound(r, call[w], e)
  BY <1>1, <1>2, <1>5, <1>6 DEF Sound, NoTxn
<1> HIDE DEF e
<1> QED
  BY <1>1, <1>2, <1>3, <1>5, <1>6, <1>7, Statement

LEMMA LeavesKept ==
  ASSUME StoreKept, NEW w \in Writers, Leaves(w)
  PROVE  Ahead
<1> DEFINE r == [txn[w] EXCEPT !.at = "release", !.number = 0]
<1>1. /\ txn[w].at = "leave" /\ txnDepth' = [txnDepth EXCEPT ![dbOf[w]] = txn[w].number - 1]
      /\ Goes(w, IF txn[w].names = <<>> THEN NoTxn ELSE r)
      /\ UNCHANGED <<storeVars, db, worldVars, call, effect>> /\ Serving
  BY DEF Leaves, StoreKept
<1>2. /\ txn[w] \in Visits /\ Sound(txn[w], call[w], effect[w]) /\ txnDepth \in [Dbs -> Int] /\ NoTxn \in Visits
      /\ txn[w].number \in Int /\ dbOf[w] \in Dbs /\ call[w] # NoCallYet
  BY <1>1, CallIs
<1>3. txnDepth' \in [Dbs -> Int]
  BY <1>1, <1>2
<1>4. CASE txn[w].names = <<>>
  <2>1. Goes(w, NoTxn)
    BY <1>1, <1>4
  <2>2. Sound(NoTxn, call[w], effect[w])
    BY <1>1, <1>2, <1>4 DEF Sound, NoTxn
  <2> QED
    BY <1>1, <1>2, <1>3, <2>1, <2>2, NoStatement
<1>5. CASE txn[w].names # <<>>
  <2>1. Goes(w, r)
    BY <1>1, <1>5
  <2>0. 0 \in Int
    OBVIOUS
  <2>2. r \in Visits /\ r.at = "release" /\ r.names = txn[w].names
    BY <1>2, <2>0 DEF Visits, Stations
  <2> HIDE DEF r
  <2>3. Sound(r, call[w], effect[w])
    BY <1>1, <1>2, <1>5, <2>2 DEF Sound, NoTxn
  <2> QED
    BY <1>1, <1>2, <1>3, <2>1, <2>2, <2>3, NoStatement
<1> QED
  BY <1>4, <1>5

LEMMA ThrowsKept ==
  ASSUME StoreKept, NEW w \in Writers, Throws(w)
  PROVE  Ahead
<1>1. /\ txn[w].at # "none" /\ GoesWrong(w) /\ UNCHANGED <<storeVars, connVars, worldVars, call>> /\ Disk /\ Serving
  BY DEF Throws, StoreKept
<1>2. Serving'
  BY <1>1, CallIs, FailsServing DEF connVars, worldVars
<1>3. Disk' /\ Continues(items, items')
  BY <1>1, WaitingBacked DEF storeVars, connVars
<1> QED
  BY <1>2, <1>3 DEF Ahead

LEMMA UnwindsKept ==
  ASSUME StoreKept, NEW w \in Writers, Unwinds(w)
  PROVE  Ahead
<1> DEFINE r == [txn[w] EXCEPT !.at = "undo", !.number = txnDepth[dbOf[w]]]
<1>1. txn[w].at = "failed" /\ Goes(w, r) /\ UNCHANGED <<storeVars, connVars, worldVars, call, effect>> /\ Serving
  BY DEF Unwinds, StoreKept
<1>2. txn[w] \in Visits /\ txnDepth[dbOf[w]] \in Int /\ Sound(txn[w], call[w], effect[w]) /\ txnDepth \in [Dbs -> Int]
  BY <1>1, CallIs
<1>3. r \in Visits /\ r.at = "undo" /\ r.names = txn[w].names
  BY <1>2 DEF Visits, Stations
<1> HIDE DEF r
<1>4. Sound(r, call[w], effect[w])
  BY <1>1, <1>2, <1>3 DEF Sound, NoTxn
<1> QED
  BY <1>1, <1>2, <1>3, <1>4, NoStatement DEF connVars

LEMMA UndoesKept ==
  ASSUME StoreKept, NEW w \in Writers, Undoes(w)
  PROVE  Ahead
<1> DEFINE rest == SubSeq(txn[w].names, 1, Len(txn[w].names) - 1)
           r == [txn[w] EXCEPT !.at = "failed", !.names = rest, !.number = 0]
           s == IF rest = <<>> THEN NoTxn ELSE r
<1>1. /\ txn[w].at = "undo" /\ Rollback(dbOf[w], Innermost(w)) /\ Goes(w, s)
      /\ txnDepth' = [txnDepth EXCEPT ![dbOf[w]] = txn[w].number - 1]
      /\ UNCHANGED <<items, blobs, commits, worldVars, call, effect>> /\ Serving /\ Disk
  BY DEF Undoes, StoreKept
<1>2. /\ txn[w] \in Visits /\ Sound(txn[w], call[w], effect[w]) /\ txnDepth \in [Dbs -> Int] /\ NoTxn \in Visits
      /\ txn[w].number \in Int /\ dbOf[w] \in Dbs /\ call[w] # NoCallYet /\ txn[w].names \in Seq(Int)
      /\ effect = [effect EXCEPT ![w] = effect[w]] /\ effect[w] \in Effects
  BY <1>1, CallIs
<1>3. txnDepth' \in [Dbs -> Int] /\ 0 \in Int
  BY <1>1, <1>2
<1>4. Disk' /\ Continues(items, items')
  BY <1>1, <1>2, RollbackBacked
<1>5. rest \in Seq(Int)
  BY <1>2, ShorterIs
<1> HIDE DEF rest
<1>6. r \in Visits /\ r.at = "failed" /\ r.names = rest
  BY <1>2, <1>3, <1>5 DEF Visits, Stations
<1> HIDE DEF r
<1>7. s \in Visits /\ Sound(s, call[w], effect[w])
  BY <1>1, <1>2, <1>6 DEF Sound, NoTxn
<1> HIDE DEF s
<1> QED
  BY <1>1, <1>2, <1>3, <1>4, <1>7, Statement

LEMMA PreparesKept ==
  ASSUME StoreKept, NEW w \in Writers, Prepares(w)
  PROVE  Ahead
<1> DEFINE r == [txn[w] EXCEPT !.at = "forget", !.moment = now]
<1>1. /\ txn[w].at = "prepare" /\ Goes(w, r) /\ UNCHANGED <<storeVars, connVars, worldVars, call, effect>>
      /\ Serving /\ now \in 0 .. MaxTime
  BY DEF Prepares, StoreKept, Serving, CallsTyped
<1>2. txn[w] \in Visits /\ Sound(txn[w], call[w], effect[w]) /\ txnDepth \in [Dbs -> Int]
  BY <1>1, CallIs
<1>3. r \in Visits /\ r.at = "forget" /\ r.names = txn[w].names
  BY <1>1, <1>2 DEF Visits, Stations
<1> HIDE DEF r
<1>4. Sound(r, call[w], effect[w])
  BY <1>1, <1>2, <1>3 DEF Sound, NoTxn
<1> QED
  BY <1>1, <1>2, <1>3, <1>4, NoStatement DEF connVars

LEMMA ForgetsKept ==
  ASSUME StoreKept, NEW w \in Writers, Forgets(w)
  PROVE  Ahead
<1> DEFINE c == dbOf[w]
           rows == OpenRows(Seen(c).items, call[w].key)
           more == AllClosed(Seen(c).items, rows, txn[w].moment)
<1>1. /\ txn[w].at = "forget" /\ Goes(w, NoTxn) /\ effect' = [effect EXCEPT ![w] = "done"]
      /\ IF rows = {} THEN WritesNothing(c) ELSE Writes(c, more, Seen(c).blobs)
      /\ UNCHANGED <<txnDepth, worldVars, call>> /\ Serving /\ Disk /\ DiskTyped
  BY DEF Forgets, StoreKept, Disk, AllClosed
<1>2. /\ c \in Dbs /\ Sound(txn[w], call[w], effect[w]) /\ txnDepth \in [Dbs -> Int] /\ NoTxn \in Visits
      /\ txn[w].moment \in 0 .. MaxTime /\ call[w] # NoCallYet
  BY <1>1, CallIs
<1>3. Disk' /\ Continues(items, items')
  <2>1. Seen(c).items \in Seq(Rows) /\ Seen(c).blobs \in SUBSET Blobs
    BY <1>1, <1>2, ConnectionIs
  <2> HIDE DEF rows
  <2>2. more \in Seq(Rows) /\ Continues(Seen(c).items, more)
    BY <1>2, <2>1, AllClosedIs, AllClosedContinues, StoreBounds
  <2> HIDE DEF more
  <2> QED
    BY <1>1, <1>2, <2>1, <2>2, WritesBacked, NothingBacked
<1>4. Sound(NoTxn, call[w], "done") /\ "done" \in Effects
  BY <1>1, <1>2 DEF Sound, NoTxn, Effects
<1> QED
  BY <1>1, <1>2, <1>3, <1>4, Statement

LEMMA AnswersKept ==
  ASSUME StoreKept, NEW w \in Writers, Answers(w)
  PROVE  Ahead
<1>1. /\ txn[w] = NoTxn /\ call' = [call EXCEPT ![w] = NoCallYet] /\ effect' = [effect EXCEPT ![w] = "none"]
      /\ UNCHANGED <<storeVars, connVars, worldVars, txn>> /\ Serving /\ Disk
  BY DEF Answers, StoreKept
<1>2. NoTxn \in Visits /\ Goes(w, NoTxn) /\ "none" \in Effects /\ txnDepth' \in [Dbs -> Int]
  BY <1>1, CallIs DEF Goes, Effects, connVars
<1>3. Sound(NoTxn, NoCallYet, "none")
  BY DEF Sound, NoTxn
<1>4. Serving'
  BY <1>1, <1>2, <1>3, OneCall DEF worldVars
<1>5. Disk' /\ Continues(items, items')
  BY <1>1, WaitingBacked DEF storeVars, connVars
<1> QED
  BY <1>4, <1>5 DEF Ahead

LEMMA KilledKept ==
  ASSUME StoreKept, NEW c \in Dbs, Killed(c)
  PROVE  Ahead
<1>1. /\ db' = [db EXCEPT ![c] = NotInTxn] /\ txnDepth' = [txnDepth EXCEPT ![c] = 0]
      /\ writing' = IF writing = c THEN NoWriter ELSE writing
      /\ call' = [w \in Writers |-> IF dbOf[w] = c THEN NoCallYet ELSE call[w]]
      /\ txn' = [w \in Writers |-> IF dbOf[w] = c THEN NoTxn ELSE txn[w]]
      /\ effect' = [w \in Writers |-> IF dbOf[w] = c THEN "none" ELSE effect[w]]
      /\ UNCHANGED <<items, blobs, commits, worldVars>> /\ Serving /\ Disk
  BY DEF Killed, StoreKept
<1>2. Disk' /\ Continues(items, items')
  BY <1>1, LeftBacked, StoreBounds DEF StoreBounds
<1>3. ASSUME NEW w \in Writers
      PROVE  /\ txn'[w] \in Visits /\ call'[w] \in Tools \union {NoCallYet} /\ effect'[w] \in Effects
             /\ Sound(txn'[w], call'[w], effect'[w])
  <2>1. CASE dbOf[w] = c
    <3>1. txn'[w] = NoTxn /\ call'[w] = NoCallYet /\ effect'[w] = "none"
      BY <1>1, <2>1
    <3> QED
      BY <1>1, <3>1, CallIs DEF Sound, NoTxn, Effects
  <2>2. CASE dbOf[w] # c
    <3>1. txn'[w] = txn[w] /\ call'[w] = call[w] /\ effect'[w] = effect[w]
      BY <1>1, <2>2
    <3> QED
      BY <1>1, <3>1, CallIs
  <2> QED
    BY <2>1, <2>2
<1>4. CallsTyped'
  <2>1. now' \in 0 .. MaxTime /\ dbOf' \in [Writers -> Dbs] /\ txnDepth' \in [Dbs -> Int]
    BY <1>1 DEF worldVars, Serving, CallsTyped
  <2>2. call' \in [Writers -> Tools \union {NoCallYet}]
    BY <1>1, <1>3
  <2>3. txn' \in [Writers -> Visits]
    BY <1>1, <1>3
  <2>4. effect' \in [Writers -> Effects]
    BY <1>1, <1>3
  <2> QED
    BY <2>1, <2>2, <2>3, <2>4 DEF CallsTyped
<1>5. Serving'
  BY <1>3, <1>4 DEF Serving, Underway
<1> QED
  BY <1>2, <1>5 DEF Ahead

LEMMA OthersKept ==
  ASSUME StoreKept, JournalsTurn \/ Tick
  PROVE  Ahead
<1>1. Disk /\ Serving /\ (commits' = commits \/ (writing = NoWriter /\ commits' = commits + 1))
  BY DEF StoreKept, JournalsTurn, Tick, storeVars
<1>2. UNCHANGED <<items, blobs, writing, connVars, callVars, dbOf>> /\ now' \in 0 .. MaxTime
  BY DEF StoreKept, JournalsTurn, Tick, storeVars, worldVars, Serving, CallsTyped
<1>3. Serving'
  <2>1. UNCHANGED <<txnDepth, call, txn, effect, dbOf>>
    BY <1>2 DEF connVars, callVars
  <2>2. CallsTyped'
    BY <1>2, <2>1 DEF StoreKept, Serving, CallsTyped
  <2> QED
    BY <2>1, <2>2 DEF StoreKept, Serving, Underway
<1>4. Disk' /\ Continues(items, items')
  BY <1>1, <1>2, WaitingBacked DEF StoreKept, connVars
<1> QED
  BY <1>3, <1>4 DEF Ahead

LEMMA StoreKeptNext == StoreKept /\ [FactNext]_factVars => Ahead
<1> SUFFICES ASSUME StoreKept, [FactNext]_factVars PROVE Ahead
  OBVIOUS
<1>1. ASSUME NEW w \in Writers, NEW tool \in Tools, Serves(w, tool) PROVE Ahead
  BY <1>1, ServesKept
<1>2. ASSUME NEW w \in Writers,
             \/ Numbers(w) \/ OpensTxn(w) \/ PutsBlob(w) \/ InsertsBlob(w) \/ Looks(w) \/ ClosesHeld(w) \/ Adds(w)
             \/ Releases(w) \/ Leaves(w) \/ Throws(w) \/ Unwinds(w) \/ Undoes(w)
             \/ Prepares(w) \/ Forgets(w) \/ Answers(w)
      PROVE  Ahead
  BY <1>2, NumbersKept, OpensKept, PutsKept, InsertsKept, LooksKept, ClosesKept, AddsKept, ReleasesKept, LeavesKept,
     ThrowsKept, UnwindsKept, UndoesKept, PreparesKept, ForgetsKept, AnswersKept
<1>3. ASSUME NEW c \in Dbs, Killed(c) PROVE Ahead
  BY <1>3, KilledKept
<1>4. CASE JournalsTurn \/ Tick
  BY <1>4, OthersKept
<1>5. CASE UNCHANGED factVars
  <2>1. Disk' /\ Continues(items, items')
    BY <1>5, WaitingBacked DEF factVars, StoreKept
  <2>2. Serving'
    BY <1>5 DEF factVars, StoreKept, Serving, CallsTyped, Underway
  <2> QED
    BY <2>1, <2>2 DEF Ahead
<1> QED
  BY <1>1, <1>2, <1>3, <1>4, <1>5 DEF FactNext

LEMMA StoreKeptInit == FactInit => StoreKept
<1> SUFFICES ASSUME FactInit PROVE StoreKept
  OBVIOUS
<1>1. DiskTyped
  BY DEF FactInit, DiskTyped, Connections, NotInTxn
<1>2. ASSUME NEW c \in Dbs PROVE Backed(c)
  <2>1. writing = NoWriter /\ db[c] = NotInTxn
    BY DEF FactInit
  <2> QED
    BY <2>1, StoreBounds DEF Backed, NotInTxn, StoreBounds
<1>3. CallsTyped
  <2>1. NoTxn \in Visits
    BY StoreBounds DEF NoTxn, Visits, Stations, StoreBounds
  <2> HIDE DEF NoTxn
  <2> QED
    BY <2>1, StoreBounds DEF FactInit, CallsTyped, Effects, StoreBounds
<1>4. \A w \in Writers : Underway(w)
  BY DEF FactInit, Underway, Sound, NoTxn
<1> QED
  BY <1>1, <1>2, <1>3, <1>4 DEF StoreKept, Disk, Serving

-----------------------------------------------------------------------------
(* What is seen of a call as a transaction.                                *)
LEMMA StageIs ==
  ASSUME NEW t \in Visits, NEW e \in Effects, NEW c \in Tools \union {NoCallYet}, Sound(t, c, e)
  PROVE  /\ Stage(t, e) \in Reading \union {"none", "begin", "forget"}
         /\ Stage(t, e) = "none" <=> ~Works(t, e)
         /\ Works(t, e) => c # NoCallYet
         /\ Works(t, e) /\ t.at \in Reading \union {"forget"} => Stage(t, e) = t.at
<1>1. t.at \in Stations
  BY DEF Visits
<1> QED
  BY <1>1 DEF Stations, Sound, Stage, Works, Reading, NoTxn

LEMMA TxnForIs ==
  ASSUME NEW t \in Visits, NEW e \in Effects, NEW c \in Tools \union {NoCallYet}, Sound(t, c, e), NEW d \in Connections
  PROVE  /\ TxnFor(t, e, d) \in Txns /\ TxnFor(t, e, d).at = Stage(t, e)
         /\ ~Works(t, e) => TxnFor(t, e, d) = Out
         /\ Stage(t, e) \in Reading =>
              /\ TxnFor(t, e, d) = TxnAt(Stage(t, e), t.held, t.moment, d.items, d.blobs, d.snapshot)
              /\ TxnFor(t, e, d).held = t.held /\ TxnFor(t, e, d).moment = t.moment
              /\ TxnFor(t, e, d).items = d.items /\ TxnFor(t, e, d).blobs = d.blobs
              /\ TxnFor(t, e, d).snapshot = d.snapshot
         /\ Stage(t, e) \in {"begin", "forget"} =>
              /\ TxnFor(t, e, d) = TxnAt(Stage(t, e), t.held, t.moment, <<>>, {}, 0)
              /\ TxnFor(t, e, d).held = t.held /\ TxnFor(t, e, d).moment = t.moment
<1>1. t.held \in Nat /\ t.moment \in 0 .. MaxTime
  BY DEF Visits
<1>2. d.items \in Seq(Rows) /\ d.blobs \in SUBSET Blobs /\ d.snapshot \in Nat
  BY DEF Connections
<1> DEFINE s == Stage(t, e)
<1>3. s \in Reading \union {"none", "begin", "forget"} /\ (s = "none" <=> ~Works(t, e))
  BY StageIs
<1> HIDE DEF s
<1>4. CASE s = "none"
  <2>1. TxnFor(t, e, d) = Out
    BY <1>4 DEF TxnFor, s
  <2>2. Out \in Txns /\ Out.at = "none"
    BY StoreBounds DEF Out, TxnAt, Txns, StoreBounds
  <2> QED
    BY <1>4, <2>1, <2>2 DEF s, Reading
<1>5. CASE s \in Reading
  <2> DEFINE r == TxnAt(s, t.held, t.moment, d.items, d.blobs, d.snapshot)
  <2>1. TxnFor(t, e, d) = r
    BY <1>5 DEF TxnFor, s, Reading
  <2>2. /\ r \in Txns /\ r.at = s /\ r.held = t.held /\ r.moment = t.moment /\ r.items = d.items /\ r.blobs = d.blobs
        /\ r.snapshot = d.snapshot
    BY <1>1, <1>2, <1>5 DEF TxnAt, Txns
  <2> QED
    BY <1>3, <1>5, <2>1, <2>2 DEF s, Reading
<1>6. CASE s \in {"begin", "forget"}
  <2> DEFINE r == TxnAt(s, t.held, t.moment, <<>>, {}, 0)
  <2>1. TxnFor(t, e, d) = r
    BY <1>6 DEF TxnFor, s, Reading
  <2>2. r \in Txns /\ r.at = s /\ r.held = t.held /\ r.moment = t.moment
    BY <1>1, <1>6 DEF TxnAt, Txns
  <2> QED
    BY <1>3, <1>6, <2>1, <2>2 DEF s, Reading
<1> QED
  BY <1>3, <1>4, <1>5, <1>6

(* The same of a call that is served.                                      *)
LEMMA TxnIs ==
  ASSUME StoreKept, NEW w \in Writers
  PROVE  /\ txn[w] \in Visits /\ effect[w] \in Effects /\ call[w] \in Tools \union {NoCallYet}
         /\ Sound(txn[w], call[w], effect[w]) /\ dbOf[w] \in Dbs /\ db[dbOf[w]] \in Connections
         /\ Txn[w] = TxnFor(txn[w], effect[w], db[dbOf[w]]) /\ Txn[w] = TxnOf(w) /\ Txn[w] \in Txns
         /\ Txn \in [Writers -> Txns]
<1>1. \A u \in Writers :
        /\ txn[u] \in Visits /\ effect[u] \in Effects /\ call[u] \in Tools \union {NoCallYet}
        /\ Sound(txn[u], call[u], effect[u]) /\ dbOf[u] \in Dbs /\ db[dbOf[u]] \in Connections
  BY CallIs, ConnectionIs DEF StoreKept, Disk
<1>2. \A u \in Writers : Txn[u] = TxnOf(u) /\ TxnOf(u) = TxnFor(txn[u], effect[u], db[dbOf[u]])
  BY DEF Txn, TxnOf
<1>3. \A u \in Writers : TxnOf(u) \in Txns
  BY <1>1, <1>2, TxnForIs
<1>4. Txn \in [Writers -> Txns]
  BY <1>3 DEF Txn
<1> QED
  BY <1>1, <1>2, <1>3, <1>4

(* No other call of the connection of w is under way.                      *)
Alone(w) == \A u \in Writers \ {w} : dbOf[u] = dbOf[w] => call[u] = NoCallYet

LEMMA AloneIs ==
  ASSUME Apart, NEW w \in Writers, call[w] # NoCallYet
  PROVE  Alone(w)
BY DEF Apart, Alone

LEMMA OthersStay ==
  ASSUME StoreKept, NEW w \in Writers, Alone(w), OnlyMoves(w), NEW u \in Writers \ {w}
  PROVE  TxnOf(u)' = TxnOf(u) /\ Txn[u] = TxnOf(u) /\ (Locks(u)' <=> Locks(u))
<1>1. txn'[u] = txn[u] /\ effect'[u] = effect[u] /\ call'[u] = call[u] /\ dbOf' = dbOf /\ u \in Writers
  BY DEF OnlyMoves
<1>2. CASE dbOf[u] = dbOf[w]
  <2>1. call[u] = NoCallYet
    BY <1>2 DEF Alone
  <2>2. ~Works(txn[u], effect[u])
    BY <1>1, <2>1, CallIs DEF StoreKept, Sound, Works, NoTxn
  <2>3. Stage(txn[u], effect[u]) = "none"
    BY <2>2 DEF Stage
  <2> QED
    BY <1>1, <2>2, <2>3 DEF TxnOf, TxnFor, Txn, Locks, Working
<1>3. CASE dbOf[u] # dbOf[w]
  <2>1. dbOf[u] \in Dbs \ {dbOf[w]}
    BY <1>1, <1>3, CallIs DEF StoreKept
  <2>2. db'[dbOf[u]] = db[dbOf[u]] /\ (writing' = dbOf[u] <=> writing = dbOf[u])
    BY <2>1 DEF OnlyMoves
  <2> QED
    BY <1>1, <2>2 DEF TxnOf, Txn, Locks, Working
<1> QED
  BY <1>2, <1>3

LEMMA OneMoves ==
  ASSUME StoreKept, NEW w \in Writers, Alone(w), OnlyMoves(w)
  PROVE  TxnMoves(w, TxnOf(w)') /\ (\A u \in Writers \ {w} : Locks(u)' <=> Locks(u))
<1>1. ASSUME NEW u \in Writers \ {w} PROVE TxnOf(u)' = Txn[u] /\ (Locks(u)' <=> Locks(u))
  <2>1. TxnOf(u)' = TxnOf(u) /\ Txn[u] = TxnOf(u) /\ (Locks(u)' <=> Locks(u))
    BY OthersStay
  <2> QED
    BY <2>1
<1>2. Txn' = [u \in Writers |-> TxnOf(u)'] /\ Txn = [u \in Writers |-> TxnOf(u)]
  BY DEF Txn
<1>3. Txn' = [Txn EXCEPT ![w] = TxnOf(w)']
  BY <1>1, <1>2
<1> QED
  BY <1>1, <1>3 DEF TxnMoves

(* The shape after a step of one call.                                     *)
LEMMA OneShape ==
  ASSUME StoreKept, Shape, NEW w \in Writers, Alone(w), OnlyMoves(w), Serving', call'[w] # NoCallYet, Nested(w)'
  PROVE  Shape'
<1>0. dbOf' = dbOf /\ Apart /\ call'[w] # NoCallYet
  BY DEF OnlyMoves, Shape
<1>1. \A u \in Writers \ {w} : call'[u] = call[u] /\ txn'[u] = txn[u]
  BY DEF OnlyMoves
<1>2. Apart'
  BY <1>0, <1>1 DEF Apart, Alone
<1>3. ASSUME NEW u \in Writers, call'[u] # NoCallYet PROVE Nested(u)'
  <2>1. CASE u = w
    BY <2>1
  <2>2. CASE u # w
    <3>1. call[u] # NoCallYet /\ dbOf[u] \in Dbs /\ dbOf[u] # dbOf[w] /\ txn'[u] = txn[u]
      BY <1>1, <1>3, <2>2, CallIs DEF Alone, StoreKept
    <3>2. db'[dbOf[u]] = db[dbOf[u]] /\ txnDepth'[dbOf[u]] = txnDepth[dbOf[u]]
      BY <3>1 DEF OnlyMoves
    <3> QED
      BY <1>0, <3>1, <3>2 DEF Shape, Nested
  <2> QED
    BY <2>1, <2>2
<1>4. ASSUME NEW c \in Dbs PROVE Free(c)'
  <2>1. CASE c = dbOf[w]
    BY <1>0, <2>1 DEF Free
  <2>2. CASE c # dbOf[w]
    <3>1. db'[c] = db[c] /\ txnDepth'[c] = txnDepth[c]
      BY <2>2 DEF OnlyMoves
    <3>2. Free(c)
      BY DEF Shape
    <3>3. \A u \in Writers : dbOf[u] = c => call'[u] = call[u]
      BY <1>1, <2>2
    <3> QED
      BY <1>0, <3>1, <3>2, <3>3 DEF Free
  <2> QED
    BY <2>1, <2>2
<1> QED
  BY <1>2, <1>3, <1>4 DEF Shape

(* And after the last one.                                                 *)
LEMMA LastShape ==
  ASSUME StoreKept, Shape, NEW w \in Writers, Alone(w), OnlyMoves(w), call'[w] = NoCallYet,
         db'[dbOf[w]].stack = <<>>, txnDepth'[dbOf[w]] = 0
  PROVE  Shape'
<1>0. dbOf' = dbOf /\ Apart
  BY DEF OnlyMoves, Shape
<1>1. \A u \in Writers \ {w} : call'[u] = call[u] /\ txn'[u] = txn[u]
  BY DEF OnlyMoves
<1>2. Apart'
  BY <1>0, <1>1 DEF Apart
<1>3. ASSUME NEW u \in Writers, call'[u] # NoCallYet PROVE Nested(u)'
  <2>1. u # w /\ call[u] # NoCallYet /\ dbOf[u] \in Dbs /\ dbOf[u] # dbOf[w] /\ txn'[u] = txn[u]
    BY <1>1, <1>3, CallIs DEF Alone, StoreKept
  <2>2. db'[dbOf[u]] = db[dbOf[u]] /\ txnDepth'[dbOf[u]] = txnDepth[dbOf[u]]
    BY <2>1 DEF OnlyMoves
  <2> QED
    BY <1>0, <2>1, <2>2 DEF Shape, Nested
<1>4. ASSUME NEW c \in Dbs PROVE Free(c)'
  <2>1. CASE c = dbOf[w]
    BY <1>0, <2>1 DEF Free
  <2>2. CASE c # dbOf[w]
    <3>1. db'[c] = db[c] /\ txnDepth'[c] = txnDepth[c]
      BY <2>2 DEF OnlyMoves
    <3>2. Free(c)
      BY DEF Shape
    <3>3. \A u \in Writers : dbOf[u] = c => call'[u] = call[u]
      BY <1>1, <2>2
    <3> QED
      BY <1>0, <3>1, <3>2, <3>3 DEF Free
  <2> QED
    BY <2>1, <2>2
<1> QED
  BY <1>2, <1>3, <1>4 DEF Shape

(* A step of which no transaction shows anything.                          *)
LEMMA NoneMoves ==
  ASSUME StoreKept, NEW w \in Writers, Alone(w), OnlyMoves(w), TxnOf(w)' = TxnOf(w), Locks(w)' <=> Locks(w),
         UNCHANGED <<items, blobs, commits, call, effect, now, setBack>>
  PROVE  TxnStep
<1>1. TxnMoves(w, TxnOf(w)') /\ (\A u \in Writers \ {w} : Locks(u)' <=> Locks(u))
  BY OneMoves
<1>2. Txn[w] = TxnOf(w) /\ Txn \in [Writers -> Txns] /\ now \in 0 .. MaxTime
  BY TxnIs DEF StoreKept, Serving, CallsTyped
<1>3. UNCHANGED Txn
  BY <1>1, <1>2 DEF TxnMoves
<1>4. LocksStay
  BY <1>1 DEF LocksStay
<1>5. now' \in 0 .. MaxTime /\ ~(now' < now) /\ setBack' = setBack
  BY <1>2, StoreBounds DEF StoreBounds
<1>6. setBack' <=> setBack \/ now' < now
  BY <1>5
<1> QED
  BY <1>3, <1>4, <1>5, <1>6 DEF TxnStep, TxnWaited

Shaped == Shape' /\ TxnStep

-----------------------------------------------------------------------------
(* Step by step.                                                           *)
LEMMA HereIs ==
  ASSUME StoreKept, Shape, NEW w \in Writers, txn[w].at # "none"
  PROVE  /\ Alone(w) /\ Nested(w) /\ call[w] # NoCallYet /\ call[w] \in Tools
         /\ txn[w].names # <<>> <=> db[dbOf[w]].stack # <<>>
         /\ txn[w].names # <<>> => Seen(dbOf[w]) = db[dbOf[w]] /\ Len(txn[w].names) > 0
         /\ txn[w].names = <<>> =>
              /\ Seen(dbOf[w]).items = items /\ Seen(dbOf[w]).blobs = blobs /\ Seen(dbOf[w]).snapshot = commits
              /\ writing # dbOf[w]
         /\ txn[w].names \in Seq(Int) /\ Len(txn[w].names) \in Nat /\ dbOf[w] \in Dbs
         /\ db[dbOf[w]].stack \in Seq(Saved) /\ db[dbOf[w]] \in Connections
         /\ Seen(dbOf[w]).items \in Seq(Rows) /\ Seen(dbOf[w]).blobs \in SUBSET Blobs
<1>1. call[w] # NoCallYet /\ call[w] \in Tools /\ txn[w].names \in Seq(Int) /\ dbOf[w] \in Dbs /\ Disk /\ DiskTyped
  BY CallIs DEF StoreKept, Disk
<1>2. Alone(w) /\ Nested(w)
  BY <1>1, AloneIs DEF Shape
<1>3. /\ db[dbOf[w]].stack \in Seq(Saved) /\ Seen(dbOf[w]).items \in Seq(Rows) /\ Seen(dbOf[w]).blobs \in SUBSET Blobs
      /\ db[dbOf[w]].stack # <<>> => Seen(dbOf[w]) = db[dbOf[w]]
      /\ db[dbOf[w]].stack = <<>> =>
           Seen(dbOf[w]).items = items /\ Seen(dbOf[w]).blobs = blobs /\ Seen(dbOf[w]).snapshot = commits
      /\ db[dbOf[w]] \in Connections
  BY <1>1, ConnectionIs
<1>4. Len(db[dbOf[w]].stack) = Len(txn[w].names)
  BY <1>2 DEF Nested, NestedIn
<1>5. Len(txn[w].names) \in Nat /\ (txn[w].names # <<>> <=> Len(txn[w].names) > 0)
  BY <1>1
<1>6. txn[w].names # <<>> <=> db[dbOf[w]].stack # <<>>
  <2> DEFINE s == db[dbOf[w]].stack
  <2>1. s \in Seq(Saved) /\ Len(s) = Len(txn[w].names)
    BY <1>3, <1>4
  <2> HIDE DEF s
  <2>2. s # <<>> <=> Len(s) > 0
    BY <2>1
  <2> QED
    BY <1>5, <2>1, <2>2 DEF s
<1>7. db[dbOf[w]].stack = <<>> => writing # dbOf[w]
  BY <1>1 DEF Disk, Backed
<1> QED
  BY <1>1, <1>2, <1>3, <1>5, <1>6, <1>7

LEMMA StepIs ==
  ASSUME StoreKept, NEW w \in Writers, NEW r, Goes(w, r), UNCHANGED <<dbOf, call>>,
         effect' = effect \/ \E e : effect' = [effect EXCEPT ![w] = e],
         txnDepth' = txnDepth \/ \E n : txnDepth' = [txnDepth EXCEPT ![dbOf[w]] = n],
         db' = db \/ \E d : db' = [db EXCEPT ![dbOf[w]] = d],
         writing' = writing \/ (writing \in {dbOf[w], NoWriter} /\ writing' \in {dbOf[w], NoWriter})
  PROVE  OnlyMoves(w) /\ txn'[w] = r
<1>1. txn \in [Writers -> Visits] /\ effect \in [Writers -> Effects] /\ txnDepth \in [Dbs -> Int]
      /\ db \in [Dbs -> Connections]
  BY DEF StoreKept, Serving, CallsTyped, Disk, DiskTyped
<1>2. \A u \in Writers \ {w} : txn'[u] = txn[u] /\ call'[u] = call[u] /\ effect'[u] = effect[u]
  BY <1>1 DEF Goes
<1>3. txn'[w] = r
  BY <1>1 DEF Goes
<1>4. \A d \in Dbs \ {dbOf[w]} : db'[d] = db[d] /\ txnDepth'[d] = txnDepth[d]
  BY <1>1
<1>5. \A d \in Dbs \ {dbOf[w]} : (writing' = d <=> writing = d)
  BY StoreBounds DEF StoreBounds
<1> QED
  BY <1>2, <1>3, <1>4, <1>5 DEF OnlyMoves

(* A step that leaves the database alone.                                  *)
LEMMA QuietIs ==
  ASSUME StoreKept, Ahead, Shape, NEW w \in Writers, txn[w].at # "none", NEW r, Goes(w, r),
         UNCHANGED <<storeVars, connVars, worldVars, call>>,
         effect' = effect \/ \E e : effect' = [effect EXCEPT ![w] = e],
         NestedIn(r, db[dbOf[w]], txnDepth[dbOf[w]])
  PROVE  /\ Shape' /\ Alone(w) /\ OnlyMoves(w) /\ TxnOf(w)' = TxnFor(r, effect'[w], db[dbOf[w]])
         /\ Locks(w)' <=> writing = dbOf[w] /\ Works(r, effect'[w])
         /\ UNCHANGED <<items, blobs, commits, writing, now, setBack>>
<1>1. UNCHANGED <<items, blobs, commits, writing, db, txnDepth, now, dbOf, setBack, call>>
  BY DEF storeVars, connVars, worldVars
<1>2. Alone(w) /\ call[w] # NoCallYet
  BY HereIs
<1>3. OnlyMoves(w) /\ txn'[w] = r
  BY <1>1, StepIs
<1>4. Nested(w)'
  BY <1>1, <1>3 DEF Nested
<1>5. Shape'
  BY <1>1, <1>2, <1>3, <1>4, OneShape DEF Ahead
<1>6. TxnOf(w)' = TxnFor(r, effect'[w], db[dbOf[w]])
  BY <1>1, <1>3 DEF TxnOf
<1>7. Locks(w)' <=> writing = dbOf[w] /\ Works(r, effect'[w])
  BY <1>1, <1>3 DEF Locks, Working
<1> QED
  BY <1>1, <1>2, <1>3, <1>5, <1>6, <1>7

LEMMA QuietNone ==
  ASSUME StoreKept, Ahead, Shape, NEW w \in Writers, txn[w].at # "none", NEW r, Goes(w, r),
         UNCHANGED <<storeVars, connVars, worldVars, call, effect>>,
         NestedIn(r, db[dbOf[w]], txnDepth[dbOf[w]]),
         TxnFor(r, effect[w], db[dbOf[w]]) = TxnFor(txn[w], effect[w], db[dbOf[w]]),
         Works(r, effect[w]) <=> Works(txn[w], effect[w])
  PROVE  Shaped
<1>1. /\ Shape' /\ Alone(w) /\ OnlyMoves(w) /\ TxnOf(w)' = TxnFor(r, effect'[w], db[dbOf[w]])
      /\ Locks(w)' <=> writing = dbOf[w] /\ Works(r, effect'[w])
      /\ UNCHANGED <<items, blobs, commits, writing, now, setBack>>
  BY QuietIs
<1>2. TxnOf(w)' = TxnOf(w) /\ (Locks(w)' <=> Locks(w))
  BY <1>1 DEF TxnOf, Locks, Working
<1> QED
  BY <1>1, <1>2, NoneMoves DEF Shaped

LEMMA NumbersShaped ==
  ASSUME StoreKept, Ahead, Shape, NEW w \in Writers, Numbers(w)
  PROVE  Shaped
<1> DEFINE r == [txn[w] EXCEPT !.at = "open", !.number = txnDepth[dbOf[w]]]
<1>1. txn[w].at = "begin" /\ Goes(w, r) /\ UNCHANGED <<storeVars, connVars, worldVars, call, effect>>
  BY DEF Numbers
<1>2. txn[w] \in Visits /\ Nested(w)
  BY <1>1, TxnIs, HereIs
<1>3. /\ r.at = "open" /\ r.names = txn[w].names /\ r.number = txnDepth[dbOf[w]]
      /\ r.held = txn[w].held /\ r.moment = txn[w].moment
  BY <1>2 DEF Visits
<1> HIDE DEF r
<1>4. NestedIn(r, db[dbOf[w]], txnDepth[dbOf[w]])
  BY <1>1, <1>2, <1>3 DEF Nested, NestedIn
<1>5. /\ Works(r, effect[w]) <=> Works(txn[w], effect[w])
      /\ Stage(r, effect[w]) = Stage(txn[w], effect[w])
  BY <1>1, <1>3 DEF Works, Stage
<1>6. TxnFor(r, effect[w], db[dbOf[w]]) = TxnFor(txn[w], effect[w], db[dbOf[w]])
  BY <1>3, <1>5 DEF TxnFor
<1> QED
  BY <1>1, <1>4, <1>5, <1>6, QuietNone

LEMMA UnwindsShaped ==
  ASSUME StoreKept, Ahead, Shape, NEW w \in Writers, Unwinds(w)
  PROVE  Shaped
<1> DEFINE r == [txn[w] EXCEPT !.at = "undo", !.number = txnDepth[dbOf[w]]]
<1>1. txn[w].at = "failed" /\ Goes(w, r) /\ UNCHANGED <<storeVars, connVars, worldVars, call, effect>>
  BY DEF Unwinds
<1>2. txn[w] \in Visits /\ Nested(w) /\ Sound(txn[w], call[w], effect[w])
  BY <1>1, TxnIs, HereIs
<1>3. r.at = "undo" /\ r.names = txn[w].names /\ r.number = txnDepth[dbOf[w]]
  BY <1>2 DEF Visits
<1> HIDE DEF r
<1>4. NestedIn(r, db[dbOf[w]], txnDepth[dbOf[w]])
  BY <1>1, <1>2, <1>3 DEF Nested, NestedIn
<1>5. effect[w] = "refused"
  BY <1>1, <1>2 DEF Sound
<1>6. ~Works(r, effect[w]) /\ ~Works(txn[w], effect[w])
  BY <1>5 DEF Works
<1>7. TxnFor(r, effect[w], db[dbOf[w]]) = TxnFor(txn[w], effect[w], db[dbOf[w]])
  BY <1>6 DEF TxnFor, Stage
<1> QED
  BY <1>1, <1>4, <1>6, <1>7, QuietNone

LEMMA QuietMoves ==
  ASSUME StoreKept, Ahead, Shape, NEW w \in Writers, txn[w].at # "none", NEW r, Goes(w, r),
         UNCHANGED <<storeVars, connVars, worldVars, call, effect>>,
         NestedIn(r, db[dbOf[w]], txnDepth[dbOf[w]]), Works(r, effect[w]) <=> Works(txn[w], effect[w])
  PROVE  /\ Shape' /\ TxnMoves(w, TxnFor(r, effect[w], db[dbOf[w]])) /\ LocksStay
         /\ UNCHANGED <<items, blobs, commits, call, effect, Clock>>
<1>1. /\ Shape' /\ Alone(w) /\ OnlyMoves(w) /\ TxnOf(w)' = TxnFor(r, effect'[w], db[dbOf[w]])
      /\ Locks(w)' <=> writing = dbOf[w] /\ Works(r, effect'[w])
      /\ UNCHANGED <<items, blobs, commits, writing, now, setBack>>
  BY QuietIs
<1>2. Locks(w)' <=> Locks(w)
  BY <1>1 DEF Locks, Working
<1>3. TxnMoves(w, TxnOf(w)') /\ (\A u \in Writers \ {w} : Locks(u)' <=> Locks(u))
  BY <1>1, OneMoves
<1>4. LocksStay
  BY <1>2, <1>3 DEF LocksStay
<1> QED
  BY <1>1, <1>3, <1>4 DEF Clock

LEMMA PutsShaped ==
  ASSUME StoreKept, Ahead, Shape, NEW w \in Writers, PutsBlob(w)
  PROVE  Shaped
<1> DEFINE c == dbOf[w]
           table == Seen(c).blobs
           b == NewBlob(table, txn[w].base, call[w].value)
           r == [txn[w] EXCEPT !.at = "begin", !.base = NoBase]
           s == [txn[w] EXCEPT !.at = "insert", !.base = NoBase, !.blob = b]
           e == effect[w]
           d == db[c]
<1>1. txn[w].at = "blob" /\ UNCHANGED <<storeVars, connVars, worldVars, call, effect>>
  BY DEF PutsBlob
<1>2. /\ txn[w] \in Visits /\ c \in Dbs /\ Sound(txn[w], call[w], e) /\ e \in Effects
      /\ call[w] \in Tools \union {NoCallYet} /\ d \in Connections /\ Txn[w] = TxnFor(txn[w], e, d)
  BY TxnIs
<1>3. txn[w].names # <<>> /\ e = "none" /\ call[w].op = "put"
  BY <1>1, <1>2 DEF Sound, Effects
<1>4. /\ Nested(w) /\ table = d.blobs /\ call[w].value \in Contents /\ table \in SUBSET Blobs
  BY <1>1, <1>3, HereIs DEF Tools
<1>5. /\ Works(txn[w], e) /\ Stage(txn[w], e) = "blob" /\ Txn[w].at = "blob" /\ Txn[w].held = txn[w].held
      /\ Txn[w].moment = txn[w].moment /\ Txn[w].items = d.items /\ Txn[w].blobs = d.blobs
      /\ Txn[w].snapshot = d.snapshot
  <2>1. Works(txn[w], e) /\ Stage(txn[w], e) = "blob"
    BY <1>1, <1>2, <1>3, StageIs DEF Works, Reading
  <2> QED
    BY <1>2, <2>1, TxnForIs DEF Reading
<1>6. CASE IsStored(table, call[w].value)
  <2>1. Goes(w, r)
    BY <1>6 DEF PutsBlob
  <2>2. /\ r.at = "begin" /\ r.names = txn[w].names /\ r.held = txn[w].held /\ r.moment = txn[w].moment
    BY <1>2 DEF Visits
  <2> HIDE DEF r
  <2>3. NestedIn(r, d, txnDepth[c]) /\ Works(r, e)
    BY <1>1, <1>3, <1>4, <2>2 DEF Nested, NestedIn, Works
  <2>4. Stage(r, e) = "look"
    BY <1>3, <2>2, <2>3 DEF Stage
  <2>5. TxnFor(r, e, d) = TxnAt("look", txn[w].held, txn[w].moment, d.items, d.blobs, d.snapshot)
    BY <2>2, <2>4 DEF TxnFor, Reading
  <2>6. /\ Shape' /\ TxnMoves(w, TxnFor(r, e, d)) /\ LocksStay
        /\ UNCHANGED <<items, blobs, commits, call, effect, Clock>>
    BY <1>1, <1>5, <2>1, <2>3, QuietMoves
  <2>7. TxnFound(w)
    BY <1>4, <1>5, <1>6, <2>5, <2>6 DEF TxnFound, TxnGoes
  <2> QED
    BY <2>6, <2>7 DEF Shaped, TxnStep
<1>7. CASE ~IsStored(table, call[w].value)
  <2>1. Goes(w, s)
    BY <1>7 DEF PutsBlob
  <2>2. b.hash = call[w].value /\ FitsOn(b, table)
    BY <1>4, NewBlobIs, StoreBounds
  <2> HIDE DEF b
  <2>3. /\ s.at = "insert" /\ s.names = txn[w].names /\ s.blob = b /\ s.held = txn[w].held /\ s.moment = txn[w].moment
    BY <1>2 DEF Visits
  <2> HIDE DEF s
  <2>4. NestedIn(s, d, txnDepth[c]) /\ Works(s, e)
    BY <1>1, <1>3, <1>4, <1>7, <2>2, <2>3 DEF Nested, NestedIn, Works
  <2>5. Stage(s, e) = "blob"
    BY <2>3, <2>4 DEF Stage
  <2>6. TxnFor(s, e, d) = TxnFor(txn[w], e, d)
    BY <1>5, <2>3, <2>5 DEF TxnFor
  <2> QED
    BY <1>1, <1>5, <2>1, <2>4, <2>6, QuietNone
<1> QED
  BY <1>6, <1>7

LEMMA LooksShaped ==
  ASSUME StoreKept, Ahead, Shape, NEW w \in Writers, Looks(w)
  PROVE  Shaped
<1> DEFINE c == dbOf[w]
           table == Seen(c).items
           rows == OpenRows(table, call[w].key)
           e == effect[w]
           d == db[c]
<1>1. txn[w].at = "look" /\ UNCHANGED <<storeVars, connVars, worldVars, call, effect>>
  BY DEF Looks
<1>2. /\ txn[w] \in Visits /\ c \in Dbs /\ Sound(txn[w], call[w], e) /\ e \in Effects
      /\ call[w] \in Tools \union {NoCallYet} /\ d \in Connections /\ Txn[w] = TxnFor(txn[w], e, d)
  BY TxnIs
<1>3. txn[w].names # <<>> /\ e = "none"
  BY <1>1, <1>2 DEF Sound, Effects
<1>4. /\ Nested(w) /\ table = d.items
  BY <1>1, <1>3, HereIs
<1>5. /\ Works(txn[w], e) /\ Txn[w].at = "look" /\ Txn[w].items = d.items /\ Txn[w].blobs = d.blobs
      /\ Txn[w].snapshot = d.snapshot
  <2>1. Works(txn[w], e) /\ Stage(txn[w], e) = "look"
    BY <1>1, <1>2, <1>3, StageIs DEF Works, Reading
  <2> QED
    BY <1>2, <2>1, TxnForIs DEF Reading
<1>6. PICK held \in IF rows = {} THEN {0} ELSE rows :
        Goes(w, [txn[w] EXCEPT !.held = held, !.moment = now,
                   !.at = IF held = 0 THEN "add"
                          ELSE IF table[held].value = call[w].value THEN "release" ELSE "close"])
  BY DEF Looks
<1> DEFINE place == IF held = 0 THEN "add" ELSE IF table[held].value = call[w].value THEN "release" ELSE "close"
           r == [txn[w] EXCEPT !.held = held, !.moment = now, !.at = place]
<1>7. place \in {"add", "release", "close"} /\ Goes(w, r)
  BY <1>6
<1> HIDE DEF place
<1>8. r.at = place /\ r.names = txn[w].names /\ r.held = held /\ r.moment = now
  BY <1>2 DEF Visits
<1> HIDE DEF r
<1>9. NestedIn(r, d, txnDepth[c]) /\ Works(r, e)
  BY <1>1, <1>3, <1>4, <1>7, <1>8 DEF Nested, NestedIn, Works
<1>10. Stage(r, e) = place
  BY <1>7, <1>8, <1>9 DEF Stage
<1>11. TxnFor(r, e, d) = TxnAt(place, held, now, d.items, d.blobs, d.snapshot)
  BY <1>7, <1>8, <1>10 DEF TxnFor, Reading
<1>12. /\ Shape' /\ TxnMoves(w, TxnFor(r, e, d)) /\ LocksStay
       /\ UNCHANGED <<items, blobs, commits, call, effect, Clock>>
  BY <1>1, <1>5, <1>7, <1>9, QuietMoves
<1>13. TxnLooked(w)
  <2>1. held \in IF OpenRows(Txn[w].items, call[w].key) = {} THEN {0} ELSE OpenRows(Txn[w].items, call[w].key)
    BY <1>4, <1>5, <1>6
  <2>2. place = IF held = 0 THEN "add" ELSE IF Txn[w].items[held].value = call[w].value THEN "release" ELSE "close"
    BY <1>4, <1>5 DEF place
  <2>3. TxnMoves(w, TxnAt(place, held, now, Txn[w].items, Txn[w].blobs, Txn[w].snapshot))
    BY <1>5, <1>11, <1>12
  <2> QED
    BY <1>5, <1>12, <2>1, <2>2, <2>3 DEF TxnLooked
<1> QED
  BY <1>12, <1>13 DEF Shaped, TxnStep

LEMMA PreparesShaped ==
  ASSUME StoreKept, Ahead, Shape, NEW w \in Writers, Prepares(w)
  PROVE  Shaped
<1> DEFINE r == [txn[w] EXCEPT !.at = "forget", !.moment = now]
           e == effect[w]
           d == db[dbOf[w]]
<1>1. txn[w].at = "prepare" /\ Goes(w, r) /\ UNCHANGED <<storeVars, connVars, worldVars, call, effect>>
  BY DEF Prepares
<1>2. /\ txn[w] \in Visits /\ Sound(txn[w], call[w], e) /\ e \in Effects
      /\ call[w] \in Tools \union {NoCallYet} /\ d \in Connections /\ Txn[w] = TxnFor(txn[w], e, d) /\ Nested(w)
  BY <1>1, TxnIs, HereIs
<1>3. txn[w].names = <<>> /\ e = "none" /\ call[w].op = "forget"
  BY <1>1, <1>2 DEF Sound, Effects
<1>4. Works(txn[w], e) /\ Txn[w].at = "begin" /\ Txn[w].held = txn[w].held
  <2>1. Works(txn[w], e) /\ Stage(txn[w], e) = "begin"
    BY <1>1, <1>3 DEF Works, Stage
  <2> QED
    BY <1>2, <2>1, TxnForIs
<1>5. r.at = "forget" /\ r.names = txn[w].names /\ r.held = txn[w].held /\ r.moment = now
  BY <1>2 DEF Visits
<1> HIDE DEF r
<1>6. NestedIn(r, d, txnDepth[dbOf[w]]) /\ Works(r, e)
  BY <1>1, <1>2, <1>3, <1>5 DEF Nested, NestedIn, Works
<1>7. Stage(r, e) = "forget"
  BY <1>5, <1>6 DEF Stage
<1>8. TxnFor(r, e, d) = TxnAt("forget", txn[w].held, now, <<>>, {}, 0)
  BY <1>5, <1>7 DEF TxnFor, Reading
<1>9. /\ Shape' /\ TxnMoves(w, TxnFor(r, e, d)) /\ LocksStay
      /\ UNCHANGED <<items, blobs, commits, call, effect, Clock>>
  BY <1>1, <1>4, <1>6, QuietMoves
<1>10. TxnPrepared(w)
  BY <1>3, <1>4, <1>8, <1>9 DEF TxnPrepared
<1> QED
  BY <1>9, <1>10 DEF Shaped, TxnStep

LEMMA ServesShaped ==
  ASSUME StoreKept, Ahead, Shape, NEW w \in Writers, NEW tool \in Tools, Serves(w, tool), ~overlapped'
  PROVE  Shaped
<1> DEFINE c == dbOf[w]
           r == txn'[w]
<1>1. /\ call[w] = NoCallYet /\ call' = [call EXCEPT ![w] = tool]
      /\ UNCHANGED <<items, blobs, commits, writing, db, txnDepth, effect, now, dbOf, setBack>>
      /\ \A v \in Writers : dbOf[v] = dbOf[w] => call[v] = NoCallYet
  BY DEF Serves, storeVars, connVars
<1>2. /\ txn[w] = NoTxn /\ effect[w] = "none" /\ Txn[w] = TxnOf(w) /\ Txn[w] = TxnFor(txn[w], effect[w], db[c])
      /\ c \in Dbs /\ NoTxn \in Visits
  BY <1>1, TxnIs, CallIs DEF Sound, StoreKept
<1>3. PICK base : Goes(w, [NoTxn EXCEPT !.at = IF tool.op = "forget" THEN "prepare" ELSE "begin", !.base = base])
  BY DEF Serves
<1> DEFINE place == IF tool.op = "forget" THEN "prepare" ELSE "begin"
<1>4. /\ r.at = place /\ r.names = <<>> /\ r.held = 0 /\ r.moment = 0 /\ \A u \in Writers \ {w} : txn'[u] = txn[u]
  <2> DEFINE s == [NoTxn EXCEPT !.at = place, !.base = base]
  <2>1. s.at = place /\ s.names = NoTxn.names /\ s.held = NoTxn.held /\ s.moment = NoTxn.moment
    <3>1. NoTxn = [at |-> "none", base |-> NoBase, names |-> <<>>, number |-> 0, blob |-> NoBlob, held |-> 0, moment |-> 0]
      BY DEF NoTxn
    <3> QED
      BY <3>1
  <2>2. txn' = [txn EXCEPT ![w] = s] /\ txn \in [Writers -> Visits]
    BY <1>3 DEF Goes, StoreKept, Serving, CallsTyped
  <2>3. NoTxn.names = <<>> /\ NoTxn.held = 0 /\ NoTxn.moment = 0
    BY DEF NoTxn
  <2> HIDE DEF s, place
  <2>4. txn'[w] = s /\ \A u \in Writers \ {w} : txn'[u] = txn[u]
    BY <2>2
  <2> QED
    BY <2>1, <2>3, <2>4
<1>5. place \in {"prepare", "begin"}
  OBVIOUS
<1> HIDE DEF place, r
<1>6. Alone(w)
  BY <1>1 DEF Alone
<1>7. OnlyMoves(w) /\ call'[w] = tool /\ tool # NoCallYet
  <2>1. call \in [Writers -> Tools \union {NoCallYet}]
    BY DEF StoreKept, Serving, CallsTyped
  <2>2. tool # NoCallYet
    BY DEF Tools, NoCallYet
  <2> QED
    BY <1>1, <1>4, <2>1, <2>2 DEF OnlyMoves
<1>8. Nested(w)'
  <2>1. db[c].stack = <<>> /\ txnDepth[c] = 0
    BY <1>1, <1>2 DEF Shape, Free
  <2>2. NestedIn(r, db[c], txnDepth[c])
    BY <1>4, <1>5, <2>1 DEF NestedIn
  <2> QED
    BY <1>1, <2>2 DEF Nested, r
<1>9. Shape'
  BY <1>6, <1>7, <1>8, OneShape DEF Ahead
<1>10. TxnOf(w)' = TxnAt("begin", 0, 0, <<>>, {}, 0)
  <2>1. Works(r, "none") /\ Stage(r, "none") = "begin"
    BY <1>4, <1>5 DEF Works, Stage
  <2>2. TxnFor(r, "none", db[c]) = TxnAt("begin", 0, 0, <<>>, {}, 0)
    BY <1>4, <2>1 DEF TxnFor, Reading
  <2> QED
    BY <1>1, <1>2, <2>2 DEF TxnOf, r
<1>11. TxnMoves(w, TxnOf(w)') /\ (\A u \in Writers \ {w} : Locks(u)' <=> Locks(u))
  BY <1>6, <1>7, OneMoves
<1>12. LocksStay
  <2>1. writing # c
    <3>1. db[c].stack = <<>> /\ Disk
      BY <1>1, <1>2 DEF Shape, Free, StoreKept
    <3> QED
      BY <1>2, <3>1 DEF Disk, Backed
  <2>2. ~Locks(w) /\ ~Locks(w)'
    BY <1>1, <2>1 DEF Locks
  <2> QED
    BY <1>11, <2>2 DEF LocksStay
<1>13. TxnAsked(w, tool)
  BY <1>1, <1>10, <1>11, <1>12 DEF TxnAsked, Clock
<1> QED
  BY <1>9, <1>13 DEF Shaped, TxnStep

(* A savepoint more, and one less.                                         *)
LEMMA NestedMore ==
  ASSUME NEW t, NEW d, NEW depth, NestedIn(t, d, depth), t.at = "open", t.names \in Seq(Int), d.stack \in Seq(Saved),
         NEW r, r.names = Append(t.names, t.number), r.at \in {"blob", "look"},
         NEW s \in Saved, s.name = t.number, NEW x, x.stack = Append(d.stack, s)
  PROVE  NestedIn(r, x, t.number + 1) /\ t.number >= 0
<1> DEFINE n == Len(t.names)
           names == t.names
           stack == d.stack
<1>1. /\ n \in Nat /\ t.number = n /\ Len(stack) = n /\ \A i \in 1 .. n : names[i] = i - 1 /\ stack[i].name = i - 1
      /\ names \in Seq(Int) /\ stack \in Seq(Saved) /\ n \in Int
  BY DEF NestedIn
<1>2. /\ Len(Append(names, n)) = n + 1 /\ Append(names, n)[n + 1] = n
      /\ \A i \in 1 .. n : Append(names, n)[i] = names[i]
  BY <1>1, LongerIs
<1>3. /\ Len(Append(stack, s)) = n + 1 /\ Append(stack, s)[n + 1] = s
      /\ \A i \in 1 .. n : Append(stack, s)[i] = stack[i]
  BY <1>1
<1>4. r.names = Append(names, n) /\ x.stack = Append(stack, s) /\ s.name = n
  BY <1>1
<1> HIDE DEF n, names, stack
<1>5. \A i \in 1 .. n + 1 : i \in 1 .. n \/ i = n + 1
  BY <1>1
<1>6. \A i \in 1 .. n + 1 : r.names[i] = i - 1 /\ x.stack[i].name = i - 1
  <2> TAKE i \in 1 .. n + 1
  <2>1. CASE i \in 1 .. n
    BY <1>1, <1>2, <1>3, <1>4, <2>1
  <2>2. CASE i = n + 1
    BY <1>1, <1>2, <1>3, <1>4, <2>2
  <2> QED
    BY <1>5, <2>1, <2>2
<1> QED
  BY <1>1, <1>2, <1>3, <1>4, <1>6 DEF NestedIn

LEMMA OpensShaped ==
  ASSUME StoreKept, Ahead, Shape, NEW w \in Writers, OpensTxn(w)
  PROVE  Shaped
<1> DEFINE c == dbOf[w]
           name == txn[w].number
           first == txn[w].names = <<>>
           place == IF first /\ call[w].op = "put" THEN "blob" ELSE "look"
           r == [txn[w] EXCEPT !.at = place, !.names = Append(@, name), !.number = 0]
           e == effect[w]
           s == [name |-> name, items |-> Seen(c).items, blobs |-> Seen(c).blobs]
           x == [Seen(c) EXCEPT !.stack = Append(@, s)]
<1>1. /\ txn[w].at = "open" /\ txnDepth' = [txnDepth EXCEPT ![c] = name + 1] /\ UNCHANGED <<storeVars, worldVars, call>>
  BY DEF OpensTxn
<1>2. /\ txn[w] \in Visits /\ c \in Dbs /\ Sound(txn[w], call[w], e) /\ e \in Effects
      /\ call[w] \in Tools \union {NoCallYet} /\ db[c] \in Connections /\ Txn[w] = TxnFor(txn[w], e, db[c])
      /\ Txn[w] = TxnOf(w)
  BY TxnIs
<1>3. e = "none" /\ call[w].op \in {"put", "remember"} /\ name \in Int
  BY <1>1, <1>2 DEF Sound, Effects, Visits
<1>4. /\ Alone(w) /\ Nested(w) /\ call[w] # NoCallYet /\ txn[w].names \in Seq(Int) /\ db[c].stack \in Seq(Saved)
      /\ ~first => Seen(c) = db[c]
      /\ first => Seen(c).items = items /\ Seen(c).blobs = blobs /\ Seen(c).snapshot = commits /\ writing # c
      /\ Seen(c).items \in Seq(Rows) /\ Seen(c).blobs \in SUBSET Blobs
  BY <1>1, HereIs
<1>5. Seen(c) \in Connections /\ Seen(c).stack = db[c].stack
  BY <1>2, ConnectionIs DEF StoreKept, Disk
<1>6. s \in Saved /\ s.name = name
  BY <1>3, <1>4 DEF Saved
<1> HIDE DEF s
<1>7. /\ x.stack = Append(db[c].stack, s) /\ x.items = Seen(c).items /\ x.blobs = Seen(c).blobs
      /\ x.snapshot = Seen(c).snapshot
  BY <1>5 DEF Connections
<1>8. r.names = Append(txn[w].names, name) /\ r.at = place /\ r.held = txn[w].held /\ r.moment = txn[w].moment
  BY <1>2 DEF Visits
<1>9. place \in {"blob", "look"}
  OBVIOUS
<1> HIDE DEF place
<1>10. NestedIn(txn[w], db[c], txnDepth[c])
  BY <1>4 DEF Nested
<1> DEFINE y == x
           q == r
<1>11. NestedIn(q, y, name + 1) /\ name >= 0
  <2>1. q.names = Append(txn[w].names, name) /\ q.at \in {"blob", "look"} /\ y.stack = Append(db[c].stack, s)
    BY <1>7, <1>8, <1>9
  <2> HIDE DEF q, y
  <2> QED
    BY <1>1, <1>4, <1>6, <1>10, <2>1, NestedMore
<1>12. db' = [db EXCEPT ![c] = x] /\ Goes(w, r) /\ UNCHANGED effect
  <2>1. ~(name < 0)
    BY <1>3, <1>11
  <2> QED
    BY <2>1 DEF OpensTxn, s, place
<1> HIDE DEF q, y, r, x
<1>13. /\ UNCHANGED <<items, blobs, commits, writing, now, dbOf, setBack, call, effect>>
  BY <1>1, <1>12 DEF storeVars, worldVars
<1>14. OnlyMoves(w) /\ txn'[w] = r
  BY <1>1, <1>12, <1>13, StepIs
<1>15. db'[c] = x /\ txnDepth'[c] = name + 1
  <2>1. db \in [Dbs -> Connections] /\ txnDepth \in [Dbs -> Int]
    BY DEF StoreKept, Disk, DiskTyped, Serving, CallsTyped
  <2> QED
    BY <1>1, <1>2, <1>12, <2>1
<1>16. Nested(w)'
  BY <1>11, <1>13, <1>14, <1>15 DEF Nested, q, y
<1>17. Shape'
  BY <1>4, <1>13, <1>14, <1>16, OneShape DEF Ahead
<1>18. Works(r, e) /\ Works(txn[w], e)
  BY <1>1, <1>3, <1>8, <1>9 DEF Works
<1>19. TxnOf(w)' = TxnFor(r, e, x)
  BY <1>13, <1>14, <1>15 DEF TxnOf
<1>20. TxnFor(r, e, x) = TxnAt(place, txn[w].held, txn[w].moment, Seen(c).items, Seen(c).blobs, Seen(c).snapshot)
  <2>1. Stage(r, e) = place
    BY <1>8, <1>9, <1>18 DEF Stage
  <2> QED
    BY <1>7, <1>8, <1>9, <2>1 DEF TxnFor, Reading
<1>21. Locks(w)' <=> Locks(w)
  BY <1>13, <1>14, <1>18 DEF Locks, Working
<1>22. CASE first
  <2>1. Stage(txn[w], e) = "begin"
    BY <1>1, <1>18, <1>22 DEF Stage
  <2>2. Txn[w].at = "begin" /\ Txn[w].held = txn[w].held /\ Txn[w].moment = txn[w].moment
    <3> DEFINE t == txn[w]
               d == db[c]
    <3>1. /\ t \in Visits /\ Sound(t, call[w], e) /\ e \in Effects /\ call[w] \in Tools \union {NoCallYet}
          /\ d \in Connections /\ Stage(t, e) = "begin" /\ Txn[w] = TxnFor(t, e, d)
      BY <1>2, <2>1
    <3> HIDE DEF t, d, e
    <3>2. TxnFor(t, e, d).at = "begin" /\ TxnFor(t, e, d).held = t.held /\ TxnFor(t, e, d).moment = t.moment
      BY <3>1, TxnForIs
    <3> QED
      BY <3>1, <3>2 DEF t
  <2>3. TxnMoves(w, TxnOf(w)') /\ (\A u \in Writers \ {w} : Locks(u)' <=> Locks(u))
    BY <1>4, <1>14, OneMoves
  <2>4. LocksStay
    BY <1>21, <2>3 DEF LocksStay
  <2>5. place = IF call[w].op = "put" THEN "blob" ELSE "look"
    BY <1>22 DEF place
  <2>6. TxnMoves(w, TxnAt(IF call[w].op = "put" THEN "blob" ELSE "look", Txn[w].held, Txn[w].moment, items, blobs, commits))
    BY <1>4, <1>19, <1>20, <1>22, <2>2, <2>3, <2>5
  <2>7. call[w].op # "forget"
    BY <1>3
  <2>8. TxnBegun(w)
    BY <1>13, <2>2, <2>4, <2>6, <2>7 DEF TxnBegun, Clock
  <2> QED
    BY <1>17, <2>8 DEF Shaped, TxnStep
<1>23. CASE ~first
  <2>1. Stage(txn[w], e) = "look" /\ place = "look"
    BY <1>1, <1>18, <1>23 DEF Stage, place
  <2>2. TxnFor(txn[w], e, db[c]) = TxnAt("look", txn[w].held, txn[w].moment, db[c].items, db[c].blobs, db[c].snapshot)
    BY <2>1 DEF TxnFor, Reading
  <2>3. TxnOf(w)' = TxnOf(w)
    BY <1>2, <1>4, <1>19, <1>20, <1>23, <2>1, <2>2
  <2>4. TxnStep
    BY <1>4, <1>13, <1>14, <1>21, <2>3, NoneMoves
  <2> QED
    BY <1>17, <2>4 DEF Shaped
<1> QED
  BY <1>22, <1>23

(* A statement inside a savepoint.                                         *)
LEMMA WritesOn ==
  ASSUME DiskTyped, NEW c \in Dbs, db[c].stack # <<>>, NEW rows \in Seq(Rows), NEW objects \in SUBSET Blobs,
         Writes(c, rows, objects)
  PROVE  /\ CanWrite(c) /\ writing' = c /\ UNCHANGED <<items, blobs, commits>>
         /\ \E x : /\ db' = [db EXCEPT ![c] = x] /\ x.items = rows /\ x.blobs = objects /\ x.stack = db[c].stack
                   /\ x.snapshot = db[c].snapshot
<1> DEFINE after == [db[c] EXCEPT !.items = rows, !.blobs = objects]
<1>1. db[c] \in Connections /\ db \in [Dbs -> Connections]
  BY DEF DiskTyped
<1>2. CanWrite(c) /\ writing' = c /\ db' = [db EXCEPT ![c] = after] /\ UNCHANGED <<items, blobs, commits>>
  BY <1>1 DEF Writes, Connections
<1>3. after.items = rows /\ after.blobs = objects /\ after.stack = db[c].stack /\ after.snapshot = db[c].snapshot
  BY <1>1 DEF Connections
<1> QED
  BY <1>2, <1>3

LEMMA NothingOn ==
  ASSUME DiskTyped, NEW c \in Dbs, db[c].stack # <<>>, WritesNothing(c)
  PROVE  /\ CanWrite(c) /\ writing' = c /\ UNCHANGED <<items, blobs, commits>>
         /\ \E x : /\ db' = [db EXCEPT ![c] = x] /\ x.items = db[c].items /\ x.blobs = db[c].blobs
                   /\ x.stack = db[c].stack /\ x.snapshot = db[c].snapshot
<1>1. db = [db EXCEPT ![c] = db[c]]
  BY DEF DiskTyped
<1> QED
  BY <1>1 DEF WritesNothing

LEMMA MayWriteIs ==
  ASSUME StoreKept, Shape, NEW w \in Writers, txn[w].at # "none", txn[w].names # <<>>, Works(txn[w], effect[w]),
         CanWrite(dbOf[w]), Txn[w].snapshot = db[dbOf[w]].snapshot
  PROVE  MayWrite(w)
<1>1. Seen(dbOf[w]) = db[dbOf[w]]
  BY HereIs
<1>2. CASE writing = dbOf[w]
  BY <1>2 DEF MayWrite, Locks, Working
<1>3. CASE writing = NoWriter
  <2>1. ASSUME NEW u \in Writers PROVE ~Locks(u)
    BY <1>3, CallIs, StoreBounds DEF StoreBounds, StoreKept, Locks
  <2>2. db[dbOf[w]].snapshot = commits \/ writing = dbOf[w]
    BY <1>1 DEF CanWrite
  <2> QED
    BY <1>2, <2>1, <2>2 DEF MayWrite
<1> QED
  BY <1>2, <1>3 DEF CanWrite

LEMMA StatementMoves ==
  ASSUME StoreKept, Ahead, Shape, NEW w \in Writers, txn[w].at \in {"insert", "close", "add"},
         NEW r, Goes(w, r), r.names = txn[w].names, r.at \in {"begin", "add", "release"},
         CanWrite(dbOf[w]), writing' = dbOf[w], UNCHANGED <<items, blobs, commits>>,
         NEW x, db' = [db EXCEPT ![dbOf[w]] = x], x.stack = db[dbOf[w]].stack, x.snapshot = db[dbOf[w]].snapshot,
         UNCHANGED <<txnDepth, worldVars, call, effect>>
  PROVE  /\ Shape' /\ MayWrite(w) /\ LocksOf(w, TRUE) /\ UNCHANGED <<items, blobs, commits, call, effect, Clock>>
         /\ TxnMoves(w, TxnAt(IF r.at = "begin" THEN "look" ELSE r.at, r.held, r.moment, x.items, x.blobs, Txn[w].snapshot))
         /\ Txn[w].at = IF txn[w].at = "insert" THEN "blob" ELSE txn[w].at
         /\ Txn[w].held = txn[w].held /\ Txn[w].moment = txn[w].moment
         /\ Txn[w].items = db[dbOf[w]].items /\ Txn[w].blobs = db[dbOf[w]].blobs
<1> DEFINE c == dbOf[w]
           e == effect[w]
           d == db[c]
<1>1. UNCHANGED <<items, blobs, commits, now, dbOf, setBack, txnDepth, call, effect>>
  BY DEF worldVars
<1>2. /\ txn[w] \in Visits /\ c \in Dbs /\ Sound(txn[w], call[w], e) /\ e \in Effects
      /\ call[w] \in Tools \union {NoCallYet} /\ d \in Connections /\ Txn[w] = TxnFor(txn[w], e, d)
      /\ Txn[w] = TxnOf(w)
  BY TxnIs
<1>3. e = "none" /\ txn[w].names # <<>>
  BY <1>2 DEF Sound, Effects
<1>4. /\ Alone(w) /\ Nested(w) /\ call[w] # NoCallYet /\ Seen(c) = d /\ d.stack # <<>>
  BY <1>3, HereIs
<1>5. Works(txn[w], e) /\ Works(r, e)
  BY <1>3 DEF Works
<1>6. /\ Stage(txn[w], e) = IF txn[w].at = "insert" THEN "blob" ELSE txn[w].at
      /\ Stage(r, e) = IF r.at = "begin" THEN "look" ELSE r.at
  BY <1>3, <1>5 DEF Stage
<1>7. /\ Txn[w].at = IF txn[w].at = "insert" THEN "blob" ELSE txn[w].at
      /\ Txn[w].held = txn[w].held /\ Txn[w].moment = txn[w].moment
      /\ Txn[w].items = d.items /\ Txn[w].blobs = d.blobs /\ Txn[w].snapshot = d.snapshot
  <2> DEFINE t == txn[w]
  <2>1. /\ t \in Visits /\ Sound(t, call[w], e) /\ e \in Effects /\ call[w] \in Tools \union {NoCallYet}
        /\ d \in Connections /\ Txn[w] = TxnFor(t, e, d) /\ Stage(t, e) = IF t.at = "insert" THEN "blob" ELSE t.at
        /\ Stage(t, e) \in Reading
    BY <1>2, <1>6 DEF Reading
  <2> HIDE DEF t, d, e
  <2>2. /\ TxnFor(t, e, d).at = Stage(t, e) /\ TxnFor(t, e, d).held = t.held /\ TxnFor(t, e, d).moment = t.moment
        /\ TxnFor(t, e, d).items = d.items /\ TxnFor(t, e, d).blobs = d.blobs /\ TxnFor(t, e, d).snapshot = d.snapshot
    BY <2>1, TxnForIs
  <2> QED
    BY <2>1, <2>2 DEF t
<1>8. writing \in {c, NoWriter} /\ writing' \in {c, NoWriter}
  BY DEF CanWrite
<1>9. OnlyMoves(w) /\ txn'[w] = r
  BY <1>1, <1>8, StepIs
<1>10. db'[c] = x
  BY <1>2 DEF StoreKept, Disk, DiskTyped
<1>11. Nested(w)'
  <2>1. NestedIn(txn[w], d, txnDepth[c])
    BY <1>4 DEF Nested
  <2>2. NestedIn(r, x, txnDepth[c])
    BY <2>1 DEF NestedIn
  <2> QED
    BY <1>1, <1>9, <1>10, <2>2 DEF Nested
<1>12. Shape'
  BY <1>1, <1>4, <1>9, <1>11, OneShape DEF Ahead
<1>13. MayWrite(w)
  BY <1>3, <1>5, <1>7, MayWriteIs
<1>14. TxnMoves(w, TxnOf(w)') /\ (\A u \in Writers \ {w} : Locks(u)' <=> Locks(u))
  BY <1>4, <1>9, OneMoves
<1>15. TxnOf(w)' = TxnAt(IF r.at = "begin" THEN "look" ELSE r.at, r.held, r.moment, x.items, x.blobs, d.snapshot)
  <2>1. TxnOf(w)' = TxnFor(r, e, x)
    BY <1>1, <1>9, <1>10 DEF TxnOf
  <2>2. Stage(r, e) \in Reading /\ Stage(r, e) # "none"
    BY <1>6 DEF Reading
  <2> QED
    BY <1>6, <2>1, <2>2 DEF TxnFor
<1>16. LocksOf(w, TRUE)
  <2>1. Locks(w)'
    BY <1>1, <1>5, <1>9 DEF Locks, Working
  <2> QED
    BY <1>14, <2>1 DEF LocksOf
<1> QED
  BY <1>1, <1>7, <1>12, <1>13, <1>14, <1>15, <1>16 DEF Clock

LEMMA InsertsShaped ==
  ASSUME StoreKept, Ahead, Shape, NEW w \in Writers, InsertsBlob(w)
  PROVE  Shaped
<1> DEFINE c == dbOf[w]
           b == txn[w].blob
           more == Seen(c).blobs \union {b}
           r == [txn[w] EXCEPT !.at = "begin", !.blob = NoBlob]
<1>1. /\ txn[w].at = "insert" /\ Writes(c, Seen(c).items, more) /\ Goes(w, r)
      /\ UNCHANGED <<txnDepth, worldVars, call, effect>>
  BY DEF InsertsBlob
<1>2. txn[w] \in Visits /\ c \in Dbs /\ Sound(txn[w], call[w], effect[w]) /\ DiskTyped
  BY TxnIs DEF StoreKept, Disk
<1>3. txn[w].names # <<>> /\ b \in Blobs /\ b.hash = call[w].value
  BY <1>1, <1>2 DEF Sound
<1>4. Nested(w) /\ Seen(c) = db[c] /\ db[c].stack # <<>> /\ Seen(c).items \in Seq(Rows) /\ Seen(c).blobs \in SUBSET Blobs
  BY <1>1, <1>3, HereIs
<1>5. ~IsStored(db[c].blobs, b.hash) /\ FitsOn(b, db[c].blobs)
  BY <1>1, <1>4 DEF Nested, NestedIn
<1>6. r.at = "begin" /\ r.names = txn[w].names /\ r.held = txn[w].held /\ r.moment = txn[w].moment
  BY <1>2 DEF Visits
<1>7. more \in SUBSET Blobs /\ more = db[c].blobs \union {b}
  BY <1>3, <1>4
<1> HIDE DEF r, more
<1>8. CanWrite(c) /\ writing' = c /\ UNCHANGED <<items, blobs, commits>>
  BY <1>1, <1>2, <1>4, <1>7, WritesOn
<1>9. PICK x : /\ db' = [db EXCEPT ![c] = x] /\ x.items = Seen(c).items /\ x.blobs = more /\ x.stack = db[c].stack
               /\ x.snapshot = db[c].snapshot
  BY <1>1, <1>2, <1>4, <1>7, WritesOn
<1>10. /\ Shape' /\ MayWrite(w) /\ LocksOf(w, TRUE) /\ UNCHANGED <<items, blobs, commits, call, effect, Clock>>
       /\ TxnMoves(w, TxnAt("look", r.held, r.moment, x.items, x.blobs, Txn[w].snapshot))
       /\ Txn[w].at = "blob" /\ Txn[w].held = txn[w].held /\ Txn[w].moment = txn[w].moment
       /\ Txn[w].items = db[c].items /\ Txn[w].blobs = db[c].blobs
  BY <1>1, <1>6, <1>8, <1>9, StatementMoves
<1>11. TxnFilled(w)
  <2>1. TxnGoes(w, "look", Txn[w].items, Txn[w].blobs \union {b})
    BY <1>4, <1>6, <1>7, <1>9, <1>10 DEF TxnGoes
  <2> QED
    BY <1>3, <1>5, <1>10, <2>1 DEF TxnFilled
<1> QED
  BY <1>10, <1>11 DEF Shaped, TxnStep

LEMMA ClosesShaped ==
  ASSUME StoreKept, Ahead, Shape, NEW w \in Writers, ClosesHeld(w)
  PROVE  Shaped
<1> DEFINE c == dbOf[w]
           held == txn[w].held
           m == txn[w].moment
           rows == db[c].items
           more == IF held \in DOMAIN rows THEN RowClosed(rows, held, m) ELSE rows
           r == [txn[w] EXCEPT !.at = "add"]
<1>1. txn[w].at = "close" /\ Goes(w, r) /\ UNCHANGED <<txnDepth, worldVars, call, effect>>
  BY DEF ClosesHeld, StandsAt
<1>2. txn[w] \in Visits /\ c \in Dbs /\ Sound(txn[w], call[w], effect[w]) /\ DiskTyped /\ m \in 0 .. MaxTime
  BY TxnIs DEF StoreKept, Disk, Visits
<1>3. txn[w].names # <<>>
  BY <1>1, <1>2 DEF Sound
<1>4. Seen(c) = db[c] /\ db[c].stack # <<>> /\ Seen(c).items \in Seq(Rows) /\ Seen(c).blobs \in SUBSET Blobs
  BY <1>1, <1>3, HereIs
<1>5. r.at = "add" /\ r.names = txn[w].names /\ r.held = txn[w].held /\ r.moment = txn[w].moment
  BY <1>2 DEF Visits
<1> HIDE DEF r
<1>6. /\ CanWrite(c) /\ writing' = c /\ UNCHANGED <<items, blobs, commits>>
      /\ \E x : /\ db' = [db EXCEPT ![c] = x] /\ x.items = more /\ x.blobs = db[c].blobs /\ x.stack = db[c].stack
                /\ x.snapshot = db[c].snapshot
  <2>1. CASE held \in DOMAIN rows
    <3>1. Writes(c, [rows EXCEPT ![held] = [@ EXCEPT !.to = m]], db[c].blobs)
      BY <1>4, <2>1 DEF ClosesHeld
    <3>2. held # 0
      BY <1>4, <2>1, RowIs
    <3>3. more = [rows EXCEPT ![held] = [@ EXCEPT !.to = m]]
      BY <2>1, <3>2 DEF RowClosed
    <3>4. more \in Seq(Rows)
      <4>1. held \in {0} \union DOMAIN rows /\ rows \in Seq(Rows) /\ more = RowClosed(rows, held, m)
        BY <1>4, <2>1
      <4> HIDE DEF more, rows, held
      <4> QED
        BY <1>2, <4>1, ClosedIs
    <3>5. Writes(c, more, db[c].blobs) /\ db[c].blobs \in SUBSET Blobs
      BY <1>4, <3>1, <3>3
    <3> HIDE DEF more
    <3> QED
      BY <1>2, <1>4, <3>4, <3>5, WritesOn
  <2>2. CASE held \notin DOMAIN rows
    <3>1. WritesNothing(c) /\ more = db[c].items
      BY <1>4, <2>2 DEF ClosesHeld
    <3> HIDE DEF more
    <3> QED
      BY <1>2, <1>4, <3>1, NothingOn
  <2> QED
    BY <2>1, <2>2
<1> HIDE DEF more
<1>7. PICK x : /\ db' = [db EXCEPT ![c] = x] /\ x.items = more /\ x.blobs = db[c].blobs /\ x.stack = db[c].stack
               /\ x.snapshot = db[c].snapshot
  BY <1>6
<1>8. /\ Shape' /\ MayWrite(w) /\ LocksOf(w, TRUE) /\ UNCHANGED <<items, blobs, commits, call, effect, Clock>>
      /\ TxnMoves(w, TxnAt("add", r.held, r.moment, x.items, x.blobs, Txn[w].snapshot))
      /\ Txn[w].at = "close" /\ Txn[w].held = txn[w].held /\ Txn[w].moment = txn[w].moment
      /\ Txn[w].items = db[c].items /\ Txn[w].blobs = db[c].blobs
  BY <1>1, <1>5, <1>6, <1>7, StatementMoves
<1>9. TxnClosed(w)
  <2>1. TxnGoes(w, "add", more, Txn[w].blobs)
    BY <1>5, <1>7, <1>8 DEF TxnGoes
  <2> QED
    BY <1>8, <2>1 DEF TxnClosed, more
<1> QED
  BY <1>8, <1>9 DEF Shaped, TxnStep

LEMMA AddsShaped ==
  ASSUME StoreKept, Ahead, Shape, NEW w \in Writers, Adds(w)
  PROVE  Shaped
<1> DEFINE c == dbOf[w]
           more == Added(Seen(c).items, call[w], txn[w].moment)
           r == [txn[w] EXCEPT !.at = "release"]
<1>1. /\ txn[w].at = "add" /\ Goes(w, r) /\ Writes(c, more, Seen(c).blobs)
      /\ UNCHANGED <<txnDepth, worldVars, call, effect>>
  BY DEF Adds, StandsAt, Added
<1>2. /\ txn[w] \in Visits /\ c \in Dbs /\ Sound(txn[w], call[w], effect[w]) /\ DiskTyped
      /\ txn[w].moment \in 0 .. MaxTime
  BY TxnIs DEF StoreKept, Disk, Visits
<1>3. txn[w].names # <<>> /\ call[w].op \in {"put", "remember"}
  BY <1>1, <1>2 DEF Sound
<1>4. /\ Seen(c) = db[c] /\ db[c].stack # <<>> /\ Seen(c).items \in Seq(Rows) /\ Seen(c).blobs \in SUBSET Blobs
      /\ call[w] \in Tools
  BY <1>1, <1>3, HereIs
<1>5. r.at = "release" /\ r.names = txn[w].names /\ r.held = txn[w].held /\ r.moment = txn[w].moment
  BY <1>2 DEF Visits
<1>6. more \in Seq(Rows) /\ more = Added(db[c].items, call[w], txn[w].moment)
  BY <1>2, <1>3, <1>4, AddedIs
<1> HIDE DEF r, more
<1>7. CanWrite(c) /\ writing' = c /\ UNCHANGED <<items, blobs, commits>>
  BY <1>1, <1>2, <1>4, <1>6, WritesOn
<1>8. PICK x : /\ db' = [db EXCEPT ![c] = x] /\ x.items = more /\ x.blobs = Seen(c).blobs /\ x.stack = db[c].stack
               /\ x.snapshot = db[c].snapshot
  BY <1>1, <1>2, <1>4, <1>6, WritesOn
<1>9. /\ Shape' /\ MayWrite(w) /\ LocksOf(w, TRUE) /\ UNCHANGED <<items, blobs, commits, call, effect, Clock>>
      /\ TxnMoves(w, TxnAt("release", r.held, r.moment, x.items, x.blobs, Txn[w].snapshot))
      /\ Txn[w].at = "add" /\ Txn[w].held = txn[w].held /\ Txn[w].moment = txn[w].moment
      /\ Txn[w].items = db[c].items /\ Txn[w].blobs = db[c].blobs
  BY <1>1, <1>5, <1>7, <1>8, StatementMoves
<1>10. TxnAdded(w)
  <2>1. TxnGoes(w, "release", Added(Txn[w].items, call[w], Txn[w].moment), Txn[w].blobs)
    BY <1>4, <1>5, <1>6, <1>8, <1>9 DEF TxnGoes
  <2> QED
    BY <1>9, <2>1 DEF TxnAdded
<1> QED
  BY <1>9, <1>10 DEF Shaped, TxnStep

Fewer(names) == SubSeq(names, 1, Len(names) - 1)
TopOff(stack) == IF Len(stack) > 1 THEN SubSeq(stack, 1, Len(stack) - 1) ELSE <<>>

LEMMA FewerNames ==
  ASSUME NEW names \in Seq(Int), names # <<>>
  PROVE  /\ Fewer(names) \in Seq(Int) /\ Len(Fewer(names)) = Len(names) - 1
         /\ \A i \in 1 .. Len(names) - 1 : Fewer(names)[i] = names[i]
         /\ Fewer(names) = <<>> <=> Len(names) = 1
<1>1. /\ Fewer(names) \in Seq(Int) /\ Len(Fewer(names)) = Len(names) - 1
      /\ \A i \in 1 .. Len(names) - 1 : Fewer(names)[i] = names[i]
  BY ShorterIs DEF Fewer
<1>2. Len(names) \in Nat /\ Len(names) > 0
  OBVIOUS
<1>3. Fewer(names) = <<>> <=> Len(Fewer(names)) = 0
  BY <1>1, EmptySeq
<1> QED
  BY <1>1, <1>2, <1>3

LEMMA FewerSaved ==
  ASSUME NEW stack \in Seq(Saved), stack # <<>>
  PROVE  Len(TopOff(stack)) = Len(stack) - 1 /\ \A i \in 1 .. Len(stack) - 1 : TopOff(stack)[i] = stack[i]
<1>1. Len(stack) \in Nat /\ Len(stack) > 0
  OBVIOUS
<1>2. CASE Len(stack) > 1
  <2> DEFINE n == Len(stack)
             p == SubSeq(stack, 1, n - 1)
  <2>1. n \in DOMAIN stack /\ n > 1 /\ n \in Nat
    BY <1>1, <1>2
  <2> HIDE DEF n
  <2>2. p \in Seq(Saved) /\ Len(p) = n - 1 /\ \A j \in DOMAIN p : p[j] = stack[j]
    BY <2>1, PrefixIs
  <2>3. TopOff(stack) = p
    BY <1>2 DEF TopOff, n
  <2> HIDE DEF p
  <2>4. DOMAIN p = 1 .. n - 1
    BY <2>1, <2>2
  <2> QED
    BY <2>2, <2>3, <2>4 DEF n
<1>3. CASE Len(stack) = 1
  BY <1>3 DEF TopOff
<1>4. Len(stack) > 1 \/ Len(stack) = 1
  <2> DEFINE n == Len(stack)
  <2>1. n \in Nat /\ n > 0
    BY <1>1
  <2> HIDE DEF n
  <2>2. n > 1 \/ n = 1
    BY <2>1
  <2> QED
    BY <2>2 DEF n
<1> QED
  BY <1>2, <1>3, <1>4

(* What nests without its innermost savepoint.                             *)
LEMMA FewerIs ==
  ASSUME NEW t, NEW d, NEW depth, NestedIn(t, d, depth), t.names \in Seq(Int), t.names # <<>>, d.stack \in Seq(Saved)
  PROVE  /\ Len(t.names) \in Nat /\ Len(t.names) >= 1 /\ Len(d.stack) = Len(t.names)
         /\ Len(Fewer(t.names)) = Len(t.names) - 1 /\ \A i \in 1 .. Len(t.names) - 1 : Fewer(t.names)[i] = i - 1
         /\ Len(TopOff(d.stack)) = Len(t.names) - 1 /\ \A i \in 1 .. Len(t.names) - 1 : TopOff(d.stack)[i].name = i - 1
         /\ Fewer(t.names) = <<>> <=> Len(t.names) = 1
<1> DEFINE n == Len(t.names)
<1>1. n \in Nat /\ n >= 1
  OBVIOUS
<1>2. Len(d.stack) = n /\ \A i \in 1 .. n : t.names[i] = i - 1 /\ d.stack[i].name = i - 1
  BY DEF NestedIn
<1>3. /\ Len(Fewer(t.names)) = n - 1 /\ \A i \in 1 .. n - 1 : Fewer(t.names)[i] = t.names[i]
      /\ Fewer(t.names) = <<>> <=> n = 1
  BY FewerNames
<1>4. d.stack # <<>>
  BY <1>1, <1>2
<1>5. Len(TopOff(d.stack)) = n - 1 /\ \A i \in 1 .. n - 1 : TopOff(d.stack)[i] = d.stack[i]
  BY <1>2, <1>4, FewerSaved
<1> HIDE DEF n
<1>6. \A i \in 1 .. n - 1 : i \in 1 .. n
  BY <1>1
<1> QED
  BY <1>1, <1>2, <1>3, <1>5, <1>6 DEF n

LEMMA InnermostIs ==
  ASSUME StoreKept, Shape, NEW w \in Writers, txn[w].at # "none", txn[w].names # <<>>
  PROVE  /\ Savepoints(dbOf[w], Innermost(w)) # {}
         /\ Topmost(dbOf[w], Innermost(w)) = Len(txn[w].names)
<1> DEFINE c == dbOf[w]
           n == Len(txn[w].names)
           stack == db[c].stack
<1>1. /\ Nested(w) /\ n \in Nat /\ n > 0 /\ c \in Dbs /\ stack \in Seq(Saved)
  BY HereIs
<1>2. /\ txn[w].names[n] = n - 1 /\ Len(stack) = n /\ \A i \in 1 .. n : stack[i].name = i - 1
  BY <1>1 DEF Nested, NestedIn
<1>3. Innermost(w) = n - 1 /\ DOMAIN stack = 1 .. n
  BY <1>1, <1>2 DEF Innermost
<1>4. \A i : i \in Savepoints(c, n - 1) <=> i \in 1 .. n /\ i - 1 = n - 1
  <2>1. Savepoints(c, n - 1) = {i \in DOMAIN stack : stack[i].name = n - 1}
    BY DEF Savepoints
  <2> HIDE DEF stack, n
  <2> QED
    BY <1>2, <1>3, <2>1
<1>5. n \in Savepoints(c, n - 1)
  BY <1>1, <1>4
<1>6. Topmost(c, n - 1) \in Savepoints(c, n - 1)
  BY <1>1, <1>5, TopmostIs DEF StoreKept, Disk
<1>7. Topmost(c, n - 1) = n
  <2> DEFINE m == Topmost(c, n - 1)
  <2>1. m \in 1 .. n /\ m - 1 = n - 1
    BY <1>4, <1>6
  <2> HIDE DEF m
  <2>2. m = n
    BY <1>1, <2>1
  <2> QED
    BY <2>2 DEF m
<1> QED
  BY <1>3, <1>5, <1>7

LEMMA ReleasesShaped ==
  ASSUME StoreKept, Ahead, Shape, NEW w \in Writers, Releases(w)
  PROVE  Shaped
<1> DEFINE c == dbOf[w]
           t == txn[w]
           n == Len(t.names)
           rest == Fewer(t.names)
           left == TopOff(db[c].stack)
           r == [t EXCEPT !.at = "leave", !.names = rest, !.number = txnDepth[c]]
           e == effect[w]
           d == db[c]
<1>1. /\ t.at = "release" /\ Release(c, Innermost(w)) /\ Goes(w, r)
      /\ effect' = IF rest = <<>> THEN [effect EXCEPT ![w] = "done"] ELSE effect
      /\ UNCHANGED <<txnDepth, now, dbOf, overlapped, setBack, call>>
  BY DEF Releases, worldVars, Fewer
<1>2. /\ t \in Visits /\ c \in Dbs /\ Sound(t, call[w], e) /\ e \in Effects
      /\ call[w] \in Tools \union {NoCallYet} /\ d \in Connections /\ Txn[w] = TxnFor(t, e, d) /\ Txn[w] = TxnOf(w)
      /\ db \in [Dbs -> Connections] /\ effect \in [Writers -> Effects]
  BY TxnIs DEF StoreKept, Disk, DiskTyped, Serving, CallsTyped
<1>3. t.names # <<>> /\ e = "none"
  BY <1>1, <1>2 DEF Sound, Effects
<1>4. /\ Alone(w) /\ Nested(w) /\ call[w] # NoCallYet /\ t.names \in Seq(Int) /\ d.stack \in Seq(Saved)
      /\ n \in Nat /\ n > 0
  BY <1>1, <1>3, HereIs
<1>5. NestedIn(t, d, txnDepth[c])
  BY <1>4 DEF Nested
<1>6. /\ Len(rest) = n - 1 /\ \A i \in 1 .. n - 1 : rest[i] = i - 1
      /\ Len(left) = n - 1 /\ \A i \in 1 .. n - 1 : left[i].name = i - 1
      /\ (rest = <<>> <=> n = 1) /\ Len(d.stack) = n
  <2> DEFINE depth == txnDepth[c]
  <2>1. NestedIn(t, d, depth) /\ t.names \in Seq(Int) /\ t.names # <<>> /\ d.stack \in Seq(Saved)
    BY <1>3, <1>4, <1>5
  <2> HIDE DEF t, d, depth
  <2>2. /\ Len(Fewer(t.names)) = Len(t.names) - 1 /\ \A i \in 1 .. Len(t.names) - 1 : Fewer(t.names)[i] = i - 1
        /\ Len(TopOff(d.stack)) = Len(t.names) - 1 /\ \A i \in 1 .. Len(t.names) - 1 : TopOff(d.stack)[i].name = i - 1
        /\ (Fewer(t.names) = <<>> <=> Len(t.names) = 1) /\ Len(d.stack) = Len(t.names)
    BY <2>1, FewerIs
  <2> QED
    BY <2>2 DEF d
<1>7. Topmost(c, Innermost(w)) = n
  BY <1>1, <1>3, InnermostIs
<1>8. txnDepth[c] = n
  BY <1>1, <1>5 DEF NestedIn
<1> HIDE DEF rest, left
<1>9. r.at = "leave" /\ r.names = rest /\ r.number = n /\ r.held = t.held /\ r.moment = t.moment
  BY <1>2, <1>8 DEF Visits
<1> HIDE DEF r
<1>10. ASSUME NEW x, x.stack = left PROVE NestedIn(r, x, txnDepth[c])
  <2>1. n - 1 + 1 = n
    BY <1>4
  <2> HIDE DEF n
  <2> QED
    BY <1>6, <1>8, <1>9, <1>10, <2>1 DEF NestedIn
<1>11. /\ Works(t, e) /\ Stage(t, e) = "release" /\ Txn[w].at = "release"
       /\ TxnFor(t, e, d) = TxnAt("release", t.held, t.moment, d.items, d.blobs, d.snapshot)
       /\ Txn[w].items = d.items /\ Txn[w].blobs = d.blobs
  <2>1. Works(t, e) /\ Stage(t, e) = "release"
    BY <1>1, <1>2, <1>3, StageIs DEF Works, Reading
  <2>2. /\ t \in Visits /\ Sound(t, call[w], e) /\ e \in Effects /\ call[w] \in Tools \union {NoCallYet}
        /\ d \in Connections /\ Stage(t, e) = "release" /\ Stage(t, e) \in Reading
    BY <1>2, <2>1 DEF Reading
  <2> HIDE DEF t, e, d
  <2>3. /\ TxnFor(t, e, d).at = Stage(t, e) /\ TxnFor(t, e, d).items = d.items /\ TxnFor(t, e, d).blobs = d.blobs
        /\ TxnFor(t, e, d) = TxnAt(Stage(t, e), t.held, t.moment, d.items, d.blobs, d.snapshot)
    BY <2>2, TxnForIs
  <2> QED
    BY <1>2, <2>1, <2>3
<1>12. CASE n > 1
  <2> DEFINE x == [d EXCEPT !.stack = SubSeq(d.stack, 1, n - 1)]
  <2>1. db' = [db EXCEPT ![c] = x] /\ UNCHANGED storeVars
    BY <1>1, <1>2, <1>7, <1>12 DEF Release
  <2>2. x.stack = left /\ x.items = d.items /\ x.blobs = d.blobs /\ x.snapshot = d.snapshot
    BY <1>2, <1>6, <1>12 DEF Connections, left, TopOff
  <2> HIDE DEF x
  <2>3. db'[c] = x /\ UNCHANGED <<items, blobs, commits, writing, effect>>
    BY <1>1, <1>2, <1>6, <1>12, <2>1 DEF storeVars
  <2>4. OnlyMoves(w) /\ txn'[w] = r
    BY <1>1, <2>1, <2>3, StepIs
  <2>5. Nested(w)'
    BY <1>1, <1>10, <2>2, <2>3, <2>4 DEF Nested
  <2>6. Shape'
    BY <1>1, <1>4, <2>4, <2>5, OneShape DEF Ahead
  <2>7. Works(r, e) /\ Stage(r, e) = "release"
    BY <1>3, <1>9 DEF Works, Stage
  <2>8. TxnOf(w)' = TxnOf(w)
    <3>1. TxnOf(w)' = TxnFor(r, e, x)
      BY <1>1, <2>3, <2>4 DEF TxnOf
    <3>2. TxnFor(r, e, x) = TxnAt("release", t.held, t.moment, d.items, d.blobs, d.snapshot)
      BY <1>9, <2>2, <2>7 DEF TxnFor, Reading
    <3> QED
      BY <1>2, <1>11, <3>1, <3>2
  <2>9. Locks(w)' <=> Locks(w)
    BY <1>1, <1>11, <2>3, <2>4, <2>7 DEF Locks, Working
  <2>10. TxnStep
    BY <1>1, <1>4, <2>3, <2>4, <2>8, <2>9, NoneMoves
  <2> QED
    BY <2>6, <2>10 DEF Shaped
<1>13. CASE n = 1
  <2>1. /\ db' = [db EXCEPT ![c] = NotInTxn]
        /\ IF writing = c
             THEN items' = d.items /\ blobs' = d.blobs /\ commits' = commits + 1 /\ writing' = NoWriter
             ELSE UNCHANGED storeVars
    BY <1>1, <1>7, <1>13 DEF Release
  <2>2. rest = <<>> /\ effect' = [effect EXCEPT ![w] = "done"] /\ effect'[w] = "done"
    BY <1>1, <1>2, <1>6, <1>13
  <2>3. db'[c] = NotInTxn /\ NotInTxn.stack = left
    <3>1. left = <<>>
      BY <1>6, <1>13 DEF left, TopOff
    <3> QED
      BY <1>2, <2>1, <3>1 DEF NotInTxn
  <2>4. writing' = writing \/ (writing \in {c, NoWriter} /\ writing' \in {c, NoWriter})
    BY <2>1 DEF storeVars
  <2>5. OnlyMoves(w) /\ txn'[w] = r
    BY <1>1, <2>1, <2>2, <2>4, StepIs
  <2>6. Nested(w)'
    BY <1>1, <1>10, <2>3, <2>5 DEF Nested
  <2>7. Shape'
    BY <1>1, <1>4, <2>5, <2>6, OneShape DEF Ahead
  <2>8. ~Works(r, "done")
    BY DEF Works
  <2>9. TxnOf(w)' = Out
    <3>1. TxnOf(w)' = TxnFor(r, "done", db'[c])
      BY <1>1, <2>2, <2>5 DEF TxnOf
    <3> QED
      BY <2>8, <3>1 DEF TxnFor, Stage
  <2>10. TxnMoves(w, TxnOf(w)') /\ (\A u \in Writers \ {w} : Locks(u)' <=> Locks(u))
    BY <1>4, <2>5, OneMoves
  <2>11. LocksOf(w, FALSE)
    <3>1. ~Locks(w)'
      BY <2>2, <2>5, <2>8 DEF Locks, Working
    <3> QED
      BY <2>10, <3>1 DEF LocksOf
  <2>12. Locks(w) <=> writing = c
    BY <1>11 DEF Locks, Working
  <2>13. IF Locks(w) THEN items' = Txn[w].items /\ blobs' = Txn[w].blobs /\ commits' = commits + 1
         ELSE UNCHANGED <<items, blobs, commits>>
    BY <1>11, <2>1, <2>12 DEF storeVars
  <2>14. TxnCommitted(w)
    BY <1>1, <1>11, <2>2, <2>9, <2>10, <2>11, <2>13 DEF TxnCommitted, Clock
  <2> QED
    BY <2>7, <2>14 DEF Shaped, TxnStep
<1>14. n > 1 \/ n = 1
  <2>1. n \in Nat /\ n > 0
    BY <1>4
  <2> HIDE DEF n
  <2> QED
    BY <2>1
<1> QED
  BY <1>12, <1>13, <1>14

LEMMA LeavesShaped ==
  ASSUME StoreKept, Ahead, Shape, NEW w \in Writers, Leaves(w)
  PROVE  Shaped
<1> DEFINE c == dbOf[w]
           t == txn[w]
           n == Len(t.names)
           e == effect[w]
           d == db[c]
           s == [t EXCEPT !.at = "release", !.number = 0]
           r == IF t.names = <<>> THEN NoTxn ELSE s
<1>1. /\ t.at = "leave" /\ txnDepth' = [txnDepth EXCEPT ![c] = t.number - 1] /\ Goes(w, r)
      /\ UNCHANGED <<items, blobs, commits, writing, db, now, dbOf, setBack, call, effect>>
  BY DEF Leaves, storeVars, worldVars
<1>2. /\ t \in Visits /\ c \in Dbs /\ Sound(t, call[w], e) /\ e \in Effects
      /\ d \in Connections /\ txnDepth \in [Dbs -> Int]
  BY TxnIs DEF StoreKept, Serving, CallsTyped
<1>3. Alone(w) /\ Nested(w) /\ call[w] # NoCallYet /\ n \in Nat
  BY <1>1, HereIs
<1>4. NestedIn(t, d, txnDepth[c])
  BY <1>3 DEF Nested
<1>5. t.number - 1 = n
  <2>1. t.number = n + 1
    BY <1>1, <1>4 DEF NestedIn
  <2> HIDE DEF n
  <2> QED
    BY <1>3, <2>1
<1>6. txnDepth'[c] = n
  BY <1>1, <1>2, <1>5
<1>7. s.at = "release" /\ s.names = t.names /\ s.held = t.held /\ s.moment = t.moment
  BY <1>2 DEF Visits
<1> HIDE DEF s
<1>8. OnlyMoves(w) /\ txn'[w] = r
  <2> HIDE DEF r
  <2> QED
    BY <1>1, StepIs
<1>9. r.names = t.names /\ r.at \in {"none", "release"}
  BY <1>7 DEF NoTxn
<1>10. Nested(w)'
  <2>1. NestedIn(r, d, n)
    BY <1>4, <1>9 DEF NestedIn
  <2> QED
    BY <1>1, <1>6, <1>8, <2>1 DEF Nested
<1>11. Shape'
  BY <1>1, <1>3, <1>8, <1>10, OneShape DEF Ahead
<1>12. TxnFor(r, e, d) = TxnFor(t, e, d) /\ (Works(r, e) <=> Works(t, e))
  <2>1. CASE t.names = <<>>
    <3>1. e = "done" /\ ~Works(r, e) /\ ~Works(t, e)
      BY <1>1, <1>2, <2>1 DEF Sound, Works
    <3> QED
      BY <3>1 DEF TxnFor, Stage
  <2>2. CASE t.names # <<>>
    <3>1. e = "none"
      BY <1>1, <1>2, <2>2 DEF Sound, Effects
    <3>2. r = s /\ Works(r, e) /\ Works(t, e)
      BY <1>1, <1>7, <2>2, <3>1 DEF Works
    <3>3. Stage(r, e) = "release" /\ Stage(t, e) = "release"
      BY <1>1, <1>7, <3>2 DEF Stage
    <3> QED
      BY <1>7, <3>2, <3>3 DEF TxnFor
  <2> QED
    BY <2>1, <2>2
<1>13. TxnOf(w)' = TxnOf(w) /\ (Locks(w)' <=> Locks(w))
  BY <1>1, <1>8, <1>12 DEF TxnOf, Locks, Working
<1> QED
  BY <1>1, <1>3, <1>8, <1>11, <1>13, NoneMoves DEF Shaped

LEMMA ThrowsShaped ==
  ASSUME StoreKept, Ahead, Shape, NEW w \in Writers, Throws(w)
  PROVE  Shaped
<1> DEFINE c == dbOf[w]
           t == txn[w]
           table == Seen(c).blobs
           e == effect[w]
           d == db[c]
           r == txn'[w]
<1>1. /\ \/ /\ t.at = "blob" /\ ~IsStored(table, call[w].value)
            /\ Follows(table, t.base) /\ t.base \notin Loadable(table)
         \/ t.at = "insert" /\ (IsStored(table, t.blob.hash) \/ ~CanWrite(c))
         \/ t.at \in {"close", "add", "forget"} /\ ~CanWrite(c)
         \/ t.at = "release" /\ Savepoints(c, Innermost(w)) = {}
      /\ GoesWrong(w) /\ UNCHANGED <<storeVars, connVars, worldVars, call>>
  BY DEF Throws
<1>2. /\ t \in Visits /\ c \in Dbs /\ Sound(t, call[w], e) /\ e \in Effects
      /\ call[w] \in Tools \union {NoCallYet} /\ d \in Connections /\ Txn[w] = TxnFor(t, e, d)
      /\ txn \in [Writers -> Visits] /\ effect \in [Writers -> Effects]
  BY TxnIs DEF StoreKept, Serving, CallsTyped
<1>3. t.at \in {"blob", "insert", "close", "add", "forget", "release"} /\ t.at # "none"
  BY <1>1
<1>4. e = "none" /\ (t.at # "forget" => t.names # <<>>) /\ (t.at = "forget" => t.names = <<>>)
  BY <1>2, <1>3 DEF Sound, Effects
<1>5. Alone(w) /\ Nested(w) /\ call[w] # NoCallYet /\ (t.names # <<>> => Seen(c) = d)
  BY <1>3, HereIs
<1>6. t.at # "release"
  BY <1>1, <1>4, InnermostIs
<1>7. /\ effect' = [effect EXCEPT ![w] = "refused"] /\ Goes(w, r)
      /\ r = IF t.names = <<>> THEN NoTxn ELSE [t EXCEPT !.at = "failed"]
  BY <1>1, <1>2 DEF GoesWrong, StandsAt, Goes
<1>8. r.names = t.names /\ r.at \in {"none", "failed"}
  <2>1. CASE t.names = <<>>
    BY <1>7, <2>1 DEF NoTxn
  <2>2. CASE t.names # <<>>
    BY <1>2, <1>7, <2>2 DEF Visits
  <2> QED
    BY <2>1, <2>2
<1> HIDE DEF r
<1>9. NestedIn(r, d, txnDepth[c])
  BY <1>3, <1>5, <1>8 DEF Nested, NestedIn
<1>10. /\ Shape' /\ OnlyMoves(w) /\ TxnOf(w)' = TxnFor(r, effect'[w], d)
       /\ Locks(w)' <=> writing = c /\ Works(r, effect'[w])
       /\ UNCHANGED <<items, blobs, commits, writing, now, setBack>>
  BY <1>1, <1>3, <1>7, <1>9, QuietIs
<1>11. effect'[w] = "refused" /\ ~Works(r, effect'[w])
  BY <1>2, <1>7 DEF Works
<1>12. TxnOf(w)' = Out /\ ~Locks(w)'
  BY <1>10, <1>11 DEF TxnFor, Stage
<1>13. TxnMoves(w, Out) /\ LocksOf(w, FALSE)
  <2>1. TxnMoves(w, TxnOf(w)') /\ (\A u \in Writers \ {w} : Locks(u)' <=> Locks(u))
    BY <1>5, <1>10, OneMoves
  <2> QED
    BY <1>12, <2>1 DEF LocksOf
<1>14. /\ Txn[w].at = IF t.at = "insert" THEN "blob" ELSE t.at
       /\ t.at # "forget" => Txn[w].blobs = d.blobs
  <2>1. Works(t, e) /\ Stage(t, e) = IF t.at = "insert" THEN "blob" ELSE t.at
    BY <1>3, <1>4, <1>6 DEF Works, Stage
  <2>2. /\ t \in Visits /\ Sound(t, call[w], e) /\ e \in Effects /\ call[w] \in Tools \union {NoCallYet}
        /\ d \in Connections /\ (t.at # "forget" => Stage(t, e) \in Reading)
    BY <1>2, <1>3, <1>6, <2>1 DEF Reading
  <2> HIDE DEF t, e, d
  <2>3. TxnFor(t, e, d).at = Stage(t, e) /\ (Stage(t, e) \in Reading => TxnFor(t, e, d).blobs = d.blobs)
    BY <2>2, TxnForIs
  <2> QED
    BY <1>2, <2>1, <2>2, <2>3
<1>15. TxnRefused(w)
  <2>1. \/ Txn[w].at \in {"close", "add", "forget"}
        \/ Txn[w].at = "blob" /\ ~IsStored(Txn[w].blobs, call[w].value)
    <3>1. CASE t.at \in {"close", "add", "forget"}
      BY <1>14, <3>1
    <3>2. CASE t.at = "blob"
      BY <1>1, <1>4, <1>5, <1>14, <3>2
    <3>3. CASE t.at = "insert"
      <4>1. ~IsStored(d.blobs, t.blob.hash) /\ t.blob.hash = call[w].value
        BY <1>2, <1>5, <3>3 DEF Nested, NestedIn, Sound
      <4> QED
        BY <1>14, <3>3, <4>1
    <3> QED
      BY <1>3, <1>6, <3>1, <3>2, <3>3
  <2> QED
    BY <1>1, <1>7, <1>10, <1>13, <2>1 DEF TxnRefused, Clock
<1> QED
  BY <1>10, <1>15 DEF Shaped, TxnStep

LEMMA UndoesShaped ==
  ASSUME StoreKept, Ahead, Shape, NEW w \in Writers, Undoes(w)
  PROVE  Shaped
<1> DEFINE c == dbOf[w]
           t == txn[w]
           n == Len(t.names)
           rest == Fewer(t.names)
           left == TopOff(db[c].stack)
           s == [t EXCEPT !.at = "failed", !.names = rest, !.number = 0]
           r == IF rest = <<>> THEN NoTxn ELSE s
           e == effect[w]
           d == db[c]
           x == db'[c]
<1>1. /\ t.at = "undo" /\ Rollback(c, Innermost(w)) /\ Goes(w, r)
      /\ txnDepth' = [txnDepth EXCEPT ![c] = t.number - 1]
      /\ UNCHANGED <<items, blobs, commits, now, dbOf, setBack, call, effect>>
  BY DEF Undoes, worldVars, Fewer
<1>2. /\ t \in Visits /\ c \in Dbs /\ Sound(t, call[w], e) /\ d \in Connections
      /\ db \in [Dbs -> Connections] /\ txnDepth \in [Dbs -> Int]
  BY TxnIs DEF StoreKept, Disk, DiskTyped, Serving, CallsTyped
<1>3. t.names # <<>> /\ e = "refused"
  BY <1>1, <1>2 DEF Sound
<1>4. Alone(w) /\ Nested(w) /\ call[w] # NoCallYet /\ t.names \in Seq(Int) /\ d.stack \in Seq(Saved) /\ n \in Nat /\ n > 0
  BY <1>1, <1>3, HereIs
<1>5. NestedIn(t, d, txnDepth[c])
  BY <1>4 DEF Nested
<1>6. /\ Len(rest) = n - 1 /\ \A i \in 1 .. n - 1 : rest[i] = i - 1
      /\ Len(left) = n - 1 /\ \A i \in 1 .. n - 1 : left[i].name = i - 1
      /\ (rest = <<>> <=> n = 1) /\ Len(d.stack) = n
  <2> DEFINE depth == txnDepth[c]
  <2>1. NestedIn(t, d, depth) /\ t.names \in Seq(Int) /\ t.names # <<>> /\ d.stack \in Seq(Saved)
    BY <1>3, <1>4, <1>5
  <2> HIDE DEF t, d, depth
  <2>2. /\ Len(Fewer(t.names)) = Len(t.names) - 1 /\ \A i \in 1 .. Len(t.names) - 1 : Fewer(t.names)[i] = i - 1
        /\ Len(TopOff(d.stack)) = Len(t.names) - 1 /\ \A i \in 1 .. Len(t.names) - 1 : TopOff(d.stack)[i].name = i - 1
        /\ (Fewer(t.names) = <<>> <=> Len(t.names) = 1) /\ Len(d.stack) = Len(t.names)
    BY <2>1, FewerIs
  <2> QED
    BY <2>2 DEF d
<1>7. Topmost(c, Innermost(w)) = n /\ Savepoints(c, Innermost(w)) # {}
  BY <1>1, <1>3, InnermostIs
<1>8. txnDepth'[c] = n - 1
  <2>1. t.number = n
    BY <1>1, <1>5 DEF NestedIn
  <2> QED
    BY <1>1, <1>2, <2>1
<1> HIDE DEF rest, left
<1>9. r.names = rest /\ r.at \in {"none", "failed"}
  <2>1. s.names = rest /\ s.at = "failed"
    BY <1>2 DEF Visits
  <2> HIDE DEF s
  <2> QED
    BY <2>1 DEF NoTxn
<1> HIDE DEF r
<1>10. /\ x.stack = left /\ \E z : db' = [db EXCEPT ![c] = z]
       /\ writing' = writing \/ (writing \in {c, NoWriter} /\ writing' \in {c, NoWriter})
  <2>1. CASE n > 1
    <3> DEFINE saved == d.stack[n]
               z == [items |-> saved.items, blobs |-> saved.blobs, snapshot |-> d.snapshot, stack |-> SubSeq(d.stack, 1, n - 1)]
    <3>1. db' = [db EXCEPT ![c] = z] /\ UNCHANGED writing
      BY <1>1, <1>7, <2>1 DEF Rollback
    <3>2. z.stack = left
      BY <1>6, <2>1 DEF left, TopOff
    <3> HIDE DEF z
    <3> QED
      BY <1>2, <3>1, <3>2
  <2>2. CASE ~(n > 1)
    <3>1. db' = [db EXCEPT ![c] = NotInTxn] /\ writing' = IF writing = c THEN NoWriter ELSE writing
      BY <1>1, <1>7, <2>2 DEF Rollback
    <3>2. left = <<>> /\ NotInTxn.stack = <<>>
      BY <1>6, <2>2 DEF left, TopOff, NotInTxn
    <3> QED
      BY <1>2, <3>1, <3>2
  <2> QED
    BY <2>1, <2>2
<1> HIDE DEF x
<1>11. OnlyMoves(w) /\ txn'[w] = r
  BY <1>1, <1>10, StepIs
<1>12. Nested(w)'
  <2>1. n - 1 + 1 = n
    BY <1>4
  <2> HIDE DEF n
  <2>2. NestedIn(r, x, n - 1)
    BY <1>6, <1>9, <1>10, <2>1 DEF NestedIn
  <2> QED
    BY <1>1, <1>8, <1>11, <2>2 DEF Nested, x
<1>13. Shape'
  BY <1>1, <1>4, <1>11, <1>12, OneShape DEF Ahead
<1>14. ~Works(r, e) /\ ~Works(t, e)
  BY <1>3 DEF Works
<1>15. TxnFor(r, e, x) = Out /\ TxnFor(t, e, d) = Out
  BY <1>14 DEF TxnFor, Stage
<1>16. TxnOf(w)' = TxnOf(w) /\ (Locks(w)' <=> Locks(w))
  BY <1>1, <1>11, <1>14, <1>15 DEF TxnOf, Locks, Working, x
<1> QED
  BY <1>1, <1>4, <1>11, <1>13, <1>16, NoneMoves DEF Shaped

LEMMA ForgetsShaped ==
  ASSUME StoreKept, Ahead, Shape, NEW w \in Writers, Forgets(w)
  PROVE  Shaped
<1> DEFINE c == dbOf[w]
           t == txn[w]
           e == effect[w]
           d == db[c]
           rows == OpenRows(items, call[w].key)
           more == [i \in DOMAIN items |-> IF i \in rows THEN [items[i] EXCEPT !.to = t.moment] ELSE items[i]]
<1>1. /\ t.at = "forget" /\ effect' = [effect EXCEPT ![w] = "done"] /\ Goes(w, NoTxn)
      /\ UNCHANGED <<txnDepth, now, dbOf, setBack, call>>
  BY DEF Forgets, worldVars
<1>2. /\ t \in Visits /\ c \in Dbs /\ Sound(t, call[w], e) /\ e \in Effects
      /\ call[w] \in Tools \union {NoCallYet} /\ d \in Connections /\ Txn[w] = TxnFor(t, e, d)
      /\ effect \in [Writers -> Effects]
  BY TxnIs DEF StoreKept, Serving, CallsTyped
<1>3. t.names = <<>> /\ e = "none"
  BY <1>1, <1>2 DEF Sound, Effects
<1>4. /\ Alone(w) /\ Nested(w) /\ call[w] # NoCallYet /\ d.stack = <<>>
      /\ Seen(c).items = items /\ Seen(c).blobs = blobs /\ writing # c
  BY <1>1, <1>3, HereIs
<1>5. /\ CanWrite(c) /\ UNCHANGED <<writing, db, blobs>>
      /\ IF rows = {} THEN UNCHANGED <<items, commits>> ELSE items' = more /\ commits' = commits + 1
  <2>1. CASE rows = {}
    <3>1. WritesNothing(c)
      BY <1>4, <2>1 DEF Forgets
    <3> QED
      BY <1>4, <2>1, <3>1 DEF WritesNothing
  <2>2. CASE rows # {}
    <3>1. Writes(c, more, blobs)
      BY <1>4, <2>2 DEF Forgets
    <3> HIDE DEF more
    <3> QED
      BY <1>4, <2>2, <3>1 DEF Writes
  <2> QED
    BY <2>1, <2>2
<1>6. writing = NoWriter /\ \A u \in Writers : ~Locks(u)
  <2>1. writing = NoWriter
    BY <1>4, <1>5 DEF CanWrite
  <2> QED
    BY <2>1, CallIs, StoreBounds DEF StoreBounds, StoreKept, Locks
<1>7. OnlyMoves(w) /\ txn'[w] = NoTxn
  BY <1>1, <1>5, StepIs
<1>8. Nested(w)'
  <2>1. NestedIn(NoTxn, d, txnDepth[c])
    BY <1>1, <1>3, <1>4 DEF Nested, NestedIn, NoTxn
  <2> QED
    BY <1>1, <1>5, <1>7, <2>1 DEF Nested
<1>9. Shape'
  BY <1>1, <1>4, <1>7, <1>8, OneShape DEF Ahead
<1>10. TxnMoves(w, TxnOf(w)') /\ (\A u \in Writers \ {w} : Locks(u)' <=> Locks(u))
  BY <1>4, <1>7, OneMoves
<1>11. TxnOf(w)' = Out /\ ~Locks(w)'
  BY <1>7 DEF TxnOf, TxnFor, Stage, Works, NoTxn, Locks, Working
<1>12. LocksStay
  BY <1>6, <1>10, <1>11 DEF LocksStay
<1>13. Txn[w].at = "forget" /\ Txn[w].moment = t.moment
  <2>1. Works(t, e) /\ Stage(t, e) = "forget"
    BY <1>1, <1>3 DEF Works, Stage
  <2>2. /\ t \in Visits /\ Sound(t, call[w], e) /\ e \in Effects /\ call[w] \in Tools \union {NoCallYet}
        /\ d \in Connections /\ Stage(t, e) = "forget"
    BY <1>2, <2>1
  <2> HIDE DEF t, e, d
  <2>3. TxnFor(t, e, d).at = "forget" /\ TxnFor(t, e, d).moment = t.moment
    BY <2>2, TxnForIs
  <2> QED
    BY <1>2, <2>3
<1>14. TxnForgotten(w)
  <2>1. IF rows = {} THEN UNCHANGED <<items, commits>>
        ELSE items' = [i \in DOMAIN items |-> IF i \in rows THEN [items[i] EXCEPT !.to = Txn[w].moment] ELSE items[i]]
             /\ commits' = commits + 1
    BY <1>5, <1>13
  <2> QED
    BY <1>1, <1>5, <1>6, <1>10, <1>11, <1>12, <1>13, <2>1 DEF TxnForgotten, Clock
<1> QED
  BY <1>9, <1>14 DEF Shaped, TxnStep

LEMMA AnswersShaped ==
  ASSUME StoreKept, Ahead, Shape, NEW w \in Writers, Answers(w)
  PROVE  Shaped
<1> DEFINE c == dbOf[w]
<1>1. /\ effect[w] # "none" /\ txn[w] = NoTxn /\ call' = [call EXCEPT ![w] = NoCallYet]
      /\ effect' = [effect EXCEPT ![w] = "none"]
      /\ UNCHANGED <<items, blobs, commits, writing, db, txnDepth, txn, now, dbOf, setBack>>
  BY DEF Answers, storeVars, connVars, worldVars
<1>2. /\ c \in Dbs /\ Sound(txn[w], call[w], effect[w]) /\ db[c].stack \in Seq(Saved)
      /\ call \in [Writers -> Tools \union {NoCallYet}] /\ effect \in [Writers -> Effects]
  BY TxnIs, ConnectionIs DEF StoreKept, Serving, CallsTyped, Disk
<1>3. call[w] # NoCallYet
  BY <1>1, <1>2 DEF Sound
<1>4. Alone(w) /\ Nested(w)
  BY <1>3, AloneIs DEF Shape
<1>5. Len(db[c].stack) = 0 /\ txnDepth[c] = 0
  BY <1>1, <1>4 DEF Nested, NestedIn, NoTxn
<1>6. db[c].stack = <<>>
  <2> DEFINE s == db[c].stack
  <2>1. s \in Seq(Saved) /\ Len(s) = 0
    BY <1>2, <1>5
  <2> HIDE DEF s
  <2>2. s = <<>>
    BY <2>1
  <2> QED
    BY <2>2 DEF s
<1>7. OnlyMoves(w) /\ call'[w] = NoCallYet /\ effect'[w] = "none"
  BY <1>1, <1>2 DEF OnlyMoves
<1>8. Shape'
  BY <1>1, <1>4, <1>5, <1>6, <1>7, LastShape
<1>9. TxnMoves(w, TxnOf(w)') /\ (\A u \in Writers \ {w} : Locks(u)' <=> Locks(u))
  BY <1>4, <1>7, OneMoves
<1>10. TxnOf(w)' = Out /\ ~Locks(w)'
  BY <1>1 DEF TxnOf, TxnFor, Stage, Works, NoTxn, Locks, Working
<1>11. TxnOver(w)
  BY <1>1, <1>3, <1>9, <1>10 DEF TxnOver, LocksOf, Clock
<1> QED
  BY <1>8, <1>11 DEF Shaped, TxnStep

LEMMA KilledShaped ==
  ASSUME StoreKept, Ahead, Shape, NEW c \in Dbs, Killed(c)
  PROVE  Shaped
<1>1. PICK w \in Writers : dbOf[w] = c /\ call[w] # NoCallYet
  BY DEF Killed
<1>2. /\ db' = [db EXCEPT ![c] = NotInTxn] /\ txnDepth' = [txnDepth EXCEPT ![c] = 0]
      /\ writing' = IF writing = c THEN NoWriter ELSE writing
      /\ call' = [u \in Writers |-> IF dbOf[u] = c THEN NoCallYet ELSE call[u]]
      /\ txn' = [u \in Writers |-> IF dbOf[u] = c THEN NoTxn ELSE txn[u]]
      /\ effect' = [u \in Writers |-> IF dbOf[u] = c THEN "none" ELSE effect[u]]
      /\ UNCHANGED <<items, blobs, commits, now, dbOf, setBack>>
  BY DEF Killed, worldVars
<1>3. /\ db \in [Dbs -> Connections] /\ txnDepth \in [Dbs -> Int]
      /\ call \in [Writers -> Tools \union {NoCallYet}] /\ effect \in [Writers -> Effects]
  BY DEF StoreKept, Disk, DiskTyped, Serving, CallsTyped
<1>4. Alone(w)
  BY <1>1, AloneIs DEF Shape
<1>5. ASSUME NEW u \in Writers \ {w}
      PROVE  txn'[u] = txn[u] /\ call'[u] = call[u] /\ effect'[u] = effect[u]
  <2>1. CASE dbOf[u] = c
    <3>1. call[u] = NoCallYet
      BY <1>1, <1>4, <2>1 DEF Alone
    <3>2. txn[u] = NoTxn /\ effect[u] = "none"
      BY <3>1, CallIs DEF StoreKept, Sound
    <3> QED
      BY <1>2, <2>1, <3>1, <3>2
  <2>2. CASE dbOf[u] # c
    BY <1>2, <2>2
  <2> QED
    BY <2>1, <2>2
<1>6. \A d \in Dbs \ {c} : db'[d] = db[d] /\ txnDepth'[d] = txnDepth[d] /\ (writing' = d <=> writing = d)
  BY <1>2, <1>3, StoreBounds DEF StoreBounds
<1>7. OnlyMoves(w)
  BY <1>1, <1>2, <1>5, <1>6 DEF OnlyMoves
<1>8. txn'[w] = NoTxn /\ call'[w] = NoCallYet /\ effect'[w] = "none"
  BY <1>1, <1>2
<1>9. db'[c].stack = <<>> /\ txnDepth'[c] = 0
  BY <1>2, <1>3 DEF NotInTxn
<1>10. Shape'
  BY <1>1, <1>4, <1>7, <1>8, <1>9, LastShape
<1>11. TxnMoves(w, TxnOf(w)') /\ (\A u \in Writers \ {w} : Locks(u)' <=> Locks(u))
  BY <1>4, <1>7, OneMoves
<1>12. TxnOf(w)' = Out /\ ~Locks(w)'
  BY <1>8 DEF TxnOf, TxnFor, Stage, Works, NoTxn, Locks, Working
<1>13. call' = [call EXCEPT ![w] = NoCallYet] /\ effect' = [effect EXCEPT ![w] = "none"]
  <2>1. \A u \in Writers : /\ call'[u] = [call EXCEPT ![w] = NoCallYet][u]
                           /\ effect'[u] = [effect EXCEPT ![w] = "none"][u]
    BY <1>3, <1>5, <1>8
  <2>2. DOMAIN call' = Writers /\ DOMAIN effect' = Writers
    BY <1>2
  <2> QED
    BY <1>2, <1>3, <2>1, <2>2
<1>14. TxnOver(w)
  BY <1>1, <1>2, <1>11, <1>12, <1>13 DEF TxnOver, LocksOf, Clock
<1> QED
  BY <1>10, <1>14 DEF Shaped, TxnStep

(* Another process commits, time passes, or nothing happens.               *)
LEMMA OthersShaped ==
  ASSUME StoreKept, Ahead, Shape,
         UNCHANGED <<items, blobs, writing, db, txnDepth, dbOf, call, txn, effect>>,
         commits' = commits \/ (writing = NoWriter /\ commits' = commits + 1),
         setBack' <=> setBack \/ now' < now
  PROVE  Shaped
<1>1. Shape'
  BY DEF Shape, Apart, Nested, Free
<1>2. UNCHANGED Txn /\ LocksStay
  BY DEF Txn, TxnOf, LocksStay, Locks, Working
<1>3. now' \in 0 .. MaxTime
  BY DEF Ahead, Serving, CallsTyped
<1>4. writing = NoWriter => \A u \in Writers : ~Locks(u)
  BY CallIs, StoreBounds DEF StoreBounds, StoreKept, Locks
<1>5. TxnWaited
  BY <1>2, <1>3, <1>4 DEF TxnWaited
<1> QED
  BY <1>1, <1>5 DEF Shaped, TxnStep

LEMMA ShapeNext ==
  StoreKept /\ Shape /\ ~overlapped' /\ [FactNext]_factVars => Shaped
<1> SUFFICES ASSUME StoreKept, Shape, ~overlapped', [FactNext]_factVars PROVE Shaped
  OBVIOUS
<1>0. Ahead
  BY StoreKeptNext
<1>1. ASSUME NEW w \in Writers, NEW tool \in Tools, Serves(w, tool) PROVE Shaped
  BY <1>0, <1>1, ServesShaped
<1>2. ASSUME NEW w \in Writers,
             \/ Numbers(w) \/ OpensTxn(w) \/ PutsBlob(w) \/ InsertsBlob(w) \/ Looks(w) \/ ClosesHeld(w) \/ Adds(w)
             \/ Releases(w) \/ Leaves(w) \/ Throws(w) \/ Unwinds(w) \/ Undoes(w)
             \/ Prepares(w) \/ Forgets(w) \/ Answers(w)
      PROVE  Shaped
  BY <1>0, <1>2, NumbersShaped, OpensShaped, PutsShaped, InsertsShaped, LooksShaped, ClosesShaped, AddsShaped,
     ReleasesShaped, LeavesShaped, ThrowsShaped, UnwindsShaped, UndoesShaped, PreparesShaped, ForgetsShaped, AnswersShaped
<1>3. ASSUME NEW c \in Dbs, Killed(c) PROVE Shaped
  BY <1>0, <1>3, KilledShaped
<1>4. CASE JournalsTurn \/ Tick \/ UNCHANGED factVars
  <2>1. /\ UNCHANGED <<items, blobs, writing, db, txnDepth, dbOf, call, txn, effect>>
        /\ commits' = commits \/ (writing = NoWriter /\ commits' = commits + 1)
    BY <1>4 DEF JournalsTurn, Tick, factVars, storeVars, connVars, callVars, worldVars
  <2>2. setBack' <=> setBack \/ now' < now
    <3>1. now \in 0 .. MaxTime
      BY DEF StoreKept, Serving, CallsTyped
    <3>2. CASE Tick
      BY <3>2 DEF Tick
    <3>3. CASE UNCHANGED <<now, setBack>>
      BY <3>1, <3>3, StoreBounds DEF StoreBounds
    <3> QED
      BY <1>4, <3>2, <3>3 DEF JournalsTurn, factVars, worldVars
  <2> QED
    BY <1>0, <2>1, <2>2, OthersShaped
<1> QED
  BY <1>1, <1>2, <1>3, <1>4 DEF FactNext

LEMMA ShapeInit == FactInit => Shape
<1> SUFFICES ASSUME FactInit PROVE Shape
  OBVIOUS
<1>1. \A c \in Dbs : db[c].stack = <<>> /\ txnDepth[c] = 0
  BY DEF FactInit, NotInTxn
<1>2. \A w \in Writers : call[w] = NoCallYet
  BY DEF FactInit
<1> QED
  BY <1>1, <1>2 DEF Shape, Apart, Free

-----------------------------------------------------------------------------
(* Tables, in order.                                                       *)
LEMMA OpenRowIs ==
  ASSUME NEW rows \in Seq(Rows), Orderly(rows), NEW k
  PROVE  LET h == OpenRow(rows, k)
         IN  /\ h \in Nat /\ (h \in DOMAIN rows <=> h # 0)
             /\ h # 0 => rows[h].key = k /\ rows[h].to = Open
             /\ \A i \in DOMAIN rows : rows[i].key = k /\ rows[i].to = Open <=> i = h
             /\ OpenRows(rows, k) = IF h = 0 THEN {} ELSE {h}
<1> DEFINE held == OpenRows(rows, k)
<1>0. held = {i \in DOMAIN rows : rows[i].key = k /\ rows[i].to = Open}
  BY DEF OpenRows
<1>1. \A i \in DOMAIN rows : i \in Nat /\ i # 0
  BY RowIs
<1>2. CASE held = {}
  <2>1. OpenRow(rows, k) = 0
    BY <1>2 DEF OpenRow
  <2> HIDE DEF held
  <2>2. 0 \notin DOMAIN rows /\ \A i \in DOMAIN rows : ~(rows[i].key = k /\ rows[i].to = Open)
    BY <1>0, <1>1, <1>2
  <2> QED
    BY <2>1, <1>1, <1>2, <2>2 DEF held
<1>3. ASSUME NEW i \in held
      PROVE  OpenRow(rows, k) = i /\ \A j \in held : j = i
  <2>1. \A j \in held : j = i
    <3> TAKE j \in held
    <3>1. i \in Nat /\ j \in Nat /\ i \in DOMAIN rows /\ j \in DOMAIN rows
      BY <1>0, <1>1
    <3>2. ~(i < j) /\ ~(j < i)
      BY <1>0 DEF Orderly
    <3> QED
      BY <3>1, <3>2
  <2>2. OpenRow(rows, k) = CHOOSE n \in held : \A j \in held : j <= n
    BY DEF OpenRow
  <2> HIDE DEF held
  <2>3. \E n \in held : \A j \in held : j <= n
    BY <2>1, <1>0, <1>1
  <2>4. (CHOOSE n \in held : \A j \in held : j <= n) \in held
    BY <2>3
  <2> QED
    BY <2>1, <2>2, <2>4
<1>4. ASSUME NEW i \in held
      PROVE  OpenRow(rows, k) = i /\ held = {i} /\ i # 0 /\ i \in DOMAIN rows /\ i \in Nat
  <2>1. OpenRow(rows, k) = i /\ \A j \in held : j = i
    BY <1>3
  <2> HIDE DEF held
  <2> QED
    BY <2>1, <1>0, <1>1
<1>5. CASE held # {}
  <2>0. PICK i \in held : TRUE
    BY <1>5
  <2>1. OpenRow(rows, k) = i /\ held = {i} /\ i # 0 /\ i \in DOMAIN rows /\ i \in Nat
    BY <1>4
  <2> HIDE DEF held
  <2> QED
    BY <1>0, <2>1 DEF held
<1> QED
  BY <1>2, <1>5

(* Closing the row that holds, and adding another behind it.               *)
LEMMA OrderKept ==
  ASSUME NEW rows \in Seq(Rows), Orderly(rows), NEW k, NEW m \in 0 .. MaxTime, StoreBounds
  PROVE  LET c == RowClosed(rows, OpenRow(rows, k), m)
         IN  /\ Orderly(c) /\ c \in Seq(Rows) /\ \A i \in DOMAIN c : ~(c[i].key = k /\ c[i].to = Open)
             /\ \A n \in 0 .. MaxTime : m <= n /\ Timely(rows, n) => Timely(c, n)
<1> DEFINE h == OpenRow(rows, k)
           c == RowClosed(rows, h, m)
<1>1. /\ h \in {0} \union DOMAIN rows
      /\ \A i \in DOMAIN rows : rows[i].key = k /\ rows[i].to = Open <=> i = h
  BY OpenRowIs
<1>2. m # Open /\ m \in Nat
  BY DEF StoreBounds
<1>3. /\ DOMAIN c = DOMAIN rows /\ c \in Seq(Rows)
      /\ \A j \in DOMAIN rows :
           /\ c[j].key = rows[j].key /\ c[j].from = rows[j].from
           /\ c[j].to = IF j = h THEN m ELSE rows[j].to
  BY <1>1, ClosedIs
<1> HIDE DEF c, h
<1>4. Orderly(c)
  BY <1>2, <1>3 DEF Orderly
<1>5. \A n \in 0 .. MaxTime : m <= n /\ Timely(rows, n) => Timely(c, n)
  BY <1>2, <1>3 DEF Timely
<1>6. \A i \in DOMAIN c : ~(c[i].key = k /\ c[i].to = Open)
  BY <1>1, <1>2, <1>3
<1> QED
  BY <1>3, <1>4, <1>5, <1>6 DEF c, h

LEMMA OrderAdded ==
  ASSUME NEW rows \in Seq(Rows), Orderly(rows), NEW m \in 0 .. MaxTime, StoreBounds,
         NEW tool \in Tools, tool.op \in {"put", "remember"},
         \A i \in DOMAIN rows : ~(rows[i].key = tool.key /\ rows[i].to = Open)
  PROVE  Orderly(Added(rows, tool, m)) /\ (Timely(rows, m) => Timely(Added(rows, tool, m), m))
<1> DEFINE a == Added(rows, tool, m)
           n == Len(a)
<1>1. /\ a \in Seq(Rows) /\ n \in DOMAIN a
      /\ \A j \in DOMAIN rows : j \in DOMAIN a /\ a[j] = rows[j] /\ j < n
      /\ a[n].key = tool.key /\ a[n].from = m /\ a[n].to = Open
      /\ \A j \in DOMAIN a : j \in DOMAIN rows \/ j = n
  BY AddedIs
<1>2. n \in Nat /\ \A j \in DOMAIN a : j \in Nat /\ j <= n
  BY <1>1
<1> HIDE DEF a, n
<1>3. Orderly(a)
  <2> SUFFICES ASSUME NEW i \in DOMAIN a, NEW j \in DOMAIN a, i < j, a[i].key = a[j].key PROVE a[i].to # Open
    BY DEF Orderly
  <2>1. i \in DOMAIN rows /\ a[i] = rows[i]
    BY <1>1, <1>2
  <2>2. CASE j \in DOMAIN rows
    BY <1>1, <2>1, <2>2 DEF Orderly
  <2>3. CASE j = n
    BY <1>1, <2>1, <2>3
  <2> QED
    BY <1>1, <2>2, <2>3
<1>4. Timely(rows, m) => Timely(a, m)
  BY <1>1 DEF Timely
<1> QED
  BY <1>3, <1>4 DEF a

LEMMA TimelyLater ==
  ASSUME NEW rows \in Seq(Rows), NEW m \in Nat, NEW n \in Nat, m <= n, Timely(rows, m)
  PROVE  Timely(rows, n)
<1> SUFFICES ASSUME NEW i \in DOMAIN rows PROVE rows[i].from <= n /\ (rows[i].to = Open \/ rows[i].to <= n)
  BY DEF Timely
<1>1. rows[i] \in Rows /\ rows[i].from <= m /\ (rows[i].to = Open \/ rows[i].to <= m)
  BY RowIs DEF Timely
<1> QED
  BY <1>1 DEF Rows

LEMMA WholeClosed ==
  ASSUME NEW rows \in Seq(Rows), NEW table, Whole(rows, table), NEW i \in {0} \union DOMAIN rows,
         NEW m \in 0 .. MaxTime
  PROVE  Whole(RowClosed(rows, i, m), table)
<1> DEFINE c == RowClosed(rows, i, m)
<1>1. DOMAIN c = DOMAIN rows /\ \A j \in DOMAIN rows : c[j].key = rows[j].key /\ c[j].value = rows[j].value
  BY ClosedIs
<1> HIDE DEF c
<1>2. Whole(c, table)
  BY <1>1 DEF Whole
<1> QED
  BY <1>2 DEF c

LEMMA WholeAdded ==
  ASSUME NEW rows \in Seq(Rows), NEW table, Whole(rows, table), NEW tool \in Tools,
         tool.op \in {"put", "remember"}, NEW m \in 0 .. MaxTime, StoreBounds,
         tool.op = "put" => IsStored(table, tool.value)
  PROVE  Whole(Added(rows, tool, m), table)
<1>1. tool.key \in Artifacts => tool.op = "put"
  BY DEF Tools, StoreBounds
<1> QED
  BY <1>1, AddedIs DEF Whole

-----------------------------------------------------------------------------
(* What can be loaded within a budget of links, for each budget up to N.   *)
Within(table, shorter, budget) ==
  {b.hash : b \in {c \in table : c.base = NoBase \/ (budget > 0 /\ c.base \in shorter)}}
Reaches(f, table, N) == \A n \in 0 .. N : f[n] = Within(table, f[n - 1], n)

ReachesBy(f, table, N) == f = [n \in 0 .. N |-> Within(table, f[n - 1], n)]

LEMMA ReachExists ==
  ASSUME NEW table, NEW N \in Nat
  PROVE  \E f : ReachesBy(f, table, N)
<1> DEFINE Upto(f, k) == f = [n \in 0 .. k |-> Within(table, f[n - 1], n)]
           Wrong == {k \in Nat : ~\E f : Upto(f, k)}
<1>1. ASSUME Wrong # {} PROVE FALSE
  <2>1. PICK m \in Wrong : \A n \in Wrong : m <= n
    <3> HIDE DEF Wrong
    <3> QED
      BY <1>1, LeastExists DEF Wrong
  <2>2. m \in Nat /\ ~\E f : Upto(f, m)
    BY <2>1
  <2>3. m # 0
    <3> DEFINE f == [n \in 0 .. 0 |-> Within(table, {}, 0)]
    <3>1. \A x, y : Within(table, x, 0) = Within(table, y, 0)
      BY DEF Within
    <3>2. \A n \in 0 .. 0 : n = 0
      OBVIOUS
    <3>3. [n \in 0 .. 0 |-> Within(table, f[n - 1], n)] = [n \in 0 .. 0 |-> Within(table, {}, 0)]
      BY <3>1, <3>2
    <3>4. Upto(f, 0)
      BY <3>3
    <3> QED
      BY <2>2, <3>4
  <2>4. m - 1 \in Nat /\ m - 1 \notin Wrong
    <3> HIDE DEF Wrong
    <3> QED
      BY <2>1, <2>2, <2>3
  <2>5. PICK g : Upto(g, m - 1)
    BY <2>4
  <2> DEFINE f == [n \in 0 .. m |-> IF n = m THEN Within(table, g[m - 1], m) ELSE g[n]]
  <2>6. \A n \in 0 .. m - 1 : f[n] = g[n] /\ g[n] = Within(table, g[n - 1], n)
    BY <2>4, <2>5
  <2>7. \A n \in 0 .. m : f[n] = Within(table, f[n - 1], n)
    <3> TAKE n \in 0 .. m
    <3>1. CASE n = m
      <4>1. m - 1 \in 0 .. m - 1
        BY <2>4
      <4>2. f[m - 1] = g[m - 1] /\ f[m] = Within(table, g[m - 1], m)
        BY <2>2, <2>6, <4>1
      <4> QED
        BY <3>1, <4>2
    <3>2. CASE n = 0
      <4>1. \A x, y : Within(table, x, n) = Within(table, y, n)
        BY <3>2 DEF Within
      <4>2. n \in 0 .. m - 1
        BY <2>4, <3>2
      <4>3. f[n] = g[n] /\ g[n] = Within(table, g[n - 1], n)
        BY <2>6, <4>2
      <4> HIDE DEF f
      <4> QED
        BY <4>1, <4>3
    <3>3. CASE n # 0 /\ n # m
      <4>1. n \in 0 .. m - 1 /\ n - 1 \in 0 .. m - 1
        BY <2>2, <3>3
      <4> QED
        BY <2>6, <4>1
    <3> QED
      BY <3>1, <3>2, <3>3
  <2>8. Upto(f, m)
    BY <2>7
  <2> HIDE DEF Upto
  <2> QED
    BY <2>2, <2>8
<1>2. PICK f : Upto(f, N)
  BY <1>1
<1> QED
  BY <1>2 DEF ReachesBy

LEMMA LoadableIs ==
  ASSUME NEW table, StoreBounds
  PROVE  \E f : Reaches(f, table, MaxChain) /\ Loadable(table) = f[MaxChain]
<1> DEFINE Step(f) == [n \in 0 .. MaxChain |-> Within(table, f[n - 1], n)]
           reach == CHOOSE f : f = Step(f)
<1>1. \E f : f = Step(f)
  <2>1. MaxChain \in Nat
    BY DEF StoreBounds
  <2>2. PICK f : ReachesBy(f, table, MaxChain)
    BY <2>1, ReachExists
  <2> QED
    BY <2>2 DEF ReachesBy
<1>2. reach = Step(reach)
  BY <1>1
<1>3. Loadable(table) = reach[MaxChain]
  BY DEF Loadable, Within
<1> HIDE DEF reach
<1>4. Reaches(reach, table, MaxChain)
  BY <1>2 DEF Reaches
<1> QED
  BY <1>3, <1>4

LEMMA ChainsLoad ==
  ASSUME StoreBounds, NEW table \in SUBSET Blobs, Chained(table)
  PROVE  \A b \in table : b.hash \in Loadable(table)
<1>1. PICK f : Reaches(f, table, MaxChain) /\ Loadable(table) = f[MaxChain]
  BY LoadableIs
<1> DEFINE Short == {n \in 0 .. MaxChain : \E b \in table : b.depth <= n /\ b.hash \notin f[n]}
<1>2. ASSUME Short # {} PROVE FALSE
  <2>0. Short \in SUBSET Nat
    BY DEF StoreBounds
  <2>1. PICK m \in Short : \A n \in Short : m <= n
    <3> HIDE DEF Short
    <3> QED
      BY <1>2, <2>0, LeastExists
  <2>2. PICK b \in table : b.depth <= m /\ b.hash \notin f[m]
    BY <2>1
  <2>3. m \in 0 .. MaxChain /\ f[m] = Within(table, f[m - 1], m)
    BY <1>1, <2>1 DEF Reaches
  <2>4. b.base # NoBase
    BY <2>2, <2>3 DEF Within
  <2>5. PICK c \in table : c.hash = b.base /\ c.depth < b.depth
    BY <2>4 DEF Chained, FitsOn
  <2>6. c.depth \in Nat /\ b.depth \in Nat /\ m \in Nat
    BY <2>3 DEF Blobs, StoreBounds
  <2>7. m - 1 \in 0 .. MaxChain /\ c.depth <= m - 1 /\ m > 0
    BY <2>2, <2>3, <2>5, <2>6 DEF StoreBounds
  <2>8. m - 1 \notin Short
    <3> HIDE DEF Short
    <3> QED
      BY <2>1, <2>6
  <2>9. c.hash \in f[m - 1]
    BY <2>7, <2>8
  <2>10. b.hash \in Within(table, f[m - 1], m)
    BY <2>5, <2>7, <2>9 DEF Within
  <2> QED
    BY <2>2, <2>3, <2>10
<1>3. MaxChain \in 0 .. MaxChain /\ MaxChain \notin Short
  BY <1>2 DEF StoreBounds
<1>4. \A b \in table : b.depth <= MaxChain
  BY DEF Blobs
<1> QED
  BY <1>1, <1>3, <1>4

-----------------------------------------------------------------------------
(* What the step of a call is allowed to rest on.                          *)
LEMMA CallOf ==
  ASSUME StoreKept, NEW w \in Writers
  PROVE  /\ Txn[w] \in Txns /\ Txn \in [Writers -> Txns]
         /\ Txn[w].at = "blob" => call[w].op = "put"
         /\ Txn[w].at \in {"look", "close", "add", "release"} => call[w].op \in {"put", "remember"}
         /\ Txn[w].at = "forget" => call[w].op = "forget"
         /\ Txn[w].at = "none" => Txn[w] = Out /\ ~Locks(w)
         /\ Txn[w].at # "none" => call[w] \in Tools /\ effect[w] = "none"
         /\ call[w] = NoCallYet => Txn[w] = Out /\ effect[w] = "none" /\ ~Locks(w)
<1> DEFINE t == txn[w]
           e == effect[w]
           c == call[w]
           s == Stage(t, e)
<1>1. /\ t \in Visits /\ e \in Effects /\ c \in Tools \union {NoCallYet} /\ Sound(t, c, e)
      /\ db[dbOf[w]] \in Connections /\ Txn[w] = TxnFor(t, e, db[dbOf[w]]) /\ Txn[w] \in Txns
      /\ Txn \in [Writers -> Txns]
  BY TxnIs
<1>2. Txn[w].at = s /\ (~Works(t, e) => Txn[w] = Out)
  BY <1>1, TxnForIs
<1>3. Locks(w) => Works(t, e)
  BY DEF Locks, Working
<1> HIDE DEF t, e, c
<1>4. (s = "none" <=> ~Works(t, e)) /\ (Works(t, e) => c # NoCallYet /\ e = "none")
  BY <1>1, StageIs DEF Works
<1>5. t.at \in Stations /\ (c = NoCallYet => ~Works(t, e) /\ e = "none")
  BY <1>1 DEF Visits, Sound, Works, NoTxn
<1>6. /\ s = "blob" => c.op = "put"
      /\ s \in {"look", "close", "add", "release"} => c.op \in {"put", "remember"}
      /\ s = "forget" => c.op = "forget"
  <2> HIDE DEF s
  <2>1. CASE ~Works(t, e)
    BY <1>4, <2>1
  <2>2. CASE Works(t, e)
    BY <1>1, <1>5, <2>2 DEF Stage, Sound, Stations, s
  <2> QED
    BY <2>1, <2>2
<1> HIDE DEF s
<1> QED
  BY <1>1, <1>2, <1>3, <1>4, <1>5, <1>6 DEF t, e, c

(* A call that waits: the lock is its own or not as before, and the file   *)
(* is what it was, or another commit has passed its snapshot by.           *)
LEMMA WaitingTxn ==
  ASSUME StoreKept, Ahead, NEW w \in Writers, InTxn(w), Txn'[w] = Txn[w], call'[w] = call[w],
         Locks(w)' <=> Locks(w), setBack' <=> setBack \/ now' < now,
         UNCHANGED <<items, commits>> \/ (commits' = commits + 1 /\ ~Locks(w))
  PROVE  InTxn(w)'
<1>1. /\ Txn[w] \in Txns /\ commits \in Nat /\ now \in Nat /\ now' \in Nat
  BY CallOf, StoreBounds DEF StoreKept, Ahead, Disk, DiskTyped, Serving, CallsTyped
<1>2. ~setBack' => ~setBack /\ now <= now'
  BY <1>1
<1>3. SeesWhole(w)'
  BY DEF InTxn, SeesWhole
<1>4. /\ Txn[w].snapshot \in Nat /\ Txn[w].moment \in Nat
      /\ Txn[w].at \in Reading => Txn[w].snapshot <= commits
  BY <1>1, StoreBounds DEF InTxn, Stands, Txns
<1>5. Stands(w)'
  <2>1. commits' \in Nat /\ commits <= commits'
    BY <1>1
  <2>2. ~setBack' /\ Txn[w].at \in {"close", "add", "release", "forget"} => Txn[w].moment <= now'
    BY <1>1, <1>2, <1>4 DEF InTxn, Stands
  <2> QED
    BY <1>1, <1>4, <2>1, <2>2 DEF InTxn, Stands
<1>6. Fresh(w)'
  <2>1. CASE UNCHANGED <<items, commits>>
    BY <1>2, <2>1 DEF InTxn, Fresh
  <2>2. CASE commits' = commits + 1
    BY <1>1, <1>4, <2>2 DEF Fresh
  <2> QED
    BY <2>1, <2>2
<1>7. Locked(w)'
  <2>1. CASE UNCHANGED <<items, commits>>
    BY <2>1 DEF InTxn, Locked
  <2>2. CASE ~Locks(w)
    BY <2>2 DEF InTxn, Locked
  <2> QED
    BY <2>1, <2>2
<1> QED
  BY <1>3, <1>5, <1>6, <1>7 DEF InTxn

(* One call goes on and leaves the file alone.                             *)
LEMMA OneGoesOn ==
  ASSUME StoreKept, Ahead, TxnInv, NEW w \in Writers, NEW r, TxnMoves(w, r), UNCHANGED <<items, blobs, commits, Clock>>,
         \A u \in Writers \ {w} : call'[u] = call[u] /\ (Locks(u)' <=> Locks(u)), InTxn(w)'
  PROVE  TxnInv'
<1>0. Txn \in [Writers -> Txns] /\ now \in Nat /\ now' = now /\ setBack' = setBack
  BY CallOf, StoreBounds DEF StoreKept, Serving, CallsTyped, Clock
<1>1. Whole(items', blobs') /\ InOrder'
  BY <1>0 DEF TxnInv, InOrder
<1>2. ASSUME NEW u \in Writers \ {w} PROVE InTxn(u)'
  <2>1. Txn'[u] = Txn[u] /\ InTxn(u)
    BY <1>0 DEF TxnMoves, TxnInv
  <2>2. setBack' <=> setBack \/ now' < now
    BY <1>0
  <2> QED
    BY <2>1, <2>2, WaitingTxn
<1> QED
  BY <1>1, <1>2 DEF TxnInv

(* Where nothing is read, nothing is to be said.                           *)
LEMMA IdleIn ==
  ASSUME NEW w \in Writers, Txn'[w].at \in {"none", "begin"}, ~Locks(w)'
  PROVE  InTxn(w)'
BY DEF InTxn, SeesWhole, Stands, Fresh, Locked, Reading

(* One call commits.                                                       *)
LEMMA OneCommits ==
  ASSUME StoreKept, Ahead, TxnInv, NEW w \in Writers, TxnMoves(w, Out), commits' = commits + 1, UNCHANGED <<call, Clock>>,
         LocksOf(w, FALSE), \A u \in Writers \ {w} : ~Locks(u), Whole(items', blobs'), InOrder'
  PROVE  TxnInv'
<1>0. Txn \in [Writers -> Txns] /\ now \in Nat /\ now' = now /\ setBack' = setBack
  BY CallOf, StoreBounds DEF StoreKept, Serving, CallsTyped, Clock
<1>1. ASSUME NEW u \in Writers \ {w} PROVE InTxn(u)'
  <2>1. Txn'[u] = Txn[u] /\ InTxn(u) /\ (Locks(u)' <=> Locks(u)) /\ ~Locks(u)
    BY <1>0 DEF TxnMoves, TxnInv, LocksOf
  <2>2. setBack' <=> setBack \/ now' < now
    BY <1>0
  <2> QED
    BY <2>1, <2>2, WaitingTxn
<1>2. InTxn(w)'
  <2>1. Txn'[w] = Out /\ ~Locks(w)'
    BY <1>0 DEF TxnMoves, LocksOf
  <2> QED
    BY <2>1, IdleIn DEF Out, TxnAt
<1> QED
  BY <1>1, <1>2 DEF TxnInv

LEMMA AskedKeeps ==
  ASSUME StoreKept, Ahead, TxnInv, NEW w \in Writers, NEW tool, TxnAsked(w, tool)
  PROVE  TxnInv'
<1> DEFINE r == TxnAt("begin", 0, 0, <<>>, {}, 0)
<1>1. ~Locks(w) /\ Txn \in [Writers -> Txns]
  BY CallOf DEF TxnAsked
<1>2. TxnMoves(w, r) /\ r.at = "begin"
  BY DEF TxnAsked, TxnAt
<1> HIDE DEF r
<1>3. Txn'[w].at = "begin" /\ ~Locks(w)'
  BY <1>1, <1>2 DEF TxnMoves, TxnAsked, LocksStay
<1>4. \A u \in Writers \ {w} : call'[u] = call[u] /\ (Locks(u)' <=> Locks(u))
  <2>1. call \in [Writers -> Tools \union {NoCallYet}]
    BY DEF StoreKept, Serving, CallsTyped
  <2> QED
    BY <2>1 DEF TxnAsked, LocksStay
<1> QED
  BY <1>2, <1>3, <1>4, IdleIn, OneGoesOn DEF TxnAsked

LEMMA BegunKeeps ==
  ASSUME StoreKept, Ahead, TxnInv, NEW w \in Writers, TxnBegun(w)
  PROVE  TxnInv'
<1> DEFINE at == IF call[w].op = "put" THEN "blob" ELSE "look"
           r == TxnAt(at, Txn[w].held, Txn[w].moment, items, blobs, commits)
<1>1. /\ InTxn(w) /\ Txn[w].at = "begin" /\ call[w].op # "forget" /\ Txn[w] \in Txns /\ TxnMoves(w, r)
      /\ UNCHANGED <<items, blobs, commits, call, effect, Clock>> /\ LocksStay /\ Txn \in [Writers -> Txns]
  BY CallOf DEF TxnBegun, TxnInv
<1>2. r.items = items /\ r.blobs = blobs /\ r.snapshot = commits /\ r.at = at
  BY DEF TxnAt
<1> HIDE DEF r
<1>3. Txn'[w] = r /\ (at = "blob" \/ (at = "look" /\ call[w].op # "put"))
  BY <1>1 DEF TxnMoves
<1> HIDE DEF at
<1>4. ~Locks(w)'
  BY <1>1 DEF InTxn, Locked, LocksStay
<1>5. InTxn(w)'
  <2>1. SeesWhole(w)'
    BY <1>1, <1>2, <1>3 DEF SeesWhole, TxnInv
  <2>2. Stands(w)'
    <3>1. commits \in Nat /\ Orderly(items)
      BY DEF StoreKept, Disk, DiskTyped, TxnInv, InOrder
    <3> QED
      BY <1>1, <1>2, <1>3, <3>1 DEF Stands
  <2>3. Fresh(w)'
    BY <1>1, <1>2, <1>3 DEF Fresh
  <2>4. Locked(w)'
    BY <1>1, <1>2, <1>3, <1>4 DEF Locked
  <2> QED
    BY <2>1, <2>2, <2>3, <2>4 DEF InTxn
<1> QED
  BY <1>1, <1>5, OneGoesOn DEF LocksStay

(* The content is there, or has been put there.                            *)
LEMMA StoredKeeps ==
  ASSUME StoreKept, Ahead, TxnInv, NEW w \in Writers, Txn[w].at = "blob", NEW objects,
         TxnGoes(w, "look", Txn[w].items, objects), Whole(Txn[w].items, objects), IsStored(objects, call[w].value),
         UNCHANGED <<items, blobs, commits, call, Clock>>, \A u \in Writers \ {w} : Locks(u)' <=> Locks(u),
         Locks(w)' => Txn[w].snapshot = commits /\ ~Holds(Txn[w].items, call[w].key, call[w].value)
  PROVE  TxnInv'
<1> DEFINE t == Txn[w]
           r == TxnAt("look", t.held, t.moment, t.items, objects, t.snapshot)
<1>1. InTxn(w) /\ call[w].op = "put" /\ TxnMoves(w, r) /\ Txn \in [Writers -> Txns]
  BY CallOf DEF TxnGoes, TxnInv
<1>2. r.items = t.items /\ r.blobs = objects /\ r.snapshot = t.snapshot /\ r.at = "look"
  BY DEF TxnAt
<1> HIDE DEF r
<1>3. Txn'[w] = r
  BY <1>1 DEF TxnMoves
<1>4. t.snapshot <= commits /\ Orderly(t.items) /\ (t.snapshot = commits => t.items = items)
  BY <1>1 DEF InTxn, Stands, Fresh, Reading
<1>5. InTxn(w)'
  <2>1. SeesWhole(w)'
    BY <1>2, <1>3 DEF SeesWhole
  <2>2. Stands(w)'
    BY <1>2, <1>3, <1>4 DEF Stands
  <2>3. Fresh(w)'
    BY <1>2, <1>3, <1>4 DEF Fresh
  <2>4. Locked(w)'
    BY <1>2, <1>3 DEF Locked
  <2> QED
    BY <2>1, <2>2, <2>3, <2>4 DEF InTxn
<1> QED
  BY <1>1, <1>5, OneGoesOn

LEMMA FoundKeeps ==
  ASSUME StoreKept, Ahead, TxnInv, NEW w \in Writers, TxnFound(w)
  PROVE  TxnInv'
<1>1. /\ InTxn(w) /\ Txn[w].at = "blob" /\ IsStored(Txn[w].blobs, call[w].value)
      /\ TxnGoes(w, "look", Txn[w].items, Txn[w].blobs) /\ LocksStay
      /\ UNCHANGED <<items, blobs, commits, call, Clock>>
  BY DEF TxnFound, TxnInv
<1>2. Whole(Txn[w].items, Txn[w].blobs) /\ ~Locks(w)
  BY <1>1 DEF InTxn, SeesWhole, Locked, Reading
<1> QED
  BY <1>1, <1>2, StoredKeeps DEF LocksStay

(* Who may write sees the latest snapshot.                                 *)
LEMMA WriterSees ==
  ASSUME TxnInv, NEW w \in Writers, MayWrite(w)
  PROVE  Txn[w].snapshot = commits
BY DEF MayWrite, TxnInv, InTxn, Locked

LEMMA FilledKeeps ==
  ASSUME StoreKept, Ahead, TxnInv, NEW w \in Writers, TxnFilled(w)
  PROVE  TxnInv'
<1> DEFINE t == Txn[w]
           k == call[w].key
           v == call[w].value
           h == OpenRow(t.items, k)
<1>1. /\ InTxn(w) /\ t.at = "blob" /\ ~IsStored(t.blobs, v) /\ MayWrite(w) /\ LocksOf(w, TRUE)
      /\ UNCHANGED <<items, blobs, commits, call, Clock>>
  BY DEF TxnFilled, TxnInv
<1>2. PICK b \in Blobs : /\ b.hash = v /\ FitsOn(b, t.blobs)
                         /\ TxnGoes(w, "look", t.items, t.blobs \union {b})
  BY DEF TxnFilled
<1>3. /\ t \in Txns /\ call[w] \in Tools /\ call[w].op = "put" /\ t.snapshot = commits
      /\ Whole(t.items, t.blobs) /\ Orderly(t.items)
  BY <1>1, CallOf, WriterSees DEF InTxn, SeesWhole, Stands, Reading
<1>4. t.items \in Seq(Rows) /\ k \in Artifacts
  BY <1>3, StoreBounds DEF Txns, Tools, StoreBounds
<1> HIDE DEF t
<1>5. Whole(t.items, t.blobs \union {b}) /\ IsStored(t.blobs \union {b}, v)
  BY <1>2, <1>3 DEF Whole, Chained, FitsOn, IsStored
<1>6. ~Holds(t.items, k, v)
  <2>1. h # 0 => h \in DOMAIN t.items /\ t.items[h].key = k
    BY <1>3, <1>4, OpenRowIs
  <2>2. h # 0 => IsStored(t.blobs, t.items[h].value)
    BY <1>3, <1>4, <2>1 DEF Whole
  <2> QED
    BY <1>1, <2>2 DEF Holds
<1> QED
  BY <1>1, <1>2, <1>3, <1>5, <1>6, StoredKeeps DEF LocksOf, t

LEMMA LookedKeeps ==
  ASSUME StoreKept, Ahead, TxnInv, NEW w \in Writers, TxnLooked(w)
  PROVE  TxnInv'
<1> DEFINE t == Txn[w]
           k == call[w].key
           v == call[w].value
           rows == OpenRows(t.items, k)
           h == OpenRow(t.items, k)
           At(held) == IF held = 0 THEN "add" ELSE IF t.items[held].value = v THEN "release" ELSE "close"
           at == At(h)
           r == TxnAt(at, h, now, t.items, t.blobs, t.snapshot)
<1>1. /\ InTxn(w) /\ t.at = "look" /\ t \in Txns /\ LocksStay /\ Txn \in [Writers -> Txns]
      /\ UNCHANGED <<items, blobs, commits, call, Clock>>
  BY CallOf DEF TxnLooked, TxnInv
<1>2. PICK held \in IF rows = {} THEN {0} ELSE rows :
        TxnMoves(w, TxnAt(At(held), held, now, t.items, t.blobs, t.snapshot))
  BY DEF TxnLooked
<1>3. /\ SeesWhole(w) /\ t.snapshot <= commits /\ Orderly(t.items)
      /\ (t.snapshot = commits => t.items = items) /\ t.items \in Seq(Rows)
      /\ Locks(w) => t.snapshot = commits /\ ~Holds(t.items, k, v)
  BY <1>1 DEF InTxn, Stands, Fresh, Locked, Reading, Txns
<1> HIDE DEF t
<1>4. h \in Nat /\ (h # 0 => h \in DOMAIN t.items) /\ held = h
  <2>1. h \in Nat /\ (h \in DOMAIN t.items <=> h # 0) /\ rows = IF h = 0 THEN {} ELSE {h}
    <3> DEFINE table == t.items
    <3>1. table \in Seq(Rows) /\ Orderly(table) /\ rows = OpenRows(table, k) /\ h = OpenRow(table, k)
          /\ DOMAIN t.items = DOMAIN table
      BY <1>3
    <3> HIDE DEF table, rows, h, k
    <3> QED
      BY <3>1, OpenRowIs
  <2> HIDE DEF rows, h
  <2> QED
    BY <1>2, <2>1
<1>5. TxnMoves(w, r)
  BY <1>2, <1>4
<1>6. now \in Nat /\ now' = now /\ setBack' = setBack /\ (~setBack => Timely(items, now))
  BY <1>1, StoreBounds DEF StoreKept, Serving, CallsTyped, Clock, TxnInv, InOrder
<1>7. /\ at \in {"add", "release", "close"} /\ (at = "add" <=> h = 0)
      /\ at = "release" <=> Holds(t.items, k, v)
  BY DEF Holds
<1>8. r.at = at /\ r.held = h /\ r.moment = now /\ r.items = t.items /\ r.blobs = t.blobs /\ r.snapshot = t.snapshot
  BY DEF TxnAt
<1> HIDE DEF r, at
<1>9. Txn'[w] = r
  BY <1>1, <1>5 DEF TxnMoves
<1>10. h = 0 => RowClosed(items, h, now) = items
  BY DEF RowClosed
<1>11. t.snapshot = commits => h = OpenRow(items, k)
  BY <1>3
<1> HIDE DEF h
<1>12. InTxn(w)'
  <2>1. SeesWhole(w)'
    BY <1>1, <1>3, <1>7, <1>8, <1>9 DEF SeesWhole, Reading, t
  <2>2. Stands(w)'
    BY <1>1, <1>3, <1>4, <1>6, <1>7, <1>8, <1>9 DEF Stands
  <2>3. Fresh(w)'
    BY <1>1, <1>3, <1>4, <1>6, <1>7, <1>8, <1>9, <1>10, <1>11 DEF Fresh
  <2>4. Locked(w)'
    BY <1>1, <1>3, <1>7, <1>8, <1>9 DEF Locked, LocksStay
  <2> QED
    BY <2>1, <2>2, <2>3, <2>4 DEF InTxn
<1> QED
  BY <1>1, <1>5, <1>12, OneGoesOn DEF LocksStay

(* A call that writes.                                                     *)
LEMMA WriterStands ==
  ASSUME StoreKept, TxnInv, NEW w \in Writers, Txn[w].at \in {"close", "add"}, MayWrite(w)
  PROVE  /\ Txn[w] \in Txns /\ call[w] \in Tools /\ call[w].op \in {"put", "remember"}
         /\ Txn[w].items \in Seq(Rows) /\ Txn[w].moment \in 0 .. MaxTime /\ Whole(Txn[w].items, Txn[w].blobs)
         /\ call[w].op = "put" => IsStored(Txn[w].blobs, call[w].value)
         /\ ~setBack => Txn[w].moment <= now
         /\ Txn[w].snapshot = commits /\ commits \in Nat
         /\ ~setBack => Timely(items, Txn[w].moment)
         /\ Txn[w].held = OpenRow(items, call[w].key) /\ ~Holds(items, call[w].key, call[w].value)
<1>1. InTxn(w) /\ Txn[w] \in Txns /\ call[w] \in Tools /\ call[w].op \in {"put", "remember"}
  BY CallOf DEF TxnInv
<1>2. Txn[w].snapshot = commits /\ commits \in Nat
  BY WriterSees DEF StoreKept, Disk, DiskTyped
<1>3. /\ ~setBack => Txn[w].moment <= now
      /\ Whole(Txn[w].items, Txn[w].blobs)
      /\ call[w].op = "put" => IsStored(Txn[w].blobs, call[w].value)
      /\ ~setBack => Timely(items, Txn[w].moment)
      /\ Txn[w].held = OpenRow(items, call[w].key) /\ ~Holds(items, call[w].key, call[w].value)
  BY <1>1, <1>2 DEF InTxn, Stands, SeesWhole, Fresh, Reading
<1> QED
  BY <1>1, <1>2, <1>3 DEF Txns

LEMMA ClosedKeeps ==
  ASSUME StoreKept, Ahead, TxnInv, NEW w \in Writers, TxnClosed(w)
  PROVE  TxnInv'
<1> DEFINE t == Txn[w]
           closed == RowClosed(t.items, t.held, t.moment)
           r == TxnAt("add", t.held, t.moment, closed, t.blobs, t.snapshot)
<1>1. /\ InTxn(w) /\ t.at = "close" /\ MayWrite(w) /\ LocksOf(w, TRUE) /\ Txn \in [Writers -> Txns]
      /\ UNCHANGED <<items, blobs, commits, call, Clock>>
  BY CallOf DEF TxnClosed, TxnInv
<1>2. /\ t.items \in Seq(Rows) /\ t.moment \in 0 .. MaxTime /\ Whole(t.items, t.blobs)
      /\ (call[w].op = "put" => IsStored(t.blobs, call[w].value))
      /\ (~setBack => t.moment <= now) /\ t.snapshot = commits /\ commits \in Nat
      /\ (~setBack => Timely(items, t.moment)) /\ t.held = OpenRow(items, call[w].key)
      /\ ~Holds(items, call[w].key, call[w].value)
  BY <1>1, WriterStands
<1>3. t.held # 0 /\ t.held \in DOMAIN t.items /\ t.items = items
  BY <1>1, <1>2 DEF InTxn, Stands, Fresh, Reading
<1>4. TxnMoves(w, r)
  BY <1>3 DEF TxnClosed, TxnGoes
<1>5. Whole(closed, t.blobs)
  BY <1>2, <1>3, WholeClosed
<1>6. r.at = "add" /\ r.held = t.held /\ r.moment = t.moment /\ r.items = closed /\ r.blobs = t.blobs
      /\ r.snapshot = t.snapshot
  BY DEF TxnAt
<1> HIDE DEF r
<1>7. Txn'[w] = r /\ now' = now /\ setBack' = setBack /\ closed = RowClosed(items, t.held, t.moment)
  BY <1>1, <1>3, <1>4 DEF TxnMoves, Clock
<1> HIDE DEF closed
<1>8. InTxn(w)'
  <2>1. SeesWhole(w)'
    BY <1>1, <1>2, <1>5, <1>6, <1>7 DEF SeesWhole
  <2>2. Stands(w)'
    BY <1>1, <1>2, <1>6, <1>7 DEF Stands
  <2>3. Fresh(w)'
    BY <1>1, <1>2, <1>6, <1>7 DEF Fresh
  <2>4. Locked(w)'
    BY <1>1, <1>2, <1>6, <1>7 DEF Locked, LocksOf
  <2> QED
    BY <2>1, <2>2, <2>3, <2>4 DEF InTxn
<1> QED
  BY <1>1, <1>4, <1>8, OneGoesOn DEF LocksOf

LEMMA AddedKeeps ==
  ASSUME StoreKept, Ahead, TxnInv, NEW w \in Writers, TxnAdded(w)
  PROVE  TxnInv'
<1> DEFINE t == Txn[w]
           more == Added(t.items, call[w], t.moment)
           r == TxnAt("release", t.held, t.moment, more, t.blobs, t.snapshot)
<1>1. /\ InTxn(w) /\ t.at = "add" /\ MayWrite(w) /\ LocksOf(w, TRUE) /\ Txn \in [Writers -> Txns]
      /\ UNCHANGED <<items, blobs, commits, call, Clock>> /\ TxnMoves(w, r)
  BY CallOf DEF TxnAdded, TxnInv, TxnGoes
<1>2. /\ t.items \in Seq(Rows) /\ t.moment \in 0 .. MaxTime /\ Whole(t.items, t.blobs)
      /\ (call[w].op = "put" => IsStored(t.blobs, call[w].value))
      /\ (~setBack => t.moment <= now) /\ t.snapshot = commits /\ commits \in Nat
      /\ (~setBack => Timely(items, t.moment)) /\ t.held = OpenRow(items, call[w].key)
      /\ ~Holds(items, call[w].key, call[w].value) /\ call[w] \in Tools /\ call[w].op \in {"put", "remember"}
  BY <1>1, WriterStands
<1>3. t.items = RowClosed(items, t.held, t.moment)
  BY <1>1, <1>2 DEF InTxn, Fresh, Reading
<1>5. Whole(more, t.blobs)
  BY <1>2, WholeAdded, StoreBounds
<1>6. r.at = "release" /\ r.held = t.held /\ r.moment = t.moment /\ r.items = more /\ r.blobs = t.blobs
      /\ r.snapshot = t.snapshot
  BY DEF TxnAt
<1> HIDE DEF r
<1>7. Txn'[w] = r /\ now' = now /\ setBack' = setBack
      /\ more = Added(RowClosed(items, t.held, t.moment), call[w], t.moment)
  BY <1>1, <1>3 DEF TxnMoves, Clock
<1> HIDE DEF more
<1>8. InTxn(w)'
  <2>1. SeesWhole(w)'
    BY <1>1, <1>2, <1>5, <1>6, <1>7 DEF SeesWhole
  <2>2. Stands(w)'
    BY <1>1, <1>2, <1>6, <1>7 DEF Stands
  <2>3. Fresh(w)'
    BY <1>1, <1>2, <1>6, <1>7 DEF Fresh
  <2>4. Locked(w)'
    BY <1>1, <1>2, <1>6, <1>7 DEF Locked, LocksOf
  <2> QED
    BY <2>1, <2>2, <2>3, <2>4 DEF InTxn
<1> QED
  BY <1>1, <1>8, OneGoesOn DEF LocksOf

(* The call is over, or about to be, and nothing was written.              *)
LEMMA NothingWritten ==
  ASSUME StoreKept, Ahead, TxnInv, NEW w \in Writers, TxnMoves(w, Out), LocksOf(w, FALSE),
         UNCHANGED <<items, blobs, commits, Clock>>, \A u \in Writers \ {w} : call'[u] = call[u]
  PROVE  TxnInv'
<1>1. Txn'[w] = Out /\ ~Locks(w)'
  BY CallOf DEF TxnMoves, LocksOf
<1>2. InTxn(w)'
  BY <1>1, IdleIn DEF Out, TxnAt
<1> QED
  BY <1>2, OneGoesOn DEF LocksOf

LEMMA RefusedKeeps ==
  ASSUME StoreKept, Ahead, TxnInv, NEW w \in Writers, TxnRefused(w)
  PROVE  TxnInv'
BY NothingWritten DEF TxnRefused

LEMMA OverKeeps ==
  ASSUME StoreKept, Ahead, TxnInv, NEW w \in Writers, TxnOver(w)
  PROVE  TxnInv'
<1>1. call \in [Writers -> Tools \union {NoCallYet}]
  BY DEF StoreKept, Serving, CallsTyped
<1>2. \A u \in Writers \ {w} : call'[u] = call[u]
  BY <1>1 DEF TxnOver
<1> QED
  BY <1>2, NothingWritten DEF TxnOver

LEMMA PreparedKeeps ==
  ASSUME StoreKept, Ahead, TxnInv, NEW w \in Writers, TxnPrepared(w)
  PROVE  TxnInv'
<1> DEFINE r == TxnAt("forget", Txn[w].held, now, <<>>, {}, 0)
<1>1. /\ InTxn(w) /\ Txn[w].at = "begin" /\ Txn \in [Writers -> Txns] /\ TxnMoves(w, r)
      /\ UNCHANGED <<items, blobs, commits, call, Clock>> /\ LocksStay
  BY CallOf DEF TxnPrepared, TxnInv
<1>2. r.at = "forget" /\ r.moment = now
  BY DEF TxnAt
<1> HIDE DEF r
<1>3. Txn'[w] = r /\ ~Locks(w)' /\ now \in Nat /\ now' = now
  BY <1>1, StoreBounds DEF TxnMoves, InTxn, Locked, LocksStay, Clock, StoreKept, Serving, CallsTyped
<1>4. InTxn(w)'
  <2>1. Stands(w)'
    BY <1>2, <1>3 DEF Stands, Reading
  <2> QED
    BY <1>2, <1>3, <2>1 DEF InTxn, SeesWhole, Fresh, Locked, Reading
<1> QED
  BY <1>1, <1>4, OneGoesOn DEF LocksStay

(* One call at a time has the lock.                                        *)
LEMMA OneLocks ==
  ASSUME StoreKept, Apart, NEW w \in Writers, Locks(w), NEW u \in Writers \ {w}
  PROVE  ~Locks(u)
<1> SUFFICES ASSUME Locks(u) PROVE FALSE
  OBVIOUS
<1>1. Txn[w].at # "none" /\ Txn[u].at # "none" /\ u \in Writers
  BY CallOf
<1>2. call[w] # NoCallYet /\ call[u] # NoCallYet
  BY <1>1, CallOf DEF Out, TxnAt
<1>3. dbOf[u] = dbOf[w]
  BY DEF Locks
<1> QED
  BY <1>2, <1>3 DEF Apart

LEMMA CommittedKeeps ==
  ASSUME StoreKept, Apart, Ahead, TxnInv, NEW w \in Writers, TxnCommitted(w)
  PROVE  TxnInv'
<1> DEFINE t == Txn[w]
           k == call[w].key
           c == RowClosed(items, t.held, t.moment)
<1>1. /\ t.at = "release" /\ TxnMoves(w, Out) /\ LocksOf(w, FALSE) /\ UNCHANGED <<call, Clock>>
      /\ InTxn(w) /\ t \in Txns /\ call[w].op \in {"put", "remember"} /\ call[w] \in Tools
  BY CallOf DEF TxnCommitted, TxnInv
<1>2. CASE ~Locks(w)
  BY <1>1, <1>2, NothingWritten DEF TxnCommitted
<1>3. CASE Locks(w)
  <2>1. items' = t.items /\ blobs' = t.blobs /\ commits' = commits + 1
    BY <1>3 DEF TxnCommitted
  <2>2. /\ t.items = Added(c, call[w], t.moment)
        /\ t.held = OpenRow(items, k) /\ (~setBack => Timely(items, t.moment) /\ t.moment <= now)
        /\ Whole(t.items, t.blobs)
    BY <1>1, <1>3 DEF InTxn, Locked, Fresh, Stands, SeesWhole, Reading
  <2>3. items \in Seq(Rows) /\ Orderly(items) /\ t.moment \in 0 .. MaxTime /\ now \in 0 .. MaxTime
        /\ now' = now /\ setBack' = setBack
    BY <1>1 DEF StoreKept, Disk, DiskTyped, Serving, CallsTyped, TxnInv, InOrder, Txns, Clock
  <2>4. t.moment <= t.moment
    BY <2>3, StoreBounds DEF StoreBounds
  <2>5. /\ Orderly(c) /\ c \in Seq(Rows) /\ (~setBack => Timely(c, t.moment))
        /\ \A i \in DOMAIN c : ~(c[i].key = k /\ c[i].to = Open)
    BY <2>2, <2>3, <2>4, OrderKept, StoreBounds
  <2> HIDE DEF c
  <2>6. Orderly(Added(c, call[w], t.moment)) /\ (~setBack => Timely(Added(c, call[w], t.moment), t.moment))
    BY <1>1, <2>3, <2>5, OrderAdded, StoreBounds
  <2>7. items' \in Seq(Rows) /\ t.moment \in Nat /\ now \in Nat
    BY <2>3, StoreBounds DEF Ahead, Disk, DiskTyped
  <2>8. ~setBack => Timely(items', now)
    <3>1. ~setBack => Timely(items', t.moment) /\ t.moment <= now
      BY <2>1, <2>2, <2>6
    <3> QED
      BY <2>7, <3>1, TimelyLater
  <2>9. InOrder' /\ Whole(items', blobs')
    BY <2>1, <2>2, <2>3, <2>6, <2>8 DEF InOrder
  <2>10. \A u \in Writers \ {w} : ~Locks(u)
    BY <1>3, OneLocks
  <2> QED
    BY <1>1, <2>1, <2>9, <2>10, OneCommits
<1> QED
  BY <1>2, <1>3

LEMMA ForgottenKeeps ==
  ASSUME StoreKept, Ahead, TxnInv, NEW w \in Writers, TxnForgotten(w)
  PROVE  TxnInv'
<1> DEFINE m == Txn[w].moment
           k == call[w].key
           rows == OpenRows(items, k)
           h == OpenRow(items, k)
           c == RowClosed(items, h, m)
<1>1. /\ Txn[w].at = "forget" /\ TxnMoves(w, Out) /\ InTxn(w) /\ UNCHANGED <<blobs, call, Clock>>
      /\ (\A u \in Writers : ~Locks(u)) /\ LocksStay /\ Txn[w] \in Txns
  BY CallOf DEF TxnForgotten, TxnInv
<1>2. /\ m \in 0 .. MaxTime /\ items \in Seq(Rows) /\ Orderly(items) /\ (~setBack => Timely(items, now))
      /\ Whole(items, blobs) /\ now \in 0 .. MaxTime /\ now' = now /\ setBack' = setBack
      /\ (~setBack => m <= now)
  BY <1>1 DEF Txns, InTxn, Stands, TxnInv, InOrder, StoreKept, Disk, DiskTyped, Serving, CallsTyped, Clock
<1>3. LocksOf(w, FALSE)
  BY <1>1 DEF LocksOf, LocksStay
<1>4. CASE rows = {}
  <2>1. UNCHANGED <<items, commits>>
    BY <1>4 DEF TxnForgotten
  <2> QED
    BY <1>1, <1>3, <2>1, NothingWritten
<1>5. CASE rows # {}
  <2>1. h \in DOMAIN items /\ h # 0 /\ rows = {h} /\ h \in Nat
    <3>1. h \in Nat /\ (h \in DOMAIN items <=> h # 0) /\ rows = IF h = 0 THEN {} ELSE {h}
      BY <1>2, OpenRowIs
    <3> HIDE DEF h, rows
    <3> QED
      BY <1>5, <3>1
  <2>2. /\ commits' = commits + 1
        /\ items' = [i \in DOMAIN items |-> IF i \in rows THEN [items[i] EXCEPT !.to = m] ELSE items[i]]
    BY <1>5 DEF TxnForgotten
  <2> HIDE DEF h, rows, m
  <2>3. items' = c
    BY <2>1, <2>2 DEF RowClosed
  <2>4. Orderly(c) /\ (~setBack => Timely(c, now)) /\ Whole(c, blobs)
    <3>1. Orderly(c) /\ \A n \in 0 .. MaxTime : m <= n /\ Timely(items, n) => Timely(c, n)
      BY <1>2, OrderKept, StoreBounds DEF h
    <3>2. Whole(c, blobs)
      BY <1>2, <2>1, WholeClosed
    <3> HIDE DEF c
    <3> QED
      BY <1>2, <3>1, <3>2
  <2> HIDE DEF c
  <2>5. InOrder' /\ Whole(items', blobs')
    BY <1>1, <1>2, <2>3, <2>4 DEF InOrder
  <2> QED
    BY <1>1, <1>3, <2>2, <2>5, OneCommits
<1> QED
  BY <1>4, <1>5

(* The clock, and what others write, leave every call as it is.            *)
LEMMA WaitedKeeps ==
  ASSUME StoreKept, Ahead, TxnInv, TxnWaited
  PROVE  TxnInv'
<1>1. now \in Nat /\ now' \in Nat /\ items \in Seq(Rows) /\ UNCHANGED <<items, blobs, call>>
      /\ (setBack' <=> setBack \/ now' < now)
  BY StoreBounds DEF StoreKept, Ahead, Disk, DiskTyped, Serving, CallsTyped, TxnWaited
<1>2. ~setBack' => Timely(items', now')
  <2>1. ~setBack' => Timely(items, now) /\ now <= now'
    BY <1>1 DEF TxnInv, InOrder
  <2> QED
    BY <1>1, <2>1, TimelyLater
<1>3. InOrder' /\ Whole(items', blobs')
  BY <1>1, <1>2 DEF TxnInv, InOrder
<1>4. ASSUME NEW u \in Writers PROVE InTxn(u)'
  <2>1. /\ InTxn(u) /\ Txn'[u] = Txn[u] /\ call'[u] = call[u] /\ (Locks(u)' <=> Locks(u))
        /\ UNCHANGED <<items, commits>> \/ (commits' = commits + 1 /\ ~Locks(u))
    BY DEF TxnInv, TxnWaited, LocksStay
  <2> QED
    BY <1>1, <2>1, WaitingTxn
<1> QED
  BY <1>3, <1>4 DEF TxnInv

LEMMA TxnInvNext ==
  ASSUME StoreKept, Apart, Ahead, TxnInv, TxnStep
  PROVE  TxnInv'
<1>1. ASSUME NEW w \in Writers, NEW tool \in Tools, TxnAsked(w, tool) PROVE TxnInv'
  BY <1>1, AskedKeeps
<1>2. ASSUME NEW w \in Writers,
             \/ TxnBegun(w) \/ TxnFound(w) \/ TxnFilled(w) \/ TxnLooked(w) \/ TxnClosed(w) \/ TxnAdded(w)
             \/ TxnCommitted(w) \/ TxnRefused(w) \/ TxnPrepared(w) \/ TxnForgotten(w) \/ TxnOver(w)
      PROVE  TxnInv'
  BY <1>2, BegunKeeps, FoundKeeps, FilledKeeps, LookedKeeps, ClosedKeeps, AddedKeeps, CommittedKeeps, RefusedKeeps,
     PreparedKeeps, ForgottenKeeps, OverKeeps
<1> QED
  BY <1>1, <1>2, WaitedKeeps DEF TxnStep

-----------------------------------------------------------------------------
LEMMA StoreInvInit == FactInit => StoreInv
<1> SUFFICES ASSUME FactInit PROVE StoreInv
  OBVIOUS
<1>1. StoreKept /\ Shape
  BY StoreKeptInit, ShapeInit
<1>2. ASSUME NEW w \in Writers PROVE InTxn(w)
  <2>1. call[w] = NoCallYet
    BY DEF FactInit
  <2>2. Txn[w] = Out /\ ~Locks(w)
    BY <1>1, <2>1, CallOf
  <2> QED
    BY <2>2 DEF InTxn, SeesWhole, Stands, Fresh, Locked, Reading, Out, TxnAt
<1>3. Whole(items, blobs) /\ InOrder
  BY DEF FactInit, Whole, Chained, InOrder, Orderly, Timely
<1> QED
  BY <1>1, <1>2, <1>3 DEF StoreInv, StoreKept, TxnInv

LEMMA ApartBefore ==
  ASSUME [FactNext]_factVars, ~overlapped'
  PROVE  ~overlapped
<1>1. \/ overlapped' = overlapped
      \/ \E w \in Writers, tool \in Tools : Serves(w, tool)
  BY DEF FactNext, factVars, worldVars, Numbers, OpensTxn, PutsBlob, InsertsBlob, Looks, ClosesHeld, Adds, Releases,
         Leaves, Throws, Unwinds, Undoes, Prepares, Forgets, Answers, Killed, JournalsTurn, Tick
<1> QED
  BY <1>1 DEF Serves

LEMMA StoreInvNext ==
  ASSUME StoreInv, [FactNext]_factVars
  PROVE  StoreInv' /\ Ahead /\ (~overlapped' => TxnStep)
<1>1. StoreKept /\ Ahead
  BY StoreKeptNext DEF StoreInv, StoreKept
<1>2. ASSUME ~overlapped' PROVE Shape' /\ TxnInv' /\ TxnStep
  <2>1. Shape /\ TxnInv
    BY <1>2, ApartBefore DEF StoreInv
  <2>2. Shape' /\ TxnStep
    BY <1>1, <1>2, <2>1, ShapeNext DEF Shaped
  <2> QED
    BY <1>1, <2>1, <2>2, TxnInvNext DEF Shape
<1> QED
  BY <1>1, <1>2 DEF StoreInv, Ahead

LEMMA StoreInvHolds == StoreSpec => []StoreInv
<1>1. StoreInv /\ [FactNext]_factVars => StoreInv'
  BY StoreInvNext
<1> QED
  BY <1>1, StoreInvInit, PTL DEF StoreSpec

LEMMA StoreInvEnough == StoreInv => EveryRevisionReads /\ FactTypeOK
<1> SUFFICES ASSUME StoreInv PROVE EveryRevisionReads /\ FactTypeOK
  OBVIOUS
<1>1. EveryRevisionReads
  BY StoreBounds, ChainsLoad DEF StoreInv, Disk, DiskTyped, TxnInv, Whole, EveryRevisionReads
<1>2. \A i \in DOMAIN items : items[i] \in Rows
  BY RowIs DEF StoreInv, Disk, DiskTyped
<1>3. writing \in Dbs => db[writing].stack # <<>> /\ db[writing].snapshot = commits
  BY DEF StoreInv, Disk, Backed
<1> QED
  BY <1>2, <1>3, <1>1 DEF StoreInv, Disk, DiskTyped, Serving, CallsTyped, FactTypeOK, Rows, AnyValue, Effects

(* Cas::put and Cas::load: every revision that any process stored can be   *)
(* rebuilt, within the links load follows, as long as no two calls of one  *)
(* connection overlap.                                                     *)
THEOREM RevisionsRead == StoreSpec => []EveryRevisionReads
<1>1. StoreInv => EveryRevisionReads
  BY StoreInvEnough
<1> QED
  BY <1>1, StoreInvHolds, PTL

-----------------------------------------------------------------------------
(* What a table has of a key is counted up row by row.                     *)
Entries == [value : AnyValue, from : 0 .. MaxTime, to : 0 .. MaxTime \union {Open}]
Grown(before, row, k) == IF row.key = k THEN Append(before, Entry(row)) ELSE before
Counts(f, rows, k, N) == f[0] = <<>> /\ \A n \in 1 .. N : f[n] = Grown(f[n - 1], rows[n], k)

LEMMA EntryIs ==
  ASSUME NEW row \in Rows
  PROVE  LET e == Entry(row)
         IN  e \in Entries /\ e.value = row.value /\ e.from = row.from /\ e.to = row.to
BY DEF Entry, Entries, Rows

LEMMA GrownTyped ==
  ASSUME NEW row \in Rows, NEW before \in Seq(Entries), NEW k
  PROVE  Grown(before, row, k) \in Seq(Entries)
<1>1. Entry(row) \in Entries
  BY EntryIs
<1> HIDE DEF Entry
<1>2. Append(before, Entry(row)) \in Seq(Entries)
  BY <1>1
<1> QED
  BY <1>2 DEF Grown

LEMMA CountsTheSame ==
  ASSUME NEW N \in Nat, NEW rows, NEW other, NEW k, NEW f, NEW g,
         Counts(f, rows, k, N), Counts(g, other, k, N),
         \A n \in 1 .. N : Grown(f[n - 1], rows[n], k) = Grown(f[n - 1], other[n], k)
  PROVE  f[N] = g[N]
<1> DEFINE Differ == {n \in Nat : n <= N /\ f[n] # g[n]}
<1>1. ASSUME Differ # {} PROVE FALSE
  <2>1. PICK m \in Differ : \A n \in Differ : m <= n
    BY <1>1, LeastExists
  <2>2. m \in Nat /\ m <= N /\ f[m] # g[m]
    BY <2>1
  <2>3. m # 0
    BY <2>2 DEF Counts
  <2>4. m - 1 \in Nat /\ m - 1 <= N /\ m \in 1 .. N
    BY <2>2, <2>3
  <2>5. m - 1 \notin Differ
    BY <2>1, <2>2
  <2>6. f[m - 1] = g[m - 1]
    BY <2>4, <2>5
  <2>7. f[m] = Grown(f[m - 1], rows[m], k) /\ g[m] = Grown(g[m - 1], other[m], k)
    BY <2>4 DEF Counts
  <2>8. Grown(f[m - 1], rows[m], k) = Grown(f[m - 1], other[m], k)
    BY <2>4
  <2> QED
    BY <2>2, <2>6, <2>7, <2>8
<1>2. N \notin Differ
  BY <1>1
<1> QED
  BY <1>2

LEMMA CountExists ==
  ASSUME NEW rows \in Seq(Rows), NEW k, NEW N \in Nat, N <= Len(rows)
  PROVE  \E f \in [0 .. N -> Seq(Entries)] : Counts(f, rows, k, N)
<1> DEFINE Upto(f, j) == f \in [0 .. j -> Seq(Entries)] /\ Counts(f, rows, k, j)
           Short == {j \in Nat : j <= N /\ ~\E f : Upto(f, j)}
<1>1. ASSUME Short # {} PROVE FALSE
  <2>1. PICK m \in Short : \A n \in Short : m <= n
    <3> HIDE DEF Short
    <3> QED
      BY <1>1, LeastExists DEF Short
  <2>2. m \in Nat /\ m <= N /\ ~\E f : Upto(f, m)
    BY <2>1
  <2>3. m # 0
    <3>1. Upto([n \in 0 .. 0 |-> <<>>], 0)
      BY DEF Counts
    <3> QED
      BY <2>2, <3>1
  <2>4. m - 1 \in Nat /\ m - 1 <= N /\ m \in 1 .. Len(rows)
    BY <2>2, <2>3
  <2>5. m - 1 \notin Short
    <3> HIDE DEF Short
    <3> QED
      BY <2>1, <2>2
  <2>6. PICK g : Upto(g, m - 1)
    BY <2>4, <2>5
  <2> DEFINE last == Grown(g[m - 1], rows[m], k)
             f == [n \in 0 .. m |-> IF n = m THEN last ELSE g[n]]
  <2>7. last \in Seq(Entries)
    <3>1. g[m - 1] \in Seq(Entries)
      BY <2>6, <2>4
    <3>2. rows[m] \in Rows
      BY <2>4
    <3> QED
      BY <3>1, <3>2, GrownTyped
  <2>8. f \in [0 .. m -> Seq(Entries)]
    <3> HIDE DEF last
    <3> QED
      BY <2>6, <2>7, <2>4
  <2>9. f[0] = <<>>
    BY <2>3, <2>4, <2>6 DEF Counts
  <2>10. ASSUME NEW n \in 1 .. m PROVE f[n] = Grown(f[n - 1], rows[n], k)
    <3>1. CASE n = m
      BY <3>1, <2>4
    <3>2. CASE n # m
      <4>1. n \in 1 .. m - 1 /\ n - 1 \in 0 .. m - 1 /\ n - 1 # m /\ n \in 0 .. m /\ n - 1 \in 0 .. m
        BY <3>2, <2>4
      <4>2. f[n] = g[n] /\ f[n - 1] = g[n - 1]
        BY <3>2, <4>1
      <4> QED
        BY <4>1, <4>2, <2>6 DEF Counts
    <3> QED
      BY <3>1, <3>2
  <2>11. Upto(f, m)
    BY <2>8, <2>9, <2>10 DEF Counts
  <2> HIDE DEF Upto
  <2> QED
    BY <2>2, <2>11
<1>2. N \notin Short
  BY <1>1
<1> QED
  BY <1>2

LEMMA HistoryCounts ==
  ASSUME NEW rows \in Seq(Rows), NEW k
  PROVE  \E f \in [0 .. Len(rows) -> Seq(Entries)] : Counts(f, rows, k, Len(rows)) /\ History(rows, k) = f[Len(rows)]
<1> DEFINE Step(f) == [n \in 0 .. Len(rows) |->
             IF n = 0 THEN <<>> ELSE IF rows[n].key = k THEN Append(f[n - 1], Entry(rows[n])) ELSE f[n - 1]]
           upTo == CHOOSE f : f = Step(f)
<1>1. Len(rows) \in Nat /\ Len(rows) <= Len(rows)
  OBVIOUS
<1> HIDE DEF upTo, Step
<1>2. PICK g \in [0 .. Len(rows) -> Seq(Entries)] : Counts(g, rows, k, Len(rows))
  BY <1>1, CountExists
<1>3. g = Step(g)
  <2>1. \A n \in 0 .. Len(rows) : n = 0 \/ n \in 1 .. Len(rows)
    BY <1>1
  <2>2. \A n \in 0 .. Len(rows) :
          g[n] = IF n = 0 THEN <<>> ELSE IF rows[n].key = k THEN Append(g[n - 1], Entry(rows[n])) ELSE g[n - 1]
    BY <2>1, <1>1, <1>2 DEF Counts, Grown
  <2> QED
    BY <1>2, <2>2 DEF Step
<1>4. upTo = Step(upTo)
  BY <1>3 DEF upTo
<1>5. History(rows, k) = upTo[Len(rows)]
  BY DEF History, upTo, Step
<1>6. Counts(upTo, rows, k, Len(rows))
  <2>1. \A n \in 0 .. Len(rows) :
          upTo[n] = IF n = 0 THEN <<>>
                    ELSE IF rows[n].key = k THEN Append(upTo[n - 1], Entry(rows[n])) ELSE upTo[n - 1]
    BY <1>4 DEF Step
  <2>2. 0 \in 0 .. Len(rows) /\ \A n \in 1 .. Len(rows) : n \in 0 .. Len(rows) /\ n # 0
    BY <1>1
  <2> QED
    BY <2>1, <2>2 DEF Counts, Grown
<1>7. \A n \in 0 .. Len(rows) : upTo[n] = g[n]
  <2> TAKE n \in 0 .. Len(rows)
  <2>1. n \in Nat /\ Counts(g, rows, k, n) /\ Counts(upTo, rows, k, n)
    BY <1>1, <1>2, <1>6 DEF Counts
  <2> QED
    BY <2>1, CountsTheSame
<1>9. upTo \in [0 .. Len(rows) -> Seq(Entries)]
  <2>1. upTo = [n \in 0 .. Len(rows) |-> upTo[n]]
    BY <1>4 DEF Step
  <2> QED
    BY <2>1, <1>7
<1> QED
  BY <1>5, <1>6, <1>9

LEMMA HistoryTyped ==
  ASSUME NEW rows \in Seq(Rows), NEW k
  PROVE  History(rows, k) \in Seq(Entries)
<1>1. Len(rows) \in 0 .. Len(rows)
  OBVIOUS
<1> QED
  BY <1>1, HistoryCounts

LEMMA HistoryEmpty == ASSUME NEW k PROVE History(<<>>, k) = <<>>
<1>1. <<>> \in Seq(Rows) /\ Len(<<>>) = 0
  OBVIOUS
<1>2. PICK f : Counts(f, <<>>, k, Len(<<>>)) /\ History(<<>>, k) = f[Len(<<>>)]
  BY <1>1, HistoryCounts
<1> QED
  BY <1>1, <1>2 DEF Counts

LEMMA HistoryAdded ==
  ASSUME NEW rows \in Seq(Rows), NEW row \in Rows, NEW k
  PROVE  History(Append(rows, row), k) = Grown(History(rows, k), row, k)
<1> DEFINE more == Append(rows, row)
<1>1. /\ more \in Seq(Rows) /\ Len(rows) \in Nat /\ Len(more) = Len(rows) + 1 /\ more[Len(rows) + 1] = row
      /\ \A n \in 1 .. Len(rows) : more[n] = rows[n]
  OBVIOUS
<1> HIDE DEF more
<1>2. PICK f : Counts(f, more, k, Len(more)) /\ History(more, k) = f[Len(more)]
  BY <1>1, HistoryCounts
<1>3. PICK g : Counts(g, rows, k, Len(rows)) /\ History(rows, k) = g[Len(rows)]
  BY HistoryCounts
<1>4. f[Len(rows)] = g[Len(rows)]
  <2>1. Counts(f, more, k, Len(rows))
    BY <1>1, <1>2 DEF Counts
  <2> QED
    BY <1>1, <1>3, <2>1, CountsTheSame
<1>5. f[Len(rows) + 1] = Grown(f[Len(rows)], row, k)
  <2>1. Len(rows) + 1 \in 1 .. Len(more) /\ (Len(rows) + 1) - 1 = Len(rows)
    BY <1>1
  <2> QED
    BY <1>1, <1>2, <2>1 DEF Counts
<1>6. History(more, k) = Grown(History(rows, k), row, k)
  BY <1>1, <1>2, <1>3, <1>4, <1>5
<1> QED
  BY <1>6 DEF more

(* Closing a row of another key changes nothing.                           *)
LEMMA HistoryElsewhere ==
  ASSUME NEW rows \in Seq(Rows), NEW i \in {0} \union DOMAIN rows, NEW m \in 0 .. MaxTime, NEW k,
         i # 0 => rows[i].key # k
  PROVE  History(RowClosed(rows, i, m), k) = History(rows, k)
<1> DEFINE c == RowClosed(rows, i, m)
<1>1. /\ c \in Seq(Rows) /\ Len(c) = Len(rows) /\ Len(rows) \in Nat
      /\ \A j \in DOMAIN rows : c[j].key = rows[j].key /\ (j # i => c[j] = rows[j])
  BY ClosedIs
<1>2. \A j \in 1 .. Len(rows) : j \in DOMAIN rows /\ j # 0
  OBVIOUS
<1> HIDE DEF c
<1>3. PICK f : Counts(f, c, k, Len(rows)) /\ History(c, k) = f[Len(rows)]
  BY <1>1, HistoryCounts
<1>4. PICK g : Counts(g, rows, k, Len(rows)) /\ History(rows, k) = g[Len(rows)]
  BY HistoryCounts
<1>5. \A n \in 1 .. Len(rows) : Grown(f[n - 1], c[n], k) = Grown(f[n - 1], rows[n], k)
  BY <1>1, <1>2 DEF Grown
<1>6. f[Len(rows)] = g[Len(rows)]
  BY <1>1, <1>3, <1>4, <1>5, CountsTheSame
<1> QED
  BY <1>3, <1>4, <1>6 DEF c

(* Closing the row that holds closes the entry that holds.                 *)
Shut(q, m) == [i \in DOMAIN q |-> IF q[i].to = Open THEN [q[i] EXCEPT !.to = m] ELSE q[i]]

LEMMA ShutTyped ==
  ASSUME NEW q \in Seq(Entries), NEW m \in 0 .. MaxTime
  PROVE  Shut(q, m) \in Seq(Entries) /\ Len(Shut(q, m)) = Len(q)
<1>1. \A e \in Entries : [e EXCEPT !.to = m] \in Entries
  BY DEF Entries
<1>2. Len(q) \in Nat /\ DOMAIN q = 1 .. Len(q) /\ \A i \in DOMAIN q : q[i] \in Entries
  OBVIOUS
<1>3. \A i \in 1 .. Len(q) : (IF q[i].to = Open THEN [q[i] EXCEPT !.to = m] ELSE q[i]) \in Entries
  BY <1>1, <1>2
<1> HIDE DEF Entries
<1>4. Shut(q, m) \in [1 .. Len(q) -> Entries]
  BY <1>2, <1>3 DEF Shut
<1> QED
  BY <1>2, <1>4

LEMMA ShutGrown ==
  ASSUME NEW q \in Seq(Entries), NEW row \in Rows, NEW after \in Rows, NEW k, NEW m \in 0 .. MaxTime,
         after.key = row.key, after.value = row.value, after.from = row.from,
         row.key = k => after.to = IF row.to = Open THEN m ELSE row.to
  PROVE  Shut(Grown(q, row, k), m) = Grown(Shut(q, m), after, k)
<1>1. CASE row.key # k
  BY <1>1 DEF Grown
<1>2. CASE row.key = k
  <2> DEFINE e == Entry(row)
             x == Entry(after)
             longer == Append(q, e)
  <2>1. /\ e \in Entries /\ x \in Entries
        /\ x = IF e.to = Open THEN [e EXCEPT !.to = m] ELSE e
    BY <1>2, EntryIs DEF Entry
  <2> HIDE DEF e, x
  <2>2. /\ longer \in Seq(Entries) /\ Len(longer) = Len(q) + 1 /\ Len(q) \in Nat /\ longer[Len(q) + 1] = e
        /\ DOMAIN longer = 1 .. Len(q) + 1 /\ DOMAIN q = 1 .. Len(q)
        /\ \A i \in 1 .. Len(q) : longer[i] = q[i]
    BY <2>1
  <2> HIDE DEF longer
  <2>3. /\ Shut(longer, m) \in Seq(Entries) /\ Len(Shut(longer, m)) = Len(q) + 1
        /\ Shut(q, m) \in Seq(Entries) /\ Len(Shut(q, m)) = Len(q)
    BY <2>2, ShutTyped
  <2> DEFINE s == Shut(q, m)
             l == Shut(longer, m)
             a == Append(s, x)
  <2>4. /\ a \in Seq(Entries) /\ Len(a) = Len(q) + 1 /\ a[Len(q) + 1] = x
        /\ \A i \in 1 .. Len(q) : a[i] = s[i]
    BY <2>1, <2>3
  <2>5. \A i \in 1 .. Len(q) : l[i] = s[i]
    <3> TAKE i \in 1 .. Len(q)
    <3>1. i \in DOMAIN longer /\ i \in DOMAIN q /\ longer[i] = q[i]
      BY <2>2
    <3>2. \A p : i \in DOMAIN p => Shut(p, m)[i] = IF p[i].to = Open THEN [p[i] EXCEPT !.to = m] ELSE p[i]
      BY DEF Shut
    <3> QED
      BY <3>1, <3>2
  <2>6. l[Len(q) + 1] = x
    BY <2>1, <2>2 DEF Shut
  <2> HIDE DEF a, l, s
  <2>7. \A i \in 1 .. Len(q) + 1 : l[i] = a[i]
    <3> TAKE i \in 1 .. Len(q) + 1
    <3>1. i \in 1 .. Len(q) \/ i = Len(q) + 1
      BY <2>2
    <3> QED
      BY <2>4, <2>5, <2>6, <3>1
  <2>8. l = a
    BY <2>2, <2>3, <2>4, <2>7 DEF l
  <2>9. Grown(q, row, k) = longer /\ Grown(s, after, k) = a
    BY <1>2 DEF Grown, longer, a, e, x
  <2> QED
    BY <2>8, <2>9 DEF l, s
<1> QED
  BY <1>1, <1>2

LEMMA HistoryShut ==
  ASSUME NEW rows \in Seq(Rows), Orderly(rows), NEW k, NEW m \in 0 .. MaxTime
  PROVE  History(RowClosed(rows, OpenRow(rows, k), m), k) = Shut(History(rows, k), m)
<1> DEFINE h == OpenRow(rows, k)
           c == RowClosed(rows, h, m)
<1>1. /\ h \in {0} \union DOMAIN rows
      /\ \A i \in DOMAIN rows : rows[i].key = k /\ rows[i].to = Open <=> i = h
  BY OpenRowIs
<1>2. /\ c \in Seq(Rows) /\ Len(c) = Len(rows) /\ Len(rows) \in Nat
      /\ \A j \in DOMAIN rows :
           /\ c[j].key = rows[j].key /\ c[j].value = rows[j].value /\ c[j].from = rows[j].from
           /\ c[j].to = IF j = h THEN m ELSE rows[j].to
  BY <1>1, ClosedIs
<1>3. \A j \in 1 .. Len(rows) : j \in DOMAIN rows /\ j \in DOMAIN c /\ rows[j] \in Rows /\ c[j] \in Rows
  BY <1>2
<1> HIDE DEF c, h
<1>4. PICK f \in [0 .. Len(rows) -> Seq(Entries)] : Counts(f, rows, k, Len(rows)) /\ History(rows, k) = f[Len(rows)]
  BY HistoryCounts
<1>5. PICK g : Counts(g, c, k, Len(rows)) /\ History(c, k) = g[Len(rows)]
  BY <1>2, HistoryCounts
<1> DEFINE s == [n \in 0 .. Len(rows) |-> Shut(f[n], m)]
<1>6. Counts(s, c, k, Len(rows))
  <2>1. s[0] = <<>>
    <3>1. 0 \in 0 .. Len(rows) /\ f[0] = <<>>
      BY <1>2, <1>4 DEF Counts
    <3>2. Shut(<<>>, m) = <<>>
      BY DEF Shut
    <3> QED
      BY <3>1, <3>2
  <2>2. ASSUME NEW n \in 1 .. Len(rows) PROVE s[n] = Grown(s[n - 1], c[n], k)
    <3>0. n \in 0 .. Len(rows) /\ n - 1 \in 0 .. Len(rows)
      BY <1>2
    <3>1. n \in 0 .. Len(rows) /\ n - 1 \in 0 .. Len(rows) /\ f[n - 1] \in Seq(Entries)
          /\ f[n] = Grown(f[n - 1], rows[n], k)
      <4>1. f[n - 1] \in Seq(Entries)
        BY <3>0, <1>4
      <4> QED
        BY <3>0, <4>1, <1>4 DEF Counts
    <3>2. s[n] = Shut(f[n], m) /\ s[n - 1] = Shut(f[n - 1], m)
      BY <3>1
    <3>3. rows[n].key = k => c[n].to = IF rows[n].to = Open THEN m ELSE rows[n].to
      BY <1>1, <1>2, <1>3
    <3>4. c[n] \in Rows /\ rows[n] \in Rows /\ c[n].key = rows[n].key /\ c[n].value = rows[n].value
          /\ c[n].from = rows[n].from
      BY <1>2, <1>3
    <3>5. Shut(Grown(f[n - 1], rows[n], k), m) = Grown(Shut(f[n - 1], m), c[n], k)
      BY <3>1, <3>3, <3>4, ShutGrown
    <3> QED
      BY <3>1, <3>2, <3>5
  <2> HIDE DEF s
  <2> QED
    BY <2>1, <2>2 DEF Counts
<1>7. s[Len(rows)] = Shut(f[Len(rows)], m)
  BY <1>2
<1> HIDE DEF s
<1>8. s[Len(rows)] = g[Len(rows)]
  BY <1>2, <1>5, <1>6, CountsTheSame
<1> QED
  BY <1>4, <1>5, <1>7, <1>8 DEF c, h

(* The last entry of a key holds if a row of the key does.                 *)
LastHolds(q) == q # <<>> /\ q[Len(q)].to = Open
Tells(q, rows, k, n) ==
  /\ \A j \in 1 .. n : rows[j].key = k /\ rows[j].to = Open => LastHolds(q) /\ q[Len(q)].value = rows[j].value
  /\ LastHolds(q) => \E j \in 1 .. n : rows[j].key = k /\ rows[j].to = Open

LEMMA GrownTells ==
  ASSUME NEW rows \in Seq(Rows), Orderly(rows), NEW k, NEW n \in 1 .. Len(rows), NEW q \in Seq(Entries),
         Tells(q, rows, k, n - 1)
  PROVE  Tells(Grown(q, rows[n], k), rows, k, n)
<1>1. /\ n \in DOMAIN rows /\ rows[n] \in Rows /\ n \in Nat
      /\ \A j \in 1 .. n : j \in DOMAIN rows /\ (j = n \/ j \in 1 .. n - 1)
  OBVIOUS
<1>2. CASE rows[n].key # k
  <2>1. Grown(q, rows[n], k) = q
    BY <1>2 DEF Grown
  <2>2. \A j \in 1 .. n - 1 : j \in 1 .. n
    OBVIOUS
  <2> QED
    BY <1>1, <1>2, <2>1, <2>2 DEF Tells
<1>3. CASE rows[n].key = k
  <2> DEFINE e == Entry(rows[n])
             longer == Append(q, e)
  <2>1. e \in Entries /\ e.value = rows[n].value /\ e.to = rows[n].to
    BY <1>1, EntryIs
  <2>2. Grown(q, rows[n], k) = longer
    BY <1>3 DEF Grown
  <2> HIDE DEF e
  <2>3. longer # <<>> /\ longer[Len(longer)] = e
    BY <2>1
  <2> HIDE DEF longer
  <2>4. \A j \in 1 .. n : rows[j].key = k /\ rows[j].to = Open => j = n
    <3> SUFFICES ASSUME NEW j \in 1 .. n, rows[j].key = k, rows[j].to = Open, j # n PROVE FALSE
      OBVIOUS
    <3>1. j \in DOMAIN rows /\ j < n
      BY <1>1
    <3> QED
      BY <1>1, <1>3, <3>1 DEF Orderly
  <2>5. n \in 1 .. n
    BY <1>1
  <2> QED
    BY <1>3, <2>1, <2>2, <2>3, <2>4, <2>5 DEF Tells, LastHolds
<1> QED
  BY <1>2, <1>3

LEMMA GrownTimely ==
  ASSUME NEW q \in Seq(Entries), NEW row \in Rows, NEW k, NEW m \in 0 .. MaxTime, Timely(q, m),
         row.from <= m, row.to = Open \/ row.to <= m
  PROVE  Timely(Grown(q, row, k), m)
<1>1. CASE row.key # k
  BY <1>1 DEF Grown
<1>2. CASE row.key = k
  <2> DEFINE e == Entry(row)
             longer == Append(q, e)
  <2>1. e \in Entries /\ e.from <= m /\ (e.to = Open \/ e.to <= m)
    BY EntryIs
  <2> HIDE DEF e
  <2>2. \A i \in DOMAIN longer : longer[i] = e \/ (i \in DOMAIN q /\ longer[i] = q[i])
    BY <2>1
  <2> HIDE DEF longer
  <2>3. Timely(longer, m)
    BY <2>1, <2>2 DEF Timely
  <2> QED
    BY <1>2, <2>3 DEF Grown, longer, e
<1> QED
  BY <1>1, <1>2

LEMMA HistoryTells ==
  ASSUME NEW rows \in Seq(Rows), Orderly(rows), NEW k
  PROVE  Tells(History(rows, k), rows, k, Len(rows))
<1>1. PICK f \in [0 .. Len(rows) -> Seq(Entries)] : Counts(f, rows, k, Len(rows)) /\ History(rows, k) = f[Len(rows)]
  BY HistoryCounts
<1>2. Len(rows) \in Nat
  OBVIOUS
<1> DEFINE Wrong == {n \in Nat : n <= Len(rows) /\ ~Tells(f[n], rows, k, n)}
<1>3. ASSUME Wrong # {} PROVE FALSE
  <2>1. PICK n \in Wrong : \A j \in Wrong : n <= j
    BY <1>3, LeastExists
  <2>2. n \in Nat /\ n <= Len(rows) /\ ~Tells(f[n], rows, k, n)
    BY <2>1
  <2>3. n # 0
    <3>1. f[0] = <<>>
      BY <1>1 DEF Counts
    <3>2. Tells(<<>>, rows, k, 0)
      BY DEF Tells, LastHolds
    <3> QED
      BY <2>2, <3>1, <3>2
  <2>4. n - 1 \in Nat /\ n - 1 <= Len(rows) /\ n \in 1 .. Len(rows) /\ n - 1 \in 0 .. Len(rows)
    BY <1>2, <2>2, <2>3
  <2>5. n - 1 \notin Wrong
    BY <2>1, <2>2
  <2>6. Tells(f[n - 1], rows, k, n - 1)
    BY <2>4, <2>5
  <2>7. f[n] = Grown(f[n - 1], rows[n], k) /\ f[n - 1] \in Seq(Entries)
    <3>1. f[n - 1] \in Seq(Entries)
      BY <1>1, <2>4
    <3> QED
      BY <1>1, <2>4, <3>1 DEF Counts
  <2>8. Tells(f[n], rows, k, n)
    BY <2>4, <2>6, <2>7, GrownTells
  <2> QED
    BY <2>2, <2>8
<1>4. Len(rows) \notin Wrong
  BY <1>3
<1> QED
  BY <1>1, <1>2, <1>4

LEMMA HistoryTimely ==
  ASSUME NEW rows \in Seq(Rows), NEW k, NEW m \in 0 .. MaxTime, Timely(rows, m)
  PROVE  Timely(History(rows, k), m)
<1>1. PICK f \in [0 .. Len(rows) -> Seq(Entries)] : Counts(f, rows, k, Len(rows)) /\ History(rows, k) = f[Len(rows)]
  BY HistoryCounts
<1>2. Len(rows) \in Nat
  OBVIOUS
<1> DEFINE Wrong == {n \in Nat : n <= Len(rows) /\ ~Timely(f[n], m)}
<1>3. ASSUME Wrong # {} PROVE FALSE
  <2>1. PICK n \in Wrong : \A j \in Wrong : n <= j
    BY <1>3, LeastExists
  <2>2. n \in Nat /\ n <= Len(rows) /\ ~Timely(f[n], m)
    BY <2>1
  <2>3. n # 0
    BY <1>1, <2>2 DEF Counts, Timely
  <2>4. n - 1 \in Nat /\ n - 1 <= Len(rows) /\ n \in 1 .. Len(rows) /\ n - 1 \in 0 .. Len(rows)
    BY <1>2, <2>2, <2>3
  <2>5. n - 1 \notin Wrong
    BY <2>1, <2>2
  <2>6. Timely(f[n - 1], m)
    BY <2>4, <2>5
  <2>7. f[n] = Grown(f[n - 1], rows[n], k) /\ f[n - 1] \in Seq(Entries)
    <3>1. f[n - 1] \in Seq(Entries)
      BY <1>1, <2>4
    <3> QED
      BY <1>1, <2>4, <3>1 DEF Counts
  <2>8. rows[n] \in Rows /\ n \in DOMAIN rows
    BY <2>4
  <2>9. rows[n].from <= m /\ (rows[n].to = Open \/ rows[n].to <= m)
    BY <2>8 DEF Timely
  <2>10. Timely(f[n], m)
    BY <2>6, <2>7, <2>8, <2>9, GrownTimely
  <2> QED
    BY <2>2, <2>10
<1>4. Len(rows) \notin Wrong
  BY <1>3
<1> QED
  BY <1>1, <1>2, <1>4

(* So the last entry of a key holds what the open row of the key holds.    *)
LEMMA HistoryHolds ==
  ASSUME NEW rows \in Seq(Rows), Orderly(rows), NEW k, NEW v
  PROVE  LET q == History(rows, k)
         IN  Holds(rows, k, v) <=> LastHolds(q) /\ q[Len(q)].value = v
<1> DEFINE q == History(rows, k)
           h == OpenRow(rows, k)
<1>1. Tells(q, rows, k, Len(rows))
  BY HistoryTells
<1>2. /\ h \in DOMAIN rows <=> h # 0
      /\ \A i \in DOMAIN rows : rows[i].key = k /\ rows[i].to = Open <=> i = h
  BY OpenRowIs
<1>3. DOMAIN rows = 1 .. Len(rows)
  OBVIOUS
<1>4. Holds(rows, k, v) <=> h # 0 /\ rows[h].value = v
  BY DEF Holds
<1> HIDE DEF q, h
<1>5. LastHolds(q) <=> h # 0
  BY <1>1, <1>2, <1>3 DEF Tells
<1>6. h # 0 => q[Len(q)].value = rows[h].value
  BY <1>1, <1>2, <1>3 DEF Tells
<1> QED
  BY <1>4, <1>5, <1>6 DEF q, h

(* What one table goes on from another shows in what they have of a key.   *)
KeepsOn(q, r) ==
  /\ Len(q) <= Len(r)
  /\ \A i \in 1 .. Len(q) :
       r[i].value = q[i].value /\ r[i].from = q[i].from /\ (q[i].to # Open => r[i].to # Open)

LEMMA GrownGoesOn ==
  ASSUME NEW q \in Seq(Entries), NEW r \in Seq(Entries), KeepsOn(q, r), Len(q) = Len(r),
         NEW row \in Rows, NEW after \in Rows, NEW k, after.key = row.key, after.value = row.value, after.from = row.from,
         row.to # Open => after.to # Open
  PROVE  KeepsOn(Grown(q, row, k), Grown(r, after, k)) /\ Len(Grown(q, row, k)) = Len(Grown(r, after, k))
<1>1. CASE row.key # k
  BY <1>1 DEF Grown
<1>2. CASE row.key = k
  <2> DEFINE e == Entry(row)
             x == Entry(after)
             a == Append(q, e)
             b == Append(r, x)
  <2>1. /\ e \in Entries /\ x \in Entries /\ x.value = e.value /\ x.from = e.from /\ (e.to # Open => x.to # Open)
    BY EntryIs
  <2>2. Grown(q, row, k) = a /\ Grown(r, after, k) = b
    BY <1>2 DEF Grown
  <2> HIDE DEF e, x
  <2>3. /\ Len(a) = Len(q) + 1 /\ Len(b) = Len(r) + 1 /\ Len(q) \in Nat /\ a[Len(q) + 1] = e /\ b[Len(q) + 1] = x
        /\ \A i \in 1 .. Len(q) : a[i] = q[i] /\ b[i] = r[i]
    BY <2>1
  <2> HIDE DEF a, b
  <2>4. \A i \in 1 .. Len(a) : i \in 1 .. Len(q) \/ i = Len(q) + 1
    BY <2>3
  <2>5. KeepsOn(a, b) /\ Len(a) = Len(b)
    BY <2>1, <2>3, <2>4 DEF KeepsOn
  <2> QED
    BY <2>2, <2>5
<1> QED
  BY <1>1, <1>2

LEMMA GrownLonger ==
  ASSUME NEW q \in Seq(Entries), NEW r \in Seq(Entries), KeepsOn(q, r), NEW row \in Rows, NEW k
  PROVE  KeepsOn(q, Grown(r, row, k))
<1>1. CASE row.key # k
  BY <1>1 DEF Grown
<1>2. CASE row.key = k
  <2> DEFINE e == Entry(row)
             b == Append(r, e)
  <2>1. e \in Entries /\ Grown(r, row, k) = b
    BY <1>2, EntryIs DEF Grown
  <2> HIDE DEF e
  <2>2. Len(b) = Len(r) + 1 /\ Len(r) \in Nat /\ Len(q) \in Nat /\ \A i \in 1 .. Len(r) : b[i] = r[i]
    BY <2>1
  <2> HIDE DEF b
  <2>3. Len(q) <= Len(r) /\ \A i \in 1 .. Len(q) : i \in 1 .. Len(r)
    BY <2>2 DEF KeepsOn
  <2>4. KeepsOn(q, b)
    BY <2>2, <2>3 DEF KeepsOn
  <2> QED
    BY <2>1, <2>4
<1> QED
  BY <1>1, <1>2

LEMMA HistoryContinues ==
  ASSUME NEW rows \in Seq(Rows), NEW more \in Seq(Rows), Continues(rows, more), NEW k
  PROVE  KeepsOn(History(rows, k), History(more, k))
<1> DEFINE N == Len(rows)
           M == Len(more)
<1>0. N \in Nat /\ M \in Nat /\ N <= M
  BY DEF Continues
<1>1. PICK f \in [0 .. N -> Seq(Entries)] : Counts(f, rows, k, N) /\ History(rows, k) = f[N]
  BY HistoryCounts
<1>2. PICK g \in [0 .. M -> Seq(Entries)] : Counts(g, more, k, M) /\ History(more, k) = g[M]
  BY HistoryCounts
<1>3. \A n \in 1 .. N : /\ rows[n] \in Rows /\ more[n] \in Rows /\ more[n].key = rows[n].key
                        /\ more[n].value = rows[n].value /\ more[n].from = rows[n].from
                        /\ rows[n].to # Open => more[n].to # Open
  BY <1>0 DEF Continues
<1>4. \A n \in 1 .. M : more[n] \in Rows
  OBVIOUS
<1> HIDE DEF N, M
<1>5. ASSUME NEW n \in Nat, n <= N PROVE KeepsOn(f[n], g[n]) /\ Len(f[n]) = Len(g[n])
  <2> DEFINE Wrong == {j \in Nat : j <= N /\ ~(KeepsOn(f[j], g[j]) /\ Len(f[j]) = Len(g[j]))}
  <2>1. ASSUME Wrong # {} PROVE FALSE
    <3>1. PICK j \in Wrong : \A i \in Wrong : j <= i
      BY <2>1, LeastExists
    <3>2. j \in Nat /\ j <= N /\ ~(KeepsOn(f[j], g[j]) /\ Len(f[j]) = Len(g[j]))
      BY <3>1
    <3>3. j # 0
      <4>1. f[0] = <<>> /\ g[0] = <<>>
        BY <1>1, <1>2 DEF Counts
      <4>2. KeepsOn(<<>>, <<>>)
        BY DEF KeepsOn
      <4> QED
        BY <3>2, <4>1, <4>2
    <3>4. j - 1 \in Nat /\ j - 1 <= N /\ j \in 1 .. N /\ j \in 1 .. M /\ j - 1 \in 0 .. N /\ j - 1 \in 0 .. M
      BY <1>0, <3>2, <3>3
    <3>5. j - 1 \notin Wrong
      BY <3>1, <3>2
    <3>6. KeepsOn(f[j - 1], g[j - 1]) /\ Len(f[j - 1]) = Len(g[j - 1])
      BY <3>4, <3>5
    <3>7. f[j - 1] \in Seq(Entries) /\ g[j - 1] \in Seq(Entries)
      BY <1>1, <1>2, <3>4
    <3>8. f[j] = Grown(f[j - 1], rows[j], k) /\ g[j] = Grown(g[j - 1], more[j], k)
      BY <1>1, <1>2, <3>4 DEF Counts
    <3>9. /\ rows[j] \in Rows /\ more[j] \in Rows /\ more[j].key = rows[j].key
          /\ more[j].value = rows[j].value /\ more[j].from = rows[j].from
          /\ rows[j].to # Open => more[j].to # Open
      BY <1>3, <3>4
    <3>10. KeepsOn(f[j], g[j]) /\ Len(f[j]) = Len(g[j])
      <4>1. /\ KeepsOn(Grown(f[j - 1], rows[j], k), Grown(g[j - 1], more[j], k))
            /\ Len(Grown(f[j - 1], rows[j], k)) = Len(Grown(g[j - 1], more[j], k))
        <5> DEFINE q == f[j - 1]
                   r == g[j - 1]
                   row == rows[j]
                   after == more[j]
        <5>1. /\ q \in Seq(Entries) /\ r \in Seq(Entries) /\ KeepsOn(q, r) /\ Len(q) = Len(r)
              /\ row \in Rows /\ after \in Rows /\ after.key = row.key /\ after.value = row.value
              /\ after.from = row.from /\ (row.to # Open => after.to # Open)
          BY <3>6, <3>7, <3>9
        <5> HIDE DEF q, r, row, after
        <5>2. KeepsOn(Grown(q, row, k), Grown(r, after, k)) /\ Len(Grown(q, row, k)) = Len(Grown(r, after, k))
          BY <5>1, GrownGoesOn
        <5> QED
          BY <5>2 DEF q, r, row, after
      <4> QED
        BY <3>8, <4>1
    <3> QED
      BY <3>2, <3>10
  <2> QED
    BY <1>5, <2>1
<1>6. ASSUME NEW n \in Nat, N <= n, n <= M PROVE KeepsOn(f[N], g[n])
  <2> DEFINE Wrong == {j \in Nat : N <= j /\ j <= M /\ ~KeepsOn(f[N], g[j])}
  <2>1. ASSUME Wrong # {} PROVE FALSE
    <3>1. PICK j \in Wrong : \A i \in Wrong : j <= i
      BY <2>1, LeastExists
    <3>2. j \in Nat /\ N <= j /\ j <= M /\ ~KeepsOn(f[N], g[j])
      BY <3>1
    <3>3. j # N
      BY <1>0, <1>5, <3>2
    <3>4. j - 1 \in Nat /\ N <= j - 1 /\ j - 1 <= M /\ j \in 1 .. M /\ j - 1 \in 0 .. M /\ N \in 0 .. N
      BY <1>0, <3>2, <3>3
    <3>5. j - 1 \notin Wrong
      BY <3>1, <3>2
    <3>6. KeepsOn(f[N], g[j - 1])
      BY <3>4, <3>5
    <3>7. f[N] \in Seq(Entries) /\ g[j - 1] \in Seq(Entries)
      BY <1>1, <1>2, <3>4
    <3>8. g[j] = Grown(g[j - 1], more[j], k) /\ more[j] \in Rows
      BY <1>2, <1>4, <3>4 DEF Counts
    <3>9. KeepsOn(f[N], g[j])
      BY <3>6, <3>7, <3>8, GrownLonger
    <3> QED
      BY <3>2, <3>9
  <2> QED
    BY <1>6, <2>1
<1> QED
  BY <1>0, <1>1, <1>2, <1>6

-----------------------------------------------------------------------------
(* What the file and the calls are to those who only see facts.            *)
Book == [k \in Keys |-> History(items, k)]
AskOf(c) == IF c.op = "put" THEN [op |-> "remember", key |-> c.key, value |-> c.value] ELSE c
FactAsked == [w \in Writers |-> AskOf(call[w])]
ToldOf(w) == IF Settled(w) THEN "done" ELSE effect[w]
FactTold == [w \in Writers |-> ToldOf(w)]
FactSteady == ~setBack
FactApart == ~overlapped
factsVars == <<Book, FactAsked, FactTold, FactSteady, FactApart>>
ClockStays == UNCHANGED <<FactSteady, FactApart>>

LEMMA FactsNextIs ==
  ASSUME NEW w \in Writers
  PROVE  /\ \A c \in FactSpec!Asks : FactSpec!Ask(w, c) => FactSpec!Next
         /\ FactSpec!Remembers(w) => FactSpec!Next
         /\ FactSpec!Forgets(w) => FactSpec!Next
         /\ FactSpec!Refused(w) => FactSpec!Next
         /\ FactSpec!Returns(w) => FactSpec!Next
         /\ FactSpec!Gone(w) => FactSpec!Next
BY Zenon DEF FactSpec!Next

LEMMA AsksIs ==
  ASSUME NEW w \in Writers, NEW c, FactAsked[w] = NoCallYet, FactAsked' = [FactAsked EXCEPT ![w] = c],
         UNCHANGED <<Book, FactTold>>, ClockStays
  PROVE  FactSpec!Ask(w, c)
BY DEF FactSpec!Ask, FactSpec!Idle, NoCallYet, Book, FactAsked, AskOf, FactTold, ToldOf, ClockStays, FactSteady, FactApart

LEMMA RefusedIs ==
  ASSUME NEW w \in Writers, FactAsked[w] # NoCallYet, FactTold[w] = "none", UNCHANGED <<Book, FactAsked>>,
         FactTold' = [FactTold EXCEPT ![w] = "refused"], ClockStays
  PROVE  FactSpec!Refused(w)
BY DEF FactSpec!Refused, FactSpec!Idle, NoCallYet, Book, FactAsked, AskOf, FactTold, ToldOf, ClockStays, FactSteady,
       FactApart

LEMMA GoneIs ==
  ASSUME NEW w \in Writers, FactAsked[w] # NoCallYet, UNCHANGED Book,
         FactAsked' = [FactAsked EXCEPT ![w] = NoCallYet], FactTold' = [FactTold EXCEPT ![w] = "none"], ClockStays
  PROVE  FactSpec!Gone(w) /\ (FactTold[w] # "none" => FactSpec!Returns(w))
BY DEF FactSpec!Gone, FactSpec!Returns, FactSpec!Idle, NoCallYet, Book, FactAsked, AskOf, FactTold, ToldOf, ClockStays,
       FactSteady, FactApart

LEMMA ClockSetIs ==
  ASSUME FactSteady, ~FactSteady', UNCHANGED <<Book, FactAsked, FactTold, FactApart>>
  PROVE  FactSpec!Next
<1>1. FactSpec!ClockSetBack
  BY DEF FactSpec!ClockSetBack, Book, FactAsked, AskOf, FactTold, ToldOf, FactSteady, FactApart
<1> QED
  BY <1>1, Zenon DEF FactSpec!Next

LEMMA BookTells ==
  ASSUME NEW k \in Keys, NEW v, NEW t
  PROVE  LET q == History(items, k)
         IN  /\ FactSpec!Holding(k) /\ FactSpec!Last(k).value = v <=> LastHolds(q) /\ q[Len(q)].value = v
             /\ FactSpec!ClosedAt(k, t) = Shut(q, t)
             /\ FactSpec!NotBefore(k, t) <=> Timely(q, t)
<1> DEFINE q == History(items, k)
           B == [j \in Keys |-> History(items, j)]
<1>1. B[k] = q
  OBVIOUS
<1>2. /\ FactSpec!Holding(k) <=> B[k] # <<>> /\ B[k][Len(B[k])].to = Open
      /\ FactSpec!Last(k) = B[k][Len(B[k])]
      /\ FactSpec!ClosedAt(k, t) =
           [i \in DOMAIN B[k] |-> IF B[k][i].to = Open THEN [B[k][i] EXCEPT !.to = t] ELSE B[k][i]]
      /\ FactSpec!NotBefore(k, t) <=>
           \A i \in DOMAIN B[k] : B[k][i].from <= t /\ (B[k][i].to = Open \/ B[k][i].to <= t)
  BY DEF FactSpec!Holding, FactSpec!Last, FactSpec!ClosedAt, FactSpec!NotBefore
<1> HIDE DEF B, q
<1> QED
  BY <1>1, <1>2 DEF LastHolds, Shut, Timely, q

(* Remembers and Forgets, said of these.                                   *)
IsDone(w) ==
  /\ FactAsked[w] # NoCallYet /\ FactTold[w] = "none"
  /\ FactTold' = [FactTold EXCEPT ![w] = "done"] /\ UNCHANGED FactAsked /\ ClockStays

LEMMA ForgetsIs ==
  ASSUME NEW w
  PROVE  FactSpec!Forgets(w) <=>
           /\ FactAsked[w].op = "forget"
           /\ \E t \in 0 .. MaxTime :
                IsDone(w) /\ Book' = [Book EXCEPT ![FactAsked[w].key] = FactSpec!ClosedAt(FactAsked[w].key, t)]
BY DEF FactSpec!Forgets, FactSpec!Does, FactSpec!Idle, NoCallYet, IsDone, Book, FactAsked, AskOf, FactTold, ToldOf,
       ClockStays, FactSteady, FactApart

LEMMA RemembersIs ==
  ASSUME NEW w
  PROVE  FactSpec!Remembers(w) <=>
           /\ FactAsked[w].op = "remember"
           /\ LET k == FactAsked[w].key
                  same == FactSpec!Holding(k) /\ FactSpec!Last(k).value = FactAsked[w].value
              IN  \/ same /\ IsDone(w) /\ Book' = Book
                  \/ \E t \in 0 .. MaxTime :
                       /\ ~same /\ (FactSteady => FactSpec!NotBefore(k, t))
                       /\ IsDone(w)
                       /\ Book' = [Book EXCEPT ![k] =
                            Append(FactSpec!ClosedAt(k, t), [value |-> FactAsked[w].value, from |-> t, to |-> Open])]
BY DEF FactSpec!Remembers, FactSpec!Does, FactSpec!Idle, NoCallYet, IsDone, Book, FactAsked, AskOf, FactTold, ToldOf,
       ClockStays, FactSteady, FactApart

LEMMA SeenIs ==
  ASSUME NEW w \in Writers, FactAsked[w].op = "remember", FactAsked[w].key \in Keys,
         LET q == History(items, FactAsked[w].key) IN LastHolds(q) /\ q[Len(q)].value = FactAsked[w].value,
         IsDone(w), UNCHANGED Book
  PROVE  FactSpec!Remembers(w)
<1> DEFINE k == FactAsked[w].key
<1>1. FactSpec!Holding(k) /\ FactSpec!Last(k).value = FactAsked[w].value
  BY BookTells
<1> QED
  BY <1>1, RemembersIs

LEMMA StoredIs ==
  ASSUME NEW w \in Writers, FactAsked[w].op = "remember",
         NEW k \in Keys, k = FactAsked[w].key, NEW m \in 0 .. MaxTime,
         NEW q, q = History(items, k), NEW v, v = FactAsked[w].value,
         ~(LastHolds(q) /\ q[Len(q)].value = v), FactSteady => Timely(q, m), IsDone(w),
         Book' = [Book EXCEPT ![k] = Append(Shut(q, m), [value |-> v, from |-> m, to |-> Open])]
  PROVE  FactSpec!Remembers(w)
<1>1. ~(FactSpec!Holding(k) /\ FactSpec!Last(k).value = v) /\ (FactSteady => FactSpec!NotBefore(k, m))
  BY BookTells
<1>2. FactSpec!ClosedAt(k, m) = Shut(q, m)
  BY BookTells
<1>3. Book' = [Book EXCEPT ![k] = Append(FactSpec!ClosedAt(k, m), [value |-> v, from |-> m, to |-> Open])]
  BY <1>2
<1> QED
  BY <1>1, <1>3, RemembersIs

LEMMA ForgottenIs ==
  ASSUME NEW w \in Writers, FactAsked[w].op = "forget", NEW k \in Keys, k = FactAsked[w].key, NEW m \in 0 .. MaxTime,
         IsDone(w), Book' = [Book EXCEPT ![k] = Shut(History(items, k), m)]
  PROVE  FactSpec!Forgets(w)
<1>1. FactSpec!ClosedAt(k, m) = Shut(History(items, k), m)
  BY BookTells
<1> QED
  BY <1>1, ForgetsIs

LEMMA AskIs ==
  ASSUME NEW c \in Tools \union {NoCallYet}
  PROVE  /\ AskOf(c) = NoCallYet <=> c = NoCallYet
         /\ c # NoCallYet => /\ AskOf(c) \in FactSpec!Asks /\ AskOf(c).key = c.key /\ c.key \in Keys
                             /\ c.op \in {"put", "remember"} => AskOf(c).op = "remember" /\ AskOf(c).value = c.value
                             /\ c.op = "forget" => AskOf(c).op = "forget"
<1>1. CASE c = NoCallYet
  BY <1>1 DEF AskOf, NoCallYet
<1>2. CASE c \in [op : {"remember"}, key : FactKeys, value : Values]
  <2>1. AskOf(c) = c /\ c.op = "remember" /\ c.key \in Keys /\ c # NoCallYet
    BY <1>2 DEF AskOf, NoCallYet, Keys
  <2>2. c \in [op : {"remember"}, key : Keys, value : AnyValue]
    BY <1>2 DEF Keys, AnyValue
  <2> QED
    BY <2>1, <2>2 DEF FactSpec!Asks, AnyValue
<1>3. CASE c \in [op : {"put"}, key : Artifacts, value : Contents]
  <2> DEFINE a == [op |-> "remember", key |-> c.key, value |-> c.value]
  <2>1. AskOf(c) = a /\ c.op = "put" /\ c.key \in Keys /\ c # NoCallYet /\ c.value \in AnyValue
    BY <1>3 DEF AskOf, NoCallYet, Keys, AnyValue
  <2>2. a \in [op : {"remember"}, key : Keys, value : AnyValue] /\ a # NoCallYet
    BY <2>1 DEF NoCallYet
  <2> QED
    BY <2>1, <2>2 DEF FactSpec!Asks, AnyValue
<1>4. CASE c \in [op : {"forget"}, key : Keys]
  <2>1. AskOf(c) = c /\ c.op = "forget" /\ c.key \in Keys /\ c # NoCallYet
    BY <1>4 DEF AskOf, NoCallYet
  <2> QED
    BY <1>4, <2>1 DEF FactSpec!Asks
<1> QED
  BY <1>1, <1>2, <1>3, <1>4 DEF Tools

-----------------------------------------------------------------------------
(* A call that found its value is settled, seen as a transaction.          *)
TxnSettled(w) ==
  Txn[w].at \in {"blob", "look", "release"} /\ ~Locks(w) /\ Holds(Txn[w].items, call[w].key, call[w].value)
Agreed == \A w \in Writers : Settled(w) <=> TxnSettled(w)
Marked == ~overlapped => Agreed

LEMMA MarkedHolds == StoreInv => Marked
<1> SUFFICES ASSUME StoreInv, ~overlapped, NEW w \in Writers PROVE Settled(w) <=> TxnSettled(w)
  BY DEF Marked, Agreed
<1> DEFINE t == txn[w]
           e == effect[w]
           c == call[w]
           d == db[dbOf[w]]
           s == Stage(t, e)
           found == {"blob", "look", "release"}
           placed == \/ t.at \in {"blob", "insert", "look", "release", "leave"}
                     \/ t.at \in {"begin", "open"} /\ t.names # <<>>
<1>1. StoreKept /\ Shape
  BY DEF StoreInv, StoreKept
<1>2. /\ t \in Visits /\ e \in Effects /\ c \in Tools \union {NoCallYet} /\ Sound(t, c, e) /\ d \in Connections
      /\ Txn[w] = TxnFor(t, e, d)
  BY <1>1, TxnIs
<1>3. Txn[w].at = s /\ (s \in Reading => Txn[w].items = d.items)
  BY <1>2, TxnForIs
<1>4. c # NoCallYet => NestedIn(t, d, txnDepth[dbOf[w]])
  BY <1>1 DEF Shape, Nested
<1>5. Locks(w) <=> writing = dbOf[w] /\ Works(t, e)
  BY DEF Locks, Working
<1>6. Settled(w) <=> /\ placed /\ e = "none" /\ writing # dbOf[w]
                     /\ Holds(Seen(dbOf[w]).items, c.key, c.value)
  BY DEF Settled, Holds
<1>7. Seen(dbOf[w]).items = IF d.stack = <<>> THEN items ELSE d.items
  BY DEF Seen
<1> HIDE DEF t, e, c, d
<1>8. placed /\ e = "none" <=> s \in found
  <2>1. t.at \in Stations
    BY <1>2 DEF Visits
  <2> QED
    BY <1>2, <2>1 DEF Stations, Sound, Stage, Works
<1>9. s \in found => Works(t, e) /\ c # NoCallYet /\ t.names # <<>>
  <2>1. t.at \in Stations
    BY <1>2 DEF Visits
  <2>2. s \in found => Works(t, e) /\ t.names # <<>>
    BY <1>2, <2>1 DEF Stations, Sound, Stage, Works
  <2> QED
    BY <1>2, <2>2, StageIs
<1> HIDE DEF placed, s
<1>10. s \in found => d.stack # <<>>
  <2> SUFFICES ASSUME s \in found PROVE d.stack # <<>>
    OBVIOUS
  <2>1. NestedIn(t, d, txnDepth[dbOf[w]]) /\ t.names # <<>> /\ t.names \in Seq(Int)
    BY <1>2, <1>4, <1>9 DEF Visits
  <2>2. Len(d.stack) = Len(t.names) /\ Len(t.names) # 0
    BY <2>1 DEF NestedIn
  <2> QED
    BY <2>2
<1>11. s \in found => s \in Reading
  BY DEF Reading
<1> QED
  BY <1>3, <1>5, <1>6, <1>7, <1>8, <1>9, <1>10, <1>11 DEF TxnSettled, c

(* What one call does shows in that call only.                             *)
Watched == StoreKept /\ TxnInv /\ TxnInv' /\ Agreed /\ Agreed' /\ UNCHANGED FactApart

LEMMA OneIsSeen ==
  ASSUME Watched, NEW w \in Writers, NEW c, NEW e, NEW r, TxnMoves(w, r),
         call' = [call EXCEPT ![w] = c], effect' = [effect EXCEPT ![w] = e],
         \A u \in Writers \ {w} : Locks(u)' <=> Locks(u)
  PROVE  /\ FactAsked' = [FactAsked EXCEPT ![w] = AskOf(c)]
         /\ FactTold' = [FactTold EXCEPT ![w] = ToldOf(w)']
         /\ Txn'[w] = r /\ call'[w] = c /\ effect'[w] = e
         /\ (Settled(w)' <=> TxnSettled(w)') /\ (Settled(w) <=> TxnSettled(w))
         /\ ToldOf(w)' = IF TxnSettled(w)' THEN "done" ELSE e
<1>0. Txn \in [Writers -> Txns] /\ call \in [Writers -> Tools \union {NoCallYet}] /\ effect \in [Writers -> Effects]
  BY CallOf DEF Watched, StoreKept, Serving, CallsTyped
<1>1. /\ Txn'[w] = r /\ call'[w] = c /\ effect'[w] = e
      /\ \A u \in Writers \ {w} : Txn'[u] = Txn[u] /\ call'[u] = call[u] /\ effect'[u] = effect[u]
  BY <1>0 DEF TxnMoves
<1>2. \A u \in Writers : AskOf(call[u])' = IF u = w THEN AskOf(c) ELSE AskOf(call[u])
  BY <1>1 DEF AskOf
<1>3. FactAsked' = [FactAsked EXCEPT ![w] = AskOf(c)]
  <2> HIDE DEF AskOf
  <2> QED
    BY <1>2 DEF FactAsked
<1>4. ASSUME NEW u \in Writers \ {w} PROVE ToldOf(u)' = ToldOf(u)
  <2>1. TxnSettled(u)' <=> TxnSettled(u)
    BY <1>1 DEF TxnSettled
  <2>2. Settled(u)' <=> Settled(u)
    BY <2>1 DEF Watched, Agreed
  <2> QED
    BY <1>1, <2>2 DEF ToldOf
<1>5. FactTold' = [FactTold EXCEPT ![w] = ToldOf(w)']
  <2>1. \A u \in Writers : ToldOf(u)' = IF u = w THEN ToldOf(w)' ELSE ToldOf(u)
    BY <1>4
  <2> HIDE DEF ToldOf
  <2> QED
    BY <2>1 DEF FactTold
<1>6. (Settled(w)' <=> TxnSettled(w)') /\ (Settled(w) <=> TxnSettled(w))
  BY DEF Watched, Agreed
<1>7. ToldOf(w)' = IF TxnSettled(w)' THEN "done" ELSE e
  BY <1>1, <1>6 DEF ToldOf
<1> QED
  BY <1>1, <1>3, <1>5, <1>6, <1>7

(* A step that leaves the rows and the call alone, and of which nothing    *)
(* new is known, is not seen.                                              *)
LEMMA NotSeen ==
  ASSUME Watched, NEW w \in Writers, NEW r, TxnMoves(w, r), UNCHANGED <<items, call, effect, Clock>>,
         \A u \in Writers \ {w} : Locks(u)' <=> Locks(u), TxnSettled(w)' <=> TxnSettled(w)
  PROVE  UNCHANGED factsVars
<1>1. call' = [call EXCEPT ![w] = call[w]] /\ effect' = [effect EXCEPT ![w] = effect[w]]
  BY DEF Watched, StoreKept, Serving, CallsTyped
<1>2. /\ FactAsked' = [FactAsked EXCEPT ![w] = AskOf(call[w])] /\ FactTold' = [FactTold EXCEPT ![w] = ToldOf(w)']
      /\ ToldOf(w)' = (IF TxnSettled(w)' THEN "done" ELSE effect[w]) /\ (Settled(w) <=> TxnSettled(w))
  BY <1>1, OneIsSeen
<1>3. ToldOf(w)' = ToldOf(w)
  BY <1>2 DEF ToldOf
<1>4. FactAsked' = FactAsked
  BY <1>2 DEF FactAsked
<1>5. FactTold' = FactTold
  BY <1>2, <1>3 DEF FactTold
<1>6. Book' = Book /\ FactSteady' = FactSteady
  BY DEF Book, FactSteady, Clock
<1> QED
  BY <1>4, <1>5, <1>6 DEF factsVars, Watched

(* A call at work: what it asked, and that nothing is told yet.            *)
LEMMA WorkIs ==
  ASSUME Watched, NEW w \in Writers
  PROVE  /\ FactAsked[w] = AskOf(call[w]) /\ FactTold[w] = ToldOf(w) /\ call[w] \in Tools \union {NoCallYet}
         /\ Txn[w].at # "none" => call[w] # NoCallYet /\ call[w] \in Tools /\ effect[w] = "none"
                              /\ (FactTold[w] = "none" <=> ~TxnSettled(w)) /\ (TxnSettled(w) => FactTold[w] = "done")
         /\ Txn[w].at = "none" => ~TxnSettled(w) /\ FactTold[w] = effect[w]
         /\ call[w] \in Tools => FactAsked[w] # NoCallYet
<1>1. FactAsked[w] = AskOf(call[w]) /\ FactTold[w] = ToldOf(w) /\ call[w] \in Tools \union {NoCallYet}
  BY DEF Watched, StoreKept, Serving, CallsTyped, FactAsked, FactTold
<1>2. Txn[w].at # "none" => call[w] \in Tools /\ effect[w] = "none"
  BY CallOf DEF Watched
<1>3. Txn[w].at = "none" => ~TxnSettled(w)
  BY DEF TxnSettled
<1>4. NoCallYet \notin Tools
  BY DEF Tools, NoCallYet
<1>5. Settled(w) <=> TxnSettled(w)
  BY DEF Watched, Agreed
<1> HIDE DEF NoCallYet
<1> QED
  BY <1>1, <1>2, <1>3, <1>4, <1>5, AskIs DEF ToldOf

LEMMA BookRows ==
  ASSUME Watched, NEW k \in Keys
  PROVE  /\ items \in Seq(Rows) /\ Orderly(items)
         /\ Book[k] = History(items, k)
BY DEF Watched, StoreKept, Disk, DiskTyped, TxnInv, InOrder, Book

LEMMA ClockStill ==
  ASSUME Watched, UNCHANGED Clock
  PROVE  ClockStays
BY DEF Watched, Clock, ClockStays, FactSteady

LEMMA AskedSeen ==
  ASSUME Watched, NEW w \in Writers, NEW tool \in Tools, TxnAsked(w, tool)
  PROVE  FactSpec!Next
<1> DEFINE r == TxnAt("begin", 0, 0, <<>>, {}, 0)
<1>1. r.at = "begin"
  BY DEF TxnAt
<1> HIDE DEF r
<1>2. /\ call[w] = NoCallYet /\ call' = [call EXCEPT ![w] = tool] /\ TxnMoves(w, r) /\ LocksStay
      /\ UNCHANGED <<items, effect, Clock>>
  BY DEF TxnAsked, r
<1>3. effect' = [effect EXCEPT ![w] = effect[w]]
  BY <1>2 DEF Watched, StoreKept, Serving, CallsTyped
<1>4. /\ FactAsked' = [FactAsked EXCEPT ![w] = AskOf(tool)] /\ FactTold' = [FactTold EXCEPT ![w] = ToldOf(w)']
      /\ Txn'[w] = r /\ ToldOf(w)' = IF TxnSettled(w)' THEN "done" ELSE effect[w]
  BY <1>2, <1>3, OneIsSeen DEF LocksStay
<1>5. Txn[w].at = "none" /\ FactAsked[w] = NoCallYet
  <2>1. Txn[w] = Out
    BY <1>2, CallOf DEF Watched
  <2> QED
    BY <1>2, <2>1, WorkIs, AskIs DEF Out, TxnAt
<1>6. ~TxnSettled(w)'
  BY <1>1, <1>4 DEF TxnSettled
<1>7. FactTold' = FactTold
  <2>1. FactTold[w] = effect[w] /\ ToldOf(w)' = effect[w]
    BY <1>4, <1>5, <1>6, WorkIs
  <2> QED
    BY <1>4, <2>1 DEF FactTold
<1>8. Book' = Book /\ ClockStays
  BY <1>2, ClockStill DEF Book
<1>9. AskOf(tool) \in FactSpec!Asks
  <2>1. tool # NoCallYet
    BY DEF Tools, NoCallYet
  <2> QED
    BY <2>1, AskIs
<1> QED
  BY <1>4, <1>5, <1>7, <1>8, <1>9, AsksIs, FactsNextIs

LEMMA BegunSeen ==
  ASSUME Watched, NEW w \in Writers, TxnBegun(w)
  PROVE  FactSpec!Next \/ UNCHANGED factsVars
<1> DEFINE r == TxnAt(IF call[w].op = "put" THEN "blob" ELSE "look", Txn[w].held, Txn[w].moment, items, blobs, commits)
<1>1. r.items = items
  BY DEF TxnAt
<1> HIDE DEF r
<1>2. /\ Txn[w].at = "begin" /\ call[w].op # "forget" /\ TxnMoves(w, r) /\ LocksStay
      /\ UNCHANGED <<items, blobs, commits, call, effect, Clock>>
  BY DEF TxnBegun, r
<1>3. effect' = [effect EXCEPT ![w] = effect[w]] /\ call' = [call EXCEPT ![w] = call[w]]
  BY <1>2 DEF Watched, StoreKept, Serving, CallsTyped
<1>4. /\ FactAsked' = [FactAsked EXCEPT ![w] = AskOf(call[w])] /\ FactTold' = [FactTold EXCEPT ![w] = ToldOf(w)']
      /\ Txn'[w] = r /\ ToldOf(w)' = IF TxnSettled(w)' THEN "done" ELSE effect[w]
  <2> DEFINE c == call[w]
             e == effect[w]
  <2>1. /\ Watched /\ TxnMoves(w, r) /\ call' = [call EXCEPT ![w] = c] /\ effect' = [effect EXCEPT ![w] = e]
        /\ \A u \in Writers \ {w} : Locks(u)' <=> Locks(u)
    BY <1>2, <1>3 DEF LocksStay
  <2> HIDE DEF c, e
  <2>2. /\ FactAsked' = [FactAsked EXCEPT ![w] = AskOf(c)] /\ FactTold' = [FactTold EXCEPT ![w] = ToldOf(w)']
        /\ Txn'[w] = r /\ ToldOf(w)' = IF TxnSettled(w)' THEN "done" ELSE e
    BY <2>1, OneIsSeen
  <2> QED
    BY <2>2 DEF c, e
<1>5. ~TxnSettled(w)
  BY <1>2 DEF TxnSettled
<1>6. CASE ~TxnSettled(w)'
  BY <1>2, <1>5, <1>6, NotSeen DEF LocksStay
<1>7. CASE TxnSettled(w)'
  <2>1. Holds(items, call[w].key, call[w].value)
    BY <1>1, <1>2, <1>4, <1>7 DEF TxnSettled
  <2>2. /\ call[w] \in Tools /\ FactAsked[w] = AskOf(call[w]) /\ FactTold[w] = "none" /\ FactAsked[w] # NoCallYet
        /\ call[w] # NoCallYet
    BY <1>2, <1>5, WorkIs
  <2>3. call[w].op \in {"put", "remember"}
    BY <1>2, <2>2 DEF Tools
  <2>4. /\ FactAsked[w].op = "remember" /\ FactAsked[w].key = call[w].key
        /\ FactAsked[w].value = call[w].value /\ call[w].key \in Keys
    BY <2>2, <2>3, AskIs
  <2>5. FactAsked' = FactAsked /\ Book' = Book
    BY <1>2, <1>4, <2>2 DEF FactAsked, Book
  <2>6. FactTold' = [FactTold EXCEPT ![w] = "done"]
    BY <1>4, <1>7
  <2> DEFINE q == History(items, call[w].key)
  <2>7. LastHolds(q) /\ q[Len(q)].value = call[w].value
    BY <2>1, <2>4, BookRows, HistoryHolds
  <2>8. IsDone(w)
    BY <1>2, <2>2, <2>5, <2>6, ClockStill DEF IsDone
  <2> QED
    BY <2>4, <2>5, <2>7, <2>8, SeenIs, FactsNextIs
<1> QED
  BY <1>6, <1>7

LEMMA FoundSeen ==
  ASSUME Watched, NEW w \in Writers, TxnFound(w)
  PROVE  UNCHANGED factsVars
<1> DEFINE r == TxnAt("look", Txn[w].held, Txn[w].moment, Txn[w].items, Txn[w].blobs, Txn[w].snapshot)
<1>1. /\ Txn[w].at = "blob" /\ TxnMoves(w, r) /\ LocksStay /\ UNCHANGED <<items, call, effect, Clock>>
      /\ Txn \in [Writers -> Txns]
  BY CallOf DEF TxnFound, TxnGoes, Watched
<1>2. r.at = "look" /\ r.items = Txn[w].items
  BY DEF TxnAt
<1> HIDE DEF r
<1>3. Txn'[w] = r
  BY <1>1 DEF TxnMoves
<1>4. TxnSettled(w)' <=> TxnSettled(w)
  BY <1>1, <1>2, <1>3 DEF TxnSettled, LocksStay
<1> QED
  BY <1>1, <1>4, NotSeen DEF LocksStay

(* New content is held by no key.                                          *)
LEMMA NotYetHeld ==
  ASSUME Watched, NEW w \in Writers, Txn[w].at = "blob", ~IsStored(Txn[w].blobs, call[w].value)
  PROVE  ~TxnSettled(w)
<1> DEFINE t == Txn[w]
           k == call[w].key
           h == OpenRow(t.items, k)
<1>1. t \in Txns /\ call[w] \in Tools /\ call[w].op = "put" /\ InTxn(w) /\ t.at = "blob"
      /\ ~IsStored(t.blobs, call[w].value)
  BY CallOf DEF Watched, TxnInv
<1>2. Whole(t.items, t.blobs) /\ Orderly(t.items)
  BY <1>1 DEF InTxn, SeesWhole, Stands, Reading
<1>3. t.items \in Seq(Rows) /\ k \in Artifacts
  BY <1>1, StoreBounds DEF Txns, Tools, StoreBounds
<1> HIDE DEF t
<1>4. h # 0 => h \in DOMAIN t.items /\ t.items[h].key = k
  BY <1>2, <1>3, OpenRowIs
<1>5. h # 0 => IsStored(t.blobs, t.items[h].value)
  BY <1>2, <1>3, <1>4 DEF Whole
<1> QED
  BY <1>1, <1>5 DEF TxnSettled, Holds, t

LEMMA FilledSeen ==
  ASSUME Watched, NEW w \in Writers, TxnFilled(w)
  PROVE  UNCHANGED factsVars
<1>1. PICK objects : TxnGoes(w, "look", Txn[w].items, objects)
  BY DEF TxnFilled
<1> DEFINE r == TxnAt("look", Txn[w].held, Txn[w].moment, Txn[w].items, objects, Txn[w].snapshot)
<1>2. /\ Txn[w].at = "blob" /\ TxnMoves(w, r) /\ LocksOf(w, TRUE) /\ UNCHANGED <<items, call, effect, Clock>>
      /\ Txn \in [Writers -> Txns] /\ ~IsStored(Txn[w].blobs, call[w].value)
  BY <1>1, CallOf DEF TxnFilled, TxnGoes, Watched
<1> HIDE DEF r
<1>3. ~TxnSettled(w)' /\ ~TxnSettled(w)
  <2>1. ~TxnSettled(w)'
    BY <1>2 DEF TxnSettled, LocksOf
  <2>2. ~TxnSettled(w)
    BY <1>2, NotYetHeld DEF TxnSettled
  <2> QED
    BY <2>1, <2>2
<1> QED
  BY <1>2, <1>3, NotSeen DEF LocksOf

LEMMA LookedSeen ==
  ASSUME Watched, NEW w \in Writers, TxnLooked(w)
  PROVE  UNCHANGED factsVars
<1> DEFINE t == Txn[w]
           k == call[w].key
           v == call[w].value
           rows == OpenRows(t.items, k)
           h == OpenRow(t.items, k)
           At(held) == IF held = 0 THEN "add" ELSE IF t.items[held].value = v THEN "release" ELSE "close"
           at == At(h)
           r == TxnAt(at, h, now, t.items, t.blobs, t.snapshot)
<1>1. /\ t.at = "look" /\ t \in Txns /\ LocksStay /\ Txn \in [Writers -> Txns] /\ UNCHANGED <<items, call, effect, Clock>>
  BY CallOf DEF TxnLooked, Watched
<1>2. PICK held \in IF rows = {} THEN {0} ELSE rows :
        TxnMoves(w, TxnAt(At(held), held, now, t.items, t.blobs, t.snapshot))
  BY DEF TxnLooked
<1>3. Orderly(t.items) /\ t.items \in Seq(Rows)
  BY <1>1 DEF Watched, TxnInv, InTxn, Stands, Txns
<1> HIDE DEF t
<1>4. held = h
  <2>1. h \in Nat /\ (h \in DOMAIN t.items <=> h # 0) /\ rows = IF h = 0 THEN {} ELSE {h}
    <3> DEFINE table == t.items
    <3>1. table \in Seq(Rows) /\ Orderly(table) /\ rows = OpenRows(table, k) /\ h = OpenRow(table, k)
          /\ DOMAIN t.items = DOMAIN table
      BY <1>3
    <3> HIDE DEF table, rows, h, k
    <3> QED
      BY <3>1, OpenRowIs
  <2> HIDE DEF rows, h
  <2> QED
    BY <1>2, <2>1
<1>5. TxnMoves(w, r)
  BY <1>2, <1>4
<1>6. r.at = at /\ r.items = t.items
  BY DEF TxnAt
<1>7. at \in {"add", "release", "close"} /\ (at = "release" <=> Holds(t.items, k, v))
  BY DEF Holds
<1> HIDE DEF r, at
<1>8. Txn'[w] = r
  BY <1>1, <1>5 DEF TxnMoves
<1>9. TxnSettled(w)' <=> TxnSettled(w)
  BY <1>1, <1>6, <1>7, <1>8 DEF TxnSettled, LocksStay, t
<1> QED
  BY <1>1, <1>5, <1>9, NotSeen DEF LocksStay

(* The writes of a transaction, and what goes before them, are not seen.   *)
LEMMA WritesSeen ==
  ASSUME Watched, NEW w \in Writers, TxnClosed(w) \/ TxnAdded(w)
  PROVE  UNCHANGED factsVars
<1>1. PICK x : TxnMoves(w, x)
  BY DEF TxnClosed, TxnAdded, TxnGoes
<1>2. UNCHANGED <<items, call, effect, Clock>> /\ LocksOf(w, TRUE)
  BY DEF TxnClosed, TxnAdded
<1>3. ~TxnSettled(w) /\ ~TxnSettled(w)'
  BY <1>2 DEF TxnSettled, TxnClosed, TxnAdded, LocksOf
<1> QED
  BY <1>1, <1>2, <1>3, NotSeen DEF LocksOf

LEMMA PreparedSeen ==
  ASSUME Watched, NEW w \in Writers, TxnPrepared(w)
  PROVE  UNCHANGED factsVars
<1> DEFINE r == TxnAt("forget", Txn[w].held, now, <<>>, {}, 0)
<1>1. /\ TxnMoves(w, r) /\ LocksStay /\ UNCHANGED <<items, call, effect, Clock>> /\ Txn \in [Writers -> Txns]
      /\ Txn[w].at = "begin"
  BY CallOf DEF TxnPrepared, Watched
<1>2. r.at = "forget"
  BY DEF TxnAt
<1> HIDE DEF r
<1>3. Txn'[w] = r
  BY <1>1 DEF TxnMoves
<1>4. ~TxnSettled(w) /\ ~TxnSettled(w)'
  BY <1>1, <1>2, <1>3 DEF TxnSettled
<1> QED
  BY <1>1, <1>4, NotSeen DEF LocksStay

(* What a call leaves behind that ends now.                                *)
LEMMA EndsSeen ==
  ASSUME Watched, NEW w \in Writers, NEW e \in {"done", "refused"}, TxnMoves(w, Out), UNCHANGED <<call, Clock>>,
         \A u \in Writers \ {w} : Locks(u)' <=> Locks(u),
         effect' = [effect EXCEPT ![w] = e], Txn[w].at # "none"
  PROVE  /\ UNCHANGED FactAsked /\ FactTold' = [FactTold EXCEPT ![w] = e] /\ call[w] \in Tools
         /\ FactAsked[w] = AskOf(call[w]) /\ FactAsked[w] # NoCallYet
         /\ FactAsked[w].key = call[w].key /\ call[w].key \in Keys
         /\ FactTold[w] = (IF TxnSettled(w) THEN "done" ELSE "none") /\ ClockStays
<1>1. call' = [call EXCEPT ![w] = call[w]]
  BY DEF Watched, StoreKept, Serving, CallsTyped
<1>2. /\ FactAsked' = [FactAsked EXCEPT ![w] = AskOf(call[w])] /\ FactTold' = [FactTold EXCEPT ![w] = ToldOf(w)']
      /\ Txn'[w] = Out /\ ToldOf(w)' = IF TxnSettled(w)' THEN "done" ELSE e
  BY <1>1, OneIsSeen
<1>3. ToldOf(w)' = e
  BY <1>2 DEF TxnSettled, Out, TxnAt
<1>4. /\ call[w] \in Tools /\ call[w] # NoCallYet /\ FactAsked[w] = AskOf(call[w])
      /\ FactAsked[w] # NoCallYet /\ (FactTold[w] = "none" <=> ~TxnSettled(w)) /\ (TxnSettled(w) => FactTold[w] = "done")
  BY WorkIs
<1>5. FactAsked' = FactAsked
  BY <1>2, <1>4 DEF FactAsked
<1> QED
  BY <1>2, <1>3, <1>4, <1>5, AskIs, ClockStill

(* A call that fails leaves the facts as they were, and says so.           *)
LEMMA RefusedSeen ==
  ASSUME Watched, NEW w \in Writers, TxnRefused(w)
  PROVE  FactSpec!Next
<1>1. /\ TxnMoves(w, Out) /\ LocksOf(w, FALSE) /\ effect' = [effect EXCEPT ![w] = "refused"]
      /\ UNCHANGED <<items, call, Clock>> /\ Txn[w].at # "none"
  BY DEF TxnRefused
<1>2. ~TxnSettled(w)
  <2>1. CASE Txn[w].at \in {"close", "add", "forget"}
    BY <2>1 DEF TxnSettled
  <2>2. CASE Txn[w].at = "blob" /\ ~IsStored(Txn[w].blobs, call[w].value)
    BY <2>2, NotYetHeld
  <2> QED
    BY <2>1, <2>2 DEF TxnRefused
<1>3. \A u \in Writers \ {w} : Locks(u)' <=> Locks(u)
  BY <1>1 DEF LocksOf
<1> DEFINE e == "refused"
<1>4. /\ e \in {"done", "refused"} /\ effect' = [effect EXCEPT ![w] = e]
  BY <1>1
<1> HIDE DEF e
<1>5. /\ UNCHANGED FactAsked /\ FactTold' = [FactTold EXCEPT ![w] = e] /\ FactAsked[w] # NoCallYet
      /\ FactTold[w] = (IF TxnSettled(w) THEN "done" ELSE "none") /\ ClockStays
  BY <1>1, <1>3, <1>4, EndsSeen
<1>6. Book' = Book
  BY <1>1 DEF Book
<1>7. FactSpec!Refused(w)
  BY <1>2, <1>5, <1>6, RefusedIs DEF e
<1> QED
  BY <1>7, FactsNextIs

(* A key's row is closed and its successor added: the history of the key   *)
(* is shut at the moment and goes on from there, and no other's changes.   *)
LEMMA BookGrows ==
  ASSUME items \in Seq(Rows), Orderly(items), NEW tool \in Tools, tool.op \in {"put", "remember"}, StoreBounds,
         NEW m \in 0 .. MaxTime, items' = Added(RowClosed(items, OpenRow(items, tool.key), m), tool, m)
  PROVE  LET k == tool.key
         IN  Book' = [Book EXCEPT ![k] =
               Append(Shut(History(items, k), m), [value |-> tool.value, from |-> m, to |-> Open])]
<1> DEFINE k == tool.key
           v == tool.value
           h == OpenRow(items, k)
           c == RowClosed(items, h, m)
           q == History(items, k)
           row == NewRow(tool, m)
<1>1. h \in {0} \union DOMAIN items /\ (h # 0 => items[h].key = k)
  BY OpenRowIs
<1>2. c \in Seq(Rows)
  BY OrderKept
<1>3. History(c, k) = Shut(q, m)
  BY HistoryShut
<1>4. k \in Keys /\ v \in AnyValue
  BY DEF Tools, Keys, AnyValue
<1>5. row \in Rows /\ items' = Append(c, row) /\ row.key = k
      /\ Entry(row) = [value |-> v, from |-> m, to |-> Open]
  BY <1>4, StoreBounds DEF Rows, Added, NewRow, Entry
<1> HIDE DEF h
<1>6. \A j \in Keys : j # k => History(c, j) = History(items, j)
  BY <1>1, HistoryElsewhere
<1> HIDE DEF c, row, k, v
<1>7. \A j \in Keys : History(items', j) = Grown(History(c, j), row, j)
  BY <1>2, <1>5, HistoryAdded
<1> HIDE DEF q
<1>8. History(items', k) = Append(Shut(q, m), [value |-> v, from |-> m, to |-> Open])
  BY <1>3, <1>4, <1>5, <1>7 DEF Grown
<1>9. \A j \in Keys : j # k => History(items', j) = History(items, j)
  BY <1>5, <1>6, <1>7 DEF Grown
<1>10. Book' = [Book EXCEPT ![k] = Append(Shut(q, m), [value |-> v, from |-> m, to |-> Open])]
  BY <1>4, <1>8, <1>9 DEF Book
<1> QED
  BY <1>10 DEF k, v, q

LEMMA CommittedSeen ==
  ASSUME Watched, NEW w \in Writers, TxnCommitted(w)
  PROVE  FactSpec!Next \/ UNCHANGED factsVars
<1> DEFINE t == Txn[w]
           k == call[w].key
           v == call[w].value
           m == t.moment
           q == History(items, k)
           e == "done"
<1>1. /\ t.at = "release" /\ TxnMoves(w, Out) /\ LocksOf(w, FALSE) /\ UNCHANGED <<call, Clock>> /\ InTxn(w)
      /\ t \in Txns /\ call[w].op \in {"put", "remember"} /\ e \in {"done", "refused"}
      /\ effect' = [effect EXCEPT ![w] = e]
  BY CallOf DEF TxnCommitted, Watched, TxnInv
<1>2. \A u \in Writers \ {w} : Locks(u)' <=> Locks(u)
  BY <1>1 DEF LocksOf
<1> HIDE DEF e
<1>3. /\ UNCHANGED FactAsked /\ FactTold' = [FactTold EXCEPT ![w] = e] /\ call[w] \in Tools
      /\ FactAsked[w] = AskOf(call[w]) /\ FactAsked[w] # NoCallYet /\ FactAsked[w].key = k /\ k \in Keys
      /\ FactTold[w] = (IF TxnSettled(w) THEN "done" ELSE "none") /\ ClockStays
  BY <1>1, <1>2, EndsSeen
<1>4. FactAsked[w].op = "remember" /\ FactAsked[w].value = v
  BY <1>1, <1>3, AskIs
<1>5. CASE ~Locks(w)
  <2>1. TxnSettled(w)
    BY <1>1, <1>5 DEF InTxn, Locked, TxnSettled
  <2>2. FactTold' = FactTold
    BY <1>3, <2>1 DEF FactTold, e
  <2>3. Book' = Book
    BY <1>5 DEF TxnCommitted, Book
  <2> QED
    BY <1>3, <2>2, <2>3 DEF factsVars, ClockStays
<1>6. CASE Locks(w)
  <2>1. /\ items' = Added(RowClosed(items, t.held, m), call[w], m) /\ t.held = OpenRow(items, k)
        /\ (~setBack => Timely(items, m)) /\ ~Holds(items, k, v) /\ m \in 0 .. MaxTime
    BY <1>1, <1>6 DEF TxnCommitted, InTxn, Locked, Fresh, Reading, Txns
  <2>2. items \in Seq(Rows) /\ Orderly(items)
    BY <1>3, BookRows
  <2> DEFINE tool == call[w]
  <2>3. tool \in Tools /\ tool.op \in {"put", "remember"} /\ k = tool.key /\ v = tool.value
        /\ items' = Added(RowClosed(items, OpenRow(items, tool.key), m), tool, m)
    BY <1>1, <1>3, <2>1
  <2> HIDE DEF tool, k, v, m
  <2>4. Book' = [Book EXCEPT ![k] = Append(Shut(q, m), [value |-> v, from |-> m, to |-> Open])]
    BY <2>1, <2>2, <2>3, BookGrows, StoreBounds
  <2>5. ~(LastHolds(q) /\ q[Len(q)].value = v)
    BY <2>1, <2>2, HistoryHolds
  <2>6. FactSteady => Timely(q, m)
    BY <2>1, <2>2, HistoryTimely DEF FactSteady
  <2>7. IsDone(w)
    <3>1. ~TxnSettled(w)
      BY <1>6 DEF TxnSettled
    <3> QED
      BY <1>3, <3>1 DEF IsDone, e
  <2>8. q = History(items, k)
    OBVIOUS
  <2> HIDE DEF q
  <2>9. FactSpec!Remembers(w)
    BY <1>3, <1>4, <2>1, <2>4, <2>5, <2>6, <2>7, <2>8, StoredIs
  <2> QED
    BY <2>9, FactsNextIs
<1> QED
  BY <1>5, <1>6

LEMMA ForgottenSeen ==
  ASSUME Watched, NEW w \in Writers, TxnForgotten(w)
  PROVE  FactSpec!Next
<1> DEFINE m == Txn[w].moment
           k == call[w].key
           rows == OpenRows(items, k)
           h == OpenRow(items, k)
           c == RowClosed(items, h, m)
           e == "done"
<1>1. /\ Txn[w].at = "forget" /\ TxnMoves(w, Out) /\ LocksStay /\ UNCHANGED <<call, Clock>> /\ Txn[w] \in Txns
      /\ call[w].op = "forget" /\ e \in {"done", "refused"} /\ effect' = [effect EXCEPT ![w] = e]
  BY CallOf DEF TxnForgotten, Watched
<1>2. \A u \in Writers \ {w} : Locks(u)' <=> Locks(u)
  BY <1>1 DEF LocksStay
<1> HIDE DEF e
<1>3. /\ UNCHANGED FactAsked /\ FactTold' = [FactTold EXCEPT ![w] = e] /\ call[w] \in Tools
      /\ FactAsked[w] = AskOf(call[w]) /\ FactAsked[w] # NoCallYet /\ FactAsked[w].key = k /\ k \in Keys
      /\ FactTold[w] = (IF TxnSettled(w) THEN "done" ELSE "none") /\ ClockStays
  BY <1>1, <1>2, EndsSeen
<1>4. FactAsked[w].op = "forget"
  BY <1>1, <1>3, AskIs
<1>5. m \in 0 .. MaxTime /\ items \in Seq(Rows) /\ Orderly(items)
  BY <1>1, <1>3, BookRows DEF Txns
<1>6. h \in Nat /\ (h \in DOMAIN items <=> h # 0) /\ rows = (IF h = 0 THEN {} ELSE {h}) /\ (h # 0 => items[h].key = k)
  BY <1>5, OpenRowIs
<1>7. items' = c
  <2>1. IF rows = {} THEN items' = items
        ELSE items' = [i \in DOMAIN items |-> IF i \in rows THEN [items[i] EXCEPT !.to = m] ELSE items[i]]
    BY DEF TxnForgotten
  <2> HIDE DEF h, rows, m
  <2> QED
    BY <1>5, <1>6, <2>1 DEF RowClosed
<1>8. History(items', k) = Shut(History(items, k), m)
  BY <1>5, <1>7, HistoryShut
<1>9. \A j \in Keys : j # k => History(items', j) = History(items, j)
  <2> HIDE DEF h, rows, m, k
  <2> QED
    BY <1>5, <1>6, <1>7, HistoryElsewhere
<1>10. Book' = [Book EXCEPT ![k] = Shut(History(items, k), m)]
  BY <1>3, <1>8, <1>9 DEF Book
<1>11. IsDone(w)
  BY <1>1, <1>3 DEF IsDone, TxnSettled, e
<1> HIDE DEF k, m
<1>12. FactSpec!Forgets(w)
  BY <1>3, <1>4, <1>5, <1>10, <1>11, ForgottenIs
<1> QED
  BY <1>12, FactsNextIs

LEMMA OverSeen ==
  ASSUME Watched, NEW w \in Writers, TxnOver(w)
  PROVE  FactSpec!Next
<1> DEFINE c == NoCallYet
           e == "none"
<1>1. /\ TxnMoves(w, Out) /\ call' = [call EXCEPT ![w] = c] /\ effect' = [effect EXCEPT ![w] = e]
      /\ UNCHANGED <<items, Clock>> /\ call[w] # NoCallYet /\ \A u \in Writers \ {w} : Locks(u)' <=> Locks(u)
  BY DEF TxnOver, LocksOf
<1>2. AskOf(NoCallYet) = NoCallYet
  BY AskIs
<1> HIDE DEF c, e
<1>3. /\ FactAsked' = [FactAsked EXCEPT ![w] = AskOf(c)] /\ FactTold' = [FactTold EXCEPT ![w] = ToldOf(w)']
      /\ Txn'[w] = Out /\ ToldOf(w)' = IF TxnSettled(w)' THEN "done" ELSE e
  BY <1>1, OneIsSeen
<1>4. ToldOf(w)' = "none"
  BY <1>3 DEF TxnSettled, Out, TxnAt, e
<1>5. FactAsked[w] # NoCallYet
  <2>1. call[w] \in Tools
    BY <1>1, WorkIs
  <2> QED
    BY <2>1, WorkIs
<1>6. Book' = Book /\ ClockStays
  BY <1>1, ClockStill DEF Book
<1>7. FactSpec!Gone(w)
  BY <1>2, <1>3, <1>4, <1>5, <1>6, GoneIs DEF c
<1> QED
  BY <1>7, FactsNextIs

LEMMA WaitedSeen ==
  ASSUME Watched, TxnWaited
  PROVE  FactSpec!Next \/ UNCHANGED factsVars
<1>1. UNCHANGED <<Txn, items, call, effect>> /\ LocksStay /\ (setBack' <=> setBack \/ now' < now)
  BY DEF TxnWaited
<1>2. FactAsked' = FactAsked /\ Book' = Book
  BY <1>1 DEF FactAsked, Book
<1>3. \A u \in Writers : ToldOf(u)' = ToldOf(u)
  <2> TAKE u \in Writers
  <2>1. TxnSettled(u)' <=> TxnSettled(u)
    BY <1>1 DEF TxnSettled, LocksStay
  <2>2. Settled(u)' <=> Settled(u)
    BY <2>1 DEF Watched, Agreed
  <2> QED
    BY <1>1, <2>2 DEF ToldOf
<1>4. FactTold' = FactTold
  <2> HIDE DEF ToldOf
  <2> QED
    BY <1>3 DEF FactTold
<1>5. FactSteady' => FactSteady
  BY <1>1 DEF FactSteady
<1>6. CASE FactSteady /\ ~FactSteady'
  BY <1>2, <1>4, <1>6, ClockSetIs DEF Watched
<1>7. CASE FactSteady' = FactSteady
  BY <1>2, <1>4, <1>7 DEF factsVars, Watched
<1>8. FactSteady \in BOOLEAN /\ FactSteady' \in BOOLEAN
  BY DEF FactSteady
<1> QED
  BY <1>5, <1>6, <1>7, <1>8

LEMMA TxnSeen ==
  ASSUME Watched, TxnStep
  PROVE  FactSpec!Next \/ UNCHANGED factsVars
<1>1. ASSUME NEW w \in Writers, NEW tool \in Tools, TxnAsked(w, tool) PROVE FactSpec!Next
  BY <1>1, AskedSeen
<1>2. ASSUME NEW w \in Writers, TxnBegun(w) \/ TxnFound(w) \/ TxnFilled(w) \/ TxnLooked(w) \/ TxnClosed(w) \/ TxnAdded(w)
      PROVE  FactSpec!Next \/ UNCHANGED factsVars
  BY <1>2, BegunSeen, FoundSeen, FilledSeen, LookedSeen, WritesSeen
<1>3. ASSUME NEW w \in Writers,
             TxnCommitted(w) \/ TxnRefused(w) \/ TxnPrepared(w) \/ TxnForgotten(w) \/ TxnOver(w)
      PROVE  FactSpec!Next \/ UNCHANGED factsVars
  BY <1>3, CommittedSeen, RefusedSeen, PreparedSeen, ForgottenSeen, OverSeen
<1> QED
  BY <1>1, <1>2, <1>3, WaitedSeen DEF TxnStep

(* Calls that overlap lose nothing that is stored.                         *)
LEMMA OverlapLoses ==
  ASSUME items \in Seq(Rows), items' \in Seq(Rows), Continues(items, items')
  PROVE  FactSpec!NothingLost
<1> SUFFICES ASSUME NEW k \in Keys
             PROVE  LET q == History(items, k)
                        r == History(items', k)
                    IN  /\ DOMAIN q \subseteq DOMAIN r
                        /\ \A i \in DOMAIN q : /\ r[i].value = q[i].value /\ r[i].from = q[i].from
                                               /\ q[i].to # Open => r[i].to # Open
  BY DEF FactSpec!NothingLost
<1> DEFINE q == History(items, k)
           r == History(items', k)
<1>1. q \in Seq(Entries) /\ r \in Seq(Entries)
  BY HistoryTyped
<1>2. KeepsOn(q, r)
  BY HistoryContinues
<1> HIDE DEF q, r
<1>3. /\ DOMAIN q = 1 .. Len(q) /\ DOMAIN r = 1 .. Len(r) /\ Len(q) \in Nat /\ Len(r) \in Nat
  BY <1>1
<1>4. DOMAIN q \subseteq DOMAIN r
  BY <1>2, <1>3 DEF KeepsOn
<1> QED
  BY <1>2, <1>3, <1>4 DEF KeepsOn, q, r

LEMMA FactsStep ==
  ASSUME StoreInv, Marked, Marked', [FactNext]_factVars
  PROVE  [IF FactApart' THEN FactSpec!Next ELSE FactSpec!NothingLost]_factsVars
<1>1. StoreInv' /\ Ahead /\ (~overlapped' => TxnStep /\ ~overlapped)
  BY StoreInvNext, ApartBefore
<1>2. CASE overlapped'
  <2>1. FactSpec!NothingLost
    BY <1>1, OverlapLoses DEF StoreInv, Disk, DiskTyped, Ahead
  <2> QED
    BY <1>2, <2>1 DEF FactApart
<1>3. CASE ~overlapped'
  <2>1. Agreed /\ Agreed'
    BY <1>1, <1>3 DEF Marked
  <2>2. Watched
    BY <1>1, <1>3, <2>1 DEF Watched, StoreInv, StoreKept, FactApart
  <2>3. FactSpec!Next \/ UNCHANGED factsVars
    BY <1>1, <1>3, <2>2, TxnSeen
  <2> QED
    BY <1>3, <2>3 DEF FactApart
<1> QED
  BY <1>2, <1>3

LEMMA FactsInit == FactInit => FactSpec!Init
<1> SUFFICES ASSUME FactInit PROVE FactSpec!Init
  OBVIOUS
<1>1. Book = [k \in Keys |-> <<>>]
  BY HistoryEmpty DEF Book, FactInit
<1>2. FactAsked = [w \in Writers |-> NoCallYet]
  BY DEF FactAsked, AskOf, FactInit, NoCallYet
<1>3. FactTold = [w \in Writers |-> "none"]
  BY DEF FactTold, ToldOf, Settled, FactInit, NoTxn
<1>4. FactSteady = TRUE /\ FactApart = TRUE
  BY DEF FactSteady, FactApart, FactInit
<1> QED
  BY <1>1, <1>2, <1>3, <1>4
  DEF FactSpec!Init, FactSpec!Idle, NoCallYet, Book, FactAsked, AskOf, FactTold, ToldOf, FactSteady, FactApart

(* Store::remember, Store::forget and the tools on top of them: whatever   *)
(* processes write at once, whoever dies and however the clock is set, a   *)
(* fact is superseded, stored or forgotten at one moment, as Facts says,   *)
(* as long as no two calls of one connection overlap; whatever overlaps,   *)
(* nothing that is stored is lost, and nothing that ended comes back.      *)
THEOREM FactsAreKept == StoreSpec => ImplementsFacts
<1>1. StoreInv /\ Marked /\ Marked' /\ [FactNext]_factVars
      => [IF FactApart' THEN FactSpec!Next ELSE FactSpec!NothingLost]_factsVars
  BY FactsStep
<1>2. StoreInv /\ Marked /\ Marked' /\ [FactNext]_factVars
      => [IF (~overlapped)' THEN FactSpec!Next ELSE FactSpec!NothingLost]_(FactSpec!vars)
  BY <1>1 DEF FactSpec!vars, factsVars, Book, FactAsked, AskOf, FactTold, ToldOf, FactSteady, FactApart
<1> QED
  BY <1>2, FactsInit, StoreInvHolds, MarkedHolds, PTL DEF StoreSpec, ImplementsFacts, FactSpec!Spec
=============================================================================
