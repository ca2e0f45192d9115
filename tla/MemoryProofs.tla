---------------------------- MODULE MemoryProofs ----------------------------
(***************************************************************************)
(* What is proved of the parts Memory puts side by side, one part after    *)
(* the other; the task directory and the durable context have modules of   *)
(* their own, WorkerProofs and FactStoreProofs.                            *)
(***************************************************************************)
EXTENDS Memory, WorkerProofs, FactStoreProofs, FiniteSetTheorems

-----------------------------------------------------------------------------
(***************************************************************************)
(* AtMostOnce of Daemon, for any daemons, launchers and backlog.  A task   *)
(* that was handed over is one connection of one daemon, and a launcher    *)
(* that goes on in any other way has no connection left anywhere: that is  *)
(* the invariant, and all the code has to keep it is the launcher's own    *)
(* record of where it is.                                                  *)
(***************************************************************************)
Places == {"idle", "pinging", "refused", "alone", "found", "submitted", "returned"}
Stages == {"off", "cleared", "bound", "serving", "stopping", "closed", "gone"}
Conns == [who : Callers \union {NoOne}, kind : {"ping", "run", "none"}]

Typed ==
  /\ path \in Daemons \union {NoOne}
  /\ daemons \in [Daemons -> [at : Stages, listens : BOOLEAN, queue : Seq(Conns), serves : Conns]]
  /\ callers \in [Callers -> [at : Places, to : Daemons \union {NoOne}]]
  /\ ran \in [Launchers -> Nat]

(* A connection is a ping, or the task of a launcher.                      *)
Sane(conn) == conn.kind = "ping" \/ (conn.kind = "run" /\ conn.who \in Launchers)
(* Its caller is where it waits for that connection, if it still does.     *)
Fits(conn, d) ==
  conn.who \in Callers =>
    /\ callers[conn.who].to = d
    /\ conn.kind = "ping" => callers[conn.who].at = "pinging"
    /\ conn.kind = "run" => callers[conn.who].at = "submitted"

Enqueued ==
  \A d \in Daemons : \A i \in 1 .. Len(daemons[d].queue) :
    /\ Sane(daemons[d].queue[i]) /\ Fits(daemons[d].queue[i], d)
    /\ daemons[d].queue[i].kind = "run" => ran[daemons[d].queue[i].who] = 0
Served ==
  \A d \in Daemons :
    daemons[d].serves # NoConn => Sane(daemons[d].serves) /\ Fits(daemons[d].serves, d)

(* No caller has two connections.                                          *)
OneEach ==
  \A d \in Daemons : \A i \in 1 .. Len(daemons[d].queue) :
    daemons[d].queue[i].who \in Callers =>
      /\ daemons[d].queue[i].who # daemons[d].serves.who
      /\ \A j \in 1 .. Len(daemons[d].queue) :
           daemons[d].queue[j].who = daemons[d].queue[i].who => i = j

RanBy ==
  \A l \in Launchers :
    /\ ran[l] <= 1
    /\ ran[l] = 1 => callers[l].at \in {"submitted", "returned"}

DaemonInv == Typed /\ Enqueued /\ Served /\ OneEach /\ RanBy

LEMMA DaemonInvInit == DaemonInit => DaemonInv
  BY DaemonAssumption
     DEF DaemonInit, DaemonInv, Typed, Places, Stages, Conns, Enqueued, Served, OneEach, RanBy, Off, NoConn, Conn,
         Callers

(* Whoever waits for nothing has no connection.                            *)
LEMMA Unconnected ==
  ASSUME DaemonInv, NEW c \in Callers, callers[c].at \notin {"pinging", "submitted"}, NEW d \in Daemons
  PROVE  /\ daemons[d].serves.who # c
         /\ \A i \in 1 .. Len(daemons[d].queue) : daemons[d].queue[i].who # c
<1>1. \A i \in 1 .. Len(daemons[d].queue) : Sane(daemons[d].queue[i]) /\ Fits(daemons[d].queue[i], d)
  BY DEF DaemonInv, Enqueued
<1>2. daemons[d].serves = NoConn \/ (Sane(daemons[d].serves) /\ Fits(daemons[d].serves, d))
  BY DEF DaemonInv, Served
<1>3. NoConn.who # c
  BY DaemonAssumption DEF NoConn, Conn, Callers
<1> QED
  BY <1>1, <1>2, <1>3 DEF Sane, Fits

(* Nor has one whose connection has gone with its daemon.                  *)
LEMMA Disconnected ==
  ASSUME DaemonInv, NEW c \in Callers, HungUp(c), NEW d \in Daemons
  PROVE  /\ daemons[d].serves.who # c
         /\ \A i \in 1 .. Len(daemons[d].queue) : daemons[d].queue[i].who # c
<1>1. \A i \in 1 .. Len(daemons[d].queue) : Fits(daemons[d].queue[i], d)
  BY DEF DaemonInv, Enqueued
<1>2. daemons[d].serves = NoConn \/ Fits(daemons[d].serves, d)
  BY DEF DaemonInv, Served
<1>3. NoConn.who # c
  BY DaemonAssumption DEF NoConn, Conn, Callers
<1>4. callers[c].to # d => daemons[d].serves.who # c
                           /\ \A i \in 1 .. Len(daemons[d].queue) : daemons[d].queue[i].who # c
  BY <1>1, <1>2, <1>3 DEF Fits
<1>5. DOMAIN daemons[d].queue = 1 .. Len(daemons[d].queue)
  BY DEF DaemonInv, Typed
<1> QED
  BY <1>4, <1>5 DEF HungUp

(* A caller that has no connection goes on.                                *)
LEMMA CallerGoesOn ==
  ASSUME DaemonInv, NEW c \in Callers, NEW place \in Places \ {"pinging", "submitted"}, GoesTo(c, place),
         \A d \in Daemons : /\ daemons[d].serves.who # c
                            /\ \A i \in 1 .. Len(daemons[d].queue) : daemons[d].queue[i].who # c,
         c \in Launchers /\ ran[c] = 1 => place = "returned",
         path' \in Daemons \union {NoOne}, UNCHANGED <<daemons, ran>>
  PROVE  DaemonInv'
<1> USE DaemonAssumption DEF DaemonInv, Callers
<1>1. Typed'
  BY DEF Typed, GoesTo, Places
<1>2. \A b \in Callers \ {c} : callers'[b] = callers[b]
  BY DEF Typed, GoesTo
<1>5. Enqueued'
  <2> SUFFICES ASSUME NEW e \in Daemons, NEW i \in 1 .. Len(daemons[e].queue)
               PROVE  /\ Sane(daemons[e].queue[i]) /\ Fits(daemons[e].queue[i], e)'
                      /\ daemons[e].queue[i].kind = "run" => ran[daemons[e].queue[i].who] = 0
    BY DEF Enqueued, Sane
  <2>1. /\ Sane(daemons[e].queue[i]) /\ Fits(daemons[e].queue[i], e) /\ daemons[e].queue[i].who # c
        /\ daemons[e].queue[i].kind = "run" => ran[daemons[e].queue[i].who] = 0
    BY DEF Enqueued
  <2> QED
    BY <2>1, <1>2 DEF Fits
<1>6. Served'
  <2> SUFFICES ASSUME NEW e \in Daemons, daemons[e].serves # NoConn
               PROVE  Sane(daemons[e].serves) /\ Fits(daemons[e].serves, e)'
    BY DEF Served, Sane
  <2>1. Sane(daemons[e].serves) /\ Fits(daemons[e].serves, e) /\ daemons[e].serves.who # c
    BY DEF Served
  <2> QED
    BY <2>1, <1>2 DEF Fits
<1>3. OneEach'
  BY DEF OneEach
<1>4. RanBy'
  BY DEF RanBy, Typed, GoesTo
<1> QED
  BY <1>1, <1>5, <1>6, <1>3, <1>4

(* A daemon goes on, with the connections it has.                          *)
LEMMA DaemonGoesOn ==
  ASSUME DaemonInv, NEW d \in Daemons, UNCHANGED <<callers, ran>>, path' \in Daemons \union {NoOne}, Typed',
         \A e \in Daemons : daemons'[e].queue = daemons[e].queue /\ daemons'[e].serves = daemons[e].serves
  PROVE  DaemonInv'
<1> USE DEF DaemonInv
<1>1. Enqueued'
  <2> SUFFICES ASSUME NEW e \in Daemons, NEW i \in 1 .. Len(daemons'[e].queue)
               PROVE  /\ Sane(daemons'[e].queue[i]) /\ Fits(daemons[e].queue[i], e)'
                      /\ daemons'[e].queue[i].kind = "run" => ran'[daemons'[e].queue[i].who] = 0
    BY DEF Enqueued, Sane
  <2>1. /\ Sane(daemons[e].queue[i]) /\ Fits(daemons[e].queue[i], e)
        /\ daemons[e].queue[i].kind = "run" => ran[daemons[e].queue[i].who] = 0
    BY DEF Enqueued
  <2> QED
    BY <2>1 DEF Fits
<1>2. Served'
  <2> SUFFICES ASSUME NEW e \in Daemons, daemons[e].serves # NoConn
               PROVE  Sane(daemons[e].serves) /\ Fits(daemons[e].serves, e)
    BY DEF Served, Sane, Fits
  <2> QED
    BY DEF Served
<1>3. OneEach'
  BY DEF OneEach
<1>4. RanBy'
  BY DEF RanBy
<1> QED
  BY <1>1, <1>2, <1>3, <1>4

(* A daemon ends, and all its connections with it.                         *)
LEMMA DaemonEnds ==
  ASSUME DaemonInv, NEW d \in Daemons, NEW place \in Stages, Closed(d, place), UNCHANGED <<path, callers, ran>>
  PROVE  DaemonInv'
<1> USE DaemonAssumption DEF DaemonInv, Callers
<1>1. Typed'
  <2> DEFINE record == [at |-> place, listens |-> FALSE, queue |-> <<>>, serves |-> NoConn]
             Records == [at : Stages, listens : BOOLEAN, queue : Seq(Conns), serves : Conns]
  <2>1. Off(place) = record
    BY DEF Off
  <2>2. NoConn \in Conns /\ <<>> \in Seq(Conns)
    BY DEF NoConn, Conn, Conns
  <2>3. record \in Records
    BY <2>2
  <2>4. daemons' = [daemons EXCEPT ![d] = record]
    BY <2>1 DEF Closed
  <2>5. daemons \in [Daemons -> Records]
    BY DEF Typed
  <2> HIDE DEF record, Records
  <2>6. daemons' \in [Daemons -> Records]
    BY <2>3, <2>4, <2>5
  <2> QED
    BY <2>6 DEF Typed, Records
<1>2. daemons'[d].queue = <<>> /\ daemons'[d].serves = NoConn
  BY DEF Typed, Closed, Off
<1>3. \A e \in Daemons \ {d} : daemons'[e] = daemons[e]
  BY DEF Typed, Closed
<1>4. Enqueued'
  <2> SUFFICES ASSUME NEW e \in Daemons, NEW i \in 1 .. Len(daemons'[e].queue)
               PROVE  /\ Sane(daemons'[e].queue[i]) /\ Fits(daemons[e].queue[i], e)'
                      /\ daemons'[e].queue[i].kind = "run" => ran'[daemons'[e].queue[i].who] = 0
    BY DEF Enqueued, Sane
  <2>1. e # d
    BY <1>2
  <2>2. daemons'[e] = daemons[e]
    BY <1>3, <2>1
  <2>3. /\ Sane(daemons[e].queue[i]) /\ Fits(daemons[e].queue[i], e)
        /\ daemons[e].queue[i].kind = "run" => ran[daemons[e].queue[i].who] = 0
    BY <2>2 DEF Enqueued
  <2>4. callers' = callers /\ ran' = ran
    OBVIOUS
  <2>5. Fits(daemons[e].queue[i], e)'
    BY ONLY <2>2, <2>3, <2>4 DEF Fits
  <2> QED
    BY ONLY <2>2, <2>3, <2>4, <2>5
<1>5. Served'
  BY <1>2, <1>3 DEF Served, Sane, Fits
<1>6. OneEach' /\ RanBy'
  BY <1>2, <1>3 DEF OneEach, RanBy
<1> QED
  BY <1>1, <1>4, <1>5, <1>6

(* A caller that has no connection gets one.                               *)
LEMMA CallerConnects ==
  ASSUME DaemonInv, NEW c \in Callers, NEW d \in Daemons, NEW kind \in {"ping", "run"},
         callers[c].at \in {"idle", "found"}, kind = "run" => c \in Launchers,
         Enqueue(d, Conn(c, kind)),
         Dials(c, IF kind = "ping" THEN "pinging" ELSE "submitted", d), UNCHANGED <<path, ran>>
  PROVE  DaemonInv'
<1> USE DaemonAssumption DEF DaemonInv, Callers
<1> DEFINE conn == Conn(c, kind)
           q == daemons[d].queue
<1>1. conn \in Conns /\ conn.who = c /\ conn.kind = kind /\ q \in Seq(Conns)
  BY DEF Conn, Conns, Typed
<1>2. /\ daemons'[d].queue = Append(q, conn) /\ daemons'[d].serves = daemons[d].serves
      /\ \A e \in Daemons \ {d} : daemons'[e] = daemons[e]
  BY DEF Enqueue, Typed
<1>3. Append(q, conn) \in Seq(Conns) /\ Len(Append(q, conn)) = Len(q) + 1 /\ Len(q) \in Nat
  BY <1>1
<1>4. Append(q, conn)[Len(q) + 1] = conn /\ \A i \in 1 .. Len(q) : Append(q, conn)[i] = q[i]
  BY <1>1
<1>5. Typed'
  <2>1. daemons' \in [Daemons -> [at : Stages, listens : BOOLEAN, queue : Seq(Conns), serves : Conns]]
    <3>1. daemons' = [daemons EXCEPT ![d].queue = Append(q, conn)]
      BY DEF Enqueue
    <3>2. daemons[d] \in [at : Stages, listens : BOOLEAN, queue : Seq(Conns), serves : Conns]
      BY DEF Typed
    <3>3. [daemons[d] EXCEPT !.queue = Append(q, conn)]
             \in [at : Stages, listens : BOOLEAN, queue : Seq(Conns), serves : Conns]
      <4> HIDE DEF conn, q
      <4> QED
        BY ONLY <3>2, <1>3
    <3> QED
      BY ONLY <3>1, <3>2, <3>3, Typed DEF Typed
  <2>2. callers' \in [Callers -> [at : Places, to : Daemons \union {NoOne}]]
    <3>1. CASE kind = "ping"
      BY <3>1 DEF Typed, Dials, Places
    <3>2. CASE kind = "run"
      BY <3>2 DEF Typed, Dials, Places
    <3> QED
      BY <3>1, <3>2
  <2> QED
    BY <2>1, <2>2 DEF Typed
<1>6. /\ callers'[c].to = d /\ callers'[c].at = IF kind = "ping" THEN "pinging" ELSE "submitted"
      /\ \A b \in Callers \ {c} : callers'[b] = callers[b]
  BY DEF Typed, Dials
<1>7. \A e \in Daemons : /\ daemons[e].serves.who # c
                         /\ \A i \in 1 .. Len(daemons[e].queue) : daemons[e].queue[i].who # c
  BY Unconnected
<1>8. c \in Launchers => ran[c] = 0
  BY DEF RanBy, Typed
<1>9. Enqueued'
  <2> SUFFICES ASSUME NEW e \in Daemons, NEW i \in 1 .. Len(daemons'[e].queue)
               PROVE  /\ Sane(daemons'[e].queue[i]) /\ Fits(daemons[e].queue[i], e)'
                      /\ daemons'[e].queue[i].kind = "run" => ran'[daemons'[e].queue[i].who] = 0
    BY DEF Enqueued, Sane
  <2>1. CASE e = d /\ i = Len(q) + 1
    <3>1. daemons'[e].queue[i] = conn
      BY ONLY <2>1, <1>2, <1>4
    <3>2. callers'[conn.who].to = e /\ callers'[conn.who].at = IF conn.kind = "ping" THEN "pinging" ELSE "submitted"
      BY ONLY <2>1, <1>1, <1>6
    <3>3. conn.kind \in {"ping", "run"} /\ (conn.kind = "run" => conn.who \in Launchers /\ ran'[conn.who] = 0)
      BY <1>1, <1>8
    <3> HIDE DEF conn
    <3>4. Sane(conn) /\ Fits(conn, e)'
      BY <3>2, <3>3 DEF Sane, Fits
    <3> QED
      BY <3>1, <3>3, <3>4
  <2>2. CASE ~(e = d /\ i = Len(q) + 1)
    <3>1. i \in 1 .. Len(daemons[e].queue) /\ daemons'[e].queue[i] = daemons[e].queue[i]
      <4>1. CASE e # d
        BY ONLY <4>1, <1>2, d \in Daemons, e \in Daemons, i \in 1 .. Len(daemons'[e].queue)
      <4>2. CASE e = d
        <5>1. i \in 1 .. Len(Append(q, conn)) /\ i # Len(q) + 1
          BY ONLY <4>2, <2>2, <1>2, i \in 1 .. Len(daemons'[e].queue)
        <5>2. i \in 1 .. Len(q)
          BY ONLY <5>1, <1>3
        <5> QED
          BY ONLY <4>2, <5>2, <1>2, <1>4
      <4> QED
        BY <4>1, <4>2
    <3>2. /\ Sane(daemons[e].queue[i]) /\ Fits(daemons[e].queue[i], e) /\ daemons[e].queue[i].who # c
          /\ daemons[e].queue[i].kind = "run" => ran[daemons[e].queue[i].who] = 0
      BY <3>1, <1>7 DEF Enqueued
    <3>3. Fits(daemons[e].queue[i], e)'
      BY <3>1, <3>2, <1>6 DEF Fits
    <3> QED
      BY <3>1, <3>2, <3>3
  <2> QED
    BY <2>1, <2>2
<1>10. Served'
  BY <1>2, <1>6, <1>7 DEF Served, Sane, Fits
<1>11. OneEach'
  <2> SUFFICES ASSUME NEW e \in Daemons, NEW i \in 1 .. Len(daemons'[e].queue), daemons'[e].queue[i].who \in Callers
               PROVE  /\ daemons'[e].queue[i].who # daemons'[e].serves.who
                      /\ \A j \in 1 .. Len(daemons'[e].queue) :
                           daemons'[e].queue[j].who = daemons'[e].queue[i].who => i = j
    BY DEF OneEach
  <2>1. CASE e # d
    BY <2>1, <1>2 DEF OneEach
  <2>2. CASE e = d
    BY <2>2, <1>1, <1>2, <1>3, <1>4, <1>7 DEF OneEach
  <2> QED
    BY <2>1, <2>2
<1>12. RanBy'
  BY <1>6, <1>8 DEF RanBy, Typed
<1> QED
  BY <1>5, <1>9, <1>10, <1>11, <1>12

(* Waiting no longer, a caller leaves a connection behind that is nobody's. *)
LEMMA TimeOutStep ==
  ASSUME DaemonInv, NEW c \in Callers, PingTimesOut(c)
  PROVE  DaemonInv'
<1> USE DaemonAssumption DEF DaemonInv, Callers
<1> DEFINE Left(conn) == IF conn = Conn(c, "ping") THEN Conn(NoOne, "ping") ELSE conn
           Row(e) == [i \in DOMAIN daemons[e].queue |-> Left(daemons[e].queue[i])]
<1>1. \A conn \in Conns :
        /\ Left(conn) \in Conns
        /\ Left(conn).who = conn.who \/ Left(conn).who = NoOne
        /\ Left(conn).kind = conn.kind
        /\ conn.kind # "ping" => Left(conn) = conn
        /\ conn.kind = "ping" => Left(conn).who # c
  BY DEF Conn, Conns
<1>2. \A e \in Daemons : /\ Row(e) \in Seq(Conns) /\ Len(Row(e)) = Len(daemons[e].queue)
                         /\ \A i \in 1 .. Len(daemons[e].queue) : /\ Row(e)[i] = Left(daemons[e].queue[i])
                                                                  /\ daemons[e].queue[i] \in Conns
  <2> SUFFICES ASSUME NEW e \in Daemons
               PROVE  /\ Row(e) \in Seq(Conns) /\ Len(Row(e)) = Len(daemons[e].queue)
                      /\ \A i \in 1 .. Len(daemons[e].queue) : /\ Row(e)[i] = Left(daemons[e].queue[i])
                                                               /\ daemons[e].queue[i] \in Conns
    OBVIOUS
  <2>1. daemons[e].queue \in Seq(Conns)
    BY DEF Typed
  <2>2. DOMAIN daemons[e].queue = 1 .. Len(daemons[e].queue) /\ Len(daemons[e].queue) \in Nat
        /\ \A i \in 1 .. Len(daemons[e].queue) : daemons[e].queue[i] \in Conns
    BY <2>1
  <2> HIDE DEF Left
  <2>3. Row(e) \in [1 .. Len(daemons[e].queue) -> Conns]
    BY <1>1, <2>2
  <2> QED
    BY <2>2, <2>3
<1>3. \A e \in Daemons : /\ daemons'[e].queue = Row(e) /\ daemons'[e].serves = Left(daemons[e].serves)
                         /\ daemons'[e].at = daemons[e].at /\ daemons'[e].listens = daemons[e].listens
                         /\ daemons[e].serves \in Conns
  BY DEF Typed, PingTimesOut
<1>4. callers'[c].at = "found" /\ \A b \in Callers \ {c} : callers'[b] = callers[b]
  BY DEF Typed, PingTimesOut, GoesTo, IsBusy
<1>5. Typed'
  <2> DEFINE Records == [at : Stages, listens : BOOLEAN, queue : Seq(Conns), serves : Conns]
  <2>1. \A e \in Daemons : daemons'[e] \in Records
    <3> SUFFICES ASSUME NEW e \in Daemons PROVE daemons'[e] \in Records
      OBVIOUS
    <3>1. daemons'[e] = [at |-> daemons[e].at, listens |-> daemons[e].listens,
                         queue |-> Row(e), serves |-> Left(daemons[e].serves)]
      BY DEF PingTimesOut, Typed
    <3>2. daemons[e].at \in Stages /\ daemons[e].listens \in BOOLEAN
      BY DEF Typed
    <3>3. Row(e) \in Seq(Conns) /\ Left(daemons[e].serves) \in Conns
      BY <1>1, <1>2, <1>3
    <3> HIDE DEF Row, Left
    <3> QED
      BY <3>1, <3>2, <3>3
  <2>2. daemons' \in [Daemons -> Records]
    <3> HIDE DEF Records
    <3> QED
      BY <2>1 DEF PingTimesOut
  <2>3. callers' \in [Callers -> [at : Places, to : Daemons \union {NoOne}]]
    BY DEF Typed, PingTimesOut, GoesTo, IsBusy, Places
  <2>4. path' = path /\ ran' = ran
    BY DEF PingTimesOut
  <2> QED
    BY <2>2, <2>3, <2>4 DEF Typed
<1>6. ran' = ran /\ Is(c, "pinging")
  BY DEF PingTimesOut
<1> HIDE DEF Left, Row
<1>7. \A e \in Daemons : \A i \in 1 .. Len(daemons[e].queue) :
        Sane(daemons[e].queue[i]) /\ Fits(daemons[e].queue[i], e)
  BY DEF Enqueued
<1>8. Enqueued'
  <2> SUFFICES ASSUME NEW e \in Daemons, NEW i \in 1 .. Len(daemons'[e].queue)
               PROVE  /\ Sane(daemons'[e].queue[i]) /\ Fits(daemons[e].queue[i], e)'
                      /\ daemons'[e].queue[i].kind = "run" => ran'[daemons'[e].queue[i].who] = 0
    BY DEF Enqueued, Sane
  <2> DEFINE conn == daemons[e].queue[i]
  <2>1. i \in 1 .. Len(daemons[e].queue) /\ daemons'[e].queue[i] = Left(conn) /\ conn \in Conns
    BY <1>2, <1>3
  <2>2. Sane(conn) /\ Fits(conn, e) /\ (conn.kind = "run" => ran[conn.who] = 0)
    BY <2>1 DEF Enqueued
  <2> HIDE DEF conn
  <2> QED
    BY <1>1, <1>4, <1>6, <2>1, <2>2 DEF Sane, Fits, Is
<1>9. Served'
  <2> SUFFICES ASSUME NEW e \in Daemons, daemons'[e].serves # NoConn
               PROVE  Sane(daemons'[e].serves) /\ Fits(daemons[e].serves, e)'
    BY DEF Served, Sane
  <2> DEFINE conn == daemons[e].serves
  <2>1. daemons'[e].serves = Left(conn) /\ conn \in Conns
    BY <1>3
  <2>2. conn # NoConn
    BY <1>1, <2>1 DEF NoConn, Conn, Conns
  <2>3. Sane(conn) /\ Fits(conn, e)
    BY <2>2 DEF Served
  <2> HIDE DEF conn
  <2> QED
    BY <1>1, <1>4, <1>6, <2>1, <2>3 DEF Sane, Fits, Is
<1>10. OneEach'
  <2> SUFFICES ASSUME NEW e \in Daemons, NEW i \in 1 .. Len(daemons'[e].queue), daemons'[e].queue[i].who \in Callers
               PROVE  /\ daemons'[e].queue[i].who # daemons'[e].serves.who
                      /\ \A j \in 1 .. Len(daemons'[e].queue) :
                           daemons'[e].queue[j].who = daemons'[e].queue[i].who => i = j
    BY DEF OneEach
  <2>1. /\ i \in 1 .. Len(daemons[e].queue) /\ daemons'[e].queue[i] = Left(daemons[e].queue[i])
        /\ Len(daemons'[e].queue) = Len(daemons[e].queue)
    BY <1>2, <1>3
  <2>2. daemons'[e].queue[i].who = daemons[e].queue[i].who
    BY <1>1, <1>2, <2>1
  <2>3. daemons'[e].queue[i].who # daemons'[e].serves.who
    BY <1>1, <1>3, <2>1, <2>2 DEF OneEach
  <2>4. \A j \in 1 .. Len(daemons'[e].queue) :
          daemons'[e].queue[j].who = daemons'[e].queue[i].who => daemons[e].queue[j].who = daemons[e].queue[i].who
    <3> SUFFICES ASSUME NEW j \in 1 .. Len(daemons'[e].queue),
                        daemons'[e].queue[j].who = daemons'[e].queue[i].who
                 PROVE  daemons[e].queue[j].who = daemons[e].queue[i].who
      OBVIOUS
    <3>1. daemons'[e].queue[j] = Left(daemons[e].queue[j]) /\ daemons[e].queue[j] \in Conns
      BY <1>2, <1>3, <2>1
    <3>2. daemons'[e].queue[j].who # NoOne
      OBVIOUS
    <3> QED
      BY <1>1, <2>2, <3>1, <3>2
  <2> QED
    BY <2>1, <2>2, <2>3, <2>4 DEF OneEach
<1>11. RanBy'
  BY <1>4, <1>6 DEF RanBy, Is, Typed
<1> QED
  BY <1>5, <1>8, <1>9, <1>10, <1>11

(* A launcher runs its own task when nobody holds it.                      *)
LEMMA RunsItselfStep ==
  ASSUME DaemonInv, NEW l \in Launchers, RunsItself(l)
  PROVE  DaemonInv'
<1> USE DaemonAssumption DEF DaemonInv, Callers
<1>1. /\ callers'[l].at = "returned" /\ ran'[l] = 1 /\ daemons' = daemons /\ path' = path
      /\ \A c \in Callers \ {l} : callers'[c] = callers[c]
      /\ \A k \in Launchers \ {l} : ran'[k] = ran[k]
  BY SMTT(30) DEF RunsItself, GoesTo, Is, Typed, RanBy
<1>2. \A e \in Daemons : /\ daemons[e].serves.who # l
                         /\ \A i \in 1 .. Len(daemons[e].queue) : daemons[e].queue[i].who # l
  BY Unconnected DEF RunsItself, Is
<1>3. Typed'
  <2>1. callers' \in [Callers -> [at : Places, to : Daemons \union {NoOne}]]
    BY DEF RunsItself, GoesTo, Typed, Places
  <2>2. ran' \in [Launchers -> Nat]
    BY DEF RunsItself, Typed
  <2> QED
    BY <1>1, <2>1, <2>2 DEF Typed
<1>4. Enqueued'
  <2> SUFFICES ASSUME NEW e \in Daemons, NEW i \in 1 .. Len(daemons[e].queue)
               PROVE  /\ Sane(daemons[e].queue[i]) /\ Fits(daemons[e].queue[i], e)'
                      /\ daemons[e].queue[i].kind = "run" => ran'[daemons[e].queue[i].who] = 0
    BY <1>1 DEF Enqueued, Sane
  <2>1. /\ Sane(daemons[e].queue[i]) /\ Fits(daemons[e].queue[i], e) /\ daemons[e].queue[i].who # l
        /\ daemons[e].queue[i].kind = "run" => ran[daemons[e].queue[i].who] = 0
    BY <1>2 DEF Enqueued
  <2> QED
    BY <2>1, <1>1 DEF Sane, Fits
<1>5. Served'
  <2> SUFFICES ASSUME NEW e \in Daemons, daemons[e].serves # NoConn
               PROVE  Sane(daemons[e].serves) /\ Fits(daemons[e].serves, e)'
    BY <1>1 DEF Served, Sane, Fits
  <2> QED
    BY <1>1, <1>2 DEF Served, Sane, Fits
<1>6. OneEach' /\ RanBy'
  BY <1>1 DEF OneEach, RanBy
<1> QED
  BY <1>3, <1>4, <1>5, <1>6

(* The task at the head of a backlog is that of a launcher that waits for  *)
(* it and that nobody else can run.                                        *)
LEMMA TakesNextStep ==
  ASSUME DaemonInv, NEW d \in Daemons, TakesNext(d)
  PROVE  DaemonInv'
<1> USE DaemonAssumption DEF DaemonInv, Callers
<1> DEFINE q == daemons[d].queue
           conn == Head(q)
<1>1. q \in Seq(Conns) /\ q # <<>>
  BY DEF TakesNext, Typed
<1>2. /\ Len(q) \in Nat \ {0} /\ Tail(q) \in Seq(Conns) /\ Len(Tail(q)) = Len(q) - 1
      /\ conn = q[1] /\ conn \in Conns /\ \A i \in 1 .. Len(Tail(q)) : Tail(q)[i] = q[i + 1]
  BY <1>1
<1>3. Sane(conn) /\ Fits(conn, d) /\ (conn.kind = "run" => ran[conn.who] = 0)
  BY <1>2 DEF Enqueued
<1>4. /\ daemons'[d].queue = Tail(q) /\ daemons'[d].serves = conn
      /\ \A e \in Daemons \ {d} : daemons'[e] = daemons[e]
  BY DEF TakesNext, Typed
<1>5. ran' = IF conn.kind = "run" THEN [ran EXCEPT ![conn.who] = 1] ELSE ran
  <2>1. conn.kind = "run" => ran[conn.who] + 1 = 1
    BY <1>3
  <2>2. ran' = IF conn.kind = "run" THEN [ran EXCEPT ![conn.who] = ran[conn.who] + 1] ELSE ran
    BY DEF TakesNext
  <2> QED
    BY <2>1, <2>2
<1>6. callers' = callers /\ path' = path
  BY DEF TakesNext
<1>7. Typed'
  <2> DEFINE Records == [at : Stages, listens : BOOLEAN, queue : Seq(Conns), serves : Conns]
  <2>1. daemons' \in [Daemons -> Records]
    <3> DEFINE between == [daemons EXCEPT ![d].queue = Tail(q)]
    <3>1. between \in [Daemons -> Records]
      BY <1>2 DEF Typed
    <3>2. daemons' = [between EXCEPT ![d].serves = conn]
      BY DEF TakesNext, Typed
    <3> HIDE DEF between
    <3> QED
      BY <1>2, <3>1, <3>2
  <2>2. ran' \in [Launchers -> Nat]
    BY <1>5 DEF Typed
  <2> QED
    BY <2>1, <2>2, <1>6 DEF Typed
<1> HIDE DEF conn
<1>8. \A e \in Daemons : \A i \in 1 .. Len(daemons'[e].queue) :
        \E j \in 1 .. Len(daemons[e].queue) :
          /\ daemons'[e].queue[i] = daemons[e].queue[j]
          /\ j = IF e = d THEN i + 1 ELSE i
  <2> SUFFICES ASSUME NEW e \in Daemons, NEW i \in 1 .. Len(daemons'[e].queue)
               PROVE  \E j \in 1 .. Len(daemons[e].queue) :
                        /\ daemons'[e].queue[i] = daemons[e].queue[j]
                        /\ j = IF e = d THEN i + 1 ELSE i
    OBVIOUS
  <2>1. CASE e = d
    BY <2>1, <1>2, <1>4
  <2>2. CASE e # d
    BY <2>2, <1>4
  <2> QED
    BY <2>1, <2>2
<1>9. conn.who \in Callers => \A e \in Daemons : \A i \in 1 .. Len(daemons'[e].queue) :
        daemons'[e].queue[i].who # conn.who
  <2> SUFFICES ASSUME conn.who \in Callers, NEW e \in Daemons, NEW i \in 1 .. Len(daemons'[e].queue),
                      daemons'[e].queue[i].who = conn.who
               PROVE  FALSE
    OBVIOUS
  <2>1. PICK j \in 1 .. Len(daemons[e].queue) : daemons'[e].queue[i] = daemons[e].queue[j]
                                                /\ j = IF e = d THEN i + 1 ELSE i
    BY <1>8
  <2>2. e = d
    BY <1>3, <2>1 DEF Enqueued, Fits
  <2>3. j # 1 /\ 1 \in 1 .. Len(q)
    BY <2>1, <2>2, <1>2
  <2> QED
    BY <1>2, <2>1, <2>2, <2>3 DEF OneEach
<1>10. Enqueued'
  <2> SUFFICES ASSUME NEW e \in Daemons, NEW i \in 1 .. Len(daemons'[e].queue)
               PROVE  /\ Sane(daemons'[e].queue[i]) /\ Fits(daemons[e].queue[i], e)'
                      /\ daemons'[e].queue[i].kind = "run" => ran'[daemons'[e].queue[i].who] = 0
    BY DEF Enqueued, Sane
  <2>1. PICK j \in 1 .. Len(daemons[e].queue) : daemons'[e].queue[i] = daemons[e].queue[j]
    BY <1>8
  <2>2. /\ Sane(daemons[e].queue[j]) /\ Fits(daemons[e].queue[j], e)
        /\ daemons[e].queue[j].kind = "run" => ran[daemons[e].queue[j].who] = 0
    BY DEF Enqueued
  <2>3. Fits(daemons[e].queue[i], e)'
    BY <2>1, <2>2, <1>6 DEF Fits
  <2>4. CASE daemons'[e].queue[i].kind = "run" /\ conn.kind = "run"
    <3>1. daemons'[e].queue[i].who \in Launchers /\ conn.who \in Launchers
      BY <2>1, <2>2, <2>4, <1>3 DEF Sane
    <3>2. daemons'[e].queue[i].who # conn.who
      BY <3>1, <1>9
    <3> QED
      BY <2>1, <2>2, <2>3, <2>4, <3>1, <3>2, <1>5 DEF Typed
  <2>5. CASE ~(daemons'[e].queue[i].kind = "run" /\ conn.kind = "run")
    BY <2>1, <2>2, <2>3, <2>5, <1>5
  <2> QED
    BY <2>4, <2>5
<1>11. Served'
  BY <1>3, <1>4, <1>6 DEF Served, Sane, Fits
<1>12. OneEach'
  <2> SUFFICES ASSUME NEW e \in Daemons, NEW i \in 1 .. Len(daemons'[e].queue), daemons'[e].queue[i].who \in Callers
               PROVE  /\ daemons'[e].queue[i].who # daemons'[e].serves.who
                      /\ \A j \in 1 .. Len(daemons'[e].queue) :
                           daemons'[e].queue[j].who = daemons'[e].queue[i].who => i = j
    BY DEF OneEach
  <2>1. CASE e # d
    BY <2>1, <1>4 DEF OneEach
  <2>2. CASE e = d
    BY <2>2, <1>2, <1>4, <1>8, <1>9 DEF OneEach
  <2> QED
    BY <2>1, <2>2
<1>13. RanBy'
  BY <1>3, <1>5, <1>6 DEF RanBy, Typed, Sane, Fits
<1> QED
  BY <1>7, <1>10, <1>11, <1>12, <1>13

(* The answer reaches the one who waits for it, who has no other           *)
(* connection.                                                             *)
LEMMA AnswersStep ==
  ASSUME DaemonInv, NEW d \in Daemons, AnswersConn(d)
  PROVE  DaemonInv'
<1> USE DaemonAssumption DEF DaemonInv, Callers
<1> DEFINE conn == daemons[d].serves
           place == IF conn.kind = "ping" THEN "found" ELSE "returned"
<1>1. conn \in Conns /\ conn # NoConn /\ Sane(conn) /\ Fits(conn, d)
  BY DEF AnswersConn, Typed, Served
<1>2. /\ daemons'[d].queue = daemons[d].queue /\ daemons'[d].serves = NoConn
      /\ \A e \in Daemons \ {d} : daemons'[e] = daemons[e]
  BY DEF AnswersConn, Typed
<1>3. callers' = IF conn.who = NoOne THEN callers ELSE [callers EXCEPT ![conn.who].at = place]
  BY DEF AnswersConn
<1>4. path' = path /\ ran' = ran
  BY DEF AnswersConn
<1> HIDE DEF conn
<1>5. conn.who \in Callers \union {NoOne} /\ place \in Places
  BY <1>1 DEF Conns, Places
<1>6. \A c \in Callers : c # conn.who => callers'[c] = callers[c]
  BY <1>3, <1>5 DEF Typed
<1>7. conn.who \in Callers => callers'[conn.who].at = place
  BY <1>3, <1>5 DEF Typed
<1>8. conn.who \in Callers => \A e \in Daemons :
        /\ daemons'[e].serves.who # conn.who
        /\ \A i \in 1 .. Len(daemons'[e].queue) : daemons'[e].queue[i].who # conn.who
  <2> SUFFICES ASSUME conn.who \in Callers, NEW e \in Daemons
               PROVE  /\ daemons'[e].serves.who # conn.who
                      /\ \A i \in 1 .. Len(daemons'[e].queue) : daemons'[e].queue[i].who # conn.who
    OBVIOUS
  <2>1. CASE e = d
    BY <2>1, <1>2 DEF OneEach, NoConn, Conn, conn
  <2>2. CASE e # d
    BY <2>2, <1>1, <1>2 DEF Enqueued, Served, Fits, NoConn, Conn
  <2> QED
    BY <2>1, <2>2
<1>9. Typed'
  <2>1. callers' \in [Callers -> [at : Places, to : Daemons \union {NoOne}]]
    <3> HIDE DEF place
    <3>1. CASE conn.who = NoOne
      BY <3>1, <1>3 DEF Typed
    <3>2. CASE conn.who \in Callers
      BY <3>2, <1>3, <1>5 DEF Typed
    <3> QED
      BY <3>1, <3>2, <1>5
  <2>2. NoConn \in Conns
    BY DEF NoConn, Conn, Conns
  <2>3. daemons' \in [Daemons -> [at : Stages, listens : BOOLEAN, queue : Seq(Conns), serves : Conns]]
    BY <2>2 DEF Typed, AnswersConn
  <2> QED
    BY <2>1, <2>3, <1>4 DEF Typed
<1>10. Enqueued'
  <2> SUFFICES ASSUME NEW e \in Daemons, NEW i \in 1 .. Len(daemons'[e].queue)
               PROVE  /\ Sane(daemons'[e].queue[i]) /\ Fits(daemons[e].queue[i], e)'
                      /\ daemons'[e].queue[i].kind = "run" => ran'[daemons'[e].queue[i].who] = 0
    BY DEF Enqueued, Sane
  <2>1. daemons'[e].queue = daemons[e].queue
    BY <1>2
  <2> QED
    BY SMTT(30), <2>1, <1>4, <1>6, <1>8 DEF Enqueued, Sane, Fits
<1>11. Served'
  <2> SUFFICES ASSUME NEW e \in Daemons, daemons'[e].serves # NoConn
               PROVE  Sane(daemons'[e].serves) /\ Fits(daemons[e].serves, e)'
    BY DEF Served, Sane
  <2>1. e # d /\ daemons'[e].serves = daemons[e].serves
    BY <1>2
  <2> QED
    BY <2>1, <1>6, <1>8 DEF Served, Sane, Fits
<1>12. OneEach'
  <2> SUFFICES ASSUME NEW e \in Daemons, NEW i \in 1 .. Len(daemons'[e].queue), daemons'[e].queue[i].who \in Callers
               PROVE  /\ daemons'[e].queue[i].who # daemons'[e].serves.who
                      /\ \A j \in 1 .. Len(daemons'[e].queue) :
                           daemons'[e].queue[j].who = daemons'[e].queue[i].who => i = j
    BY DEF OneEach
  <2>1. daemons'[e].queue = daemons[e].queue
    BY <1>2
  <2>2. /\ daemons[e].queue[i].who # daemons[e].serves.who
        /\ \A j \in 1 .. Len(daemons[e].queue) : daemons[e].queue[j].who = daemons[e].queue[i].who => i = j
    BY <2>1 DEF OneEach
  <2>3. daemons'[e].serves.who # daemons[e].queue[i].who
    <3>1. CASE e = d
      BY <3>1, <2>1, <1>2 DEF NoConn, Conn
    <3>2. CASE e # d
      BY <3>2, <2>2, <1>2
    <3> QED
      BY <3>1, <3>2
  <2> QED
    BY <2>1, <2>2, <2>3
<1>13. RanBy'
  <2> SUFFICES ASSUME NEW l \in Launchers, ran[l] = 1 PROVE callers'[l].at \in {"submitted", "returned"}
    BY <1>4 DEF RanBy
  <2>1. CASE l = conn.who
    BY <2>1, <1>1, <1>7 DEF RanBy, Sane, Fits
  <2>2. CASE l # conn.who
    BY <2>2, <1>6 DEF RanBy
  <2> QED
    BY <2>1, <2>2
<1> QED
  BY <1>9, <1>10, <1>11, <1>12, <1>13

(* What a caller does, whether it launches a task or starts as a daemon.   *)
LEMMA CallerStep ==
  ASSUME DaemonInv, NEW c \in Callers, Probes(c) \/ Unlinks(c) \/ LosesPing(c)
  PROVE  DaemonInv'
<1>1. CASE Probes(c)
  <2>1. CASE path = NoOne /\ GoesTo(c, "alone") /\ UNCHANGED daemons
    BY <1>1, <2>1, Unconnected, CallerGoesOn DEF Probes, Is, DaemonInv, Typed, RanBy, Places
  <2>2. CASE Accepts(path) /\ Enqueue(path, Conn(c, "ping")) /\ Dials(c, "pinging", path)
    <3>1. path \in Daemons
      BY <2>2 DEF Accepts, DaemonInv, Typed
    <3> QED
      BY <1>1, <2>2, <3>1, CallerConnects DEF Probes, Is
  <2>3. CASE path # NoOne /\ ~Accepts(path) /\ GoesTo(c, "refused") /\ UNCHANGED daemons
    BY <1>1, <2>3, Unconnected, CallerGoesOn DEF Probes, Is, DaemonInv, Typed, RanBy, Places
  <2> QED
    BY <1>1, <2>1, <2>2, <2>3 DEF Probes
<1>2. CASE Unlinks(c)
  BY <1>2, Unconnected, CallerGoesOn DEF Unlinks, Is, DaemonInv, Typed, RanBy, Places
<1>3. CASE LosesPing(c)
  BY <1>3, Disconnected, CallerGoesOn DEF LosesPing, Is, DaemonInv, Typed, RanBy, Places
<1> QED
  BY <1>1, <1>2, <1>3

(* What only a launcher does.                                              *)
LEMMA LaunchStep ==
  ASSUME DaemonInv, NEW l \in Launchers, LauncherStep(l)
  PROVE  DaemonInv'
<1> USE DEF Callers
<1>1. CASE Probes(l) \/ Unlinks(l) \/ LosesPing(l)
  BY <1>1, CallerStep
<1>2. CASE Forwards(l)
  <2>1. CASE Accepts(path) /\ Enqueue(path, Conn(l, "run")) /\ Dials(l, "submitted", path)
    <3>1. path \in Daemons
      BY <2>1 DEF Accepts, DaemonInv, Typed
    <3> QED
      BY <1>2, <2>1, <3>1, CallerConnects DEF Forwards, Is
  <2>2. CASE ~Accepts(path) /\ GoesTo(l, "alone") /\ UNCHANGED daemons
    BY <1>2, <2>2, Unconnected, CallerGoesOn DEF Forwards, Is, DaemonInv, Typed, RanBy, Places
  <2> QED
    BY <1>2, <2>1, <2>2 DEF Forwards
<1>3. CASE RunsItself(l)
  BY <1>3, RunsItselfStep
<1>4. CASE LosesRun(l)
  BY <1>4, Disconnected, CallerGoesOn DEF LosesRun, AfterLoss, Is, DaemonInv, Typed, RanBy, Places
<1> QED
  BY <1>1, <1>2, <1>3, <1>4 DEF LauncherStep

(* What only a daemon does.                                                *)
LEMMA DaemonStep ==
  ASSUME DaemonInv, NEW d \in Daemons,
         StarterStep(d) \/ ServeStep(d) \/ Stops(d) \/ Signalled(d) \/ DaemonKilled(d)
  PROVE  DaemonInv'
<1> USE DEF Callers
<1>1. CASE Probes(d) \/ Unlinks(d) \/ LosesPing(d)
  BY <1>1, CallerStep
<1>2. CASE Declines(d)
  BY <1>2, Unconnected, CallerGoesOn DEF Declines, Is, DaemonInv, Typed, Places
<1>3. CASE ClearsPath(d) \/ Binds(d) \/ Listens(d) \/ Stops(d) \/ UnlinksPath(d)
  <2> DEFINE Records == [at : Stages, listens : BOOLEAN, queue : Seq(Conns), serves : Conns]
  <2>1. path' \in Daemons \union {NoOne} /\ callers' = callers /\ ran' = ran
    BY <1>3 DEF ClearsPath, Binds, Listens, Stops, UnlinksPath, DaemonInv, Typed
  <2>2. /\ daemons' \in [Daemons -> Records]
        /\ \A e \in Daemons : daemons'[e].queue = daemons[e].queue /\ daemons'[e].serves = daemons[e].serves
    <3>1. CASE Listens(d)
      <4> DEFINE between == [daemons EXCEPT ![d].at = "serving"]
      <4>1. between \in [Daemons -> Records]
        BY DEF DaemonInv, Typed, Stages
      <4>2. daemons' = [between EXCEPT ![d].listens = TRUE]
        BY <3>1 DEF Listens, DaemonInv, Typed
      <4>3. \A e \in Daemons : between[e].queue = daemons[e].queue /\ between[e].serves = daemons[e].serves
        BY DEF DaemonInv, Typed
      <4> HIDE DEF between
      <4> QED
        BY <4>1, <4>2, <4>3
    <3>2. CASE ClearsPath(d) \/ Binds(d) \/ Stops(d) \/ UnlinksPath(d)
      <4>1. PICK place \in Stages : daemons' = [daemons EXCEPT ![d].at = place]
        BY <3>2 DEF ClearsPath, Binds, Stops, UnlinksPath, Stages
      <4> QED
        BY <4>1 DEF DaemonInv, Typed
    <3> QED
      BY <1>3, <3>1, <3>2
  <2>3. Typed'
    BY <2>1, <2>2 DEF DaemonInv, Typed
  <2> QED
    BY <2>1, <2>2, <2>3, DaemonGoesOn
<1>4. CASE TakesNext(d)
  BY <1>4, TakesNextStep
<1>5. CASE AnswersConn(d)
  BY <1>5, AnswersStep
<1>6. CASE ClosesSocket(d) \/ Signalled(d) \/ DaemonKilled(d)
  BY <1>6, DaemonEnds DEF ClosesSocket, Signalled, DaemonKilled, Stages
<1> QED
  BY <1>1, <1>2, <1>3, <1>4, <1>5, <1>6 DEF StarterStep, ServeStep

LEMMA DaemonInvNext == DaemonInv /\ [DaemonNext]_daemonVars => DaemonInv'
<1> SUFFICES ASSUME DaemonInv, [DaemonNext]_daemonVars
             PROVE  DaemonInv'
  OBVIOUS
<1>1. CASE UNCHANGED daemonVars
  <2> USE DEF DaemonInv
  <2>1. UNCHANGED <<path, daemons, callers, ran>>
    BY <1>1 DEF daemonVars
  <2>2. Typed' /\ OneEach' /\ RanBy'
    BY <2>1 DEF Typed, OneEach, RanBy
  <2>3. Enqueued'
    BY <2>1 DEF Enqueued, Sane, Fits
  <2>4. Served'
    BY <2>1 DEF Served, Sane, Fits
  <2> QED
    BY <2>2, <2>3, <2>4
<1>2. ASSUME NEW l \in Launchers, LauncherStep(l) PROVE DaemonInv'
  BY <1>2, LaunchStep
<1>3. ASSUME NEW d \in Daemons, StarterStep(d) \/ ServeStep(d) \/ Stops(d) \/ Signalled(d) \/ DaemonKilled(d)
      PROVE  DaemonInv'
  BY <1>3, DaemonStep
<1>4. ASSUME NEW c \in Callers, PingTimesOut(c) PROVE DaemonInv'
  BY <1>4, TimeOutStep
<1> QED
  BY <1>1, <1>2, <1>3, <1>4 DEF DaemonNext

(* A task handed to the daemon, or run for want of one, is executed at     *)
(* most once, however many daemons come, stop, are killed or lose the path *)
(* to each other: forward_to_daemon never repeats what it has submitted.   *)
THEOREM TaskRunsOnce == DaemonSpec => []AtMostOnce
<1>1. DaemonInv => AtMostOnce
  BY DEF DaemonInv, RanBy, AtMostOnce
<1> QED
  BY <1>1, DaemonInvInit, DaemonInvNext, PTL DEF DaemonSpec

(* What is in a daemon's backlog is within it, and a socket is listened to *)
(* from the call to listen until the socket is closed.                     *)
Bounded(daemon) ==
  /\ Len(daemon.queue) <= Backlog
  /\ daemon.listens = (daemon.at \in {"serving", "stopping"})

LEMMA OffBounded ==
  ASSUME NEW place, place \notin {"serving", "stopping"}
  PROVE  Bounded(Off(place))
<1>1. Off(place).queue = <<>> /\ Off(place).listens = FALSE /\ Off(place).at = place
  BY DEF Off
<1>2. Len(Off(place).queue) <= Backlog
  <2>1. Len(<<>>) = 0 /\ 0 <= Backlog
    BY DaemonAssumption
  <2> QED
    BY ONLY <1>1, <2>1
<1>3. Off(place).listens = (Off(place).at \in {"serving", "stopping"})
  <2>1. (place \in {"serving", "stopping"}) = FALSE
    OBVIOUS
  <2> QED
    BY ONLY <1>1, <2>1, Zenon
<1> QED
  BY <1>2, <1>3 DEF Bounded

LEMMA BoundedNext ==
  ASSUME DaemonInv, \A d \in Daemons : Bounded(daemons[d]), [DaemonNext]_daemonVars
  PROVE  \A d \in Daemons : Bounded(daemons'[d])
<1> USE DaemonAssumption
<1> DEFINE Records == [at : Stages, listens : BOOLEAN, queue : Seq(Conns), serves : Conns]
<1>1. daemons \in [Daemons -> Records]
  BY DEF DaemonInv, Typed
<1>2. CASE UNCHANGED daemons
  BY <1>2
<1>3. ASSUME NEW d \in Daemons, NEW conn, Accepts(d), Enqueue(d, conn)
      PROVE  \A e \in Daemons : Bounded(daemons'[e])
  <2>1. /\ daemons'[d].queue = Append(daemons[d].queue, conn)
        /\ daemons'[d].at = daemons[d].at /\ daemons'[d].listens = daemons[d].listens
        /\ \A e \in Daemons \ {d} : daemons'[e] = daemons[e]
    BY <1>1, <1>3 DEF Enqueue
  <2>2. Len(daemons[d].queue) \in Nat /\ Len(daemons[d].queue) < Backlog
    BY <1>1, <1>3 DEF Accepts
  <2>3. Len(Append(daemons[d].queue, conn)) = Len(daemons[d].queue) + 1
    BY <1>1
  <2> QED
    BY <2>1, <2>2, <2>3 DEF Bounded
<1>4. ASSUME NEW d \in Daemons, NEW place \in Stages \ {"serving", "stopping"},
             daemons[d].at \notin {"serving", "stopping"}, daemons' = [daemons EXCEPT ![d].at = place]
      PROVE  \A e \in Daemons : Bounded(daemons'[e])
  <2>1. /\ daemons'[d].queue = daemons[d].queue /\ daemons'[d].at = place
        /\ daemons'[d].listens = daemons[d].listens
        /\ \A e \in Daemons \ {d} : daemons'[e] = daemons[e]
    BY <1>1, <1>4
  <2> QED
    BY <1>4, <2>1 DEF Bounded
<1>5. ASSUME NEW d \in Daemons, NEW place \in Stages \ {"serving", "stopping"}, Closed(d, place)
      PROVE  \A e \in Daemons : Bounded(daemons'[e])
  <2>1. daemons'[d] = Off(place) /\ \A e \in Daemons \ {d} : daemons'[e] = daemons[e]
    BY <1>1, <1>5 DEF Closed
  <2> QED
    BY <2>1, OffBounded
<1>6. ASSUME NEW d \in Daemons, Listens(d) PROVE \A e \in Daemons : Bounded(daemons'[e])
  <2>1. /\ daemons'[d].queue = daemons[d].queue /\ daemons'[d].at = "serving" /\ daemons'[d].listens = TRUE
        /\ \A e \in Daemons \ {d} : daemons'[e] = daemons[e]
    BY <1>1, <1>6 DEF Listens
  <2> QED
    BY <2>1 DEF Bounded
<1>7. ASSUME NEW d \in Daemons, Stops(d) PROVE \A e \in Daemons : Bounded(daemons'[e])
  <2>1. /\ daemons'[d].queue = daemons[d].queue /\ daemons'[d].at = "stopping" /\ daemons[d].at = "serving"
        /\ daemons'[d].listens = daemons[d].listens
        /\ \A e \in Daemons \ {d} : daemons'[e] = daemons[e]
    BY <1>1, <1>7 DEF Stops, Idle
  <2> QED
    BY <2>1 DEF Bounded
<1>8. ASSUME NEW d \in Daemons, TakesNext(d) PROVE \A e \in Daemons : Bounded(daemons'[e])
  <2>1. /\ daemons'[d].queue = Tail(daemons[d].queue) /\ daemons'[d].at = daemons[d].at
        /\ daemons'[d].listens = daemons[d].listens /\ daemons[d].queue # <<>>
        /\ \A e \in Daemons \ {d} : daemons'[e] = daemons[e]
    BY <1>1, <1>8 DEF TakesNext
  <2>2. daemons[d].queue \in Seq(Conns)
    BY <1>1
  <2>3. Len(Tail(daemons[d].queue)) = Len(daemons[d].queue) - 1 /\ Len(daemons[d].queue) \in Nat
    BY <2>1, <2>2
  <2>4. Len(daemons[d].queue) <= Backlog /\ daemons[d].listens = (daemons[d].at \in {"serving", "stopping"})
    BY DEF Bounded
  <2>5. Bounded(daemons'[d])
    BY <2>1, <2>3, <2>4 DEF Bounded
  <2> QED
    BY <2>1, <2>5
<1>9. ASSUME NEW d \in Daemons, AnswersConn(d) PROVE \A e \in Daemons : Bounded(daemons'[e])
  <2>1. /\ daemons'[d].queue = daemons[d].queue /\ daemons'[d].at = daemons[d].at
        /\ daemons'[d].listens = daemons[d].listens
        /\ \A e \in Daemons \ {d} : daemons'[e] = daemons[e]
    BY <1>1, <1>9 DEF AnswersConn
  <2> QED
    BY <2>1 DEF Bounded
<1>10. ASSUME NEW c \in Callers, PingTimesOut(c) PROVE \A e \in Daemons : Bounded(daemons'[e])
  <2> DEFINE Left(conn) == IF conn = Conn(c, "ping") THEN Conn(NoOne, "ping") ELSE conn
  <2> TAKE e \in Daemons
  <2> DEFINE row == [i \in DOMAIN daemons[e].queue |-> Left(daemons[e].queue[i])]
  <2>1. daemons'[e] = [daemons[e] EXCEPT !.queue = row, !.serves = Left(daemons[e].serves)]
    BY <1>10 DEF PingTimesOut
  <2>2. daemons[e] \in Records /\ daemons[e].queue \in Seq(Conns)
    BY <1>1
  <2>3. Len(row) = Len(daemons[e].queue)
    BY <2>2
  <2> HIDE DEF row, Left
  <2>4. /\ daemons'[e].queue = row /\ daemons'[e].at = daemons[e].at
        /\ daemons'[e].listens = daemons[e].listens
    BY <2>1, <2>2
  <2> QED
    BY <2>3, <2>4 DEF Bounded
<1>11. ASSUME NEW c \in Callers, Probes(c) \/ Forwards(c) PROVE \A e \in Daemons : Bounded(daemons'[e])
  <2>1. \/ UNCHANGED daemons
        \/ \E conn : Accepts(path) /\ Enqueue(path, conn)
    BY <1>11 DEF Probes, Forwards
  <2>2. Accepts(path) => path \in Daemons
    BY DEF Accepts, DaemonInv, Typed
  <2> QED
    BY <1>2, <1>3, <2>1, <2>2
<1>12. ASSUME NEW d \in Daemons, ClearsPath(d) \/ Binds(d) \/ UnlinksPath(d)
       PROVE  \A e \in Daemons : Bounded(daemons'[e])
  <2>1. /\ daemons[d].at \notin {"serving", "stopping"}
        /\ \E place \in Stages \ {"serving", "stopping"} : daemons' = [daemons EXCEPT ![d].at = place]
    BY <1>12 DEF ClearsPath, Binds, UnlinksPath, Stages
  <2> QED
    BY <1>4, <2>1
<1>13. ASSUME NEW d \in Daemons, ClosesSocket(d) \/ Signalled(d) \/ DaemonKilled(d)
       PROVE  \A e \in Daemons : Bounded(daemons'[e])
  <2>1. \E place \in Stages \ {"serving", "stopping"} : Closed(d, place)
    BY <1>13 DEF ClosesSocket, Signalled, DaemonKilled, Stages
  <2> QED
    BY <1>5, <2>1
<1>14. CASE \E l \in Launchers : LauncherStep(l)
  <2>1. PICK l \in Launchers : LauncherStep(l)
    BY <1>14
  <2>2. UNCHANGED daemons \/ Probes(l) \/ Forwards(l)
    BY <2>1 DEF LauncherStep, Unlinks, RunsItself, LosesPing, LosesRun
  <2> QED
    BY <1>2, <1>11, <2>2 DEF Callers
<1>15. CASE \E d \in Daemons : StarterStep(d) \/ ServeStep(d) \/ Stops(d) \/ Signalled(d) \/ DaemonKilled(d)
  <2>1. PICK d \in Daemons : StarterStep(d) \/ ServeStep(d) \/ Stops(d) \/ Signalled(d) \/ DaemonKilled(d)
    BY <1>15
  <2>2. \/ UNCHANGED daemons \/ Probes(d)
        \/ ClearsPath(d) \/ Binds(d) \/ UnlinksPath(d)
        \/ ClosesSocket(d) \/ Signalled(d) \/ DaemonKilled(d)
        \/ Listens(d) \/ Stops(d) \/ TakesNext(d) \/ AnswersConn(d)
    BY <2>1 DEF StarterStep, ServeStep, Unlinks, LosesPing, Declines
  <2> QED
    BY <1>2, <1>6, <1>7, <1>8, <1>9, <1>11, <1>12, <1>13, <2>2 DEF Callers
<1>16. CASE UNCHANGED daemonVars
  BY <1>2, <1>16 DEF daemonVars
<1> QED
  BY <1>10, <1>14, <1>15, <1>16 DEF DaemonNext

LEMMA BoundedEnough ==
  ASSUME DaemonInv, \A d \in Daemons : Bounded(daemons[d])
  PROVE  DaemonTypeOK
BY DEF DaemonInv, Typed, Stages, Bounded, DaemonTypeOK

(* The types, the backlog that is never exceeded, and the time a socket is *)
(* listened to, for any number of daemons and launchers.                   *)
THEOREM DaemonTypeCorrect == DaemonSpec => []DaemonTypeOK
<1> DEFINE DaemonBounded == \A d \in Daemons : Bounded(daemons[d])
<1>1. DaemonInit => DaemonInv /\ DaemonBounded
  <2>1. DaemonInit => DaemonBounded
    BY OffBounded DEF DaemonInit
  <2> QED
    BY <2>1, DaemonInvInit
<1>2. DaemonInv /\ DaemonBounded /\ [DaemonNext]_daemonVars => DaemonInv' /\ DaemonBounded'
  BY DaemonInvNext, BoundedNext
<1>3. DaemonInv /\ DaemonBounded => DaemonTypeOK
  BY BoundedEnough
<1> QED
  BY <1>1, <1>2, <1>3, PTL DEF DaemonSpec

-----------------------------------------------------------------------------
(***************************************************************************)
(* Kept, the filter a replay is built from, is defined by recursion; what  *)
(* it is is said of a function that counts up with it.                     *)
(***************************************************************************)
Keeps(f, s, set, N) ==
  /\ f[0] = <<>>
  /\ \A n \in 1 .. N : f[n] = IF s[n] \in set THEN Append(f[n - 1], s[n]) ELSE f[n - 1]

(* Two that count up over sequences of which the same elements are kept    *)
(* come to the same.                                                       *)
LEMMA KeepsTheSame ==
  ASSUME NEW N \in Nat, NEW s, NEW t, NEW set, NEW other, NEW f, NEW g,
         Keeps(f, s, set, N), Keeps(g, t, other, N),
         \A n \in 1 .. N : s[n] = t[n] /\ (s[n] \in set <=> t[n] \in other)
  PROVE  f[N] = g[N]
<1> DEFINE Differ == {n \in Nat : n <= N /\ f[n] # g[n]}
<1>1. ASSUME Differ # {} PROVE FALSE
  <2>1. PICK m \in Differ : \A n \in Differ : m <= n
    BY <1>1, LeastExists
  <2>2. m \in Nat /\ m <= N /\ f[m] # g[m]
    BY <2>1
  <2>3. m # 0
    BY <2>2 DEF Keeps
  <2>4. m - 1 \in Nat /\ m - 1 <= N /\ m \in 1 .. N
    BY <2>2, <2>3
  <2>5. m - 1 \notin Differ
    BY <2>1, <2>2
  <2>6. f[m - 1] = g[m - 1]
    BY <2>4, <2>5
  <2>7. /\ f[m] = IF s[m] \in set THEN Append(f[m - 1], s[m]) ELSE f[m - 1]
        /\ g[m] = IF t[m] \in other THEN Append(g[m - 1], t[m]) ELSE g[m - 1]
    BY <2>4 DEF Keeps
  <2>8. s[m] = t[m] /\ (s[m] \in set <=> t[m] \in other)
    BY <2>4
  <2> QED
    BY <2>2, <2>6, <2>7, <2>8
<1>2. N \notin Differ
  BY <1>1
<1> QED
  BY <1>2

LEMMA KeptExists ==
  ASSUME NEW S, NEW s \in Seq(S), NEW set, NEW N \in Nat, N <= Len(s)
  PROVE  \E f \in [0 .. N -> Seq(S \cap set)] : Keeps(f, s, set, N)
<1> DEFINE Upto(f, k) == f \in [0 .. k -> Seq(S \cap set)] /\ Keeps(f, s, set, k)
           Fails == {k \in Nat : k <= N /\ ~\E f : Upto(f, k)}
<1>1. ASSUME Fails # {} PROVE FALSE
  <2>1. PICK m \in Fails : \A n \in Fails : m <= n
    <3> HIDE DEF Fails
    <3> QED
      BY <1>1, LeastExists DEF Fails
  <2>2. m \in Nat /\ m <= N /\ ~\E f : Upto(f, m)
    BY <2>1
  <2>3. m # 0
    <3>1. Upto([n \in 0 .. 0 |-> <<>>], 0)
      BY DEF Keeps
    <3> QED
      BY <2>2, <3>1
  <2>4. m - 1 \in Nat /\ m - 1 <= N /\ m \in 1 .. Len(s)
    BY <2>2, <2>3
  <2>5. m - 1 \notin Fails
    <3> HIDE DEF Fails
    <3> QED
      BY <2>1, <2>2
  <2>6. PICK g : Upto(g, m - 1)
    BY <2>4, <2>5
  <2> DEFINE last == IF s[m] \in set THEN Append(g[m - 1], s[m]) ELSE g[m - 1]
             f == [n \in 0 .. m |-> IF n = m THEN last ELSE g[n]]
  <2>7. last \in Seq(S \cap set)
    <3>1. g[m - 1] \in Seq(S \cap set)
      BY <2>6, <2>4
    <3>2. s[m] \in S
      BY <2>4
    <3> QED
      BY <3>1, <3>2
  <2>8. f \in [0 .. m -> Seq(S \cap set)]
    BY <2>6, <2>7, <2>4
  <2>9. f[0] = <<>>
    BY <2>3, <2>4, <2>6 DEF Keeps
  <2>10. ASSUME NEW n \in 1 .. m PROVE f[n] = IF s[n] \in set THEN Append(f[n - 1], s[n]) ELSE f[n - 1]
    <3>1. CASE n = m
      BY <3>1, <2>4
    <3>2. CASE n # m
      <4>1. n \in 1 .. m - 1 /\ n - 1 \in 0 .. m - 1 /\ n - 1 # m /\ n \in 0 .. m /\ n - 1 \in 0 .. m
        BY <3>2, <2>4
      <4>2. f[n] = g[n] /\ f[n - 1] = g[n - 1]
        BY <3>2, <4>1
      <4> QED
        BY <4>1, <4>2, <2>6 DEF Keeps
    <3> QED
      BY <3>1, <3>2
  <2>11. Upto(f, m)
    BY <2>8, <2>9, <2>10 DEF Keeps
  <2> HIDE DEF Upto
  <2> QED
    BY <2>2, <2>11
<1>2. N \notin Fails
  BY <1>1
<1> QED
  BY <1>2

(* The definition has a function that counts up, and takes its last value. *)
LEMMA KeptCounts ==
  ASSUME NEW S, NEW s \in Seq(S), NEW set
  PROVE  \E f \in [0 .. Len(s) -> Seq(S \cap set)] : Keeps(f, s, set, Len(s)) /\ Kept(s, set) = f[Len(s)]
<1> DEFINE Step(f) == [n \in 0 .. Len(s) |->
             IF n = 0 THEN <<>> ELSE IF s[n] \in set THEN Append(f[n - 1], s[n]) ELSE f[n - 1]]
           upTo == CHOOSE f : f = Step(f)
<1>1. Len(s) \in Nat /\ Len(s) <= Len(s)
  OBVIOUS
<1> HIDE DEF upTo, Step
<1>2. PICK g \in [0 .. Len(s) -> Seq(S \cap set)] : Keeps(g, s, set, Len(s))
  BY <1>1, KeptExists
<1>3. g = Step(g)
  <2>1. \A n \in 0 .. Len(s) : n = 0 \/ n \in 1 .. Len(s)
    BY <1>1
  <2>2. \A n \in 0 .. Len(s) :
          g[n] = IF n = 0 THEN <<>> ELSE IF s[n] \in set THEN Append(g[n - 1], s[n]) ELSE g[n - 1]
    BY <2>1, <1>1, <1>2 DEF Keeps
  <2> QED
    BY <1>2, <2>2 DEF Step
<1>4. upTo = Step(upTo)
  BY <1>3 DEF upTo
<1>5. Kept(s, set) = upTo[Len(s)]
  BY DEF Kept, upTo, Step
<1>6. Keeps(upTo, s, set, Len(s))
  <2>1. \A n \in 0 .. Len(s) :
          upTo[n] = IF n = 0 THEN <<>> ELSE IF s[n] \in set THEN Append(upTo[n - 1], s[n]) ELSE upTo[n - 1]
    BY <1>4 DEF Step
  <2>2. 0 \in 0 .. Len(s) /\ \A n \in 1 .. Len(s) : n \in 0 .. Len(s) /\ n # 0
    BY <1>1
  <2> QED
    BY <2>1, <2>2 DEF Keeps
<1>7. \A n \in 0 .. Len(s) : upTo[n] = g[n]
  <2> TAKE n \in 0 .. Len(s)
  <2>1. n \in Nat /\ Keeps(g, s, set, n) /\ Keeps(upTo, s, set, n)
    BY <1>1, <1>2, <1>6 DEF Keeps
  <2> QED
    BY <2>1, KeepsTheSame
<1>9. upTo \in [0 .. Len(s) -> Seq(S \cap set)]
  <2>1. upTo = [n \in 0 .. Len(s) |-> upTo[n]]
    BY <1>4 DEF Step
  <2> QED
    BY <2>1, <1>7
<1> QED
  BY <1>5, <1>6, <1>9

LEMMA KeptTyped ==
  ASSUME NEW S, NEW s \in Seq(S), NEW set
  PROVE  Kept(s, set) \in Seq(S \cap set)
BY KeptCounts

LEMMA KeptEmpty == ASSUME NEW set PROVE Kept(<<>>, set) = <<>>
<1>1. <<>> \in Seq({}) /\ Len(<<>>) = 0
  OBVIOUS
<1>2. PICK f : Keeps(f, <<>>, set, Len(<<>>)) /\ Kept(<<>>, set) = f[Len(<<>>)]
  BY <1>1, KeptCounts
<1> QED
  BY <1>1, <1>2 DEF Keeps

LEMMA KeptNone ==
  ASSUME NEW S, NEW s \in Seq(S)
  PROVE  Kept(s, {}) = <<>>
<1>1. Kept(s, {}) \in Seq(S \cap {})
  BY KeptTyped
<1>2. \A q \in Seq(S \cap {}) : q = <<>>
  OBVIOUS
<1> QED
  BY <1>1, <1>2

LEMMA KeptSame ==
  ASSUME NEW S, NEW s \in Seq(S), NEW set, NEW other,
         \A n \in 1 .. Len(s) : s[n] \in set <=> s[n] \in other
  PROVE  Kept(s, set) = Kept(s, other)
<1>1. Len(s) \in Nat
  OBVIOUS
<1>2. PICK f : Keeps(f, s, set, Len(s)) /\ Kept(s, set) = f[Len(s)]
  BY KeptCounts
<1>3. PICK g : Keeps(g, s, other, Len(s)) /\ Kept(s, other) = g[Len(s)]
  BY KeptCounts
<1> QED
  BY <1>1, <1>2, <1>3, KeepsTheSame

LEMMA KeptAppend ==
  ASSUME NEW S, NEW s \in Seq(S), NEW x \in S, NEW set, NEW old,
         \A n \in 1 .. Len(s) : s[n] \in set <=> s[n] \in old
  PROVE  Kept(Append(s, x), set) = IF x \in set THEN Append(Kept(s, old), x) ELSE Kept(s, old)
<1> DEFINE more == Append(s, x)
<1>1. /\ more \in Seq(S) /\ Len(s) \in Nat /\ Len(more) = Len(s) + 1 /\ more[Len(s) + 1] = x
      /\ \A n \in 1 .. Len(s) : more[n] = s[n]
  OBVIOUS
<1> HIDE DEF more
<1>2. PICK f : Keeps(f, more, set, Len(more)) /\ Kept(more, set) = f[Len(more)]
  BY <1>1, KeptCounts
<1>3. PICK g : Keeps(g, s, old, Len(s)) /\ Kept(s, old) = g[Len(s)]
  BY KeptCounts
<1>4. f[Len(s)] = g[Len(s)]
  <2>1. Keeps(f, more, set, Len(s))
    BY <1>1, <1>2 DEF Keeps
  <2>2. \A n \in 1 .. Len(s) : more[n] = s[n] /\ (more[n] \in set <=> s[n] \in old)
    BY <1>1
  <2> QED
    BY <1>1, <1>2, <1>3, <2>1, <2>2, KeepsTheSame
<1>5. f[Len(s) + 1] = IF x \in set THEN Append(f[Len(s)], x) ELSE f[Len(s)]
  <2>1. Len(s) + 1 \in 1 .. Len(more) /\ (Len(s) + 1) - 1 = Len(s)
    BY <1>1
  <2> QED
    BY <1>1, <1>2, <2>1 DEF Keeps
<1>6. Kept(more, set) = IF x \in set THEN Append(Kept(s, old), x) ELSE Kept(s, old)
  BY <1>1, <1>2, <1>3, <1>4, <1>5
<1> QED
  BY <1>6 DEF more

-----------------------------------------------------------------------------
(***************************************************************************)
(* The run a process is on was begun in that process, or has moved; what   *)
(* one process writes, it numbers upwards; and an edit is open exactly     *)
(* when the last word on it in the log is its beginning.                   *)
(***************************************************************************)
EditKinds == {"edit_begin", "edit_end"}
Whens == 1 .. Len(log)

Living ==
  /\ up => processes > 0
  /\ processes = 0 => log = <<>>
  /\ edit # 0 => running
  /\ running => run # 0
  /\ run # 0 => up /\ (run \in movedOn \/ born[run].process = processes)
  /\ \A r \in Runs : born[r].process <= processes

Carried ==
  \A i \in Whens :
    /\ log[i].kind = "tool_result" => log[i].run = 0 /\ log[i].what \in Turns
    /\ log[i].kind \in EditKinds => log[i].run # 0

Numbered ==
  \A r \in Runs : \A b \in Begins(r) :
    /\ \A c \in Begins(r) : c = b
    /\ born[r].process = processes => log[b].seq < nextSeq

Oldest ==
  processes = 1 =>
    /\ \A i \in Whens : log[i].seq < nextSeq
    /\ \A r \in Runs : \A b \in Begins(r) : \A i \in Whens :
         log[i].kind = "tool_result" /\ log[i].seq >= log[b].seq => log[i].what > born[r].after

(* Of a run that never moved, as long as its beginning is in the log: each *)
(* of its open edits was the last the log heard of, and each other one     *)
(* ended.                                                                  *)
LastHeard(r, k) ==
  \E i \in Whens :
    /\ log[i].kind = "edit_begin" /\ log[i].run = r /\ log[i].what = k
    /\ \A j \in i + 1 .. Len(log) : log[j].kind \in EditKinds => log[j].run # r
Ended(r, i) ==
  \E j \in i + 1 .. Len(log) : log[j].kind = "edit_end" /\ log[j].run = r /\ log[j].what = log[i].what

EditsOf(r, b) ==
  /\ \A i \in Whens : log[i].kind \in EditKinds /\ log[i].run = r => log[i].seq >= log[b].seq
  /\ \A k \in 1 .. edits : <<r, k>> \in openEdits => LastHeard(r, k)
  /\ \A i \in Whens : log[i].kind = "edit_begin" /\ log[i].run = r /\ <<r, log[i].what>> \notin openEdits =>
       Ended(r, i)

EditsLogged == \A r \in Runs \ movedOn : \A b \in Begins(r) : EditsOf(r, b)

OneOpen ==
  run # 0 /\ run \notin movedOn => \A k \in 1 .. edits : <<run, k>> \in openEdits => k = edit

LogInv ==
  TypeOK /\ Living /\ Carried /\ Numbered /\ Oldest /\ ReplayKeepsOwnTurns /\ EditsLogged /\ OneOpen

(* Where a run's replay starts.                                            *)
LEMMA BeginIs ==
  ASSUME Numbered, NEW r \in Runs, NEW b \in Begins(r)
  PROVE  BeginOf(r) = log[b]
BY DEF BeginOf, Numbered, Begins

LEMMA GuardIsExact == LogInv => EditGuardAtHome
<1> SUFFICES ASSUME LogInv, NEW r \in Runs \ movedOn, Rebuildable(r)
             PROVE  EditInFlight(r) <=> \E k \in 1 .. edits : <<r, k>> \in openEdits
  BY DEF EditGuardAtHome
<1> USE DEF LogInv
<1>1. PICK b \in Begins(r) : TRUE
  BY DEF Rebuildable
<1>2. BeginOf(r) = log[b]
  BY <1>1, BeginIs
<1>3. r # 0 /\ r \in Runs
  BY DEF TypeOK, Runs
<1>4. \A i \in Whens : log[i].kind \in EditKinds => (Replays(log[i], r) <=> log[i].run = r)
  BY <1>1, <1>2 DEF Replays, MatchesRun, Carried, EditsLogged, EditsOf
<1>5. Len(log) \in Nat
  BY DEF TypeOK
<1>6. ASSUME EditInFlight(r) PROVE \E k \in 1 .. edits : <<r, k>> \in openEdits
  <2>1. PICK i \in Whens :
          /\ log[i].kind = "edit_begin" /\ Replays(log[i], r)
          /\ \A j \in i + 1 .. Len(log) :
               Replays(log[j], r) =>
                 /\ log[j].kind # "edit_begin"
                 /\ log[j].kind = "edit_end" => log[j].what # log[i].what
    BY <1>6 DEF EditInFlight, Whens
  <2>2. log[i].run = r /\ log[i].kind = "edit_begin"
    BY <2>1, <1>4 DEF EditKinds
  <2>3. ~Ended(r, i)
    <3> SUFFICES ASSUME NEW j \in i + 1 .. Len(log), log[j].kind = "edit_end", log[j].run = r PROVE log[j].what # log[i].what
      BY DEF Ended
    <3>1. j \in Whens
      BY <1>5 DEF Whens
    <3> QED
      BY <3>1, <2>1, <1>4 DEF EditKinds
  <2>4. <<r, log[i].what>> \in openEdits
    BY <2>2, <2>3, <1>1 DEF EditsLogged, EditsOf
  <2>5. log[i].what \in 1 .. edits
    BY <2>4 DEF TypeOK
  <2> QED
    BY <2>4, <2>5
<1>7. ASSUME NEW k \in 1 .. edits, <<r, k>> \in openEdits PROVE EditInFlight(r)
  <2>1. LastHeard(r, k)
    BY <1>1, <1>7 DEF EditsLogged, EditsOf
  <2>2. PICK i \in Whens :
          /\ log[i].kind = "edit_begin" /\ log[i].run = r
          /\ \A j \in i + 1 .. Len(log) : log[j].kind \in EditKinds => log[j].run # r
    BY <2>1 DEF LastHeard
  <2>3. Replays(log[i], r)
    BY <2>2, <1>4 DEF EditKinds
  <2>4. \A j \in i + 1 .. Len(log) : Replays(log[j], r) => log[j].kind \notin EditKinds
    <3> TAKE j \in i + 1 .. Len(log)
    <3>1. j \in Whens
      BY <1>5 DEF Whens
    <3> QED
      BY <3>1, <2>2, <1>4
  <2> QED
    BY <2>2, <2>3, <2>4 DEF EditInFlight, EditKinds, Whens
<1> QED
  BY <1>6, <1>7

(* What a replay finds are the numbers of turns whose results it took.     *)
LEMMA RebuiltTyped ==
  ASSUME log \in Seq(Events), NEW r, NEW T,
         \A i \in Whens : log[i].kind = "tool_result" /\ Replays(log[i], r) => log[i].what \in T
  PROVE  RebuiltTurns(r) \in Seq(T)
<1> DEFINE found == {e \in Range(log) : e.kind = "tool_result" /\ Replays(e, r)}
           results == Kept(log, found)
<1>1. results \in Seq(Events \cap found)
  BY KeptTyped
<1>2. \A e \in found : e.what \in T
  BY DEF Range, Whens
<1> HIDE DEF found
<1>3. Len(results) \in Nat /\ \A i \in 1 .. Len(results) : results[i].what \in T
  BY <1>1, <1>2
<1> HIDE DEF results
<1>4. RebuiltTurns(r) = [i \in 1 .. Len(results) |-> results[i].what]
  BY DEF RebuiltTurns, results, found
<1> QED
  BY <1>3, <1>4

LEMMA TurnsTyped ==
  ASSUME LogInv, NEW r \in Runs, Rebuildable(r)
  PROVE  /\ RebuiltTurns(r) \in Seq(Turns)
         /\ processes = 1 => RebuiltTurns(r) \in Seq({t \in Turns : t > born[r].after})
<1> USE DEF LogInv
<1>1. PICK b \in Begins(r) : TRUE
  BY DEF Rebuildable
<1>2. BeginOf(r) = log[b]
  BY <1>1, BeginIs
<1>3. log \in Seq(Events)
  BY DEF TypeOK
<1>4. RebuiltTurns(r) \in Seq(Turns)
  BY <1>3, RebuiltTyped DEF Carried
<1>5. ASSUME processes = 1 PROVE RebuiltTurns(r) \in Seq({t \in Turns : t > born[r].after})
  <2>1. \A i \in Whens : log[i].kind = "tool_result" /\ Replays(log[i], r) => log[i].what \in {t \in Turns : t > born[r].after}
    BY <1>1, <1>2, <1>5 DEF Oldest, Carried, Replays
  <2> QED
    BY <1>3, <2>1, RebuiltTyped
<1> QED
  BY <1>4, <1>5

LEMMA LogInvEnough == LogInv => ReplayIsFaithful
<1> SUFFICES ASSUME LogInv, processes = 1, NEW r \in Runs, Rebuildable(r), NEW i \in 1 .. Len(RebuiltTurns(r))
             PROVE  RebuiltTurns(r)[i] > born[r].after
  BY DEF LogInv, ReplayIsFaithful, NoOlderTurns
<1>1. RebuiltTurns(r) \in Seq({t \in Turns : t > born[r].after})
  BY TurnsTyped
<1> QED
  BY <1>1

LEMMA LogInvInit == Init => LogInv
<1> SUFFICES ASSUME Init PROVE LogInv
  OBVIOUS
<1>1. Len(<<>>) = 0 /\ \A S : <<>> \in Seq(S)
  OBVIOUS
<1>2. Runs = {} /\ Turns = {} /\ Whens = {}
  BY <1>1 DEF Init, Runs, Turns, Whens
<1>3. TypeOK
  <2>1. born \in [Runs -> [process : 1 .. MaxProcesses, after : 0 .. Len(owner)]]
    BY <1>2 DEF Init
  <2>2. <<>> \in Seq(Events) /\ <<>> \in Seq(Turns) /\ <<>> \in Seq(Runs)
    BY <1>1
  <2>3. nextSeq \in 1 .. MaxEvents + 1 /\ processes \in 0 .. MaxProcesses /\ runs \in 0 .. MaxRuns
    BY LogBounds DEF Init
  <2>4. run \in 0 .. runs /\ edit \in 0 .. edits /\ edits \in Nat
    BY DEF Init
  <2> HIDE DEF Events
  <2> QED
    BY <2>1, <2>2, <2>3, <2>4 DEF Init, TypeOK
<1> QED
  BY <1>2, <1>3 DEF Init, LogInv, Living, Carried, Numbered, Oldest, ReplayKeepsOwnTurns, EditsLogged, OneOpen

-----------------------------------------------------------------------------
(***************************************************************************)
(* What an event does to the log.                                          *)
(***************************************************************************)
Grows(e) == log' = Append(log, e)
Rotates(e) == log' = <<e>>

LEMMA EventLogged ==
  ASSUME TypeOK, NEW kind, NEW carries, NEW what, LogAppend(kind, carries, what)
  PROVE  /\ nextSeq' = nextSeq + 1 /\ nextSeq <= MaxEvents
         /\ Grows(Event(kind, carries, what)) \/ Rotates(Event(kind, carries, what))
BY DEF LogAppend, Grows, Rotates

LEMMA GrownLog ==
  ASSUME NEW S, log \in Seq(S), NEW e \in S, Grows(e)
  PROVE  /\ log' \in Seq(S) /\ Len(log) \in Nat /\ Len(log') = Len(log) + 1
         /\ log'[Len(log) + 1] = e
         /\ \A i \in Whens : log'[i] = log[i]
         /\ Whens' = Whens \union {Len(log) + 1} /\ Len(log) + 1 \notin Whens
BY DEF Grows, Whens

LEMMA RotatedLog ==
  ASSUME NEW S, NEW e \in S, Rotates(e)
  PROVE  log' \in Seq(S) /\ Len(log') = 1 /\ log'[1] = e /\ Whens' = {1}
BY DEF Rotates, Whens

(* Each step is one of these, and what it leaves alone stays.              *)
Silent ==
  \/ UNCHANGED vars
  \/ StartProcess
  \/ Dies
  \/ FollowUp

Mentions ==
  \/ EndRun
  \/ Trace
  \/ \E r \in Runs : Resume(r)

LEMMA LogSteps ==
  ASSUME [Next]_vars
  PROVE  Silent \/ Mentions \/ BeginRun \/ ToolTurn \/ EditBegins \/ EditEnds
BY DEF Next, Silent, Mentions, Runs

LEMMA SilentFrame ==
  ASSUME Silent
  PROVE  UNCHANGED <<log, runs, edits, owner, openEdits, born, movedOn>>
BY DEF Silent, vars, writer, session, history, StartProcess, Dies, FollowUp

LEMMA MentionsFrame ==
  ASSUME Mentions
  PROVE  /\ UNCHANGED <<up, processes, edit, runs, edits, owner, openEdits, born>>
         /\ movedOn \subseteq movedOn'
         /\ \E c \in Runs \union {0} : LogAppend("other", c, 0)
BY DEF Mentions, EndRun, Trace, Resume, session, history

LEMMA WriterTyped ==
  ASSUME TypeOK, NEW kind \in Kinds, NEW carries, NEW what, LogAppend(kind, carries, what),
         runs' \in Nat, runs <= runs', Len(owner') \in Nat, edits' \in Nat,
         Len(owner) + edits <= Len(owner') + edits',
         carries \in 0 .. runs', what \in 0 .. Len(owner') + edits'
  PROVE  /\ log' \in Seq(Events') /\ log \in Seq(Events') /\ nextSeq' \in 1 .. MaxEvents + 1
         /\ Event(kind, carries, what) \in Events'
<1> DEFINE e == Event(kind, carries, what)
<1>1. Len(owner) \in Nat /\ edits \in Nat /\ runs \in Nat /\ nextSeq \in Nat
  BY LogBounds DEF TypeOK
<1>2. e \in Events'
  BY <1>1 DEF Event, Events
<1>3. Events \subseteq Events'
  BY <1>1 DEF Events
<1> HIDE DEF e
<1>4. log \in Seq(Events')
  <2> HIDE DEF Events
  <2> QED
    BY <1>3 DEF TypeOK
<1>5. log' \in Seq(Events')
  <2>1. log' = Append(log, e) \/ log' = <<e>>
    BY DEF LogAppend, e
  <2>2. \A S : e \in S /\ log \in Seq(S) => Append(log, e) \in Seq(S) /\ <<e>> \in Seq(S)
    OBVIOUS
  <2> HIDE DEF Events
  <2> QED
    BY <1>2, <1>4, <2>1, <2>2
<1>6. nextSeq' \in 1 .. MaxEvents + 1
  BY <1>1, LogBounds DEF LogAppend, TypeOK
<1> QED
  BY <1>2, <1>4, <1>5, <1>6 DEF e

LEMMA LogTyped ==
  ASSUME LogInv, [Next]_vars
  PROVE  TypeOK'
<1> USE LogBounds DEF LogInv, Runs, Turns
<1>1. Len(owner) \in Nat /\ edits \in Nat /\ runs \in Nat
  BY DEF TypeOK
<1>2. CASE Silent
  <2>1. Events' = Events
    BY <1>2, SilentFrame DEF Events
  <2> HIDE DEF Events
  <2>2. UNCHANGED <<log, runs, edits, owner, openEdits, born, movedOn>>
    BY <1>2, SilentFrame
  <2>3. nextSeq' \in 1 .. MaxEvents + 1 /\ up' \in BOOLEAN /\ processes' \in 0 .. MaxProcesses
    <3>1. nextSeq' = nextSeq \/ nextSeq' = 1
      BY <1>2 DEF Silent, vars, writer, StartProcess, FirstSeq, Dies, FollowUp
    <3>2. processes' = processes \/ (processes' = processes + 1 /\ processes < MaxProcesses)
      BY <1>2 DEF Silent, vars, StartProcess, Dies, FollowUp
    <3>3. up' = up \/ up' = TRUE \/ up' = FALSE
      BY <1>2 DEF Silent, vars, StartProcess, Dies, FollowUp
    <3>4. nextSeq \in 1 .. MaxEvents + 1 /\ up \in BOOLEAN /\ processes \in 0 .. MaxProcesses
      BY DEF TypeOK
    <3>5. up' \in BOOLEAN
      BY Zenon, <3>3, <3>4
    <3> QED
      BY <3>1, <3>2, <3>4, <3>5
  <2>4. (run' = run \/ run' = 0) /\ (turns' = turns \/ turns' = <<>>) /\ (edit' = edit \/ edit' = 0)
    BY <1>2 DEF Silent, vars, session, StartProcess, Dies, FollowUp
  <2>5. running' \in BOOLEAN
    BY <1>2 DEF TypeOK, Silent, vars, session, StartProcess, Dies, FollowUp
  <2>6. run' \in 0 .. runs /\ edit' \in 0 .. edits /\ turns' \in Seq(Turns)
    <3>1. <<>> \in Seq(Turns)
      OBVIOUS
    <3>2. run \in 0 .. runs /\ edit \in 0 .. edits /\ turns \in Seq(Turns)
      BY DEF TypeOK
    <3>3. turns' \in Seq(Turns)
      BY Zenon, <2>4, <3>1, <3>2
    <3>4. 0 \in 0 .. runs /\ 0 \in 0 .. edits
      BY <1>1
    <3>5. run' \in 0 .. runs /\ edit' \in 0 .. edits
      BY Zenon, <2>4, <3>2, <3>4
    <3> QED
      BY <3>3, <3>5
  <2> QED
    BY <2>1, <2>2, <2>3, <2>5, <2>6 DEF TypeOK
<1>3. CASE Mentions
  <2>1. /\ UNCHANGED <<up, processes, edit, runs, edits, owner, openEdits, born>>
        /\ \E c \in Runs \union {0} : LogAppend("other", c, 0)
    BY <1>3, MentionsFrame
  <2>2. log' \in Seq(Events') /\ nextSeq' \in 1 .. MaxEvents + 1
    BY <1>1, <2>1, WriterTyped DEF Kinds
  <2>3. run' \in 0 .. runs /\ turns' \in Seq(Turns) /\ running' \in BOOLEAN /\ movedOn' \subseteq Runs
    <3>1. CASE EndRun \/ Trace
      BY <3>1 DEF EndRun, Trace, session, history, TypeOK
    <3>2. ASSUME NEW r \in Runs, Resume(r) PROVE run' \in 0 .. runs /\ turns' \in Seq(Turns) /\ running' \in BOOLEAN /\ movedOn' \subseteq Runs
      <4>1. turns' \in Seq(Turns)
        BY <3>2, TurnsTyped DEF Resume
      <4> QED
        BY <1>1, <3>2, <4>1 DEF Resume, TypeOK
    <3> QED
      BY <1>3, <3>1, <3>2 DEF Mentions
  <2> HIDE DEF Events
  <2> QED
    BY <2>1, <2>2, <2>3 DEF TypeOK
<1>4. CASE BeginRun
  <2>1. UNCHANGED <<up, processes, edit, edits, owner, openEdits, movedOn>> /\ runs' = runs + 1 /\ runs < MaxRuns
    BY <1>4 DEF BeginRun
  <2>2. log' \in Seq(Events') /\ nextSeq' \in 1 .. MaxEvents + 1
    BY <1>1, <1>4, <2>1, WriterTyped DEF BeginRun, Kinds
  <2>3. born' \in [1 .. runs + 1 -> [process : 1 .. MaxProcesses, after : 0 .. Len(owner)]]
    <3> DEFINE birth == [process |-> processes, after |-> Len(owner)]
               Births == [process : 1 .. MaxProcesses, after : 0 .. Len(owner)]
    <3>1. birth \in Births
      BY <1>1, <1>4 DEF TypeOK, Living, BeginRun
    <3>2. born \in [1 .. runs -> Births] /\ born' = Append(born, birth)
      BY <1>4 DEF TypeOK, BeginRun
    <3> HIDE DEF birth, Births
    <3>3. born \in Seq(Births) /\ Len(born) = runs
      BY <1>1, <3>2, SeqDef
    <3>4. Append(born, birth) \in Seq(Births) /\ Len(Append(born, birth)) = runs + 1
      BY <3>1, <3>3, AppendProperties
    <3>5. Append(born, birth) \in [1 .. runs + 1 -> Births]
      BY <3>4, LenProperties
    <3> QED
      BY <3>2, <3>5 DEF Births
  <2>4. <<>> \in Seq(Turns)
    OBVIOUS
  <2>5. owner \in Seq(1 .. runs + 1) /\ openEdits \subseteq (1 .. runs + 1) \X (1 .. edits)
    BY <1>1 DEF TypeOK
  <2> HIDE DEF Events
  <2>6. run' \in 0 .. runs' /\ turns' = <<>> /\ running' = TRUE
    BY <1>1, <1>4 DEF BeginRun
  <2> QED
    BY <1>1, <2>1, <2>2, <2>3, <2>4, <2>5, <2>6 DEF TypeOK
<1>5. CASE ToolTurn
  <2>1. /\ UNCHANGED <<up, processes, run, running, edit, runs, edits, openEdits, born, movedOn>>
        /\ owner' = Append(owner, run) /\ turns' = Append(turns, Len(owner) + 1)
    BY <1>5 DEF ToolTurn
  <2>2. run \in Runs
    BY <1>1, <1>5 DEF ToolTurn, Living, TypeOK
  <2>3. owner' \in Seq(Runs) /\ Len(owner') = Len(owner) + 1
    <3>1. owner \in Seq(Runs)
      BY DEF TypeOK
    <3> HIDE DEF Runs
    <3> QED
      BY <2>1, <2>2, <3>1
  <2>4. log' \in Seq(Events') /\ nextSeq' \in 1 .. MaxEvents + 1
    <3>1. LogAppend("tool_result", 0, Len(owner) + 1) /\ "tool_result" \in Kinds
      BY <1>5 DEF ToolTurn, Kinds
    <3>2. runs' = runs /\ Len(owner') \in Nat /\ edits' \in Nat /\ Len(owner) + edits <= Len(owner') + edits'
      BY <1>1, <2>1, <2>3
    <3>3. 0 \in 0 .. runs' /\ Len(owner) + 1 \in 0 .. Len(owner') + edits'
      BY <1>1, <2>1, <2>3
    <3> QED
      BY <1>1, <3>1, <3>2, <3>3, WriterTyped
  <2>5. turns' \in Seq(Turns')
    <3>1. turns \in Seq(1 .. Len(owner) + 1)
      BY <1>1 DEF TypeOK
    <3>2. Len(owner) + 1 \in 1 .. Len(owner) + 1
      BY <1>1
    <3> QED
      BY <2>1, <2>3, <3>1, <3>2
  <2>6. born \in [Runs -> [process : 1 .. MaxProcesses, after : 0 .. Len(owner) + 1]]
    BY <1>1 DEF TypeOK
  <2> HIDE DEF Events
  <2> QED
    BY <2>1, <2>3, <2>4, <2>5, <2>6 DEF TypeOK
<1>6. CASE EditBegins
  <2>1. /\ UNCHANGED <<up, processes, run, turns, running, runs, owner, born, movedOn>>
        /\ edits' = edits + 1 /\ edit' = edits + 1 /\ openEdits' = openEdits \union {<<run, edits + 1>>}
    BY <1>6 DEF EditBegins
  <2>2. run \in Runs
    BY <1>1, <1>6 DEF EditBegins, Living, TypeOK
  <2>3. log' \in Seq(Events') /\ nextSeq' \in 1 .. MaxEvents + 1
    BY <1>1, <1>6, <2>1, <2>2, WriterTyped DEF EditBegins, Kinds
  <2>4. openEdits' \subseteq Runs \X (1 .. edits + 1)
    BY SMTT(30), <1>1, <2>1, <2>2 DEF TypeOK
  <2> HIDE DEF Events
  <2> QED
    BY SMTT(30), <1>1, <2>1, <2>3, <2>4 DEF TypeOK
<1>7. CASE EditEnds
  <2>1. /\ UNCHANGED <<up, processes, run, turns, running, runs, edits, owner, born, movedOn>>
        /\ edit' = 0 /\ openEdits' = openEdits \ {<<run, edit>>}
    BY <1>7 DEF EditEnds
  <2>2. log' \in Seq(Events') /\ nextSeq' \in 1 .. MaxEvents + 1
    <3>1. LogAppend("edit_end", run, edit) /\ "edit_end" \in Kinds
      BY <1>7 DEF EditEnds, Kinds
    <3>2. run \in 0 .. runs' /\ edit \in 0 .. Len(owner') + edits'
      BY <1>1, <2>1 DEF TypeOK
    <3> QED
      BY <1>1, <2>1, <3>1, <3>2, WriterTyped
  <2> HIDE DEF Events
  <2> QED
    BY <1>1, <2>1, <2>2 DEF TypeOK
<1> QED
  BY <1>2, <1>3, <1>4, <1>5, <1>6, <1>7, LogSteps

(* An event becomes the last of the log, or all of it.                     *)
Gains(e) ==
  \/ /\ Len(log') = Len(log) + 1 /\ Whens' = Whens \union {Len(log) + 1} /\ Len(log) + 1 \notin Whens
     /\ \A i \in Whens : log'[i] = log[i]
     /\ log'[Len(log) + 1] = e
  \/ Len(log') = 1 /\ Whens' = {1} /\ log'[1] = e

LEMMA Gained ==
  ASSUME TypeOK, NEW kind, NEW carries, NEW what, LogAppend(kind, carries, what)
  PROVE  Gains(Event(kind, carries, what)) /\ nextSeq' = nextSeq + 1 /\ nextSeq \in Nat
<1> DEFINE e == Event(kind, carries, what)
           S == Events \union {e}
<1>1. log \in Seq(S) /\ e \in S
  <2> HIDE DEF Events, e
  <2> QED
    BY DEF TypeOK
<1>2. nextSeq \in Nat
  BY LogBounds DEF TypeOK
<1> HIDE DEF S, e
<1>3. Grows(e) \/ Rotates(e)
  BY EventLogged DEF e
<1>4. Gains(e)
  BY <1>1, <1>3, GrownLog, RotatedLog DEF Gains
<1> QED
  BY <1>2, <1>4, EventLogged DEF e

LEMMA RunBorn ==
  ASSUME LogInv, BeginRun
  PROVE  /\ Runs' = Runs \union {runs + 1} /\ runs + 1 \notin Runs /\ runs + 1 # 0
         /\ \A r \in Runs : born'[r] = born[r]
         /\ born'[runs + 1] = [process |-> processes, after |-> Len(owner)]
<1> USE DEF LogInv, Runs
<1>1. runs \in Nat
  BY LogBounds DEF TypeOK
<1> DEFINE birth == [process |-> processes, after |-> Len(owner)]
           Births == [process : 1 .. MaxProcesses, after : 0 .. Len(owner)]
<1>2. born \in [1 .. runs -> Births \union {birth}]
  <2> HIDE DEF birth, Births
  <2>1. born \in [1 .. runs -> Births]
    BY DEF TypeOK, Births
  <2> QED
    BY <2>1
<1>3. born' = Append(born, birth) /\ runs' = runs + 1
  BY DEF BeginRun
<1> HIDE DEF birth, Births
<1>4. born \in Seq(Births \union {birth}) /\ Len(born) = runs
  BY <1>1, <1>2, SeqDef
<1>5. (\A r \in Runs : born'[r] = born[r]) /\ born'[runs + 1] = birth
  <2> DEFINE S == Births \union {birth}
  <2>1. born \in Seq(S) /\ birth \in S
    BY <1>4
  <2> HIDE DEF S
  <2>2. /\ \A r \in 1 .. Len(born) : Append(born, birth)[r] = born[r]
        /\ Append(born, birth)[Len(born) + 1] = birth
    BY <2>1, AppendProperties
  <2> QED
    BY <1>3, <1>4, <2>2
<1>6. Runs' = Runs \union {runs + 1} /\ runs + 1 \notin Runs /\ runs + 1 # 0
  BY <1>1, <1>3
<1> HIDE DEF Runs
<1> QED
  BY <1>5, <1>6 DEF birth

LEMMA LivingNext ==
  ASSUME LogInv, [Next]_vars
  PROVE  Living'
<1> USE DEF LogInv
<1>1. processes \in Nat /\ Runs = 1 .. runs /\ runs \in Nat
  BY LogBounds DEF TypeOK, Runs
<1>2. CASE Silent
  <2>1. UNCHANGED <<log, runs, edits, owner, openEdits, born, movedOn>> /\ Runs' = Runs
    BY <1>2, SilentFrame DEF Runs
  <2>2. CASE UNCHANGED vars \/ Dies \/ FollowUp
    BY <2>1, <2>2 DEF vars, writer, session, Dies, FollowUp, Living
  <2>3. CASE StartProcess
    <3>1. ~up /\ processes' = processes + 1 /\ UNCHANGED <<run, running, edit>>
      BY <2>3 DEF StartProcess, session
    <3>2. \A r \in Runs : born[r].process <= processes + 1
      <4> SUFFICES ASSUME NEW r \in Runs PROVE born[r].process <= processes + 1
        OBVIOUS
      <4>1. born[r] \in [process : 1 .. MaxProcesses, after : 0 .. Len(owner)]
        BY DEF TypeOK
      <4>2. born[r].process \in Nat
        BY <4>1
      <4> QED
        BY <1>1, <4>2 DEF Living
    <3> QED
      BY <1>1, <2>1, <3>1, <3>2 DEF Living
  <2> QED
    BY <1>2, <2>2, <2>3 DEF Silent
<1>3. CASE Mentions
  <2>1. UNCHANGED <<up, processes, edit, runs, born>> /\ movedOn \subseteq movedOn' /\ Runs' = Runs
    BY <1>3, MentionsFrame DEF Runs
  <2>2. CASE EndRun \/ Trace
    BY <1>1, <2>1, <2>2 DEF EndRun, Trace, session, Living
  <2>3. ASSUME NEW r \in Runs, Resume(r) PROVE Living'
    <3>1. up /\ running' = running /\ run' = r /\ edit = 0 /\ ~running /\ r # 0
      BY <1>1, <2>3 DEF Resume, Living
    <3>2. r \in movedOn' \/ born[r].process = processes
      BY <2>3 DEF Resume
    <3> QED
      BY <1>1, <2>1, <3>1, <3>2 DEF Living
  <2> QED
    BY <1>3, <2>2, <2>3 DEF Mentions
<1>4. CASE BeginRun
  <2>1. up /\ run' = runs + 1 /\ UNCHANGED <<up, processes, edit, movedOn>> /\ running' = TRUE
    BY <1>4 DEF BeginRun
  <2> QED
    BY <1>1, <1>4, <2>1, RunBorn DEF Living
<1>5. CASE ToolTurn \/ EditBegins \/ EditEnds
  BY <1>1, <1>5 DEF ToolTurn, EditBegins, EditEnds, Living, Runs
<1> QED
  BY <1>2, <1>3, <1>4, <1>5, LogSteps

LEMMA CarriedNext ==
  ASSUME LogInv, [Next]_vars
  PROVE  Carried'
<1> USE DEF LogInv, EditKinds
<1>1. Len(owner) \in Nat
  BY DEF TypeOK
<1>2. CASE Silent
  BY <1>2, SilentFrame DEF Carried, Whens, Turns
<1>3. CASE Mentions
  <2>1. PICK c \in Runs \union {0} : LogAppend("other", c, 0)
    BY <1>3, MentionsFrame
  <2>2. Gains(Event("other", c, 0)) /\ owner' = owner
    BY <1>3, <2>1, Gained, MentionsFrame
  <2> QED
    BY <2>2 DEF Gains, Carried, Event, Turns
<1>4. CASE BeginRun
  <2>1. Gains(Event("run_begin", runs + 1, 0)) /\ owner' = owner
    BY <1>4, Gained DEF BeginRun
  <2> QED
    BY <2>1 DEF Gains, Carried, Event, Turns
<1>5. CASE ToolTurn
  <2>1. Gains(Event("tool_result", 0, Len(owner) + 1)) /\ owner' = Append(owner, run)
    BY <1>5, Gained DEF ToolTurn
  <2>2. Len(owner') = Len(owner) + 1
    BY <2>1 DEF TypeOK
  <2> QED
    BY <1>1, <2>1, <2>2 DEF Gains, Carried, Event, Turns
<1>6. CASE EditBegins
  <2>1. Gains(Event("edit_begin", run, edits + 1)) /\ owner' = owner /\ run # 0
    BY <1>6, Gained DEF EditBegins, Living
  <2> QED
    BY <2>1 DEF Gains, Carried, Event, Turns
<1>7. CASE EditEnds
  <2>1. Gains(Event("edit_end", run, edit)) /\ owner' = owner /\ run # 0
    BY <1>7, Gained DEF EditEnds, Living
  <2> QED
    BY <2>1 DEF Gains, Carried, Event, Turns
<1> QED
  BY <1>2, <1>3, <1>4, <1>5, <1>6, <1>7, LogSteps

(* The beginnings of runs: only BeginRun adds one.                         *)
LEMMA BeginsStay ==
  ASSUME LogInv, NEW e, Gains(e), e.kind # "run_begin", NEW r
  PROVE  \A b \in Begins(r)' : b \in Begins(r) /\ log'[b] = log[b]
BY DEF Gains, Begins, Whens

LEMMA NumberedNext ==
  ASSUME LogInv, [Next]_vars
  PROVE  Numbered'
<1> USE DEF LogInv
<1>1. processes \in Nat /\ \A i \in Whens : log[i] \in Events
  BY DEF TypeOK, Whens
<1>2. ASSUME NEW e, Gains(e), e.kind # "run_begin", nextSeq' = nextSeq + 1, nextSeq \in Nat,
             UNCHANGED <<processes, runs, born>>
      PROVE  Numbered'
  <2> SUFFICES ASSUME NEW r \in Runs, NEW b \in Begins(r)'
               PROVE  /\ \A c \in Begins(r)' : c = b
                      /\ born[r].process = processes => log'[b].seq < nextSeq + 1
    BY <1>2 DEF Numbered, Runs
  <2>1. b \in Begins(r) /\ log'[b] = log[b] /\ \A c \in Begins(r)' : c \in Begins(r)
    BY <1>2, BeginsStay
  <2>2. log[b].seq \in Nat
    BY <1>1, <2>1 DEF Begins, Whens, Events
  <2> QED
    BY <1>2, <2>1, <2>2 DEF Numbered
<1>3. CASE Silent
  <2>1. UNCHANGED <<log, runs, edits, owner, openEdits, born, movedOn>> /\ Runs' = Runs
    BY <1>3, SilentFrame DEF Runs
  <2>2. CASE UNCHANGED <<processes, nextSeq>>
    BY <2>1, <2>2 DEF Numbered, Begins
  <2>3. CASE StartProcess
    BY <1>1, <2>1, <2>3 DEF Numbered, Begins, Living, StartProcess, TypeOK
  <2> QED
    BY <1>3, <2>2, <2>3 DEF Silent, vars, writer, Dies, FollowUp
<1>4. CASE Mentions
  <2>1. PICK c \in Runs \union {0} : LogAppend("other", c, 0)
    BY <1>4, MentionsFrame
  <2>2. UNCHANGED <<processes, runs, born>>
    BY <1>4, MentionsFrame
  <2>3. /\ Gains(Event("other", c, 0)) /\ nextSeq' = nextSeq + 1 /\ nextSeq \in Nat
        /\ Event("other", c, 0).kind # "run_begin"
    BY <2>1, Gained DEF Event
  <2> QED
    BY <1>2, <2>2, <2>3
<1>5. CASE BeginRun
  <2>0. PICK n \in Nat : n = runs + 1
    BY LogBounds DEF TypeOK
  <2> DEFINE e == Event("run_begin", n, 0)
  <2>1. Gains(e) /\ nextSeq' = nextSeq + 1 /\ nextSeq \in Nat /\ processes' = processes
    BY <1>5, <2>0, Gained DEF BeginRun
  <2>2. e.kind = "run_begin" /\ e.run = n /\ e.seq = nextSeq
    BY DEF Event
  <2> HIDE DEF e
  <2>3. \A i \in Whens : log[i].run # n
    <3>1. \A i \in Whens : log[i].run \in 0 .. runs
      BY <1>1 DEF Events
    <3>2. runs \in Nat
      BY LogBounds DEF TypeOK
    <3> QED
      BY <2>0, <3>1, <3>2
  <2>4. \A r \in Runs : \A b \in Begins(r)' : b \in Begins(r) /\ log'[b] = log[b]
    <3>1. n \notin Runs
      BY <1>5, <2>0, RunBorn
    <3> QED
      BY <2>1, <2>2, <3>1 DEF Gains, Begins, Whens
  <2>5. ASSUME NEW b \in Begins(n)', NEW c \in Begins(n)' PROVE b = c /\ log'[b] = e
    <3>1. Begins(n)' = {i \in Whens' : log'[i].kind = "run_begin" /\ log'[i].run = n}
      BY DEF Begins, Whens
    <3> QED
      BY <2>1, <2>2, <2>3, <3>1, <2>5 DEF Gains
  <2> SUFFICES ASSUME NEW r \in Runs', NEW b \in Begins(r)'
               PROVE  /\ \A c \in Begins(r)' : c = b
                      /\ born'[r].process = processes => log'[b].seq < nextSeq + 1
    BY <2>1 DEF Numbered
  <2>6. CASE r \in Runs
    <3>1. log[b].seq \in Nat /\ b \in Begins(r)
      BY <1>1, <2>4, <2>6 DEF Begins, Whens, Events
    <3>2. log'[b] = log[b] /\ \A c \in Begins(r)' : c \in Begins(r)
      BY <2>4, <2>6
    <3>3. born'[r] = born[r]
      BY <1>5, <2>6, RunBorn
    <3>4. born[r].process = processes => log[b].seq < nextSeq
      BY <2>6, <3>1 DEF Numbered
    <3>5. \A c \in Begins(r)' : c = b
      BY <2>6, <3>1, <3>2 DEF Numbered
    <3> QED
      BY <2>1, <3>1, <3>2, <3>3, <3>4, <3>5
  <2>7. CASE r = n
    <3>1. log'[b] = e /\ \A c \in Begins(r)' : c = b
      BY <2>5, <2>7
    <3> QED
      BY <2>1, <2>2, <3>1
  <2> QED
    BY <1>5, <2>0, <2>6, <2>7, RunBorn
<1>6. ASSUME NEW kind, NEW carries, NEW what, LogAppend(kind, carries, what), kind # "run_begin",
             UNCHANGED <<processes, runs, born>>
      PROVE  Numbered'
  <2>1. /\ Gains(Event(kind, carries, what)) /\ nextSeq' = nextSeq + 1 /\ nextSeq \in Nat
        /\ Event(kind, carries, what).kind # "run_begin"
    BY <1>6, Gained DEF Event
  <2> QED
    BY <1>2, <1>6, <2>1
<1>7. CASE ToolTurn \/ EditBegins \/ EditEnds
  BY <1>6, <1>7 DEF ToolTurn, EditBegins, EditEnds
<1> QED
  BY <1>3, <1>4, <1>5, <1>7, LogSteps

LEMMA OldestNext ==
  ASSUME LogInv, [Next]_vars
  PROVE  Oldest'
<1> USE DEF LogInv
<1>1. processes \in Nat /\ Len(owner) \in Nat /\ nextSeq \in Nat /\ \A i \in Whens : log[i] \in Events
  BY LogBounds DEF TypeOK, Whens
<1>2. \A i \in Whens : log[i].seq \in Nat
  BY <1>1 DEF Events
<1>3. \A r \in Runs : born[r].after \in 0 .. Len(owner)
  BY DEF TypeOK
<1>4. ASSUME NEW e, Gains(e), e.seq = nextSeq, e.kind \notin {"run_begin", "tool_result"}, nextSeq' = nextSeq + 1,
             UNCHANGED <<processes, runs, born>>
      PROVE  Oldest'
  <2> SUFFICES ASSUME processes = 1
               PROVE  /\ \A i \in Whens' : log'[i].seq < nextSeq + 1
                      /\ \A r \in Runs : \A b \in Begins(r)' : \A i \in Whens' :
                           log'[i].kind = "tool_result" /\ log'[i].seq >= log'[b].seq => log'[i].what > born[r].after
    BY <1>4 DEF Oldest, Runs
  <2>1. \A i \in Whens' : log'[i].seq < nextSeq + 1
    BY <1>1, <1>2, <1>4 DEF Gains, Oldest
  <2>2. ASSUME NEW r \in Runs, NEW b \in Begins(r)', NEW i \in Whens', log'[i].kind = "tool_result", log'[i].seq >= log'[b].seq
        PROVE  log'[i].what > born[r].after
    <3>1. b \in Begins(r) /\ log'[b] = log[b]
      BY <1>4, <2>2, BeginsStay
    <3>2. i \in Whens /\ log'[i] = log[i]
      BY <1>4, <2>2, <3>1 DEF Gains
    <3> QED
      BY <2>2, <3>1, <3>2 DEF Oldest
  <2> QED
    BY <2>1, <2>2
<1>5. ASSUME NEW kind, NEW carries, NEW what, LogAppend(kind, carries, what), kind \notin {"run_begin", "tool_result"},
             UNCHANGED <<processes, runs, born>>
      PROVE  Oldest'
  <2>1. /\ Gains(Event(kind, carries, what)) /\ nextSeq' = nextSeq + 1
        /\ Event(kind, carries, what).kind = kind /\ Event(kind, carries, what).seq = nextSeq
    BY <1>5, Gained DEF Event
  <2> QED
    BY <1>4, <1>5, <2>1
<1>6. CASE Silent
  <2>1. UNCHANGED <<log, runs, edits, owner, openEdits, born, movedOn>> /\ Runs' = Runs
    BY <1>6, SilentFrame DEF Runs
  <2>2. CASE UNCHANGED <<processes, nextSeq>>
    BY <2>1, <2>2 DEF Oldest, Begins, Whens
  <2>3. CASE StartProcess
    <3> SUFFICES ASSUME processes' = 1 PROVE Whens = {} /\ \A r \in Runs : Begins(r) = {}
      BY <2>1 DEF Oldest, Begins, Whens
    <3>1. log = <<>>
      BY <1>1, <2>3 DEF StartProcess, Living
    <3> QED
      BY <3>1 DEF Whens, Begins
  <2> QED
    BY <1>6, <2>2, <2>3 DEF Silent, vars, writer, Dies, FollowUp
<1>7. CASE Mentions
  <2>1. PICK c \in Runs \union {0} : LogAppend("other", c, 0)
    BY <1>7, MentionsFrame
  <2>2. UNCHANGED <<processes, runs, born>>
    BY <1>7, MentionsFrame
  <2> QED
    BY <1>5, <2>1, <2>2
<1>8. CASE EditBegins \/ EditEnds
  BY <1>5, <1>8 DEF EditBegins, EditEnds
<1>9. CASE BeginRun
  <2>0. PICK n \in Nat : n = runs + 1
    BY LogBounds DEF TypeOK
  <2> DEFINE e == Event("run_begin", n, 0)
  <2>1. Gains(e) /\ nextSeq' = nextSeq + 1 /\ processes' = processes
    BY <1>9, <2>0, Gained DEF BeginRun
  <2>2. e.kind = "run_begin" /\ e.run = n /\ e.seq = nextSeq
    BY DEF Event
  <2> HIDE DEF e
  <2>3. n \notin Runs
    BY <1>9, <2>0, RunBorn
  <2> SUFFICES ASSUME processes = 1
               PROVE  /\ \A i \in Whens' : log'[i].seq < nextSeq + 1
                      /\ \A r \in Runs' : \A b \in Begins(r)' : \A i \in Whens' :
                           log'[i].kind = "tool_result" /\ log'[i].seq >= log'[b].seq => log'[i].what > born'[r].after
    BY <2>1 DEF Oldest
  <2>4. \A i \in Whens' : log'[i].seq < nextSeq + 1
    BY <1>1, <1>2, <2>1, <2>2 DEF Gains, Oldest
  <2>5. ASSUME NEW r \in Runs', NEW b \in Begins(r)', NEW i \in Whens', log'[i].kind = "tool_result", log'[i].seq >= log'[b].seq
        PROVE  log'[i].what > born'[r].after
    <3>1. i \in Whens /\ log'[i] = log[i]
      BY <2>1, <2>2, <2>5 DEF Gains, Begins, Whens
    <3>2. b \in Whens' /\ log'[b].run = r
      BY <2>5 DEF Begins, Whens
    <3>3. CASE b \in Whens /\ log'[b] = log[b]
      <4>1. b \in Begins(r)
        BY <3>3, <2>5 DEF Begins, Whens
      <4>2. r # n
        <5>1. log[b].run \in 0 .. runs /\ runs \in Nat
          BY <1>1, <3>3, LogBounds DEF Events, TypeOK
        <5> QED
          BY <2>0, <3>2, <3>3, <5>1
      <4>3. r \in Runs /\ born'[r] = born[r]
        BY <1>9, <2>0, <4>2, RunBorn
      <4> QED
        BY <2>5, <3>1, <3>3, <4>1, <4>3 DEF Oldest
    <3>4. CASE log'[b] = e
      BY <1>1, <1>2, <2>2, <2>5, <3>1, <3>4 DEF Oldest
    <3> QED
      BY <2>1, <3>1, <3>2, <3>3, <3>4 DEF Gains
  <2> QED
    BY <2>4, <2>5
<1>10. CASE ToolTurn
  <2> DEFINE e == Event("tool_result", 0, Len(owner) + 1)
  <2>1. Gains(e) /\ nextSeq' = nextSeq + 1 /\ UNCHANGED <<processes, runs, born>>
    BY <1>10, Gained DEF ToolTurn
  <2>2. e.kind = "tool_result" /\ e.what = Len(owner) + 1 /\ e.seq = nextSeq
    BY DEF Event
  <2> HIDE DEF e
  <2> SUFFICES ASSUME processes = 1
               PROVE  /\ \A i \in Whens' : log'[i].seq < nextSeq + 1
                      /\ \A r \in Runs : \A b \in Begins(r)' : \A i \in Whens' :
                           log'[i].kind = "tool_result" /\ log'[i].seq >= log'[b].seq => log'[i].what > born[r].after
    BY <2>1 DEF Oldest, Runs
  <2>3. \A i \in Whens' : log'[i].seq < nextSeq + 1
    BY <1>1, <1>2, <2>1, <2>2 DEF Gains, Oldest
  <2>4. ASSUME NEW r \in Runs, NEW b \in Begins(r)', NEW i \in Whens', log'[i].kind = "tool_result", log'[i].seq >= log'[b].seq
        PROVE  log'[i].what > born[r].after
    <3>1. b \in Begins(r) /\ log'[b] = log[b]
      BY <2>1, <2>2, <2>4, BeginsStay
    <3>2. CASE log'[i] = e
      BY <1>1, <1>3, <2>2, <3>2
    <3>3. CASE i \in Whens /\ log'[i] = log[i]
      BY <2>4, <3>1, <3>3 DEF Oldest
    <3> QED
      BY <2>1, <3>2, <3>3 DEF Gains
  <2> QED
    BY <2>3, <2>4
<1> QED
  BY <1>6, <1>7, <1>8, <1>9, <1>10, LogSteps

LEMMA OneOpenNext ==
  ASSUME LogInv, [Next]_vars
  PROVE  OneOpen'
<1> USE DEF LogInv
<1>1. edits \in Nat /\ openEdits \subseteq Runs \X (1 .. edits)
  BY DEF TypeOK
<1>2. CASE Silent
  BY <1>2 DEF Silent, vars, session, history, StartProcess, Dies, FollowUp, OneOpen
<1>3. CASE EndRun \/ Trace \/ ToolTurn
  BY <1>3 DEF EndRun, Trace, ToolTurn, session, history, OneOpen
<1>4. ASSUME NEW r \in Runs, Resume(r) PROVE OneOpen'
  <2>1. UNCHANGED <<edit, edits, openEdits>> /\ run' = r /\ movedOn \subseteq movedOn'
    BY <1>4 DEF Resume
  <2>2. r \notin movedOn' => \A k \in 1 .. edits : <<r, k>> \notin openEdits
    BY <1>4, <2>1, GuardIsExact DEF Resume, GateAllows, EditGuardAtHome
  <2> QED
    BY <2>1, <2>2 DEF OneOpen
<1>5. CASE BeginRun
  BY <1>1, <1>5, RunBorn DEF BeginRun, OneOpen
<1>6. CASE EditBegins
  <2>1. UNCHANGED <<run, movedOn>> /\ edits' = edits + 1 /\ edit' = edits + 1 /\ edit = 0
        /\ openEdits' = openEdits \union {<<run, edits + 1>>}
    BY <1>6 DEF EditBegins
  <2> QED
    BY <1>1, <2>1 DEF OneOpen
<1>7. CASE EditEnds
  <2>1. UNCHANGED <<run, movedOn, edits>> /\ edit' = 0 /\ openEdits' = openEdits \ {<<run, edit>>}
    BY <1>7 DEF EditEnds
  <2> QED
    BY <1>1, <2>1 DEF OneOpen
<1> QED
  BY <1>2, <1>3, <1>4, <1>5, <1>6, <1>7, LogSteps DEF Mentions

LEMMA EditsLoggedNext ==
  ASSUME LogInv, [Next]_vars
  PROVE  EditsLogged'
<1> USE DEF LogInv, EditKinds
<1>1. /\ edits \in Nat /\ openEdits \subseteq Runs \X (1 .. edits) /\ nextSeq \in Nat /\ Len(log) \in Nat
      /\ edit \in 0 .. edits /\ \A i \in Whens : log[i] \in Events
  BY LogBounds DEF TypeOK, Whens
<1>2. \A i \in Whens : log[i].seq \in Nat /\ log[i].run \in 0 .. runs
  BY <1>1 DEF Events
<1>3. Whens = 1 .. Len(log)
  BY DEF Whens
<1>4. ASSUME Len(log') = Len(log) + 1, \A i \in Whens : log'[i] = log[i],
             NEW r, NEW i \in Whens, Ended(r, i)
      PROVE  Ended(r, i)'
  <2>1. PICK j \in i + 1 .. Len(log) : log[j].kind = "edit_end" /\ log[j].run = r /\ log[j].what = log[i].what
    BY <1>4 DEF Ended
  <2>2. j \in i + 1 .. Len(log') /\ j \in Whens
    BY <1>1, <1>3, <1>4
  <2> QED
    BY <1>4, <2>1, <2>2 DEF Ended
(* The log grows by an event that says nothing of this run's edits.        *)
<1>5. ASSUME NEW e, Gains(e), NEW r \in Runs \ movedOn, NEW b \in Begins(r)',
             e.kind \in EditKinds \union {"run_begin"} => e.run # r,
             edits <= edits', \A k \in 1 .. edits' : <<r, k>> \in openEdits' <=> k \in 1 .. edits /\ <<r, k>> \in openEdits,
             \A k : <<r, k>> \in openEdits' => k \in 1 .. edits'
      PROVE  EditsOf(r, b)'
  <2>1. CASE Whens' = {1} /\ log'[1] = e
    BY <1>5, <2>1 DEF Begins, Whens
  <2>2. CASE /\ Len(log') = Len(log) + 1 /\ Whens' = Whens \union {Len(log) + 1}
             /\ \A i \in Whens : log'[i] = log[i]
             /\ log'[Len(log) + 1] = e
    <3>1. b \in Begins(r) /\ log'[b] = log[b]
      BY <1>5, <2>2 DEF Begins, Whens
    <3>2. ASSUME NEW i \in Whens', log'[i].kind \in EditKinds, log'[i].run = r PROVE i \in Whens /\ log'[i] = log[i]
      BY <1>5, <2>2, <3>2
    <3>3. \A i \in Whens' : log'[i].kind \in EditKinds /\ log'[i].run = r => log'[i].seq >= log'[b].seq
      BY <3>1, <3>2 DEF EditsLogged, EditsOf
    <3>4. ASSUME NEW k \in 1 .. edits', <<r, k>> \in openEdits' PROVE LastHeard(r, k)'
      <4>1. LastHeard(r, k)
        BY <1>5, <3>1, <3>4 DEF EditsLogged, EditsOf
      <4>2. PICK i \in Whens :
              /\ log[i].kind = "edit_begin" /\ log[i].run = r /\ log[i].what = k
              /\ \A j \in i + 1 .. Len(log) : log[j].kind \in EditKinds => log[j].run # r
        BY <4>1 DEF LastHeard
      <4>3. \A j \in i + 1 .. Len(log') : log'[j].kind \in EditKinds => log'[j].run # r
        <5> TAKE j \in i + 1 .. Len(log')
        <5>1. j \in i + 1 .. Len(log) \/ j = Len(log) + 1
          BY <1>1, <1>3, <2>2
        <5>2. j \in i + 1 .. Len(log) => j \in Whens
          BY <1>1, <1>3
        <5> QED
          BY <1>5, <2>2, <4>2, <5>1, <5>2
      <4>4. i \in Whens' /\ log'[i] = log[i]
        BY <2>2
      <4> QED
        BY <4>2, <4>3, <4>4 DEF LastHeard
    <3>5. ASSUME NEW i \in Whens', log'[i].kind = "edit_begin", log'[i].run = r, <<r, log'[i].what>> \notin openEdits'
          PROVE  Ended(r, i)'
      <4>1. i \in Whens /\ log'[i] = log[i]
        BY <3>2, <3>5
      <4>2. <<r, log[i].what>> \notin openEdits
        <5>1. <<r, log[i].what>> \notin openEdits'
          BY <3>5, <4>1
        <5>2. <<r, log[i].what>> \in openEdits => log[i].what \in 1 .. edits
          BY <1>1
        <5>3. \A k \in 1 .. edits : k \in 1 .. edits'
          <6>1. edits' \in Nat
            BY LogTyped DEF TypeOK
          <6> QED
            BY <1>1, <1>5, <6>1
        <5> QED
          BY <1>5, <5>1, <5>2, <5>3
      <4>3. Ended(r, i)
        BY <3>1, <3>5, <4>1, <4>2 DEF EditsLogged, EditsOf
      <4> QED
        BY <1>4, <2>2, <4>1, <4>3
    <3> QED
      BY <3>3, <3>4, <3>5 DEF EditsOf
  <2> QED
    BY <1>5, <2>1, <2>2 DEF Gains
<1>6. CASE Silent
  <2>1. UNCHANGED <<log, runs, edits, owner, openEdits, born, movedOn>> /\ Runs' = Runs
    BY <1>6, SilentFrame DEF Runs
  <2>2. Whens' = Whens /\ \A r : Begins(r)' = Begins(r)
    BY <2>1 DEF Whens, Begins
  <2>3. \A r, k : LastHeard(r, k)' <=> LastHeard(r, k)
    BY <2>1, <2>2 DEF LastHeard
  <2>4. \A r, i : Ended(r, i)' <=> Ended(r, i)
    BY <2>1 DEF Ended
  <2>5. \A r, b : EditsOf(r, b) => EditsOf(r, b)'
    BY <2>1, <2>2, <2>3, <2>4 DEF EditsOf
  <2> QED
    BY <2>1, <2>2, <2>5 DEF EditsLogged
<1>7. CASE Mentions \/ ToolTurn
  <2>1. UNCHANGED <<edits, openEdits, runs>> /\ movedOn \subseteq movedOn'
    BY <1>7, MentionsFrame DEF ToolTurn
  <2>2. \E k, c, x : k \in {"other", "tool_result"} /\ LogAppend(k, c, x)
    BY <1>7, MentionsFrame DEF ToolTurn
  <2>3. PICK k, c, x : k \in {"other", "tool_result"} /\ LogAppend(k, c, x)
    BY <2>2
  <2>4. Gains(Event(k, c, x)) /\ Event(k, c, x).kind = k
    BY <2>3, Gained DEF Event
  <2>5. k \notin EditKinds \union {"run_begin"}
    BY <2>3
  <2> QED
    BY <1>1, <1>5, <2>1, <2>4, <2>5 DEF EditsLogged, Runs
<1>8. CASE BeginRun
  <2>0. PICK n \in Nat : n = runs + 1
    BY LogBounds DEF TypeOK
  <2> DEFINE e == Event("run_begin", n, 0)
  <2>1. Gains(e) /\ UNCHANGED <<edits, openEdits, movedOn>>
    BY <1>8, <2>0, Gained DEF BeginRun
  <2>2. e.kind = "run_begin" /\ e.run = n
    BY DEF Event
  <2> HIDE DEF e
  <2>3. n \notin Runs /\ Runs' = Runs \union {n}
    BY <1>8, <2>0, RunBorn
  <2> SUFFICES ASSUME NEW r \in Runs' \ movedOn, NEW b \in Begins(r)'
               PROVE  EditsOf(r, b)'
    BY <2>1 DEF EditsLogged
  <2>4. CASE r \in Runs
    BY <1>1, <1>5, <2>1, <2>2, <2>3, <2>4
  <2>5. CASE r = n
    <3>1. \A i \in Whens : log[i].run # n
      BY <1>2, <2>0, LogBounds DEF TypeOK
    <3>2. \A i \in Whens' : log'[i].kind \in EditKinds => log'[i].run # n
      BY <2>1, <2>2, <3>1 DEF Gains
    <3>3. \A k : <<n, k>> \notin openEdits
      BY <1>1, <2>3
    <3> QED
      BY <2>1, <2>5, <3>2, <3>3 DEF EditsOf
  <2> QED
    BY <2>3, <2>4, <2>5
(* The run that is on was begun in this process, and numbers on.           *)
<1>9. ASSUME run \in Runs \ movedOn, NEW b \in Begins(run) PROVE log[b].seq < nextSeq
  BY <1>9 DEF Numbered, Living, Runs
<1>10. ASSUME NEW r \in Runs \ movedOn, NEW b \in Begins(r)', NEW e, Gains(e), e.kind \in EditKinds, r = run,
              e.seq = nextSeq
       PROVE  /\ b \in Begins(r) /\ log'[b] = log[b] /\ b \in Whens
              /\ Len(log') = Len(log) + 1 /\ Whens' = Whens \union {Len(log) + 1}
              /\ \A i \in Whens : log'[i] = log[i]
              /\ log'[Len(log) + 1] = e
              /\ \A i \in Whens' : log'[i].kind \in EditKinds /\ log'[i].run = r => log'[i].seq >= log'[b].seq
  <2>0. e.kind # "run_begin"
    BY <1>10
  <2>1. b \in Begins(r) /\ log'[b] = log[b] /\ b \in Whens
    <3>1. b \in Begins(r) /\ log'[b] = log[b]
      BY <1>10, <2>0, BeginsStay
    <3> QED
      BY <3>1 DEF Begins, Whens
  <2>2. ~(Whens' = {1} /\ log'[1] = e)
    BY <1>10 DEF Begins, Whens
  <2>3. log[b].seq < nextSeq
    BY <1>9, <1>10, <2>1
  <2>4. /\ Len(log') = Len(log) + 1 /\ Whens' = Whens \union {Len(log) + 1}
        /\ \A i \in Whens : log'[i] = log[i]
        /\ log'[Len(log) + 1] = e
    BY <1>10, <2>2 DEF Gains
  <2>5. ASSUME NEW i \in Whens', log'[i].kind \in EditKinds, log'[i].run = r PROVE log'[i].seq >= log'[b].seq
    <3>1. CASE i \in Whens
      BY <1>10, <2>1, <2>4, <2>5, <3>1 DEF EditsLogged, EditsOf
    <3>2. CASE i = Len(log) + 1
      BY <1>1, <1>2, <1>10, <2>1, <2>3, <2>4, <3>2
    <3> QED
      BY <2>4, <2>5, <3>1, <3>2
  <2> QED
    BY <2>1, <2>4, <2>5
<1>11. CASE EditBegins
  <2>0. PICK n \in Nat : n = edits + 1
    BY <1>1
  <2> DEFINE e == Event("edit_begin", run, n)
  <2>1. /\ Gains(e) /\ UNCHANGED <<runs, movedOn>> /\ edits' = n /\ edit = 0 /\ run # 0
        /\ openEdits' = openEdits \union {<<run, n>>}
    BY <1>11, <2>0, Gained DEF EditBegins, Living
  <2>2. e.kind = "edit_begin" /\ e.run = run /\ e.what = n /\ e.seq = nextSeq
    BY DEF Event
  <2> HIDE DEF e
  <2> SUFFICES ASSUME NEW r \in Runs \ movedOn, NEW b \in Begins(r)'
               PROVE  EditsOf(r, b)'
    BY <2>1 DEF EditsLogged, Runs
  <2>3. CASE r # run
    <3>1. \A k : <<r, k>> \in openEdits' <=> <<r, k>> \in openEdits
      BY <2>1, <2>3
    <3>2. \A k : <<r, k>> \in openEdits => k \in 1 .. edits /\ k \in 1 .. edits'
      BY <1>1, <2>0, <2>1
    <3>3. edits <= edits' /\ e.kind \in EditKinds \union {"run_begin"} => e.run # r
      BY <1>1, <2>0, <2>1, <2>2, <2>3
    <3> QED
      BY <1>1, <1>5, <2>0, <2>1, <3>1, <3>2, <3>3
  <2>4. CASE r = run
    <3>1. /\ b \in Begins(r) /\ log'[b] = log[b] /\ b \in Whens
          /\ Len(log') = Len(log) + 1 /\ Whens' = Whens \union {Len(log) + 1}
          /\ \A i \in Whens : log'[i] = log[i]
          /\ log'[Len(log) + 1] = e
          /\ \A i \in Whens' : log'[i].kind \in EditKinds /\ log'[i].run = r => log'[i].seq >= log'[b].seq
      BY <1>10, <2>1, <2>2, <2>4
    <3>2. \A k : <<r, k>> \in openEdits' => k = n
      BY <1>1, <2>1, <2>4 DEF OneOpen
    <3>3. LastHeard(r, n)'
      BY <1>1, <2>2, <2>4, <3>1 DEF LastHeard
    <3>4. ASSUME NEW i \in Whens', log'[i].kind = "edit_begin", log'[i].run = r, <<r, log'[i].what>> \notin openEdits'
          PROVE  Ended(r, i)'
      <4>1. i \in Whens /\ log'[i] = log[i]
        BY <2>1, <2>2, <2>4, <3>1, <3>4
      <4>2. <<r, log[i].what>> \notin openEdits
        BY <2>1, <3>4, <4>1
      <4>3. Ended(r, i)
        BY <3>1, <3>4, <4>1, <4>2 DEF EditsLogged, EditsOf
      <4> QED
        BY <1>4, <3>1, <4>1, <4>3
    <3> QED
      BY <3>1, <3>2, <3>3, <3>4 DEF EditsOf
  <2> QED
    BY <2>3, <2>4
<1>12. CASE EditEnds
  <2> DEFINE e == Event("edit_end", run, edit)
  <2>1. /\ Gains(e) /\ UNCHANGED <<runs, edits, movedOn>> /\ run # 0
        /\ openEdits' = openEdits \ {<<run, edit>>}
    BY <1>12, Gained DEF EditEnds, Living
  <2>2. e.kind = "edit_end" /\ e.run = run /\ e.what = edit /\ e.seq = nextSeq
    BY DEF Event
  <2> HIDE DEF e
  <2> SUFFICES ASSUME NEW r \in Runs \ movedOn, NEW b \in Begins(r)'
               PROVE  EditsOf(r, b)'
    BY <2>1 DEF EditsLogged, Runs
  <2>3. CASE r # run
    <3>1. \A k : <<r, k>> \in openEdits' <=> <<r, k>> \in openEdits
      BY <2>1, <2>3
    <3>2. \A k : <<r, k>> \in openEdits => k \in 1 .. edits
      BY <1>1
    <3>3. edits <= edits' /\ e.kind \in EditKinds \union {"run_begin"} => e.run # r
      BY <1>1, <2>1, <2>2, <2>3
    <3> QED
      BY <1>1, <1>5, <2>1, <3>1, <3>2, <3>3
  <2>4. CASE r = run
    <3>1. /\ b \in Begins(r) /\ log'[b] = log[b] /\ b \in Whens
          /\ Len(log') = Len(log) + 1 /\ Whens' = Whens \union {Len(log) + 1}
          /\ \A i \in Whens : log'[i] = log[i]
          /\ log'[Len(log) + 1] = e
          /\ \A i \in Whens' : log'[i].kind \in EditKinds /\ log'[i].run = r => log'[i].seq >= log'[b].seq
      BY <1>10, <2>1, <2>2, <2>4
    <3>2. \A k : <<r, k>> \in openEdits => k = edit
      BY <1>1, <2>1, <2>4 DEF OneOpen
    <3>3. \A k : <<r, k>> \notin openEdits'
      BY <2>1, <2>4, <3>2
    <3>4. ASSUME NEW i \in Whens', log'[i].kind = "edit_begin", log'[i].run = r
          PROVE  Ended(r, i)'
      <4>1. i \in Whens /\ log'[i] = log[i]
        BY <2>2, <3>1, <3>4
      <4>2. CASE <<r, log[i].what>> \notin openEdits
        <5>1. Ended(r, i)
          BY <3>1, <3>4, <4>1, <4>2 DEF EditsLogged, EditsOf
        <5> QED
          BY <1>4, <3>1, <4>1, <5>1
      <4>3. CASE <<r, log[i].what>> \in openEdits
        <5>1. log[i].what = edit
          BY <3>2, <4>3
        <5>2. Len(log) + 1 \in i + 1 .. Len(log')
          BY <1>1, <1>3, <3>1, <4>1
        <5> QED
          BY <2>2, <2>4, <3>1, <4>1, <5>1, <5>2 DEF Ended
      <4> QED
        BY <4>2, <4>3
    <3> QED
      BY <3>1, <3>3, <3>4 DEF EditsOf
  <2> QED
    BY <2>3, <2>4
<1> QED
  BY <1>6, <1>7, <1>8, <1>11, <1>12, LogSteps

-----------------------------------------------------------------------------
(***************************************************************************)
(* A replay is the numbers of what the log's filter keeps.                 *)
(***************************************************************************)
Found(r) == {e \in Range(log) : e.kind = "tool_result" /\ Replays(e, r)}
Whats(s) == [i \in 1 .. Len(s) |-> s[i].what]

LEMMA WhatsTyped ==
  ASSUME NEW S, NEW s \in Seq(S)
  PROVE  \E T : Whats(s) \in Seq(T)
<1> DEFINE T == {s[i].what : i \in 1 .. Len(s)}
<1>1. Whats(s) \in Seq(T)
  BY DEF Whats
<1> QED
  BY <1>1

LEMMA WhatsAppend ==
  ASSUME NEW S, NEW s \in Seq(S), NEW x \in S
  PROVE  Whats(Append(s, x)) = Append(Whats(s), x.what)
<1>1. Len(s) \in Nat /\ Len(Append(s, x)) = Len(s) + 1
  OBVIOUS
<1>2. \A i \in 1 .. Len(s) + 1 : Append(s, x)[i] = IF i = Len(s) + 1 THEN x ELSE s[i]
  OBVIOUS
<1>3. Whats(Append(s, x)) = [i \in 1 .. Len(s) + 1 |-> IF i = Len(s) + 1 THEN x.what ELSE s[i].what]
  BY <1>1, <1>2 DEF Whats
<1> DEFINE T == {s[i].what : i \in 1 .. Len(s)} \union {x.what}
<1>4. Whats(s) \in Seq(T) /\ Len(Whats(s)) = Len(s) /\ \A i \in 1 .. Len(s) : Whats(s)[i] = s[i].what
  BY <1>1 DEF Whats
<1>5. x.what \in T
  OBVIOUS
<1> HIDE DEF T
<1>6. Append(Whats(s), x.what) = [i \in 1 .. Len(s) + 1 |-> IF i = Len(s) + 1 THEN x.what ELSE s[i].what]
  BY <1>1, <1>4, <1>5
<1> QED
  BY <1>3, <1>6

LEMMA CountAppend ==
  ASSUME NEW N \in Nat
  PROVE  /\ [t \in 1 .. N |-> t] \in Seq(1 .. N)
         /\ [t \in 1 .. N + 1 |-> t] = Append([t \in 1 .. N |-> t], N + 1)
OBVIOUS

(* An event that is no turn and begins another run, if any.                *)
LEMMA SameReplay ==
  ASSUME LogInv, [Next]_vars, NEW e, Grows(e) \/ Rotates(e), NEW r \in Runs \ movedOn, r \in Runs', Rebuildable(r)',
         e.kind # "tool_result", e.kind = "run_begin" => e.run # r, owner' = owner
  PROVE  Kept(RebuiltTurns(r), OwnTurns(r))' = Kept([t \in Turns |-> t], OwnTurns(r))'
<1> USE DEF LogInv
<1>1. PICK b \in Begins(r)' : TRUE
  BY DEF Rebuildable
<1> DEFINE S == Events \union {e}
<1>2. log \in Seq(S) /\ e \in S
  <2> HIDE DEF Events
  <2> QED
    BY DEF TypeOK
<1> HIDE DEF S
<1>3. ~Rotates(e)
  BY <1>1 DEF Rotates, Begins
<1>4. log' = Append(log, e)
  BY <1>3 DEF Grows
<1>5. b \in Begins(r) /\ log'[b] = log[b]
  BY <1>1, <1>2, <1>4 DEF Begins
<1>6. BeginOf(r)' = BeginOf(r)
  <2>1. BeginOf(r) = log[b]
    BY <1>5, BeginIs
  <2>2. Numbered'
    BY NumberedNext
  <2>3. BeginOf(r)' = log'[b]
    BY <1>1, <2>2 DEF BeginOf, Numbered, Begins
  <2> QED
    BY <1>5, <2>1, <2>3
<1>7. \A n \in 1 .. Len(log) : log[n] \in Found(r)' <=> log[n] \in Found(r)
  <2> TAKE n \in 1 .. Len(log)
  <2>1. log[n] \in Range(log) /\ log[n] \in Range(log')
    BY <1>2, <1>4 DEF Range
  <2> QED
    BY <1>6, <2>1 DEF Found, Replays
<1>8. e \notin Found(r)'
  BY DEF Found
<1>9. Kept(log', Found(r)') = Kept(log, Found(r))
  BY <1>2, <1>4, <1>7, <1>8, KeptAppend
<1>10. RebuiltTurns(r)' = RebuiltTurns(r)
  BY <1>9 DEF RebuiltTurns, Found
<1>11. OwnTurns(r)' = OwnTurns(r) /\ Turns' = Turns
  BY DEF OwnTurns, Turns
<1> QED
  BY <1>5, <1>10, <1>11 DEF ReplayKeepsOwnTurns, Rebuildable

LEMMA TurnReplayed ==
  ASSUME LogInv, [Next]_vars, ToolTurn, NEW r \in Runs \ movedOn, Rebuildable(r)'
  PROVE  Kept(RebuiltTurns(r), OwnTurns(r))' = Kept([t \in Turns |-> t], OwnTurns(r))'
<1> USE DEF LogInv
<1>1. PICK b \in Begins(r)' : TRUE
  BY DEF Rebuildable
<1>2. PICK n \in Nat : n = Len(owner) + 1
  BY DEF TypeOK
<1> DEFINE e == Event("tool_result", 0, n)
           S == Events \union {e}
           T == OwnTurns(r)
           R == RebuiltTurns(r)
<1>3. log \in Seq(S) /\ e \in S
  <2> HIDE DEF Events, e
  <2> QED
    BY DEF TypeOK
<1>4. e.kind = "tool_result" /\ e.run = 0 /\ e.what = n /\ e.seq = nextSeq
  BY DEF Event
<1>5. /\ log' = Append(log, e) \/ log' = <<e>>
      /\ owner' = Append(owner, run) /\ UNCHANGED <<runs, born, movedOn>>
  BY <1>2 DEF ToolTurn, LogAppend
<1> HIDE DEF S, e
<1>6. log' = Append(log, e)
  BY <1>1, <1>4, <1>5 DEF Begins
<1>7. b \in Begins(r) /\ log'[b] = log[b]
  BY <1>1, <1>3, <1>4, <1>6 DEF Begins
<1>8. BeginOf(r)' = BeginOf(r) /\ BeginOf(r) = log[b]
  <2>1. BeginOf(r) = log[b]
    BY <1>7, BeginIs
  <2>2. Numbered' /\ Runs' = Runs
    BY <1>5, NumberedNext DEF Runs
  <2>3. BeginOf(r)' = log'[b]
    BY <1>1, <2>2 DEF BeginOf, Numbered, Begins
  <2> QED
    BY <1>7, <2>1, <2>3
<1>9. \A i \in 1 .. Len(log) : log[i] \in Found(r)' <=> log[i] \in Found(r)
  <2> TAKE i \in 1 .. Len(log)
  <2>1. log[i] \in Range(log) /\ log[i] \in Range(log')
    BY <1>3, <1>6 DEF Range
  <2> QED
    BY <1>8, <2>1 DEF Found, Replays
<1>10. Kept(log', Found(r)') = IF e \in Found(r)' THEN Append(Kept(log, Found(r)), e) ELSE Kept(log, Found(r))
  BY SMTT(30), <1>3, <1>6, <1>9, KeptAppend
<1>11. Kept(log, Found(r)) \in Seq(S)
  <2>1. Kept(log, Found(r)) \in Seq(S \cap Found(r))
    BY <1>3, KeptTyped
  <2> QED
    BY <2>1
<1>12. R' = IF e \in Found(r)' THEN Append(R, n) ELSE R
  <2>1. R = Whats(Kept(log, Found(r))) /\ R' = Whats(Kept(log', Found(r)'))
    BY DEF RebuiltTurns, Found, Whats
  <2>2. Whats(Append(Kept(log, Found(r)), e)) = Append(Whats(Kept(log, Found(r))), n)
    BY <1>3, <1>4, <1>11, WhatsAppend
  <2> HIDE DEF R
  <2> QED
    BY <1>10, <2>1, <2>2
<1>13. R \in Seq(Turns) /\ Turns = 1 .. Len(owner) /\ Len(owner) \in Nat
  <2>1. Rebuildable(r)
    BY <1>7 DEF Rebuildable
  <2>2. R \in Seq(Turns)
    BY <2>1, TurnsTyped
  <2> HIDE DEF R
  <2> QED
    BY <2>2 DEF Turns, TypeOK
<1>14. Turns' = 1 .. n /\ \A t \in Turns : t \in T' <=> t \in T
  <2>1. Len(owner') = n /\ \A t \in 1 .. Len(owner) : owner'[t] = owner[t]
    BY <1>2, <1>5 DEF TypeOK
  <2> QED
    BY <1>2, <1>13, <2>1 DEF OwnTurns, Turns
<1>15. n \in T' <=> run = r
  <2>1. owner'[n] = run
    <3>1. owner \in Seq(Runs \union {run}) /\ run \in Runs \union {run}
      BY DEF TypeOK
    <3> QED
      BY <1>2, <1>5, <3>1, AppendProperties
  <2>2. n \in Turns'
    BY <1>2, <1>13, <1>14
  <2> QED
    BY <2>1, <2>2 DEF OwnTurns
<1> DEFINE counted == [t \in 1 .. Len(owner) |-> t]
<1>16. counted \in Seq(Turns) /\ [t \in Turns |-> t]' = Append(counted, n)
  BY <1>2, <1>13, <1>14, CountAppend
<1>17. Kept(R, T) = Kept(counted, T)
  BY <1>7, <1>13 DEF ReplayKeepsOwnTurns, Rebuildable
<1> DEFINE U == Turns \union {n}
<1> HIDE DEF counted, R, T
<1>18. /\ R \in Seq(U) /\ counted \in Seq(U) /\ n \in U
       /\ \A i \in 1 .. Len(R) : R[i] \in T' <=> R[i] \in T
       /\ \A i \in 1 .. Len(counted) : counted[i] \in T' <=> counted[i] \in T
  <2>1. R \in Seq(U) /\ counted \in Seq(U) /\ n \in U
    <3>1. Turns \subseteq U /\ n \in U
      OBVIOUS
    <3> HIDE DEF U
    <3> QED
      BY <1>13, <1>16, <3>1, SeqMonotonic
  <2>2. \A i \in 1 .. Len(R) : R[i] \in Turns
    BY <1>13
  <2>3. \A i \in 1 .. Len(counted) : counted[i] \in Turns
    BY <1>16
  <2> QED
    BY <2>1, <2>2, <2>3, <1>14
<1> HIDE DEF U
<1>19. Kept(Append(counted, n), T') = IF n \in T' THEN Append(Kept(counted, T), n) ELSE Kept(counted, T)
  BY <1>18, KeptAppend
<1>20. Kept(Append(R, n), T') = IF n \in T' THEN Append(Kept(R, T), n) ELSE Kept(R, T)
  BY <1>18, KeptAppend
<1>21. Kept(R, T') = Kept(R, T)
  BY <1>18, KeptSame
<1>22. run = r => e \in Found(r)'
  <2> SUFFICES ASSUME run = r PROVE e \in Found(r)'
    OBVIOUS
  <2>1. born[r].process = processes
    BY DEF Living, Runs, TypeOK
  <2>2. log[b].seq < nextSeq
    BY <1>7, <2>1 DEF Numbered
  <2>3. e \in Range(log')
    <3>1. /\ log' \in Seq(S) /\ log'[Len(log) + 1] = e
          /\ Len(log') = Len(log) + 1 /\ Len(log) \in Nat
      BY <1>3, <1>6, AppendProperties
    <3>2. Len(log) + 1 \in DOMAIN log'
      BY <3>1
    <3> QED
      BY <3>1, <3>2 DEF Range
  <2>4. log[b].seq \in Nat /\ nextSeq \in Nat
    <3>1. log[b] \in Events
      BY <1>7 DEF TypeOK, Begins
    <3>2. nextSeq \in Nat
      BY LogBounds DEF TypeOK
    <3> QED
      BY <3>1, <3>2 DEF Events
  <2> QED
    BY <1>4, <1>8, <2>2, <2>3, <2>4 DEF Found, Replays, MatchesRun
<1>23. Kept(R', T') = Kept(Append(counted, n), T')
  BY <1>12, <1>15, <1>17, <1>19, <1>20, <1>21, <1>22
<1> QED
  BY <1>16, <1>23 DEF R, T

LEMMA ReplayNext ==
  ASSUME LogInv, [Next]_vars
  PROVE  ReplayKeepsOwnTurns'
<1> USE DEF LogInv
<1>1. CASE Silent
  <2>1. UNCHANGED <<log, runs, owner, movedOn>>
    BY <1>1, SilentFrame
  <2>2. \A r : Begins(r)' = Begins(r)
    BY <2>1 DEF Begins
  <2>3. \A r : BeginOf(r)' = BeginOf(r)
    BY <2>1, <2>2 DEF BeginOf
  <2>4. \A r : Found(r)' = Found(r)
    BY <2>1, <2>3 DEF Found, Replays
  <2>5. \A r : RebuiltTurns(r)' = RebuiltTurns(r)
    BY <2>1, <2>4 DEF RebuiltTurns, Found
  <2> QED
    BY <2>1, <2>2, <2>5 DEF ReplayKeepsOwnTurns, Rebuildable, OwnTurns, Turns, Runs
<1>2. ASSUME NEW kind, NEW carries, NEW what, LogAppend(kind, carries, what), kind \notin {"tool_result", "run_begin"},
             UNCHANGED <<runs, owner>>, movedOn \subseteq movedOn'
      PROVE  ReplayKeepsOwnTurns'
  <2> DEFINE e == Event(kind, carries, what)
  <2>1. Grows(e) \/ Rotates(e)
    BY <1>2, EventLogged
  <2>2. e.kind = kind
    BY DEF Event
  <2>3. Runs' = Runs
    BY <1>2 DEF Runs
  <2> HIDE DEF e
  <2> SUFFICES ASSUME NEW r \in Runs \ movedOn, Rebuildable(r)'
               PROVE  Kept(RebuiltTurns(r), OwnTurns(r))' = Kept([t \in Turns |-> t], OwnTurns(r))'
    BY <1>2, <2>3 DEF ReplayKeepsOwnTurns
  <2> QED
    BY <1>2, <2>1, <2>2, <2>3, SameReplay
<1>3. CASE Mentions
  <2>1. UNCHANGED <<runs, owner>> /\ movedOn \subseteq movedOn' /\ \E c \in Runs \union {0} : LogAppend("other", c, 0)
    BY <1>3, MentionsFrame
  <2> QED
    BY <1>2, <2>1
<1>4. CASE EditBegins \/ EditEnds
  BY <1>2, <1>4 DEF EditBegins, EditEnds
<1>5. CASE ToolTurn
  <2> SUFFICES ASSUME NEW r \in Runs \ movedOn, Rebuildable(r)'
               PROVE  Kept(RebuiltTurns(r), OwnTurns(r))' = Kept([t \in Turns |-> t], OwnTurns(r))'
    BY <1>5 DEF ReplayKeepsOwnTurns, ToolTurn, Runs
  <2> QED
    BY <1>5, TurnReplayed
<1>6. CASE BeginRun
  <2>0. PICK n \in Nat : n = runs + 1
    BY LogBounds DEF TypeOK
  <2> DEFINE e == Event("run_begin", n, 0)
  <2>1. (Grows(e) \/ Rotates(e)) /\ UNCHANGED <<owner, movedOn>>
    BY <1>6, <2>0, EventLogged DEF BeginRun
  <2>2. e.kind = "run_begin" /\ e.run = n
    BY DEF Event
  <2>3. n \notin Runs /\ Runs' = Runs \union {n}
    BY <1>6, <2>0, RunBorn
  <2> DEFINE S == Events \union {e}
  <2>4. log' \in Seq(S)
    <3> HIDE DEF Events, e
    <3>1. log \in Seq(S) /\ e \in S
      BY DEF TypeOK
    <3> HIDE DEF S
    <3>2. CASE log' = Append(log, e)
      BY <3>1, <3>2
    <3>3. CASE log' = <<e>>
      BY <3>1, <3>3
    <3> QED
      BY <2>1, <3>2, <3>3 DEF Grows, Rotates
  <2> HIDE DEF S, e
  <2> SUFFICES ASSUME NEW r \in Runs' \ movedOn, Rebuildable(r)'
               PROVE  Kept(RebuiltTurns(r), OwnTurns(r))' = Kept([t \in Turns |-> t], OwnTurns(r))'
    BY <2>1 DEF ReplayKeepsOwnTurns
  <2>5. CASE r \in Runs
    <3>1. e.run # r
      BY <2>2, <2>3, <2>5
    <3> QED
      BY <2>1, <2>2, <2>5, <3>1, SameReplay
  <2>6. CASE r = n
    <3>1. OwnTurns(r)' = {}
      <4>1. \A t \in 1 .. Len(owner) : owner[t] \in Runs
        BY DEF TypeOK
      <4> QED
        BY <2>1, <2>3, <2>6, <4>1 DEF OwnTurns, Turns
    <3>2. \E T : RebuiltTurns(r)' \in Seq(T)
      <4> DEFINE found == Kept(log', Found(r)')
      <4>1. found \in Seq(S \cap Found(r)')
        BY <2>4, KeptTyped
      <4>2. RebuiltTurns(r)' = Whats(found)
        BY DEF RebuiltTurns, Found, Whats
      <4> HIDE DEF found
      <4> QED
        BY <4>1, <4>2, WhatsTyped
    <3>3. PICK T : RebuiltTurns(r)' \in Seq(T)
      BY <3>2
    <3>4. Kept(RebuiltTurns(r)', {}) = <<>>
      BY <3>3, KeptNone
    <3>5. [t \in Turns |-> t]' \in Seq(Turns)
      BY <2>1, CountAppend DEF Turns, TypeOK
    <3>6. Kept([t \in Turns |-> t]', {}) = <<>>
      BY <3>5, KeptNone
    <3> QED
      BY <3>1, <3>4, <3>6
  <2> QED
    BY <2>3, <2>5, <2>6
<1> QED
  BY <1>1, <1>3, <1>4, <1>5, <1>6, LogSteps

LEMMA LogInvNext == LogInv /\ [Next]_vars => LogInv'
BY LogTyped, LivingNext, CarriedNext, NumberedNext, OldestNext, ReplayNext, EditsLoggedNext, OneOpenNext DEF LogInv

(* The invariant of the log and of what each process knows of its run.     *)
THEOREM LogInvariant == Spec => []LogInv
BY LogInvInit, LogInvNext, PTL DEF Spec

(* A run resumed in the process that began it gets all of its turns, in    *)
(* order, wherever the file was rotated; and in the first process to write *)
(* the file, none older than the run.                                      *)
THEOREM ReplayKeepsRuns == Spec => []ReplayIsFaithful
BY LogInvariant, LogInvEnough, PTL

(* can_auto_resume refuses such a run exactly when an edit of it began and *)
(* never ended: neither a finished edit nor another run's stands in its    *)
(* way, and no open one is missed.                                         *)
THEOREM GateSeesOpenEdits == Spec => []EditGuardAtHome
BY LogInvariant, GuardIsExact, PTL

-----------------------------------------------------------------------------
(***************************************************************************)
(* OlderCopyIsMarked of WorkingContext, for any files, batches, thresholds *)
(* and lengths.  Making room only drops the oldest turns and takes labels  *)
(* away, so it can break no mark; a batch that reads twice reads before it *)
(* writes, so its own reads agree; and what is read sees, in the prompt    *)
(* that was made room in, every copy that will stand above it.             *)
(***************************************************************************)
ReadNotes == {"repeat", "stale"}
ReadForms == {"bytes", "ref", "same", "old", "floor"}
ShownBodies == {Spoken} \union [form : ReadForms, of : Bytes, notes : SUBSET ReadNotes]
ShownTurns == {t \in [body : ShownBodies, labelled : BOOLEAN] : t.labelled => t.body.form = "bytes"}

(* Of two states of a file among these turns the later says that it is     *)
(* the current one.                                                        *)
OlderMarked(shown) ==
  \A i, j \in DOMAIN shown :
    i < j /\ shown[i].labelled /\ shown[j].labelled
      /\ shown[i].body.of.path = shown[j].body.of.path
      /\ shown[i].body.of.version # shown[j].body.of.version
    => "stale" \in shown[j].body.notes

ContextInv ==
  /\ version \in [Files -> 0 .. MaxVersion] /\ recorded \in 0 .. MaxShown
  /\ recent \in Seq(ShownTurns) /\ pending \in Seq(Bytes) /\ OlderMarked(recent)

(* Some of these turns have given way, and none has come.                  *)
GivesWay(old, new) ==
  /\ Len(new) = Len(old)
  /\ \A i \in DOMAIN old : new[i] = old[i] \/ ~new[i].labelled

LEMMA MinIs ==
  ASSUME NEW S \in SUBSET Nat, S # {}
  PROVE  Min(S) \in S
<1>1. \E m \in S : \A n \in S : m <= n
  BY LeastExists
<1> QED
  BY <1>1 DEF Min

LEMMA ShownBodyIs ==
  ASSUME NEW t \in ShownTurns
  PROVE  /\ t.body.form # "other" => t.body \in [form : ReadForms, of : Bytes, notes : SUBSET ReadNotes]
         /\ t.labelled => t.body.form = "bytes"
         /\ t.labelled \in BOOLEAN /\ t.body \in ShownBodies
BY DEF ShownTurns, ShownBodies, Spoken

LEMMA BecomesIs ==
  ASSUME NEW t \in ShownTurns, t.body.form # "other", NEW form \in ReadForms
  PROVE  Becomes(t, form) \in ShownTurns /\ ~Becomes(t, form).labelled
<1>1. t.body \in [form : ReadForms, of : Bytes, notes : SUBSET ReadNotes]
  BY ShownBodyIs
<1>2. t = [body |-> t.body, labelled |-> t.labelled]
  BY DEF ShownTurns
<1> DEFINE b == [[t.body EXCEPT !.form = form] EXCEPT !.notes = {}]
<1>3. b \in [form : ReadForms, of : Bytes, notes : SUBSET ReadNotes]
  BY <1>1
<1>4. Becomes(t, form) = [body |-> b, labelled |-> FALSE]
  <2> DEFINE t1 == [t EXCEPT !.body.form = form]
             t2 == [t1 EXCEPT !.body.notes = {}]
             t3 == [t2 EXCEPT !.labelled = FALSE]
             b1 == [t.body EXCEPT !.form = form]
  <2>1. t1 = [body |-> b1, labelled |-> t.labelled]
    BY <1>2
  <2>2. t2 = [body |-> b, labelled |-> t.labelled]
    <3> HIDE DEF t1, b1
    <3>1. t2 = [t1 EXCEPT !.body = [b1 EXCEPT !.notes = {}]]
      BY <2>1
    <3>2. [b1 EXCEPT !.notes = {}] = b
      BY DEF b1
    <3> HIDE DEF t2, b
    <3> QED
      BY <2>1, <3>1, <3>2
  <2>3. Becomes(t, form) = t3
    BY DEF Becomes
  <2> HIDE DEF t1, t2, b1, b
  <2> QED
    BY <2>2, <2>3
<1> HIDE DEF b
<1>5. [body |-> b, labelled |-> FALSE] \in ShownTurns
  BY <1>3 DEF ShownTurns, ShownBodies
<1> QED
  BY <1>4, <1>5

LEMMA CollapsedGives ==
  ASSUME NEW shown \in Seq(ShownTurns), NEW queue
  PROVE  Collapsed(shown, queue) \in Seq(ShownTurns) /\ GivesWay(shown, Collapsed(shown, queue))
<1> DEFINE c == Collapsed(shown, queue)
<1>1. Len(shown) \in Nat /\ DOMAIN shown = 1 .. Len(shown) /\ \A i \in DOMAIN shown : shown[i] \in ShownTurns
  OBVIOUS
<1>2. \A i \in DOMAIN shown : c[i] \in ShownTurns /\ (c[i] = shown[i] \/ ~c[i].labelled)
  <2> TAKE i \in DOMAIN shown
  <2> DEFINE meets == {n \in DOMAIN queue : IsSame(shown[i], queue[n]) \/ IsStale(shown[i], queue[n])}
             form == IF IsSame(shown[i], queue[Min(meets)]) THEN "same" ELSE "old"
  <2>1. c[i] = IF meets = {} THEN shown[i] ELSE Becomes(shown[i], form)
    BY DEF Collapsed
  <2>2. shown[i] \in ShownTurns
    BY <1>1
  <2>3. meets # {} => shown[i].body.form # "other"
    <3> SUFFICES ASSUME NEW n, IsSame(shown[i], queue[n]) \/ IsStale(shown[i], queue[n])
                 PROVE  shown[i].body.form # "other"
      OBVIOUS
    <3> QED
      BY <2>2, ShownBodyIs DEF IsSame, IsStale, Verbatim
  <2>4. form \in ReadForms
    BY DEF ReadForms
  <2> HIDE DEF c, meets, form
  <2> QED
    BY <2>1, <2>2, <2>3, <2>4, BecomesIs
<1>3. c = [i \in 1 .. Len(shown) |-> c[i]]
  BY <1>1 DEF Collapsed
<1> HIDE DEF c
<1>4. c \in Seq(ShownTurns) /\ Len(c) = Len(shown)
  BY <1>1, <1>2, <1>3
<1> QED
  BY <1>2, <1>4 DEF GivesWay, c

LEMMA FloorGives ==
  ASSUME NEW shown \in Seq(ShownTurns)
  PROVE  FloorOldest(shown) \in Seq(ShownTurns) /\ GivesWay(shown, FloorOldest(shown))
<1> DEFINE bodies == {i \in DOMAIN shown : Weight(shown[i]) > 1}
           Floored(upTo) ==
             [i \in DOMAIN shown |->
                IF i \in bodies /\ i <= upTo THEN Becomes(shown[i], "floor") ELSE shown[i]]
           enough == {n \in 0 .. Len(shown) : n = Len(shown) \/ Tokens(Floored(n)) <= Capacity}
           c == Floored(Min(enough))
<1>1. Len(shown) \in Nat /\ DOMAIN shown = 1 .. Len(shown) /\ \A i \in DOMAIN shown : shown[i] \in ShownTurns
  OBVIOUS
<1>2. FloorOldest(shown) = c
  BY DEF FloorOldest
<1>3. \A i \in bodies : shown[i].body.form # "other"
  BY DEF Weight
<1>4. \A i \in DOMAIN shown : c[i] \in ShownTurns /\ (c[i] = shown[i] \/ ~c[i].labelled)
  <2> TAKE i \in DOMAIN shown
  <2>1. (c[i] = Becomes(shown[i], "floor") /\ i \in bodies) \/ c[i] = shown[i]
    OBVIOUS
  <2>2. shown[i] \in ShownTurns /\ "floor" \in ReadForms
    BY <1>1 DEF ReadForms
  <2> HIDE DEF c, bodies
  <2> QED
    BY <1>3, <2>1, <2>2, BecomesIs
<1>5. c = [i \in 1 .. Len(shown) |-> c[i]]
  BY <1>1
<1> HIDE DEF c
<1>6. c \in Seq(ShownTurns) /\ Len(c) = Len(shown)
  BY <1>1, <1>4, <1>5
<1> QED
  BY <1>2, <1>4, <1>6 DEF GivesWay

(* Giving way keeps the marks, and so does leaving the oldest out.         *)
LEMMA GivesWayKeeps ==
  ASSUME NEW old \in Seq(ShownTurns), NEW new \in Seq(ShownTurns), GivesWay(old, new), OlderMarked(old)
  PROVE  OlderMarked(new)
<1>1. DOMAIN new = DOMAIN old
  BY DEF GivesWay
<1>2. \A i \in DOMAIN new : new[i].labelled => new[i] = old[i]
  BY <1>1 DEF GivesWay
<1> QED
  BY <1>1, <1>2 DEF OlderMarked

LEMMA SuffixKeeps ==
  ASSUME NEW shown \in Seq(ShownTurns), NEW n \in 0 .. Len(shown), OlderMarked(shown)
  PROVE  SubSeq(shown, n + 1, Len(shown)) \in Seq(ShownTurns) /\ OlderMarked(SubSeq(shown, n + 1, Len(shown)))
<1> DEFINE s == SubSeq(shown, n + 1, Len(shown))
<1>1. /\ s \in Seq(ShownTurns) /\ Len(s) = Len(shown) - n /\ Len(shown) \in Nat /\ n \in Nat
      /\ \A i \in 1 .. Len(s) : s[i] = shown[n + i]
  OBVIOUS
<1>2. DOMAIN s = 1 .. Len(s) /\ DOMAIN shown = 1 .. Len(shown)
  BY <1>1
<1> HIDE DEF s
<1>3. \A i, j \in DOMAIN s : i < j => n + i \in DOMAIN shown /\ n + j \in DOMAIN shown /\ n + i < n + j
  BY <1>1, <1>2
<1>4. \A i \in DOMAIN s : s[i] = shown[n + i]
  BY <1>1, <1>2
<1>5. OlderMarked(s)
  BY <1>3, <1>4 DEF OlderMarked
<1> QED
  BY <1>1, <1>5 DEF s

LEMMA FewestIs ==
  ASSUME NEW shown \in Seq(ShownTurns)
  PROVE  Fewest(shown) \in 0 .. Len(shown)
<1> DEFINE S == {n \in 0 .. Len(shown) : Len(shown) - n <= KeepRecent
                                 \/ Tokens(SubSeq(shown, n + 1, Len(shown))) <= LowWater}
<1>1. Len(shown) \in Nat /\ KeepRecent \in Nat
  BY MarksAssumption
<1>2. Len(shown) \in 0 .. Len(shown) /\ Len(shown) - Len(shown) <= KeepRecent
  BY <1>1
<1>3. S # {} /\ S \in SUBSET Nat /\ S \subseteq 0 .. Len(shown)
  BY <1>1, <1>2
<1>4. Fewest(shown) = Min(S)
  BY DEF Fewest
<1> HIDE DEF S
<1> QED
  BY <1>3, <1>4, MinIs

(* Making room keeps the marks.                                            *)
LEMMA CompactKeeps ==
  ASSUME NEW prompt \in [turns : Seq(ShownTurns), queue : Seq(Bytes)], OlderMarked(prompt.turns)
  PROVE  /\ CompactToBudget(prompt).turns \in Seq(ShownTurns) /\ OlderMarked(CompactToBudget(prompt).turns)
         /\ CompactToBudget(prompt) \in [turns : Seq(ShownTurns), queue : Seq(Bytes)]
<1> DEFINE c == Collapsed(prompt.turns, prompt.queue)
           d == Fewest(c)
           s == SubSeq(c, d + 1, Len(c))
           f == FloorOldest(s)
<1>1. prompt.turns \in Seq(ShownTurns)
  OBVIOUS
<1>2. c \in Seq(ShownTurns) /\ OlderMarked(c)
  BY <1>1, CollapsedGives, GivesWayKeeps
<1> HIDE DEF c
<1>3. s \in Seq(ShownTurns) /\ OlderMarked(s)
  BY <1>2, FewestIs, SuffixKeeps
<1> HIDE DEF s
<1>4. f \in Seq(ShownTurns) /\ OlderMarked(f)
  BY <1>3, FloorGives, GivesWayKeeps
<1> HIDE DEF f
<1>5. <<>> \in Seq(Bytes)
  OBVIOUS
<1>6. \/ CompactToBudget(prompt) = prompt
      \/ CompactToBudget(prompt) = [prompt EXCEPT !.turns = c, !.queue = <<>>]
      \/ CompactToBudget(prompt) = [turns |-> f, queue |-> <<>>]
  BY DEF CompactToBudget, c, d, s, f
<1>7. [prompt EXCEPT !.turns = c, !.queue = <<>>] = [turns |-> c, queue |-> <<>>]
  <2>1. prompt = [turns |-> prompt.turns, queue |-> prompt.queue]
    OBVIOUS
  <2> DEFINE once == [prompt EXCEPT !.turns = c]
  <2>2. once = [turns |-> c, queue |-> prompt.queue]
    BY <2>1
  <2>3. [once EXCEPT !.queue = <<>>] = [turns |-> c, queue |-> <<>>]
    <3> HIDE DEF once
    <3> QED
      BY <2>2
  <2> QED
    BY <2>3
<1>8. CASE CompactToBudget(prompt) = prompt
  BY <1>8
<1>9. CASE CompactToBudget(prompt) = [turns |-> c, queue |-> <<>>]
  BY <1>2, <1>5, <1>9
<1>10. CASE CompactToBudget(prompt) = [turns |-> f, queue |-> <<>>]
  BY <1>4, <1>5, <1>10
<1> QED
  BY <1>6, <1>7, <1>8, <1>9, <1>10

-----------------------------------------------------------------------------
(* What waits to be collapsed are bytes that were read.                    *)
LEMMA QueuedTyped ==
  ASSUME NEW q \in Seq(Bytes), NEW body, body.form = "ref" \/ body.of \in Bytes
  PROVE  Queued(q, body) \in Seq(Bytes)
<1> DEFINE found == {i \in DOMAIN q : q[i].path = body.of.path}
           w == Without(q, body.of.path)
<1>1. w \in Seq(Bytes)
  <2>1. CASE found = {}
    BY <2>1 DEF Without
  <2>2. CASE found # {}
    <3>1. DOMAIN q = 1 .. Len(q) /\ Len(q) \in Nat
      OBVIOUS
    <3>2. found \in SUBSET Nat /\ \A i \in found : i \in 1 .. Len(q)
      BY <3>1
    <3>3. Min(found) \in 1 .. Len(q)
      <4> HIDE DEF found
      <4> QED
        BY <2>2, <3>2, MinIs
    <3>4. w = RemoveAt(q, Min(found))
      BY <2>2 DEF Without
    <3> DEFINE m == Min(found)
    <3> HIDE DEF found, m
    <3>5. SubSeq(q, 1, m - 1) \in Seq(Bytes) /\ SubSeq(q, m + 1, Len(q)) \in Seq(Bytes)
      BY <3>1, <3>3 DEF m
    <3> QED
      BY <3>4, <3>5 DEF RemoveAt, m
  <2> QED
    BY <2>1, <2>2
<1> HIDE DEF w
<1>2. CASE body.form = "ref" \/ ~LongBytes(body.of)
  BY <1>2 DEF Queued
<1>3. CASE ~(body.form = "ref" \/ ~LongBytes(body.of))
  BY <1>1, <1>3 DEF Queued, w
<1> QED
  BY <1>2, <1>3

Queues(q, turn) == IF turn.labelled THEN Queued(q, turn.body) ELSE q
QueueFills(f, queue, new, n) ==
  /\ f[0] = queue
  /\ \A m \in 1 .. n : f[m] = Queues(f[m - 1], new[m])

LEMMA QueuesTyped ==
  ASSUME NEW q \in Seq(Bytes), NEW turn \in ShownTurns
  PROVE  Queues(q, turn) \in Seq(Bytes)
<1>1. CASE ~turn.labelled
  BY <1>1 DEF Queues
<1>2. CASE turn.labelled
  <2>1. turn.body.of \in Bytes
    BY <1>2, ShownBodyIs
  <2> QED
    BY <1>2, <2>1, QueuedTyped DEF Queues
<1> QED
  BY <1>1, <1>2

LEMMA FillsExists ==
  ASSUME NEW queue \in Seq(Bytes), NEW new \in Seq(ShownTurns), NEW N \in 0 .. Len(new)
  PROVE  \E f \in [0 .. N -> Seq(Bytes)] : QueueFills(f, queue, new, N)
<1> DEFINE Has(n) == \E f \in [0 .. n -> Seq(Bytes)] : QueueFills(f, queue, new, n)
           Fails == {n \in 0 .. Len(new) : ~Has(n)}
<1>1. Len(new) \in Nat
  OBVIOUS
<1>2. ASSUME Fails # {} PROVE FALSE
  <2>1. PICK m \in Fails : \A n \in Fails : m <= n
    <3>1. Fails \in SUBSET Nat
      BY <1>1
    <3> HIDE DEF Fails
    <3> QED
      BY <1>2, <3>1, LeastExists
  <2>2. m \in 0 .. Len(new) /\ m \in Nat /\ ~Has(m)
    BY <2>1, <1>1
  <2>3. m # 0
    <3> DEFINE f == [n \in 0 .. 0 |-> queue]
    <3>1. f \in [0 .. 0 -> Seq(Bytes)] /\ f[0] = queue
      OBVIOUS
    <3>2. \A n \in 1 .. 0 : FALSE
      OBVIOUS
    <3>3. QueueFills(f, queue, new, 0)
      BY <3>1, <3>2 DEF QueueFills
    <3> QED
      BY <2>2, <3>1, <3>3
  <2>4. m - 1 \in 0 .. Len(new) /\ ~(m <= m - 1)
    BY <2>2, <2>3, <1>1
  <2>5. Has(m - 1)
    <3> HIDE DEF Has
    <3> QED
      BY <2>1, <2>4
  <2>6. PICK g \in [0 .. m - 1 -> Seq(Bytes)] : QueueFills(g, queue, new, m - 1)
    BY <2>5
  <2> DEFINE f == [n \in 0 .. m |-> IF n = m THEN Queues(g[m - 1], new[m]) ELSE g[n]]
  <2>7. g[m - 1] \in Seq(Bytes) /\ new[m] \in ShownTurns
    BY <2>2, <2>3, <2>6
  <2>8. f \in [0 .. m -> Seq(Bytes)]
    <3>1. \A n \in 0 .. m : n # m => n \in 0 .. m - 1
      BY <2>2
    <3>2. Queues(g[m - 1], new[m]) \in Seq(Bytes)
      BY <2>7, QueuesTyped
    <3> QED
      BY <3>1, <3>2, <2>6
  <2>9. QueueFills(f, queue, new, m)
    <3>1. f[0] = queue
      BY <2>2, <2>3, <2>6 DEF QueueFills
    <3>2. ASSUME NEW n \in 1 .. m PROVE f[n] = Queues(f[n - 1], new[n])
      <4>1. f[n - 1] = g[n - 1] /\ (n # m => n \in 1 .. m - 1 /\ f[n] = g[n])
        BY <2>2
      <4>2. n = m => f[n] = Queues(g[n - 1], new[n])
        BY <2>2
      <4> HIDE DEF f
      <4> QED
        BY <2>6, <4>1, <4>2 DEF QueueFills
    <3> HIDE DEF f
    <3> QED
      BY <3>1, <3>2 DEF QueueFills
  <2> HIDE DEF f
  <2> QED
    BY <2>2, <2>8, <2>9
<1> HIDE DEF Has
<1>3. Has(N)
  BY <1>2
<1> QED
  BY <1>3 DEF Has

LEMMA FillsTheSame ==
  ASSUME NEW f, NEW g, NEW queue, NEW new, NEW N \in Nat,
         QueueFills(f, queue, new, N), QueueFills(g, queue, new, N)
  PROVE  \A n \in 0 .. N : f[n] = g[n]
<1> DEFINE Fails == {n \in 0 .. N : f[n] # g[n]}
<1>1. ASSUME Fails # {} PROVE FALSE
  <2>1. PICK m \in Fails : \A n \in Fails : m <= n
    <3>1. Fails \in SUBSET Nat
      OBVIOUS
    <3> HIDE DEF Fails
    <3> QED
      BY <1>1, <3>1, LeastExists
  <2>2. m # 0
    BY <2>1 DEF QueueFills
  <2>3. m - 1 \in 0 .. N /\ ~(m <= m - 1) /\ m \in 1 .. N
    BY <2>1, <2>2
  <2>4. f[m - 1] = g[m - 1]
    BY <2>1, <2>3
  <2> QED
    BY <2>1, <2>3, <2>4 DEF QueueFills
<1> QED
  BY <1>1

LEMMA AllQueuedTyped ==
  ASSUME NEW queue \in Seq(Bytes), NEW new \in Seq(ShownTurns)
  PROVE  AllQueued(queue, new) \in Seq(Bytes)
<1> DEFINE Step(f) == [n \in 0 .. Len(new) |->
                         IF n = 0 THEN queue
                         ELSE IF new[n].labelled THEN Queued(f[n - 1], new[n].body) ELSE f[n - 1]]
           upTo == CHOOSE f : f = Step(f)
<1>1. Len(new) \in Nat /\ Len(new) \in 0 .. Len(new)
  OBVIOUS
<1>2. PICK g \in [0 .. Len(new) -> Seq(Bytes)] : QueueFills(g, queue, new, Len(new))
  BY <1>1, FillsExists
<1>3. g = Step(g)
  <2>1. \A n \in 0 .. Len(new) : n = 0 \/ n \in 1 .. Len(new)
    BY <1>1
  <2>2. \A n \in 0 .. Len(new) :
          g[n] = IF n = 0 THEN queue
                 ELSE IF new[n].labelled THEN Queued(g[n - 1], new[n].body) ELSE g[n - 1]
    BY <2>1, <1>2 DEF QueueFills, Queues
  <2> QED
    BY <1>2, <2>2 DEF Step
<1>4. upTo = Step(upTo)
  BY <1>3 DEF upTo
<1>5. AllQueued(queue, new) = upTo[Len(new)]
  BY DEF AllQueued, upTo, Step
<1>6. QueueFills(upTo, queue, new, Len(new))
  <2>1. \A n \in 0 .. Len(new) :
          upTo[n] = IF n = 0 THEN queue
                    ELSE IF new[n].labelled THEN Queued(upTo[n - 1], new[n].body) ELSE upTo[n - 1]
    BY <1>4 DEF Step
  <2>2. 0 \in 0 .. Len(new) /\ \A n \in 1 .. Len(new) : n \in 0 .. Len(new) /\ n # 0
    BY <1>1
  <2> QED
    BY <2>1, <2>2 DEF QueueFills, Queues
<1>7. upTo[Len(new)] = g[Len(new)]
  BY <1>1, <1>2, <1>6, FillsTheSame
<1> QED
  BY <1>1, <1>2, <1>5, <1>7

-----------------------------------------------------------------------------
(* A turn that is recorded.                                                *)
LEMMA TurnOfIs ==
  ASSUME NEW body \in ShownBodies
  PROVE  TurnOf(body) \in ShownTurns /\ TurnOf(body).body = body
         /\ (TurnOf(body).labelled <=> body.form = "bytes")
BY DEF TurnOf, ShownTurns

(* How often a batch writes a file.                                        *)
WritesOf(batch, f) == {j \in DOMAIN batch : batch[j] = [kind |-> "write", path |-> f]}
Wrote(batch, f) == Cardinality(WritesOf(batch, f))

LEMMA WroteIs ==
  ASSUME NEW batch \in CallBatches, NEW f
  PROVE  IsFiniteSet(DOMAIN batch) /\ IsFiniteSet(WritesOf(batch, f)) /\ Wrote(batch, f) \in Nat
<1>1. batch \in Seq(ContextCalls)
  BY BatchesAssumption
<1>2. DOMAIN batch = 1 .. Len(batch) /\ 1 \in Int /\ Len(batch) \in Int
  BY <1>1
<1>3. IsFiniteSet(DOMAIN batch)
  BY <1>2, FS_Interval
<1>4. WritesOf(batch, f) \subseteq DOMAIN batch
  BY DEF WritesOf
<1>5. IsFiniteSet(WritesOf(batch, f))
  BY <1>3, <1>4, FS_Subset
<1> QED
  BY <1>3, <1>5, FS_CardinalityType DEF Wrote

(* Reads of one batch are of one version each, and within the bound.       *)
LEMMA WritesCount ==
  ASSUME NEW batch \in CallBatches, NEW i \in ReadsOf(batch)
  PROVE  /\ batch[i].path \in Files /\ batch[i].view \in Views
         /\ Cardinality(WritesBefore(batch, i)) \in Nat
         /\ Cardinality(WritesBefore(batch, i)) <= Wrote(batch, batch[i].path)
         /\ \A j \in ReadsOf(batch) : j # i => Cardinality(WritesBefore(batch, i)) = 0
<1> DEFINE P == WritesOf(batch, batch[i].path)
           W == WritesBefore(batch, i)
<1>1. batch \in Seq(ContextCalls)
  BY BatchesAssumption
<1>2. \A j \in DOMAIN batch : batch[j] \in ContextCalls
  BY <1>1
<1>3. batch[i].path \in Files /\ batch[i].view \in Views
  BY <1>2 DEF ReadsOf, ContextCalls
<1>4. IsFiniteSet(DOMAIN batch) /\ IsFiniteSet(P)
  BY WroteIs
<1>5. W \subseteq P
  <2> SUFFICES ASSUME NEW j \in W PROVE j \in P
    OBVIOUS
  <2>1. j \in DOMAIN batch /\ batch[j].kind = "write" /\ batch[j].path = batch[i].path
    BY DEF WritesBefore
  <2>2. batch[j] \in [kind : {"write"}, path : Files]
    BY <1>2, <2>1 DEF ContextCalls
  <2> QED
    BY <2>1, <2>2 DEF WritesOf
<1>6. Cardinality(W) \in Nat /\ Cardinality(W) <= Cardinality(P)
  <2> HIDE DEF W, P
  <2> QED
    BY <1>4, <1>5, FS_Subset, FS_CardinalityType
<1>7. ASSUME NEW j \in ReadsOf(batch), j # i PROVE Cardinality(W) = 0
  <2>1. ReadsOf(batch) \subseteq DOMAIN batch
    BY DEF ReadsOf
  <2>2. IsFiniteSet(ReadsOf(batch))
    BY <1>4, <2>1, FS_Subset
  <2>3. Cardinality(ReadsOf(batch)) # 1
    <3> SUFFICES ASSUME Cardinality(ReadsOf(batch)) = 1 PROVE FALSE
      OBVIOUS
    <3>1. PICK x : ReadsOf(batch) = {x}
      BY <2>2, FS_Singleton
    <3> QED
      BY <1>7, <3>1
  <2>4. W = {}
    BY <2>3 DEF WritesBefore
  <2> HIDE DEF W
  <2> QED
    BY <2>4, FS_EmptySet
<1> HIDE DEF P, W
<1> QED
  BY <1>3, <1>6, <1>7 DEF P, W, Wrote

(* What a batch adds: reads that were answered, and other shown.           *)
LEMMA TurnsAdded ==
  ASSUME ContextInv, NEW batch \in CallBatches, NEW shown \in Seq(ShownTurns),
         \A f \in Files : version[f] + Wrote(batch, f) <= MaxVersion
  PROVE  LET new == TurnsOf(batch, shown)
         IN  /\ new \in Seq(ShownTurns) /\ Len(new) = Len(batch)
             /\ \A i \in DOMAIN new : new[i].labelled =>
                  /\ i \in ReadsOf(batch) /\ ReadBy(batch, i) \in Bytes
                  /\ new[i].body = Verbatim("bytes", ReadBy(batch, i), NotesOn(shown, ReadBy(batch, i)))
<1> DEFINE new == TurnsOf(batch, shown)
<1>1. batch \in Seq(ContextCalls) /\ DOMAIN batch = 1 .. Len(batch) /\ Len(batch) \in Nat
  BY BatchesAssumption
<1>2. ASSUME NEW i \in ReadsOf(batch) PROVE ReadBy(batch, i) \in Bytes
  <2> DEFINE f == batch[i].path
             n == Cardinality(WritesBefore(batch, i))
             v == version[f]
  <2>1. f \in Files /\ batch[i].view \in Views /\ n \in Nat /\ Wrote(batch, f) \in Nat /\ n <= Wrote(batch, f)
    BY WritesCount, WroteIs
  <2>2. v \in 0 .. MaxVersion /\ v + Wrote(batch, f) <= MaxVersion /\ MaxVersion \in Nat
    BY <2>1, MarksAssumption DEF ContextInv
  <2> HIDE DEF v, n
  <2>3. v + n \in 0 .. MaxVersion
    BY <2>1, <2>2
  <2>4. ReadBy(batch, i) = [path |-> f, view |-> batch[i].view, version |-> v + n]
    BY DEF ReadBy, v, n
  <2> QED
    BY <2>1, <2>3, <2>4 DEF Bytes
<1>3. \A b \in Bytes : NotesOn(shown, b) \subseteq ReadNotes
  BY DEF NotesOn, ReadNotes
<1>4. \A b \in Bytes : /\ AnswerTo(shown, b) \in ShownBodies
                       /\ AnswerTo(shown, b).form = "bytes" =>
                            AnswerTo(shown, b) = Verbatim("bytes", b, NotesOn(shown, b))
  <2> TAKE b \in Bytes
  <2>1. CASE Elides(shown, b)
    <3>1. AnswerTo(shown, b) = [form |-> "ref", of |-> b, notes |-> {}]
      BY <2>1 DEF AnswerTo, Verbatim
    <3> QED
      BY <3>1 DEF ShownBodies, ReadForms
  <2>2. CASE ~Elides(shown, b)
    <3>1. AnswerTo(shown, b) = Verbatim("bytes", b, NotesOn(shown, b))
      BY <2>2 DEF AnswerTo
    <3> QED
      BY <1>3, <3>1 DEF Verbatim, ShownBodies, ReadForms
  <2> QED
    BY <2>1, <2>2
<1>5. ASSUME NEW i \in DOMAIN batch
      PROVE  /\ new[i] \in ShownTurns
             /\ new[i].labelled =>
                  /\ i \in ReadsOf(batch)
                  /\ new[i].body = Verbatim("bytes", ReadBy(batch, i), NotesOn(shown, ReadBy(batch, i)))
  <2>1. new[i] = TurnOf(BodyOf(batch, i, shown))
    BY DEF TurnsOf
  <2>2. CASE i \in ReadsOf(batch)
    <3>1. BodyOf(batch, i, shown) = AnswerTo(shown, ReadBy(batch, i))
      BY <2>2 DEF BodyOf
    <3>2. ReadBy(batch, i) \in Bytes
      BY <1>2, <2>2
    <3> HIDE DEF new
    <3> QED
      BY <1>4, <2>1, <2>2, <3>1, <3>2, TurnOfIs
  <2>3. CASE i \notin ReadsOf(batch)
    <3>1. BodyOf(batch, i, shown) = Spoken /\ Spoken \in ShownBodies /\ Spoken.form # "bytes"
      BY <2>3 DEF BodyOf, ShownBodies, Spoken
    <3> HIDE DEF new
    <3> QED
      BY <2>1, <3>1, TurnOfIs
  <2> QED
    BY <2>2, <2>3
<1>6. new = [i \in 1 .. Len(batch) |-> new[i]]
  BY <1>1 DEF TurnsOf
<1> HIDE DEF new
<1>7. new \in Seq(ShownTurns) /\ Len(new) = Len(batch) /\ DOMAIN new = DOMAIN batch
  BY <1>1, <1>5, <1>6
<1> QED
  BY <1>2, <1>5, <1>7 DEF new

(* What is added says what it must of what it follows.                     *)
LEMMA AddedIsMarked ==
  ASSUME ContextInv, NEW batch \in CallBatches, NEW shown \in Seq(ShownTurns), OlderMarked(shown),
         \A f \in Files : version[f] + Wrote(batch, f) <= MaxVersion
  PROVE  /\ shown \o TurnsOf(batch, shown) \in Seq(ShownTurns)
         /\ OlderMarked(shown \o TurnsOf(batch, shown))
<1> DEFINE new == TurnsOf(batch, shown)
           all == shown \o new
           n == Len(shown)
<1>1. /\ new \in Seq(ShownTurns)
      /\ \A i \in DOMAIN new : new[i].labelled =>
           /\ i \in ReadsOf(batch) /\ ReadBy(batch, i) \in Bytes
           /\ new[i].body = Verbatim("bytes", ReadBy(batch, i), NotesOn(shown, ReadBy(batch, i)))
  BY TurnsAdded
<1> HIDE DEF new
<1>2. /\ all \in Seq(ShownTurns) /\ Len(all) = n + Len(new) /\ n \in Nat /\ Len(new) \in Nat
      /\ \A i \in 1 .. n : all[i] = shown[i]
      /\ \A i \in n + 1 .. n + Len(new) : all[i] = new[i - n]
  BY <1>1
<1>3. DOMAIN all = 1 .. n + Len(new) /\ DOMAIN shown = 1 .. n /\ DOMAIN new = 1 .. Len(new)
  BY <1>1, <1>2
<1> HIDE DEF all, n
<1>4. ASSUME NEW i \in DOMAIN all, NEW j \in DOMAIN all, i < j, all[i].labelled, all[j].labelled,
             all[i].body.of.path = all[j].body.of.path,
             all[i].body.of.version # all[j].body.of.version
      PROVE  "stale" \in all[j].body.notes
  <2>1. CASE j \in 1 .. n
    <3>1. i \in 1 .. n
      BY <1>2, <1>3, <1>4, <2>1
    <3> QED
      BY <1>2, <1>3, <1>4, <2>1, <3>1 DEF OlderMarked
  <2>2. CASE j \notin 1 .. n
    <3> DEFINE l == j - n
               b == ReadBy(batch, l)
    <3>1. l \in DOMAIN new /\ all[j] = new[l]
      BY <1>2, <1>3, <2>2
    <3>2. /\ l \in ReadsOf(batch) /\ b \in Bytes
          /\ new[l].body = [form |-> "bytes", of |-> b, notes |-> NotesOn(shown, b)]
      BY <1>1, <1>4, <3>1 DEF Verbatim
    <3>3. all[j].body.of = b /\ all[j].body.notes = NotesOn(shown, b)
      BY <3>1, <3>2
    <3>4. CASE i \in 1 .. n
      <4>1. all[i] = shown[i] /\ i \in DOMAIN shown
        BY <1>2, <1>3, <3>4
      <4> HIDE DEF b
      <4>2. IsStale(shown[i], b)
        BY <1>4, <3>3, <4>1 DEF IsStale
      <4>3. HasStale(shown, b)
        BY <4>1, <4>2 DEF HasStale
      <4> QED
        BY <3>3, <4>3 DEF NotesOn
    <3>5. CASE i \notin 1 .. n
      <4> DEFINE k == i - n
                 a == ReadBy(batch, k)
      <4>1. k \in DOMAIN new /\ all[i] = new[k] /\ k # l
        BY <1>2, <1>3, <1>4, <3>1, <3>5
      <4>2. k \in ReadsOf(batch) /\ new[k].body = [form |-> "bytes", of |-> a, notes |-> NotesOn(shown, a)]
        BY <1>1, <1>4, <4>1 DEF Verbatim
      <4>3. all[i].body.of = a
        BY <4>1, <4>2
      <4>4. Cardinality(WritesBefore(batch, k)) = 0 /\ Cardinality(WritesBefore(batch, l)) = 0
        <5> HIDE DEF k, l
        <5> QED
          BY <3>2, <4>1, <4>2, WritesCount
      <4>5. a.path = batch[k].path /\ a.version = version[batch[k].path] + 0
        BY <4>4 DEF ReadBy
      <4>6. b.path = batch[l].path /\ b.version = version[batch[l].path] + 0
        BY <4>4 DEF ReadBy
      <4> HIDE DEF a, b, k, l
      <4> QED
        BY <1>4, <3>3, <4>3, <4>5, <4>6
    <3> QED
      BY <3>4, <3>5
  <2> QED
    BY <2>1, <2>2
<1>5. OlderMarked(all)
  BY <1>4 DEF OlderMarked
<1> QED
  BY <1>2, <1>5 DEF all, new

LEMMA ContextTurnStep ==
  ASSUME ContextInv, NEW batch \in CallBatches, ContextTurn(batch)
  PROVE  ContextInv'
<1> DEFINE before == CompactToBudget(Prompt)
           new == TurnsOf(batch, before.turns)
           with == WithTurns(before, new)
           after == CompactToBudget(with)
<1>1. Prompt \in [turns : Seq(ShownTurns), queue : Seq(Bytes)] /\ OlderMarked(Prompt.turns)
  BY DEF Prompt, ContextInv
<1>2. /\ before.turns \in Seq(ShownTurns) /\ OlderMarked(before.turns)
      /\ before \in [turns : Seq(ShownTurns), queue : Seq(Bytes)]
  BY <1>1, CompactKeeps
<1>3. before.queue \in Seq(Bytes)
  BY <1>2
<1>4. /\ recorded + Len(batch) <= MaxShown
      /\ \A f \in Files : version[f] + Wrote(batch, f) <= MaxVersion
      /\ recent' = after.turns /\ pending' = after.queue
      /\ version' = [f \in Files |-> version[f] + Wrote(batch, f)]
      /\ recorded' = recorded + Len(batch)
  BY DEF ContextTurn, Shows, Wrote, WritesOf
<1> HIDE DEF before
<1>5. new \in Seq(ShownTurns)
  BY <1>2, <1>4, TurnsAdded
<1>6. before.turns \o new \in Seq(ShownTurns) /\ OlderMarked(before.turns \o new)
  BY <1>2, <1>4, AddedIsMarked
<1> HIDE DEF new
<1>7. with = [turns |-> before.turns \o new, queue |-> AllQueued(before.queue, new)]
  BY DEF WithTurns
<1>8. AllQueued(before.queue, new) \in Seq(Bytes)
  BY <1>3, <1>5, AllQueuedTyped
<1> HIDE DEF with
<1>9. with \in [turns : Seq(ShownTurns), queue : Seq(Bytes)] /\ with.turns = before.turns \o new
  BY <1>6, <1>7, <1>8
<1>10. /\ after.turns \in Seq(ShownTurns) /\ OlderMarked(after.turns)
       /\ after \in [turns : Seq(ShownTurns), queue : Seq(Bytes)]
  BY <1>6, <1>9, CompactKeeps
<1> HIDE DEF after
<1>11. recent' \in Seq(ShownTurns) /\ OlderMarked(recent') /\ pending' \in Seq(Bytes)
  BY <1>4, <1>10
<1>12. batch \in Seq(ContextCalls) /\ Len(batch) \in Nat
  BY BatchesAssumption
<1>13. recorded' \in 0 .. MaxShown
  BY <1>4, <1>12 DEF ContextInv
<1>14. version' \in [Files -> 0 .. MaxVersion]
  <2>1. ASSUME NEW f \in Files PROVE version[f] + Wrote(batch, f) \in 0 .. MaxVersion
    <3>1. Wrote(batch, f) \in Nat
      BY WroteIs
    <3>2. version[f] \in Nat /\ MaxVersion \in Nat
      BY MarksAssumption DEF ContextInv
    <3> QED
      BY <1>4, <3>1, <3>2
  <2> QED
    BY <1>4, <2>1
<1> QED
  BY <1>11, <1>13, <1>14 DEF ContextInv, OlderMarked

LEMMA ToldStep ==
  ASSUME ContextInv, NEW follows \in BOOLEAN, Told(follows)
  PROVE  ContextInv'
<1> DEFINE t == TurnOf(Spoken)
           more == Append(recent, t)
<1>1. t \in ShownTurns /\ ~t.labelled
  <2>1. Spoken \in ShownBodies /\ Spoken.form # "bytes"
    BY DEF ShownBodies, Spoken
  <2> QED
    BY <2>1, TurnOfIs
<1>2. recent' = more /\ recent \in Seq(ShownTurns) /\ OlderMarked(recent)
  BY DEF Told, ContextInv
<1> HIDE DEF t
<1>3. /\ more \in Seq(ShownTurns) /\ Len(more) = Len(recent) + 1 /\ Len(recent) \in Nat
      /\ more[Len(recent) + 1] = t /\ \A i \in 1 .. Len(recent) : more[i] = recent[i]
  BY <1>1, <1>2
<1>4. DOMAIN more = 1 .. Len(recent) + 1 /\ DOMAIN recent = 1 .. Len(recent)
  BY <1>2, <1>3
<1> HIDE DEF more
<1>5. \A i \in DOMAIN more : more[i].labelled => i \in DOMAIN recent /\ more[i] = recent[i]
  BY <1>1, <1>3, <1>4
<1>6. OlderMarked(more)
  BY <1>2, <1>5 DEF OlderMarked
<1>7. pending' \in Seq(Bytes)
  BY DEF Told, ContextInv
<1>8. version' \in [Files -> 0 .. MaxVersion] /\ recorded' \in 0 .. MaxShown
  BY MarksAssumption DEF Told, ContextInv
<1> QED
  BY <1>2, <1>3, <1>6, <1>7, <1>8 DEF ContextInv, OlderMarked

LEMMA ChangedOutsideStep ==
  ASSUME ContextInv, NEW f \in Files, ChangedOutside(f)
  PROVE  ContextInv'
<1>1. version[f] \in 0 .. MaxVersion /\ version[f] < MaxVersion /\ MaxVersion \in Nat
  BY MarksAssumption DEF ChangedOutside, ContextInv
<1>2. version' \in [Files -> 0 .. MaxVersion]
  BY <1>1 DEF ChangedOutside, ContextInv
<1> QED
  BY <1>2 DEF ChangedOutside, ContextInv, OlderMarked

LEMMA ContextInvInit == ContextInit => ContextInv
BY MarksAssumption DEF ContextInit, ContextInv, OlderMarked

LEMMA ContextInvNext == ContextInv /\ [ContextNext]_contextVars => ContextInv'
<1> SUFFICES ASSUME ContextInv, [ContextNext]_contextVars PROVE ContextInv'
  OBVIOUS
<1>1. CASE UNCHANGED contextVars
  BY <1>1 DEF contextVars, ContextInv, OlderMarked
<1>2. CASE ContextNext
  BY <1>2, ContextTurnStep, ToldStep, ChangedOutsideStep DEF ContextNext
<1> QED
  BY <1>1, <1>2

LEMMA ContextInvEnough == ContextInv => OlderCopyIsMarked /\ ContextTypeOK
<1> SUFFICES ASSUME ContextInv PROVE OlderCopyIsMarked /\ ContextTypeOK
  OBVIOUS
<1>1. \A i \in DOMAIN recent : recent[i].labelled => recent[i].body.form = "bytes"
  <2>1. \A i \in DOMAIN recent : recent[i] \in ShownTurns
    BY DEF ContextInv
  <2> QED
    BY <2>1, ShownBodyIs
<1>2. \A i \in DOMAIN pending : pending[i] \in Bytes
  BY DEF ContextInv
<1> QED
  BY <1>1, <1>2 DEF ContextInv, OlderCopyIsMarked, ContextTypeOK, OlderMarked

(* Of two states of a file that stand in the prompt the later one says     *)
(* that it is the current one, however much was read, edited, referred to, *)
(* collapsed, floored and left out in between.                             *)
THEOREM OlderCopiesMarked == ContextSpec => []OlderCopyIsMarked
<1>1. ContextSpec => []ContextInv
  BY ContextInvInit, ContextInvNext, PTL DEF ContextSpec
<1> QED
  BY <1>1, ContextInvEnough, PTL

-----------------------------------------------------------------------------
(* Each part moves as its own specification says, whatever the others did. *)
LEMMA MemorySteps ==
  [MemoryNext]_memoryVars =>
    /\ [Next]_vars /\ [ContextNext]_contextVars /\ [FactNext]_factVars
    /\ [WorkerNext]_workerVars /\ [DaemonNext]_daemonVars
<1> SUFFICES ASSUME [MemoryNext]_memoryVars
             PROVE  /\ [Next]_vars /\ [ContextNext]_contextVars /\ [FactNext]_factVars
                    /\ [WorkerNext]_workerVars /\ [DaemonNext]_daemonVars
  OBVIOUS
<1> DEFINE A1 == Next
           A2 == ContextNext
           A3 == FactNext
           A4 == WorkerNext
           A5 == DaemonNext
<1>1. \/ A1 /\ UNCHANGED <<contextVars, factVars, workerVars, daemonVars>>
      \/ A2 /\ UNCHANGED <<vars, factVars, workerVars, daemonVars>>
      \/ A3 /\ UNCHANGED <<vars, contextVars, workerVars, daemonVars>>
      \/ A4 /\ UNCHANGED <<vars, contextVars, factVars, daemonVars>>
      \/ A5 /\ UNCHANGED <<vars, contextVars, factVars, workerVars>>
      \/ UNCHANGED <<vars, contextVars, factVars, workerVars, daemonVars>>
  BY DEF MemoryNext, memoryVars
<1> HIDE DEF A1, A2, A3, A4, A5
<1>2. [A1]_vars /\ [A2]_contextVars /\ [A3]_factVars /\ [A4]_workerVars /\ [A5]_daemonVars
  BY <1>1
<1> QED
  BY <1>2 DEF A1, A2, A3, A4, A5

(* What outlasts a process is kept in five places that do not meet.        *)
THEOREM MemoryIsApart ==
  MemorySpec => Spec /\ ContextSpec /\ StoreSpec /\ WorkerSpec /\ DaemonSpec
<1>1. MemoryInit => Init /\ ContextInit /\ FactInit /\ WorkerInit /\ DaemonInit
  BY DEF MemoryInit
<1> QED
  BY <1>1, MemorySteps, PTL DEF MemorySpec, Spec, ContextSpec, StoreSpec, WorkerSpec, DaemonSpec

(* The types of everything that is remembered.                             *)
THEOREM MemoryTypeCorrect == MemorySpec => []MemoryTypeOK
<1>1. Spec => []TypeOK
  <2>1. LogInv => TypeOK
    BY DEF LogInv
  <2> QED
    BY <2>1, LogInvariant, PTL
<1>2. ContextSpec => []ContextTypeOK
  BY ContextInvInit, ContextInvNext, ContextInvEnough, PTL DEF ContextSpec
<1>3. StoreSpec => []FactTypeOK
  BY StoreInvHolds, StoreInvEnough, PTL
<1>4. TypeOK /\ ContextTypeOK /\ FactTypeOK /\ WorkerTypeOK /\ DaemonTypeOK => MemoryTypeOK
  BY DEF MemoryTypeOK
<1> QED
  BY <1>1, <1>2, <1>3, <1>4, MemoryIsApart, WorkerTypeCorrect, DaemonTypeCorrect, PTL

(* All that the runs check of the five, for the whole of them.             *)
THEOREM MemoryIsSafe ==
  MemorySpec => [](/\ ReplayIsFaithful /\ EditGuardAtHome /\ OlderCopyIsMarked /\ EveryRevisionReads
                   /\ AskAndAnswerAgree /\ OkHasNoOpenQuestion /\ AtMostOnce)
  BY MemoryIsApart, ReplayKeepsRuns, GateSeesOpenEdits, OlderCopiesMarked, RevisionsRead,
     AnswersReachTheirAsk, OkIsEarned, TaskRunsOnce, PTL

(* The store keeps facts as Facts says, in the whole too.                  *)
THEOREM MemoryRefines == MemorySpec => ImplementsFacts
  BY MemoryIsApart, FactsAreKept, PTL
=============================================================================
