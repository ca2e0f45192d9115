------------------------------- MODULE Daemon -------------------------------
(***************************************************************************)
(* The keep-warm daemon's socket (src/surface/socket_reader.cpp and the    *)
(* serve and run commands of worker_main): processes that want to be the   *)
(* daemon, launchers that look for one and hand it their task, and the     *)
(* path in the file system that leads to whoever bound it last.  A daemon  *)
(* serves one connection at a time from a bounded backlog, and may stop,   *)
(* be signalled or be killed at any time.                                  *)
(***************************************************************************)
EXTENDS Naturals, Sequences

CONSTANTS
  Daemons,   \* processes started with `piper serve`
  Launchers, \* processes started with `piper run`
  Backlog,   \* connections the kernel queues, listen(fd, Backlog)
  NoOne      \* the path that leads nowhere; the end of a connection that was given up

ASSUME DaemonAssumption == NoOne \notin Daemons \union Launchers /\ Backlog \in Nat \ {0}

VARIABLES
  path,     \* the daemon whose socket the path leads to
  daemons,  \* [Daemons -> [at, listens, queue, serves]]
  callers,  \* [Daemons \union Launchers -> where it is in is_daemon_alive and what follows]
  ran       \* history: how often the task of each launcher was executed

daemonVars == <<path, daemons, callers, ran>>

Callers == Daemons \union Launchers
Conn(who, kind) == [who |-> who, kind |-> kind]
NoConn == Conn(NoOne, "none")
Off(place) == [at |-> place, listens |-> FALSE, queue |-> <<>>, serves |-> NoConn]

DaemonInit ==
  /\ path = NoOne
  /\ daemons = [d \in Daemons |-> Off("off")]
  /\ callers = [c \in Callers |-> [at |-> "idle", to |-> NoOne]]
  /\ ran = [l \in Launchers |-> 0]

GoesTo(c, place) == callers' = [callers EXCEPT ![c].at = place]
Dials(c, place, d) == callers' = [callers EXCEPT ![c] = [at |-> place, to |-> d]]
Is(c, place) == callers[c].at = place

-----------------------------------------------------------------------------
(* is_daemon_alive, asked by a launcher and by a daemon that starts.       *)

AcceptsAny(d) == d # NoOne /\ daemons[d].listens
Accepts(d) == d # NoOne /\ daemons[d].listens /\ Len(daemons[d].queue) < Backlog
Enqueue(d, conn) == daemons' = [daemons EXCEPT ![d].queue = Append(@, conn)]

Probes(c) ==
  /\ Is(c, "idle")
  /\ c \in Daemons => daemons[c].at = "off"
  /\ \/ path = NoOne /\ GoesTo(c, "alone") /\ UNCHANGED daemons
     \/ Accepts(path) /\ Enqueue(path, Conn(c, "ping")) /\ Dials(c, "pinging", path)
     \/ path # NoOne /\ ~Accepts(path) /\ GoesTo(c, "refused") /\ UNCHANGED daemons
  /\ UNCHANGED <<path, ran>>

(* A refused connection is taken for a dead daemon's socket.               *)
Unlinks(c) ==
  /\ Is(c, "refused")
  /\ path' = NoOne
  /\ GoesTo(c, "alone")
  /\ UNCHANGED <<daemons, ran>>

(* Two seconds without an answer mean busy.                                *)
IsBusy(c) == "found"
PingTimesOut(c) ==
  /\ Is(c, "pinging")
  /\ GoesTo(c, IsBusy(c))
  /\ daemons' = [d \in Daemons |->
       [daemons[d] EXCEPT !.queue = [i \in DOMAIN @ |-> IF @[i] = Conn(c, "ping") THEN Conn(NoOne, "ping") ELSE @[i]],
                          !.serves = IF @ = Conn(c, "ping") THEN Conn(NoOne, "ping") ELSE @]]
  /\ UNCHANGED <<path, ran>>

-----------------------------------------------------------------------------
(* A launcher: forward_to_daemon, or the task in its own process.          *)

Forwards(l) ==
  /\ l \in Launchers /\ Is(l, "found")
  /\ \/ Accepts(path) /\ Enqueue(path, Conn(l, "run")) /\ Dials(l, "submitted", path)
     \/ ~Accepts(path) /\ GoesTo(l, "alone") /\ UNCHANGED daemons
  /\ UNCHANGED <<path, ran>>

RunsItself(l) ==
  /\ l \in Launchers /\ Is(l, "alone")
  /\ ran' = [ran EXCEPT ![l] = @ + 1]
  /\ GoesTo(l, "returned")
  /\ UNCHANGED <<path, daemons>>

(* A connection ends without a result when the other end is gone.          *)
HungUp(c) ==
  LET d == callers[c].to
      conns == {daemons[d].queue[i].who : i \in DOMAIN daemons[d].queue} \union {daemons[d].serves.who}
  IN  ~daemons[d].listens /\ c \notin conns

LosesPing(c) ==
  /\ Is(c, "pinging") /\ HungUp(c)
  /\ GoesTo(c, "alone")
  /\ UNCHANGED <<path, daemons, ran>>

(* "task was not retried"                                                  *)
AfterLossRetries == "alone"
AfterLoss == "returned"
LosesRun(l) ==
  /\ l \in Launchers /\ Is(l, "submitted") /\ HungUp(l)
  /\ GoesTo(l, AfterLoss)
  /\ UNCHANGED <<path, daemons, ran>>

-----------------------------------------------------------------------------
(* DaemonListener::start after its probe, in the steps the kernel sees.    *)

Declines(d) ==
  /\ d \in Daemons /\ Is(d, "found")
  /\ GoesTo(d, "returned")
  /\ UNCHANGED <<path, daemons, ran>>

ClearsPath(d) ==
  /\ d \in Daemons /\ Is(d, "alone") /\ daemons[d].at = "off"
  /\ path' = NoOne
  /\ daemons' = [daemons EXCEPT ![d].at = "cleared"]
  /\ UNCHANGED <<callers, ran>>

(* bind fails when another has bound the path since it was cleared.        *)
Binds(d) ==
  /\ daemons[d].at = "cleared"
  /\ IF path = NoOne
       THEN path' = d /\ daemons' = [daemons EXCEPT ![d].at = "bound"]
       ELSE path' = path /\ daemons' = [daemons EXCEPT ![d].at = "gone"]
  /\ UNCHANGED <<callers, ran>>

Listens(d) ==
  /\ daemons[d].at = "bound"
  /\ daemons' = [daemons EXCEPT ![d].at = "serving", ![d].listens = TRUE]
  /\ UNCHANGED <<path, callers, ran>>

-----------------------------------------------------------------------------
(* The serve loop, one connection at a time.                               *)

Idle(d) == daemons[d].at = "serving" /\ daemons[d].serves = NoConn

TakesNext(d) ==
  /\ Idle(d) /\ daemons[d].queue # <<>>
  /\ LET conn == Head(daemons[d].queue)
     IN  /\ daemons' = [daemons EXCEPT ![d].queue = Tail(@), ![d].serves = conn]
         /\ ran' = IF conn.kind = "run" THEN [ran EXCEPT ![conn.who] = @ + 1] ELSE ran
  /\ UNCHANGED <<path, callers>>

(* Answering closes the connection: a pong, a result, or the error of a    *)
(* packet that did not load.                                               *)
AnswersConn(d) ==
  /\ daemons[d].serves # NoConn
  /\ LET conn == daemons[d].serves
     IN  callers' = IF conn.who = NoOne THEN callers
                    ELSE [callers EXCEPT ![conn.who].at = IF conn.kind = "ping" THEN "found" ELSE "returned"]
  /\ daemons' = [daemons EXCEPT ![d].serves = NoConn]
  /\ UNCHANGED <<path, ran>>

(* An idle time-out or a stop request ends the loop; stop() closes the     *)
(* socket, which resets what is still queued, and unlinks the path.        *)
Stops(d) ==
  /\ Idle(d)
  /\ daemons' = [daemons EXCEPT ![d].at = "stopping"]
  /\ UNCHANGED <<path, callers, ran>>

Closed(d, place) == daemons' = [daemons EXCEPT ![d] = Off(place)]

ClosesSocket(d) == daemons[d].at = "stopping" /\ Closed(d, "closed") /\ UNCHANGED <<path, callers, ran>>

UnlinksPath(d) ==
  /\ daemons[d].at = "closed"
  /\ path' = NoOne
  /\ daemons' = [daemons EXCEPT ![d].at = "gone"]
  /\ UNCHANGED <<callers, ran>>

Running(d) == daemons[d].at \in {"bound", "serving", "stopping", "closed"}

(* handle_daemon_sig does the same from wherever the process is; a kill    *)
(* leaves the path behind.                                                 *)
Signalled(d) == daemons[d].at \in {"serving", "stopping"} /\ Closed(d, "closed") /\ UNCHANGED <<path, callers, ran>>
DaemonKilled(d) == Running(d) /\ Closed(d, "gone") /\ UNCHANGED <<path, callers, ran>>

-----------------------------------------------------------------------------
LauncherStep(l) == Probes(l) \/ Unlinks(l) \/ Forwards(l) \/ RunsItself(l) \/ LosesPing(l) \/ LosesRun(l)
StarterStep(d) ==
  Probes(d) \/ Unlinks(d) \/ LosesPing(d) \/ Declines(d) \/ ClearsPath(d) \/ Binds(d) \/ Listens(d)
ServeStep(d) == TakesNext(d) \/ AnswersConn(d) \/ ClosesSocket(d) \/ UnlinksPath(d)

DaemonNext ==
  \/ \E l \in Launchers : LauncherStep(l)
  \/ \E d \in Daemons : StarterStep(d) \/ ServeStep(d) \/ Stops(d) \/ Signalled(d) \/ DaemonKilled(d)
  \/ \E c \in Callers : PingTimesOut(c)

DaemonSpec == DaemonInit /\ [][DaemonNext]_daemonVars

DaemonTypeOK ==
  /\ path \in Daemons \union {NoOne}
  /\ \A d \in Daemons :
       /\ daemons[d].at \in {"off", "cleared", "bound", "serving", "stopping", "closed", "gone"}
       /\ Len(daemons[d].queue) <= Backlog
       /\ daemons[d].listens = (daemons[d].at \in {"serving", "stopping"})

(* A task is executed at most once, by a daemon or by its launcher, also   *)
(* when the daemon it was handed to dies, stops or is replaced before it   *)
(* answered ("daemon disconnected without a result; task may have run").   *)
AtMostOnce == \A l \in Launchers : ran[l] <= 1
=============================================================================
