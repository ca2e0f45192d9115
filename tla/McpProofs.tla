------------------------------ MODULE McpProofs ------------------------------
EXTENDS Mcp, SequenceTheorems, TLAPS

Active(t) == calls[t].at \in {"registered", "retracting", "awaiting", "telling"}

CallsOwned ==
  /\ \A t \in Threads : Active(t) => /\ calls[t].id \in 1 .. nextId - 1
                                     /\ ended[calls[t].id] = "no"
  /\ \A t \in Threads : ~Active(t) => calls[t].id = NoCall
  /\ \A t, u \in Threads : Active(t) /\ Active(u) /\ calls[t].id = calls[u].id => t = u
  /\ \A i \in Ids \ (1 .. nextId - 1) : ended[i] = "no"

HandsShaken ==
  /\ \A t \in Threads :
       ~CallAt(t, "idle") =>
         \/ calls[t].method = "call" /\ host = "ready"
         \/ calls[t].method \in {"initialize", "list"} /\ t = Host /\ host = calls[t].method
  /\ closing # "open" =>
       ~writable /\ host \in {"ready", "failed"} /\ \A t \in Threads : CallAt(t, "idle")

Awaited ==
  /\ \A t \in Threads :
       calls[t].at \in {"registered", "retracting", "awaiting"} =>
         calls[t].id \in pending \/ promise[calls[t].id] # "unset"
  /\ reader = "done" =>
       /\ ~writable \/ ~serverReads
       /\ \A t \in Threads : CallAt(t, "awaiting") => calls[t].id \notin pending

PipesClosed == /\ (Serving => serverReads) /\ (~serverWrites => ~serverReads)
               /\ (~Serving => ~serverReads)

Queued == {queue[k] : k \in DOMAIN queue}
Busy(w) == workers[w].at # "waiting"

Pooled ==
  /\ \A i \in accepted :
       i \in answered \union silenced \union Queued \/ \E w \in Workers : Busy(w) /\ workers[w].id = i
  /\ Queued \subseteq accepted \ (served \union silenced)
  /\ \A w \in Workers : Busy(w) => workers[w].id \in accepted \ (served \union silenced \union Queued)
  /\ \A j, k \in DOMAIN queue : queue[j] = queue[k] => j = k
  /\ \A v, w \in Workers : Busy(v) /\ Busy(w) /\ workers[v].id = workers[w].id => v = w
  /\ answered \subseteq served /\ silenced \intersect served = {} /\ silenced \subseteq accepted
  /\ server = "exited" => accepted \subseteq answered \union silenced

IsRequest(k) == toServer[k].kind = "request"
AskedOnce ==
  /\ accepted \union served \subseteq 1 .. nextId - 1
  /\ \A k \in DOMAIN toServer :
       IsRequest(k) => toServer[k].id \in (1 .. nextId - 1) \ (accepted \union served)
  /\ \A j, k \in DOMAIN toServer :
       IsRequest(j) /\ IsRequest(k) /\ toServer[j].id = toServer[k].id => j = k
  /\ \A t \in Threads : CallAt(t, "registered") =>
       /\ calls[t].id \notin accepted \union served
       /\ \A k \in DOMAIN toServer : IsRequest(k) => toServer[k].id # calls[t].id

AnswersServed ==
  /\ \A k \in DOMAIN toClient : toClient[k].kind = "answer" /\ toClient[k].id \in served
  /\ \A i \in Ids : promise[i] # "refusal" /\ (promise[i] = "answer" => i \in served)

Forgotten(i) == i \in 1 .. nextId - 1 /\ \A t \in Threads : calls[t].id # i
CancelsForgotten ==
  /\ \A i \in cancelled \union silenced : Forgotten(i)
  /\ \A k \in DOMAIN toServer : toServer[k].kind = "cancel" => Forgotten(toServer[k].id)

Announced(n) == initialized \/ \E j \in DOMAIN toServer : j < n /\ toServer[j].kind = "initialized"
Introduced ==
  /\ \A k \in DOMAIN toServer : IsRequest(k) /\ toServer[k].method # "initialize" => Announced(k)
  /\ host \in {"list", "ready"} /\ writable => Announced(Len(toServer) + 1)


McpInv ==
  /\ McpTypeOK /\ CallsOwned /\ HandsShaken /\ Awaited /\ PipesClosed
  /\ Pooled /\ AskedOnce /\ AnswersServed /\ CancelsForgotten /\ Introduced

-----------------------------------------------------------------------------
LEMMA AppendParts ==
  ASSUME NEW S, NEW s \in Seq(S), NEW e
  PROVE  /\ DOMAIN Append(s, e) = 1 .. Len(s) + 1 /\ Len(Append(s, e)) = Len(s) + 1
         /\ DOMAIN s = 1 .. Len(s) /\ Len(s) \in Nat
         /\ \A k \in 1 .. Len(s) : Append(s, e)[k] = s[k]
         /\ Append(s, e)[Len(s) + 1] = e
  OBVIOUS

LEMMA TailParts ==
  ASSUME NEW S, NEW s \in Seq(S), s # <<>>
  PROVE  /\ Tail(s) \in Seq(S) /\ Len(Tail(s)) = Len(s) - 1 /\ Len(s) \in Nat \ {0}
         /\ DOMAIN Tail(s) = 1 .. Len(s) - 1 /\ DOMAIN s = 1 .. Len(s)
         /\ \A k \in 1 .. Len(s) - 1 : Tail(s)[k] = s[k + 1]
         /\ Head(s) = s[1] /\ Head(s) \in S
  OBVIOUS

-----------------------------------------------------------------------------
(* What a step of the client does to its calls.                            *)
Begins(t) ==
  /\ CallAt(t, "idle")
  /\ \E method \in Methods :
       /\ calls' = [calls EXCEPT ![t] = [at |-> "checked", id |-> NoCall, method |-> method]]
       /\ \/ method = "call" /\ host = "ready" /\ writable /\ closing = "open"
          \/ method \in {"initialize", "list"} /\ host = method /\ t = Host
  /\ UNCHANGED <<host, nextId, ended, pending, promise, writable, reader, closing, wire>>

Goes(t, place) ==
  /\ Active(t) /\ place \in {"retracting", "awaiting", "telling"}
  /\ CallGoes(t, place)
  /\ UNCHANGED <<host, nextId, ended, reader, closing>>

CallReturns(t) ==
  /\ CallAt(t, "awaiting") \/ CallAt(t, "telling")
  /\ \E how \in (Outcomes \union {"gave up"}) \ {"refusal"} :
       Returns(t, CallId(t), how) /\ (how = "answer" => CallId(t) \in served)
  /\ UNCHANGED <<nextId, pending, promise, reader, closing>>

LEMMA CallsKnown ==
  ASSUME McpInv, NEW t \in Threads
  PROVE  /\ calls[t] \in Calls
         /\ Active(t) => /\ calls[t].id \in 1 .. nextId - 1 /\ calls[t].id \in Ids /\ calls[t].id < nextId
                         /\ ended[calls[t].id] = "no"
         /\ ~Active(t) => calls[t].id = NoCall
<1>1. calls[t] \in Calls
  BY DEF McpInv, McpTypeOK, ClientTypeOK
<1>2. nextId \in 1 .. MaxIds + 1 /\ MaxIds \in Nat
  BY PipeAssumption DEF McpInv, McpTypeOK, ClientTypeOK, PipeAssumption
<1>3. Active(t) => calls[t].id \in 1 .. nextId - 1 /\ ended[calls[t].id] = "no"
  BY DEF McpInv, CallsOwned
<1>4. \A i \in 1 .. nextId - 1 : i \in Ids /\ i < nextId
  BY <1>2 DEF Ids
<1> QED BY <1>1, <1>3, <1>4 DEF McpInv, CallsOwned

(* A step of a calling thread; whoever fails to write remembers it.        *)
LEMMA ThreadSteps ==
  ASSUME McpInv, NEW t \in Threads, ToolCalled(t) \/ ThreadStep(t) \/ GivesUp(t)
  PROVE  /\ \/ Begins(t) \/ Registers(t) \/ CallReturns(t)
            \/ \E place \in {"retracting", "awaiting", "telling"} : Goes(t, place)
         /\ writable' = writable \/ writable' = FALSE
<1>1. writable' = writable \/ writable' = FALSE
  BY DEF ToolCalled, ThreadStep, Registers, WritesRequest, Written, NotWritten, Retracts, Ready,
     TellsAndReturns, GivesUp
<1>2. ToolCalled(t) => Begins(t)
  BY DEF ToolCalled, Begins, Methods, Connected
<1>3. ASSUME WritesRequest(t) \/ Retracts(t) \/ GivesUp(t)
      PROVE  \E place \in {"retracting", "awaiting", "telling"} : Goes(t, place)
  BY <1>3 DEF WritesRequest, Retracts, GivesUp, Written, NotWritten, CallAt, Active, Goes
<1>4. ASSUME Ready(t) PROVE CallReturns(t)
  <2>1. /\ promise[CallId(t)] \in Outcomes \ {"refusal"}
        /\ promise[CallId(t)] = "answer" => CallId(t) \in served
    BY <1>4, CallsKnown
    DEF Ready, CallAt, CallId, Active, McpInv, McpTypeOK, ClientTypeOK, AnswersServed
  <2> QED BY <1>4, <2>1 DEF Ready, CallReturns
<1>5. ASSUME TellsAndReturns(t) PROVE CallReturns(t)
  <2>1. "gave up" \in (Outcomes \union {"gave up"}) \ {"refusal"} /\ "gave up" # "answer"
    OBVIOUS
  <2>2. Returns(t, CallId(t), "gave up")
    BY <1>5 DEF TellsAndReturns
  <2>3. \E how \in (Outcomes \union {"gave up"}) \ {"refusal"} :
          Returns(t, CallId(t), how) /\ (how = "answer" => CallId(t) \in served)
    BY <2>1, <2>2
  <2> QED BY <1>5, <2>3 DEF TellsAndReturns, CallReturns
<1> QED BY <1>1, <1>2, <1>3, <1>4, <1>5 DEF ThreadStep

LEMMA ToolBegins == \A t : ToolCalled(t) => Begins(t)
  BY DEF ToolCalled, Begins, Methods, Connected

LEMMA HostBegins == HostCalls => Host \in Threads /\ Begins(Host)
  BY ClientAssumption DEF HostCalls, Begins, Methods, ClientAssumption

LEMMA ClientSteps ==
  ASSUME McpInv, ClientStep
  PROVE  \/ \E t \in Threads : Begins(t) \/ Registers(t) \/ CallReturns(t)
         \/ \E t \in Threads, place \in {"retracting", "awaiting", "telling"} : Goes(t, place)
         \/ UNCHANGED <<calls, nextId, ended>>
<1>1. CASE Announces \/ ReadsResponse \/ ReaderEnds \/ Closes \/ ReaderJoined \/ ServerReaped
  BY <1>1 DEF Announces, ReadsResponse, ReaderEnds, Closes, ReaderJoined, ServerReaped
<1> QED BY <1>1, ThreadSteps, HostBegins DEF ClientStep

LEMMA IdsGrow ==
  ASSUME McpInv
  PROVE  /\ nextId \in Nat \ {0} /\ MaxIds \in Nat /\ nextId <= MaxIds + 1
         /\ 1 .. nextId - 1 \subseteq Ids /\ NoCall \notin Ids
         /\ nextId <= MaxIds => nextId \in Ids /\ nextId + 1 \in 1 .. MaxIds + 1
<1>1. MaxIds \in Nat /\ nextId \in 1 .. MaxIds + 1
  BY PipeAssumption DEF McpInv, McpTypeOK, ClientTypeOK, PipeAssumption
<1>2. NoCall \notin Ids
  BY ClientAssumption DEF ClientAssumption, Ids
<1> QED BY <1>1, <1>2 DEF Ids

CallsTyped == calls \in [Threads -> Calls] /\ nextId \in 1 .. MaxIds + 1
              /\ ended \in [Ids -> Outcomes \union {"no", "gave up"}]

LEMMA CallsTypedKept ==
  ASSUME McpInv, [McpNext]_mcpVars
  PROVE  CallsTyped' /\ CallsOwned'
<1>0. /\ nextId \in Nat \ {0} /\ MaxIds \in Nat /\ nextId <= MaxIds + 1
      /\ 1 .. nextId - 1 \subseteq Ids /\ NoCall \notin Ids
      /\ nextId <= MaxIds => nextId \in Ids /\ nextId + 1 \in 1 .. MaxIds + 1
  BY IdsGrow
<1>1. /\ calls \in [Threads -> Calls] /\ ended \in [Ids -> Outcomes \union {"no", "gave up"}]
      /\ nextId \in 1 .. MaxIds + 1
  BY DEF McpInv, McpTypeOK, ClientTypeOK
<1>2. CASE UNCHANGED <<calls, nextId, ended>>
  BY <1>2 DEF McpInv, McpTypeOK, ClientTypeOK, CallsTyped, CallsOwned, Active
<1>3. ASSUME NEW t \in Threads, Begins(t)
      PROVE  CallsTyped' /\ CallsOwned'
  <2>1. PICK method \in Methods :
          calls' = [calls EXCEPT ![t] = [at |-> "checked", id |-> NoCall, method |-> method]]
    BY <1>3 DEF Begins
  <2>2. UNCHANGED <<nextId, ended>>
    BY <1>3 DEF Begins
  <2>3. CallsTyped'
    BY <1>1, <2>1, <2>2 DEF CallsTyped, Calls
  <2>4. ~Active(t)' /\ calls'[t].id = NoCall /\ \A u \in Threads : u # t => calls'[u] = calls[u]
    BY <1>1, <2>1 DEF Active
  <2> QED BY <2>2, <2>3, <2>4 DEF CallsOwned, Active, McpInv
<1>4. ASSUME NEW t \in Threads, Registers(t)
      PROVE  CallsTyped' /\ CallsOwned'
  <2> DEFINE c == [calls[t] EXCEPT !.at = "registered", !.id = nextId]
  <2>1. calls[t] \in Calls /\ nextId \in Ids
    BY <1>0, <1>1, <1>4 DEF Registers
  <2>2. c \in Calls /\ c.at = "registered" /\ c.id = nextId
    BY <2>1 DEF Calls
  <2>3. calls' = [calls EXCEPT ![t] = c] /\ nextId' = nextId + 1 /\ UNCHANGED ended
    BY <1>1, <1>4 DEF Registers
  <2>4. calls'[t] = c /\ \A u \in Threads : u # t => calls'[u] = calls[u]
    BY <1>1, <2>3
  <2> HIDE DEF c
  <2>5. CallsTyped'
    BY <1>0, <1>1, <1>4, <2>2, <2>3 DEF CallsTyped, Registers
  <2>6. ended[nextId] = "no"
    BY <1>0, <2>1 DEF McpInv, CallsOwned
  <2>7. Active(t)' /\ \A u \in Threads : u # t => (Active(u)' <=> Active(u))
    BY <2>2, <2>4 DEF Active
  <2>8. \A u \in Threads : u # t /\ Active(u) => calls[u].id < nextId /\ calls[u].id \in 1 .. nextId - 1
    BY CallsKnown
  <2>9. \A i \in 1 .. nextId - 1 : i \in 1 .. nextId' - 1
    BY <1>0, <2>3
  <2>10. nextId \in 1 .. nextId' - 1
    BY <1>0, <2>3
  <2> QED BY <2>2, <2>3, <2>4, <2>5, <2>6, <2>7, <2>8, <2>9, <2>10 DEF CallsOwned, McpInv, Ids
<1>5. ASSUME NEW t \in Threads, NEW place \in {"retracting", "awaiting", "telling"}, Goes(t, place)
      PROVE  CallsTyped' /\ CallsOwned'
  <2> DEFINE c == [calls[t] EXCEPT !.at = place]
  <2>1. calls[t] \in Calls
    BY <1>1
  <2>2. c \in Calls /\ c.at = place /\ c.id = calls[t].id
    BY <2>1 DEF Calls
  <2>3. calls' = [calls EXCEPT ![t] = c] /\ UNCHANGED <<nextId, ended>> /\ Active(t)
    BY <1>1, <1>5 DEF Goes, CallGoes
  <2>4. calls'[t] = c /\ \A u \in Threads : u # t => calls'[u] = calls[u]
    BY <1>1, <2>3
  <2> HIDE DEF c
  <2>5. CallsTyped'
    BY <1>1, <2>2, <2>3 DEF CallsTyped
  <2>6. \A u \in Threads : (Active(u)' <=> Active(u)) /\ calls'[u].id = calls[u].id
    BY <2>2, <2>3, <2>4 DEF Active
  <2> QED BY <2>3, <2>5, <2>6 DEF CallsOwned, McpInv
<1>6. ASSUME NEW t \in Threads, CallReturns(t)
      PROVE  CallsTyped' /\ CallsOwned'
  <2>1. PICK how \in Outcomes \union {"gave up"} : Returns(t, CallId(t), how)
    BY <1>6 DEF CallReturns
  <2>2. Active(t) /\ UNCHANGED nextId
    BY <1>6 DEF CallReturns, Active, CallAt
  <2>3. calls' = [calls EXCEPT ![t] = NotCalling] /\ ended' = [ended EXCEPT ![calls[t].id] = how]
    BY <2>1 DEF Returns, CallId
  <2>4. NotCalling \in Calls /\ NotCalling.at = "idle" /\ NotCalling.id = NoCall
    BY DEF NotCalling, Calls
  <2>5. CallsTyped'
    BY <1>1, <2>2, <2>3, <2>4 DEF CallsTyped
  <2>6. calls'[t] = NotCalling /\ \A u \in Threads : u # t => calls'[u] = calls[u]
    BY <1>1, <2>3
  <2>7. ~Active(t)' /\ \A u \in Threads : u # t => (Active(u)' <=> Active(u))
    BY <2>4, <2>6 DEF Active
  <2>8. \A i \in Ids : i # calls[t].id => ended'[i] = ended[i]
    BY <1>1, <2>3
  <2>9. \A u \in Threads : u # t /\ Active(u) => calls[u].id # calls[t].id /\ calls[u].id \in Ids
    BY <2>2, CallsKnown DEF McpInv, CallsOwned
  <2>10. \A u \in Threads : Active(u) => calls[u].id \in 1 .. nextId - 1 
    BY CallsKnown
  <2>11. \A i \in Ids \ (1 .. nextId' - 1) : ended'[i] = "no"
    BY <2>2, <2>8, <2>10 DEF CallsOwned, McpInv
  <2>12. \A u \in Threads : Active(u)' => /\ calls'[u].id \in 1 .. nextId' - 1
                                         /\ ended'[calls'[u].id] = "no"
    BY ZenonT(60), <2>2, <2>6, <2>7, <2>8, <2>9, <2>10 DEF CallsOwned, McpInv
  <2>13. \A u \in Threads : ~Active(u)' => calls'[u].id = NoCall
    BY <2>4, <2>6, <2>7 DEF CallsOwned, McpInv
  <2> QED BY <2>2, <2>5, <2>6, <2>7, <2>11, <2>12, <2>13 DEF CallsOwned, McpInv
<1>7. CASE ByServer(ServerStep)
  BY <1>2, <1>7 DEF ByServer, client
<1>8. CASE ByClient(ClientStep)
  BY <1>2, <1>3, <1>4, <1>5, <1>6, <1>8, ClientSteps DEF ByClient
<1> QED BY <1>2, <1>7, <1>8 DEF McpNext, mcpVars, client

LEMMA HandsShakenKept ==
  ASSUME McpInv, [McpNext]_mcpVars
  PROVE  HandsShaken'
<1>1. calls \in [Threads -> Calls] /\ Host \in Threads
  BY ClientAssumption DEF McpInv, McpTypeOK, ClientTypeOK, ClientAssumption
<1>2. CASE UNCHANGED <<calls, host, writable, closing>>
  BY <1>2 DEF McpInv, HandsShaken, CallAt
<1>3. ASSUME NEW t \in Threads, Begins(t)
      PROVE  HandsShaken'
  <2>1. PICK method \in Methods :
          /\ calls' = [calls EXCEPT ![t] = [at |-> "checked", id |-> NoCall, method |-> method]]
          /\ \/ method = "call" /\ host = "ready" /\ writable /\ closing = "open"
             \/ method \in {"initialize", "list"} /\ host = method /\ t = Host
    BY <1>3 DEF Begins
  <2>2. calls'[t].method = method /\ \A u \in Threads : u # t => calls'[u] = calls[u]
    BY <1>1, <2>1
  <2>3. UNCHANGED <<host, writable, closing>>
    BY <1>3 DEF Begins
  <2> QED BY <2>1, <2>2, <2>3 DEF McpInv, HandsShaken, CallAt
<1>4. ASSUME NEW t \in Threads, ~CallAt(t, "idle"), UNCHANGED <<host, closing>>,
             writable' = writable \/ writable' = FALSE,
             ~CallAt(t, "idle")', calls'[t].method = calls[t].method,
             \A u \in Threads : u # t => calls'[u] = calls[u]
      PROVE  HandsShaken'
  BY <1>4 DEF McpInv, HandsShaken, CallAt
<1>5. ASSUME NEW t \in Threads, Registers(t)
      PROVE  HandsShaken'
  <2>1. calls'[t].method = calls[t].method /\ ~CallAt(t, "idle")'
          /\ \A u \in Threads : u # t => calls'[u] = calls[u]
    BY <1>1, <1>5 DEF Registers, CallAt, Calls
  <2> QED BY <1>4, <1>5, <2>1 DEF Registers, CallAt
<1>6. ASSUME NEW t \in Threads, NEW place \in {"retracting", "awaiting", "telling"}, Goes(t, place),
             writable' = writable \/ writable' = FALSE
      PROVE  HandsShaken'
  <2>1. calls'[t].method = calls[t].method /\ ~CallAt(t, "idle")'
          /\ \A u \in Threads : u # t => calls'[u] = calls[u]
    BY <1>1, <1>6 DEF Goes, CallGoes, CallAt, Calls
  <2> QED BY <1>4, <1>6, <2>1 DEF Goes, CallAt, Active
<1>7. ASSUME NEW t \in Threads, CallReturns(t), writable' = writable \/ writable' = FALSE
      PROVE  HandsShaken'
  <2>1. PICK how : Returns(t, CallId(t), how)
    BY <1>7 DEF CallReturns
  <2>2. ~CallAt(t, "idle") /\ UNCHANGED closing
    BY <1>7 DEF CallReturns, CallAt
  <2>3. CallAt(t, "idle")' /\ \A u \in Threads : u # t => calls'[u] = calls[u]
    BY <1>1, <2>1 DEF Returns, NotCalling, CallAt
  <2>4. CASE calls[t].method = "call"
    BY <1>7, <2>1, <2>2, <2>3, <2>4 DEF Returns, McpInv, HandsShaken, CallAt
  <2>5. CASE calls[t].method \in {"initialize", "list"}
    <3>1. closing = "open" /\ t = Host /\ host = calls[t].method
      BY <2>2, <2>5 DEF McpInv, HandsShaken
    <3>2. \A u \in Threads : u # t => CallAt(u, "idle")
      BY <2>5, <3>1 DEF McpInv, HandsShaken
    <3> QED BY <2>2, <2>3, <3>1, <3>2 DEF HandsShaken, CallAt
  <2> QED BY <2>2, <2>4, <2>5 DEF McpInv, HandsShaken
<1>8. CASE ByClient(Announces)
  <2>1. \A t \in Threads : CallAt(t, "idle")
    BY <1>8 DEF ByClient, Announces, McpInv, HandsShaken
  <2> QED BY <1>8, <2>1 DEF ByClient, Announces, McpInv, HandsShaken, CallAt
<1>9. CASE ByClient(Closes)
  BY <1>9 DEF ByClient, Closes, HandsShaken, CallAt
<1>10. CASE ByClient(ReaderJoined \/ ServerReaped)
  BY <1>10 DEF ByClient, ReaderJoined, ServerReaped, McpInv, HandsShaken, CallAt
<1>11. CASE ByClient(ReadsResponse \/ ReaderEnds)
  BY <1>2, <1>11 DEF ByClient, ReadsResponse, ReaderEnds
<1>12. CASE ByServer(ServerStep) \/ UNCHANGED mcpVars
  BY <1>2, <1>12 DEF ByServer, client, mcpVars
<1> QED
  BY <1>1, <1>3, <1>5, <1>6, <1>7, <1>8, <1>9, <1>10, <1>11, <1>12, ThreadSteps, HostBegins
  DEF McpNext, ByClient, ClientStep

LEMMA PlacesTypedKept ==
  ASSUME McpInv, [McpNext]_mcpVars
  PROVE  /\ host' \in {"initialize", "announce", "list", "ready", "failed"}
         /\ writable' \in BOOLEAN /\ reader' \in {"reading", "done"}
         /\ closing' \in {"open", "stopping", "terminating", "closed"}
<1>1. /\ host \in {"initialize", "announce", "list", "ready", "failed"}
      /\ writable \in BOOLEAN /\ reader \in {"reading", "done"}
      /\ closing \in {"open", "stopping", "terminating", "closed"}
  BY DEF McpInv, McpTypeOK, ClientTypeOK
<1>2. ASSUME NEW t \in Threads, ToolCalled(t) \/ ThreadStep(t) \/ GivesUp(t)
      PROVE  host' \in {host, "announce", "list", "ready", "failed"} /\ UNCHANGED <<reader, closing>>
  BY <1>2, ThreadSteps DEF Begins, Registers, CallReturns, Goes, Returns, HostAfter
<1>3. CASE ByClient(ClientStep)
  <2>1. CASE \E t \in Threads : ToolCalled(t) \/ ThreadStep(t) \/ GivesUp(t)
    BY <1>1, <1>2, <2>1, ThreadSteps
  <2>2. CASE HostCalls
    BY <1>1, <2>2 DEF HostCalls
  <2>3. CASE Announces \/ ReadsResponse \/ ReaderEnds \/ Closes \/ ReaderJoined \/ ServerReaped
    BY <1>1, <2>3 DEF Announces, ReadsResponse, ReaderEnds, Closes, ReaderJoined, ServerReaped
  <2> QED BY <1>3, <2>1, <2>2, <2>3 DEF ByClient, ClientStep
<1>4. CASE ByServer(ServerStep) \/ UNCHANGED mcpVars
  BY <1>1, <1>4 DEF ByServer, client, mcpVars
<1> QED BY <1>3, <1>4 DEF McpNext

(* What a step does to the requests that wait.                             *)
PendingTyped == pending \subseteq 1 .. nextId - 1 /\ promise \in [Ids -> Outcomes \union {"unset"}]

LEMMA PendingTypedKept ==
  ASSUME McpInv, [McpNext]_mcpVars
  PROVE  PendingTyped'
<1>1. pending \subseteq 1 .. nextId - 1 /\ promise \in [Ids -> Outcomes \union {"unset"}]
  BY DEF McpInv, McpTypeOK, ClientTypeOK
<1>2. nextId \in Nat \ {0} /\ 1 .. nextId - 1 \subseteq Ids
  BY IdsGrow
<1>3. CASE UNCHANGED <<pending, promise, nextId>>
  BY <1>1, <1>3 DEF PendingTyped
<1>4. CASE ByClient(ClientStep)
  <2>1. ASSUME NEW t \in Threads, Registers(t)
        PROVE  PendingTyped'
    BY <1>1, <1>2, <2>1 DEF Registers, PendingTyped
  <2>2. ASSUME NEW t \in Threads, Retracts(t)
        PROVE  PendingTyped'
    BY <1>1, <2>2 DEF Retracts, PendingTyped, Outcomes
  <2>3. ASSUME NEW t \in Threads, GivesUp(t)
        PROVE  PendingTyped'
    BY <1>1, <2>3 DEF GivesUp, PendingTyped
  <2>4. CASE ReadsResponse
    <3>1. toClient \in Seq(ToClient) /\ toClient # <<>>
      BY <2>4 DEF ReadsResponse, McpInv, McpTypeOK, WireTypeOK
    <3>2. Head(toClient) \in ToClient
      BY <3>1, TailParts
    <3>3. Head(toClient).kind \in Outcomes
      BY <3>2 DEF ToClient, Outcomes
    <3> QED BY <1>1, <2>4, <3>3 DEF ReadsResponse, PendingTyped, Completed
  <2>5. CASE ReaderEnds
    BY <1>1, <2>5 DEF ReaderEnds, FailsAll, PendingTyped, Outcomes
  <2>6. CASE HostCalls \/ Announces \/ Closes \/ ReaderJoined \/ ServerReaped
    BY <1>3, <2>6 DEF HostCalls, Announces, Closes, ReaderJoined, ServerReaped
  <2>7. ASSUME NEW t \in Threads, ToolCalled(t) \/ WritesRequest(t) \/ Ready(t) \/ TellsAndReturns(t)
        PROVE  PendingTyped'
    BY <1>3, <2>7 DEF ToolCalled, WritesRequest, Ready, TellsAndReturns
  <2> QED BY <1>4, <2>1, <2>2, <2>3, <2>4, <2>5, <2>6, <2>7 DEF ByClient, ClientStep, ThreadStep
<1>5. CASE ByServer(ServerStep) \/ UNCHANGED mcpVars
  BY <1>3, <1>5 DEF ByServer, client, mcpVars
<1> QED BY <1>4, <1>5 DEF McpNext

LEMMA PipesClosedKept ==
  ASSUME McpInv, [McpNext]_mcpVars
  PROVE  PipesClosed' /\ {clientWrites', serverReads', serverWrites'} \subseteq BOOLEAN
<1> USE DEF PipesClosed, Serving, McpInv, McpTypeOK, WireTypeOK
<1>1. CASE UNCHANGED <<server, serverReads, serverWrites>> /\ clientWrites' \in {clientWrites, FALSE}
  BY <1>1
<1>2. CASE ByClient(ClientStep)
  <2>1. UNCHANGED <<serverReads, serverWrites>> /\ clientWrites' \in {clientWrites, FALSE}
    <3>1. ASSUME NEW t \in Threads, ToolCalled(t) \/ ThreadStep(t) \/ GivesUp(t)
          PROVE  UNCHANGED <<clientWrites, serverReads, serverWrites>>
      BY <3>1 DEF ToolCalled, ThreadStep, Registers, WritesRequest, Written, NotWritten, Retracts,
         Ready, TellsAndReturns, GivesUp, wire
    <3>2. ASSUME \/ HostCalls \/ Announces \/ ReadsResponse \/ ReaderEnds \/ Closes
                 \/ ReaderJoined \/ ServerReaped
          PROVE  UNCHANGED <<serverReads, serverWrites>> /\ clientWrites' \in {clientWrites, FALSE}
      BY <3>2 DEF HostCalls, Announces, ReadsResponse, ReaderEnds, Closes, ReaderJoined, ServerReaped,
         wire
    <3> QED BY <1>2, <3>1, <3>2 DEF ByClient, ClientStep
  <2> QED BY <1>1, <1>2, <2>1 DEF ByClient, serverVars
<1>3. CASE ByServer(ServerStep)
  <2>1. CASE AnswersInline \/ Queues \/ NotesInitialized \/ NotesCancelled
    BY <1>1, <2>1 DEF AnswersInline, Queues, NotesInitialized, NotesCancelled, Consumed, serverVars
  <2>2. CASE InputEnds
    BY <2>2 DEF InputEnds, wire
  <2>4. CASE Exits \/ Dies
    BY <2>4 DEF Exits, Dies
  <2>5. CASE IsGone
    BY <2>5 DEF IsGone
  <2>3. ASSUME NEW w \in Workers, PoolStep(w) \/ HandlerReturns(w)
        PROVE  UNCHANGED <<server, clientWrites, serverReads, serverWrites>>
    BY <2>3 DEF PoolStep, WorkerTakes, WorkerAnswers, HandlerReturns, wire
  <2> QED BY <1>1, <1>3, <2>1, <2>2, <2>3, <2>4, <2>5 DEF ByServer, ServerStep, ServerReader
<1>4. CASE UNCHANGED mcpVars
  BY <1>1, <1>4 DEF mcpVars, wire, serverVars
<1> QED BY <1>2, <1>3, <1>4 DEF McpNext

(* Who waits is told, and nobody begins to wait when nobody reads.         *)
Waits(t) == calls[t].at \in {"registered", "retracting", "awaiting"}

LEMMA AwaitedKept ==
  ASSUME McpInv, [McpNext]_mcpVars
  PROVE  Awaited'
<1>1. calls \in [Threads -> Calls]
  BY DEF McpInv, McpTypeOK, ClientTypeOK
<1>2. promise \in [Ids -> Outcomes \union {"unset"}]
  BY DEF McpInv, McpTypeOK, ClientTypeOK
<1>3. Awaited /\ CallsOwned
  BY DEF McpInv
<1>4. CASE /\ UNCHANGED <<calls, pending, promise, reader>>
           /\ writable' = writable \/ ~writable'
           /\ serverReads' = serverReads \/ ~serverReads'
  BY <1>3, <1>4 DEF Awaited, CallAt
<1>5. ASSUME NEW t \in Threads, Begins(t)
      PROVE  Awaited'
  <2>1. calls'[t].at = "checked" /\ \A u \in Threads : u # t => calls'[u] = calls[u]
    BY <1>1, <1>5 DEF Begins
  <2> QED BY <1>3, <1>5, <2>1 DEF Begins, Awaited, CallAt, wire
<1>6. ASSUME NEW t \in Threads, Registers(t)
      PROVE  Awaited'
  <2>1. /\ calls'[t].at = "registered" /\ calls'[t].id = nextId
        /\ \A u \in Threads : u # t => calls'[u] = calls[u]
    BY <1>1, <1>6 DEF Registers, Calls
  <2>2. pending' = pending \union {nextId} /\ UNCHANGED <<promise, writable, serverReads, reader>>
    BY <1>6 DEF Registers, wire
  <2>3. \A u \in Threads : CallAt(u, "awaiting") => calls[u].id # nextId
    BY CallsKnown, IdsGrow DEF CallAt, Active
  <2> QED BY <1>3, <2>1, <2>2, <2>3 DEF Awaited, CallAt
<1>7. ASSUME NEW t \in Threads, WritesRequest(t)
      PROVE  Awaited'
  <2>1. CallAt(t, "registered") /\ UNCHANGED <<pending, promise, reader, serverReads>>
    BY <1>7 DEF WritesRequest, Written, NotWritten, wire
  <2>2. CASE Written(t, Request(calls[t].id, calls[t].method), "awaiting")
    <3>1. calls'[t].at = "awaiting" /\ calls'[t].id = calls[t].id
            /\ \A u \in Threads : u # t => calls'[u] = calls[u]
      BY <1>1, <2>2 DEF Written, CallGoes, Calls
    <3>2. reader # "done"
      BY <1>3, <2>2 DEF Awaited, Written, WritesToServer
    <3> QED BY <1>3, <2>1, <3>1, <3>2 DEF Awaited, CallAt
  <2>3. CASE NotWritten(t, "retracting")
    <3>1. calls'[t].at = "retracting" /\ calls'[t].id = calls[t].id /\ writable' = FALSE
            /\ \A u \in Threads : u # t => calls'[u] = calls[u]
      BY <1>1, <2>3 DEF NotWritten, CallGoes, Calls
    <3> QED BY <1>3, <2>1, <3>1 DEF Awaited, CallAt
  <2> QED BY <1>7, <2>2, <2>3 DEF WritesRequest
<1>8. ASSUME NEW t \in Threads, Retracts(t) \/ GivesUp(t)
      PROVE  Awaited'
  <2>1. /\ Active(t) /\ calls[t].id \in Ids
        /\ \A u \in Threads : u # t /\ Active(u) => calls[u].id # calls[t].id
    BY <1>3, <1>8, CallsKnown DEF Retracts, GivesUp, CallAt, Active, CallsOwned
  <2>2. /\ calls'[t].id = calls[t].id /\ \A u \in Threads : u # t => calls'[u] = calls[u]
        /\ pending' = pending \ {calls[t].id} /\ UNCHANGED <<reader, writable, serverReads>>
    BY <1>1, <1>8 DEF Retracts, GivesUp, CallGoes, Calls, CallId, wire
  <2>3. \A i \in Ids : i # calls[t].id => promise'[i] = promise[i]
    BY <1>2, <1>8 DEF Retracts, GivesUp
  <2>4. \A u \in Threads : u # t /\ Active(u) => calls[u].id \in Ids
    BY CallsKnown
  <2>5. \A u \in Threads : u # t /\ Waits(u)' =>
          calls'[u].id \in pending' \/ promise'[calls'[u].id] # "unset"
    BY <1>3, <2>1, <2>2, <2>3, <2>4 DEF Waits, Active, Awaited
  <2>6. Waits(t)' => calls'[t].id \in pending' \/ promise'[calls'[t].id] # "unset"
    <3>1. CASE Retracts(t)
      BY <1>2, <1>3, <2>1, <2>2, <3>1 DEF Retracts, Waits, Awaited, CallAt
    <3>2. CASE GivesUp(t)
      BY <1>1, <3>2 DEF GivesUp, CallGoes, Waits
    <3> QED BY <1>8, <3>1, <3>2
  <2> QED BY <1>3, <2>2, <2>5, <2>6 DEF Awaited, Waits, CallAt
<1>9. ASSUME NEW t \in Threads, Ready(t) \/ TellsAndReturns(t)
      PROVE  Awaited'
  <2>1. calls'[t].at = "idle" /\ \A u \in Threads : u # t => calls'[u] = calls[u]
    <3>1. ASSUME NEW id, NEW how, Returns(t, id, how)
          PROVE  calls'[t].at = "idle" /\ \A u \in Threads : u # t => calls'[u] = calls[u]
      BY <1>1, <3>1 DEF Returns, NotCalling
    <3> QED BY <1>9, <3>1 DEF Ready, TellsAndReturns
  <2>2. /\ UNCHANGED <<pending, promise, reader, serverReads>>
        /\ writable' = writable \/ ~writable'
    BY <1>9 DEF Ready, TellsAndReturns, wire
  <2> QED BY <1>3, <2>1, <2>2 DEF Awaited, CallAt
<1>10. CASE ReadsResponse
  <2>1. toClient \in Seq(ToClient) /\ toClient # <<>>
    BY <1>10 DEF ReadsResponse, McpInv, McpTypeOK, WireTypeOK
  <2>2. Head(toClient).kind # "unset" /\ Head(toClient).id \in Ids
    <3>1. Head(toClient) \in ToClient
      BY <2>1, TailParts
    <3> QED BY <3>1 DEF ToClient
  <2>3. reader' # "done" /\ UNCHANGED calls
    BY <1>10 DEF ReadsResponse
  <2>4. \A i \in Ids : i \in pending \/ promise[i] # "unset" => i \in pending' \/ promise'[i] # "unset"
    BY <1>2, <1>10, <2>2 DEF ReadsResponse, Completed
  <2>5. \A u \in Threads : Waits(u) => calls[u].id \in Ids
    BY CallsKnown DEF Waits, Active
  <2> QED BY <1>3, <2>3, <2>4, <2>5 DEF Awaited, Waits
<1>11. CASE ReaderEnds
  <2>1. ~writable \/ ~serverReads
    BY <1>11 DEF ReaderEnds, Woken, AtEof, McpInv, PipesClosed, HandsShaken
  <2>2. pending' = {} /\ UNCHANGED <<calls, writable, serverReads>>
    BY <1>11 DEF ReaderEnds, FailsAll, wire
  <2>3. \A i \in Ids : i \in pending \/ promise[i] # "unset" => promise'[i] # "unset"
    BY <1>2, <1>11 DEF ReaderEnds, FailsAll
  <2>4. \A u \in Threads : Waits(u) => calls[u].id \in Ids
    BY CallsKnown DEF Waits, Active
  <2> QED BY <1>3, <2>1, <2>2, <2>3, <2>4 DEF Awaited, Waits
<1>12. CASE Announces \/ Closes \/ ReaderJoined \/ ServerReaped
  BY <1>4, <1>12 DEF Announces, Closes, ReaderJoined, ServerReaped, wire
<1>13. CASE ByServer(ServerStep)
  <2>1. serverReads' = serverReads \/ ~serverReads'
    BY <1>13 DEF ByServer, ServerStep, ServerReader, PoolStep, AnswersInline, Queues, NotesInitialized,
       NotesCancelled, InputEnds, Consumed, WorkerTakes, WorkerAnswers, HandlerReturns, Exits, Dies,
       IsGone, wire
  <2> QED BY <1>4, <1>13, <2>1 DEF ByServer, client
<1>14. CASE UNCHANGED mcpVars
  BY <1>4, <1>14 DEF mcpVars, client, wire
<1> QED
  BY <1>5, <1>6, <1>7, <1>8, <1>9, <1>10, <1>11, <1>12, <1>13, <1>14, HostBegins,
     ToolBegins
  DEF McpNext, ByClient, ClientStep, ThreadStep

-----------------------------------------------------------------------------
(* What a step does to the pipes.                                          *)
LEMMA ClientWrites ==
  ASSUME ClientStep
  PROVE  /\ \/ UNCHANGED toServer
            \/ \E t \in Threads :
                 \/ WritesRequest(t) /\ writable
                      /\ WritesToServer(Request(calls[t].id, calls[t].method))
                 \/ TellsAndReturns(t) /\ WritesToServer(Cancel(CallId(t)))
            \/ Announces /\ writable /\ WritesToServer(Initialized)
         /\ UNCHANGED toClient \/ ReadsResponse
<1>1. ASSUME NEW t \in Threads, WritesRequest(t)
      PROVE  /\ \/ UNCHANGED toServer
                \/ writable /\ WritesToServer(Request(calls[t].id, calls[t].method))
             /\ UNCHANGED toClient
  BY <1>1 DEF WritesRequest, Written, NotWritten, wire
<1>2. ASSUME NEW t \in Threads, TellsAndReturns(t)
      PROVE  /\ UNCHANGED toServer \/ WritesToServer(Cancel(CallId(t)))
             /\ UNCHANGED toClient
  BY <1>2 DEF TellsAndReturns, wire
<1>3. ASSUME Announces
      PROVE  /\ UNCHANGED toServer \/ (writable /\ WritesToServer(Initialized))
             /\ UNCHANGED toClient
  BY <1>3 DEF Announces, wire
<1>4. ASSUME NEW t \in Threads, ToolCalled(t) \/ Registers(t) \/ Retracts(t) \/ Ready(t) \/ GivesUp(t)
      PROVE  UNCHANGED <<toServer, toClient>>
  BY <1>4 DEF ToolCalled, Registers, Retracts, Ready, GivesUp, wire
<1>5. ASSUME HostCalls \/ ReaderEnds \/ Closes \/ ReaderJoined \/ ServerReaped
      PROVE  UNCHANGED <<toServer, toClient>>
  BY <1>5 DEF HostCalls, ReaderEnds, Closes, ReaderJoined, ServerReaped, wire
<1>6. ReadsResponse => UNCHANGED toServer
  BY DEF ReadsResponse
<1> QED BY <1>1, <1>2, <1>3, <1>4, <1>5, <1>6 DEF ClientStep, ThreadStep

Reads == AnswersInline \/ Queues \/ NotesInitialized \/ NotesCancelled

LEMMA ServerWrites ==
  ASSUME ServerStep
  PROVE  /\ \/ UNCHANGED toServer
            \/ Reads /\ toServer # <<>> /\ toServer' = Tail(toServer)
         /\ \/ UNCHANGED toClient
            \/ AnswersInline /\ \E how \in {"answer", "refusal"} :
                 WritesToClient([kind |-> how, id |-> Head(toServer).id])
            \/ \E w \in Workers : WorkerAnswers(w) /\ WritesToClient(Answer(workers[w].id))
<1>1. CASE AnswersInline
  BY <1>1 DEF AnswersInline, Reads, NextRequest, Consumed, Answer, Refusal
<1>2. CASE Queues \/ NotesInitialized \/ NotesCancelled
  BY <1>2 DEF Queues, NotesInitialized, NotesCancelled, Reads, NextRequest, Consumed
<1>3. CASE InputEnds \/ Exits \/ Dies \/ IsGone
  BY <1>3 DEF InputEnds, Exits, Dies, IsGone, wire
<1>4. ASSUME NEW w \in Workers, WorkerTakes(w) \/ HandlerReturns(w)
      PROVE  UNCHANGED <<toServer, toClient>>
  BY <1>4 DEF WorkerTakes, HandlerReturns, wire
<1>5. ASSUME NEW w \in Workers, WorkerAnswers(w)
      PROVE  UNCHANGED toServer /\ WritesToClient(Answer(workers[w].id))
  BY <1>5 DEF WorkerAnswers
<1> QED BY <1>1, <1>2, <1>3, <1>4, <1>5 DEF ServerStep, ServerReader, PoolStep

(* served notes each answer as it is written.                              *)
LEMMA ServedGrows ==
  ASSUME McpInv, [McpNext]_mcpVars
  PROVE  \/ UNCHANGED served /\ (toClient' = toClient \/ (ReadsResponse /\ toClient' = Tail(toClient)))
         \/ \E how \in {"answer", "refusal"}, i \in Ids :
              /\ served' = served \union {i} /\ Len(toClient) < PipeSize
              /\ toClient' = Append(toClient, [kind |-> how, id |-> i])
              /\ \/ AnswersInline /\ i = Head(toServer).id
                 \/ \E w \in Workers : WorkerAnswers(w) /\ i = workers[w].id /\ how = "answer"
<1>1. toClient \in Seq(ToClient) /\ toServer \in Seq(ToServer)
  BY DEF McpInv, McpTypeOK, WireTypeOK
<1>2. CASE ByClient(ClientStep)
  BY <1>2, ClientWrites DEF ByClient, ReadsResponse
<1>3. CASE UNCHANGED mcpVars
  BY <1>3 DEF mcpVars, wire
<1>4. CASE ByServer(ServerStep)
  <2>1. CASE UNCHANGED toClient
    BY <1>4, <2>1 DEF ByServer, NotesServed
  <2>2. ASSUME NEW m \in ToClient, WritesToClient(m)
        PROVE  /\ served' = served \union {m.id} /\ Len(toClient) < PipeSize
               /\ toClient' = Append(toClient, m)
    <3>1. toClient' = Append(toClient, m)
      BY <2>2 DEF WritesToClient
    <3>2. Len(toClient') = Len(toClient) + 1 /\ Len(toClient) \in Nat /\ toClient'[Len(toClient')] = m
      BY <1>1, <3>1, AppendParts
    <3>3. Len(toClient') > Len(toClient)
      BY <3>2
    <3> QED BY <1>4, <2>2, <3>1, <3>2, <3>3 DEF ByServer, NotesServed, WritesToClient
  <2>3. ASSUME AnswersInline, NEW how \in {"answer", "refusal"},
               WritesToClient([kind |-> how, id |-> Head(toServer).id])
        PROVE  \E i \in Ids :
                 /\ served' = served \union {i} /\ Len(toClient) < PipeSize
                 /\ toClient' = Append(toClient, [kind |-> how, id |-> i])
                 /\ i = Head(toServer).id
    <3>1. toServer # <<>> /\ Head(toServer).kind = "request"
      BY <2>3 DEF AnswersInline, NextRequest
    <3>2. Head(toServer) \in ToServer
      BY <1>1, <3>1, TailParts
    <3>3. Head(toServer).id \in Ids
      BY <3>1, <3>2 DEF ToServer, Initialized
    <3>4. [kind |-> how, id |-> Head(toServer).id] \in ToClient
      BY <3>3 DEF ToClient
    <3> QED BY <2>2, <2>3, <3>3, <3>4
  <2>4. ASSUME NEW w \in Workers, WorkerAnswers(w), WritesToClient(Answer(workers[w].id))
        PROVE  \E i \in Ids :
                 /\ served' = served \union {i} /\ Len(toClient) < PipeSize
                 /\ toClient' = Append(toClient, [kind |-> "answer", id |-> i])
                 /\ i = workers[w].id
    <3>1. workers[w].id \in Ids
      BY <2>4 DEF WorkerAnswers, McpInv, Pooled, Busy, McpTypeOK, ServerTypeOK
    <3>2. Answer(workers[w].id) \in ToClient
      BY <3>1 DEF Answer, ToClient
    <3> QED BY <2>2, <2>4, <3>1, <3>2 DEF Answer
  <2> QED BY <1>4, <2>1, <2>3, <2>4, ServerWrites DEF ByServer
<1> QED BY <1>2, <1>3, <1>4 DEF McpNext

LEMMA WireTypedKept ==
  ASSUME McpInv, [McpNext]_mcpVars
  PROVE  /\ toServer' \in Seq(ToServer) /\ Len(toServer') <= PipeSize
         /\ toClient' \in Seq(ToClient) /\ Len(toClient') <= PipeSize
         /\ served' \subseteq Ids
<1>1. /\ toServer \in Seq(ToServer) /\ Len(toServer) <= PipeSize
      /\ toClient \in Seq(ToClient) /\ Len(toClient) <= PipeSize
      /\ served \subseteq Ids /\ PipeSize \in Nat
  BY PipeAssumption DEF McpInv, McpTypeOK, WireTypeOK, PipeAssumption
<1>2. ASSUME NEW m \in ToServer, WritesToServer(m)
      PROVE  toServer' \in Seq(ToServer) /\ Len(toServer') <= PipeSize
  BY <1>1, <1>2 DEF WritesToServer
<1>3. ASSUME toServer # <<>>, toServer' = Tail(toServer)
      PROVE  toServer' \in Seq(ToServer) /\ Len(toServer') <= PipeSize
  BY <1>1, <1>3, TailParts
<1>4. toServer' \in Seq(ToServer) /\ Len(toServer') <= PipeSize
  <2>1. CASE UNCHANGED toServer
    BY <1>1, <2>1
  <2>2. CASE ByClient(ClientStep)
    <3>1. ASSUME NEW t \in Threads, WritesRequest(t)
          PROVE  Request(calls[t].id, calls[t].method) \in ToServer
      <4>1. calls[t] \in Calls /\ calls[t].id \in Ids /\ ~CallAt(t, "idle")
        BY <3>1, CallsKnown DEF WritesRequest, CallAt, Active
      <4>2. calls[t].method \in Methods
        BY <4>1 DEF McpInv, HandsShaken, Methods
      <4> QED BY <4>1, <4>2 DEF Request, ToServer
    <3>2. ASSUME NEW t \in Threads, TellsAndReturns(t)
          PROVE  Cancel(CallId(t)) \in ToServer
      <4>1. calls[t].id \in Ids
        BY <3>2, CallsKnown DEF TellsAndReturns, CallAt, Active
      <4> QED BY <4>1 DEF Cancel, CallId, ToServer
    <3>3. Initialized \in ToServer
      BY DEF ToServer
    <3> QED BY <1>2, <2>1, <2>2, <3>1, <3>2, <3>3, ClientWrites DEF ByClient
  <2>3. CASE ByServer(ServerStep)
    BY <1>3, <2>1, <2>3, ServerWrites DEF ByServer
  <2> QED BY <2>1, <2>2, <2>3 DEF McpNext, mcpVars, wire
<1>5. toClient' \in Seq(ToClient) /\ Len(toClient') <= PipeSize /\ served' \subseteq Ids
  <2>1. CASE UNCHANGED served /\ toClient' = toClient
    BY <1>1, <2>1
  <2>2. CASE UNCHANGED served /\ ReadsResponse /\ toClient' = Tail(toClient)
    BY <1>1, <2>2, TailParts DEF ReadsResponse
  <2>3. ASSUME NEW how \in {"answer", "refusal"}, NEW i \in Ids,
               served' = served \union {i}, Len(toClient) < PipeSize,
               toClient' = Append(toClient, [kind |-> how, id |-> i])
        PROVE  toClient' \in Seq(ToClient) /\ Len(toClient') <= PipeSize /\ served' \subseteq Ids
    <3>1. [kind |-> how, id |-> i] \in ToClient
      BY DEF ToClient
    <3> QED BY <1>1, <2>3, <3>1
  <2> QED BY <2>1, <2>2, <2>3, ServedGrows
<1> QED BY <1>4, <1>5

-----------------------------------------------------------------------------
(* The pool: what a request that was accepted is at any time.              *)
LEMMA FirstRequest ==
  ASSUME McpInv, toServer # <<>>
  PROVE  /\ Head(toServer) = toServer[1] /\ 1 \in DOMAIN toServer /\ Head(toServer) \in ToServer
         /\ Head(toServer).kind = "request" =>
              /\ Head(toServer).id \in Ids
              /\ Head(toServer).id \notin accepted \union served \union answered \union silenced \union Queued
              /\ \A w \in Workers : Busy(w) => workers[w].id # Head(toServer).id
<1>1. toServer \in Seq(ToServer)
  BY DEF McpInv, McpTypeOK, WireTypeOK
<1>2. Head(toServer) = toServer[1] /\ 1 \in DOMAIN toServer /\ Head(toServer) \in ToServer
  BY <1>1, TailParts
<1>3. Head(toServer).kind = "request" =>
        Head(toServer).id \in Ids /\ Head(toServer).id \notin accepted \union served
  BY <1>2 DEF McpInv, AskedOnce, IsRequest, ToServer, Initialized
<1> QED BY <1>2, <1>3 DEF McpInv, Pooled

LEMMA QueuedAppended ==
  ASSUME McpInv, NEW i, queue' = Append(queue, i)
  PROVE  /\ Queued' = Queued \union {i}
         /\ i \notin Queued => \A j, k \in DOMAIN queue' : queue'[j] = queue'[k] => j = k
<1>1. queue \in Seq(Ids)
  BY DEF McpInv, McpTypeOK, ServerTypeOK
<1>2. /\ DOMAIN queue' = 1 .. Len(queue) + 1 /\ DOMAIN queue = 1 .. Len(queue) /\ Len(queue) \in Nat
      /\ \A k \in 1 .. Len(queue) : queue'[k] = queue[k]
      /\ queue'[Len(queue) + 1] = i
  BY <1>1, AppendParts
<1>3. DOMAIN queue' = DOMAIN queue \union {Len(queue) + 1}
  BY <1>2
<1> QED BY <1>2, <1>3 DEF Queued, McpInv, Pooled

LEMMA QueuedTail ==
  ASSUME McpInv, queue # <<>>, queue' = Tail(queue)
  PROVE  /\ Head(queue) \in Queued /\ Queued' = Queued \ {Head(queue)}
         /\ \A j, k \in DOMAIN queue' : queue'[j] = queue'[k] => j = k
<1>1. queue \in Seq(Ids)
  BY DEF McpInv, McpTypeOK, ServerTypeOK
<1>2. /\ DOMAIN queue' = 1 .. Len(queue) - 1 /\ DOMAIN queue = 1 .. Len(queue)
      /\ Len(queue) \in Nat \ {0}
      /\ \A k \in 1 .. Len(queue) - 1 : queue'[k] = queue[k + 1]
      /\ Head(queue) = queue[1]
  BY <1>1, TailParts
<1>3. \A j, k \in DOMAIN queue : queue[j] = queue[k] => j = k
  BY DEF McpInv, Pooled
<1>4. \A k \in DOMAIN queue' : queue'[k] \in Queued /\ queue'[k] # Head(queue)
  <2> SUFFICES ASSUME NEW k \in DOMAIN queue' PROVE queue'[k] \in Queued /\ queue'[k] # Head(queue)
    OBVIOUS
  <2>1. k + 1 \in DOMAIN queue /\ k + 1 # 1 /\ queue'[k] = queue[k + 1] /\ 1 \in DOMAIN queue
    BY <1>2
  <2> QED BY <1>2, <1>3, <2>1 DEF Queued
<1>5. \A k \in DOMAIN queue : queue[k] # Head(queue) => queue[k] \in Queued'
  <2> SUFFICES ASSUME NEW k \in DOMAIN queue, queue[k] # Head(queue) PROVE queue[k] \in Queued'
    OBVIOUS
  <2>1. k - 1 \in DOMAIN queue' /\ queue'[k - 1] = queue[k]
    BY <1>2
  <2> QED BY <2>1 DEF Queued
<1>6. \A j, k \in DOMAIN queue' : queue'[j] = queue'[k] => j = k
  <2> SUFFICES ASSUME NEW j \in DOMAIN queue', NEW k \in DOMAIN queue', queue'[j] = queue'[k]
               PROVE  j = k
    OBVIOUS
  <2>1. j + 1 \in DOMAIN queue /\ k + 1 \in DOMAIN queue /\ queue[j + 1] = queue[k + 1]
    BY <1>2
  <2>2. j + 1 = k + 1
    BY <1>3, <2>1
  <2> QED BY <1>2, <2>2
<1>7. Head(queue) \in Queued
  BY <1>2 DEF Queued
<1> QED BY <1>4, <1>5, <1>6, <1>7 DEF Queued

LEMMA ServerTypedKept ==
  ASSUME McpInv, [McpNext]_mcpVars
  PROVE  ServerTypeOK'
<1>1. ServerTypeOK
  BY DEF McpInv, McpTypeOK
<1> USE <1>1 DEF ServerTypeOK
<1>2. CASE UNCHANGED serverVars
  BY <1>2 DEF serverVars
<1>3. CASE AnswersInline
  BY <1>2, <1>3 DEF AnswersInline
<1>4. CASE Queues
  <2>1. Head(toServer).id \in Ids
    BY <1>4, FirstRequest DEF Queues, NextRequest
  <2> QED BY <1>4, <2>1 DEF Queues
<1>5. CASE NotesInitialized
  BY <1>5 DEF NotesInitialized
<1>6. CASE NotesCancelled
  <2>1. Head(toServer).id \in Ids
    BY <1>6, FirstRequest DEF NotesCancelled, NextRequest, ToServer, Initialized
  <2> QED BY <1>6, <2>1 DEF NotesCancelled
<1>7. CASE InputEnds \/ Exits \/ Dies \/ IsGone
  BY <1>7 DEF InputEnds, Exits, Dies, IsGone
<1>8. ASSUME NEW w \in Workers, WorkerTakes(w)
      PROVE  ServerTypeOK'
  <2>1. Head(queue) \in Ids /\ Tail(queue) \in Seq(Ids)
    BY <1>8, TailParts DEF WorkerTakes
  <2> QED BY <1>8, <2>1 DEF WorkerTakes
<1>9. ASSUME NEW w \in Workers, HandlerReturns(w)
      PROVE  ServerTypeOK'
  <2>1. workers[w].id \in Ids
    BY <1>9 DEF HandlerReturns, McpInv, Pooled, Busy
  <2>2. workers' \in [Workers -> [at : {"waiting", "running", "answering"}, id : Ids \union {NoRequest}]]
    BY <1>9 DEF HandlerReturns, Waiting
  <2> QED BY <1>9, <2>1, <2>2 DEF HandlerReturns
<1>10. ASSUME NEW w \in Workers, WorkerAnswers(w)
       PROVE  ServerTypeOK'
  <2>1. workers[w].id \in Ids
    BY <1>10 DEF WorkerAnswers, McpInv, Pooled, Busy
  <2> QED BY <1>10, <2>1 DEF WorkerAnswers, Waiting
<1> QED
  BY <1>2, <1>3, <1>4, <1>5, <1>6, <1>7, <1>8, <1>9, <1>10
  DEF McpNext, ByClient, ByServer, mcpVars, ServerStep, ServerReader, PoolStep

LEMMA PooledKept ==
  ASSUME McpInv, [McpNext]_mcpVars
  PROVE  Pooled'
<1>1. Pooled
  BY DEF McpInv
<1>2. workers \in [Workers -> [at : {"waiting", "running", "answering"}, id : Ids \union {NoRequest}]]
  BY DEF McpInv, McpTypeOK, ServerTypeOK
<1>3. CASE UNCHANGED <<server, queue, workers, accepted, answered, silenced, served>>
  BY <1>1, <1>3 DEF Pooled, Queued, Busy
<1>4. CASE ByClient(ClientStep) \/ UNCHANGED mcpVars
  BY <1>3, <1>4 DEF ByClient, serverVars, mcpVars
<1>5. CASE AnswersInline
  <2>1. PICK i \in Ids : served' \in {served, served \union {i}} /\ i \notin accepted
    <3>1. toServer # <<>> /\ Head(toServer).kind = "request"
      BY <1>5 DEF AnswersInline, NextRequest
    <3>2. Head(toServer).id \in Ids /\ Head(toServer).id \notin accepted
      BY <3>1, FirstRequest
    <3>3. \A w \in Workers : ~WorkerAnswers(w)
      BY <1>2, <1>5 DEF AnswersInline, WorkerAnswers, Waiting, serverVars
    <3> QED BY <3>2, <3>3, ServedGrows
  <2>2. UNCHANGED <<server, queue, workers, accepted, answered, silenced>>
    BY <1>5 DEF AnswersInline, serverVars
  <2> QED BY <1>1, <2>1, <2>2 DEF Pooled, Queued, Busy
<1>6. ASSUME ByServer(ServerStep), UNCHANGED toClient
      PROVE  UNCHANGED served
  <2>1. Len(toClient) \in Nat
    BY DEF McpInv, McpTypeOK, WireTypeOK
  <2> QED BY <1>6, <2>1 DEF ByServer, NotesServed
<1>7. CASE ByServer(Queues)
  <2> DEFINE i == Head(toServer).id
  <2>1. toServer # <<>> /\ Head(toServer).kind = "request" /\ server = "serving"
    BY <1>7 DEF ByServer, Queues, NextRequest
  <2>2. i \notin accepted \union served \union answered \union silenced \union Queued
    BY <2>1, FirstRequest
  <2>3. queue' = Append(queue, i) /\ accepted' = accepted \union {i}
          /\ UNCHANGED <<server, workers, answered, silenced, toClient>>
    BY <1>7 DEF ByServer, Queues
  <2>4. UNCHANGED served
    BY <1>7, <2>3 DEF ByServer, NotesServed, McpInv, McpTypeOK, WireTypeOK
  <2>5. Queued' = Queued \union {i} /\ \A j, k \in DOMAIN queue' : queue'[j] = queue'[k] => j = k
    BY <2>2, <2>3, QueuedAppended
  <2>6. \A w \in Workers : Busy(w) => workers[w].id # i
    BY <2>1, FirstRequest
  <2> HIDE DEF i
  <2> QED BY <1>1, <2>1, <2>2, <2>3, <2>4, <2>5, <2>6 DEF Pooled, Busy
<1>8. ASSUME NEW w \in Workers, ByServer(WorkerTakes(w))
      PROVE  Pooled'
  <2> DEFINE i == Head(queue)
  <2>1. queue # <<>> /\ queue' = Tail(queue) /\ workers[w].at = "waiting"
          /\ workers' = [workers EXCEPT ![w] = [at |-> "running", id |-> i]]
          /\ UNCHANGED <<server, accepted, answered, silenced, toClient>>
    BY <1>8 DEF ByServer, WorkerTakes, wire
  <2>2. UNCHANGED served
    BY <1>8, <2>1 DEF ByServer, NotesServed, McpInv, McpTypeOK, WireTypeOK
  <2>3. /\ i \in Queued /\ Queued' = Queued \ {i}
        /\ \A j, k \in DOMAIN queue' : queue'[j] = queue'[k] => j = k
    BY <2>1, QueuedTail
  <2>4. ~Busy(w) /\ Busy(w)' /\ workers'[w].id = i
          /\ \A v \in Workers : v # w => workers'[v] = workers[v]
    BY <1>2, <2>1 DEF Busy
  <2>5. server # "exited" /\ UNCHANGED server
    BY <1>8 DEF ByServer, WorkerTakes, Serving
  <2> HIDE DEF i
  <2>6. \A x \in accepted' :
          x \in answered' \union silenced' \union Queued' \/ \E v \in Workers : Busy(v)' /\ workers'[v].id = x
    BY <1>1, <2>1, <2>3, <2>4 DEF Pooled, Busy
  <2>7. \A v \in Workers : Busy(v)' => workers'[v].id \in accepted' \ (served' \union silenced' \union Queued')
    BY <1>1, <2>1, <2>2, <2>3, <2>4 DEF Pooled, Busy
  <2>8. \A u, v \in Workers : Busy(u)' /\ Busy(v)' /\ workers'[u].id = workers'[v].id => u = v
    BY <1>1, <2>3, <2>4 DEF Pooled, Busy
  <2> QED BY <1>1, <2>1, <2>2, <2>3, <2>5, <2>6, <2>7, <2>8 DEF Pooled
<1>9. ASSUME NEW w \in Workers, ByServer(HandlerReturns(w))
      PROVE  Pooled'
  <2> DEFINE i == workers[w].id
  <2>1. workers[w].at = "running" /\ UNCHANGED <<server, queue, accepted, answered, toClient>>
    BY <1>9 DEF ByServer, HandlerReturns, wire
  <2>2. UNCHANGED served
    BY <1>9, <2>1 DEF ByServer, NotesServed, McpInv, McpTypeOK, WireTypeOK
  <2>3. Busy(w) /\ server # "exited"
    BY <1>9 DEF ByServer, HandlerReturns, Busy, Serving
  <2>4. UNCHANGED Queued
    BY <2>1 DEF Queued
  <2>5. CASE IsCancelled(i)
    <3>1. silenced' = silenced \union {i} /\ workers' = [workers EXCEPT ![w] = Waiting]
      BY <1>9, <2>5 DEF ByServer, HandlerReturns
    <3>2. ~Busy(w)' /\ \A v \in Workers : v # w => workers'[v] = workers[v]
      BY <1>2, <3>1 DEF Busy, Waiting
    <3> HIDE DEF i
    <3>3. i = workers[w].id
      BY DEF i
    <3> QED BY <1>1, <2>1, <2>2, <2>3, <2>4, <3>1, <3>2, <3>3 DEF Pooled, Busy
  <2>6. CASE ~IsCancelled(i)
    <3>1. UNCHANGED silenced /\ workers' = [workers EXCEPT ![w].at = "answering"]
      BY <1>9, <2>6 DEF ByServer, HandlerReturns
    <3>2. \A v \in Workers : (Busy(v)' <=> Busy(v)) /\ workers'[v].id = workers[v].id
      BY <1>2, <2>3, <3>1 DEF Busy
    <3> QED BY <1>1, <2>1, <2>2, <2>4, <3>1, <3>2 DEF Pooled
  <2> QED BY <2>5, <2>6
<1>10. ASSUME NEW w \in Workers, ByServer(WorkerAnswers(w))
       PROVE  Pooled'
  <2> DEFINE i == workers[w].id
  <2>1. /\ workers[w].at = "answering" /\ UNCHANGED <<server, queue, accepted, silenced>>
        /\ answered' = answered \union {i} /\ workers' = [workers EXCEPT ![w] = Waiting]
        /\ WritesToClient(Answer(i))
    BY <1>10 DEF ByServer, WorkerAnswers
  <2>2. Busy(w) /\ server # "exited"
    BY <1>10 DEF ByServer, WorkerAnswers, Busy, Serving
  <2>3. UNCHANGED Queued
    BY <2>1 DEF Queued
  <2>4. served' = served \union {i}
    <3>1. toClient \in Seq(ToClient) /\ toClient' = Append(toClient, Answer(i))
      BY <2>1 DEF WritesToClient, McpInv, McpTypeOK, WireTypeOK
    <3>2. Len(toClient') = Len(toClient) + 1 /\ Len(toClient) \in Nat /\ toClient'[Len(toClient')] = Answer(i)
      BY <3>1, AppendParts
    <3>3. Len(toClient') > Len(toClient) /\ Answer(i).id = i
      BY <3>2 DEF Answer
    <3> QED BY <1>10, <3>2, <3>3 DEF ByServer, NotesServed
  <2>5. ~Busy(w)' /\ \A v \in Workers : v # w => workers'[v] = workers[v]
    BY <1>2, <2>1 DEF Busy, Waiting
  <2> HIDE DEF i
  <2>6. i = workers[w].id
    BY DEF i
  <2> QED BY <1>1, <2>1, <2>2, <2>3, <2>4, <2>5, <2>6 DEF Pooled, Busy
<1>11. CASE ByServer(Exits)
  <2>1. UNCHANGED <<queue, workers, accepted, answered, silenced, toClient>> /\ PoolDone
    BY <1>11 DEF ByServer, Exits
  <2>2. UNCHANGED served
    BY <1>11, <2>1 DEF ByServer, NotesServed, McpInv, McpTypeOK, WireTypeOK
  <2>3. Queued = {} /\ \A w \in Workers : ~Busy(w)
    BY <2>1 DEF PoolDone, PoolIdle, Queued, Busy
  <2>4. accepted \subseteq answered \union silenced
    BY <1>1, <2>3 DEF Pooled
  <2> QED BY <1>1, <2>1, <2>2, <2>4 DEF Pooled, Queued, Busy
<1>12. CASE ByServer(NotesInitialized \/ NotesCancelled \/ InputEnds \/ Dies \/ IsGone)
  <2>1. UNCHANGED <<queue, workers, accepted, answered, silenced, toClient>>
          /\ (server' = server \/ server' # "exited")
    BY <1>12 DEF ByServer, NotesInitialized, NotesCancelled, InputEnds, Dies, IsGone, wire
  <2>2. UNCHANGED served
    BY <1>12, <2>1 DEF ByServer, NotesServed, McpInv, McpTypeOK, WireTypeOK
  <2> QED BY <1>1, <2>1, <2>2 DEF Pooled, Queued, Busy
<1> QED
  BY <1>4, <1>5, <1>7, <1>8, <1>9, <1>10, <1>11, <1>12
  DEF McpNext, ByServer, ServerStep, ServerReader, PoolStep

-----------------------------------------------------------------------------
(* What travels to the server: who begins to write, and what is read next. *)
LEMMA WireSteps ==
  ASSUME McpInv, [McpNext]_mcpVars
  PROVE  \/ UNCHANGED toServer
         \/ /\ toServer' = Append(toServer, Initialized)
            /\ ByClient(Announces) /\ writable
         \/ \E t \in Threads :
              \/ /\ toServer' = Append(toServer, Request(calls[t].id, calls[t].method))
                 /\ ByClient(WritesRequest(t)) /\ writable
              \/ /\ toServer' = Append(toServer, Cancel(calls[t].id))
                 /\ ByClient(TellsAndReturns(t))
         \/ /\ toServer # <<>> /\ toServer' = Tail(toServer) /\ ByServer(Reads)
<1>1. CASE ByClient(ClientStep)
  BY <1>1, ClientWrites DEF ByClient, WritesToServer, CallId
<1>2. CASE ByServer(ServerStep)
  BY <1>2, ServerWrites DEF ByServer
<1>3. CASE UNCHANGED mcpVars
  BY <1>3 DEF mcpVars, wire
<1> QED BY <1>1, <1>2, <1>3 DEF McpNext

LEMMA ToServerAppended ==
  ASSUME McpInv, NEW m, toServer' = Append(toServer, m)
  PROVE  /\ Len(toServer) \in Nat /\ Len(toServer') = Len(toServer) + 1
         /\ DOMAIN toServer = 1 .. Len(toServer)
         /\ DOMAIN toServer' = DOMAIN toServer \union {Len(toServer) + 1}
         /\ \A k \in DOMAIN toServer : toServer'[k] = toServer[k]
         /\ toServer'[Len(toServer) + 1] = m /\ Len(toServer) + 1 \notin DOMAIN toServer
<1>1. toServer \in Seq(ToServer)
  BY DEF McpInv, McpTypeOK, WireTypeOK
<1>2. /\ DOMAIN toServer' = 1 .. Len(toServer) + 1 /\ DOMAIN toServer = 1 .. Len(toServer)
      /\ Len(toServer) \in Nat /\ Len(toServer') = Len(toServer) + 1
      /\ \A k \in 1 .. Len(toServer) : toServer'[k] = toServer[k]
      /\ toServer'[Len(toServer) + 1] = m
  BY <1>1, AppendParts
<1> QED BY <1>2

LEMMA ToServerRead ==
  ASSUME McpInv, toServer # <<>>, toServer' = Tail(toServer)
  PROVE  /\ Len(toServer) \in Nat \ {0} /\ Len(toServer') = Len(toServer) - 1
         /\ DOMAIN toServer = 1 .. Len(toServer) /\ DOMAIN toServer' = 1 .. Len(toServer) - 1
         /\ \A k \in DOMAIN toServer' : k \in Nat /\ k + 1 \in DOMAIN toServer /\ k + 1 # 1
                                        /\ toServer'[k] = toServer[k + 1]
         /\ Head(toServer) = toServer[1] /\ 1 \in DOMAIN toServer
<1>1. toServer \in Seq(ToServer)
  BY DEF McpInv, McpTypeOK, WireTypeOK
<1>2. /\ DOMAIN toServer' = 1 .. Len(toServer) - 1 /\ DOMAIN toServer = 1 .. Len(toServer)
      /\ Len(toServer) \in Nat \ {0} /\ Len(toServer') = Len(toServer) - 1
      /\ \A k \in 1 .. Len(toServer) - 1 : toServer'[k] = toServer[k + 1]
      /\ Head(toServer) = toServer[1]
  BY <1>1, TailParts
<1>3. \A k \in 1 .. Len(toServer) - 1 : k \in Nat /\ k + 1 \in 1 .. Len(toServer) /\ k + 1 # 1
  BY <1>2
<1>4. 1 \in 1 .. Len(toServer)
  BY <1>2
<1> QED BY <1>2, <1>3, <1>4

(* A call is registered once, under an id that was never used.             *)
LEMMA RegisteredBefore ==
  ASSUME McpInv, [McpNext]_mcpVars
  PROVE  /\ nextId' = nextId \/ nextId' = nextId + 1
         /\ \A t \in Threads : CallAt(t, "registered")' =>
              \/ CallAt(t, "registered") /\ calls'[t].id = calls[t].id
              \/ calls'[t].id = nextId /\ UNCHANGED <<toServer, accepted, served>>
         /\ \A t \in Threads : ByClient(WritesRequest(t)) => ~CallAt(t, "registered")'
<1>1. calls \in [Threads -> Calls]
  BY DEF McpInv, McpTypeOK, ClientTypeOK
<1>2. CASE UNCHANGED <<calls, nextId>>
  <2>1. \A t \in Threads : ~ByClient(WritesRequest(t))
    BY <1>1, <1>2 DEF ByClient, WritesRequest, Written, NotWritten, CallGoes, CallAt, Calls
  <2> QED BY <1>2, <2>1 DEF CallAt
<1>3. CASE ByClient(ClientStep)
  <2>1. \A t \in Threads : ByClient(WritesRequest(t)) => ~CallAt(t, "registered")'
    BY <1>1 DEF ByClient, WritesRequest, Written, NotWritten, CallGoes, CallAt, Calls
  <2>2. ASSUME NEW t \in Threads, Begins(t) \/ CallReturns(t)
        PROVE  UNCHANGED nextId /\ ~CallAt(t, "registered")' /\ \A u \in Threads : u # t => calls'[u] = calls[u]
    <3>1. CASE Begins(t)
      BY <1>1, <3>1 DEF Begins, CallAt
    <3>2. CASE CallReturns(t)
      <4>1. UNCHANGED nextId /\ \E how : Returns(t, CallId(t), how)
        BY <3>2 DEF CallReturns
      <4> QED BY <1>1, <4>1 DEF Returns, NotCalling, CallAt
    <3> QED BY <2>2, <3>1, <3>2
  <2>3. ASSUME NEW t \in Threads, NEW place \in {"retracting", "awaiting", "telling"}, Goes(t, place)
        PROVE  UNCHANGED nextId /\ ~CallAt(t, "registered")' /\ \A u \in Threads : u # t => calls'[u] = calls[u]
    BY <1>1, <2>3 DEF Goes, CallGoes, CallAt, Calls
  <2>4. ASSUME NEW t \in Threads, Registers(t)
        PROVE  /\ nextId' = nextId + 1 /\ calls'[t].id = nextId /\ UNCHANGED <<toServer, accepted, served>>
               /\ \A u \in Threads : u # t => calls'[u] = calls[u]
    BY <1>1, <1>3, <2>4 DEF Registers, Calls, ByClient, serverVars, wire
  <2> QED BY <1>2, <1>3, <2>1, <2>2, <2>3, <2>4, ClientSteps DEF ByClient, CallAt
<1>4. CASE ByServer(ServerStep) \/ UNCHANGED mcpVars
  BY <1>2, <1>4 DEF ByServer, client, mcpVars
<1> QED BY <1>3, <1>4 DEF McpNext

(* What is newly accepted or served was asked: it is the request just read, *)
(* or one accepted before.                                                  *)
LEMMA AskedBefore ==
  ASSUME McpInv, [McpNext]_mcpVars
  PROVE  \/ accepted' \union served' \subseteq accepted \union served
         \/ /\ toServer # <<>> /\ toServer' = Tail(toServer) /\ IsRequest(1)
            /\ accepted' \union served' \subseteq accepted \union served \union {toServer[1].id}
<1>1. CASE ByServer(AnswersInline \/ Queues)
  <2>1. toServer # <<>> /\ toServer' = Tail(toServer) /\ Head(toServer).kind = "request"
    BY <1>1 DEF ByServer, AnswersInline, Queues, NextRequest, Consumed
  <2>2. Head(toServer) = toServer[1]
    BY <2>1, FirstRequest
  <2>3. served' \subseteq served \union accepted \union {toServer[1].id}
    <3>1. \A w \in Workers : WorkerAnswers(w) => workers[w].id \in accepted
      BY DEF WorkerAnswers, McpInv, Pooled, Busy
    <3>2. served' \subseteq served \union accepted \union {Head(toServer).id}
      <4>1. \/ UNCHANGED served
            \/ \E i : /\ served' = served \union {i}
                      /\ \/ i = Head(toServer).id
                         \/ \E w \in Workers : WorkerAnswers(w) /\ i = workers[w].id
        BY ServedGrows
      <4> QED BY <3>1, <4>1
    <3> QED BY <2>2, <3>2
  <2>4. accepted' \subseteq accepted \union {toServer[1].id}
    BY <1>1, <2>2 DEF ByServer, AnswersInline, Queues, serverVars
  <2> QED BY <2>1, <2>2, <2>3, <2>4 DEF IsRequest
<1>2. ASSUME ~AnswersInline, UNCHANGED accepted
      PROVE  accepted' \union served' \subseteq accepted \union served
  <2>1. \A w \in Workers : WorkerAnswers(w) => workers[w].id \in accepted
    BY DEF WorkerAnswers, McpInv, Pooled, Busy
  <2> QED BY <1>2, <2>1, ServedGrows
<1>3. ASSUME ByServer(ServerStep), ~AnswersInline, ~Queues
      PROVE  UNCHANGED accepted
  BY <1>3 DEF ByServer, ServerStep, ServerReader, PoolStep, NotesInitialized, NotesCancelled, InputEnds,
     WorkerTakes, WorkerAnswers, HandlerReturns, Exits, Dies, IsGone
<1>4. CASE ByClient(ClientStep) \/ UNCHANGED mcpVars
  BY <1>4 DEF ByClient, mcpVars, serverVars
<1> QED BY <1>1, <1>2, <1>3, <1>4 DEF McpNext, ByServer

LEMMA AskedOnceKept ==
  ASSUME McpInv, [McpNext]_mcpVars
  PROVE  AskedOnce'
<1>1. AskedOnce
  BY DEF McpInv
<1> DEFINE Known == 1 .. nextId - 1
<1>2. Known \subseteq 1 .. nextId' - 1 /\ nextId \notin Known
  BY RegisteredBefore, IdsGrow
<1>3. accepted \union served \subseteq Known
  BY <1>1 DEF AskedOnce
<1>4. \A k \in DOMAIN toServer : IsRequest(k) => toServer[k].id \in Known \ (accepted \union served)
  BY <1>1 DEF AskedOnce
<1> HIDE DEF Known
<1>5. CASE UNCHANGED toServer /\ accepted' \union served' \subseteq accepted \union served
  <2>1. \A t \in Threads : CallAt(t, "registered")' =>
          /\ calls'[t].id \notin accepted \union served
          /\ \A k \in DOMAIN toServer : IsRequest(k) => toServer[k].id # calls'[t].id
    BY <1>1, <1>2, <1>3, <1>4, RegisteredBefore DEF AskedOnce
  <2> QED BY <1>1, <1>2, <1>3, <1>4, <1>5, <2>1 DEF AskedOnce, IsRequest
<1>6. ASSUME NEW m, toServer' = Append(toServer, m), m.kind # "request"
      PROVE  AskedOnce'
  <2>1. accepted' \union served' \subseteq accepted \union served
    BY <1>6, AskedBefore, ToServerAppended, ToServerRead
  <2>2. \A t \in Threads : CallAt(t, "registered")' => CallAt(t, "registered") /\ calls'[t].id = calls[t].id
    BY <1>6, RegisteredBefore, ToServerAppended
  <2>3. \A k \in DOMAIN toServer' : IsRequest(k)' => k \in DOMAIN toServer /\ IsRequest(k) /\ toServer'[k] = toServer[k]
    BY <1>6, ToServerAppended DEF IsRequest
  <2> QED BY <1>1, <1>2, <1>3, <1>4, <2>1, <2>2, <2>3 DEF AskedOnce
<1>7. ASSUME NEW t \in Threads, ByClient(WritesRequest(t)),
             toServer' = Append(toServer, Request(calls[t].id, calls[t].method))
      PROVE  AskedOnce'
  <2>1. accepted' \union served' \subseteq accepted \union served
    BY <1>7, AskedBefore, ToServerAppended, ToServerRead
  <2>2. \A u \in Threads : CallAt(u, "registered")' =>
          u # t /\ CallAt(u, "registered") /\ calls'[u].id = calls[u].id
    BY <1>7, RegisteredBefore, ToServerAppended
  <2>3. CallAt(t, "registered") /\ calls[t].id \in Known
    BY <1>7, CallsKnown DEF ByClient, WritesRequest, CallAt, Active, Known
  <2>4. \A u \in Threads : CallAt(u, "registered")' => calls'[u].id # calls[t].id
    BY <2>2, <2>3 DEF McpInv, CallsOwned, CallAt, Active
  <2>5. \A k \in DOMAIN toServer' : IsRequest(k)' =>
          \/ k \in DOMAIN toServer /\ IsRequest(k) /\ toServer'[k] = toServer[k]
          \/ k = Len(toServer) + 1 /\ toServer'[k].id = calls[t].id
    BY <1>7, ToServerAppended DEF IsRequest, Request
  <2> QED BY ZenonT(60), <1>1, <1>2, <1>3, <1>4, <2>1, <2>2, <2>3, <2>4, <2>5 DEF AskedOnce
<1>8. ASSUME toServer # <<>>, toServer' = Tail(toServer)
      PROVE  AskedOnce'
  <2>1. \A t \in Threads : CallAt(t, "registered")' => CallAt(t, "registered") /\ calls'[t].id = calls[t].id
    <3>1. Len(toServer) \in Nat \ {0} /\ Len(toServer') = Len(toServer) - 1
      BY <1>8, ToServerRead
    <3>2. toServer' # toServer
      BY <3>1
    <3> QED BY <3>2, RegisteredBefore
  <2>2. \A k \in DOMAIN toServer' : IsRequest(k)' =>
          k \in Nat /\ k + 1 \in DOMAIN toServer /\ k + 1 # 1 /\ IsRequest(k + 1) /\ toServer'[k] = toServer[k + 1]
    BY <1>8, ToServerRead DEF IsRequest
  <2>3. ASSUME IsRequest(1)
        PROVE  /\ toServer[1].id \in Known
               /\ \A k \in DOMAIN toServer' : IsRequest(k)' => toServer'[k].id # toServer[1].id
               /\ \A t \in Threads : CallAt(t, "registered")' => calls'[t].id # toServer[1].id
    BY <1>1, <1>4, <1>8, <2>1, <2>2, <2>3, ToServerRead DEF AskedOnce
  <2>4. \A j, k \in DOMAIN toServer' :
          IsRequest(j)' /\ IsRequest(k)' /\ toServer'[j].id = toServer'[k].id => j = k
    <3> SUFFICES ASSUME NEW j \in DOMAIN toServer', NEW k \in DOMAIN toServer', IsRequest(j)', IsRequest(k)',
                        toServer'[j].id = toServer'[k].id
                 PROVE  j = k
      OBVIOUS
    <3>1. j + 1 = k + 1 /\ j \in Nat /\ k \in Nat
      BY <1>1, <2>2 DEF AskedOnce
    <3> QED BY <3>1
  <2>5. \A k \in DOMAIN toServer' : IsRequest(k)' => toServer'[k].id \in Known \ (accepted \union served)
    BY <1>4, <2>2
  <2>6. \A t \in Threads : CallAt(t, "registered")' =>
          /\ calls'[t].id \notin accepted \union served
          /\ \A k \in DOMAIN toServer' : IsRequest(k)' => toServer'[k].id # calls'[t].id
    BY <1>1, <2>1, <2>2 DEF AskedOnce
  <2> QED BY <1>2, <1>3, <2>3, <2>4, <2>5, <2>6, AskedBefore DEF AskedOnce
<1>9. UNCHANGED toServer => accepted' \union served' \subseteq accepted \union served
  BY AskedBefore, ToServerRead
<1> QED
  BY <1>5, <1>6, <1>7, <1>8, <1>9, WireSteps DEF Initialized, Cancel

(* Every answer is one the server wrote, and the promises hold no other.   *)
(* No request overtakes the handshake, so that none is refused.            *)
LEMMA NothingRefused ==
  ASSUME McpInv, [McpNext]_mcpVars, AnswersInline
  PROVE  \A m : WritesToClient(m) => m = Answer(Head(toServer).id)
<1>1. Head(toServer) = toServer[1] /\ 1 \in DOMAIN toServer /\ Head(toServer).kind = "request"
  BY FirstRequest DEF AnswersInline, NextRequest
<1>2. DOMAIN toServer \subseteq Nat
  BY DEF McpInv, McpTypeOK, WireTypeOK
<1>3. toServer[1].method # "initialize" => initialized
  BY <1>1, <1>2 DEF McpInv, Introduced, Announced, IsRequest
<1>4. toClient' = Append(toClient, Answer(Head(toServer).id))
  BY <1>1, <1>3 DEF AnswersInline, WritesToClient
<1>5. toClient \in Seq(ToClient)
  BY DEF McpInv, McpTypeOK, WireTypeOK
<1> QED BY <1>4, <1>5, AppendParts DEF WritesToClient

LEMMA AnswersServedKept ==
  ASSUME McpInv, [McpNext]_mcpVars
  PROVE  AnswersServed'
<1>1. /\ AnswersServed /\ toClient \in Seq(ToClient)
      /\ promise \in [Ids -> Outcomes \union {"unset"}] /\ pending \subseteq Ids
  BY IdsGrow DEF McpInv, McpTypeOK, ClientTypeOK, WireTypeOK
<1>2. served \subseteq served'
  BY ServedGrows
<1>3. \A k \in DOMAIN toClient' : toClient'[k].kind = "answer" /\ toClient'[k].id \in served'
  <2>1. CASE toClient' = toClient
    BY <1>1, <1>2, <2>1 DEF AnswersServed
  <2>2. CASE ReadsResponse /\ toClient' = Tail(toClient)
    <3>1. /\ DOMAIN toClient' = 1 .. Len(toClient) - 1 /\ DOMAIN toClient = 1 .. Len(toClient)
          /\ Len(toClient) \in Nat /\ \A k \in 1 .. Len(toClient) - 1 : toClient'[k] = toClient[k + 1]
      BY <1>1, <2>2, TailParts DEF ReadsResponse
    <3>2. \A k \in DOMAIN toClient' : k + 1 \in DOMAIN toClient /\ toClient'[k] = toClient[k + 1]
      BY <3>1
    <3> QED BY <1>1, <1>2, <3>2 DEF AnswersServed
  <2>3. ASSUME NEW how \in {"answer", "refusal"}, NEW i \in Ids,
               served' = served \union {i}, Len(toClient) < PipeSize,
               toClient' = Append(toClient, [kind |-> how, id |-> i]),
               \/ AnswersInline
               \/ how = "answer"
        PROVE  \A k \in DOMAIN toClient' : toClient'[k].kind = "answer" /\ toClient'[k].id \in served'
    <3>1. how = "answer"
      <4>1. WritesToClient([kind |-> how, id |-> i])
        BY <2>3 DEF WritesToClient
      <4>2. CASE AnswersInline
        <5>1. [kind |-> how, id |-> i] = Answer(Head(toServer).id)
          BY <4>1, <4>2, NothingRefused
        <5>2. [kind |-> how, id |-> i].kind = "answer"
          BY <5>1 DEF Answer
        <5> QED BY <5>2
      <4> QED BY <2>3, <4>2
    <3>2. /\ DOMAIN toClient' = 1 .. Len(toClient) + 1 /\ DOMAIN toClient = 1 .. Len(toClient)
          /\ Len(toClient) \in Nat /\ \A k \in 1 .. Len(toClient) : toClient'[k] = toClient[k]
          /\ toClient'[Len(toClient) + 1] = [kind |-> how, id |-> i]
      BY <1>1, <2>3, AppendParts
    <3>3. \A k \in DOMAIN toClient' : k \in DOMAIN toClient \/ k = Len(toClient) + 1
      BY <3>2
    <3> QED BY <1>1, <1>2, <2>3, <3>1, <3>2, <3>3 DEF AnswersServed
  <2>4. \/ toClient' = toClient
        \/ ReadsResponse /\ toClient' = Tail(toClient)
        \/ \E how \in {"answer", "refusal"}, i \in Ids :
             /\ served' = served \union {i} /\ Len(toClient) < PipeSize
             /\ toClient' = Append(toClient, [kind |-> how, id |-> i])
             /\ AnswersInline \/ how = "answer"
    BY ServedGrows
  <2> QED BY <2>1, <2>2, <2>3, <2>4
<1>4. \A i \in Ids : promise'[i] # "refusal" /\ (promise'[i] = "answer" => i \in served')
  <2>1. CASE UNCHANGED promise
    BY <1>1, <1>2, <2>1 DEF AnswersServed
  <2>2. ASSUME NEW t \in Threads, Retracts(t)
        PROVE  promise' = promise \/ \E i \in Ids : promise' = [promise EXCEPT ![i] = "unwritten"]
    BY <1>1, <2>2 DEF Retracts
  <2>3. ASSUME NEW i \in Ids, promise' = [promise EXCEPT ![i] = "unwritten"]
        PROVE  \A j \in Ids : promise'[j] # "refusal" /\ (promise'[j] = "answer" => j \in served')
    BY <1>1, <1>2, <2>3 DEF AnswersServed
  <2>4. CASE ReadsResponse
    <3>1. Head(toClient).kind = "answer" /\ Head(toClient).id \in served
      <4>1. Head(toClient) = toClient[1] /\ 1 \in DOMAIN toClient
        <5>1. DOMAIN toClient = 1 .. Len(toClient) /\ Len(toClient) \in Nat \ {0} /\ Head(toClient) = toClient[1]
          BY <1>1, <2>4, TailParts DEF ReadsResponse
        <5> QED BY <5>1
      <4> QED BY <1>1, <4>1 DEF AnswersServed
    <3>2. UNCHANGED promise \/ promise' = [promise EXCEPT ![Head(toClient).id] = "answer"]
      BY <2>4, <3>1 DEF ReadsResponse, Completed
    <3> QED BY <1>1, <1>2, <3>1, <3>2 DEF AnswersServed
  <2>5. CASE ReaderEnds
    <3>1. promise' = [i \in Ids |-> IF i \in pending THEN "closed" ELSE promise[i]]
      BY <2>5 DEF ReaderEnds, FailsAll
    <3> QED BY <1>1, <1>2, <3>1 DEF AnswersServed
  <2>6. CASE HostCalls \/ Announces \/ Closes \/ ReaderJoined \/ ServerReaped
    BY <2>1, <2>6 DEF HostCalls, Announces, Closes, ReaderJoined, ServerReaped
  <2>7. ASSUME NEW t \in Threads,
               ToolCalled(t) \/ Registers(t) \/ WritesRequest(t) \/ Ready(t) \/ TellsAndReturns(t) \/ GivesUp(t)
        PROVE  UNCHANGED promise
    BY <2>7 DEF ToolCalled, Registers, WritesRequest, Ready, TellsAndReturns, GivesUp
  <2>8. CASE ByClient(ClientStep)
    BY <2>1, <2>2, <2>3, <2>4, <2>5, <2>6, <2>7, <2>8 DEF ByClient, ClientStep, ThreadStep
  <2>9. CASE ByServer(ServerStep) \/ UNCHANGED mcpVars
    BY <2>1, <2>9 DEF ByServer, client, mcpVars
  <2> QED BY <2>8, <2>9 DEF McpNext
<1> QED BY <1>3, <1>4 DEF AnswersServed

(* Who is forgotten is never remembered again.                             *)
LEMMA StaysForgotten ==
  ASSUME McpInv, [McpNext]_mcpVars
  PROVE  \A i : Forgotten(i) => Forgotten(i)'
<1>1. calls \in [Threads -> Calls]
  BY DEF McpInv, McpTypeOK, ClientTypeOK
<1>2. \A t \in Threads : calls'[t].id \in {calls[t].id, NoCall, nextId}
  <2>1. CASE UNCHANGED calls
    BY <2>1
  <2>2. CASE ByClient(ClientStep)
    <3>1. ASSUME NEW t \in Threads, Begins(t)
          PROVE  \A u \in Threads : calls'[u].id \in {calls[u].id, NoCall, nextId}
      BY <1>1, <3>1 DEF Begins
    <3>2. ASSUME NEW t \in Threads, Registers(t)
          PROVE  \A u \in Threads : calls'[u].id \in {calls[u].id, NoCall, nextId}
      BY <1>1, <3>2 DEF Registers, Calls
    <3>3. ASSUME NEW t \in Threads, CallReturns(t)
          PROVE  \A u \in Threads : calls'[u].id \in {calls[u].id, NoCall, nextId}
      <4>1. \E how : Returns(t, CallId(t), how)
        BY <3>3 DEF CallReturns
      <4> QED BY <1>1, <4>1 DEF Returns, NotCalling
    <3>4. ASSUME NEW t \in Threads, NEW place \in {"retracting", "awaiting", "telling"}, Goes(t, place)
          PROVE  \A u \in Threads : calls'[u].id \in {calls[u].id, NoCall, nextId}
      BY <1>1, <3>4 DEF Goes, CallGoes, Calls
    <3> QED BY <2>1, <2>2, <3>1, <3>2, <3>3, <3>4, ClientSteps DEF ByClient
  <2>3. CASE ByServer(ServerStep) \/ UNCHANGED mcpVars
    BY <2>1, <2>3 DEF ByServer, client, mcpVars
  <2> QED BY <2>2, <2>3 DEF McpNext
<1>3. 1 .. nextId - 1 \subseteq 1 .. nextId' - 1 /\ nextId \notin 1 .. nextId - 1 /\ NoCall \notin 1 .. nextId - 1
  BY RegisteredBefore, IdsGrow
<1> QED BY <1>2, <1>3 DEF Forgotten

LEMMA CancelsForgottenKept ==
  ASSUME McpInv, [McpNext]_mcpVars
  PROVE  CancelsForgotten'
<1>1. CancelsForgotten /\ \A i : Forgotten(i) => Forgotten(i)'
  BY StaysForgotten DEF McpInv
<1>3. ASSUME NEW k \in DOMAIN toServer', toServer'[k].kind = "cancel"
      PROVE  \E i : i = toServer'[k].id /\ Forgotten(i)'
  <2>1. CASE UNCHANGED toServer
    BY <1>1, <1>3, <2>1 DEF CancelsForgotten
  <2>2. ASSUME NEW m, toServer' = Append(toServer, m), m.kind # "cancel"
        PROVE  \E i : i = toServer'[k].id /\ Forgotten(i)'
    BY <1>1, <1>3, <2>2, ToServerAppended DEF CancelsForgotten
  <2>3. ASSUME NEW t \in Threads, toServer' = Append(toServer, Cancel(calls[t].id)), ByClient(TellsAndReturns(t))
        PROVE  \E i : i = toServer'[k].id /\ Forgotten(i)'
    <3>1. CASE k \in DOMAIN toServer
      BY <1>1, <1>3, <2>3, <3>1, ToServerAppended DEF CancelsForgotten
    <3>2. CASE k = Len(toServer) + 1
      <4>1. toServer'[k].id = calls[t].id
        BY <2>3, <3>2, ToServerAppended DEF Cancel
      <4>2. Active(t) /\ calls[t].id \in 1 .. nextId - 1 /\ calls[t].id # NoCall
        BY <2>3, CallsKnown, IdsGrow DEF ByClient, TellsAndReturns, CallAt, Active
      <4>3. calls' = [calls EXCEPT ![t] = NotCalling] /\ UNCHANGED nextId
        BY <2>3 DEF ByClient, TellsAndReturns, Returns
      <4>4. \A u \in Threads : calls'[u].id # calls[t].id
        <5>1. \A u \in Threads : u # t => calls[u].id # calls[t].id
          BY <4>2 DEF McpInv, CallsOwned
        <5> QED BY <4>2, <4>3, <5>1 DEF NotCalling, McpInv, McpTypeOK, ClientTypeOK
      <4> QED BY <4>1, <4>2, <4>3, <4>4 DEF Forgotten
    <3> QED BY <1>3, <2>3, <3>1, <3>2, ToServerAppended
  <2>4. CASE toServer # <<>> /\ toServer' = Tail(toServer)
    <3>1. k + 1 \in DOMAIN toServer /\ toServer'[k] = toServer[k + 1]
      BY <1>3, <2>4, ToServerRead
    <3> QED BY <1>1, <1>3, <3>1 DEF CancelsForgotten
  <2> QED BY <2>1, <2>2, <2>3, <2>4, WireSteps DEF Initialized, Request
<1>4. ASSUME NEW i \in cancelled' \union silenced'
      PROVE  Forgotten(i)'
  <2>1. CASE i \in cancelled \union silenced
    BY <1>1, <2>1 DEF CancelsForgotten
  <2>2. CASE i \notin cancelled \union silenced
    <3>1. ByServer(NotesCancelled) /\ i = Head(toServer).id
      <4>1. CASE ByServer(ServerStep)
        BY <1>4, <2>2, <4>1
        DEF ByServer, ServerStep, ServerReader, PoolStep, AnswersInline, Queues, NotesInitialized,
            NotesCancelled, InputEnds, WorkerTakes, WorkerAnswers, HandlerReturns, IsCancelled, Exits,
            Dies, IsGone, serverVars
      <4>2. CASE ByClient(ClientStep) \/ UNCHANGED mcpVars
        BY <1>4, <2>2, <4>2 DEF ByClient, mcpVars, serverVars
      <4> QED BY <4>1, <4>2 DEF McpNext
    <3>2. Head(toServer) = toServer[1] /\ 1 \in DOMAIN toServer /\ toServer[1].kind = "cancel"
      BY <3>1, FirstRequest DEF ByServer, NotesCancelled, NextRequest
    <3> QED BY <1>1, <3>1, <3>2 DEF CancelsForgotten
  <2> QED BY <2>1, <2>2
<1> QED BY <1>3, <1>4 DEF CancelsForgotten

(* The handshake: whoever may write after it writes behind `initialized`.  *)
LEMMA HostAnnounced ==
  ASSUME McpInv, [McpNext]_mcpVars, host' \in {"list", "ready"}, writable'
  PROVE  writable /\ (host \in {"list", "ready"} \/ ByClient(Announces))
<1>1. CASE UNCHANGED <<host, writable>>
  BY <1>1
<1>2. ASSUME NEW t \in Threads, ByClient(ToolCalled(t) \/ ThreadStep(t) \/ GivesUp(t))
      PROVE  writable /\ host \in {"list", "ready"}
  <2>1. writable
    BY <1>2, ThreadSteps DEF ByClient
  <2>2. CASE UNCHANGED host
    BY <2>1, <2>2
  <2>3. CASE CallReturns(t)
    <3>1. PICK how : Returns(t, CallId(t), how)
      BY <2>3 DEF CallReturns
    <3>2. ~CallAt(t, "idle")
      BY <2>3 DEF CallReturns, CallAt
    <3>3. host = calls[t].method \/ UNCHANGED host
      BY <3>1, <3>2 DEF Returns, McpInv, HandsShaken
    <3>4. UNCHANGED host \/ calls[t].method # "initialize"
      BY <3>1 DEF Returns, HostAfter
    <3>5. calls[t].method # "initialize" => host \in {"list", "ready"}
      BY <3>2 DEF McpInv, HandsShaken
    <3> QED BY <2>1, <2>2, <3>4, <3>5
  <2>4. UNCHANGED host \/ CallReturns(t)
    BY <1>2, ThreadSteps DEF ByClient, Begins, Registers, Goes
  <2> QED BY <2>2, <2>3, <2>4
<1>3. CASE ByClient(HostCalls \/ ReadsResponse \/ ReaderEnds \/ Closes \/ ReaderJoined \/ ServerReaped)
  <2>1. host' = host /\ (writable' => writable)
    BY <1>3 DEF ByClient, HostCalls, ReadsResponse, ReaderEnds, Closes, ReaderJoined, ServerReaped
  <2> QED BY <2>1
<1>4. CASE ByClient(Announces)
  BY <1>4 DEF ByClient, Announces
<1>5. CASE ByServer(ServerStep) \/ UNCHANGED mcpVars
  BY <1>1, <1>5 DEF ByServer, client, mcpVars
<1> QED BY <1>2, <1>3, <1>4, <1>5 DEF McpNext, ByClient, ClientStep

LEMMA IntroducedKept ==
  ASSUME McpInv, [McpNext]_mcpVars
  PROVE  Introduced'
<1>1. Introduced
  BY DEF McpInv
<1>2. initialized => initialized'
  <2>1. CASE ByServer(ServerStep)
    BY <2>1 DEF ByServer, ServerStep, ServerReader, PoolStep, AnswersInline, Queues, NotesInitialized,
       NotesCancelled, InputEnds, WorkerTakes, WorkerAnswers, HandlerReturns, Exits, Dies, IsGone, serverVars
  <2>2. CASE ByClient(ClientStep) \/ UNCHANGED mcpVars
    BY <2>2 DEF ByClient, mcpVars, serverVars
  <2> QED BY <2>1, <2>2 DEF McpNext
<1>3. CASE UNCHANGED toServer
  <2>1. \A n : Announced(n) => Announced(n)'
    BY <1>2, <1>3 DEF Announced
  <2>2. ByClient(Announces) => ~writable'
    <3>1. Len(toServer) \in Nat
      BY DEF McpInv, McpTypeOK, WireTypeOK
    <3>2. ~WritesToServer(Initialized)
      <4>1. ASSUME toServer' = Append(toServer, Initialized) PROVE FALSE
        <5>1. Len(toServer') = Len(toServer) + 1
          BY <4>1, ToServerAppended
        <5> QED BY <1>3, <3>1, <5>1
      <4> QED BY <4>1 DEF WritesToServer
    <3> QED BY <3>2 DEF ByClient, Announces
  <2> QED BY <1>1, <1>3, <2>1, <2>2, HostAnnounced DEF Introduced, IsRequest
<1>4. ASSUME NEW m, toServer' = Append(toServer, m)
      PROVE  /\ \A k \in DOMAIN toServer : Announced(k) => Announced(k)'
             /\ \A n : n = Len(toServer) + 1 /\ Announced(n) => Announced(n)' /\ Announced(Len(toServer) + 1)'
             /\ m.kind = "initialized" => Announced(Len(toServer) + 1)'
  <2>1. /\ Len(toServer) \in Nat /\ Len(toServer') = Len(toServer) + 1
        /\ DOMAIN toServer = 1 .. Len(toServer)
        /\ DOMAIN toServer' = DOMAIN toServer \union {Len(toServer) + 1}
        /\ \A k \in DOMAIN toServer : toServer'[k] = toServer[k]
        /\ toServer'[Len(toServer) + 1] = m
    BY <1>4, ToServerAppended
  <2>2. \A j \in DOMAIN toServer : j < Len(toServer) + 1 /\ j < Len(toServer') + 1
    BY <2>1
  <2>3. Len(toServer) + 1 < Len(toServer') + 1
    BY <2>1
  <2>4. \A k \in DOMAIN toServer : Announced(k) => Announced(k)'
    BY <1>2, <2>1 DEF Announced
  <2>5. \A n : n = Len(toServer) + 1 /\ Announced(n) =>
          initialized' \/ \E j \in DOMAIN toServer' : j \in DOMAIN toServer /\ toServer'[j].kind = "initialized"
    BY <1>2, <2>1 DEF Announced
  <2>6. m.kind = "initialized" =>
          \E j \in DOMAIN toServer' : j < Len(toServer') + 1 /\ toServer'[j].kind = "initialized"
    BY <2>1, <2>3
  <2> QED BY <2>1, <2>2, <2>4, <2>5, <2>6 DEF Announced
<1>5. CASE ByClient(Announces) /\ writable /\ toServer' = Append(toServer, Initialized)
  <2>1. \A k \in DOMAIN toServer' : IsRequest(k)' => k \in DOMAIN toServer /\ IsRequest(k) /\ toServer'[k] = toServer[k]
    BY <1>5, ToServerAppended DEF IsRequest, Initialized
  <2> QED BY <1>1, <1>4, <1>5, <2>1 DEF Introduced, Initialized
<1>6. ASSUME NEW t \in Threads, ByClient(TellsAndReturns(t)), toServer' = Append(toServer, Cancel(calls[t].id))
      PROVE  Introduced'
  <2>1. \A k \in DOMAIN toServer' : IsRequest(k)' => k \in DOMAIN toServer /\ IsRequest(k) /\ toServer'[k] = toServer[k]
    BY <1>6, ToServerAppended DEF IsRequest, Cancel
  <2>2. host' \in {"list", "ready"} /\ writable' => writable /\ host \in {"list", "ready"}
    <3>1. CASE ByClient(Announces)
      BY <1>6, <3>1 DEF ByClient, Announces, TellsAndReturns, McpInv, HandsShaken, CallAt
    <3> QED BY <3>1, HostAnnounced
  <2> QED BY <1>1, <1>4, <1>6, <2>1, <2>2 DEF Introduced
<1>7. ASSUME NEW t \in Threads, ByClient(WritesRequest(t)), writable,
             toServer' = Append(toServer, Request(calls[t].id, calls[t].method))
      PROVE  Introduced'
  <2>1. UNCHANGED host /\ ~CallAt(t, "idle")
    BY <1>7 DEF ByClient, WritesRequest, CallAt
  <2>2. calls[t].method # "initialize" => host \in {"list", "ready"}
    BY <2>1 DEF McpInv, HandsShaken
  <2>3. \A k \in DOMAIN toServer' : IsRequest(k)' =>
          \/ k \in DOMAIN toServer /\ IsRequest(k) /\ toServer'[k] = toServer[k]
          \/ k = Len(toServer) + 1 /\ toServer'[k].method = calls[t].method
    BY <1>7, ToServerAppended DEF IsRequest, Request
  <2>4. \A n : host \in {"list", "ready"} /\ n = Len(toServer) + 1 => Announced(n)
    BY <1>1, <1>7 DEF Introduced
  <2>5. \A k \in DOMAIN toServer' : IsRequest(k)' /\ toServer'[k].method # "initialize" => Announced(k)'
    BY <1>1, <1>4, <1>7, <2>2, <2>3, <2>4 DEF Introduced
  <2> QED BY <1>4, <1>7, <2>1, <2>4, <2>5 DEF Introduced
<1>8. CASE toServer # <<>> /\ toServer' = Tail(toServer) /\ ByServer(Reads)
  <2>1. /\ Len(toServer) \in Nat \ {0} /\ Len(toServer') = Len(toServer) - 1
        /\ DOMAIN toServer = 1 .. Len(toServer) /\ DOMAIN toServer' = 1 .. Len(toServer) - 1
        /\ Head(toServer) = toServer[1]
        /\ \A k \in DOMAIN toServer' : k \in Nat /\ k + 1 \in DOMAIN toServer /\ toServer'[k] = toServer[k + 1]
    BY <1>8, ToServerRead
  <2>2. toServer[1].kind = "initialized" => initialized'
    BY <1>8, <2>1 DEF ByServer, Reads, AnswersInline, Queues, NotesInitialized, NotesCancelled, NextRequest
  <2>3. ASSUME NEW n \in Nat, Announced(n + 1) PROVE Announced(n)'
    <3>1. CASE initialized
      BY <1>2, <3>1 DEF Announced
    <3>2. ASSUME NEW j \in DOMAIN toServer, j < n + 1, toServer[j].kind = "initialized"
          PROVE  Announced(n)'
      <4>1. CASE j = 1
        BY <2>2, <3>2, <4>1 DEF Announced
      <4>2. CASE j # 1
        <5>1. j - 1 \in DOMAIN toServer' /\ j - 1 < n /\ j = (j - 1) + 1
          BY <2>1, <3>2, <4>2
        <5>2. toServer'[j - 1].kind = "initialized"
          BY <2>1, <3>2, <5>1
        <5> QED BY <5>1, <5>2 DEF Announced
      <4> QED BY <4>1, <4>2
    <3> QED BY <2>3, <3>1, <3>2 DEF Announced
  <2>4. \A k \in DOMAIN toServer' : IsRequest(k)' /\ toServer'[k].method # "initialize" => Announced(k)'
    BY <1>1, <2>1, <2>3 DEF Introduced, IsRequest
  <2>5. UNCHANGED <<host, writable>>
    BY <1>8 DEF ByServer, client
  <2>6. Announced(Len(toServer) + 1) => Announced(Len(toServer) + 1)'
    <3>1. ASSUME NEW j \in DOMAIN toServer, toServer[j].kind = "initialized"
          PROVE  initialized' \/ \E i \in DOMAIN toServer' : toServer'[i].kind = "initialized"
      <4>1. CASE j # 1
        <5>1. j - 1 \in DOMAIN toServer' /\ j = (j - 1) + 1
          BY <2>1, <4>1
        <5>2. toServer'[j - 1] = toServer[j]
          BY <2>1, <5>1
        <5> QED BY <3>1, <5>1, <5>2
      <4> QED BY <2>2, <3>1, <4>1
    <3>2. \A i \in DOMAIN toServer' : i < Len(toServer') + 1
      BY <2>1
    <3> QED BY <1>2, <3>1, <3>2 DEF Announced
  <2> QED BY <1>1, <2>4, <2>5, <2>6 DEF Introduced
<1> QED BY <1>3, <1>5, <1>6, <1>7, <1>8, WireSteps

-----------------------------------------------------------------------------
LEMMA McpInvInit == McpInit => McpInv
<1> SUFFICES ASSUME McpInit PROVE McpInv
  OBVIOUS
<1> USE DEF McpInit, WireInit, ClientInit, ServerInit
<1>1. PipeSize \in Nat \ {0} /\ MaxIds \in Nat /\ NoCall \notin Ids
  BY PipeAssumption, ClientAssumption DEF PipeAssumption, ClientAssumption, Ids
<1>2. \A t \in Threads : calls[t] = NotCalling /\ CallAt(t, "idle") /\ ~Active(t)
  BY DEF NotCalling, CallAt, Active
<1>3. 1 \in 1 .. MaxIds + 1 /\ nextId - 1 = 0 /\ 1 .. nextId - 1 = {}
  BY <1>1
<1>4. WireTypeOK
  BY <1>1 DEF WireTypeOK
<1>5. ClientTypeOK
  BY <1>1, <1>3 DEF ClientTypeOK, NotCalling, Calls
<1>6. ServerTypeOK
  <2>1. Waiting \in [at : {"waiting", "running", "answering"}, id : Ids \union {NoRequest}]
    BY DEF Waiting
  <2>2. /\ workers \in [Workers -> [at : {"waiting", "running", "answering"}, id : Ids \union {NoRequest}]]
    BY <2>1
  <2>3. queue \in Seq(Ids)
    OBVIOUS
  <2>4. initialized \in BOOLEAN
    BY Zenon
  <2> QED BY <2>2, <2>3, <2>4 DEF ServerTypeOK
<1>7. CallsOwned
  BY <1>2, <1>3 DEF CallsOwned, NotCalling
<1>8. HandsShaken /\ Awaited
  BY <1>2 DEF HandsShaken, Awaited, CallAt, NotCalling
<1>9. PipesClosed /\ Pooled
  BY DEF PipesClosed, Pooled, Serving, Queued, Busy, Waiting
<1>10. AskedOnce /\ AnswersServed /\ CancelsForgotten
  BY <1>2, <1>3 DEF AskedOnce, AnswersServed, CancelsForgotten, NotCalling, CallAt
<1>11. Introduced
  BY DEF Introduced
<1> QED BY <1>4, <1>5, <1>6, <1>7, <1>8, <1>9, <1>10, <1>11 DEF McpInv, McpTypeOK

LEMMA McpTypedKept ==
  ASSUME McpInv, [McpNext]_mcpVars
  PROVE  McpTypeOK'
<1>1. WireTypeOK' /\ (served \subseteq Ids)'
  BY WireTypedKept, PipesClosedKept DEF WireTypeOK
<1>2. ClientTypeOK'
  BY PlacesTypedKept, PendingTypedKept, CallsTypedKept DEF PendingTyped, CallsTyped, ClientTypeOK
<1> QED BY <1>1, <1>2, ServerTypedKept DEF McpTypeOK

LEMMA McpInvNext == McpInv /\ [McpNext]_mcpVars => McpInv'
  BY McpTypedKept, CallsTypedKept, HandsShakenKept, AwaitedKept, PipesClosedKept, PooledKept, AskedOnceKept,
     AnswersServedKept, CancelsForgottenKept, IntroducedKept
  DEF McpInv

(* The inductive invariant of a connection.                                *)
THEOREM McpInvariant == McpSpec => []McpInv
  BY McpInvInit, McpInvNext, PTL DEF McpSpec

(* What the facts of the invariant mean to those who wait, to the server   *)
(* that drains and to an answer that is withheld.                          *)
LEMMA McpInvImplies ==
  ASSUME McpInv
  PROVE  NobodyLeftWaiting /\ DrainAnswersAll /\ WithheldIsUnwanted
<1>1. NobodyLeftWaiting
  BY DEF McpInv, Awaited, NobodyLeftWaiting, CallAt
<1>2. DrainAnswersAll
  BY DEF McpInv, Pooled, DrainAnswersAll
<1>3. WithheldIsUnwanted
  BY DEF McpInv, Pooled, CancelsForgotten, Forgotten, WithheldIsUnwanted
<1> QED BY <1>1, <1>2, <1>3

(* Client::send_async, await and handle_response, Server::on_message and   *)
(* worker_loop: the types of the whole connection.                         *)
THEOREM McpTypeCorrect == McpSpec => []McpTypeOK
<1>1. McpInv => McpTypeOK
  BY DEF McpInv
<1> QED BY <1>1, McpInvariant, PTL

(* Client::on_closed: when the reader thread has seen the end, everybody   *)
(* who waits has been told.                                                *)
THEOREM EverybodyIsTold == McpSpec => []NobodyLeftWaiting
<1>1. McpInv => NobodyLeftWaiting
  BY McpInvImplies
<1> QED BY <1>1, McpInvariant, PTL

(* Server::stop_workers: what was accepted is answered before the exit.    *)
THEOREM DrainIsComplete == McpSpec => []DrainAnswersAll
<1>1. McpInv => DrainAnswersAll
  BY McpInvImplies
<1> QED BY <1>1, McpInvariant, PTL

(* Server::run_request: only a caller that gave up goes without an answer. *)
THEOREM OnlyTheUnwantedIsWithheld == McpSpec => []WithheldIsUnwanted
<1>1. McpInv => WithheldIsUnwanted
  BY McpInvImplies
<1> QED BY <1>1, McpInvariant, PTL

(* The connection implements what its callers rely on: a call ends once,   *)
(* and with an answer only if the server wrote one to that very request.   *)
LEMMA CallsStep ==
  ASSUME McpInv, [McpNext]_mcpVars
  PROVE  [CallsSpec!Next]_<<nextId - 1, ended, served>>
<1>0. nextId \in Nat \ {0} /\ MaxIds \in Nat
  BY IdsGrow
<1>1. CASE UNCHANGED <<nextId, ended, served>>
  BY <1>1
<1>2. CASE ByClient(ClientStep)
  <2>1. ASSUME NEW t \in Threads, Registers(t)
        PROVE  CallsSpec!Make
    BY <1>0, <1>2, <2>1 DEF Registers, ByClient, CallsSpec!Make
  <2>2. ASSUME NEW t \in Threads, CallReturns(t)
        PROVE  CallsSpec!Next
    <3>1. PICK how \in (Outcomes \union {"gave up"}) \ {"refusal"} :
            Returns(t, CallId(t), how) /\ (how = "answer" => CallId(t) \in served)
      BY <2>2 DEF CallReturns
    <3>2. calls[t].id \in 1 .. nextId - 1 /\ calls[t].id \in Ids /\ ended[calls[t].id] = "no"
      BY <2>2, CallsKnown DEF CallReturns, CallAt, Active
    <3>3. ended' = [ended EXCEPT ![calls[t].id] = how] /\ UNCHANGED <<nextId, served>>
      BY <1>2, <2>2, <3>1 DEF Returns, CallReturns, CallId, ByClient
    <3>4. CallsSpec!End(calls[t].id, how)
      BY <3>1, <3>2, <3>3 DEF CallsSpec!End, CallId
    <3> QED BY <3>1, <3>2, <3>4 DEF CallsSpec!Next, Ids
  <2>3. ASSUME NEW t \in Threads, Begins(t) \/ \E place \in {"retracting", "awaiting", "telling"} : Goes(t, place)
        PROVE  UNCHANGED <<nextId, ended, served>>
    BY <1>2, <2>3 DEF Begins, Goes, ByClient
  <2> QED BY <1>1, <1>2, <2>1, <2>2, <2>3, ClientSteps DEF ByClient, CallsSpec!Next
<1>3. CASE ByServer(ServerStep)
  <2>1. UNCHANGED <<nextId, ended>>
    BY <1>3 DEF ByServer, client
  <2>2. ASSUME NEW i \in Ids, served' = served \union {i}, i \in (1 .. nextId - 1) \ served
        PROVE  CallsSpec!Next
    BY <2>1, <2>2 DEF CallsSpec!Next, CallsSpec!Serve, Ids
  <2>3. ASSUME AnswersInline
        PROVE  Head(toServer).id \in (1 .. nextId - 1) \ served
    BY <2>3, FirstRequest DEF AnswersInline, NextRequest, McpInv, AskedOnce, IsRequest
  <2>4. ASSUME NEW w \in Workers, WorkerAnswers(w)
        PROVE  workers[w].id \in (1 .. nextId - 1) \ served
    BY <2>4 DEF WorkerAnswers, McpInv, Pooled, Busy, AskedOnce
  <2>5. \/ UNCHANGED served
        \/ \E i \in Ids : served' = served \union {i} /\ i \in (1 .. nextId - 1) \ served
    <3>1. \/ UNCHANGED served
          \/ \E i \in Ids : /\ served' = served \union {i}
                            /\ \/ AnswersInline /\ i = Head(toServer).id
                               \/ \E w \in Workers : WorkerAnswers(w) /\ i = workers[w].id
      BY ServedGrows
    <3> QED BY <2>3, <2>4, <3>1
  <2> QED BY <1>1, <2>1, <2>2, <2>5
<1> QED BY <1>1, <1>2, <1>3 DEF McpNext, mcpVars, client

THEOREM CallsAreKept == McpSpec => ImplementsCalls
<1>1. McpInit => CallsSpec!Init
  BY DEF McpInit, ClientInit, CallsSpec!Init, Ids
<1>2. McpInv /\ [McpNext]_mcpVars => [CallsSpec!Next]_<<nextId - 1, ended, served>>
  BY CallsStep
<1> QED BY <1>1, <1>2, McpInvariant, PTL DEF McpSpec, ImplementsCalls, CallsSpec!Spec
=============================================================================
