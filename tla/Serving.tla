------------------------------ MODULE Serving ------------------------------
(***************************************************************************)
(* Distributed search: a client (the ClientWrapper of the client program,  *)
(* or the AnnClient of the language wrappers), the aggregator, and search  *)
(* servers, over the connections of Socket::Client and Socket::Server.     *)
(*                                                                         *)
(* A query is sent with a callback that must be called with an answer, a   *)
(* network failure or a timeout.  The aggregator sends it on to the        *)
(* connected servers, with a callback for each, and answers when the last  *)
(* of them has been called.  Connections break; sends fail after the       *)
(* callback has been registered; timeouts race late answers.               *)
(*                                                                         *)
(* A link is <<dialing process, connection id>>; the accepting side names  *)
(* it by the same pair.  Registration and heartbeat packets carry nothing  *)
(* that the request path reads; a heartbeat is one more way to notice a    *)
(* broken link, and noticing may happen at any time here.                  *)
(***************************************************************************)
EXTENDS ResourceManager, Integers, FiniteSets, Functions

CONSTANTS Queries,      \* queries that the client may send, each once
          Unreadable,   \* those with another major version, that a server refuses
          Servers,      \* GetRemoteServers()
          Slots,        \* m_connections of the ClientWrapper, one per m_threadNum
          PoolSize,     \* c_connectionPoolSize
          MaxId,        \* bound on the connection ids of one manager
          Wrap,         \* stands for 2^32, modulus of the unsigned counters
          Settings      \* the clients, options and bounds that a run covers

ASSUME ServingAssumption ==
    /\ IsFiniteSet(Queries) /\ Unreadable \subseteq Queries /\ Slots \subseteq Nat
    /\ IsFiniteSet(Servers) /\ Cardinality(Servers) < Wrap
    /\ NoResource \notin Queries \cup (Queries \X Servers)
    /\ PoolSize \in Nat \ {0} /\ MaxId \in Nat \ {0} /\ Wrap \in Nat \ {0, 1}
    /\ \A c \in Settings :
         /\ c.api \in {"wrapper", "ann"}    \* the client in use
         /\ c.queries \subseteq Queries
         /\ c.servers \subseteq Servers
         /\ c.topK \in Int /\ c.topK <= Cardinality(c.servers)   \* m_topK: at most 0 asks all
         /\ c.connected \in BOOLEAN        \* starts with all connections made
         /\ c.connected => Cardinality(Slots) = 1 /\ Cardinality(c.servers) <= MaxId
         /\ c.faults \in Nat              \* bound on connects that fail and links that break

Dialers == {"client", "agg"}

None == "none"

VARIABLES
    setting,   \* the member of Settings in force, chosen at the start
    faults,    \* faults so far
    \* sockets
    table,     \* dialer -> position -> id of the connection there, or 0
    nextId,    \* dialer -> m_nextConnectionID
    dialed,    \* dialer -> id -> the process it goes to
    far,       \* links that the accepting side still holds
    cut,       \* links whose network is broken
    writes,    \* writes posted on a strand, not yet completed
    failed,    \* failed writes whose callback has not run yet
    posted,    \* packets read and handed to a thread pool
    \* client
    cmgr,      \* m_callbackManager
    slot,      \* ConnectionPair::first by slot
    redial,    \* reconnect loops of HandleDeadConnection
    count,     \* unfinished jobs: one counter, or one WaitSignal per search
    flag,      \* m_isWaitingFinish, or m_isWaiting
    main,      \* the calling thread
    sent,      \* queries sent so far
    calls,     \* query -> the results its callback was called with
    todo,      \* steps of callbacks still to run
    sendFailed,\* queries with a failed send, at the client or the aggregator
    \* aggregator
    amgr,      \* m_aggregatorCallbackManager
    status, connId, runner, pending,  \* RemoteMachines and m_pendingConnectServers
    ctx        \* query -> its AggregatorExecutionContext

socketVars == <<table, nextId, dialed, far, cut, writes, failed, posted>>
clientVars == <<cmgr, slot, redial, count, flag, main, sent, calls, todo>>
aggVars == <<amgr, status, connId, runner, pending, ctx>>
vars == <<setting, faults, socketVars, clientVars, sendFailed, aggVars>>

api == setting.api

Fault == faults < setting.faults /\ faults' = faults + 1

\* The counter that a query decrements: m_unfinishedJobCount of the wrapper is
\* shared, AnnClient::Search makes a WaitSignal of its own.
Key(q) == IF api = "ann" THEN q ELSE "all"
Keys == Queries \cup {"all"}

GetPosition(id) == id % PoolSize

\* GetConnection: the connection in the position, if it has this id.
HasConnection(p, id) == id # 0 /\ table[p][GetPosition(id)] = id

NoContext == [used |-> FALSE, todo |-> {}, conn |-> [s \in Servers |-> 0],
              result |-> [s \in Servers |-> {}], count |-> 0, rid |-> 0,
              link |-> <<"client", 0>>, asked |-> {}]

\* Servers of the setting in some order.
Order == CHOOSE f \in Bijection(1..Cardinality(setting.servers), setting.servers) : TRUE

\* The processes have started, or, to save a run the steps of connecting, all
\* connections have been made without a fault.
Init ==
    /\ setting \in Settings /\ faults = 0
    /\ LET on == setting.connected
           n == IF on THEN Cardinality(setting.servers) ELSE 0
           Filled(k) == [i \in 0..(PoolSize - 1) |->
                           IF \E id \in 1..k : GetPosition(id) = i THEN CHOOSE id \in 1..k : GetPosition(id) = i ELSE 0]
       IN /\ table = [p \in Dialers |-> Filled(IF p = "agg" THEN n ELSE IF on THEN 1 ELSE 0)]
          /\ nextId = [p \in Dialers |-> 1 + (IF p = "agg" THEN n ELSE IF on THEN 1 ELSE 0)]
          /\ dialed = [p \in Dialers |-> [i \in 1..MaxId |->
                          IF p = "agg" /\ i <= n THEN Order[i]
                          ELSE IF p = "client" /\ on /\ i = 1 THEN "agg" ELSE None]]
          /\ far = {<<"agg", id>> : id \in 1..n} \cup (IF on THEN {<<"client", 1>>} ELSE {})
          /\ slot = [i \in Slots |-> IF on THEN 1 ELSE 0]
          /\ redial = [i \in Slots |-> IF on THEN None ELSE "start"]
          /\ status = [s \in Servers |-> IF on THEN "Connected" ELSE "Disconnected"]
          /\ connId = [s \in Servers |-> IF on /\ s \in setting.servers THEN CHOOSE id \in 1..n : Order[id] = s ELSE 0]
          /\ pending = IF on THEN {} ELSE setting.servers
    /\ cut = {} /\ writes = {} /\ failed = {} /\ posted = {}
    /\ cmgr = NewManager /\ amgr = NewManager
    /\ count = [k \in Keys |-> 0] /\ flag = [k \in Keys |-> FALSE]
    /\ main = "idle" /\ sent = {} /\ calls = [q \in Queries |-> <<>>] /\ todo = {}
    /\ sendFailed = {}
    /\ runner = [s \in Servers |-> None]
    /\ ctx = [q \in Queries |-> NoContext]

-----------------------------------------------------------------------------
(* Connections.  AddConnection takes the next id whose position is empty;   *)
(* it gives up only when it meets a taken position while the pool is full.  *)

FreeIds(p) == {id \in nextId[p]..MaxId : table[p][GetPosition(id)] = 0}

CanAdd(p) == FreeIds(p) # {}

NewId(p) == CHOOSE id \in FreeIds(p) : \A other \in FreeIds(p) : id <= other

\* ConnectToServer succeeds: the accepting side takes the connection too, or
\* its own pool is full and it drops the socket.
AddConnection(p, to) ==
    LET id == NewId(p)
    IN /\ CanAdd(p)
       /\ table' = [table EXCEPT ![p][GetPosition(id)] = id]
       /\ nextId' = [nextId EXCEPT ![p] = id + 1]
       /\ dialed' = [dialed EXCEPT ![p][id] = to]
       /\ \/ far' = far \cup {<<p, id>>} /\ UNCHANGED faults
          \/ far' = far /\ Fault

\* Mutant: the status is set, the list forgotten.
EventOnClose_NotListed(id) ==
    /\ status' = [s \in Servers |-> IF connId[s] = id THEN "Disconnected" ELSE status[s]]
    /\ UNCHANGED pending

\* The event that StartClient sets: the servers behind this id are to be
\* connected again.
EventOnClose(id) ==
    LET hit == {s \in Servers : connId[s] = id}
    IN /\ status' = [s \in Servers |-> IF s \in hit THEN "Disconnected" ELSE status[s]]
       /\ pending' = pending \cup hit

\* HandleDeadConnection: the first slot with this id is emptied and a reconnect
\* loop starts, in the thread that noticed (a failed write of a query, or a read).
\* AnnClient does not look at the id.
HandleDeadConnection(id, by) ==
    LET hit == {i \in Slots : redial[i] # "absent" /\ (slot[i] = id \/ api = "ann")}
        first == CHOOSE i \in hit : \A j \in hit : i <= j
    IN IF hit = {} THEN UNCHANGED <<slot, redial>>
       ELSE /\ slot' = [slot EXCEPT ![first] = 0]
            /\ redial' = [redial EXCEPT ![first] = by]

\* RemoveConnection looks at the position only, not at the id.
RemoveConnection(link, side, by) ==
    LET p == link[1]  id == link[2]
    IN IF side = "far"
       THEN far' = far \ {link} /\ UNCHANGED <<table, slot, redial, status, pending>>
       ELSE /\ UNCHANGED far
            /\ IF table[p][GetPosition(id)] = 0
               THEN UNCHANGED <<table, slot, redial, status, pending>>
               ELSE /\ table' = [table EXCEPT ![p][GetPosition(id)] = 0]
                    /\ IF p = "agg"
                       THEN EventOnClose(id) /\ UNCHANGED <<slot, redial>>
                       ELSE HandleDeadConnection(id, by) /\ UNCHANGED <<status, pending>>

Open(link, side) == IF side = "far" THEN link \in far ELSE HasConnection(link[1], link[2])

Other(side) == IF side = "far" THEN "near" ELSE "far"

Broken(link, side) == link \in cut \/ ~Open(link, Other(side))

\* AsyncSend's post on the strand; SendPacket has found the connection.
Write(link, side, msg) == writes' = writes \cup {[link |-> link, side |-> side, msg |-> msg]}

\* async_write succeeds, and the other side reads the packet: HandleReadBody
\* finds the handler of its type, which posts it to a thread pool or, at the
\* client, handles it.  On a broken link the bytes are lost.
Deliver(w) ==
    /\ w \in writes /\ Open(w.link, w.side)
    /\ writes' = writes \ {w}
    /\ posted' = IF Broken(w.link, w.side) THEN posted ELSE posted \cup {w}
    /\ UNCHANGED <<setting, faults, table, nextId, dialed, far, cut, failed, clientVars, sendFailed, aggVars>>

\* async_write fails: OnConnectionFail, then the callback.
WriteFails(w) ==
    /\ w \in writes /\ Open(w.link, w.side) /\ Broken(w.link, w.side)
    /\ writes' = writes \ {w}
    /\ failed' = IF w.side = "near" THEN failed \cup {w} ELSE failed
    /\ RemoveConnection(w.link, w.side, w.msg.q)
    /\ UNCHANGED <<setting, faults, nextId, dialed, cut, posted, cmgr, count, flag, main, sent, calls, todo,
                   sendFailed, amgr, connId, runner, ctx>>

\* The socket has been closed on this side: operation_aborted.
WriteAborted(w) ==
    /\ w \in writes /\ ~Open(w.link, w.side)
    /\ writes' = writes \ {w}
    /\ failed' = IF w.side = "near" THEN failed \cup {w} ELSE failed
    /\ UNCHANGED <<setting, faults, table, nextId, dialed, far, cut, posted, clientVars, sendFailed, aggVars>>

\* HandleReadHeader or HandleReadBody meet an error other than operation_aborted.
ReadFails(link, side) ==
    /\ Open(link, side) /\ Broken(link, side)
    /\ RemoveConnection(link, side, "read")
    /\ UNCHANGED <<setting, faults, nextId, dialed, cut, writes, failed, posted, cmgr, count, flag, main, sent,
                   calls, todo, sendFailed, amgr, connId, runner, ctx>>

Break(link) ==
    /\ Fault
    /\ link \notin cut /\ link \in far
    /\ cut' = cut \cup {link}
    /\ UNCHANGED <<setting, table, nextId, dialed, far, writes, failed, posted, clientVars, sendFailed, aggVars>>

-----------------------------------------------------------------------------
(* The client *)

\* A step of the constructor's loop or of HandleDeadConnection's: connected.
Redial(i) ==
    /\ redial[i] \notin {None, "absent"}
    /\ AddConnection("client", "agg")
    /\ slot' = [slot EXCEPT ![i] = NewId("client")]
    /\ redial' = [redial EXCEPT ![i] = None]
    /\ UNCHANGED <<setting, cut, writes, failed, posted, cmgr, count, flag, main, sent, calls, todo,
                   sendFailed, aggVars>>

\* It fails.  The constructor leaves the slot out; a later loop ends only if the
\* address cannot be resolved, and the slot stays empty.  AnnClient never gives up.
GiveUp(i) ==
    /\ redial[i] \notin {None, "absent"} /\ api = "wrapper" /\ Fault
    /\ redial' = [redial EXCEPT ![i] = IF @ = "start" THEN "absent" ELSE None]
    /\ UNCHANGED <<setting, socketVars, cmgr, slot, count, flag, main, sent, calls, todo, sendFailed, aggVars>>

\* GetConnection of the wrapper: round robin past empty slots, any slot if all
\* are empty.  AnnClient has one connection.
Connections == {i \in Slots : redial[i] # "absent"}

GetConnection == LET live == {i \in Connections : slot[i] # 0}
                 IN IF live = {} THEN Connections ELSE live

Message(type, rid, q, results) == [type |-> type, rid |-> rid, q |-> q, results |-> results]

\* SendPacket: the write is posted, or the callback is called at once.
\* (AsyncSend finds m_stopped only after GetConnection has lost the connection.)
SendQuery(q, i) ==
    LET link == <<"client", slot[i]>>
        up == HasConnection("client", slot[i])
    IN /\ main = "idle" /\ q \in setting.queries \ sent /\ i \in GetConnection
       /\ api = "ann" => slot[i] # 0
       /\ \A j \in Slots : redial[j] # "start"
       /\ sent' = sent \cup {q}
       /\ cmgr' = Add(cmgr, q, TRUE)
       /\ count' = [count EXCEPT ![Key(q)] = (@ + 1) % Wrap]
       /\ IF up THEN /\ Write(link, "near", Message("request", AddedId(cmgr), q, {}))
                     /\ UNCHANGED <<todo, calls, sendFailed>>
                ELSE /\ calls' = [calls EXCEPT ![q] = Append(@, [status |-> "FailedNetwork", results |-> {}])]
                     /\ todo' = todo \cup {[q |-> q, by |-> "send", op |-> "decrease"]}
                     /\ sendFailed' = sendFailed \cup {<<"client", q>>}
                     /\ UNCHANGED writes
       /\ main' = IF api = "ann" THEN q ELSE "all"
       /\ UNCHANGED <<setting, faults, table, nextId, dialed, far, cut, failed, posted, slot, redial, flag, aggVars>>

\* AnnClient::Search without a connection: returns an empty result.
SearchUnconnected(q) ==
    /\ api = "ann" /\ main = "idle" /\ q \in setting.queries \ sent /\ \A i \in Slots : slot[i] = 0
    /\ sent' = sent \cup {q}
    /\ calls' = [calls EXCEPT ![q] = Append(@, [status |-> "Timeout", results |-> {}])]
    /\ UNCHANGED <<setting, faults, socketVars, cmgr, slot, redial, count, flag, main, todo, sendFailed, aggVars>>

\* WaitAllFinished or WaitSignal::Wait, with the lock: nothing to wait for, or
\* the flag is set and the thread waits.
NothingToWaitFor ==
    /\ main \in Keys /\ count[main] = 0 /\ ~flag[main]
    /\ main' = "idle"
    /\ UNCHANGED <<setting, faults, socketVars, cmgr, slot, redial, count, flag, sent, calls, todo, sendFailed, aggVars>>

StartWaiting ==
    /\ main \in Keys /\ count[main] > 0 /\ ~flag[main]
    /\ flag' = [flag EXCEPT ![main] = TRUE]
    /\ UNCHANGED <<setting, faults, socketVars, cmgr, slot, redial, count, main, sent, calls, todo, sendFailed, aggVars>>

\* Mutant: the comparison with the value before the decrement instead of the
\* one after.
AfterDecrease_OffByOne(t) == IF count[Key(t.q)] = 0 THEN {[t EXCEPT !.op = "notify"]} ELSE {}

\* A callback step: call it, decrease the counter, or notify the waiting thread.
Decremented(k) == [count EXCEPT ![k] = (@ + Wrap - 1) % Wrap]

AfterDecrease(t) == IF count[Key(t.q)] = 1 THEN {[t EXCEPT !.op = "notify"]} ELSE {}

\* Decreasing comes after the callback, except for a timeout of the wrapper.
CallLast(t) == api = "wrapper" /\ t.by = "timeout"

Call(t) ==
    /\ t \in todo /\ t.op = "call"
    /\ calls' = [calls EXCEPT ![t.q] = Append(@, [status |-> IF t.by = "timeout" THEN "Timeout" ELSE "FailedNetwork",
                                                 results |-> {}])]
    /\ todo' = (todo \ {t}) \cup IF CallLast(t) THEN {} ELSE {[t EXCEPT !.op = "decrease"]}
    /\ UNCHANGED <<setting, faults, socketVars, cmgr, slot, redial, count, flag, main, sent, sendFailed, aggVars>>

Decrease(t) ==
    /\ t \in todo /\ t.op = "decrease"
    /\ count' = Decremented(Key(t.q))
    /\ todo' = (todo \ {t}) \cup AfterDecrease(t)
                            \cup IF CallLast(t) THEN {[t EXCEPT !.op = "call"]} ELSE {}
    /\ UNCHANGED <<setting, faults, socketVars, cmgr, slot, redial, flag, main, sent, calls, sendFailed, aggVars>>

\* With the lock.  The wrapper looks at the counter again, the signal does not.
Notify(t) ==
    LET k == Key(t.q)
        wake == flag[k] /\ (api = "wrapper" => count[k] = 0)
    IN /\ t \in todo /\ t.op = "notify"
       /\ todo' = todo \ {t}
       /\ flag' = [flag EXCEPT ![k] = @ /\ ~wake]
       /\ main' = IF wake /\ main = k THEN "idle" ELSE main
       /\ UNCHANGED <<setting, faults, socketVars, cmgr, slot, redial, count, sent, calls, sendFailed, aggVars>>

\* The failed send's callback, once a reconnect loop that it started has ended.
ClientSendFailed(w) ==
    /\ w \in failed /\ w.link[1] = "client"
    /\ \A i \in Slots : redial[i] # w.msg.q
    /\ failed' = failed \ {w}
    /\ todo' = todo \cup {[q |-> w.msg.q, by |-> "send", op |-> "call"]}
    /\ sendFailed' = sendFailed \cup {<<"client", w.msg.q>>}
    /\ UNCHANGED <<setting, faults, table, nextId, dialed, far, cut, writes, posted, cmgr, slot, redial, count,
                   flag, main, sent, calls, aggVars>>

\* SearchResponseHanlder of the client: the callback is called in the same
\* thread that removed it.
ClientResponse(w) ==
    LET q == cmgr.resources[w.msg.rid]
        known == Pending(cmgr, w.msg.rid)
    IN /\ w \in posted /\ w.side = "far" /\ w.link[1] = "client"
       /\ posted' = posted \ {w}
       /\ cmgr' = GetAndRemove(cmgr, w.msg.rid)
       /\ calls' = IF known THEN [calls EXCEPT ![q] = Append(@, [status |-> "Success", results |-> w.msg.results])]
                   ELSE calls
       /\ todo' = IF known THEN todo \cup {[q |-> q, by |-> "reply", op |-> "decrease"]} ELSE todo
       /\ UNCHANGED <<setting, faults, table, nextId, dialed, far, cut, writes, failed, slot, redial, count, flag,
                      main, sent, sendFailed, aggVars>>

\* Mutant: an expired callback is dropped without being called.
ClientExpire_Silent ==
    /\ CanExpire(cmgr)
    /\ cmgr' = Expire(cmgr)
    /\ UNCHANGED <<setting, faults, socketVars, slot, redial, count, flag, main, sent, calls, todo, sendFailed, aggVars>>

\* The timeout callback starts: with the counter in the wrapper.
ClientExpire ==
    LET rid == ExpiredId(cmgr)
        start == IF api = "wrapper" THEN "decrease" ELSE "call"
    IN /\ CanExpire(cmgr)
       /\ cmgr' = Expire(cmgr)
       /\ todo' = IF Pending(cmgr, rid) THEN todo \cup {[q |-> cmgr.resources[rid], by |-> "timeout", op |-> start]}
                  ELSE todo
       /\ UNCHANGED <<setting, faults, socketVars, slot, redial, count, flag, main, sent, calls, sendFailed, aggVars>>

-----------------------------------------------------------------------------
(* The aggregator *)

\* ConnectToPendingServers, run by its timer.
ConnectToPendingServers ==
    LET start == {s \in pending : status[s] = "Disconnected"}
    IN /\ pending # {}
       /\ pending' = {}
       /\ status' = [s \in Servers |-> IF s \in start THEN "Connecting" ELSE status[s]]
       /\ runner' = [s \in Servers |-> IF s \in start THEN "dial" ELSE runner[s]]
       /\ UNCHANGED <<setting, faults, socketVars, clientVars, sendFailed, amgr, connId, ctx>>

\* The runner of a server, first half: ConnectToServer.
Dial(s) ==
    /\ runner[s] = "dial"
    /\ AddConnection("agg", s)
    /\ runner' = [runner EXCEPT ![s] = "connected"]
    /\ UNCHANGED <<setting, cut, writes, failed, posted, clientVars, sendFailed, amgr, status, connId, pending, ctx>>

\* It fails, and the server goes back to the list if its address was resolved.
\* The status stays Connecting.
DialFails(s) ==
    /\ runner[s] = "dial" /\ Fault
    /\ runner' = [runner EXCEPT ![s] = None]
    /\ pending' \in {pending, pending \cup {s}}
    /\ UNCHANGED <<setting, socketVars, clientVars, sendFailed, amgr, status, connId, ctx>>

\* Second half: the id and the status are noted.
NoteConnection(s) ==
    LET ids == {id \in 1..MaxId : dialed["agg"][id] = s}
        id == CHOOSE i \in ids : \A j \in ids : j <= i
    IN /\ runner[s] = "connected"
       /\ runner' = [runner EXCEPT ![s] = None]
       /\ connId' = [connId EXCEPT ![s] = id]
       /\ status' = [status EXCEPT ![s] = "Connected"]
       /\ UNCHANGED <<setting, faults, socketVars, clientVars, sendFailed, amgr, pending, ctx>>

\* The context of a request and the servers to ask.
Selected(w, asked) ==
    [used |-> TRUE, todo |-> asked, conn |-> [s \in Servers |-> IF s \in asked THEN connId[s] ELSE 0],
     result |-> [s \in Servers |-> {}], count |-> Cardinality(asked), rid |-> w.msg.rid,
     link |-> w.link, asked |-> asked]

\* SearchRequestHanlder, first half: the servers to ask.  With a positive
\* m_topK only the closest ones, whichever those are, are candidates.
SelectServers(w) ==
    /\ w \in posted /\ w.side = "near" /\ w.link[1] = "client"
    /\ posted' = posted \ {w}
    /\ \E candidates \in SUBSET setting.servers :
         LET asked == {s \in candidates : status[s] = "Connected"}
         IN /\ IF setting.topK > 0 THEN Cardinality(candidates) = setting.topK ELSE candidates = setting.servers
            /\ ctx' = [ctx EXCEPT ![w.msg.q] = Selected(w, asked)]
    /\ UNCHANGED <<setting, faults, table, nextId, dialed, far, cut, writes, failed, clientVars, sendFailed,
                   amgr, status, connId, runner, pending>>

\* AggregateResults: what the results hold so far goes to the client, unless the
\* connection is gone.  c.result[s] is {} for nullptr and {r} for a result r.
Aggregated(c) == UNION UNION {c.result[s] : s \in Servers}

\* Mutant: answers when one server is still out.
Finish_Early(q, c, s, results) ==
    LET d == [c EXCEPT !.result[s] = {results}]
        answer == [link |-> c.link, side |-> "far", msg |-> Message("response", c.rid, q, Aggregated(d))]
    IN /\ ctx' = [ctx EXCEPT ![q] = [d EXCEPT !.count = (@ + Wrap - 1) % Wrap]]
       /\ writes' = IF c.count <= 2 /\ c.link \in far THEN writes \cup {answer} ELSE writes

\* The callback of server s in context c of query q: the result is stored, the
\* counter decreased, and the last one (or one after the last) answers.
Finish(q, c, s, results) ==
    LET d == [c EXCEPT !.result[s] = {results}]
        answer == [link |-> c.link, side |-> "far", msg |-> Message("response", c.rid, q, Aggregated(d))]
    IN /\ ctx' = [ctx EXCEPT ![q] = [d EXCEPT !.count = (@ + Wrap - 1) % Wrap]]
       /\ writes' = IF c.count <= 1 /\ c.link \in far THEN writes \cup {answer} ELSE writes

\* The results of a failure or a timeout.
NoResults == {}

\* SearchRequestHanlder, loop body: a callback is registered and the packet sent.
AskServer(q, s) ==
    LET c == [ctx[q] EXCEPT !.todo = @ \ {s}]
    IN /\ s \in ctx[q].todo
       /\ amgr' = Add(amgr, <<q, s>>, TRUE)
       /\ IF HasConnection("agg", c.conn[s])
          THEN /\ Write(<<"agg", c.conn[s]>>, "near", Message("request", AddedId(amgr), q, {}))
               /\ ctx' = [ctx EXCEPT ![q] = c]
               /\ UNCHANGED sendFailed
          ELSE /\ Finish(q, c, s, NoResults)
               /\ sendFailed' = sendFailed \cup {<<"agg", q>>}
       /\ UNCHANGED <<setting, faults, table, nextId, dialed, far, cut, failed, posted, clientVars, status, connId,
                      runner, pending>>

\* The send fails later: the callback is called, and stays registered.
AggSendFailed(w) ==
    LET q == w.msg.q
    IN /\ w \in failed /\ w.link[1] = "agg"
       /\ failed' = failed \ {w}
       /\ Finish(q, ctx[q], dialed["agg"][w.link[2]], NoResults)
       /\ sendFailed' = sendFailed \cup {<<"agg", q>>}
       /\ UNCHANGED <<setting, faults, table, nextId, dialed, far, cut, posted, clientVars, amgr, status, connId,
                      runner, pending>>

\* A registered callback, called with the results.
CallBack(rid, results) ==
    IF Pending(amgr, rid)
    THEN LET q == amgr.resources[rid][1] IN Finish(q, ctx[q], amgr.resources[rid][2], results)
    ELSE UNCHANGED <<ctx, writes>>

\* SearchResponseHanlder of the aggregator.
AggResponse(w) ==
    /\ w \in posted /\ w.side = "far" /\ w.link[1] = "agg"
    /\ posted' = posted \ {w}
    /\ amgr' = GetAndRemove(amgr, w.msg.rid)
    /\ CallBack(w.msg.rid, w.msg.results)
    /\ UNCHANGED <<setting, faults, table, nextId, dialed, far, cut, failed, clientVars, sendFailed, status, connId,
                   runner, pending>>

AggExpire ==
    /\ CanExpire(amgr)
    /\ amgr' = Expire(amgr)
    /\ CallBack(ExpiredId(amgr), NoResults)
    /\ UNCHANGED <<setting, faults, table, nextId, dialed, far, cut, failed, posted, clientVars, sendFailed, status,
                   connId, runner, pending>>

-----------------------------------------------------------------------------
(* A search server *)

\* SearchHanlder: execute the query and send what was found.  A body that cannot
\* be read is logged and not answered.  A failed search answers too, without results;
\* nothing downstream looks at them, so one result per server stands for both.
Search(w) ==
    /\ w \in posted /\ w.side = "near" /\ w.link[1] = "agg"
    /\ posted' = posted \ {w}
    /\ IF w.msg.q \notin Unreadable /\ w.link \in far
       THEN Write(w.link, "far", Message("response", w.msg.rid, w.msg.q, {<<dialed["agg"][w.link[2]], w.msg.q>>}))
       ELSE UNCHANGED writes
    /\ UNCHANGED <<setting, faults, table, nextId, dialed, far, cut, failed, clientVars, sendFailed, aggVars>>

-----------------------------------------------------------------------------
Links == {<<p, id>> : p \in Dialers, id \in 1..MaxId}

Sockets ==
    \/ \E w \in writes : Deliver(w) \/ WriteFails(w) \/ WriteAborted(w)
    \/ \E link \in Links : Break(link) \/ \E side \in {"near", "far"} : ReadFails(link, side)

\* The client's threads, apart from the decision to send a query.
ClientStep ==
    \/ NothingToWaitFor \/ StartWaiting \/ ClientExpire
    \/ \E t \in todo : Call(t) \/ Decrease(t) \/ Notify(t)

Client ==
    \/ ClientStep
    \/ \E i \in Slots : Redial(i) \/ GiveUp(i)
    \/ \E q \in Queries : SearchUnconnected(q) \/ \E i \in Slots : SendQuery(q, i)
    \/ \E w \in failed : ClientSendFailed(w)
    \/ \E w \in posted : ClientResponse(w)

Aggregator ==
    \/ ConnectToPendingServers \/ AggExpire
    \/ \E s \in Servers : Dial(s) \/ DialFails(s) \/ NoteConnection(s) \/ \E q \in Queries : AskServer(q, s)
    \/ \E w \in posted : SelectServers(w) \/ AggResponse(w)
    \/ \E w \in failed : AggSendFailed(w)

Next == Sockets \/ Client \/ Aggregator \/ \E w \in posted : Search(w)

\* The client's timer thread and the threads inside a callback keep running.
Spec == Init /\ [][Next]_vars /\ WF_vars(ClientStep)

-----------------------------------------------------------------------------
(* Properties *)

ResultOf(q) == [status : {"Success", "FailedNetwork", "Timeout"}, results : SUBSET (Servers \X Queries)]

\* The state of the sockets and of the aggregator keeps its types: no counter
\* leaves its width and no id its range.
TypeOK ==
    /\ \A p \in Dialers : /\ nextId[p] \in 1..(MaxId + 1)
                           /\ table[p] \in [0..(PoolSize - 1) -> 0..MaxId]
    /\ count \in [Keys -> 0..(Wrap - 1)] /\ flag \in [Keys -> BOOLEAN]
    /\ main \in Keys \cup {"idle"}
    /\ status \in [Servers -> {"Disconnected", "Connecting", "Connected"}]
    /\ \A q \in Queries : ctx[q].count \in 0..(Wrap - 1) /\ \A k \in DOMAIN calls[q] : calls[q][k] \in ResultOf(q)

\* SendQueryAsync and Search: the callback of a query is called at most once,
\* whatever late answers, duplicate answers of the aggregator and timeouts
\* there are, unless its own send failed (which leaves the callback registered).
AnsweredOnce == \A q \in Queries : <<"client", q>> \notin sendFailed => Len(calls[q]) <= 1

\* An answer carries results of its own query only, although resource ids are
\* per process and the aggregator translates them back.
OwnResults == \A q \in Queries : \A k \in DOMAIN calls[q] : \A r \in calls[q][k].results : r[2] = q

\* A caller of SendQueryAsync or Search may rely on its answers: one per query,
\* and its own.
CallbacksSound == TypeOK /\ AnsweredOnce /\ OwnResults

Answers(q) == {w \in writes \cup posted : w.side = "far" /\ w.link[1] = "client" /\ w.msg.q = q}

\* AggregateResults runs when every asked server has answered, failed or timed
\* out; only a failed send, whose callback is called and stays registered, can
\* make the counter reach zero early.
AggregatesAll ==
    \A q \in Queries : Answers(q) # {} /\ <<"agg", q>> \notin sendFailed
                        => \A s \in ctx[q].asked : ctx[q].result[s] # {}

\* A server that the aggregator takes for disconnected is on its list, so the
\* next run of the timer tries it again.
DisconnectedIsPending == \A s \in Servers : s \in setting.servers /\ status[s] = "Disconnected" => s \in pending

\* Every query is answered in the end, if only by its timeout (SendQueryAsync).
EveryQueryAnswered == \A q \in Queries : (q \in sent) ~> (calls[q] # <<>>)

\* WaitAllFinished and AnnClient::Search return, unless a send failed: a failed
\* send counts the query down twice.
WaitReturns == (main # "idle") ~> (main = "idle" \/ \E q \in Queries : <<"client", q>> \in sendFailed)
=============================================================================
