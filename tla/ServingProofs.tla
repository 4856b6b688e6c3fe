---------------------------- MODULE ServingProofs ----------------------------
(***************************************************************************)
(* Proofs about distributed search for any queries, servers, connection    *)
(* slots and pool sizes: a server taken for disconnected is on the         *)
(* reconnect list, the aggregator answers a query only when every server   *)
(* that it asked has reported, and the callbacks of the client are called  *)
(* once and with results of their own query.                               *)
(*                                                                         *)
(* The inductive invariant says what the packets on the way may be: a      *)
(* query has one request, it is gone when the aggregator has a context for *)
(* it, and a packet's resource id names its own query or nothing.          *)
(***************************************************************************)
EXTENDS Serving, SequenceTheorems, FiniteSetTheorems, TLAPS

(***************************************************************************)
(* Types                                                                   *)
(***************************************************************************)

\* The connections: what the table of the aggregator holds goes to a server.
SocketInv ==
    /\ setting \in Settings
    /\ nextId \in [Dialers -> 1..(MaxId + 1)]
    /\ table \in [Dialers -> [0..(PoolSize - 1) -> 0..MaxId]]
    /\ dialed \in [Dialers -> [1..MaxId -> Servers \cup {None, "agg"}]]
    /\ \A i \in 0..(PoolSize - 1) : table["agg"][i] # 0 => dialed["agg"][table["agg"][i]] \in Servers
    /\ slot \in [Slots -> 0..MaxId]

\* The machines: a runner between its two halves has dialed its server.
MachineInv ==
    /\ status \in [Servers -> {"Disconnected", "Connecting", "Connected"}]
    /\ connId \in [Servers -> 0..MaxId]
    /\ runner \in [Servers -> {None, "dial", "connected"}]
    /\ \A s \in Servers : runner[s] = "connected" => \E id \in 1..(nextId["agg"] - 1) : dialed["agg"][id] = s

Managers(resources) ==
    [next : 0..MaxRid, resources : [Rids -> resources \cup {NoResource}], timeoutList : Seq(Rids)]

Results(q) == SUBSET (Servers \X {q})

Linked == Dialers \X (0..MaxId)

\* A packet, and what a context holds.
Packets == [link : Linked, side : {"near", "far"},
            msg : [type : {"request", "response"}, rid : 0..MaxRid, q : Queries,
                   results : SUBSET (Servers \X Queries)]]

Contexts == [used : BOOLEAN, todo : SUBSET Servers, conn : [Servers -> 0..MaxId],
             result : [Servers -> SUBSET SUBSET (Servers \X Queries)], count : 0..(Wrap - 1), rid : 0..MaxRid,
             link : {"client"} \X (0..MaxId), asked : SUBSET Servers]

Steps == [q : Queries, by : {"send", "reply", "timeout"}, op : {"call", "decrease", "notify"}]

PacketInv ==
    /\ writes \subseteq Packets /\ posted \subseteq Packets /\ failed \subseteq Packets
    /\ \A w \in writes \cup posted :
         w.link[1] = "agg" => w.link[2] \in 1..MaxId /\ dialed["agg"][w.link[2]] \in Servers

ClientInv ==
    /\ cmgr \in Managers(Queries)
    /\ count \in [Keys -> 0..(Wrap - 1)] /\ flag \in [Keys -> BOOLEAN] /\ main \in Keys \cup {"idle"}
    /\ sent \subseteq Queries
    /\ todo \subseteq Steps
    /\ calls \in [Queries -> Seq([status : {"Success", "FailedNetwork", "Timeout"},
                                  results : SUBSET (Servers \X Queries)])]

AggInv ==
    /\ amgr \in Managers(Queries \X Servers)
    /\ ctx \in [Queries -> Contexts]

Types == SocketInv /\ MachineInv /\ PacketInv /\ ClientInv /\ AggInv

(***************************************************************************)
(* What relates the parts                                                  *)
(***************************************************************************)

IsRequest(w) == w.side = "near" /\ w.link[1] = "client"

IsAnswer(w) == w.side = "far" /\ w.link[1] = "client"

\* A query is sent once: its request is in one place, until the aggregator has
\* a context for it.  Only a query with a context is passed on or answered.
RequestInv ==
    /\ \A w \in writes, v \in posted : IsRequest(w) /\ IsRequest(v) => w.msg.q # v.msg.q
    /\ \A w, v \in writes : IsRequest(w) /\ IsRequest(v) /\ w.msg.q = v.msg.q => w = v
    /\ \A w, v \in posted : IsRequest(w) /\ IsRequest(v) /\ w.msg.q = v.msg.q => w = v
    /\ \A w \in writes \cup posted : IsRequest(w) => w.msg.q \in sent /\ ~ctx[w.msg.q].used
    /\ \A w \in writes \cup posted : ~IsRequest(w) => ctx[w.msg.q].used
    /\ \A w \in failed : w.link[1] = "agg" => ctx[w.msg.q].used
    /\ \A q \in Queries : IF ctx[q].used THEN q \in sent ELSE ctx[q] = NoContext

\* The servers of a context that have not reported.
Waiting(c) == {s \in c.asked : c.result[s] = {}}

\* The callback of a server is registered at most once, after the loop has come
\* to it.  Without a failed send the counter is the number of servers that have
\* not reported, and those still to be asked or registered are among them.
CountInv ==
    /\ \A r1, r2 \in Rids : amgr.resources[r1] = amgr.resources[r2] /\ amgr.resources[r1] # NoResource => r1 = r2
    /\ \A q \in Queries : ctx[q].todo \subseteq ctx[q].asked
    /\ \A r \in Rids, q \in Queries, s \in Servers :
         amgr.resources[r] = <<q, s>> => s \in ctx[q].asked \ ctx[q].todo
    /\ \A q \in Queries : <<"agg", q>> \notin sendFailed =>
         /\ ctx[q].count = Cardinality(Waiting(ctx[q]))
         /\ ctx[q].todo \subseteq Waiting(ctx[q])
         /\ \A r \in Rids, s \in Servers : amgr.resources[r] = <<q, s>> => s \in Waiting(ctx[q])

\* An answer without a failed send: no server is waited for.
AnswerInv == \A w \in writes \cup posted :
    IsAnswer(w) /\ <<"agg", w.msg.q>> \notin sendFailed => Waiting(ctx[w.msg.q]) = {}

\* A step that will call the callback of a query after its timeout.
WillCall(t, client) == t.op = "call" \/ (t.op = "decrease" /\ client = "wrapper" /\ t.by = "timeout")

\* A query has its callback registered, or to be called by a timeout, or called:
\* at most one of these, and each of them once.
OnceFor(q, client, resources, steps, made) ==
    /\ Len(made) <= 1
    /\ \A r \in Rids : resources[r] = q => made = <<>> /\ \A t \in steps : t.q = q => ~WillCall(t, client)
    /\ \A t \in steps : t.q = q /\ WillCall(t, client) => made = <<>>
    /\ \A t, u \in steps : t.q = q /\ u.q = q /\ WillCall(t, client) /\ WillCall(u, client) => t = u

\* So it is without a failed send.
OnceInv ==
    /\ \A t \in todo : t.op = "call" => t.by # "reply"
    /\ \A t \in todo : t.by = "send" => <<"client", t.q>> \in sendFailed
    /\ \A t \in todo : t.q \in sent
    /\ \A w \in failed : w.link[1] = "client" => w.msg.q \in sent
    /\ \A r1, r2 \in Rids : cmgr.resources[r1] = cmgr.resources[r2] /\ cmgr.resources[r1] # NoResource => r1 = r2
    /\ \A r \in Rids : cmgr.resources[r] # NoResource => cmgr.resources[r] \in sent
    /\ \A q \in Queries : q \notin sent => calls[q] = <<>>
    /\ \A q \in Queries :
         <<"client", q>> \notin sendFailed => OnceFor(q, setting.api, cmgr.resources, todo, calls[q])

\* The servers that the aggregator's loop has come to, over all queries.
AskedPairs == {p \in Queries \X Servers : p[2] \in ctx[p[1]].asked \ ctx[p[1]].todo}

\* While ids have not wrapped, they are given in order, ...
Below(m) == \A r \in Rids : m.resources[r] # NoResource => r < m.next

IdInv ==
    /\ cmgr.next \in 1..(Cardinality(sent) + 1) /\ Below(cmgr)
    /\ amgr.next \in 1..(Cardinality(AskedPairs) + 1) /\ Below(amgr)

\* ... so that an id that is on its way names its own query, or nothing any more.
Names(rid, m, own) == rid < m.next /\ (rid \in Rids => m.resources[rid] \in {NoResource} \cup own)

OwnPacket(w, client, agg) ==
    /\ w.msg.results \subseteq Servers \X {w.msg.q}
    /\ w.link[1] = "client" => Names(w.msg.rid, client, {w.msg.q})
    /\ w.link[1] = "agg" => Names(w.msg.rid, agg, {w.msg.q} \X Servers)

OwnContext(c, q, client) ==
    /\ Names(c.rid, client, {q})
    /\ \A s \in Servers : c.result[s] \subseteq SUBSET (Servers \X {q})

OwnCalls(made, q) == \A k \in DOMAIN made : made[k].results \subseteq Servers \X {q}

OwnInv ==
    /\ \A w \in writes \cup posted : OwnPacket(w, cmgr, amgr)
    /\ \A q \in Queries : OwnContext(ctx[q], q, cmgr) /\ OwnCalls(calls[q], q)

(***************************************************************************)
(* Least and greatest ids                                                  *)
(***************************************************************************)

\* A nonempty set of numbers has a least member.
LEMMA LeastExists ==
    ASSUME NEW S, S \subseteq Nat, S # {}
    PROVE  \E x \in S : \A y \in S : x <= y
<1>1. PICK x \in S : \A y \in S : ~(<<y, x>> \in OpToRel(<, Nat))
  BY WFMin, NatLessThanWellFounded
<1>2. \A y \in S : ~(y < x)
  BY <1>1 DEF OpToRel
<1> QED
  BY <1>2

\* A nonempty set of numbers up to a bound has a greatest member.
LEMMA GreatestExists ==
    ASSUME NEW n \in Nat, NEW S, S \subseteq 0..n, S # {}
    PROVE  \E x \in S : \A y \in S : y <= x
<1> DEFINE T == {n - y : y \in S}
<1>1. T \subseteq Nat /\ T # {}
  <2>1. \A y \in S : n - y \in Nat /\ n - y \in T
    OBVIOUS
  <2>2. PICK y \in S : TRUE
    OBVIOUS
  <2> QED
    BY <2>1, <2>2
<1> HIDE DEF T
<1>2. PICK x \in T : \A y \in T : x <= y
  BY <1>1, LeastExists
<1>3. PICK z \in S : x = n - z
  BY DEF T
<1>4. \A y \in S : n - y \in T
  BY DEF T
<1> QED
  BY <1>2, <1>3, <1>4
(***************************************************************************)
(* Operators                                                               *)
(***************************************************************************)

LEMMA PositionRange ==
    ASSUME NEW id \in Nat
    PROVE  GetPosition(id) \in 0..(PoolSize - 1)
BY ServingAssumption DEF GetPosition

\* AddConnection takes an id that was not given before, in an empty position.
LEMMA NewIdIsFree ==
    ASSUME SocketInv, NEW p \in Dialers, CanAdd(p)
    PROVE  /\ NewId(p) \in nextId[p]..MaxId
           /\ NewId(p) \in 1..MaxId
           /\ GetPosition(NewId(p)) \in 0..(PoolSize - 1)
<1>1. nextId[p] \in 1..(MaxId + 1) /\ MaxId \in Nat
  BY ServingAssumption DEF SocketInv
<1>2. FreeIds(p) \subseteq nextId[p]..MaxId /\ FreeIds(p) # {}
  BY DEF FreeIds, CanAdd
<1>3. FreeIds(p) \subseteq Nat
  BY <1>1, <1>2
<1>4. \E x \in FreeIds(p) : \A y \in FreeIds(p) : x <= y
  BY <1>2, <1>3, LeastExists
<1>5. NewId(p) \in FreeIds(p)
  BY <1>4 DEF NewId
<1> QED
  BY <1>1, <1>2, <1>5, PositionRange

\* What a manager is after Add, GetAndRemove and a timeout.
LEMMA AddManager ==
    ASSUME NEW R, NoResource \notin R, NEW m \in Managers(R), NEW x \in R
    PROVE  /\ Add(m, x, TRUE) \in Managers(R)
           /\ AddedId(m) \in Rids
           /\ m.next # 0 => AddedId(m) = m.next
           /\ Add(m, x, TRUE).next = (AddedId(m) + 1) % (MaxRid + 1)
           /\ \A r \in Rids : Add(m, x, TRUE).resources[r] =
                IF r = AddedId(m) /\ m.resources[r] = NoResource THEN x ELSE m.resources[r]
<1>1. MaxRid \in Nat /\ MaxRid >= 1
  BY MaxRidAssumption
<1>2. AddedId(m) \in Rids /\ (m.next # 0 => AddedId(m) = m.next)
  BY <1>1 DEF AddedId, Managers, Rids
<1>3. (AddedId(m) + 1) % (MaxRid + 1) \in 0..MaxRid
  BY <1>1, <1>2 DEF Rids
<1> HIDE DEF AddedId
<1>4. Append(m.timeoutList, AddedId(m)) \in Seq(Rids)
  BY <1>2, AppendProperties DEF Managers
<1> QED
  BY <1>2, <1>3, <1>4 DEF Add, Managers

LEMMA GetAndRemoveManager ==
    ASSUME NEW R, NEW m \in Managers(R), NEW rid
    PROVE  /\ GetAndRemove(m, rid) \in Managers(R)
           /\ GetAndRemove(m, rid).next = m.next
           /\ GetAndRemove(m, rid).timeoutList = m.timeoutList
           /\ \A r \in Rids : GetAndRemove(m, rid).resources[r] =
                IF r = rid THEN NoResource ELSE m.resources[r]
BY DEF GetAndRemove, Pending, Managers

LEMMA ExpireManager ==
    ASSUME NEW R, NEW m \in Managers(R), CanExpire(m)
    PROVE  /\ ExpiredId(m) \in Rids
           /\ Expire(m) \in Managers(R)
           /\ Expire(m).next = m.next
           /\ \A r \in Rids : Expire(m).resources[r] =
                IF r = ExpiredId(m) THEN NoResource ELSE m.resources[r]
<1>1. ExpiredId(m) \in Rids /\ Tail(m.timeoutList) \in Seq(Rids)
  BY HeadTailProperties DEF ExpiredId, CanExpire, Managers
<1> DEFINE g == GetAndRemove(m, ExpiredId(m))
<1>2. /\ g \in Managers(R) /\ g.next = m.next /\ g.timeoutList = m.timeoutList
      /\ \A r \in Rids : g.resources[r] = IF r = ExpiredId(m) THEN NoResource ELSE m.resources[r]
  BY <1>1, GetAndRemoveManager
<1>3. Expire(m) = [g EXCEPT !.timeoutList = Tail(m.timeoutList)]
  BY <1>2 DEF Expire
<1> HIDE DEF g
<1> QED
  BY <1>1, <1>2, <1>3 DEF Managers
(***************************************************************************)
(* Connections and machines                                                *)
(***************************************************************************)

LEMMA SettingFacts ==
    ASSUME setting \in Settings
    PROVE  /\ setting.queries \subseteq Queries
           /\ setting.servers \subseteq Servers
           /\ setting.connected \in BOOLEAN
           /\ setting.connected => Cardinality(setting.servers) <= MaxId
           /\ IsFiniteSet(setting.servers) /\ Cardinality(setting.servers) \in Nat
<1>1. setting.servers \subseteq Servers
  BY ServingAssumption
<1>2. IsFiniteSet(setting.servers) /\ Cardinality(setting.servers) \in Nat
  BY <1>1, ServingAssumption, FS_Subset, FS_CardinalityType
<1> QED
  BY <1>1, <1>2, ServingAssumption

LEMMA OrderIsOnto ==
    ASSUME setting \in Settings
    PROVE  Order \in Bijection(1..Cardinality(setting.servers), setting.servers)
<1>1. ExistsBijection(1..Cardinality(setting.servers), setting.servers)
  BY SettingFacts, FS_CardinalityType
<1> QED
  BY <1>1 DEF Order, ExistsBijection

LEMMA InitSocketInv ==
    ASSUME Init
    PROVE  SocketInv /\ MachineInv /\ DisconnectedIsPending
<1> DEFINE on == setting.connected
           n == IF on THEN Cardinality(setting.servers) ELSE 0
           first(p) == IF p = "agg" THEN n ELSE IF on THEN 1 ELSE 0
           Filled(k) == [i \in 0..(PoolSize - 1) |->
                           IF \E id \in 1..k : GetPosition(id) = i THEN CHOOSE id \in 1..k : GetPosition(id) = i ELSE 0]
<1>0. /\ MaxId \in Nat /\ MaxId >= 1 /\ PoolSize \in Nat /\ PoolSize >= 1
      /\ setting \in Settings
  BY ServingAssumption DEF Init
<1>1. n \in Nat /\ n <= MaxId /\ \A p \in Dialers : first(p) \in Nat /\ first(p) <= MaxId
  BY <1>0, SettingFacts
<1>2. \A i \in 1..n : on => Order[i] \in Servers
  BY <1>0, OrderIsOnto, SettingFacts DEF Bijection, Injection
<1>3. \A s \in setting.servers : on => (CHOOSE id \in 1..n : Order[id] = s) \in 1..n
  BY <1>0, OrderIsOnto DEF Bijection, Surjection
<1>4. ASSUME NEW k \in Nat, k <= MaxId
      PROVE  /\ Filled(k) \in [0..(PoolSize - 1) -> 0..MaxId]
             /\ \A i \in 0..(PoolSize - 1) : Filled(k)[i] # 0 => Filled(k)[i] \in 1..k
  <2>1. ASSUME NEW i \in 0..(PoolSize - 1), \E id \in 1..k : GetPosition(id) = i
        PROVE  (CHOOSE id \in 1..k : GetPosition(id) = i) \in 1..k
    BY <2>1
  <2> QED
    BY <2>1, <1>0, <1>4
<1>5. /\ table = [p \in Dialers |-> Filled(first(p))]
      /\ nextId = [p \in Dialers |-> 1 + first(p)]
      /\ dialed = [p \in Dialers |-> [i \in 1..MaxId |->
                          IF p = "agg" /\ i <= n THEN Order[i]
                          ELSE IF p = "client" /\ on /\ i = 1 THEN "agg" ELSE None]]
      /\ slot = [i \in Slots |-> IF on THEN 1 ELSE 0]
      /\ status = [s \in Servers |-> IF on THEN "Connected" ELSE "Disconnected"]
      /\ connId = [s \in Servers |-> IF on /\ s \in setting.servers THEN CHOOSE id \in 1..n : Order[id] = s ELSE 0]
      /\ pending = IF on THEN {} ELSE setting.servers
      /\ runner = [s \in Servers |-> None]
  BY DEF Init
<1>6. n > 0 => on
  OBVIOUS
<1> HIDE DEF Filled, first, n, on
<1>7. table \in [Dialers -> [0..(PoolSize - 1) -> 0..MaxId]]
  BY <1>1, <1>4, <1>5
<1>8. nextId \in [Dialers -> 1..(MaxId + 1)]
  BY <1>0, <1>1, <1>5
<1>9. dialed \in [Dialers -> [1..MaxId -> Servers \cup {None, "agg"}]]
  BY <1>0, <1>1, <1>2, <1>5, <1>6
<1>10. \A i \in 0..(PoolSize - 1) : table["agg"][i] # 0 => dialed["agg"][table["agg"][i]] \in Servers
  <2> SUFFICES ASSUME NEW i \in 0..(PoolSize - 1), table["agg"][i] # 0
               PROVE  dialed["agg"][table["agg"][i]] \in Servers
    OBVIOUS
  <2>1. "agg" \in Dialers /\ first("agg") = n
    BY DEF Dialers, first
  <2>2. table["agg"][i] \in 1..n
    BY <2>1, <1>1, <1>4, <1>5
  <2> QED
    BY <2>1, <2>2, <1>0, <1>1, <1>2, <1>5, <1>6
<1>11. slot \in [Slots -> 0..MaxId] /\ connId \in [Servers -> 0..MaxId]
  <2>1. connId \in [Servers -> 0..MaxId]
    <3> DEFINE named(s) == CHOOSE id \in 1..n : Order[id] = s
    <3>1. \A s \in setting.servers : on => named(s) \in 0..MaxId
      BY <1>0, <1>1, <1>3
    <3>2. connId = [s \in Servers |-> IF on /\ s \in setting.servers THEN named(s) ELSE 0]
      BY <1>5
    <3> HIDE DEF named
    <3> QED
      BY <3>1, <3>2, <1>0
  <2> QED
    BY <2>1, <1>0, <1>5
<1>12. /\ status \in [Servers -> {"Disconnected", "Connecting", "Connected"}]
       /\ runner \in [Servers -> {None, "dial", "connected"}]
       /\ \A s \in Servers : runner[s] # "connected"
  BY <1>5 DEF None
<1> QED
  BY <1>0, <1>5, <1>7, <1>8, <1>9, <1>10, <1>11, <1>12 DEF SocketInv, MachineInv, DisconnectedIsPending

\* RemoveConnection, with what it calls.
LEMMA RemoveConnectionInv ==
    ASSUME SocketInv, MachineInv, NEW link \in Linked, NEW side, NEW by,
           RemoveConnection(link, side, by), UNCHANGED <<setting, nextId, dialed, connId, runner>>
    PROVE  SocketInv' /\ MachineInv' /\ (DisconnectedIsPending => DisconnectedIsPending')
<1> DEFINE p == link[1]
           id == link[2]
<1>1. p \in Dialers /\ id \in 0..MaxId /\ GetPosition(id) \in 0..(PoolSize - 1)
  BY PositionRange, ServingAssumption DEF Linked
<1>2. MaxId \in Nat /\ PoolSize \in Nat
  BY ServingAssumption
<1>3. CASE UNCHANGED <<table, slot, status, pending>>
  BY <1>3 DEF SocketInv, MachineInv, DisconnectedIsPending
<1>4. CASE /\ table' = [table EXCEPT ![p][GetPosition(id)] = 0]
           /\ IF p = "agg" THEN EventOnClose(id) /\ UNCHANGED <<slot, redial>>
              ELSE HandleDeadConnection(id, by) /\ UNCHANGED <<status, pending>>
  <2>1. table' \in [Dialers -> [0..(PoolSize - 1) -> 0..MaxId]]
    BY SMTT(20), <1>1, <1>2, <1>4 DEF SocketInv
  <2>2. \A i \in 0..(PoolSize - 1) : table'["agg"][i] # 0 => table'["agg"][i] = table["agg"][i]
    BY <1>1, <1>4 DEF SocketInv, Dialers
  <2>3. slot' \in [Slots -> 0..MaxId]
    <3>1. UNCHANGED slot \/ \E i : slot' = [slot EXCEPT ![i] = 0]
      BY <1>4 DEF HandleDeadConnection
    <3>2. ASSUME NEW i, slot' = [slot EXCEPT ![i] = 0]
          PROVE  slot' \in [Slots -> 0..MaxId]
      <4>1. slot \in [Slots -> 0..MaxId] /\ 0 \in 0..MaxId
        BY <1>2 DEF SocketInv
      <4>2. slot' = [j \in Slots |-> IF j = i THEN 0 ELSE slot[j]]
        BY <4>1, <3>2
      <4> QED
        BY ONLY <4>1, <4>2
    <3> QED
      BY <3>1, <3>2 DEF SocketInv
  <2>4. SocketInv'
    BY <2>1, <2>2, <2>3 DEF SocketInv
  <2>5. status' \in [Servers -> {"Disconnected", "Connecting", "Connected"}]
    BY <1>4 DEF MachineInv, EventOnClose
  <2>6. MachineInv'
    BY <2>5 DEF MachineInv
  <2>7. DisconnectedIsPending => DisconnectedIsPending'
    BY <1>4 DEF DisconnectedIsPending, EventOnClose, MachineInv
  <2> QED
    BY <2>4, <2>6, <2>7
<1> QED
  BY <1>3, <1>4 DEF RemoveConnection

\* AddConnection of either dialer.
LEMMA AddConnectionInv ==
    ASSUME SocketInv, NEW p \in Dialers, NEW to, AddConnection(p, to),
           p = "agg" => to \in Servers, p # "agg" => to = "agg"
    PROVE  /\ nextId' \in [Dialers -> 1..(MaxId + 1)]
           /\ table' \in [Dialers -> [0..(PoolSize - 1) -> 0..MaxId]]
           /\ dialed' \in [Dialers -> [1..MaxId -> Servers \cup {None, "agg"}]]
           /\ \A i \in 0..(PoolSize - 1) : table'["agg"][i] # 0 => dialed'["agg"][table'["agg"][i]] \in Servers
           /\ \A i \in 1..(nextId["agg"] - 1) : dialed'["agg"][i] = dialed["agg"][i]
           /\ p = "agg" => \E i \in 1..(nextId["agg"]' - 1) : dialed'["agg"][i] = to
           /\ nextId'["agg"] >= nextId["agg"]
           /\ \A i \in 1..MaxId : dialed["agg"][i] \in Servers => dialed'["agg"][i] \in Servers
<1> DEFINE id == NewId(p)
           pos == GetPosition(id)
<1>1. /\ id \in nextId[p]..MaxId /\ id \in 1..MaxId /\ pos \in 0..(PoolSize - 1)
  BY NewIdIsFree DEF AddConnection
<1>2. /\ table' = [table EXCEPT ![p][pos] = id]
      /\ nextId' = [nextId EXCEPT ![p] = id + 1]
      /\ dialed' = [dialed EXCEPT ![p][id] = to]
  BY DEF AddConnection
<1>3. MaxId \in Nat /\ PoolSize \in Nat /\ "agg" \in Dialers
  BY ServingAssumption DEF Dialers
<1> HIDE DEF id, pos
<1>4. nextId' \in [Dialers -> 1..(MaxId + 1)] /\ nextId'["agg"] >= nextId["agg"]
  BY <1>1, <1>2, <1>3 DEF SocketInv
<1>5. table' \in [Dialers -> [0..(PoolSize - 1) -> 0..MaxId]]
  BY <1>1, <1>2, <1>3 DEF SocketInv
<1>6. dialed' \in [Dialers -> [1..MaxId -> Servers \cup {None, "agg"}]]
  BY <1>1, <1>2, <1>3 DEF SocketInv
<1>7. /\ \A i \in 1..MaxId : i # id \/ p # "agg" => dialed'["agg"][i] = dialed["agg"][i]
      /\ p = "agg" => dialed'["agg"][id] = to
  BY <1>1, <1>2, <1>3 DEF SocketInv
<1>8. \A i \in 0..(PoolSize - 1) : /\ i # pos \/ p # "agg" => table'["agg"][i] = table["agg"][i]
                                   /\ i = pos /\ p = "agg" => table'["agg"][i] = id
  BY <1>1, <1>2, <1>3 DEF SocketInv
<1>9. \A i \in 0..(PoolSize - 1) : table'["agg"][i] # 0 => dialed'["agg"][table'["agg"][i]] \in Servers
  <2>1. \A i \in 0..(PoolSize - 1) : table["agg"][i] \in 0..MaxId
    BY <1>3 DEF SocketInv
  <2> SUFFICES ASSUME NEW i \in 0..(PoolSize - 1), table'["agg"][i] # 0
               PROVE  dialed'["agg"][table'["agg"][i]] \in Servers
    OBVIOUS
  <2>2. CASE i = pos /\ p = "agg"
    BY <2>2, <1>7, <1>8
  <2>3. CASE i # pos \/ p # "agg"
    <3>1. table'["agg"][i] = table["agg"][i] /\ table["agg"][i] \in 1..MaxId
      BY <2>1, <2>3, <1>3, <1>8
    <3>2. dialed["agg"][table["agg"][i]] \in Servers
      BY <3>1 DEF SocketInv
    <3> QED
      BY <3>1, <3>2, <1>7
  <2> QED
    BY <2>2, <2>3
<1>10. p = "agg" => \A i \in 1..(nextId["agg"] - 1) : i # id /\ i \in 1..MaxId
  BY <1>1, <1>3 DEF SocketInv
<1>11. \A i \in 1..(nextId["agg"] - 1) : i \in 1..MaxId
  BY <1>3 DEF SocketInv
<1>12. p = "agg" => id \in 1..(nextId["agg"]' - 1)
  BY <1>1, <1>2, <1>3 DEF SocketInv
<1> QED
  BY <1>4, <1>5, <1>6, <1>7, <1>9, <1>10, <1>11, <1>12
\* What the connections and machines keep.
connVars == <<setting, nextId, table, dialed, slot, status, connId, runner, pending>>

\* The actions that leave the connections and the machines alone.
Passive ==
    \/ \E w \in writes : Deliver(w) \/ WriteAborted(w)
    \/ \E link \in Links : Break(link)
    \/ NothingToWaitFor \/ StartWaiting \/ ClientExpire \/ AggExpire
    \/ \E t \in todo : Call(t) \/ Decrease(t) \/ Notify(t)
    \/ \E i \in Slots : GiveUp(i)
    \/ \E q \in Queries : SearchUnconnected(q)
    \/ \E q \in Queries, i \in Slots : SendQuery(q, i)
    \/ \E w \in failed : ClientSendFailed(w) \/ AggSendFailed(w)
    \/ \E w \in posted : ClientResponse(w) \/ SelectServers(w) \/ AggResponse(w) \/ Search(w)
    \/ \E q \in Queries, s \in Servers : AskServer(q, s)

\* The others.
Connecting ==
    \/ \E w \in writes : WriteFails(w)
    \/ \E link \in Links, side \in {"near", "far"} : ReadFails(link, side)
    \/ \E i \in Slots : Redial(i)
    \/ ConnectToPendingServers
    \/ \E s \in Servers : Dial(s) \/ DialFails(s) \/ NoteConnection(s)

LEMMA NextSplits ==
    ASSUME Next
    PROVE  Passive \/ Connecting
BY DEF Next, Sockets, Client, ClientStep, Aggregator, Passive, Connecting

LEMMA PassiveKeepsConnections ==
    ASSUME Passive
    PROVE  UNCHANGED connVars
<1>1. ASSUME NEW w, Deliver(w) \/ WriteAborted(w) \/ Search(w) \/ ClientSendFailed(w) \/ AggSendFailed(w)
                      \/ ClientResponse(w) \/ SelectServers(w) \/ AggResponse(w)
      PROVE  UNCHANGED connVars
  BY <1>1 DEF Deliver, WriteAborted, Search, ClientSendFailed, AggSendFailed, ClientResponse, SelectServers,
              AggResponse, connVars, socketVars, clientVars, aggVars
<1>2. ASSUME NEW x, Break(x) \/ Call(x) \/ Decrease(x) \/ Notify(x) \/ GiveUp(x) \/ SearchUnconnected(x)
      PROVE  UNCHANGED connVars
  BY <1>2 DEF Break, Call, Decrease, Notify, GiveUp, SearchUnconnected, connVars, socketVars, clientVars, aggVars
<1>3. ASSUME NothingToWaitFor \/ StartWaiting \/ ClientExpire \/ AggExpire
      PROVE  UNCHANGED connVars
  BY <1>3 DEF NothingToWaitFor, StartWaiting, ClientExpire, AggExpire, connVars, socketVars, clientVars, aggVars
<1>4. ASSUME NEW q, NEW x, SendQuery(q, x) \/ AskServer(q, x)
      PROVE  UNCHANGED connVars
  BY <1>4 DEF SendQuery, AskServer, connVars, socketVars, clientVars, aggVars
<1> QED
  BY <1>1, <1>2, <1>3, <1>4 DEF Passive

LEMMA NextSocketInv ==
    ASSUME SocketInv, MachineInv, writes \subseteq Packets, [Next]_vars
    PROVE  SocketInv' /\ MachineInv' /\ (DisconnectedIsPending => DisconnectedIsPending')
<1> DEFINE Goal == SocketInv' /\ MachineInv' /\ (DisconnectedIsPending => DisconnectedIsPending')
<1>0. MaxId \in Nat
  BY ServingAssumption
<1>1. CASE UNCHANGED connVars
  BY <1>1 DEF SocketInv, MachineInv, DisconnectedIsPending, connVars
<1>2. ASSUME NEW w \in writes, WriteFails(w)
      PROVE  Goal
  <2>1. w.link \in Linked
    BY DEF Packets, Linked
  <2>2. RemoveConnection(w.link, w.side, w.msg.q) /\ UNCHANGED <<setting, nextId, dialed, connId, runner>>
    BY <1>2 DEF WriteFails
  <2> QED
    BY <2>1, <2>2, RemoveConnectionInv
<1>3. ASSUME NEW link \in Links, NEW side \in {"near", "far"}, ReadFails(link, side)
      PROVE  Goal
  <2>1. link \in Linked
    BY DEF Links, Linked
  <2>2. RemoveConnection(link, side, "read") /\ UNCHANGED <<setting, nextId, dialed, connId, runner>>
    BY <1>3 DEF ReadFails
  <2> QED
    BY <2>1, <2>2, RemoveConnectionInv
<1>4. ASSUME NEW i \in Slots, Redial(i)
      PROVE  Goal
  <2>1. AddConnection("client", "agg") /\ slot' = [slot EXCEPT ![i] = NewId("client")]
        /\ UNCHANGED <<setting, status, connId, runner, pending>>
    BY <1>4 DEF Redial, aggVars
  <2>2. NewId("client") \in 1..MaxId
    BY <2>1, NewIdIsFree DEF AddConnection, Dialers
  <2>3. slot' \in [Slots -> 0..MaxId]
    BY <2>1, <2>2, <1>0 DEF SocketInv
  <2>4. /\ nextId' \in [Dialers -> 1..(MaxId + 1)]
        /\ table' \in [Dialers -> [0..(PoolSize - 1) -> 0..MaxId]]
        /\ dialed' \in [Dialers -> [1..MaxId -> Servers \cup {None, "agg"}]]
        /\ \A j \in 0..(PoolSize - 1) : table'["agg"][j] # 0 => dialed'["agg"][table'["agg"][j]] \in Servers
        /\ \A j \in 1..(nextId["agg"] - 1) : dialed'["agg"][j] = dialed["agg"][j]
        /\ nextId'["agg"] >= nextId["agg"]
    BY <2>1, AddConnectionInv DEF Dialers
  <2>5. SocketInv'
    BY <2>1, <2>3, <2>4 DEF SocketInv
  <2>6. MachineInv'
    <3>1. nextId["agg"] \in Nat /\ nextId'["agg"] \in Nat
      BY <2>4, <1>0 DEF SocketInv, Dialers
    <3>2. 1..(nextId["agg"] - 1) \subseteq 1..(nextId'["agg"] - 1)
      BY <2>4, <3>1
    <3> QED
      BY <2>1, <2>4, <3>2 DEF MachineInv
  <2> QED
    BY <2>1, <2>5, <2>6 DEF DisconnectedIsPending
<1>5. ASSUME ConnectToPendingServers
      PROVE  Goal
  <2> USE DEF ConnectToPendingServers
  <2>1. UNCHANGED <<setting, nextId, table, dialed, slot, connId>>
    BY <1>5 DEF socketVars, clientVars
  <2>2. SocketInv'
    BY <2>1 DEF SocketInv
  <2>3. /\ status' \in [Servers -> {"Disconnected", "Connecting", "Connected"}]
        /\ runner' \in [Servers -> {None, "dial", "connected"}]
    BY <1>5 DEF MachineInv
  <2>4. \A s \in Servers : runner'[s] = "connected" => runner[s] = "connected"
    BY <1>5 DEF MachineInv
  <2>5. MachineInv'
    BY <2>1, <2>3, <2>4 DEF MachineInv
  <2>6. DisconnectedIsPending => DisconnectedIsPending'
    BY <1>5, <2>1 DEF DisconnectedIsPending, MachineInv
  <2> QED
    BY <2>2, <2>5, <2>6
<1>6. ASSUME NEW s \in Servers, Dial(s)
      PROVE  Goal
  <2>1. AddConnection("agg", s) /\ runner' = [runner EXCEPT ![s] = "connected"]
        /\ UNCHANGED <<setting, slot, status, connId, pending>>
    BY <1>6 DEF Dial, clientVars
  <2>4. /\ nextId' \in [Dialers -> 1..(MaxId + 1)]
        /\ table' \in [Dialers -> [0..(PoolSize - 1) -> 0..MaxId]]
        /\ dialed' \in [Dialers -> [1..MaxId -> Servers \cup {None, "agg"}]]
        /\ \A j \in 0..(PoolSize - 1) : table'["agg"][j] # 0 => dialed'["agg"][table'["agg"][j]] \in Servers
        /\ \A j \in 1..(nextId["agg"] - 1) : dialed'["agg"][j] = dialed["agg"][j]
        /\ \E j \in 1..(nextId["agg"]' - 1) : dialed'["agg"][j] = s
        /\ nextId'["agg"] >= nextId["agg"]
    BY <2>1, AddConnectionInv DEF Dialers
  <2>5. SocketInv'
    BY <2>1, <2>4 DEF SocketInv
  <2>6. MachineInv'
    <3>1. nextId["agg"] \in Nat /\ nextId'["agg"] \in Nat
      BY <2>4, <1>0 DEF SocketInv, Dialers
    <3>2. 1..(nextId["agg"] - 1) \subseteq 1..(nextId'["agg"] - 1)
      BY <2>4, <3>1
    <3>3. runner' \in [Servers -> {None, "dial", "connected"}]
      BY <2>1 DEF MachineInv
    <3>4. ASSUME NEW v \in Servers, runner'[v] = "connected"
          PROVE  \E j \in 1..(nextId'["agg"] - 1) : dialed'["agg"][j] = v
      BY <3>2, <3>4, <2>1, <2>4 DEF MachineInv
    <3> QED
      BY <2>1, <3>3, <3>4 DEF MachineInv
  <2> QED
    BY <2>1, <2>5, <2>6 DEF DisconnectedIsPending
<1>7. ASSUME NEW s \in Servers, DialFails(s)
      PROVE  Goal
  <2>1. /\ UNCHANGED <<setting, nextId, table, dialed, slot, status, connId>>
        /\ pending \subseteq pending'
        /\ runner' = [runner EXCEPT ![s] = None]
    BY <1>7 DEF DialFails, socketVars, clientVars
  <2>2. runner' \in [Servers -> {None, "dial", "connected"}]
        /\ \A v \in Servers : runner'[v] = "connected" => runner[v] = "connected"
    BY <2>1 DEF MachineInv, None
  <2>3. SocketInv'
    BY <2>1 DEF SocketInv
  <2>4. MachineInv'
    BY <2>1, <2>2 DEF MachineInv
  <2> QED
    BY <2>1, <2>3, <2>4 DEF DisconnectedIsPending
<1>8. ASSUME NEW s \in Servers, NoteConnection(s)
      PROVE  Goal
  <2> DEFINE ids == {id \in 1..MaxId : dialed["agg"][id] = s}
             id == CHOOSE i \in ids : \A j \in ids : j <= i
  <2>1. /\ UNCHANGED <<setting, nextId, table, dialed, slot, pending>>
        /\ runner[s] = "connected"
        /\ runner' = [runner EXCEPT ![s] = None]
        /\ connId' = [connId EXCEPT ![s] = id]
        /\ status' = [status EXCEPT ![s] = "Connected"]
    BY <1>8 DEF NoteConnection, socketVars, clientVars
  <2>2. ids \subseteq 0..MaxId /\ ids # {}
    <3>1. PICK j \in 1..(nextId["agg"] - 1) : dialed["agg"][j] = s
      BY <2>1 DEF MachineInv
    <3>2. j \in 1..MaxId
      BY <1>0 DEF SocketInv, Dialers
    <3> QED
      BY <1>0, <3>1, <3>2
  <2>3. id \in 0..MaxId
    <3>1. \E i \in ids : \A j \in ids : j <= i
      BY <1>0, <2>2, GreatestExists
    <3>2. id \in ids
      BY <3>1
    <3> QED
      BY <3>2, <2>2
  <2> HIDE DEF id, ids
  <2>4. connId' \in [Servers -> 0..MaxId]
    BY <2>1, <2>3 DEF MachineInv
  <2>5. /\ status' \in [Servers -> {"Disconnected", "Connecting", "Connected"}]
        /\ \A v \in Servers : status'[v] = "Disconnected" => status[v] = "Disconnected"
    BY <2>1 DEF MachineInv
  <2>6. runner' \in [Servers -> {None, "dial", "connected"}]
        /\ \A v \in Servers : runner'[v] = "connected" => runner[v] = "connected"
    BY <2>1 DEF MachineInv, None
  <2>7. SocketInv'
    BY <2>1 DEF SocketInv
  <2>8. MachineInv'
    BY <2>1, <2>4, <2>5, <2>6 DEF MachineInv
  <2> QED
    BY <2>1, <2>5, <2>7, <2>8 DEF DisconnectedIsPending
<1>9. CASE UNCHANGED vars
  BY <1>9, <1>1 DEF vars, socketVars, clientVars, aggVars, connVars
<1> QED
  BY <1>1, <1>2, <1>3, <1>4, <1>5, <1>6, <1>7, <1>8, <1>9, NextSplits, PassiveKeepsConnections DEF Connecting
(***************************************************************************)
(* Packets, callbacks and contexts                                         *)
(***************************************************************************)

LEMMA BoundFacts ==
    /\ MaxId \in Nat /\ MaxId >= 1 /\ Wrap \in Nat /\ Wrap >= 2 /\ MaxRid \in Nat /\ MaxRid >= 1
    /\ NoResource \notin Queries /\ NoResource \notin Queries \X Servers
    /\ IsFiniteSet(Servers) /\ Cardinality(Servers) \in Nat /\ Cardinality(Servers) < Wrap
    /\ IsFiniteSet(Queries) /\ Cardinality(Queries) \in Nat
BY ServingAssumption, MaxRidAssumption, FS_CardinalityType

\* The record and the answer that Finish makes.
WithResult(c, s, results) == [c.result EXCEPT ![s] = {results}]

Reported(c, s, results) == [[c EXCEPT !.result[s] = {results}] EXCEPT !.count = (@ + Wrap - 1) % Wrap]

AnswerTo(q, c, s, results) ==
    [link |-> c.link, side |-> "far",
     msg |-> Message("response", c.rid, q, Aggregated([c EXCEPT !.result[s] = {results}]))]

LEMMA FinishEffect ==
    ASSUME NEW q, NEW c, NEW s, NEW results, Finish(q, c, s, results)
    PROVE  /\ ctx' = [ctx EXCEPT ![q] = Reported(c, s, results)]
           /\ writes' = IF c.count <= 1 /\ c.link \in far THEN writes \cup {AnswerTo(q, c, s, results)} ELSE writes
BY DEF Finish, Reported, AnswerTo

LEMMA ReportedFields ==
    ASSUME NEW c \in Contexts, NEW s, NEW results \in SUBSET (Servers \X Queries)
    PROVE  /\ Reported(c, s, results) \in Contexts
           /\ Reported(c, s, results).used = c.used
           /\ Reported(c, s, results).todo = c.todo
           /\ Reported(c, s, results).asked = c.asked
           /\ Reported(c, s, results).rid = c.rid
           /\ Reported(c, s, results).link = c.link
           /\ Reported(c, s, results).count = (c.count + Wrap - 1) % Wrap
           /\ Reported(c, s, results).result = WithResult(c, s, results)
<1>1. Wrap \in Nat /\ Wrap >= 2
  BY BoundFacts
<1>2. (c.count + Wrap - 1) % Wrap \in 0..(Wrap - 1)
  BY <1>1 DEF Contexts
<1>3. [c.result EXCEPT ![s] = {results}] \in [Servers -> SUBSET SUBSET (Servers \X Queries)]
  <2>1. c.result \in [Servers -> SUBSET SUBSET (Servers \X Queries)] /\ {results} \in SUBSET SUBSET (Servers \X Queries)
    BY DEF Contexts
  <2>2. [c.result EXCEPT ![s] = {results}] = [x \in Servers |-> IF x = s THEN {results} ELSE c.result[x]]
    BY <2>1
  <2> QED
    BY ONLY <2>1, <2>2
<1>4. Reported(c, s, results) = [[c EXCEPT !.result = [c.result EXCEPT ![s] = {results}]]
                                    EXCEPT !.count = (c.count + Wrap - 1) % Wrap]
  BY DEF Reported, Contexts
<1> HIDE DEF Reported
<1> QED
  BY <1>2, <1>3, <1>4 DEF Contexts, WithResult

LEMMA UnionBound ==
    ASSUME NEW S, NEW f, NEW T, \A v \in S : f[v] \subseteq SUBSET T
    PROVE  UNION UNION {f[v] : v \in S} \subseteq T
<1> SUFFICES ASSUME NEW x \in UNION UNION {f[v] : v \in S}
             PROVE  x \in T
  OBVIOUS
<1>1. PICK Y \in UNION {f[v] : v \in S} : x \in Y
  OBVIOUS
<1>2. PICK v \in S : Y \in f[v]
  BY <1>1
<1> QED
  BY <1>1, <1>2

LEMMA AnswerIsPacket ==
    ASSUME NEW q \in Queries, NEW c \in Contexts, NEW s, NEW results \in SUBSET (Servers \X Queries)
    PROVE  /\ AnswerTo(q, c, s, results) \in Packets
           /\ IsAnswer(AnswerTo(q, c, s, results))
           /\ AnswerTo(q, c, s, results).msg.q = q
           /\ AnswerTo(q, c, s, results).msg.rid = c.rid
           /\ AnswerTo(q, c, s, results).msg.results = UNION UNION {Reported(c, s, results).result[v] : v \in Servers}
<1> DEFINE d == [c EXCEPT !.result[s] = {results}]
<1>1. /\ Reported(c, s, results) \in Contexts
      /\ Reported(c, s, results).used = c.used
      /\ Reported(c, s, results).todo = c.todo
      /\ Reported(c, s, results).asked = c.asked
      /\ Reported(c, s, results).rid = c.rid
      /\ Reported(c, s, results).link = c.link
      /\ Reported(c, s, results).count = (c.count + Wrap - 1) % Wrap
      /\ Reported(c, s, results).result = WithResult(c, s, results)
  BY ReportedFields
<1>2. d.result = WithResult(c, s, results)
  BY DEF Contexts, WithResult
<1> DEFINE u == Aggregated(d)
<1>3. u = UNION UNION {Reported(c, s, results).result[v] : v \in Servers}
  <2> HIDE DEF d
  <2>1. d.result = Reported(c, s, results).result
    BY <1>1, <1>2
  <2>2. {d.result[v] : v \in Servers} = {Reported(c, s, results).result[v] : v \in Servers}
    BY <2>1
  <2>3. u = UNION UNION {d.result[v] : v \in Servers}
    BY DEF Aggregated
  <2> QED
    BY <2>2, <2>3
<1>4. u \in SUBSET (Servers \X Queries)
  <2>1. \A v \in Servers : Reported(c, s, results).result[v] \subseteq SUBSET (Servers \X Queries)
    BY <1>1 DEF Contexts
  <2> DEFINE f == Reported(c, s, results).result
             T == Servers \X Queries
  <2>2. \A v \in Servers : f[v] \subseteq SUBSET T
    BY <2>1
  <2> HIDE DEF f, T
  <2>3. UNION UNION {f[v] : v \in Servers} \subseteq T
    BY <2>2, UnionBound
  <2> QED
    BY <2>3, <1>3 DEF f, T
<1>5. AnswerTo(q, c, s, results) = [link |-> c.link, side |-> "far",
        msg |-> [type |-> "response", rid |-> c.rid, q |-> q, results |-> u]]
  BY DEF AnswerTo, Message
<1> HIDE DEF u, AnswerTo
<1>6. c.link \in {"client"} \X (0..MaxId) /\ c.rid \in 0..MaxRid
  BY DEF Contexts
<1>7. c.link \in Linked /\ c.link[1] = "client"
  BY <1>6 DEF Linked, Dialers
<1> QED
  BY <1>3, <1>4, <1>5, <1>6, <1>7 DEF Packets, IsAnswer

\* Finish keeps the types of contexts and packets.
LEMMA FinishTypes ==
    ASSUME NEW q \in Queries, NEW c \in Contexts, NEW s, NEW results \in SUBSET (Servers \X Queries),
           ctx \in [Queries -> Contexts], Finish(q, c, s, results)
    PROVE  /\ ctx' \in [Queries -> Contexts]
           /\ writes' \subseteq writes \cup {AnswerTo(q, c, s, results)}
           /\ AnswerTo(q, c, s, results) \in Packets /\ IsAnswer(AnswerTo(q, c, s, results))
<1>1. /\ ctx' = [ctx EXCEPT ![q] = Reported(c, s, results)]
      /\ writes' = IF c.count <= 1 /\ c.link \in far THEN writes \cup {AnswerTo(q, c, s, results)} ELSE writes
  BY FinishEffect
<1>2. Reported(c, s, results) \in Contexts
  BY ReportedFields
<1>3. AnswerTo(q, c, s, results) \in Packets /\ IsAnswer(AnswerTo(q, c, s, results))
  BY AnswerIsPacket
<1> QED
  BY <1>1, <1>2, <1>3
\* A connection of the aggregator keeps going to a server.
LEMMA DialedStays ==
    ASSUME SocketInv, [Next]_vars
    PROVE  \A i \in 1..MaxId : dialed["agg"][i] \in Servers => dialed'["agg"][i] \in Servers
<1>1. ASSUME NEW i \in Slots, Redial(i)
      PROVE  \A j \in 1..MaxId : dialed["agg"][j] \in Servers => dialed'["agg"][j] \in Servers
  <2>1. AddConnection("client", "agg") /\ "client" \in Dialers
    BY <1>1 DEF Redial, Dialers
  <2> QED
    BY <2>1, AddConnectionInv
<1>2. ASSUME NEW s \in Servers, Dial(s)
      PROVE  \A j \in 1..MaxId : dialed["agg"][j] \in Servers => dialed'["agg"][j] \in Servers
  <2>1. AddConnection("agg", s) /\ "agg" \in Dialers
    BY <1>2 DEF Dial, Dialers
  <2> QED
    BY <2>1, AddConnectionInv
<1>3. CASE UNCHANGED dialed
  BY <1>3
<1>4. ASSUME Connecting
      PROVE  \/ UNCHANGED dialed
             \/ \E i \in Slots : Redial(i)
             \/ \E s \in Servers : Dial(s)
  <2>1. ASSUME NEW x, WriteFails(x) \/ DialFails(x) \/ NoteConnection(x)
        PROVE  UNCHANGED dialed
    BY <2>1 DEF WriteFails, DialFails, NoteConnection, socketVars
  <2>2. ASSUME NEW x, NEW y, ReadFails(x, y)
        PROVE  UNCHANGED dialed
    BY <2>2 DEF ReadFails
  <2>3. ASSUME ConnectToPendingServers
        PROVE  UNCHANGED dialed
    BY <2>3 DEF ConnectToPendingServers, socketVars
  <2> QED
    BY <1>4, <2>1, <2>2, <2>3 DEF Connecting
<1> QED
  BY <1>1, <1>2, <1>3, <1>4, NextSplits, PassiveKeepsConnections DEF vars, socketVars, connVars

\* Packets move from the writes to the posted or failed ones; what is new is a
\* packet.
LEMMA PacketStep ==
    ASSUME Types, [Next]_vars, NEW new, new \subseteq Packets,
           \A w \in new : w.link[1] = "agg" => w.link[2] \in 1..MaxId /\ dialed["agg"][w.link[2]] \in Servers,
           writes' \subseteq writes \cup new, posted' \subseteq posted \cup writes, failed' \subseteq failed \cup writes
    PROVE  PacketInv'
<1>1. \A i \in 1..MaxId : dialed["agg"][i] \in Servers => dialed'["agg"][i] \in Servers
  BY DialedStays DEF Types
<1>2. writes' \subseteq Packets /\ posted' \subseteq Packets /\ failed' \subseteq Packets
  BY DEF Types, PacketInv
<1>3. \A w \in writes' \cup posted' : w \in new \/ w \in writes \/ w \in posted
  OBVIOUS
<1>4. \A w \in writes' \cup posted' :
         w.link[1] = "agg" => w.link[2] \in 1..MaxId /\ dialed["agg"][w.link[2]] \in Servers
  BY <1>3 DEF Types, PacketInv
<1> QED
  BY <1>1, <1>2, <1>4 DEF PacketInv

packetVars == <<writes, posted, failed>>

myClientVars == <<cmgr, count, flag, main, sent, todo, calls>>

LEMMA ClientUnchanged ==
    ASSUME ClientInv, UNCHANGED myClientVars
    PROVE  ClientInv'
BY DEF ClientInv, myClientVars

LEMMA AggUnchanged ==
    ASSUME AggInv, UNCHANGED <<amgr, ctx>>
    PROVE  AggInv'
BY DEF AggInv

LEMMA PacketsMove ==
    ASSUME Types, [Next]_vars,
           writes' \subseteq writes, posted' \subseteq posted \cup writes, failed' \subseteq failed \cup writes
    PROVE  PacketInv'
<1> DEFINE new == {}
<1>1. /\ new \subseteq Packets
      /\ \A w \in new : w.link[1] = "agg" => w.link[2] \in 1..MaxId /\ dialed["agg"][w.link[2]] \in Servers
      /\ writes' \subseteq writes \cup new
  OBVIOUS
<1> HIDE DEF new
<1> QED
  BY <1>1, PacketStep

LEMMA PacketsUnchanged ==
    ASSUME Types, [Next]_vars, UNCHANGED packetVars
    PROVE  PacketInv'
BY PacketsMove DEF packetVars

\* Steps of the sockets and of connecting.
LEMMA SocketStepTypes ==
    ASSUME Types, Next,
           \/ Connecting
           \/ \E w \in writes : Deliver(w) \/ WriteAborted(w)
           \/ \E link \in Links : Break(link)
           \/ \E i \in Slots : GiveUp(i)
    PROVE  PacketInv' /\ ClientInv' /\ AggInv' /\ UNCHANGED <<myClientVars, amgr, ctx, sendFailed>>
<1> DEFINE Rest == UNCHANGED <<myClientVars, amgr, ctx, sendFailed>>
           Moves == writes' \subseteq writes /\ posted' \subseteq posted \cup writes /\ failed' \subseteq failed \cup writes
<1>1. ASSUME NEW w, Deliver(w) \/ WriteAborted(w) \/ WriteFails(w)
      PROVE  Rest /\ Moves
  BY <1>1 DEF Deliver, WriteAborted, WriteFails, clientVars, aggVars, myClientVars
<1>2. ASSUME NEW x, Break(x) \/ GiveUp(x) \/ Redial(x) \/ Dial(x) \/ DialFails(x) \/ NoteConnection(x)
      PROVE  Rest /\ Moves
  BY <1>2 DEF Break, GiveUp, Redial, Dial, DialFails, NoteConnection, socketVars, clientVars, aggVars, myClientVars
<1>3. ASSUME NEW link, NEW side, ReadFails(link, side)
      PROVE  Rest /\ Moves
  BY <1>3 DEF ReadFails, myClientVars
<1>4. ASSUME ConnectToPendingServers
      PROVE  Rest /\ Moves
  BY <1>4 DEF ConnectToPendingServers, socketVars, clientVars, myClientVars
<1>5. Rest /\ Moves
  <2> HIDE DEF Rest, Moves
  <2> QED
    BY <1>1, <1>2, <1>3, <1>4 DEF Connecting
<1>6. PacketInv'
  BY <1>5, PacketsMove
<1> QED
  BY <1>5, <1>6, ClientUnchanged, AggUnchanged DEF Types
CallRecords == [status : {"Success", "FailedNetwork", "Timeout"}, results : SUBSET (Servers \X Queries)]

LEMMA KeyType ==
    ASSUME NEW q \in Queries
    PROVE  Key(q) \in Keys
BY DEF Key, Keys

LEMMA CallsAppend ==
    ASSUME NEW q \in Queries, NEW x \in CallRecords, calls \in [Queries -> Seq(CallRecords)],
           calls' = [calls EXCEPT ![q] = Append(@, x)]
    PROVE  /\ calls' \in [Queries -> Seq(CallRecords)]
           /\ Len(calls'[q]) = Len(calls[q]) + 1
           /\ \A k \in DOMAIN calls'[q] : calls'[q][k] = x \/ (k \in DOMAIN calls[q] /\ calls'[q][k] = calls[q][k])
           /\ \A p \in Queries : p # q => calls'[p] = calls[p]
<1>1. calls[q] \in Seq(CallRecords)
  OBVIOUS
<1>2. /\ Append(calls[q], x) \in Seq(CallRecords)
      /\ Len(Append(calls[q], x)) = Len(calls[q]) + 1
      /\ \A k \in DOMAIN Append(calls[q], x) :
           Append(calls[q], x)[k] = x \/ (k \in DOMAIN calls[q] /\ Append(calls[q], x)[k] = calls[q][k])
  BY <1>1
<1> DEFINE a == Append(calls[q], x)
<1>3. calls' = [calls EXCEPT ![q] = a]
  OBVIOUS
<1> HIDE DEF a
<1>4. calls'[q] = a /\ \A p \in Queries : p # q => calls'[p] = calls[p]
  BY <1>3
<1>5. calls' \in [Queries -> Seq(CallRecords)]
  BY <1>2, <1>3 DEF a
<1> QED
  BY <1>2, <1>4, <1>5 DEF a

\* The parts of ClientInv that a step of a callback touches.
LEMMA CountType ==
    ASSUME NEW k \in Keys, count \in [Keys -> 0..(Wrap - 1)]
    PROVE  /\ Decremented(k) \in [Keys -> 0..(Wrap - 1)]
           /\ [count EXCEPT ![k] = (@ + 1) % Wrap] \in [Keys -> 0..(Wrap - 1)]
<1>1. Wrap \in Nat /\ Wrap >= 2 /\ count[k] \in 0..(Wrap - 1)
  BY BoundFacts
<1>2. (count[k] + Wrap - 1) % Wrap \in 0..(Wrap - 1) /\ (count[k] + 1) % Wrap \in 0..(Wrap - 1)
  BY <1>1
<1> QED
  BY <1>2 DEF Decremented

LEMMA SendQueryTypes ==
    ASSUME Types, Next, NEW q \in Queries, NEW i \in Slots, SendQuery(q, i)
    PROVE  PacketInv' /\ ClientInv' /\ AggInv'
<1> DEFINE link == <<"client", slot[i]>>
           m == [link |-> link, side |-> "near", msg |-> Message("request", AddedId(cmgr), q, {})]
<1>1. /\ cmgr \in Managers(Queries) /\ count \in [Keys -> 0..(Wrap - 1)] /\ flag \in [Keys -> BOOLEAN]
      /\ main \in Keys \cup {"idle"} /\ sent \subseteq Queries /\ todo \subseteq Steps
      /\ calls \in [Queries -> Seq(CallRecords)]
      /\ slot \in [Slots -> 0..MaxId]
  BY DEF Types, ClientInv, SocketInv, CallRecords
<1>2. AddedId(cmgr) \in Rids /\ Add(cmgr, q, TRUE) \in Managers(Queries)
  BY <1>1, AddManager, BoundFacts
<1>3. Key(q) \in Keys
  BY KeyType
<1>4. m \in Packets /\ m.link[1] # "agg"
  <2>1. link \in Linked /\ link[1] # "agg"
    BY <1>1 DEF Linked, Dialers
  <2>2. AddedId(cmgr) \in 0..MaxRid
    BY <1>2, BoundFacts DEF Rids
  <2>3. m = [link |-> link, side |-> "near", msg |-> [type |-> "request", rid |-> AddedId(cmgr), q |-> q, results |-> {}]]
    BY DEF Message
  <2> HIDE DEF link, m
  <2> QED
    BY <2>1, <2>2, <2>3 DEF Packets
<1>5. /\ sent' = sent \cup {q} /\ cmgr' = Add(cmgr, q, TRUE)
      /\ count' = [count EXCEPT ![Key(q)] = (@ + 1) % Wrap]
      /\ main' = IF api = "ann" THEN q ELSE "all"
      /\ \/ writes' = writes \cup {m} /\ UNCHANGED <<todo, calls, sendFailed>>
         \/ /\ calls' = [calls EXCEPT ![q] = Append(@, [status |-> "FailedNetwork", results |-> {}])]
            /\ todo' = todo \cup {[q |-> q, by |-> "send", op |-> "decrease"]}
            /\ UNCHANGED writes
      /\ UNCHANGED <<flag, posted, failed, amgr, ctx>>
  BY DEF SendQuery, Write, aggVars
<1>6. PacketInv'
  <2> DEFINE new == {m}
  <2>1. /\ new \subseteq Packets
        /\ \A w \in new : w.link[1] = "agg" => w.link[2] \in 1..MaxId /\ dialed["agg"][w.link[2]] \in Servers
        /\ writes' \subseteq writes \cup new /\ posted' \subseteq posted \cup writes /\ failed' \subseteq failed \cup writes
    BY <1>4, <1>5
  <2> HIDE DEF new, m
  <2> QED
    BY <2>1, PacketStep
<1>7. ClientInv'
  <2>1. cmgr' \in Managers(Queries) /\ sent' \subseteq Queries /\ flag' \in [Keys -> BOOLEAN]
    BY <1>1, <1>2, <1>5
  <2>2. main' \in Keys \cup {"idle"}
    BY <1>5 DEF Keys
  <2>3. count' \in [Keys -> 0..(Wrap - 1)]
    BY <1>1, <1>3, <1>5, CountType
  <2>4. todo' \subseteq Steps
    BY <1>1, <1>5 DEF Steps
  <2>5. calls' \in [Queries -> Seq(CallRecords)]
    <3> DEFINE x == [status |-> "FailedNetwork", results |-> {}]
    <3>1. x \in CallRecords
      BY DEF CallRecords
    <3>2. UNCHANGED calls \/ calls' = [calls EXCEPT ![q] = Append(@, x)]
      BY <1>5
    <3> HIDE DEF x
    <3> QED
      BY <1>1, <3>1, <3>2, CallsAppend
  <2> QED
    BY <2>1, <2>2, <2>3, <2>4, <2>5 DEF ClientInv, CallRecords
<1> QED
  BY <1>5, <1>6, <1>7, AggUnchanged DEF Types

\* The steps of the client other than sending.
LEMMA ClientStepTypes ==
    ASSUME Types, Next,
           \/ NothingToWaitFor \/ StartWaiting \/ ClientExpire
           \/ \E t \in todo : Call(t) \/ Decrease(t) \/ Notify(t)
           \/ \E q \in Queries : SearchUnconnected(q)
           \/ \E w \in failed : ClientSendFailed(w)
           \/ \E w \in posted : ClientResponse(w)
    PROVE  PacketInv' /\ ClientInv' /\ AggInv' /\ UNCHANGED <<amgr, ctx>> /\ writes' = writes /\ posted' \subseteq posted
<1> DEFINE Rest == /\ UNCHANGED <<amgr, ctx, writes>>
                   /\ posted' \subseteq posted /\ failed' \subseteq failed
<1>0. /\ cmgr \in Managers(Queries) /\ count \in [Keys -> 0..(Wrap - 1)] /\ flag \in [Keys -> BOOLEAN]
      /\ main \in Keys \cup {"idle"} /\ sent \subseteq Queries /\ todo \subseteq Steps
      /\ calls \in [Queries -> Seq(CallRecords)]
      /\ posted \subseteq Packets /\ failed \subseteq Packets
  BY DEF Types, ClientInv, PacketInv, CallRecords
<1>1. ASSUME NothingToWaitFor \/ StartWaiting
      PROVE  ClientInv' /\ Rest
  <2>1. UNCHANGED <<amgr, ctx, writes, posted, failed, cmgr, count, sent, todo, calls>>
    BY <1>1 DEF NothingToWaitFor, StartWaiting, socketVars, aggVars
  <2>2. main' \in Keys \cup {"idle"} /\ flag' \in [Keys -> BOOLEAN]
    BY <1>0, <1>1 DEF NothingToWaitFor, StartWaiting
  <2> QED
    BY <1>0, <2>1, <2>2 DEF ClientInv, CallRecords
<1>2. ASSUME ClientExpire
      PROVE  ClientInv' /\ Rest
  <2> DEFINE rid == ExpiredId(cmgr)
             start == IF api = "wrapper" THEN "decrease" ELSE "call"
             t == [q |-> cmgr.resources[rid], by |-> "timeout", op |-> start]
  <2>1. /\ CanExpire(cmgr) /\ cmgr' = Expire(cmgr)
        /\ todo' = IF Pending(cmgr, rid) THEN todo \cup {t} ELSE todo
        /\ UNCHANGED <<amgr, ctx, writes, posted, failed, count, flag, main, sent, calls>>
    BY <1>2 DEF ClientExpire, socketVars, aggVars
  <2>2. cmgr' \in Managers(Queries) /\ rid \in Rids
    BY <1>0, <2>1, ExpireManager
  <2>3. Pending(cmgr, rid) => t \in Steps
    BY <1>0, <2>2 DEF Pending, Managers, Steps
  <2> HIDE DEF t
  <2>4. todo' \subseteq Steps
    BY <1>0, <2>1, <2>3
  <2> QED
    BY <1>0, <2>1, <2>2, <2>4 DEF ClientInv, CallRecords
<1>3. ASSUME NEW t \in todo, Call(t)
      PROVE  ClientInv' /\ Rest
  <2> DEFINE x == [status |-> IF t.by = "timeout" THEN "Timeout" ELSE "FailedNetwork", results |-> {}]
  <2>1. /\ calls' = [calls EXCEPT ![t.q] = Append(@, x)]
        /\ todo' \subseteq todo \cup {[t EXCEPT !.op = "decrease"]}
        /\ UNCHANGED <<amgr, ctx, writes, posted, failed, cmgr, count, flag, main, sent>>
    BY <1>3 DEF Call, socketVars, aggVars
  <2>2. x \in CallRecords /\ t.q \in Queries /\ [t EXCEPT !.op = "decrease"] \in Steps
    BY <1>0 DEF CallRecords, Steps
  <2> HIDE DEF x
  <2>3. calls' \in [Queries -> Seq(CallRecords)]
    BY <1>0, <2>1, <2>2, CallsAppend
  <2>4. todo' \subseteq Steps
    BY <1>0, <2>1, <2>2
  <2> QED
    BY <1>0, <2>1, <2>3, <2>4 DEF ClientInv, CallRecords
<1>4. ASSUME NEW t \in todo, Decrease(t)
      PROVE  ClientInv' /\ Rest
  <2>1. /\ count' = Decremented(Key(t.q))
        /\ todo' \subseteq todo \cup {[t EXCEPT !.op = "notify"], [t EXCEPT !.op = "call"]}
        /\ UNCHANGED <<amgr, ctx, writes, posted, failed, cmgr, flag, main, sent, calls>>
    BY <1>4 DEF Decrease, AfterDecrease, socketVars, aggVars
  <2>2. t.q \in Queries /\ [t EXCEPT !.op = "notify"] \in Steps /\ [t EXCEPT !.op = "call"] \in Steps
    BY <1>0 DEF Steps
  <2>3. count' \in [Keys -> 0..(Wrap - 1)]
    BY <1>0, <2>1, <2>2, KeyType, CountType
  <2>4. todo' \subseteq Steps
    BY <1>0, <2>1, <2>2
  <2> QED
    BY <1>0, <2>1, <2>3, <2>4 DEF ClientInv, CallRecords
<1>5. ASSUME NEW t \in todo, Notify(t)
      PROVE  ClientInv' /\ Rest
  <2> DEFINE k == Key(t.q)
             wake == flag[k] /\ (api = "wrapper" => count[k] = 0)
  <2>1. /\ todo' = todo \ {t}
        /\ flag' = [flag EXCEPT ![k] = @ /\ ~wake]
        /\ main' = IF wake /\ main = k THEN "idle" ELSE main
        /\ UNCHANGED <<amgr, ctx, writes, posted, failed, cmgr, count, sent, calls>>
    BY <1>5 DEF Notify, socketVars, aggVars
  <2>2. main' \in Keys \cup {"idle"} /\ todo' \subseteq Steps
    BY <1>0, <2>1
  <2>3. flag' \in [Keys -> BOOLEAN]
    BY <1>0, <2>1
  <2> QED
    BY <1>0, <2>1, <2>2, <2>3 DEF ClientInv, CallRecords
<1>6. ASSUME NEW q \in Queries, SearchUnconnected(q)
      PROVE  ClientInv' /\ Rest
  <2> DEFINE x == [status |-> "Timeout", results |-> {}]
  <2>1. /\ calls' = [calls EXCEPT ![q] = Append(@, x)]
        /\ sent' = sent \cup {q}
        /\ UNCHANGED <<amgr, ctx, writes, posted, failed, cmgr, count, flag, main, todo>>
    BY <1>6 DEF SearchUnconnected, socketVars, aggVars
  <2>2. x \in CallRecords
    BY DEF CallRecords
  <2> HIDE DEF x
  <2>3. calls' \in [Queries -> Seq(CallRecords)]
    BY <1>0, <2>1, <2>2, CallsAppend
  <2> QED
    BY <1>0, <2>1, <2>3 DEF ClientInv, CallRecords
<1>7. ASSUME NEW w \in failed, ClientSendFailed(w)
      PROVE  ClientInv' /\ Rest
  <2>1. /\ todo' = todo \cup {[q |-> w.msg.q, by |-> "send", op |-> "call"]}
        /\ failed' \subseteq failed
        /\ UNCHANGED <<amgr, ctx, writes, posted, cmgr, count, flag, main, sent, calls>>
    BY <1>7 DEF ClientSendFailed, aggVars
  <2>2. [q |-> w.msg.q, by |-> "send", op |-> "call"] \in Steps
    BY <1>0 DEF Steps, Packets
  <2> QED
    BY <1>0, <2>1, <2>2 DEF ClientInv, CallRecords
<1>8. ASSUME NEW w \in posted, ClientResponse(w)
      PROVE  ClientInv' /\ Rest
  <2> DEFINE q == cmgr.resources[w.msg.rid]
             x == [status |-> "Success", results |-> w.msg.results]
             known == Pending(cmgr, w.msg.rid)
  <2>1. /\ cmgr' = GetAndRemove(cmgr, w.msg.rid)
        /\ calls' = IF known THEN [calls EXCEPT ![q] = Append(@, x)] ELSE calls
        /\ todo' = IF known THEN todo \cup {[q |-> q, by |-> "reply", op |-> "decrease"]} ELSE todo
        /\ posted' \subseteq posted
        /\ UNCHANGED <<amgr, ctx, writes, failed, count, flag, main, sent>>
    BY <1>8 DEF ClientResponse, aggVars
  <2>2. known => q \in Queries
    BY <1>0 DEF Pending, Managers
  <2>3. x \in CallRecords
    BY <1>0 DEF CallRecords, Packets
  <2>4. cmgr' \in Managers(Queries)
    BY <1>0, <2>1, GetAndRemoveManager
  <2> HIDE DEF x, q, known
  <2>5. calls' \in [Queries -> Seq(CallRecords)]
    BY <1>0, <2>1, <2>2, <2>3, CallsAppend
  <2>6. todo' \subseteq Steps
    BY <1>0, <2>1, <2>2 DEF Steps
  <2> QED
    BY <1>0, <2>1, <2>4, <2>5, <2>6 DEF ClientInv, CallRecords
<1>9. ClientInv' /\ Rest
  <2> HIDE DEF Rest
  <2> QED
    BY <1>1, <1>2, <1>3, <1>4, <1>5, <1>6, <1>7, <1>8
<1>10. PacketInv'
  BY <1>9, PacketsMove
<1> QED
  BY <1>9, <1>10, AggUnchanged DEF Types
LEMMA SelectEffect ==
    ASSUME NEW w, SelectServers(w), setting \in Settings
    PROVE  \E asked \in SUBSET Servers :
             /\ ctx' = [ctx EXCEPT ![w.msg.q] = Selected(w, asked)]
             /\ IsFiniteSet(asked) /\ Cardinality(asked) \in 0..(Wrap - 1)
<1>1. PICK candidates \in SUBSET setting.servers :
        ctx' = [ctx EXCEPT ![w.msg.q] = Selected(w, {s \in candidates : status[s] = "Connected"})]
  BY DEF SelectServers
<1> DEFINE asked == {s \in candidates : status[s] = "Connected"}
<1>2. asked \in SUBSET Servers
  BY SettingFacts
<1>4. ctx' = [ctx EXCEPT ![w.msg.q] = Selected(w, asked)]
  BY <1>1
<1> HIDE DEF asked
<1>5. IsFiniteSet(asked) /\ Cardinality(asked) \in 0..(Wrap - 1)
  <2>1. IsFiniteSet(asked) /\ Cardinality(asked) <= Cardinality(Servers)
    BY <1>2, BoundFacts, FS_Subset
  <2>2. Cardinality(asked) \in Nat
    BY <2>1, FS_CardinalityType
  <2> QED
    BY <2>1, <2>2, BoundFacts
<1> QED
  BY <1>2, <1>4, <1>5

LEMMA SelectedIsContext ==
    ASSUME Types, NEW w \in Packets, w.link[1] = "client", NEW asked \in SUBSET Servers,
           Cardinality(asked) \in 0..(Wrap - 1)
    PROVE  Selected(w, asked) \in Contexts
<1>1. [s \in Servers |-> IF s \in asked THEN connId[s] ELSE 0] \in [Servers -> 0..MaxId]
  BY BoundFacts DEF Types, MachineInv
<1>2. [s \in Servers |-> {}] \in [Servers -> SUBSET SUBSET (Servers \X Queries)]
  OBVIOUS
<1>3. w.link \in {"client"} \X (0..MaxId) /\ w.msg.rid \in 0..MaxRid
  <2>1. w.link \in Linked /\ w.msg.rid \in 0..MaxRid
    BY DEF Packets
  <2> QED
    BY <2>1 DEF Linked
<1> QED
  BY <1>1, <1>2, <1>3 DEF Selected, Contexts

\* A registered callback, called with results.
LEMMA CallBackTypes ==
    ASSUME Types, NEW rid, NEW results \in SUBSET (Servers \X Queries), CallBack(rid, results)
    PROVE  /\ ctx' \in [Queries -> Contexts]
           /\ \E new \in SUBSET Packets : writes' \subseteq writes \cup new /\ \A w \in new : IsAnswer(w)
<1>1. CASE Pending(amgr, rid)
  <2> DEFINE q == amgr.resources[rid][1]
             s == amgr.resources[rid][2]
  <2>1. q \in Queries /\ s \in Servers /\ Finish(q, ctx[q], s, results)
    BY <1>1 DEF CallBack, Pending, Types, AggInv, Managers
  <2>2. ctx \in [Queries -> Contexts] /\ ctx[q] \in Contexts
    BY <2>1 DEF Types, AggInv
  <2> HIDE DEF q, s
  <2>3. /\ ctx' \in [Queries -> Contexts]
        /\ writes' \subseteq writes \cup {AnswerTo(q, ctx[q], s, results)}
        /\ AnswerTo(q, ctx[q], s, results) \in Packets /\ IsAnswer(AnswerTo(q, ctx[q], s, results))
    BY <2>1, <2>2, FinishTypes
  <2> DEFINE new == {AnswerTo(q, ctx[q], s, results)}
  <2>4. new \in SUBSET Packets /\ writes' \subseteq writes \cup new /\ \A w \in new : IsAnswer(w)
    BY <2>3
  <2> HIDE DEF new
  <2> QED
    BY <2>3, <2>4
<1>2. CASE ~Pending(amgr, rid)
  <2>1. ctx' = ctx /\ writes' = writes
    BY <1>2 DEF CallBack
  <2>2. {} \in SUBSET Packets /\ writes' \subseteq writes \cup {} /\ \A w \in {} : IsAnswer(w)
    BY <2>1
  <2> QED
    BY <2>1, <2>2 DEF Types, AggInv
<1> QED
  BY <1>1, <1>2

\* What AskServer writes.
Request(q, s) == [link |-> <<"agg", ctx[q].conn[s]>>, side |-> "near", msg |-> Message("request", AddedId(amgr), q, {})]

\* The context when the loop has come to a server.
Taken(q, s) == [ctx[q] EXCEPT !.todo = @ \ {s}]

LEMMA TakenFields ==
    ASSUME AggInv, NEW q \in Queries, NEW s
    PROVE  /\ Taken(q, s) \in Contexts
           /\ Taken(q, s).used = ctx[q].used
           /\ Taken(q, s).todo = ctx[q].todo \ {s}
           /\ Taken(q, s).asked = ctx[q].asked
           /\ Taken(q, s).rid = ctx[q].rid
           /\ Taken(q, s).link = ctx[q].link
           /\ Taken(q, s).count = ctx[q].count
           /\ Taken(q, s).conn = ctx[q].conn
           /\ Taken(q, s).result = ctx[q].result
<1>1. ctx[q] \in Contexts
  BY DEF AggInv
<1> QED
  BY <1>1 DEF Taken, Contexts

LEMMA AskEffect ==
    ASSUME Types, NEW q \in Queries, NEW s \in Servers, AskServer(q, s)
    PROVE  /\ s \in ctx[q].todo
           /\ amgr' = Add(amgr, <<q, s>>, TRUE)
           /\ \/ /\ Request(q, s) \in Packets
                 /\ Request(q, s).link[1] = "agg" /\ Request(q, s).link[2] \in 1..MaxId
                 /\ dialed["agg"][Request(q, s).link[2]] \in Servers
                 /\ writes' = writes \cup {Request(q, s)}
                 /\ ctx' = [ctx EXCEPT ![q] = Taken(q, s)]
                 /\ UNCHANGED sendFailed
              \/ /\ Finish(q, Taken(q, s), s, {})
                 /\ sendFailed' = sendFailed \cup {<<"agg", q>>}
           /\ UNCHANGED <<posted, failed, myClientVars>>
<1>1. /\ s \in ctx[q].todo
      /\ amgr' = Add(amgr, <<q, s>>, TRUE)
      /\ IF HasConnection("agg", Taken(q, s).conn[s])
         THEN /\ Write(<<"agg", Taken(q, s).conn[s]>>, "near", Message("request", AddedId(amgr), q, {}))
              /\ ctx' = [ctx EXCEPT ![q] = Taken(q, s)]
              /\ UNCHANGED sendFailed
         ELSE Finish(q, Taken(q, s), s, NoResults) /\ sendFailed' = sendFailed \cup {<<"agg", q>>}
      /\ UNCHANGED <<posted, failed, myClientVars>>
  BY DEF AskServer, Taken, clientVars, myClientVars
<1>2. Taken(q, s).conn = ctx[q].conn /\ ctx[q].conn[s] \in 0..MaxId
  <2>1. Taken(q, s).conn = ctx[q].conn
    BY TakenFields DEF Types
  <2>2. ctx[q] \in Contexts
    BY DEF Types, AggInv
  <2> QED
    BY <2>1, <2>2 DEF Contexts
<1>3. CASE HasConnection("agg", ctx[q].conn[s])
  <2>1. /\ writes' = writes \cup {Request(q, s)}
        /\ ctx' = [ctx EXCEPT ![q] = Taken(q, s)]
        /\ UNCHANGED sendFailed
    BY <1>1, <1>2, <1>3 DEF Write, Request
  <2> DEFINE id == ctx[q].conn[s]
  <2>2. id \in 1..MaxId /\ id \in Nat /\ table["agg"][GetPosition(id)] = id
    BY <1>2, <1>3, BoundFacts DEF HasConnection
  <2>3. dialed["agg"][id] \in Servers
    <3>1. GetPosition(id) \in 0..(PoolSize - 1)
      BY <2>2, PositionRange
    <3>2. \A i \in 0..(PoolSize - 1) : table["agg"][i] # 0 => dialed["agg"][table["agg"][i]] \in Servers
      BY DEF Types, SocketInv
    <3> HIDE DEF id
    <3>3. id # 0
      BY <2>2
    <3> QED
      BY <2>2, <3>1, <3>2, <3>3
  <2>4. AddedId(amgr) \in 0..MaxRid
    <3>1. amgr \in Managers(Queries \X Servers) /\ <<q, s>> \in Queries \X Servers
      BY DEF Types, AggInv
    <3>2. AddedId(amgr) \in Rids
      BY <3>1, AddManager, BoundFacts
    <3> QED
      BY <3>2, BoundFacts DEF Rids
  <2>5. Request(q, s) = [link |-> <<"agg", id>>, side |-> "near",
                         msg |-> [type |-> "request", rid |-> AddedId(amgr), q |-> q, results |-> {}]]
    BY DEF Request, Message
  <2> HIDE DEF id
  <2>6. <<"agg", id>> \in Linked
    BY <2>2, BoundFacts DEF Linked, Dialers
  <2>7. Request(q, s) \in Packets /\ Request(q, s).link = <<"agg", id>>
    BY <2>4, <2>5, <2>6 DEF Packets
  <2> QED
    BY <1>1, <2>1, <2>2, <2>3, <2>7
<1>4. CASE ~HasConnection("agg", ctx[q].conn[s])
  BY <1>1, <1>2, <1>4 DEF NoResults
<1> QED
  BY <1>3, <1>4

\* What a server answers.
Response(w) == [link |-> w.link, side |-> "far",
    msg |-> Message("response", w.msg.rid, w.msg.q, {<<dialed["agg"][w.link[2]], w.msg.q>>})]

LEMMA SearchEffect ==
    ASSUME Types, NEW w \in posted, Search(w)
    PROVE  /\ w.link[1] = "agg" /\ Response(w) \in Packets
           /\ Response(w).link = w.link /\ Response(w).side = "far"
           /\ Response(w).msg.q = w.msg.q /\ Response(w).msg.rid = w.msg.rid
           /\ Response(w).msg.results \subseteq Servers \X {w.msg.q}
           /\ writes' \subseteq writes \cup {Response(w)}
           /\ posted' = posted \ {w}
           /\ UNCHANGED <<failed, myClientVars, amgr, ctx, sendFailed>>
<1>1. /\ w.link[1] = "agg" /\ posted' = posted \ {w}
      /\ writes' \subseteq writes \cup {Response(w)}
      /\ UNCHANGED <<failed, myClientVars, amgr, ctx, sendFailed>>
  BY DEF Search, Write, Response, clientVars, aggVars, myClientVars
<1>2. w \in Packets /\ dialed["agg"][w.link[2]] \in Servers
  BY <1>1 DEF Types, PacketInv
<1> DEFINE r == {<<dialed["agg"][w.link[2]], w.msg.q>>}
<1>3. Response(w) = [link |-> w.link, side |-> "far",
                     msg |-> [type |-> "response", rid |-> w.msg.rid, q |-> w.msg.q, results |-> r]]
  BY DEF Response, Message
<1>4. w.link \in Linked /\ w.msg.rid \in 0..MaxRid /\ w.msg.q \in Queries
  BY <1>2 DEF Packets
<1>5. r \subseteq Servers \X {w.msg.q} /\ r \in SUBSET (Servers \X Queries)
  BY <1>2, <1>4
<1> HIDE DEF r
<1>6. /\ Response(w).link = w.link /\ Response(w).side = "far"
      /\ Response(w).msg.q = w.msg.q /\ Response(w).msg.rid = w.msg.rid
      /\ Response(w).msg.results = r
  BY <1>3
<1>7. Response(w) \in Packets
  BY <1>3, <1>4, <1>5 DEF Packets
<1> QED
  BY <1>1, <1>5, <1>6, <1>7
\* The steps of the aggregator and the servers.
LEMMA AggStepTypes ==
    ASSUME Types, Next,
           \/ \E w \in posted : SelectServers(w) \/ AggResponse(w) \/ Search(w)
           \/ \E w \in failed : AggSendFailed(w)
           \/ \E q \in Queries, s \in Servers : AskServer(q, s)
           \/ AggExpire
    PROVE  PacketInv' /\ ClientInv' /\ AggInv' /\ UNCHANGED myClientVars
<1>0. /\ amgr \in Managers(Queries \X Servers) /\ ctx \in [Queries -> Contexts]
      /\ posted \subseteq Packets /\ failed \subseteq Packets
  BY DEF Types, AggInv, PacketInv
<1> DEFINE Adds(new) == /\ new \subseteq Packets
                        /\ \A w \in new : w.link[1] = "agg" => w.link[2] \in 1..MaxId /\ dialed["agg"][w.link[2]] \in Servers
                        /\ writes' \subseteq writes \cup new
           Rest == /\ posted' \subseteq posted /\ failed' \subseteq failed /\ UNCHANGED myClientVars
                   /\ amgr' \in Managers(Queries \X Servers) /\ ctx' \in [Queries -> Contexts]
<1>1. ASSUME NEW w \in posted, SelectServers(w)
      PROVE  (\E new : Adds(new)) /\ Rest
  <2>1. /\ w.link[1] = "client" /\ posted' \subseteq posted
        /\ UNCHANGED <<writes, failed, myClientVars, amgr>>
    BY <1>1 DEF SelectServers, clientVars, myClientVars
  <2>2. PICK asked \in SUBSET Servers : /\ ctx' = [ctx EXCEPT ![w.msg.q] = Selected(w, asked)]
                                        /\ Cardinality(asked) \in 0..(Wrap - 1)
    BY <1>1, SelectEffect DEF Types, SocketInv
  <2>3. Selected(w, asked) \in Contexts
    BY <1>0, <2>1, <2>2, SelectedIsContext
  <2>4. ctx' \in [Queries -> Contexts]
    BY <1>0, <2>2, <2>3
  <2>5. Adds({})
    BY <2>1
  <2> HIDE DEF Adds
  <2> QED
    BY <1>0, <2>1, <2>4, <2>5
<1>2. ASSUME NEW w \in posted, AggResponse(w)
      PROVE  (\E new : Adds(new)) /\ Rest
  <2>1. /\ posted' \subseteq posted /\ amgr' = GetAndRemove(amgr, w.msg.rid)
        /\ CallBack(w.msg.rid, w.msg.results) /\ UNCHANGED <<failed, myClientVars>>
    BY <1>2 DEF AggResponse, clientVars, myClientVars
  <2>2. w.msg.results \in SUBSET (Servers \X Queries)
    BY <1>0 DEF Packets
  <2>3. /\ ctx' \in [Queries -> Contexts]
        /\ \E new \in SUBSET Packets : writes' \subseteq writes \cup new /\ \A v \in new : IsAnswer(v)
    BY <2>1, <2>2, CallBackTypes
  <2>4. amgr' \in Managers(Queries \X Servers)
    BY <1>0, <2>1, GetAndRemoveManager
  <2>5. PICK new \in SUBSET Packets : writes' \subseteq writes \cup new /\ \A v \in new : IsAnswer(v)
    BY <2>3
  <2>6. Adds(new)
    BY <2>5 DEF IsAnswer
  <2> HIDE DEF Adds
  <2> QED
    BY <2>1, <2>3, <2>4, <2>6
<1>3. ASSUME NEW w \in posted, Search(w)
      PROVE  (\E new : Adds(new)) /\ Rest
  <2>1. /\ w.link[1] = "agg" /\ Response(w) \in Packets /\ Response(w).link = w.link
        /\ writes' \subseteq writes \cup {Response(w)}
        /\ posted' = posted \ {w}
        /\ UNCHANGED <<failed, myClientVars, amgr, ctx, sendFailed>>
    BY <1>3, SearchEffect
  <2>2. w.link[2] \in 1..MaxId /\ dialed["agg"][w.link[2]] \in Servers
    BY <2>1 DEF Types, PacketInv
  <2>3. Adds({Response(w)})
    BY <2>1, <2>2
  <2> HIDE DEF Adds
  <2> QED
    BY <1>0, <2>1, <2>3
<1>4. ASSUME NEW w \in failed, AggSendFailed(w)
      PROVE  (\E new : Adds(new)) /\ Rest
  <2> DEFINE q == w.msg.q
             s == dialed["agg"][w.link[2]]
  <2>1. /\ failed' \subseteq failed /\ Finish(q, ctx[q], s, {})
        /\ UNCHANGED <<posted, amgr, myClientVars>>
    BY <1>4 DEF AggSendFailed, NoResults, clientVars, myClientVars
  <2>2. q \in Queries
    BY <1>0 DEF Packets
  <2> HIDE DEF q, s
  <2>3. /\ ctx' \in [Queries -> Contexts]
        /\ writes' \subseteq writes \cup {AnswerTo(q, ctx[q], s, {})}
        /\ AnswerTo(q, ctx[q], s, {}) \in Packets /\ IsAnswer(AnswerTo(q, ctx[q], s, {}))
    <3>1. ctx[q] \in Contexts /\ {} \in SUBSET (Servers \X Queries)
      BY <1>0, <2>2
    <3> QED
      BY <1>0, <2>1, <2>2, <3>1, FinishTypes
  <2>4. Adds({AnswerTo(q, ctx[q], s, {})})
    BY <2>3 DEF IsAnswer
  <2> HIDE DEF Adds
  <2> QED
    BY <1>0, <2>1, <2>3, <2>4
<1>5. ASSUME NEW q \in Queries, NEW s \in Servers, AskServer(q, s)
      PROVE  (\E new : Adds(new)) /\ Rest
  <2>1. /\ amgr' = Add(amgr, <<q, s>>, TRUE)
        /\ \/ /\ Request(q, s) \in Packets
              /\ Request(q, s).link[1] = "agg" /\ Request(q, s).link[2] \in 1..MaxId
              /\ dialed["agg"][Request(q, s).link[2]] \in Servers
              /\ writes' = writes \cup {Request(q, s)}
              /\ ctx' = [ctx EXCEPT ![q] = Taken(q, s)]
              /\ UNCHANGED sendFailed
           \/ /\ Finish(q, Taken(q, s), s, {})
              /\ sendFailed' = sendFailed \cup {<<"agg", q>>}
        /\ UNCHANGED <<posted, failed, myClientVars>>
    BY <1>5, AskEffect
  <2>2. Taken(q, s) \in Contexts
    BY TakenFields DEF Types
  <2>3. amgr' \in Managers(Queries \X Servers)
    BY <1>0, <2>1, AddManager, BoundFacts
  <2>4. CASE /\ Request(q, s) \in Packets
             /\ Request(q, s).link[1] = "agg" /\ Request(q, s).link[2] \in 1..MaxId
             /\ dialed["agg"][Request(q, s).link[2]] \in Servers
             /\ writes' = writes \cup {Request(q, s)}
             /\ ctx' = [ctx EXCEPT ![q] = Taken(q, s)]
    <3>1. Adds({Request(q, s)})
      BY <2>4
    <3>2. ctx' \in [Queries -> Contexts]
      BY <1>0, <2>2, <2>4
    <3> HIDE DEF Adds
    <3> QED
      BY <2>1, <2>3, <3>1, <3>2
  <2>5. CASE Finish(q, Taken(q, s), s, {})
    <3>1. /\ ctx' \in [Queries -> Contexts]
          /\ writes' \subseteq writes \cup {AnswerTo(q, Taken(q, s), s, {})}
          /\ AnswerTo(q, Taken(q, s), s, {}) \in Packets /\ IsAnswer(AnswerTo(q, Taken(q, s), s, {}))
      <4>1. {} \in SUBSET (Servers \X Queries)
        OBVIOUS
      <4> QED
        BY <1>0, <2>2, <2>5, <4>1, FinishTypes
    <3>2. Adds({AnswerTo(q, Taken(q, s), s, {})})
      BY <3>1 DEF IsAnswer
    <3> HIDE DEF Adds
    <3> QED
      BY <2>1, <2>3, <3>1, <3>2
  <2> QED
    BY <2>1, <2>4, <2>5
<1>6. ASSUME AggExpire
      PROVE  (\E new : Adds(new)) /\ Rest
  <2>1. /\ CanExpire(amgr) /\ amgr' = Expire(amgr) /\ CallBack(ExpiredId(amgr), {})
        /\ UNCHANGED <<posted, failed, myClientVars>>
    BY <1>6 DEF AggExpire, NoResults, clientVars, myClientVars
  <2>3. /\ ctx' \in [Queries -> Contexts]
        /\ \E new \in SUBSET Packets : writes' \subseteq writes \cup new /\ \A v \in new : IsAnswer(v)
    <3>1. {} \in SUBSET (Servers \X Queries)
      OBVIOUS
    <3> QED
      BY <2>1, <3>1, CallBackTypes
  <2>4. amgr' \in Managers(Queries \X Servers)
    BY <1>0, <2>1, ExpireManager
  <2>5. PICK new \in SUBSET Packets : writes' \subseteq writes \cup new /\ \A v \in new : IsAnswer(v)
    BY <2>3
  <2>6. Adds(new)
    BY <2>5 DEF IsAnswer
  <2> HIDE DEF Adds
  <2> QED
    BY <2>1, <2>3, <2>4, <2>6
<1>7. (\E new : Adds(new)) /\ Rest
  <2> HIDE DEF Adds, Rest
  <2> QED
    BY <1>1, <1>2, <1>3, <1>4, <1>5, <1>6
<1>8. PICK new : Adds(new)
  BY <1>7
<1>9. PacketInv'
  BY <1>7, <1>8, PacketStep
<1> HIDE DEF Adds
<1> QED
  BY <1>7, <1>9, ClientUnchanged DEF Types, AggInv

LEMMA NextTypes ==
    ASSUME Types, [Next]_vars
    PROVE  Types'
<1>1. SocketInv' /\ MachineInv'
  BY NextSocketInv DEF Types, PacketInv
<1>2. CASE UNCHANGED vars
  <2>1. UNCHANGED <<packetVars, myClientVars, amgr, ctx>>
    BY <1>2 DEF vars, socketVars, clientVars, aggVars, packetVars, myClientVars
  <2> QED
    BY <1>1, <2>1, PacketsUnchanged, ClientUnchanged, AggUnchanged DEF Types
<1>3. CASE Next
  <2>1. PacketInv' /\ ClientInv' /\ AggInv'
    BY <1>3, NextSplits, SocketStepTypes, SendQueryTypes, ClientStepTypes, AggStepTypes DEF Passive
  <2> QED
    BY <1>1, <2>1 DEF Types
<1> QED
  BY <1>2, <1>3

LEMMA InitTypes ==
    ASSUME Init
    PROVE  Types
<1>1. /\ writes = {} /\ failed = {} /\ posted = {}
      /\ cmgr = NewManager /\ amgr = NewManager
      /\ count = [k \in Keys |-> 0] /\ flag = [k \in Keys |-> FALSE]
      /\ main = "idle" /\ sent = {} /\ calls = [q \in Queries |-> <<>>] /\ todo = {}
      /\ ctx = [q \in Queries |-> NoContext]
  BY DEF Init
<1>2. \A R : NewManager \in Managers(R)
  <2>1. <<>> \in Seq(Rids) /\ 1 \in 0..MaxRid
    BY BoundFacts
  <2> QED
    BY <2>1 DEF NewManager, Managers
<1>3. NoContext \in Contexts
  <2>1. /\ [s \in Servers |-> 0] \in [Servers -> 0..MaxId] /\ <<"client", 0>> \in {"client"} \X (0..MaxId)
        /\ [s \in Servers |-> {}] \in [Servers -> SUBSET SUBSET (Servers \X Queries)]
        /\ 0 \in 0..(Wrap - 1) /\ 0 \in 0..MaxRid
    BY BoundFacts
  <2> QED
    BY <2>1 DEF NoContext, Contexts
<1>4. PacketInv
  BY <1>1 DEF PacketInv
<1>5. AggInv
  BY <1>1, <1>2, <1>3 DEF AggInv
<1>6. ClientInv
  <2>1. count \in [Keys -> 0..(Wrap - 1)] /\ flag \in [Keys -> BOOLEAN]
    BY <1>1, BoundFacts
  <2>2. calls \in [Queries -> Seq(CallRecords)]
    BY <1>1
  <2> QED
    BY <1>1, <1>2, <2>1, <2>2 DEF ClientInv, CallRecords
<1> QED
  BY <1>4, <1>5, <1>6, InitSocketInv DEF Types

\* Every variable keeps its type, whatever connects, sends and breaks: an id
\* stays within its table, a counter within its width, and every connection of
\* the aggregator that is in use goes to a server.
THEOREM TypesHold == Spec => []Types
<1>1. Init => Types
  BY InitTypes
<1>2. Types /\ [Next]_vars => Types'
  BY NextTypes
<1> QED
  BY <1>1, <1>2, PTL DEF Spec

\* A server that the aggregator takes for disconnected is on its reconnect list
\* (EventOnClose, ConnectToPendingServers), for any servers, pool size and
\* order of events.
THEOREM DisconnectedServersArePending == Spec => []DisconnectedIsPending
<1>1. Init => DisconnectedIsPending
  BY InitSocketInv
<1>2. Types /\ DisconnectedIsPending /\ [Next]_vars => DisconnectedIsPending'
  BY NextSocketInv DEF Types, PacketInv
<1> QED
  BY <1>1, <1>2, TypesHold, PTL DEF Spec
(***************************************************************************)
(* Requests, contexts and answers                                          *)
(***************************************************************************)

\* A step that adds no request and starts no context.
LEMMA RequestStep ==
    ASSUME Types, RequestInv,
           \A w \in writes' : w \in writes \/ (w \in Packets /\ ~IsRequest(w) /\ ctx[w.msg.q].used),
           \A w \in posted' : w \in posted \/ (w \in writes /\ w \notin writes'),
           \A w \in failed' : w \in failed \/ w \in writes,
           sent \subseteq sent',
           \A q \in Queries : ctx'[q].used = ctx[q].used /\ (ctx[q].used \/ ctx'[q] = ctx[q])
    PROVE  RequestInv'
<1>0. \A w : w \in writes \/ w \in posted \/ w \in failed => w \in Packets
  BY DEF Types, PacketInv
<1>1. \A w \in Packets : w.msg.q \in Queries /\ (w.link[1] = "agg" => ~IsRequest(w))
  BY DEF Packets, IsRequest
<1>2. \A w \in writes', v \in posted' : IsRequest(w) /\ IsRequest(v) => w.msg.q # v.msg.q
  <2> SUFFICES ASSUME NEW w \in writes', NEW v \in posted', IsRequest(w), IsRequest(v), w.msg.q = v.msg.q
               PROVE  FALSE
    OBVIOUS
  <2>1. w \in writes
    OBVIOUS
  <2>2. CASE v \in posted
    BY <2>1, <2>2 DEF RequestInv
  <2>3. CASE v \in writes /\ v \notin writes'
    BY <2>1, <2>3 DEF RequestInv
  <2> QED
    BY <2>2, <2>3
<1>3. \A w, v \in writes' : IsRequest(w) /\ IsRequest(v) /\ w.msg.q = v.msg.q => w = v
  BY DEF RequestInv
<1>4. \A w, v \in posted' : IsRequest(w) /\ IsRequest(v) /\ w.msg.q = v.msg.q => w = v
  <2> SUFFICES ASSUME NEW w \in posted', NEW v \in posted', IsRequest(w), IsRequest(v), w.msg.q = v.msg.q
               PROVE  w = v
    OBVIOUS
  <2> QED
    BY DEF RequestInv
<1>5. \A w \in writes' \cup posted' : IsRequest(w) => w.msg.q \in sent' /\ ~ctx'[w.msg.q].used
  BY <1>0, <1>1 DEF RequestInv
<1>6. \A w \in writes' \cup posted' : ~IsRequest(w) => ctx'[w.msg.q].used
  BY <1>0, <1>1 DEF RequestInv
<1>7. \A w \in failed' : w.link[1] = "agg" => ctx'[w.msg.q].used
  BY <1>0, <1>1 DEF RequestInv
<1>8. \A q \in Queries : IF ctx'[q].used THEN q \in sent' ELSE ctx'[q] = NoContext
  BY DEF RequestInv
<1> QED
  BY <1>2, <1>3, <1>4, <1>5, <1>6, <1>7, <1>8 DEF RequestInv, IsRequest

\* A step that leaves the aggregator's callbacks and contexts alone.
LEMMA AggIdleStep ==
    ASSUME Types, CountInv, AnswerInv, UNCHANGED <<amgr, ctx>>, sendFailed \subseteq sendFailed',
           \A w \in writes' \cup posted' : w \in writes \cup posted \/ ~IsAnswer(w)
    PROVE  CountInv' /\ AnswerInv'
<1>1. CountInv'
  <2>1. amgr' = amgr /\ ctx' = ctx /\ \A q : <<"agg", q>> \notin sendFailed' => <<"agg", q>> \notin sendFailed
    OBVIOUS
  <2>2. \A q \in Queries : <<"agg", q>> \notin sendFailed' =>
           /\ ctx[q].count = Cardinality(Waiting(ctx[q]))
           /\ ctx[q].todo \subseteq Waiting(ctx[q])
           /\ \A r \in Rids, s \in Servers : amgr.resources[r] = <<q, s>> => s \in Waiting(ctx[q])
    BY <2>1 DEF CountInv
  <2>3. /\ \A r1, r2 \in Rids : amgr.resources[r1] = amgr.resources[r2] /\ amgr.resources[r1] # NoResource => r1 = r2
        /\ \A q \in Queries : ctx[q].todo \subseteq ctx[q].asked
        /\ \A r \in Rids, q \in Queries, s \in Servers :
             amgr.resources[r] = <<q, s>> => s \in ctx[q].asked \ ctx[q].todo
    BY DEF CountInv
  <2> QED
    BY <2>1, <2>2, <2>3 DEF CountInv
<1>2. AnswerInv'
  BY DEF AnswerInv, Waiting, IsAnswer
<1> QED
  BY <1>1, <1>2

\* The steps that send no query and are not steps of the aggregator's requests.
LEMMA QuietRequests ==
    ASSUME Types, RequestInv, CountInv, AnswerInv, Next,
           \/ Connecting
           \/ \E w \in writes : Deliver(w) \/ WriteAborted(w)
           \/ \E link \in Links : Break(link)
           \/ \E i \in Slots : GiveUp(i)
           \/ NothingToWaitFor \/ StartWaiting \/ ClientExpire
           \/ \E t \in todo : Call(t) \/ Decrease(t) \/ Notify(t)
           \/ \E q \in Queries : SearchUnconnected(q)
           \/ \E w \in failed : ClientSendFailed(w)
           \/ \E w \in posted : ClientResponse(w) \/ Search(w)
    PROVE  RequestInv' /\ CountInv' /\ AnswerInv'
<1> DEFINE Still == /\ UNCHANGED <<amgr, ctx>> /\ sent \subseteq sent' /\ sendFailed \subseteq sendFailed'
                    /\ writes' \subseteq writes
                    /\ \A w \in posted' : w \in posted \/ (w \in writes /\ w \notin writes')
                    /\ \A w \in failed' : w \in failed \/ w \in writes
<1>1. ASSUME NEW w, Deliver(w) \/ WriteAborted(w) \/ WriteFails(w) \/ ClientSendFailed(w) \/ ClientResponse(w)
      PROVE  Still
  BY <1>1 DEF Deliver, WriteAborted, WriteFails, ClientSendFailed, ClientResponse, clientVars, aggVars
<1>2. ASSUME NEW x, Break(x) \/ GiveUp(x) \/ Redial(x) \/ Dial(x) \/ DialFails(x) \/ NoteConnection(x)
      PROVE  Still
  BY <1>2 DEF Break, GiveUp, Redial, Dial, DialFails, NoteConnection, socketVars, clientVars, aggVars
<1>3. ASSUME NEW x, Call(x) \/ Decrease(x) \/ Notify(x) \/ SearchUnconnected(x)
      PROVE  Still
  BY <1>3 DEF Call, Decrease, Notify, SearchUnconnected, socketVars, aggVars
<1>4. ASSUME NEW link, NEW side, ReadFails(link, side)
      PROVE  Still
  BY <1>4 DEF ReadFails
<1>5. ASSUME ConnectToPendingServers \/ NothingToWaitFor \/ StartWaiting \/ ClientExpire
      PROVE  Still
  BY <1>5 DEF ConnectToPendingServers, NothingToWaitFor, StartWaiting, ClientExpire, socketVars, clientVars, aggVars
<1>6. ASSUME Still
      PROVE  RequestInv' /\ CountInv' /\ AnswerInv'
  <2>1. RequestInv'
    BY <1>6, RequestStep
  <2>2. \A w \in writes' \cup posted' : w \in writes \cup posted
    BY <1>6
  <2> QED
    BY <1>6, <2>1, <2>2, AggIdleStep
<1>7. ASSUME NEW w \in posted, Search(w)
      PROVE  RequestInv' /\ CountInv' /\ AnswerInv'
  <2>1. /\ w.link[1] = "agg" /\ Response(w) \in Packets
        /\ Response(w).link = w.link /\ Response(w).side = "far"
        /\ Response(w).msg.q = w.msg.q /\ Response(w).msg.rid = w.msg.rid
        /\ Response(w).msg.results \subseteq Servers \X {w.msg.q}
        /\ writes' \subseteq writes \cup {Response(w)}
        /\ posted' = posted \ {w}
        /\ UNCHANGED <<failed, myClientVars, amgr, ctx, sendFailed>>
    BY <1>7, SearchEffect
  <2>2. sent' = sent
    BY <2>1 DEF myClientVars
  <2>3. ~IsRequest(w) /\ ~IsRequest(Response(w)) /\ ~IsAnswer(Response(w)) /\ ctx[Response(w).msg.q].used
    BY <2>1 DEF IsRequest, IsAnswer, RequestInv
  <2>4. RequestInv'
    BY <2>1, <2>2, <2>3, RequestStep
  <2> QED
    BY <2>1, <2>3, <2>4, AggIdleStep
<1> HIDE DEF Still
<1> QED
  BY <1>1, <1>2, <1>3, <1>4, <1>5, <1>6, <1>7 DEF Connecting

LEMMA SendQueryRequests ==
    ASSUME Types, RequestInv, CountInv, AnswerInv, NEW q \in Queries, NEW i \in Slots, SendQuery(q, i)
    PROVE  RequestInv' /\ CountInv' /\ AnswerInv'
<1> DEFINE m == [link |-> <<"client", slot[i]>>, side |-> "near", msg |-> Message("request", AddedId(cmgr), q, {})]
<1>1. /\ q \notin sent /\ sent' = sent \cup {q}
      /\ writes' \subseteq writes \cup {m}
      /\ sendFailed \subseteq sendFailed'
      /\ UNCHANGED <<posted, failed, amgr, ctx>>
  BY DEF SendQuery, Write, aggVars
<1>2. IsRequest(m) /\ m.msg.q = q /\ ~IsAnswer(m)
  BY DEF IsRequest, IsAnswer, Message
<1> HIDE DEF m
<1>3. ~ctx[q].used
  BY <1>1 DEF RequestInv
<1>4. CountInv' /\ AnswerInv'
  BY <1>1, <1>2, AggIdleStep
<1>5. \A w \in writes \cup posted : IsRequest(w) => w.msg.q # q
  BY <1>1 DEF RequestInv
<1>6. \A w \in writes', v \in posted' : IsRequest(w) /\ IsRequest(v) => w.msg.q # v.msg.q
  BY <1>1, <1>2, <1>5 DEF RequestInv
<1>7. \A w, v \in writes' : IsRequest(w) /\ IsRequest(v) /\ w.msg.q = v.msg.q => w = v
  BY <1>1, <1>2, <1>5 DEF RequestInv
<1>8. \A w \in writes' \cup posted' : /\ IsRequest(w) => w.msg.q \in sent' /\ ~ctx'[w.msg.q].used
                                      /\ ~IsRequest(w) => ctx'[w.msg.q].used
  BY <1>1, <1>2, <1>3 DEF RequestInv
<1>9. RequestInv'
  BY <1>1, <1>6, <1>7, <1>8 DEF RequestInv, IsRequest
<1> QED
  BY <1>4, <1>9
\* CountInv for one query, of a context and a set of registered callbacks.
Counted(c, q, resources) ==
    /\ c.count = Cardinality(Waiting(c))
    /\ c.todo \subseteq Waiting(c)
    /\ \A r \in Rids, s \in Servers : resources[r] = <<q, s>> => s \in Waiting(c)

Registered(c, q, resources) ==
    /\ c.todo \subseteq c.asked
    /\ \A r \in Rids, s \in Servers : resources[r] = <<q, s>> => s \in c.asked \ c.todo

LEMMA CountInvParts ==
    CountInv <=>
      /\ \A r1, r2 \in Rids : amgr.resources[r1] = amgr.resources[r2] /\ amgr.resources[r1] # NoResource => r1 = r2
      /\ \A q \in Queries : Registered(ctx[q], q, amgr.resources)
      /\ \A q \in Queries : <<"agg", q>> \notin sendFailed => Counted(ctx[q], q, amgr.resources)
BY DEF CountInv, Registered, Counted

LEMMA CountInvPrimed ==
    ASSUME \A r1, r2 \in Rids : amgr'.resources[r1] = amgr'.resources[r2] /\ amgr'.resources[r1] # NoResource => r1 = r2,
           \A q \in Queries : Registered(ctx'[q], q, amgr'.resources),
           \A q \in Queries : <<"agg", q>> \notin sendFailed' => Counted(ctx'[q], q, amgr'.resources)
    PROVE  CountInv'
<1>1. (CountInv <=>
      /\ \A r1, r2 \in Rids : amgr.resources[r1] = amgr.resources[r2] /\ amgr.resources[r1] # NoResource => r1 = r2
      /\ \A q \in Queries : Registered(ctx[q], q, amgr.resources)
      /\ \A q \in Queries : <<"agg", q>> \notin sendFailed => Counted(ctx[q], q, amgr.resources))'
  BY CountInvParts, PTL
<1> QED
  BY <1>1

LEMMA SelectRequests ==
    ASSUME Types, RequestInv, CountInv, AnswerInv, NEW w \in posted, SelectServers(w)
    PROVE  RequestInv' /\ CountInv' /\ AnswerInv'
<1> DEFINE q == w.msg.q
<1>0. w \in Packets /\ q \in Queries /\ ctx \in [Queries -> Contexts]
  BY DEF Types, PacketInv, AggInv, Packets
<1>1. /\ IsRequest(w) /\ posted' = posted \ {w}
      /\ UNCHANGED <<writes, failed, sendFailed, amgr, sent>>
  BY DEF SelectServers, clientVars, IsRequest
<1>2. PICK asked \in SUBSET Servers :
        /\ ctx' = [ctx EXCEPT ![q] = Selected(w, asked)]
        /\ IsFiniteSet(asked) /\ Cardinality(asked) \in 0..(Wrap - 1)
  BY SelectEffect DEF Types, SocketInv
<1> DEFINE c == Selected(w, asked)
<1>3. /\ c.used = TRUE /\ c.todo = asked /\ c.asked = asked /\ c.count = Cardinality(asked)
      /\ \A s \in Servers : c.result[s] = {}
  BY DEF Selected
<1>4. Waiting(c) = asked
  BY <1>3 DEF Waiting
<1>5. q \in sent /\ ~ctx[q].used /\ ctx[q] = NoContext /\ ctx[q].asked = {}
  <2>1. q \in sent /\ ~ctx[q].used /\ ctx[q] = NoContext
    BY <1>0, <1>1 DEF RequestInv
  <2>2. NoContext.asked = {}
    BY DEF NoContext
  <2> QED
    BY <2>1, <2>2
<1> HIDE DEF c, q
<1>6. ctx'[q] = c /\ \A p \in Queries : p # q => ctx'[p] = ctx[p]
  BY <1>0, <1>2 DEF c
<1>7. \A v \in writes \cup posted' : v \in Packets /\ v.msg.q \in Queries /\ (IsRequest(v) => v.msg.q # q)
  <2>1. \A v \in writes \cup posted' : v \in Packets
    BY <1>1 DEF Types, PacketInv
  <2>2. \A v \in writes \cup posted' : IsRequest(v) => v.msg.q # q
    BY <1>1 DEF RequestInv, q
  <2> QED
    BY <2>1, <2>2 DEF Packets
<1>8. \A v \in writes \cup posted : ~IsRequest(v) => v.msg.q # q
  BY <1>5 DEF RequestInv
<1>9. RequestInv'
  <2>1. /\ \A x \in writes', v \in posted' : IsRequest(x) /\ IsRequest(v) => x.msg.q # v.msg.q
        /\ \A x, v \in writes' : IsRequest(x) /\ IsRequest(v) /\ x.msg.q = v.msg.q => x = v
        /\ \A x, v \in posted' : IsRequest(x) /\ IsRequest(v) /\ x.msg.q = v.msg.q => x = v
    BY <1>1 DEF RequestInv
  <2>2. \A v \in writes' \cup posted' : /\ IsRequest(v) => v.msg.q \in sent' /\ ~ctx'[v.msg.q].used
                                        /\ ~IsRequest(v) => ctx'[v.msg.q].used
    BY <1>1, <1>3, <1>6, <1>7 DEF RequestInv
  <2>3. \A v \in failed' : v.link[1] = "agg" => ctx'[v.msg.q].used
    <3>1. \A v \in failed : v.msg.q \in Queries
      BY DEF Types, PacketInv, Packets
    <3> QED
      BY <1>1, <1>3, <1>6, <3>1 DEF RequestInv
  <2>4. \A p \in Queries : IF ctx'[p].used THEN p \in sent' ELSE ctx'[p] = NoContext
    BY <1>1, <1>3, <1>5, <1>6 DEF RequestInv
  <2> QED
    BY <2>1, <2>2, <2>3, <2>4 DEF RequestInv, IsRequest
<1>10. CountInv'
  <2>0. /\ \A r1, r2 \in Rids : amgr.resources[r1] = amgr.resources[r2] /\ amgr.resources[r1] # NoResource => r1 = r2
        /\ \A p \in Queries : Registered(ctx[p], p, amgr.resources)
        /\ \A p \in Queries : <<"agg", p>> \notin sendFailed => Counted(ctx[p], p, amgr.resources)
    BY CountInvParts
  <2>1. \A r \in Rids, s \in Servers : amgr.resources[r] # <<q, s>>
    <3>1. Registered(ctx[q], q, amgr.resources)
      BY <2>0, <1>0
    <3> QED
      BY <1>5, <3>1 DEF Registered
  <2>2. Registered(c, q, amgr.resources) /\ Counted(c, q, amgr.resources)
    BY <1>3, <1>4, <2>1 DEF Registered, Counted
  <2>3. \A p \in Queries : Registered(ctx'[p], p, amgr'.resources)
    BY <1>1, <1>6, <2>0, <2>2
  <2>4. \A p \in Queries : <<"agg", p>> \notin sendFailed' => Counted(ctx'[p], p, amgr'.resources)
    BY <1>1, <1>6, <2>0, <2>2
  <2> QED
    BY <1>1, <2>0, <2>3, <2>4, CountInvPrimed
<1>11. AnswerInv'
  <2>1. ASSUME NEW v \in writes' \cup posted', IsAnswer(v), <<"agg", v.msg.q>> \notin sendFailed'
        PROVE  Waiting(ctx'[v.msg.q]) = {}
    <3>1. v \in writes \cup posted /\ ~IsRequest(v) /\ v.msg.q \in Queries
      BY <1>1, <1>7, <2>1 DEF IsAnswer, IsRequest
    <3>2. ctx'[v.msg.q] = ctx[v.msg.q]
      BY <1>6, <1>8, <3>1
    <3> QED
      BY <1>1, <2>1, <3>1, <3>2 DEF AnswerInv
  <2> QED
    BY <2>1 DEF AnswerInv, IsAnswer
<1> QED
  BY <1>9, <1>10, <1>11

\* A failed send: the counter is no longer the number of servers waited for.
LEMMA FinishFailed ==
    ASSUME Types, RequestInv, CountInv, AnswerInv, NEW q \in Queries, NEW s, ctx[q].used,
           NEW c \in Contexts, c.used, c.asked = ctx[q].asked, c.todo \subseteq ctx[q].todo, Finish(q, c, s, {}),
           sendFailed' = sendFailed \cup {<<"agg", q>>}, posted' = posted, failed' \subseteq failed, sent' = sent,
           amgr' \in Managers(Queries \X Servers),
           \A r1, r2 \in Rids : amgr'.resources[r1] = amgr'.resources[r2] /\ amgr'.resources[r1] # NoResource => r1 = r2,
           \A r \in Rids : amgr'.resources[r] = amgr.resources[r]
                           \/ \E v \in c.asked \ c.todo : amgr'.resources[r] = <<q, v>>
    PROVE  RequestInv' /\ CountInv' /\ AnswerInv'
<1> DEFINE a == AnswerTo(q, c, s, {})
           d == Reported(c, s, {})
<1>0. {} \in SUBSET (Servers \X Queries) /\ ctx \in [Queries -> Contexts]
  BY DEF Types, AggInv
<1>1. /\ ctx' = [ctx EXCEPT ![q] = d]
      /\ writes' \subseteq writes \cup {a}
  BY FinishEffect
<1>2. a \in Packets /\ IsAnswer(a) /\ a.msg.q = q
  BY <1>0, AnswerIsPacket
<1>3. d.used = c.used /\ d.todo = c.todo /\ d.asked = c.asked
  <2> DEFINE none == {}
  <2>0. none \in SUBSET (Servers \X Queries) /\ c \in Contexts
    OBVIOUS
  <2> HIDE DEF none
  <2>1. /\ Reported(c, s, none) \in Contexts
        /\ Reported(c, s, none).used = c.used
        /\ Reported(c, s, none).todo = c.todo
        /\ Reported(c, s, none).asked = c.asked
        /\ Reported(c, s, none).rid = c.rid
        /\ Reported(c, s, none).link = c.link
        /\ Reported(c, s, none).count = (c.count + Wrap - 1) % Wrap
        /\ Reported(c, s, none).result = WithResult(c, s, none)
    BY ONLY <2>0, ReportedFields
  <2> QED
    BY <2>1 DEF none
<1> HIDE DEF a, d
<1>4. ctx'[q] = d /\ \A p \in Queries : p # q => ctx'[p] = ctx[p]
  BY <1>0, <1>1
<1>5. RequestInv'
  <2>1. \A p \in Queries : ctx'[p].used = ctx[p].used /\ (ctx[p].used \/ ctx'[p] = ctx[p])
    <3>1. d.used = TRUE /\ ctx[q].used = TRUE
      BY <1>0, <1>3 DEF Contexts
    <3> QED
      BY <1>4, <3>1
  <2>2. \A w \in writes' : w \in writes \/ (w \in Packets /\ ~IsRequest(w) /\ ctx[w.msg.q].used)
    BY <1>1, <1>2 DEF IsRequest, IsAnswer
  <2> QED
    BY <2>1, <2>2, RequestStep
<1>6. CountInv'
  <2>0. /\ \A p \in Queries : Registered(ctx[p], p, amgr.resources)
        /\ \A p \in Queries : <<"agg", p>> \notin sendFailed => Counted(ctx[p], p, amgr.resources)
    BY CountInvParts
  <2>1. \A r \in Rids, p \in Queries, v \in Servers : p # q /\ amgr'.resources[r] = <<p, v>> => amgr.resources[r] = <<p, v>>
    OBVIOUS
  <2>2. ASSUME NEW p \in Queries, p # q
        PROVE  /\ Registered(ctx'[p], p, amgr'.resources)
               /\ <<"agg", p>> \notin sendFailed' => Counted(ctx'[p], p, amgr'.resources)
    <3>1. ctx'[p] = ctx[p] /\ (<<"agg", p>> \notin sendFailed' => <<"agg", p>> \notin sendFailed)
      BY <1>4, <2>2
    <3>2. Registered(ctx[p], p, amgr'.resources)
      BY <2>0, <2>1, <2>2 DEF Registered
    <3>3. <<"agg", p>> \notin sendFailed => Counted(ctx[p], p, amgr'.resources)
      BY <2>0, <2>1, <2>2 DEF Counted
    <3> QED
      BY <3>1, <3>2, <3>3
  <2>3. Registered(d, q, amgr'.resources)
    <3>1. d.todo \subseteq d.asked
      BY <1>3, <2>0 DEF Registered
    <3>2. ASSUME NEW r \in Rids, NEW v \in Servers, amgr'.resources[r] = <<q, v>>
          PROVE  v \in d.asked \ d.todo
      <4>1. CASE amgr.resources[r] = <<q, v>>
        <5>1. v \in ctx[q].asked \ ctx[q].todo
          BY <2>0, <4>1 DEF Registered
        <5> QED
          BY <1>3, <5>1
      <4>2. CASE amgr.resources[r] # <<q, v>>
        BY <1>3, <3>2, <4>2
      <4> QED
        BY <4>1, <4>2
    <3> QED
      BY <3>1, <3>2 DEF Registered
  <2>4. <<"agg", q>> \in sendFailed'
    OBVIOUS
  <2>5. \A p \in Queries : Registered(ctx'[p], p, amgr'.resources)
    BY <1>4, <2>2, <2>3
  <2>6. \A p \in Queries : <<"agg", p>> \notin sendFailed' => Counted(ctx'[p], p, amgr'.resources)
    BY <2>2, <2>4
  <2> QED
    BY <2>5, <2>6, CountInvPrimed
<1>7. AnswerInv'
  <2>1. ASSUME NEW v \in writes' \cup posted', IsAnswer(v), <<"agg", v.msg.q>> \notin sendFailed'
        PROVE  Waiting(ctx'[v.msg.q]) = {}
    <3>1. v.msg.q # q /\ v \in writes \cup posted
      BY <1>1, <1>2, <2>1
    <3>2. v.msg.q \in Queries
      BY <3>1 DEF Types, PacketInv, Packets
    <3> QED
      BY <1>4, <2>1, <3>1, <3>2 DEF AnswerInv
  <2> QED
    BY <2>1 DEF AnswerInv, IsAnswer
<1> QED
  BY <1>5, <1>6, <1>7
LEMMA AskedIsUsed ==
    ASSUME AggInv, RequestInv, NEW q \in Queries, ctx[q].todo # {} \/ ctx[q].asked # {}
    PROVE  ctx[q].used
<1>1. NoContext.todo = {} /\ NoContext.asked = {}
  BY DEF NoContext
<1> QED
  BY <1>1 DEF RequestInv

LEMMA AskRequests ==
    ASSUME Types, RequestInv, CountInv, AnswerInv, NEW q \in Queries, NEW s \in Servers, AskServer(q, s)
    PROVE  RequestInv' /\ CountInv' /\ AnswerInv'
<1> DEFINE c == Taken(q, s)
           x == <<q, s>>
<1>0. amgr \in Managers(Queries \X Servers) /\ ctx \in [Queries -> Contexts] /\ x \in Queries \X Servers
  BY DEF Types, AggInv
<1>1. /\ s \in ctx[q].todo
      /\ amgr' = Add(amgr, x, TRUE)
      /\ \/ /\ Request(q, s) \in Packets
            /\ Request(q, s).link[1] = "agg" /\ Request(q, s).link[2] \in 1..MaxId
            /\ dialed["agg"][Request(q, s).link[2]] \in Servers
            /\ writes' = writes \cup {Request(q, s)}
            /\ ctx' = [ctx EXCEPT ![q] = c]
            /\ UNCHANGED sendFailed
         \/ /\ Finish(q, c, s, {})
            /\ sendFailed' = sendFailed \cup {<<"agg", q>>}
      /\ UNCHANGED <<posted, failed, myClientVars>>
  BY AskEffect
<1>2. sent' = sent
  BY <1>1 DEF myClientVars
<1>3. /\ c \in Contexts /\ c.used = ctx[q].used /\ c.todo = ctx[q].todo \ {s} /\ c.asked = ctx[q].asked
      /\ c.count = ctx[q].count /\ c.result = ctx[q].result
  <2>1. AggInv
    BY DEF Types
  <2> QED
    BY ONLY <2>1, q \in Queries, TakenFields
<1>4. ctx[q].used /\ c.used
  BY <1>1, <1>3, AskedIsUsed DEF Types
<1>5. /\ Add(amgr, x, TRUE) \in Managers(Queries \X Servers)
      /\ AddedId(amgr) \in Rids
      /\ amgr.next # 0 => AddedId(amgr) = amgr.next
      /\ Add(amgr, x, TRUE).next = (AddedId(amgr) + 1) % (MaxRid + 1)
      /\ \A r \in Rids : Add(amgr, x, TRUE).resources[r] =
           IF r = AddedId(amgr) /\ amgr.resources[r] = NoResource THEN x ELSE amgr.resources[r]
  <2> DEFINE R == Queries \X Servers
  <2>1. amgr \in Managers(R) /\ x \in R /\ NoResource \notin R
    BY <1>0, BoundFacts
  <2> HIDE DEF R, x
  <2>2. /\ Add(amgr, x, TRUE) \in Managers(R)
        /\ AddedId(amgr) \in Rids
        /\ amgr.next # 0 => AddedId(amgr) = amgr.next
        /\ Add(amgr, x, TRUE).next = (AddedId(amgr) + 1) % (MaxRid + 1)
        /\ \A r \in Rids : Add(amgr, x, TRUE).resources[r] =
             IF r = AddedId(amgr) /\ amgr.resources[r] = NoResource THEN x ELSE amgr.resources[r]
    BY ONLY <2>1, AddManager
  <2> QED
    BY <2>2 DEF R
<1>6. /\ amgr' \in Managers(Queries \X Servers)
      /\ \A r \in Rids : amgr'.resources[r] = amgr.resources[r] \/ (r = AddedId(amgr) /\ amgr'.resources[r] = x)
  BY <1>1, <1>5
<1>7. /\ \A r1, r2 \in Rids : amgr.resources[r1] = amgr.resources[r2] /\ amgr.resources[r1] # NoResource => r1 = r2
      /\ \A p \in Queries : Registered(ctx[p], p, amgr.resources)
      /\ \A p \in Queries : <<"agg", p>> \notin sendFailed => Counted(ctx[p], p, amgr.resources)
  BY CountInvParts
<1>8. s \in ctx[q].asked /\ \A r \in Rids : amgr.resources[r] # x
  BY <1>1, <1>7 DEF Registered
<1> HIDE DEF c
<1>9. \A r1, r2 \in Rids : amgr'.resources[r1] = amgr'.resources[r2] /\ amgr'.resources[r1] # NoResource => r1 = r2
  <2> HIDE DEF x
  <2> QED
    BY <1>6, <1>7, <1>8
<1>10. CASE /\ Request(q, s) \in Packets
            /\ Request(q, s).link[1] = "agg"
            /\ writes' = writes \cup {Request(q, s)}
            /\ ctx' = [ctx EXCEPT ![q] = c]
            /\ UNCHANGED sendFailed
  <2> DEFINE m == Request(q, s)
  <2>1. ~IsRequest(m) /\ ~IsAnswer(m) /\ m.msg.q = q
    BY <1>10 DEF IsRequest, IsAnswer, Request, Message
  <2>2. writes' = writes \cup {m} /\ m \in Packets
    BY <1>10
  <2> HIDE DEF m
  <2>3. ctx'[q] = c /\ \A p \in Queries : p # q => ctx'[p] = ctx[p]
    BY <1>0, <1>10
  <2>4. RequestInv'
    <3>1. \A p \in Queries : ctx'[p].used = ctx[p].used /\ (ctx[p].used \/ ctx'[p] = ctx[p])
      BY <1>3, <1>4, <2>3
    <3>2. \A w \in writes' : w \in writes \/ (w \in Packets /\ ~IsRequest(w) /\ ctx[w.msg.q].used)
      BY <1>4, <2>1, <2>2
    <3> QED
      BY <1>1, <1>2, <3>1, <3>2, RequestStep
  <2>5. Waiting(c) = Waiting(ctx[q])
    BY <1>3 DEF Waiting
  <2>6. CountInv'
    <3>1. ASSUME NEW p \in Queries, p # q
          PROVE  /\ Registered(ctx'[p], p, amgr'.resources)
                 /\ <<"agg", p>> \notin sendFailed' => Counted(ctx'[p], p, amgr'.resources)
      <4>1. \A r \in Rids, v \in Servers : amgr'.resources[r] = <<p, v>> => amgr.resources[r] = <<p, v>>
        BY <1>6, <3>1
      <4>2. Registered(ctx[p], p, amgr'.resources)
        BY <1>7, <4>1 DEF Registered
      <4>3. <<"agg", p>> \notin sendFailed => Counted(ctx[p], p, amgr'.resources)
        BY <1>7, <4>1 DEF Counted
      <4> QED
        BY <1>10, <2>3, <3>1, <4>2, <4>3
    <3>2. \A r \in Rids, v \in Servers : amgr'.resources[r] = <<q, v>> => amgr.resources[r] = <<q, v>> \/ v = s
      BY <1>6
    <3>3. Registered(c, q, amgr'.resources)
      BY <1>3, <1>7, <1>8, <3>2 DEF Registered
    <3>4. <<"agg", q>> \notin sendFailed => Counted(c, q, amgr'.resources)
      <4>1. ASSUME <<"agg", q>> \notin sendFailed
            PROVE  Counted(c, q, amgr'.resources)
        <5>1. Counted(ctx[q], q, amgr.resources)
          BY <1>7, <4>1
        <5>2. s \in Waiting(ctx[q])
          BY <1>1, <5>1 DEF Counted
        <5> QED
          BY <1>3, <2>5, <3>2, <5>1, <5>2 DEF Counted
      <4> QED
        BY <4>1
    <3>5. \A p \in Queries : Registered(ctx'[p], p, amgr'.resources)
      BY <2>3, <3>1, <3>3
    <3>6. \A p \in Queries : <<"agg", p>> \notin sendFailed' => Counted(ctx'[p], p, amgr'.resources)
      BY <1>10, <2>3, <3>1, <3>4
    <3> QED
      BY <1>9, <3>5, <3>6, CountInvPrimed
  <2>7. AnswerInv'
    <3>1. ASSUME NEW v \in writes' \cup posted', IsAnswer(v), <<"agg", v.msg.q>> \notin sendFailed'
          PROVE  Waiting(ctx'[v.msg.q]) = {}
      <4>1. v \in writes \cup posted
        BY <1>1, <2>1, <2>2, <3>1
      <4>2. v.msg.q \in Queries
        BY <4>1 DEF Types, PacketInv, Packets
      <4>3. Waiting(ctx[v.msg.q]) = {}
        BY <1>10, <3>1, <4>1 DEF AnswerInv
      <4> QED
        BY <2>3, <2>5, <4>2, <4>3
    <3> QED
      BY <3>1 DEF AnswerInv, IsAnswer
  <2> QED
    BY <2>4, <2>6, <2>7
<1>11. CASE Finish(q, c, s, {}) /\ sendFailed' = sendFailed \cup {<<"agg", q>>}
  <2>1. c.todo \subseteq ctx[q].todo
    BY <1>3
  <2>2. \A r \in Rids : amgr'.resources[r] = amgr.resources[r]
                        \/ \E v \in c.asked \ c.todo : amgr'.resources[r] = <<q, v>>
    BY <1>3, <1>6, <1>8
  <2> QED
    BY <1>1, <1>2, <1>3, <1>4, <1>6, <1>9, <1>11, <2>1, <2>2, FinishFailed
<1> QED
  BY <1>1, <1>10, <1>11

LEMMA AggSendFailedRequests ==
    ASSUME Types, RequestInv, CountInv, AnswerInv, NEW w \in failed, AggSendFailed(w)
    PROVE  RequestInv' /\ CountInv' /\ AnswerInv'
<1> DEFINE q == w.msg.q
           s == dialed["agg"][w.link[2]]
           c == ctx[q]
<1>1. /\ w.link[1] = "agg" /\ failed' \subseteq failed /\ Finish(q, c, s, {})
      /\ sendFailed' = sendFailed \cup {<<"agg", q>>}
      /\ UNCHANGED <<posted, amgr, sent>>
  BY DEF AggSendFailed, NoResults, clientVars
<1>2. q \in Queries /\ c \in Contexts /\ c.used
  <2>1. w \in Packets
    BY DEF Types, PacketInv
  <2>2. q \in Queries
    BY <2>1 DEF Packets
  <2> QED
    BY <1>1, <2>2 DEF RequestInv, Types, AggInv
<1>3. amgr' \in Managers(Queries \X Servers)
  BY <1>1 DEF Types, AggInv
<1>4. \A r1, r2 \in Rids : amgr'.resources[r1] = amgr'.resources[r2] /\ amgr'.resources[r1] # NoResource => r1 = r2
  BY <1>1 DEF CountInv
<1>5. \A r \in Rids : amgr'.resources[r] = amgr.resources[r]
                        \/ \E v \in c.asked \ c.todo : amgr'.resources[r] = <<q, v>>
  BY <1>1
<1> HIDE DEF q, s
<1> QED
  BY <1>1, <1>2, <1>3, <1>4, <1>5, FinishFailed
LEMMA CountsDown ==
    ASSUME NEW n \in 1..(Wrap - 1)
    PROVE  (n + Wrap - 1) % Wrap = n - 1
<1>1. Wrap \in Nat /\ Wrap >= 2 /\ n - 1 \in 0..(Wrap - 1)
  BY BoundFacts
<1>2. n + Wrap - 1 = (n - 1) + 1 * Wrap
  BY <1>1
<1> QED
  BY <1>1, <1>2

\* A registered callback is called and removed.
LEMMA CallBackRequests ==
    ASSUME Types, RequestInv, CountInv, AnswerInv, NEW rid, NEW results \in SUBSET (Servers \X Queries),
           CallBack(rid, results),
           \A r \in Rids : amgr'.resources[r] = IF r = rid THEN NoResource ELSE amgr.resources[r],
           posted' \subseteq posted, failed' = failed, sendFailed' = sendFailed, sent' = sent
    PROVE  RequestInv' /\ CountInv' /\ AnswerInv'
<1>1. /\ \A r1, r2 \in Rids : amgr.resources[r1] = amgr.resources[r2] /\ amgr.resources[r1] # NoResource => r1 = r2
      /\ \A p \in Queries : Registered(ctx[p], p, amgr.resources)
      /\ \A p \in Queries : <<"agg", p>> \notin sendFailed => Counted(ctx[p], p, amgr.resources)
  BY CountInvParts
<1>2. \A r1, r2 \in Rids : amgr'.resources[r1] = amgr'.resources[r2] /\ amgr'.resources[r1] # NoResource => r1 = r2
  BY <1>1
<1>3. \A p \in Queries, v \in Servers : <<p, v>> # NoResource
  BY BoundFacts
<1>4. \A r \in Rids, p \in Queries, v \in Servers :
         amgr'.resources[r] = <<p, v>> => r # rid /\ amgr.resources[r] = <<p, v>>
  BY <1>3
<1>5. CASE ~Pending(amgr, rid)
  <2>1. ctx' = ctx /\ writes' = writes
    BY <1>5 DEF CallBack
  <2>2. RequestInv'
    BY <2>1, RequestStep
  <2>3. ASSUME NEW p \in Queries
        PROVE  /\ Registered(ctx[p], p, amgr'.resources)
               /\ <<"agg", p>> \notin sendFailed => Counted(ctx[p], p, amgr'.resources)
    <3>1. Registered(ctx[p], p, amgr.resources)
      BY <1>1
    <3>2. <<"agg", p>> \notin sendFailed => Counted(ctx[p], p, amgr.resources)
      BY <1>1
    <3> QED
      BY <1>4, <3>1, <3>2 DEF Registered, Counted
  <2>4. CountInv'
    BY <1>2, <2>1, <2>3, CountInvPrimed
  <2>5. AnswerInv'
    BY <2>1 DEF AnswerInv, IsAnswer, Waiting
  <2> QED
    BY <2>2, <2>4, <2>5
<1>6. CASE Pending(amgr, rid)
  <2> DEFINE q == amgr.resources[rid][1]
             s == amgr.resources[rid][2]
             c == ctx[q]
             d == Reported(c, s, results)
             a == AnswerTo(q, c, s, results)
  <2>1. /\ rid \in Rids /\ q \in Queries /\ s \in Servers /\ amgr.resources[rid] = <<q, s>>
        /\ Finish(q, c, s, results)
    BY <1>6 DEF CallBack, Pending, Types, AggInv, Managers
  <2>2. ctx \in [Queries -> Contexts] /\ c \in Contexts
    BY <2>1 DEF Types, AggInv
  <2>3. /\ s \in c.asked /\ s \notin c.todo /\ c.used
    <3>1. s \in c.asked /\ s \notin c.todo
      BY <1>1, <2>1 DEF Registered
    <3> QED
      BY <2>1, <3>1, AskedIsUsed DEF Types
  <2>4. /\ ctx' = [ctx EXCEPT ![q] = d]
        /\ writes' = IF c.count <= 1 /\ c.link \in far THEN writes \cup {a} ELSE writes
    BY <2>1, FinishEffect
  <2>5. /\ a \in Packets
        /\ IsAnswer(a)
        /\ a.msg.q = q
    BY <2>1, <2>2, AnswerIsPacket
  <2>6. /\ Reported(c, s, results) \in Contexts
        /\ Reported(c, s, results).used = c.used
        /\ Reported(c, s, results).todo = c.todo
        /\ Reported(c, s, results).asked = c.asked
        /\ Reported(c, s, results).rid = c.rid
        /\ Reported(c, s, results).link = c.link
        /\ Reported(c, s, results).count = (c.count + Wrap - 1) % Wrap
        /\ Reported(c, s, results).result = WithResult(c, s, results)
    <3> HIDE DEF c, s
    <3>1. results \in SUBSET (Servers \X Queries)
      OBVIOUS
    <3> QED
      BY ONLY <2>2, <3>1, ReportedFields
  <2>7. /\ d.used = c.used /\ d.todo = c.todo /\ d.asked = c.asked /\ d.count = (c.count + Wrap - 1) % Wrap
        /\ d.result = [c.result EXCEPT ![s] = {results}]
    BY <2>6 DEF WithResult
  <2> HIDE DEF a, d
  <2>8. ctx'[q] = d /\ \A p \in Queries : p # q => ctx'[p] = ctx[p]
    BY <2>1, <2>2, <2>4
  <2> HIDE DEF q, s
  <2>9. Waiting(d) = Waiting(c) \ {s}
    <3>1. c.asked \subseteq Servers /\ c.result \in [Servers -> SUBSET SUBSET (Servers \X Queries)]
      BY <2>2 DEF Contexts
    <3>2. \A v \in Servers : d.result[v] = IF v = s THEN {results} ELSE c.result[v]
      BY <2>1, <2>7, <3>1
    <3> HIDE DEF c
    <3>3. \A v \in c.asked : d.result[v] = {} <=> (v # s /\ c.result[v] = {})
      BY <3>1, <3>2
    <3> QED
      BY <2>7, <3>3 DEF Waiting
  <2>10. IsFiniteSet(Waiting(c))
    <3>1. Waiting(c) \subseteq Servers
      BY <2>2 DEF Contexts, Waiting
    <3> QED
      BY <3>1, BoundFacts, FS_Subset
  <2>11. RequestInv'
    <3>1. \A p \in Queries : ctx'[p].used = ctx[p].used /\ (ctx[p].used \/ ctx'[p] = ctx[p])
      BY <2>3, <2>7, <2>8
    <3>2. \A w \in writes' : w \in writes \/ (w \in Packets /\ ~IsRequest(w) /\ ctx[w.msg.q].used)
      BY <2>3, <2>4, <2>5 DEF IsRequest, IsAnswer
    <3> QED
      BY <3>1, <3>2, RequestStep
  <2>12. ASSUME <<"agg", q>> \notin sendFailed
         PROVE  /\ Counted(d, q, amgr'.resources)
                /\ s \in Waiting(c)
                /\ c.count <= 1 => Waiting(d) = {}
    <3>1. Counted(c, q, amgr.resources)
      BY <1>1, <2>1, <2>12
    <3>2. s \in Waiting(c)
      BY <2>1, <3>1 DEF Counted
    <3>3. /\ Cardinality(Waiting(d)) = Cardinality(Waiting(c)) - 1 /\ IsFiniteSet(Waiting(d))
          /\ Cardinality(Waiting(c)) \in Nat /\ Cardinality(Waiting(d)) \in Nat
      <4>1. IsFiniteSet(Waiting(d)) /\ Cardinality(Waiting(d)) = Cardinality(Waiting(c)) - 1
        BY <2>9, <2>10, <3>2, FS_RemoveElement
      <4> QED
        BY <2>10, <4>1, FS_CardinalityType
    <3>4. c.count \in 1..(Wrap - 1) /\ c.count = Cardinality(Waiting(c))
      <4>1. c.count \in 0..(Wrap - 1)
        BY <2>2 DEF Contexts
      <4>2. c.count = Cardinality(Waiting(c))
        BY <3>1 DEF Counted
      <4> HIDE DEF c
      <4> QED
        BY <3>3, <4>1, <4>2, BoundFacts
    <3>5. d.count = Cardinality(Waiting(d))
      <4>1. (c.count + Wrap - 1) % Wrap = c.count - 1
        BY <3>4, CountsDown
      <4> QED
        BY <2>7, <3>3, <3>4, <4>1
    <3>6. d.todo \subseteq Waiting(d)
      BY <2>3, <2>7, <2>9, <3>1 DEF Counted
    <3>7. ASSUME NEW r \in Rids, NEW v \in Servers, amgr'.resources[r] = <<q, v>>
          PROVE  v \in Waiting(d)
      <4>1. r # rid /\ amgr.resources[r] = <<q, v>>
        BY <1>4, <2>1, <3>7
      <4>2. v # s
        BY <1>1, <1>3, <2>1, <4>1
      <4>3. v \in Waiting(c)
        BY <3>1, <4>1 DEF Counted
      <4> QED
        BY <2>9, <4>2, <4>3
    <3>8. c.count <= 1 => Waiting(d) = {}
      BY <3>3, <3>4, FS_EmptySet
    <3> QED
      BY <3>2, <3>5, <3>6, <3>7, <3>8 DEF Counted
  <2>13. ASSUME NEW p \in Queries, p # q
         PROVE  /\ Registered(ctx[p], p, amgr'.resources)
                /\ <<"agg", p>> \notin sendFailed => Counted(ctx[p], p, amgr'.resources)
    <3>1. Registered(ctx[p], p, amgr.resources)
      BY <1>1
    <3>2. <<"agg", p>> \notin sendFailed => Counted(ctx[p], p, amgr.resources)
      BY <1>1
    <3> QED
      BY <1>4, <3>1, <3>2 DEF Registered, Counted
  <2>14. Registered(d, q, amgr'.resources)
    <3>1. Registered(c, q, amgr.resources)
      BY <1>1, <2>1
    <3> QED
      BY <1>4, <2>1, <2>7, <3>1 DEF Registered
  <2>15. CountInv'
    <3>1. \A p \in Queries : Registered(ctx'[p], p, amgr'.resources)
      BY <2>8, <2>13, <2>14
    <3>2. \A p \in Queries : <<"agg", p>> \notin sendFailed' => Counted(ctx'[p], p, amgr'.resources)
      BY <2>8, <2>12, <2>13
    <3> QED
      BY <1>2, <3>1, <3>2, CountInvPrimed
  <2>16. AnswerInv'
    <3>1. ASSUME NEW v \in writes' \cup posted', IsAnswer(v), <<"agg", v.msg.q>> \notin sendFailed'
          PROVE  Waiting(ctx'[v.msg.q]) = {}
      <4>1. CASE v \in writes \cup posted
        <5>1. v.msg.q \in Queries
          BY <4>1 DEF Types, PacketInv, Packets
        <5>2. Waiting(ctx[v.msg.q]) = {}
          BY <3>1, <4>1 DEF AnswerInv
        <5>3. v.msg.q # q
          BY <2>12, <3>1, <5>2
        <5> QED
          BY <2>8, <5>1, <5>2, <5>3
      <4>2. CASE v \notin writes \cup posted
        <5>1. c.count <= 1 /\ v = a
          BY <2>4, <4>2
        <5> QED
          BY <2>5, <2>8, <2>12, <3>1, <5>1
      <4> QED
        BY <4>1, <4>2
    <3> QED
      BY <3>1 DEF AnswerInv, IsAnswer
  <2> QED
    BY <2>11, <2>15, <2>16
<1> QED
  BY <1>5, <1>6

AggCore == Types /\ RequestInv /\ CountInv /\ AnswerInv

LEMMA NextAggCore ==
    ASSUME AggCore, [Next]_vars
    PROVE  AggCore'
<1>0. Types /\ RequestInv /\ CountInv /\ AnswerInv
  BY DEF AggCore
<1>1. Types'
  BY <1>0, NextTypes
<1>2. CASE UNCHANGED vars
  <2>1. UNCHANGED <<writes, posted, failed, amgr, ctx, sent, sendFailed>>
    BY <1>2 DEF vars, socketVars, clientVars, aggVars
  <2>2. RequestInv'
    BY <1>0, <2>1, RequestStep
  <2>3. CountInv' /\ AnswerInv'
    BY <1>0, <2>1, AggIdleStep
  <2> QED
    BY <1>1, <2>2, <2>3 DEF AggCore
<1>3. ASSUME NEW w \in posted, AggResponse(w)
      PROVE  RequestInv' /\ CountInv' /\ AnswerInv'
  <2>1. /\ amgr' = GetAndRemove(amgr, w.msg.rid) /\ CallBack(w.msg.rid, w.msg.results)
        /\ posted' \subseteq posted /\ failed' = failed /\ sendFailed' = sendFailed /\ sent' = sent
    BY <1>3 DEF AggResponse, clientVars
  <2>2. w.msg.results \in SUBSET (Servers \X Queries)
    BY <1>0 DEF Types, PacketInv, Packets
  <2>3. \A r \in Rids : amgr'.resources[r] = IF r = w.msg.rid THEN NoResource ELSE amgr.resources[r]
    BY <1>0, <2>1, GetAndRemoveManager DEF Types, AggInv
  <2> QED
    BY <1>0, <2>1, <2>2, <2>3, CallBackRequests
<1>4. ASSUME AggExpire
      PROVE  RequestInv' /\ CountInv' /\ AnswerInv'
  <2>1. /\ CanExpire(amgr) /\ amgr' = Expire(amgr) /\ CallBack(ExpiredId(amgr), NoResults)
        /\ posted' \subseteq posted /\ failed' = failed /\ sendFailed' = sendFailed /\ sent' = sent
    BY <1>4 DEF AggExpire, clientVars
  <2>2. NoResults \in SUBSET (Servers \X Queries)
    BY DEF NoResults
  <2>3. \A r \in Rids : amgr'.resources[r] = IF r = ExpiredId(amgr) THEN NoResource ELSE amgr.resources[r]
    BY <1>0, <2>1, ExpireManager DEF Types, AggInv
  <2> QED
    BY <1>0, <2>1, <2>2, <2>3, CallBackRequests
<1>5. CASE Next
  <2>1. RequestInv' /\ CountInv' /\ AnswerInv'
    BY <1>0, <1>3, <1>4, <1>5, NextSplits, QuietRequests, SendQueryRequests, SelectRequests, AskRequests,
       AggSendFailedRequests DEF Passive
  <2> QED
    BY <1>1, <2>1 DEF AggCore
<1> QED
  BY <1>2, <1>5

LEMMA InitAggCore ==
    ASSUME Init
    PROVE  AggCore
<1>1. /\ writes = {} /\ failed = {} /\ posted = {} /\ amgr = NewManager /\ ctx = [q \in Queries |-> NoContext]
  BY DEF Init
<1>2. /\ NoContext.used = FALSE /\ NoContext.todo = {} /\ NoContext.asked = {} /\ NoContext.count = 0
  BY DEF NoContext
<1>3. \A r \in Rids : NewManager.resources[r] = NoResource
  BY DEF NewManager
<1>4. RequestInv
  BY <1>1, <1>2 DEF RequestInv
<1>5. AnswerInv
  BY <1>1 DEF AnswerInv
<1>6. Waiting(NoContext) = {} /\ Cardinality(Waiting(NoContext)) = 0
  <2>1. Waiting(NoContext) = {}
    BY <1>2 DEF Waiting
  <2> QED
    BY <2>1, FS_EmptySet
<1>7. CountInv
  <2>1. \A p \in Queries, s \in Servers, r \in Rids : NewManager.resources[r] # <<p, s>>
    BY <1>3, BoundFacts
  <2>2. \A q \in Queries : Registered(NoContext, q, NewManager.resources) /\ Counted(NoContext, q, NewManager.resources)
    BY <1>2, <1>6, <2>1 DEF Registered, Counted
  <2> QED
    BY <1>1, <1>3, <2>2, CountInvParts
<1> QED
  BY <1>4, <1>5, <1>7, InitTypes DEF AggCore

LEMMA AggCoreHolds == Spec => []AggCore
<1>1. Init => AggCore
  BY InitAggCore
<1>2. AggCore /\ [Next]_vars => AggCore'
  BY NextAggCore
<1> QED
  BY <1>1, <1>2, PTL DEF Spec

\* AggregateResults: without a failed send, an answer is on its way to the client
\* only when every server that was asked has reported (SearchRequestHanlder,
\* AggregatorExecutionContext), for any queries and servers, whatever timeouts and
\* late answers there are.
THEOREM AnswersAreComplete == Spec => []AggregatesAll
<1>1. AggCore => AggregatesAll
  <2> SUFFICES ASSUME AggCore, NEW q \in Queries, Answers(q) # {}, <<"agg", q>> \notin sendFailed,
                      NEW s \in ctx[q].asked
               PROVE  ctx[q].result[s] # {}
    BY DEF AggregatesAll
  <2>1. PICK w \in writes \cup posted : IsAnswer(w) /\ w.msg.q = q
    BY DEF Answers, IsAnswer
  <2>2. Waiting(ctx[q]) = {}
    BY <2>1 DEF AggCore, AnswerInv
  <2> QED
    BY <2>2 DEF Waiting
<1> QED
  BY <1>1, AggCoreHolds, PTL
(***************************************************************************)
(* Callbacks of the client                                                 *)
(***************************************************************************)

\* A step that leaves the client's callbacks alone.
LEMMA OnceStill ==
    ASSUME Types, RequestInv, OnceInv, UNCHANGED <<setting, cmgr, todo, calls, sent>>, sendFailed \subseteq sendFailed',
           \A w \in failed' : w \in failed \/ (w \in writes /\ w.side = "near")
    PROVE  OnceInv'
<1>1. \A w \in failed' : w.link[1] = "client" => w.msg.q \in sent
  BY DEF OnceInv, RequestInv, IsRequest
<1>2. \A q \in Queries :
         <<"client", q>> \notin sendFailed' => OnceFor(q, setting'.api, cmgr'.resources, todo', calls'[q])
  BY DEF OnceInv
<1> QED
  BY <1>1, <1>2 DEF OnceInv

LEMMA OtherStepsOnce ==
    ASSUME Types, RequestInv, OnceInv, Next,
           \/ Connecting
           \/ \E w \in writes : Deliver(w) \/ WriteAborted(w)
           \/ \E link \in Links : Break(link)
           \/ \E i \in Slots : GiveUp(i)
           \/ NothingToWaitFor \/ StartWaiting \/ AggExpire
           \/ \E w \in posted : SelectServers(w) \/ AggResponse(w) \/ Search(w)
           \/ \E w \in failed : AggSendFailed(w)
           \/ \E q \in Queries, s \in Servers : AskServer(q, s)
    PROVE  OnceInv'
<1> DEFINE Still == /\ UNCHANGED <<setting, cmgr, todo, calls, sent>> /\ sendFailed \subseteq sendFailed'
                    /\ \A w \in failed' : w \in failed \/ (w \in writes /\ w.side = "near")
<1>1. ASSUME NEW w, Deliver(w) \/ WriteAborted(w) \/ WriteFails(w) \/ SelectServers(w) \/ AggResponse(w)
                    \/ Search(w) \/ AggSendFailed(w)
      PROVE  Still
  BY <1>1 DEF Deliver, WriteAborted, WriteFails, SelectServers, AggResponse, Search, AggSendFailed, clientVars, aggVars
<1>2. ASSUME NEW x, Break(x) \/ GiveUp(x) \/ Redial(x) \/ Dial(x) \/ DialFails(x) \/ NoteConnection(x)
      PROVE  Still
  BY <1>2 DEF Break, GiveUp, Redial, Dial, DialFails, NoteConnection, socketVars, clientVars, aggVars
<1>3. ASSUME NEW x, NEW y, ReadFails(x, y) \/ AskServer(x, y)
      PROVE  Still
  BY <1>3 DEF ReadFails, AskServer, clientVars
<1>4. ASSUME ConnectToPendingServers \/ NothingToWaitFor \/ StartWaiting \/ AggExpire
      PROVE  Still
  BY <1>4 DEF ConnectToPendingServers, NothingToWaitFor, StartWaiting, AggExpire, socketVars, clientVars, aggVars
<1>5. Still
  <2> HIDE DEF Still
  <2> QED
    BY <1>1, <1>2, <1>3, <1>4 DEF Connecting
<1> QED
  BY <1>5, OnceStill

LEMMA SendQueryOnce ==
    ASSUME Types, RequestInv, OnceInv, NEW q \in Queries, NEW i \in Slots, SendQuery(q, i)
    PROVE  OnceInv'
<1> DEFINE x == [status |-> "FailedNetwork", results |-> {}]
           t == [q |-> q, by |-> "send", op |-> "decrease"]
<1>1. /\ q \notin sent /\ sent' = sent \cup {q} /\ cmgr' = Add(cmgr, q, TRUE)
      /\ \/ UNCHANGED <<todo, calls, sendFailed>>
         \/ /\ calls' = [calls EXCEPT ![q] = Append(@, x)]
            /\ todo' = todo \cup {t}
            /\ sendFailed' = sendFailed \cup {<<"client", q>>}
      /\ UNCHANGED <<setting, failed>>
  BY DEF SendQuery
<1>2. /\ cmgr \in Managers(Queries) /\ calls \in [Queries -> Seq(CallRecords)] /\ NoResource \notin Queries
      /\ x \in CallRecords
  BY BoundFacts DEF Types, ClientInv, CallRecords
<1>3. /\ Add(cmgr, q, TRUE) \in Managers(Queries)
      /\ AddedId(cmgr) \in Rids
      /\ cmgr.next # 0 => AddedId(cmgr) = cmgr.next
      /\ Add(cmgr, q, TRUE).next = (AddedId(cmgr) + 1) % (MaxRid + 1)
      /\ \A r \in Rids : Add(cmgr, q, TRUE).resources[r] =
           IF r = AddedId(cmgr) /\ cmgr.resources[r] = NoResource THEN q ELSE cmgr.resources[r]
  <2>1. cmgr \in Managers(Queries) /\ NoResource \notin Queries /\ q \in Queries
    BY <1>2
  <2> QED
    BY ONLY <2>1, AddManager
<1>4. \A r \in Rids : cmgr'.resources[r] = cmgr.resources[r] \/ (r = AddedId(cmgr) /\ cmgr'.resources[r] = q)
  BY <1>1, <1>3
<1>5. \A r \in Rids : cmgr.resources[r] # q
  BY <1>1, <1>2 DEF OnceInv
<1>6. /\ \A u \in todo : u.q # q
      /\ calls[q] = <<>>
  BY <1>1 DEF OnceInv
<1>7. t.q = q /\ t.by = "send" /\ t.op = "decrease"
  OBVIOUS
<1> HIDE DEF x, t
<1>8. \A p \in Queries : p # q => calls'[p] = calls[p]
  BY <1>1, <1>2, CallsAppend
<1>9. /\ \A u \in todo' : u.op = "call" => u.by # "reply"
      /\ \A u \in todo' : u.by = "send" => <<"client", u.q>> \in sendFailed'
      /\ \A u \in todo' : u.q \in sent'
      /\ \A w \in failed' : w.link[1] = "client" => w.msg.q \in sent'
  BY <1>1, <1>7 DEF OnceInv
<1>10. /\ \A r1, r2 \in Rids : cmgr'.resources[r1] = cmgr'.resources[r2] /\ cmgr'.resources[r1] # NoResource => r1 = r2
       /\ \A r \in Rids : cmgr'.resources[r] # NoResource => cmgr'.resources[r] \in sent'
  BY <1>1, <1>4, <1>5 DEF OnceInv
<1>11. \A p \in Queries : p \notin sent' => calls'[p] = <<>>
  BY <1>1, <1>8 DEF OnceInv
<1>12. ASSUME NEW p \in Queries, <<"client", p>> \notin sendFailed'
       PROVE  OnceFor(p, setting'.api, cmgr'.resources, todo', calls'[p])
  <2>1. CASE p = q
    <3>1. UNCHANGED <<todo, calls>>
      BY <1>1, <1>12, <2>1
    <3> QED
      BY <1>6, <2>1, <3>1 DEF OnceFor
  <2>2. CASE p # q
    <3>1. OnceFor(p, setting.api, cmgr.resources, todo, calls[p])
      BY <1>1, <1>12 DEF OnceInv
    <3>2. \A r \in Rids : cmgr'.resources[r] = p => cmgr.resources[r] = p
      BY <1>4, <2>2
    <3>3. \A u \in todo' : u.q = p => u \in todo
      BY <1>1, <1>7, <2>2
    <3>4. calls'[p] = calls[p] /\ setting' = setting
      BY <1>1, <1>8, <2>2
    <3> QED
      BY <3>1, <3>2, <3>3, <3>4 DEF OnceFor
  <2> QED
    BY <2>1, <2>2
<1> QED
  BY <1>9, <1>10, <1>11, <1>12 DEF OnceInv

LEMMA SearchUnconnectedOnce ==
    ASSUME Types, OnceInv, NEW q \in Queries, SearchUnconnected(q)
    PROVE  OnceInv'
<1> DEFINE x == [status |-> "Timeout", results |-> {}]
<1>1. /\ q \notin sent /\ sent' = sent \cup {q}
      /\ calls' = [calls EXCEPT ![q] = Append(@, x)]
      /\ UNCHANGED <<setting, cmgr, todo, sendFailed, failed>>
  BY DEF SearchUnconnected, socketVars
<1>2. calls \in [Queries -> Seq(CallRecords)] /\ x \in CallRecords /\ NoResource \notin Queries
  BY BoundFacts DEF Types, ClientInv, CallRecords
<1> HIDE DEF x
<1>3. Len(calls'[q]) = Len(calls[q]) + 1 /\ \A p \in Queries : p # q => calls'[p] = calls[p]
  BY <1>1, <1>2, CallsAppend
<1>4. /\ \A r \in Rids : cmgr.resources[r] # q
      /\ \A u \in todo : u.q # q
      /\ calls[q] = <<>>
  BY <1>1, <1>2 DEF OnceInv
<1>5. Len(calls'[q]) = 1
  BY <1>3, <1>4
<1>6. ASSUME NEW p \in Queries, <<"client", p>> \notin sendFailed'
      PROVE  OnceFor(p, setting'.api, cmgr'.resources, todo', calls'[p])
  <2>1. CASE p = q
    BY <1>1, <1>4, <1>5, <2>1 DEF OnceFor
  <2>2. CASE p # q
    BY <1>1, <1>3, <1>6, <2>2 DEF OnceInv
  <2> QED
    BY <2>1, <2>2
<1>7. \A p \in Queries : p \notin sent' => calls'[p] = <<>>
  BY <1>1, <1>3 DEF OnceInv
<1> QED
  BY <1>1, <1>6, <1>7 DEF OnceInv

LEMMA CallOnce ==
    ASSUME Types, OnceInv, NEW t \in todo, Call(t)
    PROVE  OnceInv'
<1> DEFINE x == [status |-> IF t.by = "timeout" THEN "Timeout" ELSE "FailedNetwork", results |-> {}]
           u == [t EXCEPT !.op = "decrease"]
           q == t.q
           client == setting.api
<1>1. /\ t.op = "call"
      /\ calls' = [calls EXCEPT ![q] = Append(@, x)]
      /\ todo' = (todo \ {t}) \cup IF client = "wrapper" /\ t.by = "timeout" THEN {} ELSE {u}
      /\ UNCHANGED <<setting, cmgr, sendFailed, failed, sent>>
  BY DEF Call, CallLast, api, socketVars
<1>2. /\ calls \in [Queries -> Seq(CallRecords)] /\ x \in CallRecords /\ q \in Queries /\ t \in Steps
      /\ u.q = q /\ u.by = t.by /\ u.op = "decrease"
  BY DEF Types, ClientInv, CallRecords, Steps
<1> HIDE DEF x, u, q
<1>3. Len(calls'[q]) = Len(calls[q]) + 1 /\ \A p \in Queries : p # q => calls'[p] = calls[p]
  BY <1>1, <1>2, CallsAppend
<1>4. /\ \A v \in todo' : v.op = "call" => v.by # "reply"
      /\ \A v \in todo' : v.by = "send" => <<"client", v.q>> \in sendFailed'
      /\ \A v \in todo' : v.q \in sent'
  BY <1>1, <1>2 DEF OnceInv, q
<1>5. q \in sent
  BY DEF OnceInv, q
<1>6. \A p \in Queries : p \notin sent' => calls'[p] = <<>>
  BY <1>1, <1>3, <1>5 DEF OnceInv
<1>7. ASSUME NEW p \in Queries, <<"client", p>> \notin sendFailed'
      PROVE  OnceFor(p, setting'.api, cmgr'.resources, todo', calls'[p])
  <2>1. OnceFor(p, client, cmgr.resources, todo, calls[p])
    BY <1>1, <1>7 DEF OnceInv
  <2>3. CASE p = q
    <3>1. WillCall(t, client) /\ t.q = q
      BY <1>1 DEF WillCall, q
    <3>2. calls[q] = <<>> /\ \A r \in Rids : cmgr.resources[r] # q
      BY <2>1, <2>3, <3>1 DEF OnceFor
    <3>3. Len(calls'[q]) = 1
      BY <1>3, <3>2
    <3>4. ASSUME NEW v \in todo', v.q = q, WillCall(v, client)
          PROVE  FALSE
      <4>1. v \in todo => v = t
        BY <2>1, <2>3, <3>1, <3>4 DEF OnceFor
      <4>2. CASE client = "wrapper" /\ t.by = "timeout"
        BY <1>1, <4>1, <4>2
      <4>3. CASE ~(client = "wrapper" /\ t.by = "timeout")
        <5>1. v = u
          BY <1>1, <4>1, <4>3
        <5> QED
          BY <1>2, <3>4, <4>3, <5>1 DEF WillCall
      <4> QED
        BY <4>2, <4>3
    <3> QED
      BY <1>1, <2>3, <3>2, <3>3, <3>4 DEF OnceFor
  <2>4. CASE p # q
    <3>1. \A v \in todo' : v.q = p => v \in todo
      BY <1>1, <1>2, <2>4
    <3> QED
      BY <1>1, <1>3, <2>1, <2>4, <3>1 DEF OnceFor
  <2> QED
    BY <2>3, <2>4
<1> QED
  BY <1>1, <1>4, <1>6, <1>7 DEF OnceInv

LEMMA DecreaseOnce ==
    ASSUME Types, OnceInv, NEW t \in todo, Decrease(t)
    PROVE  OnceInv'
<1> DEFINE n == [t EXCEPT !.op = "notify"]
           u == [t EXCEPT !.op = "call"]
           q == t.q
           client == setting.api
           Late == client = "wrapper" /\ t.by = "timeout"
<1>1. /\ t.op = "decrease"
      /\ \A v \in todo' : (v \in todo /\ v # t) \/ v = n \/ (Late /\ v = u)
      /\ UNCHANGED <<setting, cmgr, sendFailed, failed, sent, calls>>
  BY DEF Decrease, AfterDecrease, CallLast, api, socketVars
<1>2. /\ q \in Queries /\ n.q = q /\ n.by = t.by /\ n.op = "notify" /\ u.q = q /\ u.by = t.by /\ u.op = "call"
  BY DEF Types, ClientInv, Steps
<1> HIDE DEF n, u, q
<1>3. /\ \A v \in todo' : v.op = "call" => v.by # "reply"
      /\ \A v \in todo' : v.by = "send" => <<"client", v.q>> \in sendFailed'
      /\ \A v \in todo' : v.q \in sent'
  BY <1>1, <1>2 DEF OnceInv, q
<1>4. ASSUME NEW p \in Queries, <<"client", p>> \notin sendFailed'
      PROVE  OnceFor(p, setting'.api, cmgr'.resources, todo', calls'[p])
  <2>1. OnceFor(p, client, cmgr.resources, todo, calls[p])
    BY <1>1, <1>4 DEF OnceInv
  <2>2. ASSUME NEW v \in todo', v.q = p, WillCall(v, client)
        PROVE  \/ v \in todo /\ v # t
               \/ v = u /\ t.q = p /\ WillCall(t, client)
    BY <1>1, <1>2, <2>2 DEF WillCall, q
  <2> QED
    BY <1>1, <2>1, <2>2 DEF OnceFor
<1> QED
  BY <1>1, <1>3, <1>4 DEF OnceInv

LEMMA NotifyOnce ==
    ASSUME Types, OnceInv, NEW t \in todo, Notify(t)
    PROVE  OnceInv'
<1>1. todo' \subseteq todo /\ UNCHANGED <<setting, cmgr, sendFailed, failed, sent, calls>>
  BY DEF Notify, socketVars
<1>2. ASSUME NEW p \in Queries, <<"client", p>> \notin sendFailed'
      PROVE  OnceFor(p, setting'.api, cmgr'.resources, todo', calls'[p])
  <2>1. OnceFor(p, setting.api, cmgr.resources, todo, calls[p])
    BY <1>1, <1>2 DEF OnceInv
  <2> QED
    BY <1>1, <2>1 DEF OnceFor
<1> QED
  BY <1>1, <1>2 DEF OnceInv

\* A failed send: the query is not promised one call any more.
LEMMA ClientSendFailedOnce ==
    ASSUME Types, OnceInv, NEW w \in failed, ClientSendFailed(w)
    PROVE  OnceInv'
<1> DEFINE u == [q |-> w.msg.q, by |-> "send", op |-> "call"]
<1>1. /\ w.link[1] = "client" /\ failed' \subseteq failed
      /\ todo' = todo \cup {u}
      /\ sendFailed' = sendFailed \cup {<<"client", w.msg.q>>}
      /\ UNCHANGED <<setting, cmgr, sent, calls>>
  BY DEF ClientSendFailed
<1>2. u.q = w.msg.q /\ u.by = "send" /\ u.op = "call"
  OBVIOUS
<1> HIDE DEF u
<1>3. /\ \A v \in todo' : v.op = "call" => v.by # "reply"
      /\ \A v \in todo' : v.by = "send" => <<"client", v.q>> \in sendFailed'
      /\ \A v \in todo' : v.q \in sent'
      /\ \A v \in failed' : v.link[1] = "client" => v.msg.q \in sent'
  BY <1>1, <1>2 DEF OnceInv
<1>4. ASSUME NEW p \in Queries, <<"client", p>> \notin sendFailed'
      PROVE  OnceFor(p, setting'.api, cmgr'.resources, todo', calls'[p])
  <2>1. OnceFor(p, setting.api, cmgr.resources, todo, calls[p])
    BY <1>1, <1>4 DEF OnceInv
  <2>2. p # w.msg.q
    BY <1>1, <1>4
  <2> QED
    BY <1>1, <1>2, <2>1, <2>2 DEF OnceFor
<1> QED
  BY <1>1, <1>3, <1>4 DEF OnceInv

\* GetAndRemove: what is removed is not registered under another id.
LEMMA RemovedOnce ==
    ASSUME Types, OnceInv, NEW rid \in Rids, cmgr.resources[rid] # NoResource, UNCHANGED sent,
           \A r \in Rids : cmgr'.resources[r] = IF r = rid THEN NoResource ELSE cmgr.resources[r]
    PROVE  /\ cmgr.resources[rid] \in Queries /\ cmgr.resources[rid] \in sent
           /\ \A r \in Rids : cmgr'.resources[r] # cmgr.resources[rid]
           /\ \A r1, r2 \in Rids :
                cmgr'.resources[r1] = cmgr'.resources[r2] /\ cmgr'.resources[r1] # NoResource => r1 = r2
           /\ \A r \in Rids : cmgr'.resources[r] # NoResource => cmgr'.resources[r] \in sent'
<1>1. cmgr.resources[rid] \in Queries
  BY DEF Types, ClientInv, Managers
<1> QED
  BY <1>1 DEF OnceInv

LEMMA ClientResponseOnce ==
    ASSUME Types, RequestInv, OnceInv, NEW w \in posted, ClientResponse(w)
    PROVE  OnceInv'
<1> DEFINE rid == w.msg.rid
           q == cmgr.resources[rid]
           x == [status |-> "Success", results |-> w.msg.results]
           u == [q |-> q, by |-> "reply", op |-> "decrease"]
<1>1. /\ cmgr' = GetAndRemove(cmgr, rid)
      /\ calls' = IF Pending(cmgr, rid) THEN [calls EXCEPT ![q] = Append(@, x)] ELSE calls
      /\ todo' = IF Pending(cmgr, rid) THEN todo \cup {u} ELSE todo
      /\ UNCHANGED <<setting, failed, sent, sendFailed>>
  BY DEF ClientResponse
<1>2. CASE ~Pending(cmgr, rid)
  <2>1. cmgr' = cmgr /\ calls' = calls /\ todo' = todo
    BY <1>1, <1>2 DEF GetAndRemove
  <2> QED
    BY <1>1, <2>1, OnceStill
<1>3. CASE Pending(cmgr, rid)
  <2>1. rid \in Rids /\ q # NoResource
    BY <1>3 DEF Pending
  <2>2. cmgr \in Managers(Queries) /\ calls \in [Queries -> Seq(CallRecords)]
    BY DEF Types, ClientInv, CallRecords
  <2>3. \A r \in Rids : cmgr'.resources[r] = IF r = rid THEN NoResource ELSE cmgr.resources[r]
    BY <1>1, <2>2, GetAndRemoveManager
  <2>4. /\ q \in Queries /\ q \in sent
        /\ \A r \in Rids : cmgr'.resources[r] # q
        /\ \A r1, r2 \in Rids :
                cmgr'.resources[r1] = cmgr'.resources[r2] /\ cmgr'.resources[r1] # NoResource => r1 = r2
        /\ \A r \in Rids : cmgr'.resources[r] # NoResource => cmgr'.resources[r] \in sent'
    BY <1>1, <2>1, <2>3, RemovedOnce
  <2>5. x \in CallRecords
    BY DEF Types, PacketInv, Packets, CallRecords
  <2>6. calls' = [calls EXCEPT ![q] = Append(@, x)] /\ todo' = todo \cup {u}
    BY <1>1, <1>3
  <2>7. u.q = q /\ u.by = "reply" /\ u.op = "decrease"
    OBVIOUS
  <2>8. q = cmgr.resources[rid]
    OBVIOUS
  <2> HIDE DEF x, u, q, rid
  <2>9. Len(calls'[q]) = Len(calls[q]) + 1 /\ \A p \in Queries : p # q => calls'[p] = calls[p]
    BY <2>2, <2>4, <2>5, <2>6, CallsAppend
  <2>10. /\ \A v \in todo' : v.op = "call" => v.by # "reply"
         /\ \A v \in todo' : v.by = "send" => <<"client", v.q>> \in sendFailed'
         /\ \A v \in todo' : v.q \in sent'
    BY <1>1, <2>4, <2>6, <2>7 DEF OnceInv
  <2>11. \A p \in Queries : p \notin sent' => calls'[p] = <<>>
    BY <1>1, <2>4, <2>9 DEF OnceInv
  <2>12. ASSUME NEW p \in Queries, <<"client", p>> \notin sendFailed'
         PROVE  OnceFor(p, setting'.api, cmgr'.resources, todo', calls'[p])
    <3>1. OnceFor(p, setting.api, cmgr.resources, todo, calls[p])
      BY <1>1, <2>12 DEF OnceInv
    <3>2. ~WillCall(u, setting.api)
      BY <2>7 DEF WillCall
    <3>3. CASE p = q
      <4>1. calls[q] = <<>> /\ \A v \in todo : v.q = q => ~WillCall(v, setting.api)
        BY <2>1, <2>8, <3>1, <3>3 DEF OnceFor
      <4>2. Len(calls'[q]) = 1
        BY <2>9, <4>1
      <4>3. \A v \in todo' : v.q = q => ~WillCall(v, setting.api)
        BY <2>6, <3>2, <4>1
      <4>4. setting' = setting /\ \A r \in Rids : cmgr'.resources[r] # q
        BY <1>1, <2>4
      <4> HIDE DEF WillCall
      <4>5. OnceFor(q, setting'.api, cmgr'.resources, todo', calls'[q])
        BY ONLY <4>2, <4>3, <4>4 DEF OnceFor
      <4> QED
        BY <3>3, <4>5
    <3>4. CASE p # q
      <4>1. \A v \in todo' : v.q = p => v \in todo
        BY <2>6, <2>7, <3>4
      <4>2. \A r \in Rids : cmgr'.resources[r] = p => cmgr.resources[r] = p
        BY <2>3, <2>12, BoundFacts
      <4> QED
        BY <1>1, <2>9, <3>1, <3>4, <4>1, <4>2 DEF OnceFor
    <3> QED
      BY <3>3, <3>4
  <2> QED
    BY <1>1, <2>4, <2>10, <2>11, <2>12 DEF OnceInv
<1> QED
  BY <1>2, <1>3

LEMMA ClientExpireOnce ==
    ASSUME Types, RequestInv, OnceInv, ClientExpire
    PROVE  OnceInv'
<1> DEFINE rid == ExpiredId(cmgr)
           q == cmgr.resources[rid]
           u == [q |-> q, by |-> "timeout", op |-> IF setting.api = "wrapper" THEN "decrease" ELSE "call"]
<1>1. /\ CanExpire(cmgr) /\ cmgr' = Expire(cmgr)
      /\ todo' = IF Pending(cmgr, rid) THEN todo \cup {u} ELSE todo
      /\ UNCHANGED <<setting, failed, sent, sendFailed, calls>>
  BY DEF ClientExpire, socketVars, api
<1>2. cmgr \in Managers(Queries) /\ NoResource \notin Queries
  BY BoundFacts DEF Types, ClientInv
<1>3. rid \in Rids /\ \A r \in Rids : cmgr'.resources[r] = IF r = rid THEN NoResource ELSE cmgr.resources[r]
  BY <1>1, <1>2, ExpireManager
<1>4. CASE ~Pending(cmgr, rid)
  <2>1. todo' = todo /\ \A r \in Rids : cmgr'.resources[r] = cmgr.resources[r]
    BY <1>1, <1>3, <1>4 DEF Pending
  <2>2. ASSUME NEW p \in Queries, <<"client", p>> \notin sendFailed'
        PROVE  OnceFor(p, setting'.api, cmgr'.resources, todo', calls'[p])
    <3>1. OnceFor(p, setting.api, cmgr.resources, todo, calls[p])
      BY <1>1, <2>2 DEF OnceInv
    <3> QED
      BY <1>1, <2>1, <3>1 DEF OnceFor
  <2> QED
    BY <1>1, <2>1, <2>2 DEF OnceInv
<1>5. CASE Pending(cmgr, rid)
  <2>1. q # NoResource /\ todo' = todo \cup {u}
    BY <1>1, <1>5 DEF Pending
  <2>2. /\ q \in Queries /\ q \in sent
        /\ \A r \in Rids : cmgr'.resources[r] # q
        /\ \A r1, r2 \in Rids :
                cmgr'.resources[r1] = cmgr'.resources[r2] /\ cmgr'.resources[r1] # NoResource => r1 = r2
        /\ \A r \in Rids : cmgr'.resources[r] # NoResource => cmgr'.resources[r] \in sent'
    BY <1>1, <1>3, <2>1, RemovedOnce
  <2>3. u.q = q /\ u.by = "timeout"
    OBVIOUS
  <2>4. q = cmgr.resources[rid]
    OBVIOUS
  <2> HIDE DEF u, q, rid
  <2>5. /\ \A v \in todo' : v.op = "call" => v.by # "reply"
        /\ \A v \in todo' : v.by = "send" => <<"client", v.q>> \in sendFailed'
        /\ \A v \in todo' : v.q \in sent'
    BY <1>1, <2>1, <2>2, <2>3 DEF OnceInv
  <2>6. ASSUME NEW p \in Queries, <<"client", p>> \notin sendFailed'
        PROVE  OnceFor(p, setting'.api, cmgr'.resources, todo', calls'[p])
    <3>1. OnceFor(p, setting.api, cmgr.resources, todo, calls[p])
      BY <1>1, <2>6 DEF OnceInv
    <3>2. CASE p = q
      <4>1. calls[q] = <<>> /\ \A v \in todo : v.q = q => ~WillCall(v, setting.api)
        BY <1>3, <2>4, <3>1, <3>2 DEF OnceFor
      <4>2. \A v \in todo' : v.q = q /\ WillCall(v, setting.api) => v = u
        BY <2>1, <4>1
      <4>3. Len(calls[q]) <= 1
        BY <3>1, <3>2 DEF OnceFor
      <4> QED
        BY <1>1, <2>2, <3>2, <4>1, <4>2, <4>3 DEF OnceFor
    <3>3. CASE p # q
      <4>1. \A v \in todo' : v.q = p => v \in todo
        BY <2>1, <2>3, <3>3
      <4>2. \A r \in Rids : cmgr'.resources[r] = p => cmgr.resources[r] = p
        BY <1>2, <1>3, <2>6
      <4> QED
        BY <1>1, <3>1, <4>1, <4>2 DEF OnceFor
    <3> QED
      BY <3>2, <3>3
  <2> QED
    BY <1>1, <2>2, <2>5, <2>6 DEF OnceInv
<1> QED
  BY <1>4, <1>5

Core == AggCore /\ OnceInv

LEMMA NextCore ==
    ASSUME Core, [Next]_vars
    PROVE  Core'
<1>0. Types /\ RequestInv /\ OnceInv /\ AggCore
  BY DEF Core, AggCore
<1>1. AggCore'
  BY <1>0, NextAggCore
<1>2. CASE UNCHANGED vars
  <2>1. UNCHANGED <<setting, cmgr, todo, calls, sent, sendFailed, failed>>
    BY <1>2 DEF vars, socketVars, clientVars, aggVars
  <2> QED
    BY <1>0, <1>1, <2>1, OnceStill DEF Core
<1>3. CASE Next
  <2>1. OnceInv'
    BY <1>0, <1>3, NextSplits, OtherStepsOnce, SendQueryOnce, SearchUnconnectedOnce, CallOnce, DecreaseOnce, NotifyOnce,
       ClientSendFailedOnce, ClientResponseOnce, ClientExpireOnce DEF Passive
  <2> QED
    BY <1>1, <2>1 DEF Core
<1> QED
  BY <1>2, <1>3

LEMMA InitCore ==
    ASSUME Init
    PROVE  Core
<1>1. /\ failed = {} /\ cmgr = NewManager /\ todo = {} /\ sent = {} /\ calls = [q \in Queries |-> <<>>]
  BY DEF Init
<1>2. \A r \in Rids : cmgr.resources[r] = NoResource
  BY <1>1 DEF NewManager
<1>3. \A q \in Queries : calls[q] = <<>> /\ Len(calls[q]) <= 1
  BY <1>1
<1>4. \A q \in Queries : OnceFor(q, setting.api, cmgr.resources, todo, calls[q])
  BY <1>1, <1>2, <1>3, BoundFacts DEF OnceFor
<1>5. OnceInv
  BY <1>1, <1>2, <1>3, <1>4 DEF OnceInv
<1> QED
  BY <1>5, InitAggCore DEF Core

LEMMA CoreHolds == Spec => []Core
<1>1. Init => Core
  BY InitCore
<1>2. Core /\ [Next]_vars => Core'
  BY NextCore
<1> QED
  BY <1>1, <1>2, PTL DEF Spec

\* SendQueryAsync and Search: a callback is called at most once unless its own send
\* failed, for any number of queries, servers and connections, also when resource
\* ids wrap and meet one that is still registered.
THEOREM CalledAtMostOnce == Spec => []AnsweredOnce
<1>1. Core => AnsweredOnce
  BY DEF Core, OnceInv, OnceFor, AnsweredOnce
<1> QED
  BY <1>1, CoreHolds, PTL

(***************************************************************************)
(* Resource ids                                                            *)
(***************************************************************************)

\* The resource ids of a client and of the aggregator do not wrap: fewer requests
\* than ids.
NoWrap == Cardinality(Queries) < MaxRid /\ Cardinality(Queries \X Servers) < MaxRid

\* A manager only takes away under the ids it has given.
Grows(m, n) ==
    /\ m.next <= n.next
    /\ \A r \in Rids : r < m.next => n.resources[r] \in {m.resources[r], NoResource}

LEMMA GrowsNames ==
    ASSUME NEW R, NEW m \in Managers(R), NEW n \in Managers(R), Grows(m, n), NEW rid \in 0..MaxRid, NEW own,
           Names(rid, m, own)
    PROVE  Names(rid, n, own)
<1>1. m.next \in Nat /\ n.next \in Nat /\ rid \in Nat
  BY BoundFacts DEF Managers
<1> QED
  BY <1>1 DEF Grows, Names

LEMMA AddGrows ==
    ASSUME NEW R, NoResource \notin R, NEW m \in Managers(R), NEW x \in R, m.next \in 1..(MaxRid - 1), Below(m)
    PROVE  /\ AddedId(m) = m.next /\ Add(m, x, TRUE).next = m.next + 1
           /\ Grows(m, Add(m, x, TRUE)) /\ Below(Add(m, x, TRUE))
           /\ Names(AddedId(m), Add(m, x, TRUE), {x})
<1> DEFINE n == Add(m, x, TRUE)
           a == AddedId(m)
<1>1. /\ a \in Rids
      /\ m.next # 0 => a = m.next
      /\ n.next = (a + 1) % (MaxRid + 1)
      /\ \A r \in Rids : n.resources[r] = IF r = a /\ m.resources[r] = NoResource THEN x ELSE m.resources[r]
  BY AddManager
<1>2. MaxRid \in Nat /\ MaxRid >= 1
  BY BoundFacts
<1> HIDE DEF n, a
<1>3. a = m.next /\ a + 1 <= MaxRid /\ m.next \in Nat
  BY <1>1, <1>2
<1>4. n.next = m.next + 1
  BY <1>1, <1>2, <1>3
<1>5. Grows(m, n)
  BY <1>1, <1>3, <1>4 DEF Grows
<1>6. Below(n)
  <2> SUFFICES ASSUME NEW r \in Rids, n.resources[r] # NoResource
               PROVE  r < n.next
    BY DEF Below
  <2>1. r \in Nat
    BY DEF Rids
  <2>2. CASE r = a
    BY <1>3, <1>4, <2>2
  <2>3. CASE r # a
    <3>1. r < m.next
      BY <1>1, <2>3 DEF Below
    <3> QED
      BY <1>3, <1>4, <2>1, <3>1
  <2> QED
    BY <2>2, <2>3
<1>7. Names(a, n, {x})
  <2>1. a < n.next
    BY <1>3, <1>4
  <2>2. m.resources[a] = NoResource
    BY <1>1, <1>3 DEF Below
  <2>3. n.resources[a] = x
    BY <1>1, <2>2
  <2> QED
    BY <2>1, <2>3 DEF Names
<1> QED
  BY <1>3, <1>4, <1>5, <1>6, <1>7 DEF n, a

LEMMA RemoveGrows ==
    ASSUME NEW R, NEW m \in Managers(R), NEW n, Below(m), n.next = m.next, NEW rid,
           \A r \in Rids : n.resources[r] = IF r = rid THEN NoResource ELSE m.resources[r]
    PROVE  Grows(m, n) /\ Below(n)
<1>1. m.next \in Nat
  BY BoundFacts DEF Managers
<1> QED
  BY <1>1 DEF Grows, Below

LEMMA SameGrows ==
    ASSUME NEW R, NEW m \in Managers(R)
    PROVE  Grows(m, m)
<1>1. m.next \in Nat
  BY BoundFacts DEF Managers
<1> QED
  BY <1>1 DEF Grows

\* The client: one id per query.
LEMMA ClientIds ==
    ASSUME NoWrap, Types, IdInv, [Next]_vars
    PROVE  /\ Grows(cmgr, cmgr') /\ Below(cmgr') /\ cmgr'.next \in 1..(Cardinality(sent') + 1)
           /\ \A q \in Queries, i \in Slots : SendQuery(q, i) => Names(AddedId(cmgr), cmgr', {q})
<1> DEFINE Goal == Grows(cmgr, cmgr') /\ Below(cmgr') /\ cmgr'.next \in 1..(Cardinality(sent') + 1)
<1>0. /\ cmgr \in Managers(Queries) /\ NoResource \notin Queries /\ Below(cmgr) /\ sent \in SUBSET Queries
      /\ cmgr.next \in 1..(Cardinality(sent) + 1) /\ IsFiniteSet(Queries) /\ MaxRid \in Nat
      /\ Cardinality(Queries) \in Nat /\ Cardinality(Queries) < MaxRid
  BY BoundFacts DEF Types, ClientInv, IdInv, NoWrap
<1>1. IsFiniteSet(sent) /\ Cardinality(sent) \in Nat
  BY <1>0, FS_Subset, FS_CardinalityType
<1>2. ASSUME NEW q \in Queries, q \notin sent, sent' = sent \cup {q}
      PROVE  Cardinality(sent') = Cardinality(sent) + 1 /\ Cardinality(sent') <= Cardinality(Queries)
  <2>1. sent' \in SUBSET Queries
    BY <1>0, <1>2
  <2>2. Cardinality(sent') <= Cardinality(Queries)
    BY <1>0, <2>1, FS_Subset
  <2>3. Cardinality(sent') = Cardinality(sent) + 1
    BY <1>1, <1>2, FS_AddElement
  <2> QED
    BY <2>2, <2>3
<1>3. ASSUME NEW q \in Queries, NEW i \in Slots, SendQuery(q, i)
      PROVE  Goal /\ Names(AddedId(cmgr), cmgr', {q})
  <2>1. q \notin sent /\ sent' = sent \cup {q} /\ cmgr' = Add(cmgr, q, TRUE)
    BY <1>3 DEF SendQuery
  <2>2. Cardinality(sent') = Cardinality(sent) + 1 /\ Cardinality(sent') <= Cardinality(Queries)
    BY <1>2, <2>1
  <2>3. cmgr.next \in 1..(MaxRid - 1)
    BY <1>0, <1>1, <2>2
  <2>4. /\ AddedId(cmgr) = cmgr.next /\ Add(cmgr, q, TRUE).next = cmgr.next + 1
        /\ Grows(cmgr, Add(cmgr, q, TRUE)) /\ Below(Add(cmgr, q, TRUE))
        /\ Names(AddedId(cmgr), Add(cmgr, q, TRUE), {q})
    BY <1>0, <2>3, AddGrows
  <2>5. cmgr'.next \in 1..(Cardinality(sent') + 1)
    <3>1. cmgr'.next = cmgr.next + 1
      BY <2>1, <2>4
    <3>2. cmgr.next \in 1..(Cardinality(sent) + 1)
      BY <1>0
    <3> QED
      BY ONLY <1>1, <2>2, <3>1, <3>2
  <2> QED
    BY <2>1, <2>4, <2>5
<1>4. ASSUME NEW q \in Queries, SearchUnconnected(q)
      PROVE  Goal
  <2>1. q \notin sent /\ sent' = sent \cup {q} /\ cmgr' = cmgr
    BY <1>4 DEF SearchUnconnected
  <2>2. Cardinality(sent') = Cardinality(sent) + 1
    BY <1>2, <2>1
  <2>3. cmgr'.next \in 1..(Cardinality(sent') + 1)
    BY <1>0, <1>1, <2>1, <2>2
  <2> QED
    BY <1>0, <2>1, <2>3, SameGrows
<1>5. ASSUME NEW w \in posted, ClientResponse(w)
      PROVE  Goal
  <2>1. sent' = sent /\ cmgr' = GetAndRemove(cmgr, w.msg.rid)
    BY <1>5 DEF ClientResponse
  <2>2. cmgr'.next = cmgr.next /\ \A r \in Rids : cmgr'.resources[r] = IF r = w.msg.rid THEN NoResource ELSE cmgr.resources[r]
    BY <1>0, <2>1, GetAndRemoveManager
  <2> QED
    BY <1>0, <2>1, <2>2, RemoveGrows
<1>6. ASSUME ClientExpire
      PROVE  Goal
  <2>1. sent' = sent /\ CanExpire(cmgr) /\ cmgr' = Expire(cmgr)
    BY <1>6 DEF ClientExpire
  <2>2. cmgr'.next = cmgr.next
        /\ \A r \in Rids : cmgr'.resources[r] = IF r = ExpiredId(cmgr) THEN NoResource ELSE cmgr.resources[r]
    BY <1>0, <2>1, ExpireManager
  <2>3. \A r \in Rids : cmgr'.resources[r] \in {cmgr.resources[r], NoResource}
    BY <2>2
  <2>4. cmgr.next \in Nat
    BY <1>0, <1>1
  <2>5. Grows(cmgr, cmgr') /\ Below(cmgr')
    BY <1>0, <2>2, <2>3, <2>4 DEF Grows, Below
  <2> QED
    BY <1>0, <2>1, <2>2, <2>5
<1>7. ASSUME sent' = sent, cmgr' = cmgr
      PROVE  Goal
  BY <1>0, <1>7, SameGrows
<1>8. ASSUME NEW w, Deliver(w) \/ WriteAborted(w) \/ WriteFails(w) \/ SelectServers(w) \/ AggResponse(w)
                    \/ Search(w) \/ AggSendFailed(w) \/ ClientSendFailed(w)
      PROVE  sent' = sent /\ cmgr' = cmgr
  BY <1>8 DEF Deliver, WriteAborted, WriteFails, SelectServers, AggResponse, Search, AggSendFailed, ClientSendFailed,
              clientVars
<1>9. ASSUME NEW x, Break(x) \/ GiveUp(x) \/ Redial(x) \/ Dial(x) \/ DialFails(x) \/ NoteConnection(x)
                      \/ Call(x) \/ Decrease(x) \/ Notify(x)
      PROVE  sent' = sent /\ cmgr' = cmgr
  BY <1>9 DEF Break, GiveUp, Redial, Dial, DialFails, NoteConnection, Call, Decrease, Notify, clientVars
<1>10. ASSUME NEW x, NEW y, ReadFails(x, y) \/ AskServer(x, y)
      PROVE  sent' = sent /\ cmgr' = cmgr
  BY <1>10 DEF ReadFails, AskServer, clientVars
<1>11. ASSUME ConnectToPendingServers \/ NothingToWaitFor \/ StartWaiting \/ AggExpire
      PROVE  sent' = sent /\ cmgr' = cmgr
  BY <1>11 DEF ConnectToPendingServers, NothingToWaitFor, StartWaiting, AggExpire, clientVars
<1>12. CASE UNCHANGED vars
  <2>1. sent' = sent /\ cmgr' = cmgr /\ writes' = writes
    BY <1>12 DEF vars, clientVars, socketVars
  <2> QED
    BY <1>3, <1>7, <2>1
<1>13. CASE Next
  <2> HIDE DEF Goal
  <2>1. Goal
    BY <1>3, <1>4, <1>5, <1>6, <1>7, <1>8, <1>9, <1>10, <1>11, <1>13, NextSplits DEF Passive, Connecting
  <2> QED
    BY <1>3, <2>1 DEF Goal
<1> QED
  BY <1>12, <1>13

LEMMA FinishContexts ==
    ASSUME Types, NEW q \in Queries, NEW c \in Contexts, NEW s, NEW results \in SUBSET (Servers \X Queries),
           Finish(q, c, s, results)
    PROVE  /\ \A p \in Queries : p # q => ctx'[p] = ctx[p]
           /\ ctx'[q] = Reported(c, s, results)
           /\ ctx'[q].asked = c.asked /\ ctx'[q].todo = c.todo /\ ctx'[q].rid = c.rid
           /\ ctx'[q].result = WithResult(c, s, results)
           /\ writes' \subseteq writes \cup {AnswerTo(q, c, s, results)}
<1>1. /\ ctx' = [ctx EXCEPT ![q] = Reported(c, s, results)]
      /\ writes' \subseteq writes \cup {AnswerTo(q, c, s, results)}
  BY FinishEffect
<1>2. ctx \in [Queries -> Contexts]
  BY DEF Types, AggInv
<1>3. /\ Reported(c, s, results).todo = c.todo
      /\ Reported(c, s, results).asked = c.asked
      /\ Reported(c, s, results).rid = c.rid
      /\ Reported(c, s, results).result = WithResult(c, s, results)
  BY ReportedFields
<1> DEFINE d == Reported(c, s, results)
<1> HIDE DEF d
<1>4. ctx'[q] = d /\ \A p \in Queries : p # q => ctx'[p] = ctx[p]
  BY <1>1, <1>2 DEF d
<1> QED
  BY <1>1, <1>3, <1>4 DEF d

LEMMA SameAsked ==
    ASSUME \A p \in Queries : ctx'[p].asked = ctx[p].asked /\ ctx'[p].todo = ctx[p].todo
    PROVE  AskedPairs' = AskedPairs
BY DEF AskedPairs

\* AskServer: the query and the server were not among the pairs.
LEMMA AskPairs ==
    ASSUME Types, CountInv, NEW q \in Queries, NEW s \in Servers, AskServer(q, s)
    PROVE  AskedPairs' = AskedPairs \cup {<<q, s>>} /\ <<q, s>> \notin AskedPairs
<1> DEFINE c == Taken(q, s)
<1>1. /\ s \in ctx[q].todo
      /\ \/ ctx' = [ctx EXCEPT ![q] = c]
         \/ Finish(q, c, s, {})
  BY AskEffect
<1>2. /\ c \in Contexts /\ c.todo = ctx[q].todo \ {s} /\ c.asked = ctx[q].asked
  <2>1. AggInv
    BY DEF Types
  <2> QED
    BY ONLY <2>1, q \in Queries, TakenFields
<1>3. ctx \in [Queries -> Contexts] /\ ctx[q].todo \subseteq ctx[q].asked
  BY DEF Types, AggInv, CountInv
<1> HIDE DEF c
<1>4. {} \in SUBSET (Servers \X Queries)
  OBVIOUS
<1>5. ctx'[q].asked = c.asked /\ ctx'[q].todo = c.todo /\ \A p \in Queries : p # q => ctx'[p] = ctx[p]
  <2>1. CASE ctx' = [ctx EXCEPT ![q] = c]
    BY <1>3, <2>1
  <2>2. CASE Finish(q, c, s, {})
    BY <1>2, <1>4, <2>2, FinishContexts
  <2> QED
    BY <1>1, <2>1, <2>2
<1>6. ASSUME NEW p \in Queries, NEW v \in Servers
      PROVE  v \in ctx'[p].asked \ ctx'[p].todo <=> v \in ctx[p].asked \ ctx[p].todo \/ (p = q /\ v = s)
  BY <1>1, <1>2, <1>3, <1>5
<1>7. \A p \in Queries, v \in Servers : <<p, v>> = <<q, s>> <=> p = q /\ v = s
  OBVIOUS
<1>8. ASSUME NEW x \in Queries \X Servers
      PROVE  x \in AskedPairs' <=> x \in AskedPairs \/ x = <<q, s>>
  <2>1. x[1] \in Queries /\ x[2] \in Servers /\ (x = <<q, s>> <=> x[1] = q /\ x[2] = s)
    BY <1>8
  <2> QED
    BY <1>6, <1>8, <2>1 DEF AskedPairs
<1>9. AskedPairs' \subseteq Queries \X Servers /\ AskedPairs \subseteq Queries \X Servers
  BY DEF AskedPairs
<1>10. AskedPairs' = AskedPairs \cup {<<q, s>>}
  BY <1>8, <1>9
<1>11. <<q, s>> \notin AskedPairs
  BY <1>1 DEF AskedPairs
<1> QED
  BY <1>10, <1>11

\* The aggregator: one id per query and server.
LEMMA AggIds ==
    ASSUME NoWrap, Types, RequestInv, CountInv, IdInv, [Next]_vars
    PROVE  /\ Grows(amgr, amgr') /\ Below(amgr') /\ amgr'.next \in 1..(Cardinality(AskedPairs') + 1)
           /\ \A q \in Queries, s \in Servers : AskServer(q, s) => Names(AddedId(amgr), amgr', {<<q, s>>})
<1> DEFINE Goal == Grows(amgr, amgr') /\ Below(amgr') /\ amgr'.next \in 1..(Cardinality(AskedPairs') + 1)
           P == Queries \X Servers
<1>0. /\ amgr \in Managers(P) /\ NoResource \notin P /\ Below(amgr) /\ AskedPairs \in SUBSET P
      /\ amgr.next \in 1..(Cardinality(AskedPairs) + 1) /\ MaxRid \in Nat /\ Cardinality(P) < MaxRid
  BY BoundFacts DEF Types, AggInv, IdInv, NoWrap, AskedPairs
<1>1. IsFiniteSet(P) /\ Cardinality(P) \in Nat
  BY BoundFacts, FS_Product, FS_CardinalityType
<1>2. \A q \in Queries, s \in Servers : <<q, s>> \in P
  OBVIOUS
<1> HIDE DEF P
<1>3. IsFiniteSet(AskedPairs) /\ Cardinality(AskedPairs) \in Nat
  BY <1>0, <1>1, FS_Subset, FS_CardinalityType
<1>4. ASSUME NEW q \in Queries, NEW s \in Servers, AskServer(q, s)
      PROVE  Goal /\ Names(AddedId(amgr), amgr', {<<q, s>>})
  <2> DEFINE x == <<q, s>>
  <2>1. amgr' = Add(amgr, x, TRUE) /\ x \in P
    BY <1>2, <1>4 DEF AskServer
  <2>2. AskedPairs' = AskedPairs \cup {x} /\ x \notin AskedPairs
    BY <1>4, AskPairs
  <2> HIDE DEF x
  <2>3. Cardinality(AskedPairs') = Cardinality(AskedPairs) + 1
    BY <1>3, <2>2, FS_AddElement
  <2>4. AskedPairs' \in SUBSET P
    BY <1>0, <2>1, <2>2
  <2>5. Cardinality(AskedPairs') <= Cardinality(P)
    BY <1>1, <2>4, FS_Subset
  <2>6. amgr.next \in 1..(MaxRid - 1)
    BY <1>0, <1>1, <1>3, <2>3, <2>5
  <2>7. /\ AddedId(amgr) = amgr.next /\ Add(amgr, x, TRUE).next = amgr.next + 1
        /\ Grows(amgr, Add(amgr, x, TRUE)) /\ Below(Add(amgr, x, TRUE))
        /\ Names(AddedId(amgr), Add(amgr, x, TRUE), {x})
    BY <1>0, <2>1, <2>6, AddGrows
  <2>8. amgr'.next \in 1..(Cardinality(AskedPairs') + 1)
    <3>1. amgr'.next = amgr.next + 1
      BY <2>1, <2>7
    <3>2. amgr.next \in 1..(Cardinality(AskedPairs) + 1)
      BY <1>0
    <3> QED
      BY ONLY <1>3, <2>3, <3>1, <3>2
  <2> QED
    BY <2>1, <2>7, <2>8 DEF x
<1>5. ASSUME AskedPairs' = AskedPairs, amgr'.next = amgr.next,
             \A r \in Rids : amgr'.resources[r] \in {amgr.resources[r], NoResource}
      PROVE  Goal
  <2>1. amgr.next \in Nat
    BY <1>0, <1>3
  <2>2. Grows(amgr, amgr') /\ Below(amgr')
    BY <1>0, <1>5, <2>1 DEF Grows, Below
  <2> QED
    BY <1>0, <1>5, <2>2
<1>6. ASSUME ctx' = ctx, amgr' = amgr
      PROVE  Goal
  <2>1. AskedPairs' = AskedPairs
    BY <1>6, SameAsked
  <2> QED
    BY <1>5, <1>6, <2>1
<1>7. ASSUME NEW rid, NEW results \in SUBSET (Servers \X Queries), CallBack(rid, results)
      PROVE  AskedPairs' = AskedPairs
  <2>1. CASE ~Pending(amgr, rid)
    BY <1>7, <2>1, SameAsked DEF CallBack
  <2>2. CASE Pending(amgr, rid)
    <3> DEFINE q == amgr.resources[rid][1]
               s == amgr.resources[rid][2]
    <3>1. q \in Queries /\ Finish(q, ctx[q], s, results)
      BY <1>7, <2>2 DEF CallBack, Pending, Types, AggInv, Managers
    <3> HIDE DEF q, s
    <3>2. ctx[q] \in Contexts
      BY <3>1 DEF Types, AggInv
    <3>3. /\ \A p \in Queries : p # q => ctx'[p] = ctx[p]
          /\ ctx'[q].asked = ctx[q].asked /\ ctx'[q].todo = ctx[q].todo
      BY <1>7, <3>1, <3>2, FinishContexts
    <3> QED
      BY <3>3, SameAsked
  <2> QED
    BY <2>1, <2>2
<1>8. ASSUME NEW w \in posted, AggResponse(w)
      PROVE  Goal
  <2>1. amgr' = GetAndRemove(amgr, w.msg.rid) /\ CallBack(w.msg.rid, w.msg.results)
    BY <1>8 DEF AggResponse
  <2>2. w.msg.results \in SUBSET (Servers \X Queries)
    BY DEF Types, PacketInv, Packets
  <2>3. AskedPairs' = AskedPairs
    BY <1>7, <2>1, <2>2
  <2>4. amgr'.next = amgr.next /\ \A r \in Rids : amgr'.resources[r] = IF r = w.msg.rid THEN NoResource ELSE amgr.resources[r]
    BY <1>0, <2>1, GetAndRemoveManager
  <2> QED
    BY <1>5, <2>3, <2>4
<1>9. ASSUME AggExpire
      PROVE  Goal
  <2>1. CanExpire(amgr) /\ amgr' = Expire(amgr) /\ CallBack(ExpiredId(amgr), {})
    BY <1>9 DEF AggExpire, NoResults
  <2>2. AskedPairs' = AskedPairs
    BY <1>7, <2>1
  <2>3. amgr'.next = amgr.next /\ \A r \in Rids : amgr'.resources[r] = IF r = ExpiredId(amgr) THEN NoResource ELSE amgr.resources[r]
    BY <1>0, <2>1, ExpireManager
  <2> QED
    BY <1>5, <2>2, <2>3
<1>10. ASSUME NEW w \in failed, AggSendFailed(w)
       PROVE  Goal
  <2> DEFINE q == w.msg.q
             s == dialed["agg"][w.link[2]]
  <2>1. amgr' = amgr /\ Finish(q, ctx[q], s, {})
    BY <1>10 DEF AggSendFailed, NoResults
  <2>2. q \in Queries /\ ctx[q] \in Contexts
    BY DEF Types, PacketInv, Packets, AggInv
  <2> HIDE DEF q, s
  <2>3. /\ \A p \in Queries : p # q => ctx'[p] = ctx[p]
        /\ ctx'[q].asked = ctx[q].asked /\ ctx'[q].todo = ctx[q].todo
    BY <2>1, <2>2, FinishContexts
  <2>4. AskedPairs' = AskedPairs
    BY <2>3, SameAsked
  <2> QED
    BY <1>5, <2>1, <2>4
<1>11. ASSUME NEW w \in posted, SelectServers(w)
       PROVE  Goal
  <2> DEFINE q == w.msg.q
  <2>1. amgr' = amgr /\ IsRequest(w) /\ q \in Queries /\ ctx \in [Queries -> Contexts]
    BY <1>11 DEF SelectServers, IsRequest, Types, PacketInv, Packets, AggInv
  <2>2. PICK asked \in SUBSET Servers : ctx' = [ctx EXCEPT ![q] = Selected(w, asked)]
    BY <1>11, SelectEffect DEF Types, SocketInv
  <2>3. Selected(w, asked).asked = asked /\ Selected(w, asked).todo = asked
    BY DEF Selected
  <2>4. ctx[q] = NoContext /\ NoContext.asked = {}
    BY <2>1 DEF RequestInv, NoContext
  <2> HIDE DEF q
  <2>5. ctx'[q] = Selected(w, asked) /\ \A p \in Queries : p # q => ctx'[p] = ctx[p]
    BY <2>1, <2>2
  <2>6. \A p \in Queries : ctx'[p].asked \ ctx'[p].todo = ctx[p].asked \ ctx[p].todo
    BY <2>3, <2>4, <2>5
  <2>7. AskedPairs' = AskedPairs
    BY <2>6 DEF AskedPairs
  <2> QED
    BY <1>5, <2>1, <2>7
<1>12. ASSUME NEW w, Deliver(w) \/ WriteAborted(w) \/ WriteFails(w) \/ ClientResponse(w) \/ Search(w) \/ ClientSendFailed(w)
       PROVE  ctx' = ctx /\ amgr' = amgr
  BY <1>12 DEF Deliver, WriteAborted, WriteFails, ClientResponse, Search, ClientSendFailed, aggVars
<1>13. ASSUME NEW x, Break(x) \/ GiveUp(x) \/ Redial(x) \/ Dial(x) \/ DialFails(x) \/ NoteConnection(x)
                      \/ Call(x) \/ Decrease(x) \/ Notify(x) \/ SearchUnconnected(x)
       PROVE  ctx' = ctx /\ amgr' = amgr
  BY <1>13 DEF Break, GiveUp, Redial, Dial, DialFails, NoteConnection, Call, Decrease, Notify, SearchUnconnected, aggVars
<1>14. ASSUME NEW x, NEW y, ReadFails(x, y) \/ SendQuery(x, y)
       PROVE  ctx' = ctx /\ amgr' = amgr
  BY <1>14 DEF ReadFails, SendQuery, aggVars
<1>15. ASSUME ConnectToPendingServers \/ NothingToWaitFor \/ StartWaiting \/ ClientExpire
       PROVE  ctx' = ctx /\ amgr' = amgr
  BY <1>15 DEF ConnectToPendingServers, NothingToWaitFor, StartWaiting, ClientExpire, aggVars
<1>16. CASE UNCHANGED vars
  <2>1. ctx' = ctx /\ amgr' = amgr
    BY <1>16 DEF vars, aggVars
  <2> QED
    BY <1>4, <1>6, <2>1
<1>17. CASE Next
  <2> HIDE DEF Goal
  <2>1. Goal
    BY <1>4, <1>6, <1>8, <1>9, <1>10, <1>11, <1>12, <1>13, <1>14, <1>15, <1>17, NextSplits DEF Passive, Connecting
  <2> QED
    BY <1>4, <2>1 DEF Goal
<1> QED
  BY <1>16, <1>17

(***************************************************************************)
(* Results of a query                                                      *)
(***************************************************************************)

\* What the managers grow by does not disturb what is on its way.
LEMMA OwnStep ==
    ASSUME Types, Types', OwnInv, Grows(cmgr, cmgr'), Grows(amgr, amgr'),
           \A w \in writes' \cup posted' : w \in writes \cup posted \/ OwnPacket(w, cmgr', amgr'),
           \A q \in Queries : ctx'[q] = ctx[q] \/ OwnContext(ctx'[q], q, cmgr) \/ OwnContext(ctx'[q], q, cmgr'),
           \A q \in Queries : OwnCalls(calls'[q], q)
    PROVE  OwnInv'
<1>1. /\ cmgr \in Managers(Queries) /\ cmgr' \in Managers(Queries)
      /\ amgr \in Managers(Queries \X Servers) /\ amgr' \in Managers(Queries \X Servers)
  BY DEF Types, ClientInv, AggInv
<1>2. ASSUME NEW w \in writes' \cup posted'
      PROVE  OwnPacket(w, cmgr', amgr')
  <2>1. CASE w \in writes \cup posted
    <3>1. OwnPacket(w, cmgr, amgr)
      BY <2>1 DEF OwnInv
    <3>2. w.msg.rid \in 0..MaxRid
      BY <2>1 DEF Types, PacketInv, Packets
    <3>3. w.link[1] = "client" => Names(w.msg.rid, cmgr', {w.msg.q})
      <4>1. SUFFICES ASSUME Names(w.msg.rid, cmgr, {w.msg.q})
                     PROVE  Names(w.msg.rid, cmgr', {w.msg.q})
        BY <3>1 DEF OwnPacket
      <4> QED
        BY <1>1, <3>2, <4>1, GrowsNames
    <3>4. w.link[1] = "agg" => Names(w.msg.rid, amgr', {w.msg.q} \X Servers)
      <4>1. SUFFICES ASSUME Names(w.msg.rid, amgr, {w.msg.q} \X Servers)
                     PROVE  Names(w.msg.rid, amgr', {w.msg.q} \X Servers)
        BY <3>1 DEF OwnPacket
      <4> QED
        BY <1>1, <3>2, <4>1, GrowsNames
    <3> QED
      BY <3>1, <3>3, <3>4 DEF OwnPacket
  <2> QED
    BY <1>2, <2>1
<1>3. ASSUME NEW q \in Queries
      PROVE  OwnContext(ctx'[q], q, cmgr')
  <2>1. CASE OwnContext(ctx'[q], q, cmgr)
    <3>1. ctx'[q].rid \in 0..MaxRid
      BY DEF Types, AggInv, Contexts
    <3>2. Names(ctx'[q].rid, cmgr, {q})
      BY <2>1 DEF OwnContext
    <3>3. Names(ctx'[q].rid, cmgr', {q})
      BY <1>1, <3>1, <3>2, GrowsNames
    <3> QED
      BY <2>1, <3>3 DEF OwnContext
  <2>2. CASE ctx'[q] = ctx[q]
    BY <2>1, <2>2 DEF OwnInv
  <2> QED
    BY <2>1, <2>2
<1> QED
  BY <1>2, <1>3 DEF OwnInv

\* The callback of a server with results of the query: so is the answer.
LEMMA FinishOwn ==
    ASSUME Types, NEW q \in Queries, NEW c \in Contexts, OwnContext(c, q, cmgr), NEW s,
           NEW results \in SUBSET (Servers \X {q}), Finish(q, c, s, results), UNCHANGED cmgr, posted' \subseteq posted
    PROVE  /\ \A w \in writes' \cup posted' : w \in writes \cup posted \/ OwnPacket(w, cmgr', amgr')
           /\ \A p \in Queries : ctx'[p] = ctx[p] \/ OwnContext(ctx'[p], p, cmgr)
<1>1. results \in SUBSET (Servers \X Queries)
  OBVIOUS
<1> DEFINE a == AnswerTo(q, c, s, results)
           d == Reported(c, s, results)
<1>2. /\ \A p \in Queries : p # q => ctx'[p] = ctx[p]
      /\ ctx'[q] = d
      /\ ctx'[q].rid = c.rid
      /\ ctx'[q].result = WithResult(c, s, results)
      /\ writes' \subseteq writes \cup {a}
  BY <1>1, FinishContexts
<1>3. /\ IsAnswer(a)
      /\ a.msg.q = q
      /\ a.msg.rid = c.rid
      /\ a.msg.results = UNION UNION {d.result[v] : v \in Servers}
  BY <1>1, AnswerIsPacket
<1> HIDE DEF a, d
<1>4. c.result \in [Servers -> SUBSET SUBSET (Servers \X Queries)]
  BY DEF Contexts
<1>5. \A v \in Servers : d.result[v] \subseteq SUBSET (Servers \X {q})
  <2>1. \A v \in Servers : d.result[v] = IF v = s THEN {results} ELSE c.result[v]
    BY <1>2, <1>4 DEF WithResult
  <2> QED
    BY <2>1 DEF OwnContext
<1>6. OwnContext(ctx'[q], q, cmgr)
  BY <1>2, <1>5 DEF OwnContext
<1>7. a.msg.results \subseteq Servers \X {q}
  <2> DEFINE T == Servers \X {q}
             f == d.result
  <2>1. \A v \in Servers : f[v] \subseteq SUBSET T
    BY <1>5
  <2>2. a.msg.results = UNION UNION {f[v] : v \in Servers}
    BY <1>3
  <2> HIDE DEF T, f
  <2>3. a.msg.results \subseteq T
    BY <2>1, <2>2, UnionBound
  <2> QED
    BY <2>3 DEF T
<1>8. OwnPacket(a, cmgr', amgr')
  BY <1>3, <1>7 DEF OwnPacket, OwnContext, IsAnswer
<1> QED
  BY <1>2, <1>6, <1>8

LEMMA AppendOwn ==
    ASSUME Types, OwnInv, NEW q \in Queries, NEW x \in CallRecords, x.results \subseteq Servers \X {q},
           calls' = [calls EXCEPT ![q] = Append(@, x)]
    PROVE  \A p \in Queries : OwnCalls(calls'[p], p)
<1>1. calls \in [Queries -> Seq(CallRecords)]
  BY DEF Types, ClientInv, CallRecords
<1>2. /\ \A k \in DOMAIN calls'[q] : calls'[q][k] = x \/ (k \in DOMAIN calls[q] /\ calls'[q][k] = calls[q][k])
      /\ \A p \in Queries : p # q => calls'[p] = calls[p]
  BY <1>1, CallsAppend
<1>3. \A p \in Queries : OwnCalls(calls[p], p)
  BY DEF OwnInv
<1>4. OwnCalls(calls'[q], q)
  BY <1>2, <1>3 DEF OwnCalls
<1> QED
  BY <1>2, <1>3, <1>4

LEMMA ClientStepsOwn ==
    ASSUME NoWrap, Types, Types', IdInv, OwnInv, Next, Grows(cmgr, cmgr'), Grows(amgr, amgr'),
           \/ \E t \in todo : Call(t)
           \/ \E q \in Queries : SearchUnconnected(q)
           \/ \E q \in Queries, i \in Slots : SendQuery(q, i)
           \/ \E w \in posted : ClientResponse(w)
    PROVE  OwnInv'
<1> DEFINE none == {}
<1>0. none \in SUBSET (Servers \X Queries) /\ \A q : none \subseteq Servers \X {q}
  OBVIOUS
<1> HIDE DEF none
<1>1. ASSUME NEW q \in Queries, NEW x \in CallRecords, x.results \subseteq Servers \X {q},
             calls' = [calls EXCEPT ![q] = Append(@, x)], writes' = writes, posted' \subseteq posted, ctx' = ctx
      PROVE  OwnInv'
  <2>1. \A p \in Queries : OwnCalls(calls'[p], p)
    BY <1>1, AppendOwn
  <2> QED
    BY <1>1, <2>1, OwnStep
<1>2. ASSUME NEW t \in todo, Call(t)
      PROVE  OwnInv'
  <2> DEFINE x == [status |-> IF t.by = "timeout" THEN "Timeout" ELSE "FailedNetwork", results |-> none]
  <2>1. /\ calls' = [calls EXCEPT ![t.q] = Append(@, x)] /\ UNCHANGED <<writes, posted, ctx>> /\ t.q \in Queries
    BY <1>2 DEF Call, socketVars, aggVars, none, Types, ClientInv, Steps
  <2>2. x \in CallRecords /\ x.results \subseteq Servers \X {t.q}
    BY <1>0 DEF CallRecords
  <2> HIDE DEF x
  <2> QED
    BY <1>1, <2>1, <2>2
<1>3. ASSUME NEW q \in Queries, SearchUnconnected(q)
      PROVE  OwnInv'
  <2> DEFINE x == [status |-> "Timeout", results |-> none]
  <2>1. /\ calls' = [calls EXCEPT ![q] = Append(@, x)] /\ UNCHANGED <<writes, posted, ctx>>
    BY <1>3 DEF SearchUnconnected, socketVars, aggVars, none
  <2>2. x \in CallRecords /\ x.results \subseteq Servers \X {q}
    BY <1>0 DEF CallRecords
  <2> HIDE DEF x
  <2> QED
    BY <1>1, <2>1, <2>2
<1>4. ASSUME NEW q \in Queries, NEW i \in Slots, SendQuery(q, i)
      PROVE  OwnInv'
  <2> DEFINE x == [status |-> "FailedNetwork", results |-> none]
             r == [link |-> <<"client", slot[i]>>, side |-> "near", msg |-> Message("request", AddedId(cmgr), q, none)]
  <2>1. /\ UNCHANGED <<posted, ctx>>
        /\ \/ calls' = [calls EXCEPT ![q] = Append(@, x)] /\ writes' = writes
           \/ calls' = calls /\ writes' = writes \cup {r}
    BY <1>4 DEF SendQuery, Write, aggVars, none
  <2>2. x \in CallRecords /\ x.results \subseteq Servers \X {q}
    BY <1>0 DEF CallRecords
  <2>3. /\ r.link[1] = "client" /\ r.msg.rid = AddedId(cmgr) /\ r.msg.q = q /\ r.msg.results = none
    BY DEF Message
  <2> HIDE DEF x, r
  <2>4. Names(AddedId(cmgr), cmgr', {q})
    BY <1>4, ClientIds
  <2>5. OwnPacket(r, cmgr', amgr')
    BY <1>0, <2>3, <2>4 DEF OwnPacket
  <2>6. CASE calls' = [calls EXCEPT ![q] = Append(@, x)] /\ writes' = writes
    BY <1>1, <2>1, <2>2, <2>6
  <2>7. CASE calls' = calls /\ writes' = writes \cup {r}
    <3>1. \A p \in Queries : OwnCalls(calls'[p], p)
      BY <2>7 DEF OwnInv
    <3>2. \A w \in writes' \cup posted' : w \in writes \cup posted \/ OwnPacket(w, cmgr', amgr')
      BY <2>1, <2>5, <2>7
    <3> QED
      BY <2>1, <3>1, <3>2, OwnStep
  <2> QED
    BY <2>1, <2>6, <2>7
<1>5. ASSUME NEW w \in posted, ClientResponse(w)
      PROVE  OwnInv'
  <2> DEFINE q == cmgr.resources[w.msg.rid]
             x == [status |-> "Success", results |-> w.msg.results]
  <2>1. /\ w.link[1] = "client" /\ writes' = writes /\ posted' \subseteq posted /\ ctx' = ctx
        /\ calls' = IF Pending(cmgr, w.msg.rid) THEN [calls EXCEPT ![q] = Append(@, x)] ELSE calls
    BY <1>5 DEF ClientResponse, aggVars
  <2>2. CASE ~Pending(cmgr, w.msg.rid)
    <3>1. \A p \in Queries : OwnCalls(calls'[p], p)
      BY <2>1, <2>2 DEF OwnInv
    <3> QED
      BY <2>1, <3>1, OwnStep
  <2>3. CASE Pending(cmgr, w.msg.rid)
    <3>1. OwnPacket(w, cmgr, amgr) /\ w \in Packets
      BY DEF OwnInv, Types, PacketInv
    <3>2. q = w.msg.q
      BY <2>1, <2>3, <3>1 DEF OwnPacket, Names, Pending
    <3>3. q \in Queries /\ x.results \subseteq Servers \X {q} /\ w.msg.results \in SUBSET (Servers \X Queries)
      BY <3>1, <3>2 DEF OwnPacket, Packets
    <3>4. x \in CallRecords
      BY <3>3 DEF CallRecords
    <3>5. calls' = [calls EXCEPT ![q] = Append(@, x)]
      BY <2>1, <2>3
    <3> HIDE DEF x, q
    <3> QED
      BY <1>1, <2>1, <3>3, <3>4, <3>5
  <2> QED
    BY <2>2, <2>3
<1> QED
  BY <1>2, <1>3, <1>4, <1>5

LEMMA AggStepsOwn ==
    ASSUME NoWrap, Types, Types', RequestInv, CountInv, IdInv, OwnInv, Next, Grows(cmgr, cmgr'), Grows(amgr, amgr'),
           \/ AggExpire
           \/ \E w \in posted : SelectServers(w) \/ AggResponse(w) \/ Search(w)
           \/ \E w \in failed : AggSendFailed(w)
           \/ \E q \in Queries, s \in Servers : AskServer(q, s)
    PROVE  OwnInv'
<1> DEFINE none == {}
<1>0. \A q : none \in SUBSET (Servers \X {q})
  OBVIOUS
<1> HIDE DEF none
<1>1. ASSUME calls' = calls
      PROVE  \A p \in Queries : OwnCalls(calls'[p], p)
  BY <1>1 DEF OwnInv
<1>2. ASSUME NEW q \in Queries, NEW c \in Contexts, OwnContext(c, q, cmgr), NEW s,
             NEW results \in SUBSET (Servers \X {q}), Finish(q, c, s, results), UNCHANGED <<cmgr, calls>>,
             posted' \subseteq posted
      PROVE  OwnInv'
  <2>1. /\ \A w \in writes' \cup posted' : w \in writes \cup posted \/ OwnPacket(w, cmgr', amgr')
        /\ \A p \in Queries : ctx'[p] = ctx[p] \/ OwnContext(ctx'[p], p, cmgr)
    BY <1>2, FinishOwn
  <2> QED
    BY <1>1, <1>2, <2>1, OwnStep
<1>3. ASSUME NEW q \in Queries
      PROVE  ctx[q] \in Contexts /\ OwnContext(ctx[q], q, cmgr)
  BY DEF OwnInv, Types, AggInv
<1>4. ASSUME NEW rid, NEW results, CallBack(rid, results), UNCHANGED <<cmgr, calls>>, posted' \subseteq posted,
             \A q \in Queries, s \in Servers :
               rid \in Rids /\ amgr.resources[rid] = <<q, s>> => results \in SUBSET (Servers \X {q})
      PROVE  OwnInv'
  <2>1. CASE ~Pending(amgr, rid)
    <3>1. ctx' = ctx /\ writes' = writes
      BY <1>4, <2>1 DEF CallBack
    <3> QED
      BY <1>1, <1>4, <3>1, OwnStep
  <2>2. CASE Pending(amgr, rid)
    <3> DEFINE q == amgr.resources[rid][1]
               s == amgr.resources[rid][2]
    <3>1. q \in Queries /\ s \in Servers /\ rid \in Rids /\ amgr.resources[rid] = <<q, s>> /\ Finish(q, ctx[q], s, results)
      BY <1>4, <2>2 DEF CallBack, Pending, Types, AggInv, Managers
    <3> HIDE DEF q, s
    <3>2. results \in SUBSET (Servers \X {q})
      BY <1>4, <3>1
    <3> QED
      BY <1>2, <1>3, <1>4, <3>1, <3>2
  <2> QED
    BY <2>1, <2>2
<1>5. ASSUME AggExpire
      PROVE  OwnInv'
  <2>1. CallBack(ExpiredId(amgr), none) /\ UNCHANGED <<cmgr, calls, posted>>
    BY <1>5 DEF AggExpire, NoResults, none, clientVars
  <2> QED
    BY <1>0, <1>4, <2>1
<1>6. ASSUME NEW w \in posted, AggResponse(w)
      PROVE  OwnInv'
  <2>1. /\ w.link[1] = "agg" /\ CallBack(w.msg.rid, w.msg.results) /\ UNCHANGED <<cmgr, calls>> /\ posted' \subseteq posted
    BY <1>6 DEF AggResponse, clientVars
  <2>2. OwnPacket(w, cmgr, amgr)
    BY DEF OwnInv
  <2>3. ASSUME NEW q \in Queries, NEW s \in Servers, w.msg.rid \in Rids, amgr.resources[w.msg.rid] = <<q, s>>
        PROVE  w.msg.results \in SUBSET (Servers \X {q})
    <3>1. <<q, s>> # NoResource
      BY BoundFacts
    <3>2. <<q, s>> \in {w.msg.q} \X Servers
      BY <2>1, <2>2, <2>3, <3>1 DEF OwnPacket, Names
    <3>3. w.msg.q = q
      BY <3>2
    <3> QED
      BY <2>2, <3>3 DEF OwnPacket
  <2> QED
    BY <1>4, <2>1, <2>3
<1>7. ASSUME NEW w \in failed, AggSendFailed(w)
      PROVE  OwnInv'
  <2> DEFINE q == w.msg.q
             s == dialed["agg"][w.link[2]]
  <2>1. Finish(q, ctx[q], s, none) /\ q \in Queries /\ UNCHANGED <<cmgr, calls, posted>>
    BY <1>7 DEF AggSendFailed, NoResults, none, clientVars, Types, PacketInv, Packets
  <2> HIDE DEF q, s
  <2> QED
    BY <1>0, <1>2, <1>3, <2>1
<1>8. ASSUME NEW w \in posted, SelectServers(w)
      PROVE  OwnInv'
  <2> DEFINE q == w.msg.q
  <2>1. /\ w.link[1] = "client" /\ q \in Queries /\ ctx \in [Queries -> Contexts]
        /\ UNCHANGED <<cmgr, calls, writes>> /\ posted' \subseteq posted
    BY <1>8 DEF SelectServers, clientVars, Types, PacketInv, Packets, AggInv
  <2>2. PICK asked \in SUBSET Servers : ctx' = [ctx EXCEPT ![q] = Selected(w, asked)]
    BY <1>8, SelectEffect DEF Types, SocketInv
  <2>3. Selected(w, asked).rid = w.msg.rid /\ \A s \in Servers : Selected(w, asked).result[s] = {}
    BY DEF Selected
  <2>4. ctx'[q] = Selected(w, asked) /\ \A p \in Queries : p # q => ctx'[p] = ctx[p]
    BY <2>1, <2>2
  <2>5. Names(w.msg.rid, cmgr, {q})
    BY <2>1 DEF OwnInv, OwnPacket
  <2> HIDE DEF q
  <2>6. OwnContext(ctx'[q], q, cmgr)
    BY <2>3, <2>4, <2>5 DEF OwnContext
  <2> QED
    BY <1>1, <2>1, <2>4, <2>6, OwnStep
<1>9. ASSUME NEW w \in posted, Search(w)
      PROVE  OwnInv'
  <2>1. /\ w.link[1] = "agg"
        /\ Response(w).link = w.link
        /\ Response(w).msg.q = w.msg.q /\ Response(w).msg.rid = w.msg.rid
        /\ Response(w).msg.results \subseteq Servers \X {w.msg.q}
        /\ writes' \subseteq writes \cup {Response(w)}
        /\ posted' = posted \ {w}
        /\ UNCHANGED <<myClientVars, amgr, ctx>>
    BY <1>9, SearchEffect
  <2>2. UNCHANGED <<cmgr, calls>>
    BY <2>1 DEF myClientVars
  <2>3. OwnPacket(w, cmgr, amgr)
    BY DEF OwnInv
  <2>4. OwnPacket(Response(w), cmgr', amgr')
    BY <2>1, <2>2, <2>3 DEF OwnPacket
  <2>5. \A v \in writes' \cup posted' : v \in writes \cup posted \/ OwnPacket(v, cmgr', amgr')
    BY <2>1, <2>4
  <2> QED
    BY <1>1, <2>1, <2>2, <2>5, OwnStep
<1>10. ASSUME NEW q \in Queries, NEW s \in Servers, AskServer(q, s)
       PROVE  OwnInv'
  <2> DEFINE c == Taken(q, s)
  <2>1. /\ \/ /\ Request(q, s).link[1] = "agg"
              /\ writes' = writes \cup {Request(q, s)}
              /\ ctx' = [ctx EXCEPT ![q] = c]
           \/ Finish(q, c, s, none)
        /\ UNCHANGED <<posted, myClientVars>>
    BY <1>10, AskEffect DEF none
  <2>2. UNCHANGED <<cmgr, calls>>
    BY <2>1 DEF myClientVars
  <2>3. c \in Contexts /\ c.rid = ctx[q].rid /\ c.result = ctx[q].result
    <3>1. AggInv
      BY DEF Types
    <3> QED
      BY ONLY <3>1, q \in Queries, TakenFields
  <2> HIDE DEF c
  <2>4. OwnContext(c, q, cmgr)
    BY <1>3, <2>3 DEF OwnContext
  <2>5. CASE Finish(q, c, s, none)
    BY <1>0, <1>2, <2>1, <2>2, <2>3, <2>4, <2>5
  <2>6. CASE /\ Request(q, s).link[1] = "agg"
             /\ writes' = writes \cup {Request(q, s)}
             /\ ctx' = [ctx EXCEPT ![q] = c]
    <3> DEFINE r == Request(q, s)
    <3>1. r.msg.rid = AddedId(amgr) /\ r.msg.q = q /\ r.msg.results = {}
      BY DEF Request, Message
    <3> HIDE DEF r
    <3>2. Names(AddedId(amgr), amgr', {<<q, s>>})
      BY <1>10, AggIds
    <3>3. Names(AddedId(amgr), amgr', {q} \X Servers)
      BY <3>2 DEF Names
    <3>4. OwnPacket(r, cmgr', amgr')
      BY <2>6, <3>1, <3>3 DEF OwnPacket, r
    <3>5. \A v \in writes' \cup posted' : v \in writes \cup posted \/ OwnPacket(v, cmgr', amgr')
      BY <2>1, <2>6, <3>4 DEF r
    <3>6. ctx \in [Queries -> Contexts]
      BY DEF Types, AggInv
    <3>7. ctx'[q] = c /\ \A p \in Queries : p # q => ctx'[p] = ctx[p]
      BY <2>6, <3>6
    <3> QED
      BY <1>1, <2>2, <2>4, <3>5, <3>7, OwnStep
  <2> QED
    BY <2>1, <2>5, <2>6
<1> QED
  BY <1>5, <1>6, <1>7, <1>8, <1>9, <1>10

LEMMA OtherStepsOwn ==
    ASSUME Types, Types', OwnInv, Next, Grows(cmgr, cmgr'), Grows(amgr, amgr'),
           \/ Connecting
           \/ \E w \in writes : Deliver(w) \/ WriteAborted(w)
           \/ \E link \in Links : Break(link)
           \/ \E i \in Slots : GiveUp(i)
           \/ NothingToWaitFor \/ StartWaiting \/ ClientExpire
           \/ \E t \in todo : Decrease(t) \/ Notify(t)
           \/ \E w \in failed : ClientSendFailed(w)
    PROVE  OwnInv'
<1> DEFINE Still == /\ writes' \cup posted' \subseteq writes \cup posted
                    /\ UNCHANGED <<ctx, calls>>
<1>1. ASSUME NEW w, Deliver(w) \/ WriteAborted(w) \/ WriteFails(w) \/ ClientSendFailed(w)
      PROVE  Still
  BY <1>1 DEF Deliver, WriteAborted, WriteFails, ClientSendFailed, clientVars, aggVars
<1>2. ASSUME NEW x, Break(x) \/ GiveUp(x) \/ Redial(x) \/ Dial(x) \/ DialFails(x) \/ NoteConnection(x)
                      \/ Decrease(x) \/ Notify(x)
      PROVE  Still
  BY <1>2 DEF Break, GiveUp, Redial, Dial, DialFails, NoteConnection, Decrease, Notify, socketVars, clientVars, aggVars
<1>3. ASSUME NEW link, NEW side, ReadFails(link, side)
      PROVE  Still
  BY <1>3 DEF ReadFails
<1>4. ASSUME ConnectToPendingServers \/ NothingToWaitFor \/ StartWaiting \/ ClientExpire
      PROVE  Still
  BY <1>4 DEF ConnectToPendingServers, NothingToWaitFor, StartWaiting, ClientExpire, socketVars, clientVars, aggVars
<1>5. Still
  <2> HIDE DEF Still
  <2> QED
    BY <1>1, <1>2, <1>3, <1>4 DEF Connecting
<1>6. \A q \in Queries : OwnCalls(calls'[q], q)
  BY <1>5 DEF OwnInv
<1> QED
  BY <1>5, <1>6, OwnStep

Sound == Core /\ IdInv /\ OwnInv

LEMMA NextSound ==
    ASSUME NoWrap, Sound, [Next]_vars
    PROVE  Sound'
<1>1. Core' /\ Types /\ RequestInv /\ CountInv /\ IdInv /\ OwnInv
  BY NextCore DEF Sound, Core, AggCore
<1>2. Types'
  BY <1>1 DEF Core, AggCore
<1>3. /\ Grows(cmgr, cmgr') /\ Below(cmgr') /\ cmgr'.next \in 1..(Cardinality(sent') + 1)
      /\ Grows(amgr, amgr') /\ Below(amgr') /\ amgr'.next \in 1..(Cardinality(AskedPairs') + 1)
  BY <1>1, ClientIds, AggIds
<1>4. IdInv'
  BY <1>3 DEF IdInv
<1>5. OwnInv'
  <2>1. CASE UNCHANGED vars
    <3>1. UNCHANGED <<writes, posted, ctx, calls>>
      BY <2>1 DEF vars, socketVars, clientVars, aggVars
    <3>2. \A q \in Queries : OwnCalls(calls'[q], q)
      BY <1>1, <3>1 DEF OwnInv
    <3> QED
      BY <1>1, <1>2, <1>3, <3>1, <3>2, OwnStep
  <2>2. CASE Next
    BY <1>1, <1>2, <1>3, <2>2, NextSplits, OtherStepsOwn, ClientStepsOwn, AggStepsOwn DEF Passive
  <2> QED
    BY <2>1, <2>2
<1> QED
  BY <1>1, <1>4, <1>5 DEF Sound

LEMMA InitSound ==
    ASSUME Init
    PROVE  Sound
<1>1. /\ writes = {} /\ posted = {} /\ cmgr = NewManager /\ amgr = NewManager /\ sent = {}
      /\ calls = [q \in Queries |-> <<>>] /\ ctx = [q \in Queries |-> NoContext]
  BY DEF Init
<1>2. NewManager.next = 1 /\ \A r \in Rids : NewManager.resources[r] = NoResource
  BY DEF NewManager
<1>3. NoContext.rid = 0 /\ NoContext.asked = {} /\ \A s \in Servers : NoContext.result[s] = {}
  BY DEF NoContext
<1>4. AskedPairs = {}
  BY <1>1, <1>3 DEF AskedPairs
<1>5. Cardinality(sent) = 0 /\ Cardinality(AskedPairs) = 0
  BY <1>1, <1>4, FS_EmptySet
<1>6. IdInv
  BY <1>1, <1>2, <1>5 DEF IdInv, Below
<1>7. \A q \in Queries : OwnContext(ctx[q], q, cmgr) /\ OwnCalls(calls[q], q)
  <2>1. \A q \in Queries : Names(0, NewManager, {q})
    BY <1>2 DEF Names, Rids
  <2>2. \A q \in Queries : OwnContext(NoContext, q, NewManager)
    BY <1>3, <2>1 DEF OwnContext
  <2>3. \A q \in Queries : OwnCalls(calls[q], q)
    BY <1>1 DEF OwnCalls
  <2> QED
    BY <1>1, <2>2, <2>3
<1>8. OwnInv
  BY <1>1, <1>7 DEF OwnInv
<1> QED
  BY <1>6, <1>8, InitCore DEF Sound

\* SendQueryAsync and Search: while fewer requests are made than there are resource
\* ids, every callback is called with results of its own query only, at most once
\* unless its send failed, and no counter leaves its width; whatever connections
\* break, sends fail, requests time out and answers come late.
THEOREM CallbacksAreSound ==
    ASSUME NoWrap
    PROVE  Spec => []CallbacksSound
<1>1. Init => Sound
  BY InitSound
<1>2. Sound /\ [Next]_vars => Sound'
  BY NextSound
<1>3. Sound => CallbacksSound
  <2> SUFFICES ASSUME Sound PROVE CallbacksSound
    OBVIOUS
  <2>1. TypeOK
    <3>1. Types
      BY DEF Sound, Core, AggCore
    <3>2. ASSUME NEW q \in Queries
          PROVE  ctx[q].count \in 0..(Wrap - 1) /\ \A k \in DOMAIN calls[q] : calls[q][k] \in ResultOf(q)
      <4>1. ctx[q] \in Contexts /\ calls[q] \in Seq(ResultOf(q))
        BY <3>1 DEF Types, AggInv, ClientInv, ResultOf
      <4> QED
        BY <4>1 DEF Contexts
    <3> QED
      BY <3>1, <3>2 DEF TypeOK, Types, SocketInv, MachineInv, ClientInv
  <2>2. AnsweredOnce
    BY DEF Sound, Core, OnceInv, OnceFor, AnsweredOnce
  <2>3. OwnResults
    BY DEF Sound, OwnInv, OwnCalls, OwnResults
  <2> QED
    BY <2>1, <2>2, <2>3 DEF CallbacksSound
<1> QED
  BY <1>1, <1>2, <1>3, PTL DEF Spec
=============================================================================
