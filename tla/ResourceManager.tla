-------------------------- MODULE ResourceManager --------------------------
(***************************************************************************)
(* Socket::ResourceManager: callbacks of requests in flight, by resource   *)
(* id, and the queue of their timeouts.  A manager is a record; the        *)
(* operations are operators on it, so that a process may own several.      *)
(*                                                                         *)
(* The clock is left out: an item at the front of the queue may have       *)
(* expired at any time.  Ids are 1..MaxRid and wrap past                   *)
(* c_invalidResourceID, which is 0.                                        *)
(***************************************************************************)
EXTENDS Naturals, Sequences

CONSTANTS MaxRid,      \* stands for 2^32 - 1, the largest resource id
          NoResource   \* the nullptr that GetAndRemove returns

ASSUME MaxRidAssumption == MaxRid \in Nat \ {0}

Rids == 1..MaxRid

\* next: m_nextResourceID; resources: m_resources; timeoutList: m_timeoutList.
NewManager == [next |-> 1, resources |-> [r \in Rids |-> NoResource],
               timeoutList |-> <<>>]

\* The id that Add takes: fetch_add until it is not c_invalidResourceID.
AddedId(m) == IF m.next = 0 THEN 1 ELSE m.next

\* Add.  emplace keeps a resource that is already there.  A timeout of 0 puts
\* no item on the list.
Add(m, resource, timed) ==
    LET rid == AddedId(m)
    IN [m EXCEPT !.next = (rid + 1) % (MaxRid + 1),
                 !.resources[rid] = IF @ = NoResource THEN resource ELSE @,
                 !.timeoutList = IF timed THEN Append(@, rid) ELSE @]

Pending(m, rid) == rid \in Rids /\ m.resources[rid] # NoResource

\* Mutant: the callback is found and stays.
GetAndRemove_Keeps(m, rid) == m

\* GetAndRemove and Remove.  The item on the timeout list stays.
GetAndRemove(m, rid) == IF Pending(m, rid) THEN [m EXCEPT !.resources[rid] = NoResource] ELSE m

\* StartCheckTimeout: the item at the front has expired.  It is taken off the
\* list, and its callback runs if the resource is still there.  (The checker
\* takes all expired items off before it handles the first; nobody else looks
\* at the list's front, so it is one step here.)
CanExpire(m) == m.timeoutList # <<>>

ExpiredId(m) == Head(m.timeoutList)

Expire(m) == [GetAndRemove(m, ExpiredId(m)) EXCEPT !.timeoutList = Tail(@)]
=============================================================================
