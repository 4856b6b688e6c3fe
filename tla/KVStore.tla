------------------------------ MODULE KVStore -------------------------------
(***************************************************************************)
(* What the searcher expects of a Helper::KeyValueIO that can checkpoint   *)
(* (inc/Helper/KeyValueIO.h): Put, Merge and Delete take effect at once or *)
(* not at all, a checkpoint keeps the values of all keys at one moment,    *)
(* and recovery brings exactly those values back.                          *)
(***************************************************************************)
EXTENDS Sequences

CONSTANTS Keys, PutValues, MergeValues, NoValue

VARIABLES store,  \* the value of each key, or NoValue
          saved   \* the values of the last checkpoint

TypeOK ==
    /\ DOMAIN store = Keys
    /\ DOMAIN saved = Keys

Init ==
    /\ store = [k \in Keys |-> NoValue]
    /\ saved = store

Put(k, v) ==
    /\ store' = [store EXCEPT ![k] = v]
    /\ UNCHANGED saved

Merge(k, v) ==
    /\ store[k] # NoValue
    /\ store' = [store EXCEPT ![k] = @ \o v]
    /\ UNCHANGED saved

Delete(k) ==
    /\ store' = [store EXCEPT ![k] = NoValue]
    /\ UNCHANGED saved

Checkpoint ==
    /\ saved' = store
    /\ UNCHANGED store

Recover ==
    /\ store' = saved
    /\ UNCHANGED saved

Next ==
    \/ \E k \in Keys :
        \/ \E v \in PutValues : Put(k, v)
        \/ \E v \in MergeValues : Merge(k, v)
        \/ Delete(k)
    \/ Checkpoint
    \/ Recover

Spec == Init /\ [][Next]_<<store, saved>>
=============================================================================
