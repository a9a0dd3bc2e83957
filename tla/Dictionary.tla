----------------------------- MODULE Dictionary -----------------------------
(***************************************************************************)
(* What a Yhashmap promises its users (include/yosal/hashmap.h): a partial *)
(* function from keys to values, and searches that visit its entries.      *)
(*                                                                         *)
(* A search returns no entry twice, and when it ends it has returned every *)
(* entry that was in the map from its first call to its last.  An entry    *)
(* that is inserted meanwhile may be returned or not.                      *)
(***************************************************************************)
CONSTANTS Key, NoKey, Value, NoValue, Absent, Search

VARIABLES
  dict,    \* the value of each key, NoValue if none was set, Absent if no entry
  last,    \* the key each search returned last, NoKey if none is under way
  seen,    \* the keys of the entries each search has returned
  must     \* the keys each search has yet to return

dictVars == <<dict, last, seen, must>>

Present == {k \in Key : dict[k] # Absent}

DictInit ==
  /\ dict = [k \in Key |-> Absent]
  /\ last = [s \in Search |-> NoKey]
  /\ seen = [s \in Search |-> {}]
  /\ must = [s \in Search |-> {}]

Insert(k) ==
  /\ dict[k] = Absent
  /\ dict' = [dict EXCEPT ![k] = NoValue]
  /\ UNCHANGED <<last, seen, must>>

Assign(k, v) ==
  /\ dict[k] # Absent
  /\ dict' = [dict EXCEPT ![k] = v]
  /\ UNCHANGED <<last, seen, must>>

\* Removing the entry that a search returned last stops that search.
Delete(k) ==
  /\ dict[k] # Absent
  /\ dict' = [dict EXCEPT ![k] = Absent]
  /\ last' = [s \in Search |-> IF last[s] = k THEN NoKey ELSE last[s]]
  /\ seen' = [s \in Search |-> IF last[s] = k THEN {} ELSE seen[s] \ {k}]
  /\ must' = [s \in Search |-> IF last[s] = k THEN {} ELSE must[s] \ {k}]

Begin(s) ==
  \E k \in Present :
    /\ last' = [last EXCEPT ![s] = k]
    /\ seen' = [seen EXCEPT ![s] = {k}]
    /\ must' = [must EXCEPT ![s] = Present \ {k}]
    /\ UNCHANGED dict

Advance(s) ==
  /\ last[s] # NoKey
  /\ \E k \in Present \ seen[s] :
       /\ last' = [last EXCEPT ![s] = k]
       /\ seen' = [seen EXCEPT ![s] = @ \cup {k}]
       /\ must' = [must EXCEPT ![s] = @ \ {k}]
  /\ UNCHANGED dict

Finish(s) ==
  /\ last[s] # NoKey
  /\ must[s] = {}
  /\ last' = [last EXCEPT ![s] = NoKey]
  /\ seen' = [seen EXCEPT ![s] = {}]
  /\ UNCHANGED <<dict, must>>

\* The caller abandons its searches.
Abandon ==
  /\ last' = [s \in Search |-> NoKey]
  /\ seen' = [s \in Search |-> {}]
  /\ must' = [s \in Search |-> {}]
  /\ UNCHANGED dict

\* The whole map is released, when no search is under way.
Clear ==
  /\ \A s \in Search : last[s] = NoKey
  /\ dict' = [k \in Key |-> Absent]
  /\ UNCHANGED <<last, seen, must>>

DictNext ==
  \/ \E k \in Key : Insert(k) \/ Delete(k) \/ \E v \in Value \cup {NoValue} : Assign(k, v)
  \/ \E s \in Search : Begin(s) \/ Advance(s) \/ Finish(s)
  \/ Abandon \/ Clear

DictSpec == DictInit /\ [][DictNext]_dictVars
=============================================================================
