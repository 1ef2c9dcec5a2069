------------------------------ MODULE SyncCRDT ------------------------------
(***************************************************************************)
(* The cross-device document of one account: a last-writer-wins map for    *)
(* scalars and an observed-remove set for favourites, one replica of each  *)
(* per device.  The sync service is to push the updates of a device to the *)
(* others; here they arrive in any order, any number of times, and late.   *)
(*                                                                         *)
(* services/sync/internal/sync/crdt.go.  What calls it (the delivery of    *)
(* updates) is not in the repository and is modelled as the most general   *)
(* caller that keeps the two rules crdt.go states: a device's updates of a *)
(* key carry distinct timestamps, and every Add carries a fresh tag.       *)
(***************************************************************************)
EXTENDS Integers, FiniteSets

CONSTANTS
    Devices,   \* device ids, ordered as the origin strings are
    Keys,      \* keys of the map
    Elements,  \* elements of the set
    NoEntry,   \* what a map holds under a key that is not set
    MaxTs,     \* bound: timestamps
    MaxTags,   \* bound: adds of one device
    MaxSent    \* bound: updates of the map

ASSUME SyncAssumption ==
    /\ Devices \subseteq Nat
    /\ MaxTs \in Nat /\ MaxTags \in Nat /\ MaxSent \in Nat
    /\ \A k \in Keys, t \in 1 .. MaxTs, d \in Devices :
          NoEntry # [key |-> k, ts |-> t, origin |-> d]

VARIABLES
    sent,     \* the updates of the map that devices have issued
    seen,     \* history: the updates that reached a replica
    values,   \* LWWMap.values of each replica
    added,    \* ORSet.added of each replica, as <<element, tag>> pairs
    removed,  \* ORSet.removed of each replica
    adds      \* adds a device has issued

vars == <<sent, seen, values, added, removed, adds>>
mapVars == <<sent, seen, values>>
setVars == <<added, removed, adds>>

\* An update of the map.  Its value is left out: no code looks at it, and key,
\* time and origin tell the updates apart.
Update == [key : Keys, ts : 1 .. MaxTs, origin : Devices]
Tags == Devices \X (1 .. MaxTags)

\* The tags some device has given to an add.
Issued == {t \in Tags : t[2] <= adds[t[1]]}

TypeOK ==
    /\ sent \subseteq Update
    /\ seen \in [Devices -> SUBSET Update]
    /\ values \in [Devices -> [Keys -> Update \cup {NoEntry}]]
    /\ adds \in [Devices -> 0 .. MaxTags]
    /\ added \in [Devices -> SUBSET (Elements \X Issued)]
    /\ removed \in [Devices -> SUBSET (Elements \X Issued)]

Init ==
    /\ sent = {}
    /\ seen = [d \in Devices |-> {}]
    /\ values = [d \in Devices |-> [k \in Keys |-> NoEntry]]
    /\ added = [d \in Devices |-> {}]
    /\ removed = [d \in Devices |-> {}]
    /\ adds = [d \in Devices |-> 0]

---------------------------------------------------------------------------
(* LWWMap.                                                                 *)

\* A mutant of Newer: equal timestamps are not told apart by their origin.
NewerByTime(u, cur) == u.ts > cur.ts

\* The entry u replaces the entry cur: later, or as late from a greater origin.
Newer(u, cur) == u.ts > cur.ts \/ (u.ts = cur.ts /\ u.origin > cur.origin)

\* A mutant of SetKey: the last update to arrive wins.
SetKeyOnArrival(d, u) == values' = [values EXCEPT ![d][u.key] = u]

\* Set(key, value, ts, origin) on the replica of d.
SetKey(d, u) ==
    values' = [values EXCEPT ![d][u.key] =
                 IF @ = NoEntry THEN u ELSE IF Newer(u, @) THEN u ELSE @]

\* The user of d changes a scalar.  The clock of d is not tied to the others',
\* nor even monotonic, but it never gives two updates of a key one timestamp.
Write(d, u) ==
    /\ u.origin = d
    /\ \A w \in sent : ~(w.key = u.key /\ w.ts = u.ts /\ w.origin = d)
    /\ \E n \in 0 .. MaxSent - 1 : Cardinality(sent) = n
    /\ sent' = sent \cup {u}
    /\ seen' = [seen EXCEPT ![d] = @ \cup {u}]
    /\ SetKey(d, u)
    /\ UNCHANGED setVars

\* An update reaches a replica, perhaps not for the first time.
Deliver(d, u) ==
    /\ u \in sent
    /\ seen' = [seen EXCEPT ![d] = @ \cup {u}]
    /\ SetKey(d, u)
    /\ UNCHANGED <<sent, setVars>>

---------------------------------------------------------------------------
(* ORSet.                                                                  *)

Contains(d, x) == \E t \in Tags : <<x, t>> \in added[d] \ removed[d]

\* A mutant of Tag: the tag of an element is the device that added it.
TagOfDevice(d) == <<d, 1>>

\* "device id + counter"
Tag(d) == <<d, adds[d] + 1>>

Add(d, x) ==
    /\ adds[d] < MaxTags
    /\ added' = [added EXCEPT ![d] = @ \cup {<<x, Tag(d)>>}]
    /\ adds' = [adds EXCEPT ![d] = @ + 1]
    /\ UNCHANGED <<mapVars, removed>>

\* A mutant of Observed: the removal names every tag there can be.
EveryTag(d, x) == {x} \X Tags

\* The tags of x that the replica of d has seen.
Observed(d, x) == {p \in added[d] : p[1] = x}

Remove(d, x) ==
    /\ removed' = [removed EXCEPT ![d] = @ \cup Observed(d, x)]
    /\ UNCHANGED <<mapVars, added, adds>>

\* A mutant of Merge: the tombstones of the other replica are forgotten.
MergeAdds(d, plus, minus) ==
    /\ added' = [added EXCEPT ![d] = @ \cup plus]
    /\ UNCHANGED <<mapVars, removed, adds>>

\* Merge of another set: plus and minus are its adds and its tombstones.
Merge(d, plus, minus) ==
    /\ added' = [added EXCEPT ![d] = @ \cup plus]
    /\ removed' = [removed EXCEPT ![d] = @ \cup minus]
    /\ UNCHANGED <<mapVars, adds>>

---------------------------------------------------------------------------
\* A device merges another's replica, or only one add or one tombstone of it:
\* whatever part or earlier state of a replica is pushed is made of those.
Next ==
    \/ \E d \in Devices, u \in Update : Write(d, u)
    \/ \E d \in Devices, u \in sent : Deliver(d, u)
    \/ \E d \in Devices, x \in Elements : Add(d, x)
    \/ \E d \in Devices, x \in Elements : Remove(d, x)
    \/ \E d, e \in Devices : Merge(d, added[e], removed[e])
    \/ \E d, e \in Devices : \E p \in added[e] : Merge(d, {p}, {})
    \/ \E d, e \in Devices : \E p \in removed[e] : Merge(d, {}, {p})

Spec == Init /\ [][Next]_vars

\* Every update, and every replica, is pushed to every device in the end.
FairSpec ==
    /\ Spec
    /\ \A d \in Devices, u \in Update : WF_vars(Deliver(d, u))
    /\ \A d, e \in Devices : WF_vars(Merge(d, added[e], removed[e]))

---------------------------------------------------------------------------
(* "Both converge under any reorder of operations" (crdt.go).              *)

\* Replicas that the same updates reached hold the same map, in whatever order
\* and however often the updates reached them.
MapConverges ==
    \A d, e \in Devices : seen[d] = seen[e] => values[d] = values[e]

\* A replica's entry is only ever replaced by a newer one: a late or repeated
\* delivery cannot bring an overwritten value back.
NoRollback ==
    [][\A d \in Devices, k \in Keys :
          values'[d][k] # values[d][k] =>
             \/ values[d][k] = NoEntry
             \/ /\ values'[d][k] # NoEntry
                /\ Newer(values'[d][k], values[d][k])]_vars

\* "A re-added element after removal converges correctly": an element that is
\* added is there, whatever removals of it the replica has made, or has heard
\* of before the adds they name.  The tags of an add must be fresh everywhere.
ReAddShows ==
    [][\A d \in Devices, x \in Elements : Add(d, x) => Contains(d, x)']_vars

\* When the updates stop, all the replicas hold the same map and the same set.
Agree ==
    \A d, e \in Devices :
        /\ values[d] = values[e]
        /\ \A x \in Elements : Contains(d, x) <=> Contains(e, x)

EventuallyAgree == <>[]Agree
=============================================================================
