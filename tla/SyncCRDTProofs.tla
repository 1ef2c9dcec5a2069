--------------------------- MODULE SyncCRDTProofs ---------------------------
(***************************************************************************)
(* Theorems about SyncCRDT, for any devices, keys, elements and number of  *)
(* updates: replicas that the same updates reached are equal, no value is  *)
(* rolled back, and an add is never hidden by a removal.                   *)
(***************************************************************************)
EXTENDS SyncCRDT, TLAPS

(***************************************************************************)
(* The inductive invariant.  What a map holds under a key is the greatest  *)
(* update of that key it has seen, and updates of a key are never as new   *)
(* as each other: so the entry is a function of what was seen.             *)
(***************************************************************************)
UpdatesDiffer ==
    \A u, w \in sent :
        u.key = w.key /\ u.ts = w.ts /\ u.origin = w.origin => u = w

OnlySent == \A d \in Devices : seen[d] \subseteq sent

\* e is what the updates in us leave under the key k.
IsLatest(e, us, k) ==
    \/ e = NoEntry /\ \A u \in us : u.key # k
    \/ e \in us /\ e.key = k /\ \A u \in us : u.key = k => ~Newer(u, e)

HoldsLatest ==
    \A d \in Devices, k \in Keys : IsLatest(values[d][k], seen[d], k)

IInv == TypeOK /\ UpdatesDiffer /\ OnlySent /\ HoldsLatest

\* An update is a record with a number for a time and one for an origin.
LEMMA UpdateFacts ==
  ASSUME NEW u \in Update
  PROVE  u.key \in Keys /\ u.ts \in Nat /\ u.origin \in Nat /\ u # NoEntry
<1>1. u.key \in Keys /\ u.ts \in 1 .. MaxTs /\ u.origin \in Devices
  BY DEF Update
<1>2. u = [key |-> u.key, ts |-> u.ts, origin |-> u.origin]
  BY DEF Update
<1>3. MaxTs \in Nat /\ Devices \subseteq Nat
  BY SyncAssumption DEF SyncAssumption
<1>4. u # NoEntry
  BY <1>1, <1>2, SyncAssumption DEF SyncAssumption
<1>5. \A n \in 1 .. MaxTs : n \in Nat
  BY <1>3
<1> QED
  BY <1>1, <1>3, <1>4, <1>5

\* Of two updates of a key, one is newer or they are the same update.
LEMMA Trichotomy ==
  ASSUME TypeOK, UpdatesDiffer, NEW u \in sent, NEW w \in sent, u.key = w.key
  PROVE  u = w \/ Newer(u, w) \/ Newer(w, u)
<1>1. u \in Update /\ w \in Update
  BY DEF TypeOK
<1>2. u.ts \in Nat /\ w.ts \in Nat /\ u.origin \in Nat /\ w.origin \in Nat
  BY <1>1, UpdateFacts
<1>3. u.ts # w.ts \/ u.origin # w.origin \/ u = w
  BY DEF UpdatesDiffer
<1> QED
  BY <1>2, <1>3 DEF Newer

\* Newer is transitive.
LEMMA Transitive ==
  ASSUME NEW u \in Update, NEW v \in Update, NEW w \in Update,
         Newer(u, v), Newer(v, w)
  PROVE  Newer(u, w)
<1>1. /\ u.ts \in Nat /\ v.ts \in Nat /\ w.ts \in Nat
      /\ u.origin \in Nat /\ v.origin \in Nat /\ w.origin \in Nat
  BY UpdateFacts
<1> QED
  BY <1>1 DEF Newer

\* Set brings one more update into what an entry is the latest of.
LEMMA SetIsLatest ==
  ASSUME IInv, NEW d \in Devices, NEW u \in Update,
         SetKey(d, u), seen' = [seen EXCEPT ![d] = @ \cup {u}]
  PROVE  /\ values' \in [Devices -> [Keys -> Update \cup {NoEntry}]]
         /\ seen' \in [Devices -> SUBSET Update]
         /\ HoldsLatest'
<1> DEFINE cur == values[d][u.key]
           new == IF cur = NoEntry THEN u ELSE IF Newer(u, cur) THEN u ELSE cur
<1>1. values' = [values EXCEPT ![d] = [values[d] EXCEPT ![u.key] = new]]
  BY DEF SetKey
<1>2. u.key \in Keys /\ cur \in Update \cup {NoEntry}
  BY UpdateFacts DEF IInv, TypeOK
<1>3. new \in Update \cup {NoEntry}
  BY <1>2
<1>4. values' \in [Devices -> [Keys -> Update \cup {NoEntry}]]
  BY <1>1, <1>2, <1>3 DEF IInv, TypeOK
<1>5. seen' \in [Devices -> SUBSET Update]
  BY DEF IInv, TypeOK
<1>6. IsLatest(new, seen[d] \cup {u}, u.key)
  <2>1. IsLatest(cur, seen[d], u.key)
    BY <1>2 DEF IInv, HoldsLatest
  <2>2. ~Newer(u, u)
    BY UpdateFacts DEF Newer
  <2>3. u # NoEntry
    BY UpdateFacts
  <2>4. CASE cur = NoEntry
    <3>1. NoEntry \notin seen[d]
      BY UpdateFacts DEF IInv, TypeOK
    <3> QED
      BY <2>1, <2>2, <2>4, <3>1 DEF IsLatest
  <2>5. CASE cur # NoEntry /\ Newer(u, cur)
    <3>1. cur \in seen[d] /\ \A v \in seen[d] : v.key = u.key => ~Newer(v, cur)
      BY <2>1, <2>5 DEF IsLatest
    <3>2. ASSUME NEW v \in seen[d], v.key = u.key PROVE ~Newer(v, u)
      <4>1. v \in Update /\ cur \in Update
        BY <3>1 DEF IInv, TypeOK
      <4>2. Newer(v, u) => Newer(v, cur)
        BY <2>5, <4>1, Transitive
      <4> QED
        BY <3>1, <3>2, <4>2
    <3> QED
      BY <2>2, <2>5, <3>2 DEF IsLatest
  <2>6. CASE cur # NoEntry /\ ~Newer(u, cur)
    BY <2>1, <2>6 DEF IsLatest
  <2> QED
    BY <2>4, <2>5, <2>6
<1> HIDE DEF new
<1>7. ASSUME NEW e \in Devices, NEW k \in Keys PROVE IsLatest(values'[e][k], seen'[e], k)
  <2>1. IsLatest(values[e][k], seen[e], k)
    BY DEF IInv, HoldsLatest
  <2>2. CASE e # d
    BY <1>1, <2>1, <2>2 DEF IInv, TypeOK
  <2>3. CASE e = d /\ k = u.key
    BY <1>1, <1>2, <1>6, <2>3 DEF IInv, TypeOK
  <2>4. CASE e = d /\ k # u.key
    <3>1. values'[e][k] = values[e][k] /\ seen'[e] = seen[e] \cup {u}
      BY <1>1, <1>2, <2>4 DEF IInv, TypeOK
    <3> QED
      BY <2>1, <2>4, <3>1 DEF IsLatest
  <2> QED
    BY <2>2, <2>3, <2>4
<1> QED
  BY <1>4, <1>5, <1>7 DEF HoldsLatest

\* Initially no replica has seen or holds anything.
LEMMA InitIInv == Init => IInv
  BY SyncAssumption
     DEF SyncAssumption, Init, IInv, TypeOK, UpdatesDiffer, OnlySent, HoldsLatest, IsLatest

\* Every step keeps it: a Write or a delivery is a Set, and the steps of the
\* set leave the map alone and name only issued tags.
LEMMA StepIInv == IInv /\ [Next]_vars => IInv'
<1> SUFFICES ASSUME IInv, [Next]_vars PROVE IInv'
  OBVIOUS
<1>1. ASSUME NEW d \in Devices, NEW u \in Update, Write(d, u) PROVE IInv'
  <2>1. /\ sent' = sent \cup {u}
        /\ seen' = [seen EXCEPT ![d] = @ \cup {u}]
        /\ SetKey(d, u)
        /\ UNCHANGED <<added, removed, adds>>
    BY <1>1 DEF Write, setVars
  <2>2. UpdatesDiffer'
    BY <1>1, <2>1 DEF Write, IInv, UpdatesDiffer
  <2>3. OnlySent'
    BY <2>1 DEF IInv, TypeOK, OnlySent
  <2>4. TypeOK'
    BY <2>1, SetIsLatest DEF IInv, TypeOK, Issued
  <2> QED
    BY <2>1, <2>2, <2>3, <2>4, SetIsLatest DEF IInv
<1>2. ASSUME NEW d \in Devices, NEW u \in sent, Deliver(d, u) PROVE IInv'
  <2>1. /\ u \in Update
        /\ seen' = [seen EXCEPT ![d] = @ \cup {u}]
        /\ SetKey(d, u)
        /\ UNCHANGED <<sent, added, removed, adds>>
    BY <1>2 DEF Deliver, setVars, IInv, TypeOK
  <2>2. UpdatesDiffer' /\ OnlySent'
    BY <2>1 DEF IInv, TypeOK, UpdatesDiffer, OnlySent
  <2>3. TypeOK'
    BY <2>1, SetIsLatest DEF IInv, TypeOK, Issued
  <2> QED
    BY <2>1, <2>2, <2>3, SetIsLatest DEF IInv
<1>3. ASSUME UNCHANGED mapVars, TypeOK' PROVE IInv'
  BY <1>3 DEF mapVars, IInv, UpdatesDiffer, OnlySent, HoldsLatest
<1>4. ASSUME NEW d \in Devices, NEW x \in Elements, Add(d, x) PROVE IInv'
  <2>1. adds' \in [Devices -> 0 .. MaxTags] /\ \A e \in Devices : adds[e] <= adds'[e]
    BY <1>4, SyncAssumption DEF SyncAssumption, Add, IInv, TypeOK
  <2>2. Issued \subseteq Issued'
    <3> SUFFICES ASSUME NEW t \in Tags, t[2] <= adds[t[1]] PROVE t[2] <= adds'[t[1]]
      BY DEF Issued, Tags
    <3>1. t[1] \in Devices /\ t[2] \in Int
      BY SyncAssumption DEF SyncAssumption, Tags
    <3>2. adds[t[1]] \in Int /\ adds'[t[1]] \in Int /\ adds[t[1]] <= adds'[t[1]]
      BY <2>1, <3>1 DEF IInv, TypeOK
    <3> QED
      BY <3>1, <3>2
  <2>3. Tag(d) \in Issued'
    BY <1>4, SyncAssumption DEF SyncAssumption, Add, Tag, Issued, Tags, IInv, TypeOK
  <2>4. TypeOK'
    BY <1>4, <2>1, <2>2, <2>3 DEF Add, mapVars, IInv, TypeOK
  <2> QED
    BY <1>3, <1>4, <2>4 DEF Add
<1>5. ASSUME NEW d \in Devices, NEW x \in Elements, Remove(d, x) PROVE IInv'
  <2>1. TypeOK'
    BY <1>5 DEF Remove, Observed, mapVars, IInv, TypeOK, Issued
  <2> QED
    BY <1>3, <1>5, <2>1 DEF Remove
<1>6. ASSUME NEW d \in Devices, NEW plus \in SUBSET (Elements \X Issued),
             NEW minus \in SUBSET (Elements \X Issued), Merge(d, plus, minus)
      PROVE  IInv'
  <2>1. TypeOK'
    BY <1>6 DEF Merge, mapVars, IInv, TypeOK, Issued
  <2> QED
    BY <1>3, <1>6, <2>1 DEF Merge
<1>7. ASSUME NEW e \in Devices
      PROVE  added[e] \subseteq Elements \X Issued /\ removed[e] \subseteq Elements \X Issued
  BY DEF IInv, TypeOK
<1>8. CASE UNCHANGED vars
  BY <1>3, <1>8 DEF vars, mapVars, IInv, TypeOK, Issued
<1> QED
  BY <1>1, <1>2, <1>4, <1>5, <1>6, <1>7, <1>8 DEF Next

\* The maps, the sets and the tags are well formed, and no replica knows of a
\* tag that no device has issued.
THEOREM TypeCorrect == Spec => []TypeOK
<1>1. IInv => TypeOK
  BY DEF IInv
<1> QED
  BY <1>1, InitIInv, StepIInv, PTL DEF Spec

\* An entry is determined by the updates that were seen.
LEMMA LatestIsUnique ==
  ASSUME IInv, NEW us \in SUBSET sent, NEW k \in Keys, NEW e, NEW f,
         IsLatest(e, us, k), IsLatest(f, us, k)
  PROVE  e = f
<1>1. CASE e = NoEntry \/ f = NoEntry
  <2>1. \A u \in us : u # NoEntry
    BY UpdateFacts DEF IInv, TypeOK
  <2> QED
    BY <1>1, <2>1 DEF IsLatest
<1>2. CASE e # NoEntry /\ f # NoEntry
  <2>1. /\ e \in us /\ f \in us /\ e.key = f.key
        /\ ~Newer(e, f) /\ ~Newer(f, e)
    BY <1>2 DEF IsLatest
  <2> QED
    BY <2>1, Trichotomy DEF IInv
<1> QED
  BY <1>1, <1>2

\* Replicas of the map that the same updates reached are equal.
THEOREM Converges == Spec => []MapConverges
<1>1. IInv => MapConverges
  <2> SUFFICES ASSUME IInv, NEW d \in Devices, NEW e \in Devices, seen[d] = seen[e]
               PROVE  values[d] = values[e]
    BY DEF MapConverges
  <2>1. ASSUME NEW k \in Keys PROVE values[d][k] = values[e][k]
    BY LatestIsUnique DEF IInv, OnlySent, HoldsLatest
  <2> QED
    BY <2>1 DEF IInv, TypeOK
<1> QED
  BY <1>1, InitIInv, StepIInv, PTL DEF Spec

\* No step replaces an entry by an older one.
THEOREM NeverRollsBack == Spec => NoRollback
<1> DEFINE A == \A d \in Devices, k \in Keys :
                  values'[d][k] # values[d][k] =>
                     \/ values[d][k] = NoEntry
                     \/ /\ values'[d][k] # NoEntry
                        /\ Newer(values'[d][k], values[d][k])
<1>1. IInv /\ [Next]_vars => A
  <2> SUFFICES ASSUME IInv, Next \/ UNCHANGED vars PROVE A
    OBVIOUS
  <2>1. ASSUME NEW e \in Devices, NEW u \in Update, SetKey(e, u) PROVE A
    <3>1. u # NoEntry /\ u.key \in Keys
      BY UpdateFacts
    <3> QED
      BY <2>1, <3>1 DEF SetKey, IInv, TypeOK
  <2>2. CASE UNCHANGED values
    BY <2>2
  <2>3. sent \subseteq Update
    BY DEF IInv, TypeOK
  <2> QED
    BY <2>1, <2>2, <2>3
       DEF Next, Write, Deliver, Add, Remove, Merge, vars, mapVars
<1> QED
  BY <1>1, InitIInv, StepIInv, PTL DEF Spec, NoRollback

\* An add is visible at once, for its tag was issued to no earlier add, and so
\* no tombstone names it.
THEOREM AddShows == Spec => ReAddShows
<1> DEFINE A == \A d \in Devices, x \in Elements : Add(d, x) => Contains(d, x)'
<1>1. IInv /\ [Next]_vars => A
  <2> SUFFICES ASSUME IInv, NEW d \in Devices, NEW x \in Elements, Add(d, x)
               PROVE  Contains(d, x)'
    OBVIOUS
  <2>1. adds[d] \in Nat /\ Tag(d) = <<d, adds[d] + 1>>
    BY SyncAssumption DEF SyncAssumption, IInv, TypeOK, Tag
  <2>2. Tag(d) \in Tags /\ Tag(d) \notin Issued
    BY <2>1, SyncAssumption DEF SyncAssumption, Add, Issued, Tags
  <2>3. <<x, Tag(d)>> \in added'[d]
    BY DEF Add, IInv, TypeOK
  <2>4. <<x, Tag(d)>> \notin removed'[d]
    BY <2>2 DEF Add, IInv, TypeOK
  <2> QED
    BY <2>2, <2>3, <2>4 DEF Contains, Tags
<1> QED
  BY <1>1, InitIInv, StepIInv, PTL DEF Spec, ReAddShows
=============================================================================
