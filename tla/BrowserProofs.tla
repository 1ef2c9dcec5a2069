----------------------------- MODULE BrowserProofs -----------------------------
(***************************************************************************)
(* Theorems about what a browser keeps: the settings and their copy on the *)
(* server, the health of channels, and the cached playlist and guide; for  *)
(* any number of devices, settings, channels, accounts and playlists.      *)
(***************************************************************************)
EXTENDS SettingsSync, ChannelHealth, SourceCaches, RecursiveFunctions

(***************************************************************************)
(* The inductive invariant.  The flags of serverSync.ts exclude each other *)
(* and a page has no other PUT under way than the one it waits for, unless *)
(* one of its PUTs failed.                                                 *)
(***************************************************************************)
FlagsAgree ==
    \A d \in Devices : ~(timer[d] /\ inFlight[d]) /\ (pending[d] => inFlight[d])

PutsAreNumbered ==
    /\ \A r \in puts : r.load <= page[r.from].load
    /\ \A r \in puts : r.load = page[r.from].load => r.nr <= page[r.from].sent
    /\ \A d \in Devices : landed[d] <= page[d].sent

OnePutUnderWay ==
    \A r \in puts :
      r.load = page[r.from].load /\ ~spoilt[r.from] =>
        inFlight[r.from] /\ r.nr = page[r.from].sent

IInv ==
    /\ TypeOK
    /\ FlagsAgree
    /\ ChangesAreScheduled
    /\ HooksShowStorage
    /\ PutsAreNumbered
    /\ OnePutUnderWay

\* scheduleUp leaves a page with a timer, or with a PUT that ends in one.
LEMMA ScheduleUpFacts ==
  ASSUME TypeOK, FlagsAgree, NEW d \in Devices, ScheduleUp(d), UNCHANGED inFlight
  PROVE  /\ timer' \in [Devices -> BOOLEAN] /\ pending' \in [Devices -> BOOLEAN]
         /\ FlagsAgree'
         /\ timer'[d] \/ (inFlight'[d] /\ pending'[d])
         /\ \A e \in Devices : timer[e] \/ (inFlight[e] /\ pending[e])
                               => timer'[e] \/ (inFlight'[e] /\ pending'[e])
<1>1. timer' \in [Devices -> BOOLEAN] /\ pending' \in [Devices -> BOOLEAN]
  BY DEF ScheduleUp, TypeOK
<1>2. \A e \in Devices : /\ timer'[e] = (timer[e] \/ (e = d /\ ~inFlight[e]))
                         /\ pending'[e] = (pending[e] \/ (e = d /\ inFlight[e]))
  BY DEF ScheduleUp, TypeOK
<1> QED
  BY <1>1, <1>2 DEF FlagsAgree

\* The end of a PUT turns what was pending into a timer.
LEMMA PushEndsFacts ==
  ASSUME TypeOK, FlagsAgree, NEW d \in Devices, PushEnds(d)
  PROVE  /\ timer' \in [Devices -> BOOLEAN] /\ pending' \in [Devices -> BOOLEAN]
         /\ inFlight' \in [Devices -> BOOLEAN]
         /\ FlagsAgree'
         /\ \A e \in Devices \ {d} : inFlight'[e] = inFlight[e]
         /\ \A e \in Devices : timer[e] \/ (inFlight[e] /\ pending[e])
                               => timer'[e] \/ (inFlight'[e] /\ pending'[e])
<1>1. /\ timer' \in [Devices -> BOOLEAN] /\ pending' \in [Devices -> BOOLEAN]
      /\ inFlight' \in [Devices -> BOOLEAN]
  BY DEF PushEnds, TypeOK
<1>2. \A e \in Devices : /\ timer'[e] = (timer[e] \/ (e = d /\ pending[e]))
                         /\ pending'[e] = (pending[e] /\ e # d)
                         /\ inFlight'[e] = (inFlight[e] /\ e # d)
  BY DEF PushEnds, TypeOK
<1>3. \A e \in Devices \ {d} : inFlight'[e] = inFlight[e]
  BY DEF PushEnds, TypeOK
<1> QED
  BY <1>1, <1>2, <1>3 DEF FlagsAgree

\* A blob whose keys are merged into a store gives a store.
LEMMA AppliedIsBlob ==
  ASSUME NEW stored \in Blob, NEW blob \in Blob
  PROVE  Applied(stored, blob) \in Blob
  BY DEF Applied, Blob, Stored

LEMMA InitIInv == Init => IInv
<1> SUFFICES ASSUME Init PROVE IInv
  OBVIOUS
<1> USE SettingsAssumption DEF SettingsAssumption, Init
<1>1. server \in Blob /\ Nothing \in Blob
  BY DEF Blob, Stored, Nothing
<1>2. local \in [Devices -> Blob]
  BY <1>1
<1>3. TypeOK
  BY <1>1, <1>2 DEF TypeOK, Get, Page
<1> QED
  BY <1>3 DEF IInv, FlagsAgree, ChangesAreScheduled, HooksShowStorage, PutsAreNumbered,
              OnePutUnderWay

LEMMA StepIInv == IInv /\ [Next]_vars => IInv'
<1> SUFFICES ASSUME IInv, [Next]_vars PROVE IInv'
  OBVIOUS
<1> USE SettingsAssumption DEF SettingsAssumption, IInv
<1>1. ASSUME NEW d \in Devices, PushNow(d) PROVE IInv'
  <2> DEFINE new == [from |-> d, load |-> page[d].load, nr |-> page[d].sent + 1,
                     blob |-> local[d]]
  <2>1. page[d] \in Page /\ local[d] \in Blob
    BY DEF TypeOK
  <2>2. new \in Put /\ puts' = puts \cup {new}
    BY <1>1, <2>1 DEF PushNow, Put, Page
  <2>3. /\ page' \in [Devices -> Page]
        /\ \A e \in Devices : page'[e].load = page[e].load
        /\ \A e \in Devices \ {d} : page'[e] = page[e]
        /\ page'[d].sent = page[d].sent + 1
    BY <1>1, <2>1 DEF PushNow, TypeOK, Page
  <2>4. TypeOK'
    BY <1>1, <2>2, <2>3 DEF PushNow, TypeOK
  <2>5. FlagsAgree' /\ ChangesAreScheduled' /\ HooksShowStorage'
    BY <1>1 DEF PushNow, TypeOK, FlagsAgree, ChangesAreScheduled, HooksShowStorage
  <2>6. PutsAreNumbered'
    BY <1>1, <2>1, <2>2, <2>3 DEF PushNow, TypeOK, PutsAreNumbered, Put, Page
  <2>7. OnePutUnderWay'
    <3> SUFFICES ASSUME NEW r \in puts', r.load = page'[r.from].load, ~spoilt'[r.from]
                 PROVE  inFlight'[r.from] /\ r.nr = page'[r.from].sent
      BY DEF OnePutUnderWay
    <3>1. CASE r = new
      BY <3>1, <1>1, <2>1, <2>3 DEF PushNow, TypeOK
    <3>2. CASE r \in puts
      <4>1. r.from \in Devices /\ inFlight[r.from] /\ r.nr = page[r.from].sent
        BY <3>2, <2>3, <1>1 DEF PushNow, OnePutUnderWay, TypeOK, Put
      <4>2. r.from # d
        BY <4>1, <1>1 DEF PushNow, FlagsAgree
      <4> QED
        BY <4>1, <4>2, <1>1, <2>3 DEF PushNow, TypeOK
    <3> QED
      BY <3>1, <3>2, <2>2
  <2> QED
    BY <2>4, <2>5, <2>6, <2>7
<1>2. ASSUME NEW d \in Devices, NEW k \in Keys, Mount(d, k) PROVE IInv'
  <2>1. local[d] \in Blob /\ Read(local[d][k]) \in Values \cup {Default}
    BY DEF TypeOK, Blob, Stored, Read
  <2>2. ScheduleUp(d) /\ UNCHANGED inFlight
    BY <1>2 DEF Mount
  <2>3. /\ local' \in [Devices -> Blob]
        /\ \A e \in Devices, j \in Keys :
             local'[e][j] = IF e = d /\ j = k THEN Read(local[d][k]) ELSE local[e][j]
    BY <1>2, <2>1 DEF Mount, TypeOK, Blob, Stored
  <2>4. /\ shown' \in [Devices -> [Keys -> Values \cup {Default, Unmounted}]]
        /\ \A e \in Devices, j \in Keys :
             shown'[e][j] = IF e = d /\ j = k THEN Read(local[d][k]) ELSE shown[e][j]
    BY <1>2, <2>1 DEF Mount, TypeOK
  <2>5. TypeOK'
    BY <1>2, <2>2, <2>3, <2>4, ScheduleUpFacts DEF Mount, Act, TypeOK
  <2>6. HooksShowStorage'
    BY <2>3, <2>4 DEF HooksShowStorage
  <2>7. FlagsAgree' /\ ChangesAreScheduled'
    BY <1>2, <2>2, ScheduleUpFacts DEF Mount, ChangesAreScheduled
  <2>8. PutsAreNumbered' /\ OnePutUnderWay'
    BY <1>2 DEF Mount, PutsAreNumbered, OnePutUnderWay
  <2> QED
    BY <2>5, <2>6, <2>7, <2>8
<1>3. ASSUME NEW d \in Devices, NEW k \in Keys, Unmount(d, k) PROVE IInv'
  <2>1. TypeOK'
    BY <1>3 DEF Unmount, Act, TypeOK
  <2>2. HooksShowStorage'
    BY <1>3 DEF Unmount, TypeOK, HooksShowStorage
  <2> QED
    BY <1>3, <2>1, <2>2 DEF Unmount, FlagsAgree, ChangesAreScheduled, PutsAreNumbered,
                            OnePutUnderWay
<1>4. ASSUME NEW d \in Devices, NEW k \in Keys, NEW v \in Values, Edit(d, k, v) PROVE IInv'
  <2>1. ScheduleUp(d) /\ UNCHANGED inFlight
    BY <1>4 DEF Edit
  <2>2. /\ local' \in [Devices -> Blob]
        /\ \A e \in Devices, j \in Keys :
             local'[e][j] = IF e = d /\ j = k THEN v ELSE local[e][j]
    BY <1>4 DEF Edit, TypeOK, Blob, Stored
  <2>3. /\ shown' \in [Devices -> [Keys -> Values \cup {Default, Unmounted}]]
        /\ \A e \in Devices, j \in Keys :
             shown'[e][j] = IF e = d /\ j = k THEN v ELSE shown[e][j]
    BY <1>4 DEF Edit, TypeOK
  <2>4. /\ changed' \in [Devices -> SUBSET Keys] /\ undone' \in [Devices -> SUBSET Keys]
        /\ \A e \in Devices \ {d} : changed'[e] = changed[e]
    BY <1>4 DEF Edit, TypeOK
  <2>5. TypeOK'
    BY <1>4, <2>1, <2>2, <2>3, <2>4, ScheduleUpFacts DEF Edit, Act, TypeOK
  <2>6. HooksShowStorage'
    BY <2>2, <2>3 DEF HooksShowStorage
  <2>7. FlagsAgree' /\ ChangesAreScheduled'
    BY <2>1, <2>4, ScheduleUpFacts DEF ChangesAreScheduled
  <2>8. PutsAreNumbered' /\ OnePutUnderWay'
    BY <1>4 DEF Edit, PutsAreNumbered, OnePutUnderWay
  <2> QED
    BY <2>5, <2>6, <2>7, <2>8
<1>5. ASSUME NEW d \in Devices, Reload(d) PROVE IInv'
  <2>1. /\ page' \in [Devices -> Page]
        /\ page'[d].load = page[d].load + 1 /\ page[d].load \in Nat
        /\ \A e \in Devices \ {d} : page'[e] = page[e]
    BY <1>5 DEF Reload, TypeOK, Page
  <2>2. shown' \in [Devices -> [Keys -> Values \cup {Default, Unmounted}]]
    BY <1>5 DEF Reload, TypeOK
  <2>3. get' \in [Devices -> Get]
    BY <1>5 DEF Reload, TypeOK, Get
  <2>4. TypeOK'
    BY <1>5, <2>1, <2>2, <2>3 DEF Reload, Act, TypeOK
  <2>5. FlagsAgree' /\ ChangesAreScheduled'
    BY <1>5 DEF Reload, TypeOK, FlagsAgree, ChangesAreScheduled
  <2>6. HooksShowStorage'
    BY <1>5 DEF Reload, TypeOK, HooksShowStorage
  <2>7. ASSUME NEW r \in puts
        PROVE  /\ r.from \in Devices /\ r.load \in Nat
               /\ r.load <= page'[r.from].load
               /\ r.load = page'[r.from].load => r.from # d
    <3>1. r.from \in Devices /\ r.load \in Nat /\ page[r.from].load \in Nat
      BY DEF TypeOK, Put, Page
    <3>2. r.load <= page[r.from].load
      BY DEF PutsAreNumbered
    <3> QED
      BY <3>1, <3>2, <2>1
  <2>8. PutsAreNumbered'
    <3>1. \A r \in puts : r.load = page'[r.from].load => r.nr <= page'[r.from].sent
      BY <2>1, <2>7 DEF PutsAreNumbered
    <3>2. \A e \in Devices : landed'[e] <= page'[e].sent
      BY <1>5, <2>1 DEF Reload, TypeOK, PutsAreNumbered
    <3> QED
      BY <1>5, <2>7, <3>1, <3>2 DEF Reload, PutsAreNumbered
  <2>9. OnePutUnderWay'
    BY <1>5, <2>1, <2>7 DEF Reload, TypeOK, OnePutUnderWay
  <2> QED
    BY <2>4, <2>5, <2>6, <2>8, <2>9
<1>6. ASSUME NEW d \in Devices, SyncDown(d) \/ ServerGet(d) \/ GetFails(d) PROVE IInv'
  <2>1. [step |-> "sent"] \in Get /\ NoGet \in Get /\ [step |-> "read", blob |-> server] \in Get
    BY DEF TypeOK, Get
  <2>2. get' \in [Devices -> Get] /\ acts' \in 0 .. MaxActs /\ faults' \in 0 .. MaxFaults
    <3>1. CASE SyncDown(d)
      BY <3>1, <2>1 DEF SyncDown, Act, TypeOK
    <3>2. CASE ServerGet(d)
      BY <3>2, <2>1 DEF ServerGet, TypeOK
    <3>3. CASE GetFails(d)
      BY <3>3, <2>1 DEF GetFails, Fault, TypeOK
    <3> QED
      BY <3>1, <3>2, <3>3, <1>6
  <2>3. UNCHANGED <<server, local, shown, timer, inFlight, pending, puts, changed, undone, page,
                    landed, spoilt>>
    BY <1>6 DEF SyncDown, ServerGet, GetFails
  <2>4. TypeOK'
    BY <2>2, <2>3 DEF TypeOK
  <2> QED
    BY <2>3, <2>4 DEF FlagsAgree, ChangesAreScheduled, HooksShowStorage, PutsAreNumbered,
                      OnePutUnderWay
<1>7. ASSUME NEW d \in Devices, GetAnswered(d) PROVE IInv'
  <2> DEFINE now == Applied(local[d], get[d].blob)
             hooks == Rehydrated(shown[d], now)
  <2>1. get[d].blob \in Blob
    BY <1>7 DEF GetAnswered, TypeOK, Get, NoGet
  <2>2. now \in Blob
    BY <2>1, AppliedIsBlob DEF TypeOK
  <2>3. /\ hooks \in [Keys -> Values \cup {Default, Unmounted}]
        /\ \A k \in Keys : hooks[k] \in {Unmounted, now[k]}
    <3>1. ASSUME NEW k \in Keys, shown[d][k] # Unmounted, now[k] = Absent PROVE FALSE
      <4>1. shown[d][k] = local[d][k] /\ shown[d][k] # Absent
        BY <3>1 DEF HooksShowStorage, TypeOK
      <4>2. now[k] = IF get[d].blob[k] = Absent THEN local[d][k] ELSE get[d].blob[k]
        BY DEF Applied
      <4> QED
        BY <3>1, <4>1, <4>2
    <3>2. ASSUME NEW k \in Keys
          PROVE  hooks[k] \in {Unmounted, now[k]} /\ hooks[k] \in Values \cup {Default, Unmounted}
      BY <3>1, <2>2 DEF Rehydrated, Blob, Stored, TypeOK
    <3>3. hooks = [k \in Keys |-> hooks[k]]
      BY DEF Rehydrated
    <3> QED
      BY <3>2, <3>3
  <2>4. /\ local' = [local EXCEPT ![d] = now]
        /\ shown' = [shown EXCEPT ![d] = hooks]
        /\ get' = [get EXCEPT ![d] = NoGet]
        /\ UNCHANGED <<server, inFlight, puts, page, landed, spoilt, acts, faults>>
    BY <1>7 DEF GetAnswered
  <2>10. /\ changed' \in [Devices -> SUBSET Keys] /\ undone' \in [Devices -> SUBSET Keys]
         /\ \A e \in Devices : changed'[e] \subseteq changed[e]
    <3>1. PICK lost \in SUBSET changed[d] :
            /\ changed' = [changed EXCEPT ![d] = @ \ lost]
            /\ undone' = [undone EXCEPT ![d] = @ \cup lost]
      BY <1>7 DEF GetAnswered
    <3> QED
      BY <3>1 DEF TypeOK
  <2>5. /\ timer' \in [Devices -> BOOLEAN] /\ pending' \in [Devices -> BOOLEAN]
        /\ FlagsAgree'
        /\ \A e \in Devices : timer[e] \/ (inFlight[e] /\ pending[e])
                              => timer'[e] \/ (inFlight'[e] /\ pending'[e])
    <3>1. CASE UNCHANGED <<timer, pending>>
      BY <3>1, <2>4 DEF TypeOK, FlagsAgree
    <3>2. CASE ScheduleUp(d)
      BY <3>2, <2>4, ScheduleUpFacts
    <3> QED
      BY <3>1, <3>2, <1>7 DEF GetAnswered
  <2> HIDE DEF now, hooks
  <2>6. TypeOK'
    BY <2>2, <2>3, <2>4, <2>5, <2>10 DEF TypeOK, Get
  <2>7. HooksShowStorage'
    BY <2>3, <2>4 DEF HooksShowStorage, TypeOK
  <2>8. ChangesAreScheduled'
    BY <2>4, <2>5, <2>10 DEF ChangesAreScheduled
  <2>9. PutsAreNumbered' /\ OnePutUnderWay'
    BY <2>4 DEF PutsAreNumbered, OnePutUnderWay
  <2> QED
    BY <2>5, <2>6, <2>7, <2>8, <2>9
<1>8. ASSUME NEW d \in Devices, PutAnswered(d) \/ PutFails(d) PROVE IInv'
  <2>1. PushEnds(d) /\ inFlight[d]
    BY <1>8 DEF PutAnswered, PutFails
  <2>2. /\ UNCHANGED <<server, local, shown, puts, get, changed, undone, page, landed, acts>>
        /\ faults' \in 0 .. MaxFaults
    BY <1>8 DEF PutAnswered, PutFails, Fault, TypeOK
  <2>3. /\ spoilt' \in [Devices -> BOOLEAN]
        /\ \A e \in Devices : ~spoilt'[e] => ~spoilt[e]
    <3>1. CASE PutAnswered(d)
      BY <3>1 DEF PutAnswered, TypeOK
    <3>2. CASE PutFails(d)
      BY <3>2 DEF PutFails, TypeOK
    <3> QED
      BY <3>1, <3>2, <1>8
  <2>4. TypeOK'
    BY <2>1, <2>2, <2>3, PushEndsFacts DEF TypeOK
  <2>5. FlagsAgree' /\ ChangesAreScheduled' /\ HooksShowStorage' /\ PutsAreNumbered'
    BY <2>1, <2>2, PushEndsFacts DEF ChangesAreScheduled, HooksShowStorage, PutsAreNumbered
  <2>6. OnePutUnderWay'
    <3> SUFFICES ASSUME NEW r \in puts, r.load = page[r.from].load, ~spoilt'[r.from]
                 PROVE  inFlight'[r.from] /\ r.nr = page[r.from].sent
      BY <2>2, <2>3 DEF OnePutUnderWay
    <3>1. /\ r.from \in Devices /\ page[r.from] \in Page
          /\ inFlight[r.from] /\ r.nr = page[r.from].sent
      BY <2>2, <2>3 DEF OnePutUnderWay, TypeOK, Put
    <3>2. r.from # d
      <4>1. CASE PutAnswered(d)
        BY <4>1, <3>1 DEF PutAnswered, Awaited, Page
      <4>2. CASE PutFails(d)
        BY <4>2 DEF PutFails, TypeOK
      <4> QED
        BY <4>1, <4>2, <1>8
    <3> QED
      BY <2>1, <3>1, <3>2, PushEndsFacts
  <2> QED
    BY <2>4, <2>5, <2>6
<1>9. ASSUME NEW r \in puts, ServerPut(r) PROVE IInv'
  <2>1. r \in Put /\ r.from \in Devices /\ r.nr \in Nat
    BY DEF TypeOK, Put
  <2>2. landed' \in [Devices -> Nat]
    BY <1>9, <2>1 DEF ServerPut, TypeOK
  <2>3. \A e \in Devices : landed'[e] <= page[e].sent
    BY <1>9, <2>1 DEF ServerPut, TypeOK, PutsAreNumbered
  <2>4. TypeOK'
    BY <1>9, <2>1, <2>2 DEF ServerPut, TypeOK, Put
  <2> QED
    BY <1>9, <2>3, <2>4 DEF ServerPut, FlagsAgree, ChangesAreScheduled, HooksShowStorage,
                            PutsAreNumbered, OnePutUnderWay
<1>10. ASSUME NEW r \in puts, PutLost(r) PROVE IInv'
  <2>1. TypeOK'
    <3>1. spoilt' \in [Devices -> BOOLEAN]
      BY <1>10 DEF PutLost, TypeOK
    <3> QED
      BY <1>10, <3>1 DEF PutLost, Fault, TypeOK
  <2>2. \A e \in Devices : ~spoilt'[e] => ~spoilt[e]
    BY <1>10 DEF PutLost, TypeOK
  <2>3. OnePutUnderWay'
    BY <1>10, <2>2 DEF PutLost, OnePutUnderWay, TypeOK, Put
  <2> QED
    BY <1>10, <2>1, <2>3 DEF PutLost, FlagsAgree, ChangesAreScheduled, HooksShowStorage,
                             PutsAreNumbered
<1>11. CASE UNCHANGED vars
  BY <1>11 DEF vars, pageVars, TypeOK, FlagsAgree, ChangesAreScheduled, HooksShowStorage,
               PutsAreNumbered, OnePutUnderWay
<1> QED
  BY <1>1, <1>2, <1>3, <1>4, <1>5, <1>6, <1>7, <1>8, <1>9, <1>10, <1>11
     DEF Next, DeviceStep

\* The state of pages, requests and server stays well-formed.
THEOREM TypeCorrect == Spec => []TypeOK
<1>1. IInv => TypeOK
  BY DEF IInv
<1> QED
  BY InitIInv, StepIInv, <1>1, PTL DEF Spec

\* serverSync.ts:169: a change that was not sent always has a PUT to come.
THEOREM Scheduled == Spec => []ChangesAreScheduled
<1>1. IInv => ChangesAreScheduled
  BY DEF IInv
<1> QED
  BY InitIInv, StepIInv, <1>1, PTL DEF Spec

\* Hooks and localStorage agree whenever the page draws.
THEOREM InStep == Spec => []HooksShowStorage
<1>1. IInv => HooksShowStorage
  BY DEF IInv
<1> QED
  BY InitIInv, StepIInv, <1>1, PTL DEF Spec

\* A page's PUTs take effect in order: what takes effect is the last one sent.
THEOREM InOrder == Spec => PutsTakeEffectInOrder
<1> DEFINE Order == \A d \in Devices :
             page'[d].load = page[d].load /\ ~spoilt[d] => landed'[d] >= landed[d]
<1>1. IInv /\ [Next]_vars => [Order]_vars
  <2> SUFFICES ASSUME IInv, Next PROVE Order
    BY DEF vars
  <2> SUFFICES ASSUME NEW d \in Devices, page'[d].load = page[d].load, ~spoilt[d]
               PROVE  landed'[d] >= landed[d]
    OBVIOUS
  <2>0. landed[d] \in Nat /\ page[d] \in Page
    BY DEF IInv, TypeOK
  <2>1. CASE UNCHANGED landed
    BY <2>0, <2>1
  <2>2. ASSUME NEW e \in Devices, Reload(e) PROVE landed'[d] >= landed[d]
    <3>1. d # e
      BY <2>0, <2>2 DEF Reload, IInv, TypeOK, Page
    <3> QED
      BY <2>0, <2>2, <3>1 DEF Reload, IInv, TypeOK
  <2>3. ASSUME NEW r \in puts, ServerPut(r) PROVE landed'[d] >= landed[d]
    <3>1. r.from \in Devices /\ r.nr \in Nat /\ landed \in [Devices -> Nat]
      BY DEF IInv, TypeOK, Put
    <3>2. CASE r.from = d /\ page[d].load = r.load
      <4>1. r.nr = page[d].sent /\ landed[d] <= page[d].sent
        BY <3>2 DEF IInv, OnePutUnderWay, PutsAreNumbered
      <4> QED
        BY <2>0, <2>3, <3>1, <3>2, <4>1 DEF ServerPut, Page
    <3>3. CASE ~(r.from = d /\ page[d].load = r.load)
      BY <2>0, <2>3, <3>1, <3>3 DEF ServerPut
    <3> QED
      BY <3>2, <3>3
  <2> QED
    BY <2>1, <2>2, <2>3 DEF Next, DeviceStep, PushNow, Mount, Unmount, Edit, SyncDown,
       ServerGet, GetAnswered, GetFails, PutAnswered, PutFails, PutLost
<1> QED
  BY InitIInv, StepIInv, <1>1, PTL DEF Spec, PutsTakeEffectInOrder

----------------------------------------------------------------------------
(***************************************************************************)
(* Channel health.  A sweep under way has answers in for the channels of   *)
(* its slices, and no answer it could not have had; and a channel that was *)
(* found unplayable keeps as many failures of the player on record as hide *)
(* it, which is what ReportOk looks at.                                    *)
(***************************************************************************)
Asking(s) ==
    /\ DOMAIN s = {"step", "left", "at", "slices", "waiting", "heard"}
    /\ s.step = "asking" /\ s.left \in 1 .. Rounds /\ s.at \in Channels
    /\ DOMAIN s.slices \subseteq 1 .. Parallel /\ DOMAIN s.heard = DOMAIN s.slices
    /\ s.waiting \subseteq DOMAIN s.slices
    /\ \A i \in DOMAIN s.slices :
         /\ s.slices[i] \subseteq Channels
         /\ s.heard[i] \in [s.slices[i] -> Verdict]

Swept == sweep = Idle \/ Asking(sweep)

CountedRecord == {rec \in Record : rec.unplayable => rec.playFails >= FailThreshold}

HealthInv ==
    /\ upstream \in [Channels -> Upstreams]
    /\ store \in [Channels -> CountedRecord]
    /\ cursor \in Channels
    /\ Swept
    /\ recheck \subseteq Channels
    /\ healthActs \in 0 .. MaxHealthActs /\ healthFaults \in 0 .. MaxHealthFaults

(* What the player left on a record is the same on both.                   *)
SamePlayback(a, b) == a.playFails = b.playFails /\ a.unplayable = b.unplayable

LEMMA FreshIsCounted == NoRecord \in CountedRecord
<1>1. 0 \in 0 .. ProbeThreshold /\ 0 \in 0 .. FailThreshold
  BY HealthAssumption
<1>2. NoRecord \in Record
  BY <1>1 DEF NoRecord, Record
<1>3. ~NoRecord.unplayable
  BY DEF NoRecord
<1> QED
  BY <1>2, <1>3 DEF CountedRecord

LEMMA OkKeepsCount ==
  ASSUME NEW rec \in CountedRecord, NEW source
  PROVE  ReportOk(rec, source) \in CountedRecord
<1>1. /\ rec \in Record /\ rec.unplayable \in BOOLEAN
      /\ 0 \in 0 .. ProbeThreshold /\ 0 \in 0 .. FailThreshold
      /\ rec.playFails \in 0 .. FailThreshold
      /\ rec.unplayable => rec.playFails >= FailThreshold
  BY HealthAssumption DEF CountedRecord, Record
<1> DEFINE n == IF source = "playback" THEN 0 ELSE rec.playFails
           u == source # "playback" /\ rec.unplayable
<1>2. n \in 0 .. FailThreshold /\ u \in BOOLEAN /\ (u => n >= FailThreshold)
  BY <1>1
<1> HIDE DEF n, u
<1>3. [fails |-> 0, playFails |-> n, unplayable |-> u] \in CountedRecord
  BY <1>1, <1>2 DEF CountedRecord, Record
<1> QED
  BY <1>3 DEF ReportOk, n, u

LEMMA FailKeepsCount ==
  ASSUME NEW rec \in CountedRecord, NEW source, NEW permanent \in BOOLEAN
  PROVE  ReportFail(rec, source, permanent) \in CountedRecord
<1>1. /\ rec \in Record /\ rec.unplayable \in BOOLEAN
      /\ rec.fails \in 0 .. ProbeThreshold /\ rec.playFails \in 0 .. FailThreshold
      /\ ProbeThreshold \in Nat \ {0} /\ FailThreshold \in Nat \ {0}
      /\ rec.unplayable => rec.playFails >= FailThreshold
  BY HealthAssumption DEF CountedRecord, Record
<1>2. /\ Least(rec.fails + 1, ProbeThreshold) \in 0 .. ProbeThreshold
      /\ Least(rec.playFails + 1, FailThreshold) \in 0 .. FailThreshold
      /\ Least(rec.playFails + FailThreshold, FailThreshold) = FailThreshold
  BY <1>1 DEF Least
<1>3. Least(rec.playFails + 1, FailThreshold) >= rec.playFails
  BY <1>1 DEF Least
<1>4. CASE source = "probe"
  BY <1>1, <1>2, <1>4 DEF ReportFail, CountedRecord, Record
<1>5. CASE source # "probe"
  <2> DEFINE n == Least(rec.playFails + (IF permanent THEN FailThreshold ELSE 1), FailThreshold)
             u == rec.unplayable \/ permanent
  <2>1. n \in 0 .. FailThreshold /\ u \in BOOLEAN /\ (u => n >= FailThreshold)
    BY <1>1, <1>2, <1>3
  <2>2. ReportFail(rec, source, permanent) = [rec EXCEPT !.playFails = n, !.unplayable = u]
    BY <1>5 DEF ReportFail
  <2> HIDE DEF n, u
  <2>3. [rec EXCEPT !.playFails = n, !.unplayable = u] \in CountedRecord
    BY <1>1, <2>1 DEF CountedRecord, Record
  <2> QED
    BY <2>2, <2>3
<1> QED
  BY <1>4, <1>5

(* What a probe brings does not touch what the player recorded.            *)
LEMMA VerdictKeepsPlayback ==
  ASSUME NEW rec \in CountedRecord, NEW answer \in Verdict
  PROVE  /\ Recorded(rec, answer) \in CountedRecord
         /\ SamePlayback(Recorded(rec, answer), rec)
<1>1. CASE answer = "yes"
  <2>1. Recorded(rec, answer) = ReportOk(rec, "probe")
    BY <1>1 DEF Recorded
  <2>2. SamePlayback(ReportOk(rec, "probe"), rec)
    BY DEF ReportOk, SamePlayback, CountedRecord, Record
  <2> QED
    BY <2>1, <2>2, OkKeepsCount
<1>2. CASE answer = "no"
  <2>1. Recorded(rec, answer) = ReportFail(rec, "probe", FALSE)
    BY <1>2 DEF Recorded
  <2>2. SamePlayback(ReportFail(rec, "probe", FALSE), rec)
    BY DEF ReportFail, SamePlayback, CountedRecord, Record
  <2> QED
    BY <2>1, <2>2, FailKeepsCount
<1>3. CASE answer = "null"
  BY <1>3 DEF Recorded, SamePlayback
<1> QED
  BY <1>1, <1>2, <1>3 DEF Verdict

(***************************************************************************)
(* The slices of a sweep, taken in turn: records that keep their shape and *)
(* what the player left on them, and a sum of steps of the cursor.         *)
(***************************************************************************)
Kept == {s \in [Channels -> CountedRecord] : \A c \in Channels : SamePlayback(s[c], store[c])}

LEMMA NotedKeepsPlayback ==
  ASSUME NEW s \in Kept, NEW X, NEW heard \in [X -> Verdict]
  PROVE  Noted(s, heard) \in Kept
<1>1. ASSUME NEW c \in Channels
      PROVE  /\ Noted(s, heard)[c] \in CountedRecord
             /\ SamePlayback(Noted(s, heard)[c], store[c])
  <2>1. s[c] \in CountedRecord /\ SamePlayback(s[c], store[c])
    BY DEF Kept
  <2>2. CASE c \in X /\ ~Discarded(heard)
    <3>1. Noted(s, heard)[c] = Recorded(s[c], heard[c]) /\ heard[c] \in Verdict
      BY <2>2 DEF Noted
    <3> QED
      BY <2>1, <3>1, VerdictKeepsPlayback DEF SamePlayback
  <2>3. CASE ~(c \in X /\ ~Discarded(heard))
    <3>1. Noted(s, heard)[c] = s[c]
      BY <2>3 DEF Noted
    <3> QED
      BY <2>1, <3>1
  <2> QED
    BY <2>2, <2>3
<1>2. Noted(s, heard) = [c \in Channels |-> Noted(s, heard)[c]]
  BY DEF Noted
<1> QED
  BY <1>1, <1>2 DEF Kept

LEMMA SlicesAreNoted ==
  ASSUME HealthInv, NEW heard,
         \A i \in DOMAIN heard : \E X : heard[i] \in [X -> Verdict]
  PROVE  NotedInTurn(heard) \in Kept
<1> DEFINE m == Parallel
           Step(f, i) == IF i = 0 THEN store
                         ELSE IF i \in DOMAIN heard THEN Noted(f[i - 1], heard[i]) ELSE f[i - 1]
           InTurn(f) == f = [i \in 0 .. m |-> Step(f, i)]
           G == [i \in 1 .. m |-> [s \in Kept |->
                   IF i \in DOMAIN heard THEN Noted(s, heard[i]) ELSE s]]
<1>1. m \in Nat /\ store \in Kept
  BY HealthAssumption DEF HealthInv, Kept, SamePlayback
<1>2. ASSUME NEW i \in 1 .. m, NEW s \in Kept, i \in DOMAIN heard
      PROVE  Noted(s, heard[i]) \in Kept
  BY <1>2, NotedKeepsPlayback
<1>3. G \in [1 .. m -> [Kept -> Kept]]
  BY <1>2
<1>4. \E f : InTurn(f)
  <2> HIDE DEF G, m
  <2>1. PICK f \in [0 .. m -> Kept] : f[0] = store /\ \A i \in 1 .. m : f[i] = G[i][f[i - 1]]
    <3>1. Recursive(m, store, Kept, G)
      BY <1>1, <1>3, Recursion
    <3> QED
      BY <3>1 DEF Recursive
  <2>2. ASSUME NEW i \in 0 .. m PROVE f[i] = Step(f, i)
    <3>1. CASE i = 0
      BY <2>1, <3>1
    <3>2. CASE i # 0
      <4>1. i \in 1 .. m /\ i - 1 \in 0 .. m
        BY <1>1, <3>2
      <4>2. f[i] = G[i][f[i - 1]] /\ f[i - 1] \in Kept
        BY <2>1, <4>1
      <4> QED
        BY <3>2, <4>1, <4>2 DEF G
    <3> QED
      BY <3>1, <3>2
  <2>3. f = [i \in 0 .. m |-> f[i]]
    BY <2>1
  <2> HIDE DEF Step
  <2>4. InTurn(f)
    BY <2>2, <2>3
  <2> QED
    BY <2>4
<1> DEFINE after == CHOOSE f : InTurn(f)
<1>5. NotedInTurn(heard) = after[m]
  BY DEF NotedInTurn
<1>6. InTurn(after)
  <2> HIDE DEF InTurn
  <2> QED
    BY <1>4
<1> HIDE DEF after
<1>7. ASSUME NEW i \in 1 .. m, after[i - 1] \in Kept PROVE after[i] \in Kept
  <2>1. i # 0 /\ i \in 0 .. m
    BY <1>1
  <2>2. after[i] = Step(after, i)
    BY <1>6, <2>1
  <2> QED
    BY <1>2, <1>7, <2>1, <2>2
<1>8. after[0] = store /\ after = [i \in 0 .. m |-> after[i]]
  <2>1. 0 \in 0 .. m
    BY <1>1
  <2>2. after[0] = Step(after, 0)
    BY <1>6, <2>1
  <2>3. after[0] = store
    BY <2>2
  <2>4. after = [i \in 0 .. m |-> after[i]]
    <3> HIDE DEF Step
    <3> QED
      BY <1>6
  <2> QED
    BY <2>3, <2>4
<1>9. after \in [0 .. m -> Kept]
  <2> HIDE DEF m, InTurn
  <2> QED
    BY <1>1, <1>7, <1>8, HandedOn
<1> HIDE DEF m
<1> QED
  BY <1>1, <1>5, <1>9

LEMMA TotalIsNat ==
  ASSUME NEW g, \A i \in DOMAIN g : g[i] \in Nat
  PROVE  Total(g) \in Nat
<1> DEFINE m == Parallel
           Step(f, i) == IF i = 0 THEN 0
                         ELSE f[i - 1] + (IF i \in DOMAIN g THEN g[i] ELSE 0)
           InTurn(f) == f = [i \in 0 .. m |-> Step(f, i)]
           G == [i \in 1 .. m |-> [n \in Nat |-> n + (IF i \in DOMAIN g THEN g[i] ELSE 0)]]
<1>1. m \in Nat /\ 0 \in Nat
  BY HealthAssumption
<1>2. ASSUME NEW i, NEW n \in Nat PROVE n + (IF i \in DOMAIN g THEN g[i] ELSE 0) \in Nat
  OBVIOUS
<1>3. G \in [1 .. m -> [Nat -> Nat]]
  BY <1>2
<1>4. \E f : InTurn(f)
  <2> HIDE DEF G, m
  <2>1. PICK f \in [0 .. m -> Nat] : f[0] = 0 /\ \A i \in 1 .. m : f[i] = G[i][f[i - 1]]
    <3>1. Recursive(m, 0, Nat, G)
      BY <1>1, <1>3, Recursion
    <3> QED
      BY <3>1 DEF Recursive
  <2>2. ASSUME NEW i \in 0 .. m PROVE f[i] = Step(f, i)
    <3>1. CASE i = 0
      BY <2>1, <3>1
    <3>2. CASE i # 0
      <4>1. i \in 1 .. m /\ i - 1 \in 0 .. m
        BY <1>1, <3>2
      <4>2. f[i] = G[i][f[i - 1]] /\ f[i - 1] \in Nat
        BY <2>1, <4>1
      <4> QED
        BY <3>2, <4>1, <4>2 DEF G
    <3> QED
      BY <3>1, <3>2
  <2>3. f = [i \in 0 .. m |-> f[i]]
    BY <2>1
  <2> HIDE DEF Step
  <2>4. InTurn(f)
    BY <2>2, <2>3
  <2> QED
    BY <2>4
<1> DEFINE upTo == CHOOSE f : InTurn(f)
<1>5. Total(g) = upTo[m]
  BY DEF Total
<1>6. InTurn(upTo)
  <2> HIDE DEF InTurn
  <2> QED
    BY <1>4
<1> HIDE DEF upTo
<1>7. ASSUME NEW i \in 1 .. m, upTo[i - 1] \in Nat PROVE upTo[i] \in Nat
  <2>1. i # 0 /\ i \in 0 .. m
    BY <1>1
  <2>2. upTo[i] = Step(upTo, i)
    BY <1>6, <2>1
  <2> QED
    BY <1>2, <1>7, <2>1, <2>2
<1>8. upTo[0] = 0 /\ upTo = [i \in 0 .. m |-> upTo[i]]
  <2>1. 0 \in 0 .. m
    BY <1>1
  <2>2. upTo[0] = Step(upTo, 0)
    BY <1>6, <2>1
  <2>3. upTo[0] = 0
    BY <2>2
  <2>4. upTo = [i \in 0 .. m |-> upTo[i]]
    <3> HIDE DEF Step
    <3> QED
      BY <1>6
  <2> QED
    BY <2>3, <2>4
<1>9. upTo \in [0 .. m -> Nat]
  <2> HIDE DEF m, InTurn
  <2> QED
    BY <1>1, <1>7, <1>8, HandedOn
<1> HIDE DEF m
<1> QED
  BY <1>1, <1>5, <1>9

LEMMA SliceIsOfChannels ==
  ASSUME NEW c \in Channels, NEW k \in Nat PROVE Slice(c, k) \subseteq Channels
<1>1. N \in Nat \ {0} /\ Batch \in Nat /\ c \in Nat
  BY HealthAssumption DEF Channels
<1>2. PICK b : b = k * Batch
  OBVIOUS
<1>3. b \in Nat
  BY <1>1, <1>2
<1>4. \A i \in 0 .. Batch - 1 : (c + b + i) % N \in 0 .. N - 1
  BY <1>1, <1>3
<1> QED
  BY <1>2, <1>4 DEF Slice, Channels

LEMMA AskIsSwept ==
  ASSUME NEW c \in Channels, NEW left \in 1 .. Rounds
  PROVE  Ask(c, left) = Idle \/ Asking(Ask(c, left))
<1> DEFINE s == Slices(c)
<1>1. /\ DOMAIN s \subseteq 1 .. Parallel
      /\ \A i \in DOMAIN s : s[i] = Slice(c, i - 1)
  BY DEF Slices
<1>2. \A i \in DOMAIN s : s[i] \subseteq Channels
  <2>1. ASSUME NEW i \in DOMAIN s PROVE i - 1 \in Nat
    BY <1>1, HealthAssumption
  <2> QED
    BY <1>1, <2>1, SliceIsOfChannels
<1> HIDE DEF s
<1> DEFINE h == [i \in DOMAIN s |-> [d \in s[i] |-> "null"]]
           x == [step |-> "asking", left |-> left, at |-> c, slices |-> s,
                 waiting |-> DOMAIN s, heard |-> h]
<1>3. DOMAIN h = DOMAIN s /\ \A i \in DOMAIN s : h[i] \in [s[i] -> Verdict]
  BY DEF Verdict
<1>4. CASE DOMAIN s = {}
  BY <1>4 DEF Ask, s
<1>5. CASE DOMAIN s # {}
  <2>1. Ask(c, left) = x
    BY <1>5 DEF Ask, s
  <2> HIDE DEF h
  <2>2. Asking(x)
    BY <1>1, <1>2, <1>3 DEF Asking
  <2> HIDE DEF x
  <2> QED
    BY <2>1, <2>2
<1> QED
  BY <1>4, <1>5

(***************************************************************************)
(* The steps.                                                              *)
(***************************************************************************)
LEMMA KeptIsCounted == ASSUME NEW s \in Kept PROVE s \in [Channels -> CountedRecord]
  BY DEF Kept

Others == <<upstream, recheck, budgets>>
OthersOK ==
    /\ upstream \in [Channels -> Upstreams]
    /\ recheck \subseteq Channels
    /\ healthActs \in 0 .. MaxHealthActs /\ healthFaults \in 0 .. MaxHealthFaults

LEMMA AnswerIsHeard ==
  ASSUME Asking(sweep), NEW i \in sweep.waiting, NEW heard \in [sweep.slices[i] -> Verdict],
         sweep' = [sweep EXCEPT !.heard[i] = heard, !.waiting = @ \ {i}]
  PROVE  Asking(sweep)'
<1>1. i \in DOMAIN sweep.slices
  BY DEF Asking
<1>2. /\ DOMAIN sweep' = DOMAIN sweep
      /\ sweep'.step = sweep.step /\ sweep'.left = sweep.left /\ sweep'.at = sweep.at
      /\ sweep'.slices = sweep.slices
      /\ sweep'.waiting = sweep.waiting \ {i}
      /\ sweep'.heard = [sweep.heard EXCEPT ![i] = heard]
  BY DEF Asking
<1>3. /\ DOMAIN sweep'.heard = DOMAIN sweep.heard /\ sweep'.heard[i] = heard
      /\ \A j \in DOMAIN sweep.heard \ {i} : sweep'.heard[j] = sweep.heard[j]
  BY <1>1, <1>2 DEF Asking
<1>4. \A j \in DOMAIN sweep'.slices :
        sweep'.slices[j] \subseteq Channels /\ sweep'.heard[j] \in [sweep'.slices[j] -> Verdict]
  BY <1>1, <1>2, <1>3 DEF Asking
<1> QED
  BY <1>2, <1>3, <1>4 DEF Asking

(* A sweep is done with its slices.                                        *)
LEMMA RecordsAreKept ==
  ASSUME HealthInv, SweepRecords
  PROVE  HealthInv' /\ store' \in Kept
<1>1. Asking(sweep)
  BY DEF SweepRecords, HealthInv, Swept
<1>2. \A i \in DOMAIN sweep.heard :
        sweep.heard[i] \in [sweep.slices[i] -> Verdict] /\ sweep.slices[i] \subseteq Channels
  BY <1>1 DEF Asking
<1>3. store' \in Kept
  BY <1>2, SlicesAreNoted DEF SweepRecords
<1> DEFINE g == [i \in DOMAIN sweep.heard |-> Advance(sweep.heard[i])]
           advanced == Total(g)
           next == CursorAfter(sweep.at, advanced)
<1>4. \A i \in DOMAIN g : g[i] \in Nat
  <2> SUFFICES ASSUME NEW i \in DOMAIN sweep.heard PROVE Advance(sweep.heard[i]) \in Nat
    OBVIOUS
  <2>1. IsFiniteSet(Channels)
    BY FS_Interval, HealthAssumption DEF Channels
  <2>2. IsFiniteSet(DOMAIN sweep.heard[i])
    BY <1>2, <2>1, FS_Subset
  <2>3. Cardinality(DOMAIN sweep.heard[i]) \in Nat
    BY <2>2, FS_CardinalityType
  <2> QED
    BY <2>3 DEF Advance
<1>5. advanced \in Nat
  <2> HIDE DEF g
  <2> QED
    BY <1>4, TotalIsNat
<1>6. /\ cursor' = IF advanced = 0 THEN cursor ELSE next
      /\ sweep' = IF advanced = 0 \/ sweep.left = 1 THEN Idle ELSE Ask(next, sweep.left - 1)
      /\ UNCHANGED Others
  BY DEF SweepRecords, Others
<1> HIDE DEF g, advanced
<1>7. next \in Channels
  <2>1. N \in Nat \ {0} /\ sweep.at \in Nat
    BY <1>1, HealthAssumption DEF Asking, Channels
  <2>2. (sweep.at + advanced) % N \in 0 .. N - 1
    BY <1>5, <2>1
  <2> QED
    BY <2>2 DEF CursorAfter, Channels
<1> HIDE DEF next
<1>8. cursor' \in Channels
  BY <1>6, <1>7 DEF HealthInv
<1>9. Swept'
  <2>1. CASE sweep' = Idle
    BY <2>1 DEF Swept
  <2>2. CASE sweep' = Ask(next, sweep.left - 1) /\ sweep.left # 1
    <3>1. sweep.left - 1 \in 1 .. Rounds
      BY <1>1, <2>2, HealthAssumption DEF Asking
    <3>2. Ask(next, sweep.left - 1) = Idle \/ Asking(Ask(next, sweep.left - 1))
      BY <1>7, <3>1, AskIsSwept
    <3> QED
      BY <2>2, <3>2 DEF Swept
  <2> QED
    BY <1>6, <2>1, <2>2
<1>10. OthersOK'
  BY <1>6 DEF OthersOK, Others, budgets, HealthInv
<1> QED
  BY <1>3, <1>8, <1>9, <1>10, KeptIsCounted DEF HealthInv, OthersOK

(* What the sweep under way learnt may not touch.                          *)
SweepSpares ==
    sweep # Idle /\ sweep' # sweep =>
      \A c \in Channels : /\ store'[c].playFails = store[c].playFails
                          /\ store'[c].unplayable = store[c].unplayable

LEMMA RecordIsWritten ==
  ASSUME HealthInv, NEW c \in Channels, NEW rec \in CountedRecord,
         store' = [store EXCEPT ![c] = rec] \/ store' = store
  PROVE  store' \in [Channels -> CountedRecord]
  BY DEF HealthInv

LEMMA StepHealth ==
  ASSUME HealthInv, [HealthNext]_healthVars PROVE HealthInv' /\ SweepSpares
<1>1. CASE SweepStarts
  <2>1. PICK rounds \in {1, Rounds} : sweep' = Ask(cursor, rounds)
    BY <1>1 DEF SweepStarts
  <2>2. rounds \in 1 .. Rounds /\ cursor \in Channels
    BY HealthAssumption DEF HealthInv
  <2>3. Swept'
    BY <2>1, <2>2, AskIsSwept DEF Swept
  <2> QED
    BY <1>1, <2>3 DEF SweepStarts, HealthInv, SweepSpares, budgets
<1>2. ASSUME NEW i \in 1 .. Parallel, ProbeBatch(i) \/ ProbeBatchCut(i)
      PROVE  HealthInv' /\ SweepSpares
  <2>1. PICK heard \in [sweep.slices[i] -> Verdict] :
          sweep' = [sweep EXCEPT !.heard[i] = heard, !.waiting = @ \ {i}]
    BY <1>2 DEF ProbeBatch, ProbeBatchCut
  <2>2. sweep # Idle /\ i \in sweep.waiting
    BY <1>2 DEF ProbeBatch, ProbeBatchCut
  <2>3. Swept'
    BY <2>1, <2>2, AnswerIsHeard DEF HealthInv, Swept
  <2>4. healthFaults' \in 0 .. MaxHealthFaults
    <3>1. healthFaults \in 0 .. MaxHealthFaults /\ MaxHealthFaults \in Nat
      BY HealthAssumption DEF HealthInv
    <3>2. \/ healthFaults' = healthFaults
          \/ healthFaults < MaxHealthFaults /\ healthFaults' = healthFaults + 1
      BY <1>2 DEF ProbeBatch, ProbeBatchCut, budgets
    <3> QED
      BY <3>1, <3>2
  <2>5. UNCHANGED <<upstream, store, cursor, recheck, healthActs>>
    BY <1>2 DEF ProbeBatch, ProbeBatchCut, budgets
  <2> QED
    BY <2>3, <2>4, <2>5 DEF HealthInv, SweepSpares
<1>3. CASE SweepRecords
  <2>1. HealthInv' /\ store' \in Kept
    BY <1>3, RecordsAreKept
  <2> QED
    BY <2>1 DEF Kept, SamePlayback, SweepSpares
<1>4. ASSUME NEW c \in Channels, RecheckHears(c) \/ Plays(c) \/ Restore(c)
      PROVE  HealthInv' /\ SweepSpares
  <2>1. store \in [Channels -> CountedRecord]
    BY DEF HealthInv
  <2>2. store' \in [Channels -> CountedRecord]
    <3>1. CASE RecheckHears(c)
      BY <3>1, FreshIsCounted, RecordIsWritten DEF RecheckHears
    <3>2. CASE Plays(c)
      <4> DEFINE u == upstream[c]
                 serves == u.manifest = "ok" /\ u.variant \in {"none", "ok"}
                           /\ u.segment \in {"ok", "unranged"}
      <4>1. store' = [store EXCEPT ![c] =
                        IF serves /\ u.decodes THEN ReportOk(store[c], "playback")
                        ELSE ReportFail(store[c], "playback", serves)]
        BY <3>2 DEF Plays
      <4>2. serves \in BOOLEAN
        OBVIOUS
      <4> HIDE DEF serves, u
      <4>3. /\ ReportOk(store[c], "playback") \in CountedRecord
            /\ ReportFail(store[c], "playback", serves) \in CountedRecord
        BY <2>1, <4>2, OkKeepsCount, FailKeepsCount
      <4> QED
        BY <2>1, <4>1, <4>3
    <3>3. CASE Restore(c)
      BY <3>3, FreshIsCounted, RecordIsWritten DEF Restore
    <3> QED
      BY <1>4, <3>1, <3>2, <3>3
  <2>3. UNCHANGED <<cursor, sweep, upstream, healthFaults>>
    BY <1>4 DEF RecheckHears, Plays, Restore, budgets
  <2>4. /\ recheck' \subseteq Channels
        /\ healthActs' \in 0 .. MaxHealthActs
    BY <1>4, HealthAssumption DEF RecheckHears, Plays, Restore, HealthAct, budgets, HealthInv
  <2> QED
    BY <2>2, <2>3, <2>4 DEF HealthInv, Swept, SweepSpares
<1>5. CASE RestoreAll
  BY <1>5, FreshIsCounted, HealthAssumption DEF RestoreAll, HealthAct, HealthInv, Swept, SweepSpares
<1>6. ASSUME NEW c \in Channels, Changes(c) PROVE HealthInv' /\ SweepSpares
  BY <1>6, HealthAssumption DEF Changes, HealthAct, HealthInv, Swept, SweepSpares
<1>7. CASE RecheckStarts
  <2>1. HiddenIds \ NoUrl \subseteq Channels
    BY DEF HiddenIds
  <2>2. healthActs' \in 0 .. MaxHealthActs
    <3>1. healthActs \in 0 .. MaxHealthActs /\ MaxHealthActs \in Nat
      BY HealthAssumption DEF HealthInv
    <3>2. \/ healthActs' = healthActs
          \/ healthActs < MaxHealthActs /\ healthActs' = healthActs + 1
      BY <1>7 DEF RecheckStarts, HealthAct, budgets
    <3> QED
      BY <3>1, <3>2
  <2>3. recheck' \subseteq Channels
    BY <1>7, <2>1 DEF RecheckStarts, HealthInv
  <2>4. UNCHANGED <<upstream, store, cursor, sweep, healthFaults>>
    BY <1>7 DEF RecheckStarts, HealthAct, budgets
  <2> QED
    BY <2>2, <2>3, <2>4 DEF HealthInv, Swept, SweepSpares
<1>8. CASE UNCHANGED healthVars
  BY <1>8 DEF healthVars, budgets, HealthInv, Swept, SweepSpares
<1> QED
  BY <1>1, <1>2, <1>3, <1>4, <1>5, <1>6, <1>7, <1>8 DEF HealthNext

LEMMA InitHealth == HealthInit => HealthInv
<1>1. 0 \in Channels /\ \A n \in Nat : 0 \in 0 .. n
  BY HealthAssumption DEF Channels
<1> QED
  BY <1>1, FreshIsCounted, HealthAssumption DEF HealthInit, HealthInv, Swept

(* The records, the sweep and its cursor are well formed: the cursor never *)
(* leaves the playlist, and no more slices are out than are asked at once. *)
THEOREM HealthTypes == HealthSpec => []HealthTypeOK
<1>1. HealthInv => HealthTypeOK
  BY DEF HealthInv, HealthTypeOK, Swept, Asking, CountedRecord
<1> QED
  BY <1>1, InitHealth, StepHealth, PTL DEF HealthSpec

(* An unplayable channel keeps the player's failures on record, so that    *)
(* the early return of ReportOk misses nothing it should forget.           *)
THEOREM UnplayableCounts == HealthSpec => []UnplayableIsCounted
<1>1. HealthInv => UnplayableIsCounted
  BY DEF HealthInv, UnplayableIsCounted, CountedRecord
<1> QED
  BY <1>1, InitHealth, StepHealth, PTL DEF HealthSpec

(* No sweep touches what the player recorded, whatever was played while    *)
(* its requests were out.                                                  *)
THEOREM SweepsSparePlayback == HealthSpec => SweepKeepsPlayback
<1>1. HealthInv /\ [HealthNext]_healthVars => SweepSpares
  BY StepHealth
<1>2. HealthInv /\ [HealthNext]_healthVars => HealthInv'
  BY StepHealth
<1> QED
  BY <1>1, <1>2, InitHealth, PTL DEF HealthSpec, SweepKeepsPlayback, SweepSpares

----------------------------------------------------------------------------
(***************************************************************************)
(* The playlist and the guide.  What a page that is still of the           *)
(* configured source waits for is that source: a change of the sources or  *)
(* of the account makes the page an old one, and a flight is joined by its *)
(* tenant and URL, so that whatever lands first cannot be another list.    *)
(***************************************************************************)
ScreenFields ==
    /\ DOMAIN screen = {"view", "step", "list", "asked", "fresh"}
    /\ screen.fresh \in BOOLEAN

WaitsForItsSource ==
    screen.fresh /\ screen.step \in {"channels", "digest"} => screen.asked = OwnFlight

CacheInv == ScreenFields /\ WaitsForItsSource /\ PageShowsItsSource

\* A page with a list of the source the caches do not contradict.
PageFields(p) == DOMAIN p = {"view", "step", "list", "asked", "fresh"} /\ p.fresh \in BOOLEAN
OfSource(url) == Source # None => url \in {Source, None}

(* What the caches answer is the configured source or nothing.             *)
LEMMA CachedIsOfSource == OfSource(GetCachedChannels) /\ OfSource(Answer)
  BY DEF OfSource, GetCachedChannels, Fresh, Answer

(* A page of the source goes on to its programmes with that list, or with  *)
(* nothing, and waits for channels no more.                                *)
LEMMA GoesOnWithIt ==
  ASSUME NEW p, PageFields(p), p.fresh => OfSource(p.list),
         NEW url, p.fresh => OfSource(url),
         GoesOn(p, url), UNCHANGED sources
  PROVE  CacheInv'
<1> DEFINE q == WithChannels(p, url)
<1>1. PageFields(q) /\ q.fresh = p.fresh /\ (p.fresh => OfSource(q.list))
  BY DEF WithChannels, PageFields
<1> HIDE DEF q
<1>2. PICK step \in {"shown", "epg"} : screen' = Ends(q, step)
  BY DEF GoesOn, q
<1>3. /\ DOMAIN screen' = DOMAIN q /\ screen'.fresh = q.fresh /\ screen'.list = q.list
      /\ screen'.step = step
  BY <1>1, <1>2 DEF Ends, PageFields
<1>4. Source' = Source
  BY DEF Source, sources
<1> QED
  BY <1>1, <1>3, <1>4
  DEF CacheInv, ScreenFields, WaitsForItsSource, PageShowsItsSource, PageFields, OfSource

LEMMA LoadsIt ==
  ASSUME NEW p, PageFields(p), p.fresh => OfSource(p.list), Loads(p), UNCHANGED sources
  PROVE  CacheInv'
<1>1. CASE CacheAnswers
  BY <1>1, CachedIsOfSource, GoesOnWithIt DEF Loads
<1>2. CASE ~CacheAnswers
  <2>1. screen' = [p EXCEPT !.step = "channels", !.asked = OwnFlight]
    BY <1>2 DEF Loads
  <2>2. /\ DOMAIN screen' = DOMAIN p /\ screen'.fresh = p.fresh /\ screen'.list = p.list
        /\ screen'.asked = OwnFlight
    BY <2>1 DEF PageFields
  <2>3. Source' = Source /\ OwnFlight' = OwnFlight
    BY DEF Source, OwnFlight, sources
  <2> QED
    BY <2>2, <2>3
    DEF CacheInv, ScreenFields, WaitsForItsSource, PageShowsItsSource, PageFields, OfSource
<1> QED
  BY <1>1, <1>2

LEMMA OpensOnIt ==
  ASSUME NEW view \in View, OpensPage(view) PROVE CacheInv'
<1> DEFINE p == [Closed EXCEPT !.view = view, !.list = GetCachedChannels, !.fresh = TRUE]
<1>1. PageFields(p) /\ p.fresh /\ p.list = GetCachedChannels
  BY DEF PageFields, Closed
<1>2. OfSource(p.list)
  BY <1>1, CachedIsOfSource
<1>3. /\ \/ screen' = Ends(p, "shown")
         \/ screen' = [p EXCEPT !.step = "digest", !.asked = OwnFlight]
         \/ Loads(p)
      /\ UNCHANGED sources
  BY DEF OpensPage, Opens
<1> HIDE DEF p
<1>4. Source' = Source /\ OwnFlight' = OwnFlight
  BY <1>3 DEF Source, OwnFlight, sources
<1>5. CASE screen' = Ends(p, "shown")
  <2>1. /\ DOMAIN screen' = DOMAIN p /\ screen'.fresh = p.fresh /\ screen'.list = p.list
        /\ screen'.step = "shown"
    BY <1>1, <1>5 DEF Ends, PageFields
  <2> QED
    BY <1>1, <1>2, <1>4, <2>1
    DEF CacheInv, ScreenFields, WaitsForItsSource, PageShowsItsSource, PageFields, OfSource
<1>6. CASE screen' = [p EXCEPT !.step = "digest", !.asked = OwnFlight]
  <2>1. /\ DOMAIN screen' = DOMAIN p /\ screen'.fresh = p.fresh /\ screen'.list = p.list
        /\ screen'.asked = OwnFlight
    BY <1>1, <1>6 DEF PageFields
  <2> QED
    BY <1>1, <1>2, <1>4, <2>1
    DEF CacheInv, ScreenFields, WaitsForItsSource, PageShowsItsSource, PageFields, OfSource
<1>7. CASE Loads(p)
  BY <1>1, <1>2, <1>3, <1>7, LoadsIt
<1> QED
  BY <1>3, <1>5, <1>6, <1>7

(* The page stays, or it becomes old, closes or stops waiting.             *)
LEMMA PageRests ==
  ASSUME CacheInv,
         \/ screen' = screen /\ UNCHANGED sources
         \/ screen' = [screen EXCEPT !.fresh = FALSE]
         \/ screen' = Closed
         \/ \E step \in {"shown", "stuck"} : screen' = Ends(screen, step) /\ UNCHANGED sources
  PROVE  CacheInv'
<1>1. CASE screen' = screen /\ UNCHANGED sources
  BY <1>1 DEF CacheInv, ScreenFields, WaitsForItsSource, PageShowsItsSource, Source, OwnFlight,
     sources
<1>2. CASE screen' = [screen EXCEPT !.fresh = FALSE]
  <2>1. DOMAIN screen' = DOMAIN screen /\ screen'.fresh = FALSE
    BY <1>2 DEF CacheInv, ScreenFields
  <2> QED
    BY <2>1 DEF CacheInv, ScreenFields, WaitsForItsSource, PageShowsItsSource
<1>3. CASE screen' = Closed
  BY <1>3 DEF Closed, CacheInv, ScreenFields, WaitsForItsSource, PageShowsItsSource
<1>4. ASSUME NEW step \in {"shown", "stuck"}, screen' = Ends(screen, step), UNCHANGED sources
      PROVE  CacheInv'
  <2>1. /\ DOMAIN screen' = DOMAIN screen /\ screen'.fresh = screen.fresh
        /\ screen'.list = screen.list /\ screen'.step = step
    BY <1>4 DEF Ends, CacheInv, ScreenFields
  <2>2. Source' = Source
    BY <1>4 DEF Source, sources
  <2> QED
    BY <2>1, <2>2 DEF CacheInv, ScreenFields, WaitsForItsSource, PageShowsItsSource
<1> QED
  BY <1>1, <1>2, <1>3, <1>4

LEMMA StepCaches == CacheInv /\ [CacheNext]_cacheVars => CacheInv'
<1> SUFFICES ASSUME CacheInv, [CacheNext]_cacheVars PROVE CacheInv'
  OBVIOUS
<1>0. PageFields(screen) /\ (screen.fresh => OfSource(screen.list))
  BY DEF CacheInv, ScreenFields, PageFields, PageShowsItsSource, OfSource
<1>1. ASSUME NEW view \in View, OpensPage(view) PROVE CacheInv'
  BY <1>1, OpensOnIt
<1>2. CASE DigestArrives
  <2> DEFINE p == [screen EXCEPT !.list = screen.asked.url]
  <2>1. PageFields(p) /\ p.fresh = screen.fresh /\ p.list = screen.asked.url
    BY <1>0 DEF PageFields
  <2>2. screen.fresh => p.list = Source
    BY <1>2, <2>1 DEF DigestArrives, CacheInv, WaitsForItsSource, OwnFlight
  <2>3. screen' = Ends(p, "shown") /\ UNCHANGED sources
    BY <1>2 DEF DigestArrives
  <2> HIDE DEF p
  <2>4. /\ DOMAIN screen' = DOMAIN p /\ screen'.fresh = p.fresh /\ screen'.list = p.list
        /\ screen'.step = "shown"
    BY <2>1, <2>3 DEF Ends, PageFields
  <2>5. Source' = Source
    BY <2>3 DEF Source, sources
  <2> QED
    BY <2>1, <2>2, <2>4, <2>5
    DEF CacheInv, ScreenFields, WaitsForItsSource, PageShowsItsSource, PageFields
<1>3. CASE DigestFails
  BY <1>0, <1>3, LoadsIt DEF DigestFails
<1>4. ASSUME NEW f \in flights, FlightLands(f) \/ FlightFails(f) \/ FlightThrows(f)
      PROVE  CacheInv'
  <2>1. UNCHANGED sources
    BY <1>4 DEF FlightLands, FlightFails, FlightThrows
  <2>2. CASE screen.step = "channels" /\ screen.asked = f
    <3>1. screen.fresh => OfSource(f.url) /\ OfSource(None)
      BY <2>2 DEF CacheInv, WaitsForItsSource, OwnFlight, OfSource
    <3>2. GoesOn(screen, f.url) \/ GoesOn(screen, None) \/ screen' = Ends(screen, "stuck")
      BY <1>4, <2>2 DEF FlightLands, FlightFails, FlightThrows
    <3> QED
      BY <1>0, <2>1, <3>1, <3>2, GoesOnWithIt, PageRests
  <2>3. CASE ~(screen.step = "channels" /\ screen.asked = f)
    <3>1. screen' = screen
      BY <1>4, <2>3 DEF FlightLands, FlightFails, FlightThrows
    <3> QED
      BY <2>1, <3>1, PageRests
  <2> QED
    BY <2>2, <2>3
<1>5. CASE GuideLands \/ GuideFails
  <2>1. UNCHANGED sources /\ (screen' = screen \/ screen' = Ends(screen, "shown"))
    BY <1>5 DEF GuideLands, GuideFails
  <2> QED
    BY <2>1, PageRests
<1>6. ASSUME NEW url, FetchesOnly(url) PROVE CacheInv'
  BY <1>6, PageRests DEF FetchesOnly
<1>7. CASE \/ \E url \in Urls : AddLive(url)
           \/ \E i \in 1 .. MaxSources : RemoveLive(i) \/ \E url \in Urls : EditLive(i, url)
           \/ \E feed \in Feeds \cup {None} :
                ChangesEpg(feed) \/ \E list \in Lists : SourcesSynced(list, feed)
           \/ \E t \in Tenants : SignsIn(t)
  <2>1. PageIsOld
    BY <1>7 DEF AddLive, RemoveLive, EditLive, ChangesEpg, SourcesSynced, SignsIn
  <2> QED
    BY <2>1, PageRests DEF PageIsOld
<1>8. CASE Reloads
  BY <1>8, PageRests DEF Reloads
<1>9. CASE Expires
  BY <1>9, PageRests DEF Expires
<1>10. CASE UNCHANGED cacheVars
  BY <1>10, PageRests DEF cacheVars
<1> QED
  BY <1>1, <1>2, <1>3, <1>4, <1>5, <1>6, <1>7, <1>8, <1>9, <1>10 DEF CacheNext

(* A page opened after the last change of sources or account never paints  *)
(* or receives another playlist than the configured one, whatever is       *)
(* cached, under way or synced down, for any number of accounts and URLs.  *)
THEOREM PagesShowTheirSource == CacheSpec => []PageShowsItsSource
<1>1. CacheInit => CacheInv
  BY DEF CacheInit, Closed, CacheInv, ScreenFields, WaitsForItsSource, PageShowsItsSource
<1>2. CacheInv => PageShowsItsSource
  BY DEF CacheInv
<1> QED
  BY <1>1, <1>2, StepCaches, PTL DEF CacheSpec
=============================================================================
