----------------------------- MODULE SettingsSync -----------------------------
(***************************************************************************)
(* A user's settings on several devices and on the server.                 *)
(*                                                                         *)
(* A page keeps every setting in localStorage and, while the setting is on *)
(* screen, in the state of a usePersisted hook.  A change is written to    *)
(* localStorage and schedules an upload: a debounced PUT of the whole      *)
(* snapshot.  syncDown is a GET whose answer overwrites localStorage and   *)
(* makes the mounted hooks read it again.  Requests take effect and are    *)
(* answered in any order, fail, and outlive a reload of their page.        *)
(*                                                                         *)
(* apps/web/src/lib/serverSync.ts, lib/usePersisted.ts,                    *)
(* app/api/settings/route.ts.                                              *)
(***************************************************************************)
EXTENDS Naturals, FiniteSets

CONSTANTS
    Devices,    \* one open page each
    Keys,       \* SYNCED_KEYS
    Values,     \* the values a user chooses
    Default,    \* what a hook shows when nothing is stored
    Absent,     \* no value: the key is not in the blob or the store
    Unmounted,  \* no hook of the key is on screen
    MaxActs,    \* bound: mounts, unmounts, edits, reloads and syncDowns
    MaxFaults   \* bound: failed requests

ASSUME SettingsAssumption ==
    /\ Default \notin Values /\ Absent \notin Values \cup {Default}
    /\ Unmounted \notin Values \cup {Default, Absent}
    /\ MaxActs \in Nat /\ MaxFaults \in Nat

VARIABLES
    server,    \* the blob settings:{userId}
    local,     \* localStorage of a device
    shown,     \* the value a mounted hook holds
    timer,     \* upTimer is set
    inFlight,  \* upInFlight
    pending,   \* upPending
    puts,      \* PUT requests that have not taken effect
    get,       \* the page's syncDown
    changed,   \* history: keys a user changed that no PUT of the page has read
    undone,    \* history: those an answer of syncDown overwrote before a PUT did
    page,      \* which load of the page this is, and the PUTs it has sent
    landed,    \* history: the last PUT of this page that took effect
    spoilt,    \* history: a PUT of this page failed
    acts, faults

pageVars == <<local, shown, timer, inFlight, pending, get, changed, undone, page, landed, spoilt>>
vars == <<server, pageVars, puts, acts, faults>>

Stored == Values \cup {Default, Absent}
Blob == [Keys -> Stored]
Page == [load : Nat, sent : Nat]
Put == [from : Devices, load : Nat, nr : Nat, blob : Blob]
NoGet == [step |-> "none"]
Get == {NoGet} \cup [step : {"sent"}] \cup [step : {"read"}, blob : Blob]

TypeOK ==
    /\ server \in Blob
    /\ local \in [Devices -> Blob]
    /\ shown \in [Devices -> [Keys -> Values \cup {Default, Unmounted}]]
    /\ timer \in [Devices -> BOOLEAN]
    /\ inFlight \in [Devices -> BOOLEAN]
    /\ pending \in [Devices -> BOOLEAN]
    /\ puts \subseteq Put
    /\ get \in [Devices -> Get]
    /\ changed \in [Devices -> SUBSET Keys]
    /\ undone \in [Devices -> SUBSET Keys]
    /\ page \in [Devices -> Page]
    /\ landed \in [Devices -> Nat]
    /\ spoilt \in [Devices -> BOOLEAN]
    /\ acts \in 0 .. MaxActs
    /\ faults \in 0 .. MaxFaults

(* A device is fresh, or was used before and is in step with the server.   *)
Nothing == [k \in Keys |-> Absent]
Init ==
    /\ server \in [Keys -> Values \cup {Absent}]
    /\ local \in [Devices -> {server, Nothing}]
    /\ shown = [d \in Devices |-> [k \in Keys |-> Unmounted]]
    /\ timer = [d \in Devices |-> FALSE]
    /\ inFlight = [d \in Devices |-> FALSE]
    /\ pending = [d \in Devices |-> FALSE]
    /\ puts = {}
    /\ get = [d \in Devices |-> [step |-> "sent"]]
    /\ changed = [d \in Devices |-> {}]
    /\ undone = [d \in Devices |-> {}]
    /\ page = [d \in Devices |-> [load |-> 0, sent |-> 0]]
    /\ landed = [d \in Devices |-> 0]
    /\ spoilt = [d \in Devices |-> FALSE]
    /\ acts = 0
    /\ faults = 0

Act == acts < MaxActs /\ acts' = acts + 1
Fault == faults < MaxFaults /\ faults' = faults + 1

----------------------------------------------------------------------------
(* scheduleUp, and the pushNow that the timer calls.                       *)

(* A change during a PUT is forgotten.                                     *)
ScheduleUpUnlessBusy(d) ==
    /\ timer' = [timer EXCEPT ![d] = @ \/ ~inFlight[d]]
    /\ UNCHANGED pending

(* A change during a PUT starts the timer of another one.                  *)
ScheduleUpAtOnce(d) ==
    /\ timer' = [timer EXCEPT ![d] = TRUE]
    /\ UNCHANGED pending

ScheduleUp(d) ==
    /\ pending' = [pending EXCEPT ![d] = @ \/ inFlight[d]]
    /\ timer' = [timer EXCEPT ![d] = @ \/ ~inFlight[d]]

PushNow(d) ==
    /\ timer[d]
    /\ timer' = [timer EXCEPT ![d] = FALSE]
    /\ inFlight' = [inFlight EXCEPT ![d] = TRUE]
    /\ page' = [page EXCEPT ![d].sent = @ + 1]
    /\ puts' = puts \cup
         {[from |-> d, load |-> page[d].load, nr |-> page[d].sent + 1, blob |-> local[d]]}
    /\ changed' = [changed EXCEPT ![d] = {}]
    /\ UNCHANGED <<server, local, shown, pending, get, undone, landed, spoilt, acts, faults>>

(* The PUT ends and leaves the follow-up to the next change.               *)
PushEndsForgetful(d) ==
    /\ inFlight' = [inFlight EXCEPT ![d] = FALSE]
    /\ UNCHANGED <<pending, timer>>

(* What follows the fetch, whether it was answered or threw.               *)
PushEnds(d) ==
    /\ inFlight' = [inFlight EXCEPT ![d] = FALSE]
    /\ pending' = [pending EXCEPT ![d] = FALSE]
    /\ timer' = [timer EXCEPT ![d] = @ \/ pending[d]]

(* The page still has r's answer to come.                                  *)
Awaited(r) == inFlight[r.from] /\ page[r.from] = [load |-> r.load, sent |-> r.nr]

----------------------------------------------------------------------------
(* usePersisted.                                                           *)

(* A hook that shows a stored value, and nothing if there is none.         *)
ReadRaw(stored) == stored

(* What a hook shows of a stored value, the initial value if there is none. *)
Read(stored) == IF stored = Absent THEN Default ELSE stored

(* Reading on mount sets loaded, and the write effect runs with whatever   *)
(* was read, the initial value included.                                   *)
Mount(d, k) ==
    /\ Act
    /\ shown[d][k] = Unmounted
    /\ shown' = [shown EXCEPT ![d][k] = Read(local[d][k])]
    /\ local' = [local EXCEPT ![d][k] = Read(@)]
    /\ ScheduleUp(d)
    /\ UNCHANGED <<server, inFlight, puts, get, changed, undone, page, landed, spoilt, faults>>

Unmount(d, k) ==
    /\ Act
    /\ shown[d][k] # Unmounted
    /\ shown' = [shown EXCEPT ![d][k] = Unmounted]
    /\ UNCHANGED <<server, local, timer, inFlight, pending, puts, get, changed, undone, page,
                   landed, spoilt, faults>>

Edit(d, k, v) ==
    /\ Act
    /\ shown[d][k] \notin {Unmounted, v}
    /\ shown' = [shown EXCEPT ![d][k] = v]
    /\ local' = [local EXCEPT ![d][k] = v]
    /\ changed' = [changed EXCEPT ![d] = @ \cup {k}]
    /\ undone' = [undone EXCEPT ![d] = @ \ {k}]
    /\ ScheduleUp(d)
    /\ UNCHANGED <<server, inFlight, puts, get, page, landed, spoilt, faults>>

(* A new load keeps localStorage only and calls syncDown (TvBoot); PUTs on *)
(* the way stay there.                                                     *)
Reload(d) ==
    /\ Act
    /\ shown' = [shown EXCEPT ![d] = [k \in Keys |-> Unmounted]]
    /\ timer' = [timer EXCEPT ![d] = FALSE]
    /\ inFlight' = [inFlight EXCEPT ![d] = FALSE]
    /\ pending' = [pending EXCEPT ![d] = FALSE]
    /\ get' = [get EXCEPT ![d] = [step |-> "sent"]]
    /\ changed' = [changed EXCEPT ![d] = {}]
    /\ undone' = [undone EXCEPT ![d] = {}]
    /\ page' = [page EXCEPT ![d] = [load |-> @.load + 1, sent |-> 0]]
    /\ landed' = [landed EXCEPT ![d] = 0]
    /\ spoilt' = [spoilt EXCEPT ![d] = FALSE]
    /\ UNCHANGED <<server, local, puts, faults>>

----------------------------------------------------------------------------
(* syncDown, after boot by the login and the account pages; one at a time. *)

SyncDown(d) ==
    /\ Act
    /\ get[d] = NoGet
    /\ get' = [get EXCEPT ![d] = [step |-> "sent"]]
    /\ UNCHANGED <<server, local, shown, timer, inFlight, pending, puts, changed, undone, page,
                   landed, spoilt, faults>>

ServerGet(d) ==
    /\ get[d].step = "sent"
    /\ get' = [get EXCEPT ![d] = [step |-> "read", blob |-> server]]
    /\ UNCHANGED <<server, local, shown, timer, inFlight, pending, puts, changed, undone, page,
                   landed, spoilt, acts, faults>>

Applied(stored, blob) ==
    [k \in Keys |-> IF blob[k] = Absent THEN stored[k] ELSE blob[k]]

(* The hooks are not told.                                                 *)
RehydratedNever(hooks, stored) == hooks

(* The hooks on screen after 'ns-settings-synced'.                         *)
Rehydrated(hooks, stored) ==
    [k \in Keys |->
       IF hooks[k] = Unmounted \/ stored[k] = Absent THEN hooks[k] ELSE stored[k]]

GetAnswered(d) ==
    /\ get[d].step = "read"
    /\ get' = [get EXCEPT ![d] = NoGet]
    /\ LET now == Applied(local[d], get[d].blob)
           hooks == Rehydrated(shown[d], now)
           lost == {k \in changed[d] : now[k] # local[d][k]}
       IN  /\ local' = [local EXCEPT ![d] = now]
           /\ shown' = [shown EXCEPT ![d] = hooks]
           /\ changed' = [changed EXCEPT ![d] = @ \ lost]
           /\ undone' = [undone EXCEPT ![d] = @ \cup lost]
           /\ IF hooks = shown[d] THEN UNCHANGED <<timer, pending>> ELSE ScheduleUp(d)
    /\ UNCHANGED <<server, inFlight, puts, page, landed, spoilt, acts, faults>>

GetFails(d) ==
    /\ Fault
    /\ get[d] # NoGet
    /\ get' = [get EXCEPT ![d] = NoGet]
    /\ UNCHANGED <<server, local, shown, timer, inFlight, pending, puts, changed, undone, page,
                   landed, spoilt, acts>>

----------------------------------------------------------------------------
(* PUT at the server.                                                      *)

ServerPut(r) ==
    /\ server' = r.blob
    /\ puts' = puts \ {r}
    /\ landed' = IF page[r.from].load = r.load
                 THEN [landed EXCEPT ![r.from] = r.nr] ELSE landed
    /\ UNCHANGED <<local, shown, timer, inFlight, pending, get, changed, undone, page, spoilt,
                   acts, faults>>

PutAnswered(d) ==
    /\ inFlight[d]
    /\ ~\E r \in puts : r.from = d /\ Awaited(r)
    /\ PushEnds(d)
    /\ UNCHANGED <<server, local, shown, puts, get, changed, undone, page, landed, spoilt,
                   acts, faults>>

(* The request is refused (no access) or lost: nothing retries it.         *)
PutLost(r) ==
    /\ Fault
    /\ puts' = puts \ {r}
    /\ spoilt' = [spoilt EXCEPT ![r.from] = TRUE]
    /\ UNCHANGED <<server, local, shown, timer, inFlight, pending, get, changed, undone, page,
                   landed, acts>>

(* The page sees an error, and the request may still take effect.          *)
PutFails(d) ==
    /\ Fault
    /\ inFlight[d]
    /\ PushEnds(d)
    /\ spoilt' = [spoilt EXCEPT ![d] = TRUE]
    /\ UNCHANGED <<server, local, shown, puts, get, changed, undone, page, landed, acts>>

DeviceStep(d) ==
    \/ PushNow(d)
    \/ \E k \in Keys : Mount(d, k) \/ Unmount(d, k) \/ \E v \in Values : Edit(d, k, v)
    \/ Reload(d)
    \/ SyncDown(d) \/ ServerGet(d) \/ GetAnswered(d) \/ GetFails(d)
    \/ PutAnswered(d) \/ PutFails(d)

Next ==
    \/ \E d \in Devices : DeviceStep(d)
    \/ \E r \in puts : ServerPut(r) \/ PutLost(r)

Spec == Init /\ [][Next]_vars

(* A timer fires and a request ends: setTimeout and fetch.                 *)
FairSpec ==
    /\ Spec
    /\ \A d \in Devices : WF_vars(PushNow(d)) /\ WF_vars(PutAnswered(d))
    /\ WF_vars(\E r \in puts : ServerPut(r))

----------------------------------------------------------------------------
(* A change that no PUT has read yet has a PUT to come: a timer is set, or *)
(* the PUT in flight ends by setting one.                                  *)
ChangesAreScheduled ==
    \A d \in Devices :
      changed[d] # {} => timer[d] \/ (inFlight[d] /\ pending[d])

(* A hook on screen shows what its device has stored, whatever edits and   *)
(* answers of syncDown come in between.                                    *)
HooksShowStorage ==
    \A d \in Devices : \A k \in Keys :
      shown[d][k] \in {Unmounted, local[d][k]}

(* The PUTs of a page take effect in the order they were sent, as long as  *)
(* none of them failed: a page has one PUT in flight.                      *)
PutsTakeEffectInOrder ==
    [][\A d \in Devices :
         page'[d].load = page[d].load /\ ~spoilt[d] => landed'[d] >= landed[d]]_vars

(* A change made while a PUT is under way waits for a follow-up            *)
(* (serverSync.ts:174): a PUT that reads it is sent in the end, unless     *)
(* syncDown's answer undoes it or its page goes away.  'changed' is left   *)
(* in these three ways only; an undone change counts as such.              *)
ChangesAreSent ==
    \A d \in Devices : \A k \in Keys : k \in changed[d] ~> k \notin changed[d]

(* "the user never ends with a lost write" (serverSync.ts:171), nor does   *)
(* "the GET win, silently undoing the mutation" (107): no answer of        *)
(* syncDown overwrites a change before a PUT has read it.                  *)
NoLostWrite == \A d \in Devices : undone[d] = {}

(* usePersisted.ts:61: mounting a hook does not "push the default back     *)
(* over the server's real value".                                          *)
MountNeverPushesDefault ==
    [][\A k \in Keys : server[k] \in Values => server'[k] # Default]_vars
=============================================================================
