----------------------------- MODULE DeviceSlots -----------------------------
(***************************************************************************)
(* The slots of one user's devices: a sorted set in Redis, a member per    *)
(* device, its score the device's last sign of life.  Acquire counts and   *)
(* adds in an optimistic transaction, one Redis command at a time, so that *)
(* attempts of several devices, heartbeats, releases and time interleave   *)
(* with it.                                                                *)
(*                                                                         *)
(* services/auth/internal/auth/devices.go.  Labels are left out.           *)
(***************************************************************************)
EXTENDS Integers, FiniteSets

CONSTANTS
    Devices,
    SlotTTL,    \* the ttl callers pass
    MaxDelay    \* bound: an Acquire that takes longer has failed

ASSUME SlotsAssumption ==
    /\ IsFiniteSet(Devices)
    /\ SlotTTL \in Nat \ {0} /\ MaxDelay \in Nat

VARIABLES
    slots,     \* how old the score of each device's member is
    keyTTL,    \* what is left of the key's time to live
    attempt    \* each device's Acquire, age counting from its time.Now()

slotVars == <<slots, keyTTL, attempt>>

NoSlot == -1
MaxAge == SlotTTL + MaxDelay    \* older than that is stale for everybody
Holders == {d \in Devices : slots[d] # NoSlot}
NoAttempt == [step |-> "idle", age |-> 0, max |-> 0, dirty |-> FALSE]
Attempting == {d \in Devices : attempt[d].step # "idle"}

SlotsTypeOK ==
    /\ slots \in [Devices -> {NoSlot} \cup 0 .. MaxAge]
    /\ keyTTL \in 0 .. 2 * SlotTTL
    /\ attempt \in [Devices -> [step : {"idle", "watched", "purged", "count", "exec"},
                                age : 0 .. MaxDelay, max : Nat, dirty : BOOLEAN]]

SlotsInit ==
    /\ slots = [d \in Devices |-> NoSlot]
    /\ keyTTL = 0
    /\ attempt = [d \in Devices |-> NoAttempt]

---------------------------------------------------------------------------
(* Redis.                                                                  *)

\* A command leaves the members s; it makes the transaction of everybody who
\* watches the key fail if it wrote to it, its own client's included.
Leaves(s, wrote, watchers) ==
    /\ slots' = s
    /\ attempt' = [d \in Devices |->
                     IF wrote /\ watchers[d].step # "idle"
                     THEN [watchers[d] EXCEPT !.dirty = TRUE]
                     ELSE watchers[d]]

\* A key without members is gone.
KeyTTL(s) == IF \A d \in Devices : s[d] = NoSlot THEN 0 ELSE keyTTL

\* Time passes, and the key may expire with all its members.
Tick ==
    LET gone == Holders # {} /\ keyTTL = 1
        aged == [d \in Devices |->
                   IF gone \/ d \notin Holders THEN NoSlot
                   ELSE IF slots[d] < MaxAge THEN slots[d] + 1 ELSE MaxAge]
        older == [d \in Devices |->
                    IF d \in Attempting THEN [attempt[d] EXCEPT !.age = @ + 1] ELSE NoAttempt]
    IN /\ \A d \in Attempting : attempt[d].age < MaxDelay
       /\ Leaves(aged, gone, older)
       /\ keyTTL' = IF keyTTL > 0 THEN keyTTL - 1 ELSE 0

---------------------------------------------------------------------------
(* DeviceManager.                                                          *)

\* Acquire fixes its time and watches the key.
AcquireStarts(d, max) ==
    /\ attempt[d].step = "idle"
    /\ attempt' = [attempt EXCEPT ![d] =
                     [step |-> "watched", age |-> 0,
                      max |-> IF max <= 0 THEN 1 ELSE max, dirty |-> FALSE]]
    /\ UNCHANGED <<slots, keyTTL>>

\* ZREMRANGEBYSCORE of what was stale then; an error is ignored.
Purges(d) ==
    \E stale \in {{}, {e \in Holders : slots[e] - attempt[d].age >= SlotTTL}} :
        LET s == [e \in Devices |-> IF e \in stale THEN NoSlot ELSE slots[e]] IN
        /\ attempt[d].step = "watched"
        /\ Leaves(s, stale # {}, [attempt EXCEPT ![d].step = "purged"])
        /\ keyTTL' = KeyTTL(s)

\* ZSCORE: a device that holds a slot does not count the others.
LooksForOwnSlot(d) ==
    /\ attempt[d].step = "purged"
    /\ attempt' = [attempt EXCEPT ![d].step = IF d \in Holders THEN "exec" ELSE "count"]
    /\ UNCHANGED <<slots, keyTTL>>

\* ZCARD.
Counts(d) ==
    /\ attempt[d].step = "count"
    /\ attempt' = IF Cardinality(Holders) >= attempt[d].max
                  THEN [attempt EXCEPT ![d] = NoAttempt]      \* ErrDeviceLimitReached
                  ELSE [attempt EXCEPT ![d].step = "exec"]
    /\ UNCHANGED <<slots, keyTTL>>

\* Mutant of Takes: count and add without WATCH.
TakesUnwatched(d) ==
    /\ attempt[d].step = "exec"
    /\ Leaves([slots EXCEPT ![d] = attempt[d].age], TRUE, [attempt EXCEPT ![d] = NoAttempt])
    /\ keyTTL' = 2 * SlotTTL

\* EXEC of ZADD and EXPIRE, which does nothing when the key was changed.
Takes(d) ==
    /\ attempt[d].step = "exec" /\ ~attempt[d].dirty
    /\ Leaves([slots EXCEPT ![d] = attempt[d].age], TRUE, [attempt EXCEPT ![d] = NoAttempt])
    /\ keyTTL' = 2 * SlotTTL

\* A command that fails, or an EXEC of a changed key, is returned to the caller.
AcquireFails(d) ==
    /\ attempt[d].step # "idle"
    /\ attempt' = [attempt EXCEPT ![d] = NoAttempt]
    /\ UNCHANGED <<slots, keyTTL>>

\* ZADD XX.  The number of members added is 0 whether there is one or not, so
\* the caller is refused either way and the key's expiry is never put off.
Heartbeat(d) ==
    /\ d \in Holders
    /\ Leaves([slots EXCEPT ![d] = 0], slots[d] # 0, attempt)
    /\ UNCHANGED keyTTL

Release(d) ==
    LET s == [slots EXCEPT ![d] = NoSlot] IN
    /\ d \in Holders
    /\ Leaves(s, TRUE, attempt)
    /\ keyTTL' = KeyTTL(s)

\* What goes on without a caller who knows the plan.
SlotsNext ==
    \/ Tick
    \/ \E d \in Devices :
          \/ Purges(d) \/ LooksForOwnSlot(d) \/ Counts(d) \/ Takes(d) \/ AcquireFails(d)
          \/ Heartbeat(d) \/ Release(d)

---------------------------------------------------------------------------

\* devices.go:27 has a slot "refreshed on every heartbeat", and freed when the
\* device goes silent.  The key, set to expire at the last Acquire, is not:
\* line 108, which would put it off, is not reached.
HeartbeatKeepsSlot ==
    [][\A d \in Holders :
         slots'[d] = NoSlot /\ ~Release(d) => slots[d] + 1 >= SlotTTL]_slotVars
=============================================================================
