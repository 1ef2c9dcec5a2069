--------------------------- MODULE RecordingProofs ---------------------------
(***************************************************************************)
(* Theorems about the recording service.                                   *)
(*                                                                         *)
(* RecordingLeases, for every fleet, every set of channels, every capacity,*)
(* lease duration and number of faults: a worker records a channel under   *)
(* its lease only, and the fleet holds no more leases than it has slots    *)
(* for, but for the renewals that faults made go missing.                  *)
(*                                                                         *)
(* SegmentArchive, for any number of recorders and sweepers, any retention,*)
(* playlist and ring: a row within retention has its object, and the       *)
(* archive implements RetainedArchive.                                     *)
(***************************************************************************)
EXTENDS RecordingLeases, SegmentArchive, FiniteSetTheorems, TLAPS

---------------------------------------------------------------------------
(* RecordingLeases.                                                        *)

(***************************************************************************)
(* The inductive invariant.  ClaimIsLeased needs the types: a SET must give*)
(* the lease at least what it gives the claim, and a tick takes as much.   *)
(***************************************************************************)
LeaseInv == LeaseTypeOK /\ ClaimIsLeased

\* A SET leaves a well-formed lease behind, and one that lasts a full TTL.
LEMMA SetLeaseFacts ==
  ASSUME LeaseTypeOK, NEW w \in Workers, NEW c \in Channels, SetLease(w, c)
  PROVE  /\ lease' \in [Channels -> Lease]
         /\ lease'[c].ttl = LeaseTTL
         /\ \A d \in Channels \ {c} : lease'[d] = lease[d]
  BY LeaseAssumption DEF LeaseAssumption, SetLease, LeaseTypeOK, Lease

\* A SET that was answered, or that was not, keeps every claim covered.
LEMMA SetKeepsClaims ==
  ASSUME LeaseTypeOK, ClaimIsLeased, NEW w \in Workers, NEW c \in Channels,
         SetLease(w, c), Claim(w, c) \/ UNCHANGED claim
  PROVE  claim' \in [Workers -> [Channels -> 0 .. LeaseTTL]] /\ ClaimIsLeased'
<1>1. claim' \in [Workers -> [Channels -> 0 .. LeaseTTL]]
  BY LeaseAssumption DEF LeaseAssumption, LeaseTypeOK, Claim
<1>2. ASSUME NEW v \in Workers, NEW d \in Channels, claim'[v][d] > 0
      PROVE  lease'[d].ttl >= claim'[v][d]
  <2>1. CASE d = c
    <3>1. claim'[v][d] \in 0 .. LeaseTTL
      BY <1>1
    <3>2. lease'[d].ttl = LeaseTTL
      BY <2>1, SetLeaseFacts
    <3> QED
      BY <3>1, <3>2, LeaseAssumption DEF LeaseAssumption
  <2>2. CASE d # c
    <3>1. lease'[d] = lease[d]
      BY <2>2, SetLeaseFacts
    <3>2. claim'[v][d] = claim[v][d]
      BY <2>2 DEF Claim, LeaseTypeOK
    <3> QED
      BY <3>1, <3>2, <1>2 DEF ClaimIsLeased
  <2> QED
    BY <2>1, <2>2
<1> QED
  BY <1>1, <1>2 DEF ClaimIsLeased

\* Nothing is leased or claimed at first.
LEMMA InitLeaseInv == LeaseInit => LeaseInv
  BY LeaseAssumption
     DEF LeaseAssumption, LeaseInit, LeaseInv, LeaseTypeOK, ClaimIsLeased, Lease, Absent

\* Every step keeps it: only a SET and a tick change leases, and both treat a
\* lease at least as well as the claims on it.
LEMMA StepLeaseInv == LeaseInv /\ [LeaseNext]_leaseVars => LeaseInv'
<1> SUFFICES ASSUME LeaseInv, [LeaseNext]_leaseVars PROVE LeaseInv'
  OBVIOUS
<1> USE LeaseAssumption DEF LeaseAssumption, LeaseInv
<1>1. ASSUME NEW c \in Channels, PromoteScheduled(c) PROVE LeaseInv'
  BY <1>1 DEF PromoteScheduled, workerVars, LeaseTypeOK, ClaimIsLeased
<1>2. CASE LeaseTick
  <2>1. Absent \in Lease /\ Absent.ttl = 0
    BY DEF Absent, Lease
  <2>2. ASSUME NEW c \in Channels
        PROVE  /\ lease'[c] \in Lease
               /\ lease'[c].ttl = Decrement(lease[c].ttl)
    <3>1. lease[c] \in Lease
      BY DEF LeaseTypeOK
    <3>2. CASE lease[c].ttl > 1
      <4>1. lease'[c] = [lease[c] EXCEPT !.ttl = @ - 1]
        BY <1>2, <3>2 DEF LeaseTick
      <4> QED
        BY <3>1, <3>2, <4>1 DEF Lease, Decrement
    <3>3. CASE ~(lease[c].ttl > 1)
      <4>1. lease'[c] = Absent
        BY <1>2, <3>3 DEF LeaseTick
      <4>2. lease[c].ttl \in {0, 1}
        BY <3>1, <3>3 DEF Lease
      <4> QED
        BY <4>1, <4>2, <2>1 DEF Decrement
    <3> QED
      BY <3>2, <3>3
  <2>3. lease' \in [Channels -> Lease]
    BY <1>2, <2>2 DEF LeaseTick
  <2>4. ASSUME NEW w \in Workers, NEW c \in Channels
        PROVE  /\ claim'[w][c] = Decrement(claim[w][c])
               /\ claim'[w][c] \in 0 .. LeaseTTL
    BY <1>2 DEF LeaseTick, LeaseTypeOK, Decrement
  <2>5. claim' \in [Workers -> [Channels -> 0 .. LeaseTTL]]
    <3>1. claim' = [w \in Workers |-> [c \in Channels |-> claim'[w][c]]]
      BY <1>2 DEF LeaseTick
    <3> QED
      BY <3>1, <2>4
  <2>6. ClaimIsLeased'
    <3> SUFFICES ASSUME NEW w \in Workers, NEW c \in Channels, claim'[w][c] > 0
                 PROVE  lease'[c].ttl >= claim'[w][c]
      BY DEF ClaimIsLeased
    <3>1. claim[w][c] \in 0 .. LeaseTTL /\ lease[c].ttl \in 0 .. LeaseTTL
      BY DEF LeaseTypeOK, Lease
    <3>2. claim[w][c] > 0 /\ claim'[w][c] = claim[w][c] - 1
      BY <2>4, <3>1 DEF Decrement
    <3>3. lease[c].ttl >= claim[w][c]
      BY <3>2 DEF ClaimIsLeased
    <3> QED
      BY <2>2, <3>1, <3>2, <3>3 DEF Decrement
  <2> QED
    BY <1>2, <2>3, <2>5, <2>6 DEF LeaseTick, LeaseTypeOK, workerVars
<1>3. ASSUME NEW w \in Workers, StartRefresh(w) PROVE LeaseInv'
  BY <1>3 DEF StartRefresh, LeaseTypeOK, ClaimIsLeased
<1>4. ASSUME NEW w \in Workers, NEW c \in Channels, RenewOne(w, c) PROVE LeaseInv'
  <2>1. CASE Live(c)
    <3>1. SetLease(w, c) /\ Claim(w, c) /\ held' = [held EXCEPT ![w] = @ \cup {c}]
      BY <1>4, <2>1 DEF RenewOne
    <3>2. held' \in [Workers -> SUBSET Channels]
      BY <3>1 DEF LeaseTypeOK
    <3>3. lease' \in [Channels -> Lease]
      BY <3>1, SetLeaseFacts
    <3>4. claim' \in [Workers -> [Channels -> 0 .. LeaseTTL]] /\ ClaimIsLeased'
      BY <3>1, SetKeepsClaims
    <3>5. toRenew' \in [Workers -> SUBSET Channels]
      BY <1>4 DEF RenewOne, LeaseTypeOK
    <3> QED
      BY <1>4, <3>2, <3>3, <3>4, <3>5 DEF RenewOne, LeaseTypeOK
  <2>2. CASE ~Live(c)
    BY <1>4, <2>2 DEF RenewOne, LeaseTypeOK, ClaimIsLeased
  <2> QED
    BY <2>1, <2>2
<1>5. ASSUME NEW w \in Workers, NEW c \in Channels, AcquireOne(w, c) PROVE LeaseInv'
  <2>1. CASE Live(c)
    BY <1>5, <2>1 DEF AcquireOne, LeaseTypeOK, ClaimIsLeased
  <2>2. CASE ~Live(c)
    <3>1. SetLease(w, c) /\ Claim(w, c) /\ held' = [held EXCEPT ![w] = @ \cup {c}]
      BY <1>5, <2>2 DEF AcquireOne
    <3>2. held' \in [Workers -> SUBSET Channels]
      BY <3>1 DEF LeaseTypeOK
    <3>3. lease' \in [Channels -> Lease]
      BY <3>1, SetLeaseFacts
    <3>4. claim' \in [Workers -> [Channels -> 0 .. LeaseTTL]] /\ ClaimIsLeased'
      BY <3>1, SetKeepsClaims
    <3>5. toAcquire' \in [Workers -> SUBSET Channels]
      BY <1>5 DEF AcquireOne, LeaseTypeOK
    <3> QED
      BY <1>5, <3>2, <3>3, <3>4, <3>5 DEF AcquireOne, LeaseTypeOK
  <2> QED
    BY <2>1, <2>2
<1>6. ASSUME NEW w \in Workers, NEW c \in Channels, SetFails(w, c) PROVE LeaseInv'
  <2>1. /\ UNCHANGED <<recordable, up, phase, held, recording, claim>>
        /\ toRenew' = [toRenew EXCEPT ![w] = @ \ {c}] \/ toRenew' = toRenew
        /\ toAcquire' = [toAcquire EXCEPT ![w] = @ \ {c}] \/ toAcquire' = toAcquire
    BY <1>6 DEF SetFails
  <2>4. toRenew' \in [Workers -> SUBSET Channels]
    <3>1. toRenew \in [Workers -> SUBSET Channels]
      BY DEF LeaseTypeOK
    <3>2. CASE toRenew' = [toRenew EXCEPT ![w] = @ \ {c}]
      BY <3>1, <3>2
    <3> QED
      BY <2>1, <3>1, <3>2
  <2>5. toAcquire' \in [Workers -> SUBSET Channels]
    <3>1. toAcquire \in [Workers -> SUBSET Channels]
      BY DEF LeaseTypeOK
    <3>2. CASE toAcquire' = [toAcquire EXCEPT ![w] = @ \ {c}]
      BY <3>1, <3>2
    <3> QED
      BY <2>1, <3>1, <3>2
  <2>6. leaseFaults' \in 0 .. MaxLeaseFaults
    BY <1>6 DEF SetFails, LeaseTypeOK
  <2>2. UNCHANGED lease \/ SetLease(w, c)
    BY <1>6 DEF SetFails
  <2>3. lease' \in [Channels -> Lease] /\ ClaimIsLeased'
    BY <2>1, <2>2, SetLeaseFacts, SetKeepsClaims DEF LeaseTypeOK, ClaimIsLeased
  <2> QED
    BY <2>1, <2>3, <2>4, <2>5, <2>6 DEF LeaseTypeOK
<1>7. ASSUME NEW w \in Workers, NEW unanswered \in SUBSET Channels,
             FinishRefresh(w, unanswered) PROVE LeaseInv'
  BY <1>7 DEF FinishRefresh, Acquiring, LeaseTypeOK, ClaimIsLeased
<1>8. ASSUME NEW w \in Workers, Crash(w) PROVE LeaseInv'
  BY <1>8 DEF Crash, LeaseTypeOK, ClaimIsLeased
<1>9. ASSUME NEW w \in Workers, Restart(w) PROVE LeaseInv'
  BY <1>9 DEF Restart, LeaseTypeOK, ClaimIsLeased
<1>10. CASE UNCHANGED leaseVars
  BY <1>10 DEF leaseVars, workerVars, LeaseTypeOK, ClaimIsLeased
<1> QED
  BY <1>1, <1>2, <1>3, <1>4, <1>5, <1>6, <1>7, <1>8, <1>9, <1>10 DEF LeaseNext

(***************************************************************************)
(* The fleet bound.  Every live lease has a slot of its own: one of the    *)
(* MaxChannels of the worker that acquired it, or one of the faults so far.*)
(* What makes this inductive is that during a refresh a worker still knows *)
(* of the leases in its own slots: it has renewed them, or will.           *)
(***************************************************************************)
Leased == {c \in Channels : Live(c)}
Slots == (Workers \X (1 .. MaxChannels)) \cup ({NoWorker} \X (1 .. leaseFaults))

Counted(slot) ==
    /\ \A c, d \in Leased : slot[c] = slot[d] => c = d
    /\ \A w \in Workers, c \in Leased :
          phase[w] = "refreshing" /\ slot[c][1] = w => c \in held[w] \cup toRenew[w]

\* Only recordable channels are walked, and leased.
Scope ==
    /\ Leased \subseteq recordable
    /\ \A w \in Workers : toRenew[w] \cup toAcquire[w] \subseteq recordable

FleetInv == Scope /\ \E slot \in [Leased -> Slots] : Counted(slot)

\* No worker forgets a lease of its own during a refresh.
Remembers(C) ==
    \A w \in Workers, c \in C :
        phase'[w] = "refreshing" /\ (phase[w] = "refreshing" => c \in held[w] \cup toRenew[w])
            => c \in held'[w] \cup toRenew'[w]

\* Leases that are renewed or lapse keep their slots.
LEMMA KeepSlots ==
  ASSUME LeaseTypeOK, LeaseTypeOK', NEW slot \in [Leased -> Slots], Counted(slot),
         Leased' \subseteq Leased, leaseFaults <= leaseFaults', Remembers(Leased')
  PROVE  (\E s \in [Leased -> Slots] : Counted(s))'
<1> DEFINE new == [c \in Leased' |-> slot[c]]
<1>1. leaseFaults \in Nat /\ leaseFaults' \in Nat
  BY LeaseAssumption DEF LeaseAssumption, LeaseTypeOK
<1>2. 1 .. leaseFaults \subseteq 1 .. leaseFaults'
  BY <1>1
<1>3. Slots \subseteq Slots'
  BY <1>2 DEF Slots
<1>4. new \in [Leased' -> Slots']
  BY <1>3
<1>5. \A w \in Workers, c \in Leased' :
         phase'[w] = "refreshing" /\ new[c][1] = w => c \in held'[w] \cup toRenew'[w]
  <2> SUFFICES ASSUME NEW w \in Workers, NEW c \in Leased',
                      phase'[w] = "refreshing", slot[c][1] = w
               PROVE  c \in held'[w] \cup toRenew'[w]
    OBVIOUS
  <2>1. phase[w] = "refreshing" => c \in held[w] \cup toRenew[w]
    BY DEF Counted
  <2> QED
    BY <2>1 DEF Remembers
<1>6. \A c, d \in Leased' : new[c] = new[d] => c = d
  BY DEF Counted
<1> HIDE DEF new
<1> QED
  BY <1>4, <1>5, <1>6 DEF Counted

\* A lease whose renewal or acquisition went unanswered takes the fault's slot.
LEMMA TakeFaultSlot ==
  ASSUME LeaseTypeOK, LeaseTypeOK', NEW slot \in [Leased -> Slots], Counted(slot),
         NEW c \in Channels, Leased' = Leased \cup {c}, leaseFaults' = leaseFaults + 1,
         Remembers(Leased' \ {c})
  PROVE  (\E s \in [Leased -> Slots] : Counted(s))'
<1> DEFINE free == <<NoWorker, leaseFaults + 1>>
           new == [d \in Leased' |-> IF d = c THEN free ELSE slot[d]]
<1>1. leaseFaults \in Nat
  BY LeaseAssumption DEF LeaseAssumption, LeaseTypeOK
<1>2. free \in Slots' /\ free \notin Slots /\ Slots \subseteq Slots'
  <2>1. leaseFaults + 1 \in 1 .. leaseFaults' /\ leaseFaults + 1 \notin 1 .. leaseFaults
    BY <1>1
  <2>2. 1 .. leaseFaults \subseteq 1 .. leaseFaults'
    BY <1>1
  <2> QED
    BY <2>1, <2>2, LeaseAssumption DEF LeaseAssumption, Slots
<1>3. new \in [Leased' -> Slots']
  BY <1>2
<1>4. \A d, e \in Leased' : new[d] = new[e] => d = e
  BY <1>2 DEF Counted
<1>5. \A w \in Workers, d \in Leased' :
         phase'[w] = "refreshing" /\ new[d][1] = w => d \in held'[w] \cup toRenew'[w]
  <2> SUFFICES ASSUME NEW w \in Workers, NEW d \in Leased',
                      phase'[w] = "refreshing", new[d][1] = w
               PROVE  d \in held'[w] \cup toRenew'[w]
    OBVIOUS
  <2>1. d # c
    BY LeaseAssumption DEF LeaseAssumption
  <2>2. phase[w] = "refreshing" => d \in held[w] \cup toRenew[w]
    BY <2>1 DEF Counted
  <2> QED
    BY <2>1, <2>2 DEF Remembers
<1> HIDE DEF new
<1> QED
  BY <1>3, <1>4, <1>5 DEF Counted

\* A worker with headroom has a free slot: the leases in its slots are all in
\* held, for its renewals are through.
LEMMA HeadroomIsFree ==
  ASSUME LeaseTypeOK, NEW slot \in [Leased -> Slots], Counted(slot),
         NEW w \in Workers, Acquiring(w), Headroom(w)
  PROVE  \E i \in 1 .. MaxChannels : \A d \in Leased : slot[d] # <<w, i>>
<1> SUFFICES ASSUME \A i \in 1 .. MaxChannels : \E d \in Leased : slot[d] = <<w, i>>
             PROVE  FALSE
  OBVIOUS
<1> DEFINE f == [i \in 1 .. MaxChannels |-> CHOOSE d \in Leased : slot[d] = <<w, i>>]
<1>1. \A i \in 1 .. MaxChannels : f[i] \in Leased /\ slot[f[i]] = <<w, i>>
  <2> SUFFICES ASSUME NEW i \in 1 .. MaxChannels
               PROVE  f[i] \in Leased /\ slot[f[i]] = <<w, i>>
    OBVIOUS
  <2>1. f[i] = CHOOSE d \in Leased : slot[d] = <<w, i>>
    OBVIOUS
  <2>2. \E d \in Leased : slot[d] = <<w, i>>
    OBVIOUS
  <2> QED
    BY <2>1, <2>2, Zenon
<1>2. \A i \in 1 .. MaxChannels : f[i] \in held[w]
  <2> SUFFICES ASSUME NEW i \in 1 .. MaxChannels PROVE f[i] \in held[w]
    OBVIOUS
  <2>1. f[i] \in Leased /\ slot[f[i]][1] = w
    <3> HIDE DEF f
    <3> QED
      BY <1>1
  <2> QED
    BY <2>1 DEF Counted, Acquiring
<1>3. f \in Injection(1 .. MaxChannels, held[w])
  <2>1. \A i, j \in 1 .. MaxChannels : f[i] = f[j] => i = j
    <3> SUFFICES ASSUME NEW i \in 1 .. MaxChannels, NEW j \in 1 .. MaxChannels, f[i] = f[j]
                 PROVE  i = j
      OBVIOUS
    <3>1. <<w, i>> = <<w, j>>
      BY <1>1
    <3> QED
      BY <3>1
  <2>2. f \in [1 .. MaxChannels -> held[w]]
    BY <1>2
  <2> HIDE DEF f
  <2> QED
    BY <2>1, <2>2 DEF Injection, IsInjective
<1>4. IsFiniteSet(held[w])
  BY LeaseAssumption, FS_Subset DEF LeaseAssumption, LeaseTypeOK
<1>5. Cardinality(1 .. MaxChannels) <= Cardinality(held[w])
  BY <1>3, <1>4, FS_Injection
<1>6. Cardinality(1 .. MaxChannels) = MaxChannels
  BY LeaseAssumption, FS_Interval DEF LeaseAssumption
<1>7. Cardinality(held[w]) \in Nat
  BY <1>4, FS_CardinalityType
<1> QED
  BY <1>5, <1>6, <1>7, LeaseAssumption DEF LeaseAssumption, Headroom

\* A lease that is acquired takes a free slot of the worker's.
LEMMA TakeOwnSlot ==
  ASSUME LeaseTypeOK, LeaseTypeOK', NEW slot \in [Leased -> Slots], Counted(slot),
         NEW w \in Workers, NEW c \in Channels, Acquiring(w), Headroom(w),
         Leased' = Leased \cup {c}, c \notin Leased, UNCHANGED leaseFaults,
         c \in held'[w], Remembers(Leased)
  PROVE  (\E s \in [Leased -> Slots] : Counted(s))'
<1>1. PICK i \in 1 .. MaxChannels : \A d \in Leased : slot[d] # <<w, i>>
  BY HeadroomIsFree
<1> DEFINE new == [d \in Leased' |-> IF d = c THEN <<w, i>> ELSE slot[d]]
<1>2. new \in [Leased' -> Slots']
  BY DEF Slots
<1>3. \A d, e \in Leased' : new[d] = new[e] => d = e
  BY <1>1 DEF Counted
<1>4. \A v \in Workers, d \in Leased' :
         phase'[v] = "refreshing" /\ new[d][1] = v => d \in held'[v] \cup toRenew'[v]
  <2> SUFFICES ASSUME NEW v \in Workers, NEW d \in Leased',
                      phase'[v] = "refreshing", new[d][1] = v
               PROVE  d \in held'[v] \cup toRenew'[v]
    OBVIOUS
  <2>1. CASE d = c
    BY <2>1
  <2>2. CASE d # c
    <3>1. phase[v] = "refreshing" => d \in held[v] \cup toRenew[v]
      BY <2>2 DEF Counted
    <3> QED
      BY <2>2, <3>1 DEF Remembers
  <2> QED
    BY <2>1, <2>2
<1> HIDE DEF new
<1> QED
  BY <1>2, <1>3, <1>4 DEF Counted

\* Nothing is leased at first, and every step keeps the slots: an answer that
\* is lost costs a fault, and only a worker with headroom acquires.
LEMMA InitFleet == LeaseInit => FleetInv
<1> SUFFICES ASSUME LeaseInit PROVE FleetInv
  OBVIOUS
<1>1. Leased = {}
  BY DEF LeaseInit, Leased, Live, Absent
<1>2. Scope
  BY <1>1 DEF LeaseInit, Scope
<1>3. [c \in Leased |-> NoWorker] \in [Leased -> Slots] /\ Counted([c \in Leased |-> NoWorker])
  BY <1>1 DEF Counted
<1> QED
  BY <1>2, <1>3 DEF FleetInv

LEMMA StepFleet == LeaseInv /\ LeaseInv' /\ FleetInv /\ [LeaseNext]_leaseVars => FleetInv'
<1> SUFFICES ASSUME LeaseInv, LeaseInv', FleetInv, [LeaseNext]_leaseVars PROVE FleetInv'
  OBVIOUS
<1>0. LeaseTypeOK /\ LeaseTypeOK' /\ Scope /\ leaseFaults \in Nat
  BY LeaseAssumption DEF LeaseAssumption, LeaseInv, LeaseTypeOK, FleetInv
<1> PICK slot \in [Leased -> Slots] : Counted(slot)
  BY DEF FleetInv
<1> USE <1>0
<1>a. ASSUME UNCHANGED <<lease, leaseFaults>>, Scope', Remembers(Leased) PROVE FleetInv'
  <2>1. Leased' = Leased /\ leaseFaults <= leaseFaults'
    BY <1>a DEF Leased, Live
  <2> QED
    BY <1>a, <2>1, KeepSlots DEF FleetInv
<1>b. ASSUME NEW w \in Workers, NEW c \in Channels, SetLease(w, c)
      PROVE  Leased' = Leased \cup {c}
  <2>1. lease'[c].ttl > 0 /\ \A d \in Channels \ {c} : lease'[d] = lease[d]
    BY <1>b, SetLeaseFacts, LeaseAssumption DEF LeaseAssumption
  <2> QED
    BY <2>1 DEF Leased, Live
<1>1. ASSUME NEW c \in Channels, PromoteScheduled(c) PROVE FleetInv'
  BY <1>1, <1>a DEF PromoteScheduled, workerVars, Scope, Remembers, Leased, Live
<1>2. CASE LeaseTick
  <2>1. Leased' \subseteq Leased
    <3> SUFFICES ASSUME NEW c \in Channels, lease'[c].ttl > 0 PROVE lease[c].ttl > 0
      BY DEF Leased, Live
    <3>1. lease[c].ttl \in Nat
      BY LeaseAssumption DEF LeaseAssumption, LeaseTypeOK, Lease
    <3> QED
      BY <1>2, <3>1 DEF LeaseTick, Absent
  <2>2. Scope' /\ Remembers(Leased') /\ leaseFaults' = leaseFaults
    BY <1>2, <2>1 DEF LeaseTick, workerVars, Scope, Remembers
  <2> QED
    BY <2>1, <2>2, KeepSlots DEF FleetInv
<1>3. ASSUME NEW w \in Workers, StartRefresh(w) PROVE FleetInv'
  <2>1. Scope'
    BY <1>3 DEF StartRefresh, Scope, LeaseTypeOK, Leased, Live
  <2>2. Remembers(Leased)
    BY <1>3 DEF StartRefresh, Scope, LeaseTypeOK, Remembers
  <2> QED
    BY <1>3, <2>1, <2>2, <1>a DEF StartRefresh
<1>4. ASSUME NEW w \in Workers, NEW c \in Channels, RenewOne(w, c) PROVE FleetInv'
  <2>1. Leased' = Leased
    BY <1>4, <1>b DEF RenewOne, Leased, Live
  <2>2. Scope'
    BY <1>4, <2>1 DEF RenewOne, Scope, LeaseTypeOK
  <2>3. Remembers(Leased')
    BY <1>4, <2>1 DEF RenewOne, Remembers, Leased, LeaseTypeOK
  <2> QED
    BY <1>4, <2>1, <2>2, <2>3, KeepSlots DEF RenewOne, FleetInv
<1>5. ASSUME NEW w \in Workers, NEW c \in Channels, AcquireOne(w, c) PROVE FleetInv'
  <2>1. Remembers(Leased) /\ UNCHANGED leaseFaults
    <3>1. held' = held \/ held' = [held EXCEPT ![w] = @ \cup {c}]
      BY <1>5 DEF AcquireOne
    <3>2. \A v \in Workers : held[v] \subseteq held'[v]
      BY <3>1 DEF LeaseTypeOK
    <3> QED
      BY <1>5, <3>2 DEF AcquireOne, Remembers
  <2>2. CASE Live(c)
    <3>1. Scope' /\ UNCHANGED lease
      BY <1>5, <2>2 DEF AcquireOne, Scope, LeaseTypeOK, Leased, Live
    <3> QED
      BY <3>1, <2>1, <1>a
  <2>3. CASE ~Live(c)
    <3>1. Leased' = Leased \cup {c} /\ c \notin Leased /\ c \in held'[w]
      BY <1>5, <2>3, <1>b DEF AcquireOne, Leased, LeaseTypeOK
    <3>2. Scope'
      BY <1>5, <3>1 DEF AcquireOne, Scope, LeaseTypeOK
    <3>3. Acquiring(w) /\ Headroom(w)
      BY <1>5 DEF AcquireOne
    <3> QED
      BY <2>1, <3>1, <3>2, <3>3, TakeOwnSlot DEF FleetInv
  <2> QED
    BY <2>2, <2>3
<1>6. ASSUME NEW w \in Workers, NEW c \in Channels, SetFails(w, c) PROVE FleetInv'
  <2>1. leaseFaults' = leaseFaults + 1 /\ Remembers(Leased \ {c})
    BY <1>6 DEF SetFails, Remembers, LeaseTypeOK
  <2>5. recordable' = recordable /\ c \in recordable
    BY <1>6 DEF SetFails, Scope
  <2>6. \A v \in Workers : toRenew'[v] \subseteq toRenew[v] /\ toAcquire'[v] \subseteq toAcquire[v]
    <3>1. toRenew' = [toRenew EXCEPT ![w] = @ \ {c}] \/ toRenew' = toRenew
      BY <1>6 DEF SetFails
    <3>2. toAcquire' = [toAcquire EXCEPT ![w] = @ \ {c}] \/ toAcquire' = toAcquire
      BY <1>6 DEF SetFails
    <3>3. \A v \in Workers : toRenew'[v] \subseteq toRenew[v]
      BY <3>1 DEF LeaseTypeOK
    <3>4. \A v \in Workers : toAcquire'[v] \subseteq toAcquire[v]
      BY <3>2 DEF LeaseTypeOK
    <3> QED
      BY <3>3, <3>4
  <2>2. CASE Leased' = Leased \cup {c}
    <3>1. Scope'
      BY <2>2, <2>5, <2>6 DEF Scope
    <3>2. Remembers(Leased' \ {c})
      BY <2>1, <2>2 DEF Remembers
    <3> QED
      BY <2>1, <2>2, <3>1, <3>2, TakeFaultSlot DEF FleetInv
  <2>3. CASE Leased' = Leased /\ c \notin Leased
    <3>1. Scope'
      BY <2>3, <2>5, <2>6 DEF Scope
    <3> QED
      BY <2>1, <2>3, <3>1, KeepSlots DEF FleetInv, Remembers
  <2>4. UNCHANGED lease \/ SetLease(w, c)
    BY <1>6 DEF SetFails
  <2> QED
    BY <2>2, <2>3, <2>4, <1>b DEF Leased, Live
<1>7. ASSUME NEW w \in Workers, NEW unanswered \in SUBSET Channels,
             FinishRefresh(w, unanswered) PROVE FleetInv'
  <2>1. Scope' /\ Remembers(Leased) /\ Leased' = Leased /\ leaseFaults <= leaseFaults'
    BY <1>7 DEF FinishRefresh, Scope, Remembers, LeaseTypeOK, Leased, Live
  <2> QED
    BY <2>1, KeepSlots DEF FleetInv
<1>8. ASSUME NEW w \in Workers, Crash(w) PROVE FleetInv'
  <2>1. Scope' /\ Remembers(Leased) /\ Leased' = Leased /\ leaseFaults <= leaseFaults'
    BY <1>8 DEF Crash, Scope, Remembers, LeaseTypeOK, Leased, Live
  <2> QED
    BY <2>1, KeepSlots DEF FleetInv
<1>9. ASSUME NEW w \in Workers, Restart(w) PROVE FleetInv'
  BY <1>9, <1>a DEF Restart, Scope, Remembers, Leased, Live
<1>10. CASE UNCHANGED leaseVars
  BY <1>10, <1>a DEF leaseVars, workerVars, Scope, Remembers, Leased, Live
<1> QED
  BY <1>1, <1>2, <1>3, <1>4, <1>5, <1>6, <1>7, <1>8, <1>9, <1>10 DEF LeaseNext

\* There are as many slots as the bound says.
LEMMA SlotsBound == LeaseTypeOK /\ FleetInv => FleetLeaseBound
<1> SUFFICES ASSUME LeaseTypeOK, FleetInv PROVE FleetLeaseBound
  OBVIOUS
<1> USE LeaseAssumption DEF LeaseAssumption
<1>0. leaseFaults \in Nat
  BY DEF LeaseTypeOK
<1>1. IsFiniteSet({NoWorker}) /\ Cardinality({NoWorker}) = 1
  BY ONLY FS_Singleton, Zenon
<1>2. /\ IsFiniteSet(1 .. MaxChannels) /\ Cardinality(1 .. MaxChannels) = MaxChannels
      /\ IsFiniteSet(1 .. leaseFaults) /\ Cardinality(1 .. leaseFaults) = leaseFaults
  BY <1>0, FS_Interval
<1> DEFINE own == Workers \X (1 .. MaxChannels)
           lost == {NoWorker} \X (1 .. leaseFaults)
<1>3. IsFiniteSet(own) /\ Cardinality(own) = Cardinality(Workers) * MaxChannels
  <2>1. IsFiniteSet(Workers)
    OBVIOUS
  <2>2. Cardinality(own) = Cardinality(Workers) * Cardinality(1 .. MaxChannels)
    BY ONLY <2>1, <1>2, FS_Product, Zenon
  <2>3. IsFiniteSet(own)
    BY ONLY <2>1, <1>2, FS_Product, Zenon
  <2> QED
    BY <2>2, <2>3, <1>2
<1>4. IsFiniteSet(lost) /\ Cardinality(lost) = leaseFaults
  <2>1. Cardinality(lost) = Cardinality({NoWorker}) * Cardinality(1 .. leaseFaults)
    BY ONLY <1>1, <1>2, FS_Product, Zenon
  <2>2. IsFiniteSet(lost)
    BY ONLY <1>1, <1>2, FS_Product, Zenon
  <2> QED
    BY <2>1, <2>2, <1>0, <1>1, <1>2
<1>5. own \cap lost = {}
  OBVIOUS
<1>6. IsFiniteSet(Slots) /\ Cardinality(Slots) = Cardinality(Workers) * MaxChannels + leaseFaults
  <2>1. Cardinality(own \cap lost) = 0
    BY <1>5, FS_EmptySet
  <2>2. Cardinality(Workers) \in Nat
    BY FS_CardinalityType
  <2>3. Cardinality(own) \in Nat
    BY <1>3, FS_CardinalityType
  <2>4. IsFiniteSet(own \cup lost)
        /\ Cardinality(own \cup lost)
             = Cardinality(own) + Cardinality(lost) - Cardinality(own \cap lost)
    BY <1>3, <1>4, FS_Union
  <2>5. Slots = own \cup lost
    BY DEF Slots
  <2> HIDE DEF own, lost
  <2> QED
    BY <2>1, <2>2, <2>3, <2>4, <2>5, <1>0, <1>3, <1>4
<1>7. PICK slot \in [Leased -> Slots] : Counted(slot)
  BY DEF FleetInv
<1>8. slot \in Injection(Leased, Slots)
  BY <1>7 DEF Counted, Injection, IsInjective
<1>9. Cardinality(Leased) <= Cardinality(Slots)
  BY <1>6, <1>8, FS_Injection
<1>10. Cardinality(Workers) \in Nat
  BY FS_CardinalityType
<1>11. Cardinality(Workers) * MaxChannels = MaxChannels * Cardinality(Workers)
  BY <1>10
<1> QED
  BY <1>6, <1>9, <1>11 DEF FleetLeaseBound, Leased

\* Leases, refreshes and claims are well formed, the time to live included.
THEOREM LeaseTypes == LeaseSpec => []LeaseTypeOK
<1>1. LeaseInv => LeaseTypeOK
  BY DEF LeaseInv
<1> QED
  BY <1>1, InitLeaseInv, StepLeaseInv, PTL DEF LeaseSpec

\* A worker's lease is there for a full TTL after its SET was answered, whatever
\* the other workers do: no SET NX takes it meanwhile.
THEOREM ClaimSafe == LeaseSpec => []ClaimIsLeased
<1>1. LeaseInv => ClaimIsLeased
  BY DEF LeaseInv
<1> QED
  BY <1>1, InitLeaseInv, StepLeaseInv, PTL DEF LeaseSpec

\* The leases of the fleet stay within the slots of its workers and the
\* faults so far, although a worker renews whatever it finds.
THEOREM FleetBounded == LeaseSpec => []FleetLeaseBound
<1>1. LeaseInv /\ FleetInv => FleetLeaseBound
  BY SlotsBound DEF LeaseInv
<1> QED
  BY <1>1, InitLeaseInv, StepLeaseInv, InitFleet, StepFleet, PTL DEF LeaseSpec

---------------------------------------------------------------------------
(* SegmentArchive.                                                         *)

(***************************************************************************)
(* The inductive invariant.  A row is safe because the job that inserted   *)
(* it was (its object was there), and objects go only with expired rows.   *)
(***************************************************************************)
Covered(x) == Expired(x) \/ HasObject(x)
Past(x) == x.at \in Int /\ x.at <= now

Shape ==
    /\ now \in Int /\ now >= 0
    /\ jobs = [r \in Recorders |-> jobs[r]]
    /\ todo = [s \in Sweepers |-> todo[s]]
    /\ gone = [s \in Sweepers |-> gone[s]]

JobsSafe ==
    \A r \in Recorders : \A j \in jobs[r] :
        Past(j) /\ (j.stage = "index" => Covered(j))
RowsSafe == \A x \in rows : Past(x) /\ Covered(x)
PassesSafe ==
    \A s \in Sweepers : \A x \in todo[s] \cup gone[s] : Past(x) /\ Expired(x)

IInv == Shape /\ JobsSafe /\ RowsSafe /\ PassesSafe

USE ArchiveAssumption DEF ArchiveAssumption

\* An empty archive has no row to lose.
LEMMA InitIInv == Init => IInv
  BY DEF Init, IInv, Shape, JobsSafe, RowsSafe, PassesSafe

\* Uploading never takes an object away: a key it names is named again.
LEMMA PutKeeps ==
  ASSUME NEW js, PutAll(js)
  PROVE  /\ \A x : HasObject(x) => HasObject(x)'
         /\ \A j \in js : HasObject(j)'
<1>1. objects' = {o \in objects : \A j \in js : Key(o) # Key(j)}
                   \cup {Stored(j) : j \in js}
  BY DEF PutAll
<1>2. ASSUME NEW j \in js PROVE Stored(j) \in objects' /\ Key(Stored(j)) = Key(j)
  BY <1>1 DEF Stored, Key
<1>3. ASSUME NEW x, HasObject(x) PROVE HasObject(x)'
  <2>1. PICK o \in objects : Key(o) = Key(x)
    BY <1>3 DEF HasObject
  <2>2. CASE \A j \in js : Key(o) # Key(j)
    <3>1. o \in objects'
      BY <1>1, <2>2
    <3> QED
      BY <2>1, <3>1 DEF HasObject, Key
  <2>3. CASE \E j \in js : Key(o) = Key(j)
    BY <1>2, <2>1, <2>3 DEF HasObject, Key
  <2> QED
    BY <2>2, <2>3
<1> QED
  BY <1>2, <1>3 DEF HasObject, Key

\* What is expired stays expired, what is past stays past.
LEMMA TimeKeeps ==
  ASSUME now \in Int, now' \in Int, now <= now', NEW x
  PROVE  Past(x) => Past(x)' /\ (Expired(x) => Expired(x)')
  BY DEF Past, Expired

\* Deleting the object of an expired row leaves every other segment covered:
\* the key carries the time, so whatever it names is expired as well.
LEMMA DeleteKeeps ==
  ASSUME NEW x, Expired(x), UNCHANGED now,
         objects' = {o \in objects : Key(o) # Key(x)},
         NEW y, Covered(y)
  PROVE  Covered(y)'
  BY DEF Covered, Expired, HasObject, Key

\* Every step keeps it: time and uploads leave what is covered covered, deletes
\* touch expired segments only, and a job is indexed after its upload.
LEMMA StepIInv == IInv /\ [Next]_vars => IInv'
<1> SUFFICES ASSUME IInv, [Next]_vars PROVE IInv'
  OBVIOUS
<1> USE DEF IInv
<1>1. CASE Tick
  <2>1. now' = now + 1 /\ UNCHANGED <<jobs, todo, gone, rows, objects>>
    BY <1>1 DEF Tick, sessionVars, sweepVars
  <2>2. now \in Int /\ now' \in Int /\ now <= now'
    BY <2>1 DEF Shape
  <2>3. ASSUME NEW x, Past(x) PROVE Past(x)' /\ (Expired(x) => Expired(x)')
    BY <2>2, <2>3, TimeKeeps
  <2>4. ASSUME NEW x, Past(x), Covered(x) PROVE Covered(x)'
    BY <2>1, <2>3, <2>4 DEF Covered, HasObject
  <2>5. Shape'
    BY <2>1 DEF Shape
  <2>6. JobsSafe' /\ RowsSafe' /\ PassesSafe'
    BY <2>1, <2>3, <2>4 DEF JobsSafe, RowsSafe, PassesSafe
  <2> QED
    BY <2>5, <2>6
<1>2. CASE Publish
  BY <1>2 DEF Publish, sessionVars, sweepVars, Shape, JobsSafe, RowsSafe, PassesSafe,
              Past, Covered, Expired, HasObject
<1>3. ASSUME NEW r \in Recorders, StartSession(r) PROVE IInv'
  BY <1>3 DEF StartSession, sweepVars, Shape, JobsSafe, RowsSafe, PassesSafe,
              Past, Covered, Expired, HasObject
<1>4. ASSUME NEW r \in Recorders, Poll(r) PROVE IInv'
  <2>1. UNCHANGED <<now, objects, rows, todo, gone>>
    BY <1>4 DEF Poll, sweepVars
  <2> DEFINE fetch == Scan(ring[r], Playlist).fetch
             new == {MakeJob(fetch[i], seq[r] + i, 0, "fetch") : i \in DOMAIN fetch}
  <2>2. jobs' = [jobs EXCEPT ![r] = new]
    BY <1>4 DEF Poll
  <2>3. ASSUME NEW j \in new PROVE Past(j) /\ j.stage # "index"
    BY DEF MakeJob, Past, Shape
  <2> HIDE DEF new
  <2>4. Shape'
    BY <2>1, <2>2 DEF Shape
  <2>5. ASSUME NEW q \in Recorders, NEW j \in jobs'[q]
        PROVE  Past(j) /\ (j.stage = "index" => Covered(j))
    BY <2>2, <2>3 DEF Shape, JobsSafe
  <2> QED
    BY <2>1, <2>4, <2>5 DEF JobsSafe, RowsSafe, PassesSafe, Past, Covered, Expired, HasObject
<1>5. ASSUME NEW r \in Recorders, NEW j \in jobs[r], Fetched(r, j) PROVE IInv'
  <2> DEFINE new == MakeJob(j.src, j.seq, now, "upload")
  <2>1. UNCHANGED <<now, objects, rows, todo, gone>>
    BY <1>5 DEF Fetched, sweepVars
  <2>2. jobs' = [jobs EXCEPT ![r] = (@ \ {j}) \cup {new}]
    BY <1>5 DEF Fetched
  <2>3. Past(new) /\ new.stage # "index"
    BY DEF MakeJob, Past, Shape
  <2> HIDE DEF new
  <2>4. Shape'
    BY <2>1, <2>2 DEF Shape
  <2>5. ASSUME NEW q \in Recorders, NEW i \in jobs'[q]
        PROVE  Past(i) /\ (i.stage = "index" => Covered(i))
    BY <2>2, <2>3 DEF Shape, JobsSafe
  <2> QED
    BY <2>1, <2>4, <2>5 DEF JobsSafe, RowsSafe, PassesSafe, Past, Covered, Expired, HasObject
<1>6. ASSUME NEW r \in Recorders, NEW j \in jobs[r], Uploaded(r, j) PROVE IInv'
  <2> DEFINE new == MakeJob(j.src, j.seq, j.at, "index")
  <2>1. UNCHANGED <<now, rows, todo, gone>>
    BY <1>6 DEF Uploaded, sweepVars
  <2>2. jobs' = [jobs EXCEPT ![r] = (@ \ {j}) \cup {new}] /\ PutAll({j})
    BY <1>6 DEF Uploaded
  <2>3. Past(new)
    BY DEF MakeJob, Past, JobsSafe
  <2>4. HasObject(j)' /\ Key(new) = Key(j)
    BY <2>2, PutKeeps DEF MakeJob, Key
  <2>5. Covered(new)'
    BY <2>4 DEF Covered, HasObject
  <2> HIDE DEF new
  <2>6. ASSUME NEW x PROVE /\ Covered(x) => Covered(x)'
                           /\ Past(x) => Past(x)'
                           /\ Expired(x) => Expired(x)'
    BY <2>1, <2>2, PutKeeps DEF Covered, Expired, Past
  <2>7. Shape'
    BY <2>1, <2>2 DEF Shape
  <2>8. ASSUME NEW q \in Recorders, NEW i \in jobs'[q]
        PROVE  Past(i)' /\ (i.stage = "index" => Covered(i)')
    BY <2>2, <2>3, <2>5, <2>6 DEF Shape, JobsSafe
  <2> QED
    BY <2>1, <2>6, <2>7, <2>8 DEF JobsSafe, RowsSafe, PassesSafe
<1>7. ASSUME NEW r \in Recorders, NEW j \in jobs[r], Indexed(r, j) PROVE IInv'
  <2>1. UNCHANGED <<now, objects, todo, gone>>
    BY <1>7 DEF Indexed, sweepVars
  <2>2. jobs' = [jobs EXCEPT ![r] = @ \ {j}] /\ rows' \subseteq rows \cup {Stored(j)}
    BY <1>7 DEF Indexed
  <2>3. Past(Stored(j)) /\ Covered(Stored(j))
    BY <1>7 DEF Indexed, JobsSafe, Past, Covered, Expired, HasObject, Key, Stored
  <2>4. ASSUME NEW x PROVE /\ Covered(x) => Covered(x)'
                           /\ Past(x) => Past(x)'
                           /\ Expired(x) => Expired(x)'
    BY <2>1 DEF Covered, Expired, Past, HasObject
  <2>5. Shape'
    BY <2>1, <2>2 DEF Shape
  <2>6. JobsSafe'
    BY <2>2, <2>4 DEF Shape, JobsSafe
  <2>7. RowsSafe'
    BY <2>2, <2>3, <2>4 DEF RowsSafe
  <2> QED
    BY <2>1, <2>4, <2>5, <2>6, <2>7 DEF PassesSafe
<1>8. ASSUME NEW r \in Recorders, NEW landed, Abandon(r, landed),
             UNCHANGED <<now, todo, gone>>
      PROVE  IInv'
  <2> DEFINE inserts == {j \in landed : j.stage = "index"}
  <2>1. /\ landed \subseteq jobs[r]
        /\ jobs' = [jobs EXCEPT ![r] = {}]
        /\ PutAll({j \in landed : j.stage = "upload"})
        /\ rows' = rows \cup {Stored(j) : j \in inserts}
    BY <1>8 DEF Abandon
  <2>2. ASSUME NEW x PROVE /\ Covered(x) => Covered(x)'
                           /\ Past(x) => Past(x)'
                           /\ Expired(x) => Expired(x)'
    BY <1>8, <2>1, PutKeeps DEF Covered, Expired, Past
  <2>3. ASSUME NEW j \in inserts PROVE Past(Stored(j)) /\ Covered(Stored(j))
    BY <2>1 DEF JobsSafe, Past, Covered, Expired, HasObject, Key, Stored
  <2>4. Shape'
    BY <1>8, <2>1 DEF Shape
  <2>5. JobsSafe'
    BY <2>1, <2>2 DEF Shape, JobsSafe
  <2>6. RowsSafe'
    BY <2>1, <2>2, <2>3 DEF RowsSafe
  <2> QED
    BY <1>8, <2>2, <2>4, <2>5, <2>6 DEF PassesSafe
<1>9. ASSUME NEW r \in Recorders, NEW landed \in SUBSET jobs[r], BatchFails(r, landed)
      PROVE  IInv'
  BY <1>8, <1>9 DEF BatchFails, sweepVars
<1>10. ASSUME NEW r \in Recorders, NEW landed \in SUBSET jobs[r], StopSession(r, landed)
       PROVE  IInv'
  BY <1>8, <1>10 DEF StopSession, sweepVars
<1>11. ASSUME NEW s \in Sweepers, ListExpired(s) PROVE IInv'
  BY <1>11 DEF ListExpired, IsBatch, sessionVars, Shape, JobsSafe, RowsSafe, PassesSafe,
               Past, Covered, Expired, HasObject
<1>12. ASSUME NEW s \in Sweepers, NEW x \in todo[s],
              UNCHANGED objects \/ objects' = {o \in objects : Key(o) # Key(x)},
              UNCHANGED <<now, jobs, rows>>,
              todo' = [todo EXCEPT ![s] = @ \ {x}],
              gone' = [gone EXCEPT ![s] = @ \cup {x}] \/ gone' = gone
       PROVE  IInv'
  <2>1. Expired(x)
    BY DEF PassesSafe
  <2>2. ASSUME NEW y PROVE /\ Covered(y) => Covered(y)'
                           /\ Past(y) => Past(y)'
                           /\ Expired(y) => Expired(y)'
    BY <1>12, <2>1, DeleteKeeps DEF Covered, Past, Expired, HasObject
  <2>3. Shape'
    BY <1>12 DEF Shape
  <2>4. JobsSafe' /\ RowsSafe'
    BY <1>12, <2>2 DEF JobsSafe, RowsSafe
  <2>5. ASSUME NEW q \in Sweepers, NEW y \in todo'[q] \cup gone'[q]
        PROVE  Past(y) /\ Expired(y)
    BY <1>12 DEF Shape, PassesSafe
  <2> QED
    BY <2>2, <2>3, <2>4, <2>5 DEF PassesSafe
<1>13. ASSUME NEW s \in Sweepers, NEW x \in todo[s], DeleteObject(s, x) PROVE IInv'
  BY <1>12, <1>13 DEF DeleteObject, sessionVars
<1>14. ASSUME NEW s \in Sweepers, NEW x \in todo[s], DeleteObjectFails(s, x) PROVE IInv'
  BY <1>12, <1>14 DEF DeleteObjectFails, sessionVars
<1>15. ASSUME NEW s \in Sweepers, DeleteRows(s) PROVE IInv'
  BY <1>15 DEF DeleteRows, sessionVars, Shape, JobsSafe, RowsSafe, PassesSafe,
               Past, Covered, Expired, HasObject
<1>16. ASSUME NEW s \in Sweepers, PassFails(s) PROVE IInv'
  BY <1>16 DEF PassFails, sessionVars, Shape, JobsSafe, RowsSafe, PassesSafe,
               Past, Covered, Expired, HasObject
<1>17. CASE UNCHANGED vars
  BY <1>17 DEF vars, sessionVars, sweepVars, Shape, JobsSafe, RowsSafe, PassesSafe,
               Past, Covered, Expired, HasObject
<1> QED
  BY <1>1, <1>2, <1>3, <1>4, <1>5, <1>6, <1>7, <1>9, <1>10, <1>11, <1>13, <1>14,
     <1>15, <1>16, <1>17 DEF Next

\* Every row that a manifest can list within the retention period has its object.
THEOREM Replayable == Spec => []UnexpiredIsReplayable
<1>1. IInv => UnexpiredIsReplayable
  BY DEF IInv, RowsSafe, Covered, UnexpiredIsReplayable
<1> QED
  BY <1>1, InitIInv, StepIInv, PTL DEF Spec

---------------------------------------------------------------------------
(* The archive implements RetainedArchive.                                 *)

\* Initially nothing is replayable.
LEMMA InitRefines == Init => Promise!Init
  BY DEF Init, Promise!Init, replayable

\* Rows and objects only come: the new segments have been broadcast.
LEMMA Grows ==
  ASSUME IInv, UNCHANGED now, RowsSafe', \A x \in rows : x \in rows',
         \A x : HasObject(x) => HasObject(x)'
  PROVE  Promise!Next
<1>1. replayable \subseteq replayable'
  BY DEF replayable
<1>2. ASSUME NEW x \in replayable' PROVE x.at <= now
  BY <1>2 DEF replayable, RowsSafe, Past
<1> QED
  BY <1>1, <1>2 DEF Promise!Next, Promise!Append

\* Rows and objects only go: those of expired segments.
LEMMA Shrinks ==
  ASSUME UNCHANGED now, replayable' \subseteq replayable,
         \A x \in replayable : x \in replayable' \/ Expired(x)
  PROVE  Promise!Next
  BY DEF Promise!Next, Promise!Expire, Expired

\* Every step of the archive is a tick, an append or an expiry of the promise,
\* or leaves the replayable segments alone.
LEMMA StepRefines ==
  IInv /\ IInv' /\ [Next]_vars => [Promise!Next]_<<now, replayable>>
<1> SUFFICES ASSUME IInv, IInv', [Next]_vars
             PROVE  Promise!Next \/ UNCHANGED <<now, replayable>>
  BY DEF Promise!Next
<1> USE DEF IInv
<1>1. CASE Tick
  <2>1. now' = now + 1 /\ UNCHANGED replayable
    BY <1>1 DEF Tick, replayable, HasObject
  <2> QED
    BY <2>1 DEF Promise!Next, Promise!Tick
<1>2. CASE UNCHANGED <<now, objects, rows>>
  BY <1>2 DEF replayable, HasObject
<1>3. ASSUME NEW js, PutAll(js), UNCHANGED now, rows \subseteq rows'
      PROVE  Promise!Next
  BY <1>3, PutKeeps, Grows
<1>4. ASSUME NEW r \in Recorders, NEW j \in jobs[r], Uploaded(r, j) PROVE Promise!Next
  BY <1>3, <1>4 DEF Uploaded
<1>5. ASSUME NEW r \in Recorders, NEW j \in jobs[r], Indexed(r, j) PROVE Promise!Next
  <2>1. UNCHANGED <<now, objects>> /\ rows \subseteq rows'
    BY <1>5 DEF Indexed
  <2> QED
    BY <2>1, Grows DEF HasObject
<1>6. ASSUME NEW r \in Recorders, NEW landed \in SUBSET jobs[r],
             BatchFails(r, landed) \/ StopSession(r, landed)
      PROVE  Promise!Next
  BY <1>3, <1>6 DEF BatchFails, StopSession, Abandon
<1>7. ASSUME NEW s \in Sweepers, NEW x \in todo[s],
             objects' = {o \in objects : Key(o) # Key(x)}, UNCHANGED <<now, rows>>
      PROVE  Promise!Next
  <2>1. Expired(x)
    BY DEF PassesSafe
  <2>2. replayable' \subseteq replayable
    BY <1>7 DEF replayable, HasObject
  <2>3. ASSUME NEW y \in replayable PROVE y \in replayable' \/ Expired(y)
    <3>1. Covered(y)'
      BY <1>7, <2>1, DeleteKeeps DEF replayable, Covered
    <3> QED
      BY <1>7, <3>1 DEF replayable, Covered, Expired
  <2> QED
    BY <1>7, <2>2, <2>3, Shrinks
<1>8. ASSUME NEW s \in Sweepers, NEW x \in todo[s],
             DeleteObject(s, x) \/ DeleteObjectFails(s, x)
      PROVE  Promise!Next \/ UNCHANGED <<now, replayable>>
  BY <1>2, <1>7, <1>8 DEF DeleteObject, DeleteObjectFails
<1>9. ASSUME NEW s \in Sweepers, DeleteRows(s) PROVE Promise!Next
  <2>1. UNCHANGED <<now, objects>> /\ rows' = rows \ gone[s]
    BY <1>9 DEF DeleteRows
  <2>2. \A x \in gone[s] : Expired(x)
    BY DEF PassesSafe
  <2> QED
    BY <2>1, <2>2, Shrinks DEF replayable, HasObject
<1> QED
  BY <1>1, <1>2, <1>4, <1>5, <1>6, <1>8, <1>9
     DEF Next, Publish, StartSession, Poll, Fetched, ListExpired, PassFails, vars

\* The archive keeps the promise of RetainedArchive: it loses a replayable
\* segment only when that segment is past retention.
THEOREM Refinement == Spec => ImplementsRetainedArchive
<1>1. IInv /\ IInv' /\ [Next]_vars => [Promise!Next]_<<now, replayable>>
  BY StepRefines
<1> QED
  BY <1>1, InitIInv, StepIInv, InitRefines, PTL
     DEF Spec, ImplementsRetainedArchive, Promise!Spec
=============================================================================
