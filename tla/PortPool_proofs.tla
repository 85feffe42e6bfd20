--------------------------- MODULE PortPool_proofs ---------------------------
(***************************************************************************)
(* Theorems about the port pool, for every set of sessions, every set of   *)
(* ports and every configured range.  UsedHeldDisjoint is inductive only   *)
(* together with the type invariant and with NoHoldBeforeHolds: Reserve    *)
(* overwrites whatever a port was, and keeps the maps disjoint only        *)
(* because RecoverFromDB reserves every running port before any hold.      *)
(***************************************************************************)
EXTENDS PortPool, TLAPS

(* While running sessions are being recovered no port is held yet           *)
(* (RecoverFromDB calls recoverPortReservations last).                      *)
NoHoldBeforeHolds == phase = "reserve" => \A p \in Port : held[p] = NoHold

PoolInv ==
    /\ PoolTypeOK
    /\ UsedHeldDisjoint
    /\ NoHoldBeforeHolds

(* The type invariant is inductive on its own: every method of the pool     *)
(* leaves one owner or none, and one hold or none, on each port.            *)
LEMMA PoolTypeStep == PoolTypeOK /\ [PoolNext]_poolVars => PoolTypeOK'
<1> SUFFICES ASSUME PoolTypeOK, [PoolNext]_poolVars
             PROVE  PoolTypeOK'
  OBVIOUS
<1> USE DEF PoolTypeOK
<1>1. ASSUME NEW p \in Port, NEW s \in Session, BootReserve(p, s)
      PROVE  PoolTypeOK'
  BY <1>1 DEF BootReserve, Reserve
<1>2. ASSUME NEW p \in Port, NEW s \in Session, NEW t \in Time, HoldPort(p, s, t),
             phase' \in {"reserve", "hold", "serve"}
      PROVE  PoolTypeOK'
  BY <1>2 DEF HoldPort, Hold
<1>3. CASE BootReserved \/ BootDone
  BY <1>3 DEF BootReserved, BootDone
<1>4. CASE NewPool
  BY <1>4 DEF NewPool
<1>5. CASE Serve
  <2>1. ASSUME NEW s \in Session, NEW p \in Port, AcquireFor(s, p)
        PROVE  PoolTypeOK'
    BY <1>5, <2>1 DEF Serve, AcquireFor, TakeOwnHold, TakeLowestFree, EvictOldestHold
  <2>2. ASSUME NEW s \in Session, NEW p \in Port, Forget(p, s) \/ ReleaseFor(p, s)
        PROVE  PoolTypeOK'
    BY <1>5, <2>2 DEF Serve, Forget, ReleaseFor
  <2>3. ASSUME NEW t \in Time, Expire(t)
        PROVE  PoolTypeOK'
    BY <1>5, <2>3 DEF Serve, Expire
  <2>4. ASSUME NEW p \in Port, Release(p)
        PROVE  PoolTypeOK'
    BY <1>5, <2>4 DEF Serve, Release
  <2>5. QED
    BY <1>2, <1>5, <2>1, <2>2, <2>3, <2>4 DEF Serve
<1>6. CASE UNCHANGED poolVars
  BY <1>6 DEF poolVars
<1>7. QED
  BY <1>1, <1>2, <1>3, <1>4, <1>5, <1>6 DEF PoolNext, BootHold

(* The pool is well typed in every state.                                   *)
THEOREM PoolTypeCorrect == PoolSpec => []PoolTypeOK
<1>1. PoolInit => PoolTypeOK
  BY DEF PoolInit, PoolTypeOK
<1>2. QED
  BY <1>1, PoolTypeStep, PTL DEF PoolSpec

-----------------------------------------------------------------------------
(* A call that serves a session, or recovers a hold, keeps the maps         *)
(* disjoint: acquiring drops the hold, holding drops the use.               *)
LEMMA CallKeepsDisjoint ==
    ASSUME PoolTypeOK, UsedHeldDisjoint,
           \/ \E s \in Session, p \in Port :
                \/ AcquireFor(s, p) \/ Forget(p, s) \/ ReleaseFor(p, s)
                \/ \E t \in Time : HoldPort(p, s, t)
           \/ \E t \in Time : Expire(t)
           \/ \E p \in Port : Release(p)
    PROVE  UsedHeldDisjoint'
<1> USE DEF PoolTypeOK, UsedHeldDisjoint, InUse, IsHeld, NoHold
<1>1. ASSUME NEW s \in Session, NEW p \in Port, AcquireFor(s, p)
      PROVE  UsedHeldDisjoint'
  BY <1>1 DEF AcquireFor, TakeOwnHold, TakeLowestFree, EvictOldestHold, Free
<1>2. ASSUME NEW s \in Session, NEW p \in Port, Forget(p, s) \/ ReleaseFor(p, s)
      PROVE  UsedHeldDisjoint'
  BY <1>2 DEF Forget, ReleaseFor
<1>3. ASSUME NEW s \in Session, NEW p \in Port, NEW t \in Time, HoldPort(p, s, t)
      PROVE  UsedHeldDisjoint'
  BY <1>3 DEF HoldPort
<1>4. ASSUME NEW t \in Time, Expire(t)
      PROVE  UsedHeldDisjoint'
  BY <1>4 DEF Expire
<1>5. ASSUME NEW p \in Port, Release(p)
      PROVE  UsedHeldDisjoint'
  BY <1>5 DEF Release
<1>6. QED
  BY <1>1, <1>2, <1>3, <1>4, <1>5

LEMMA PoolInvStep == PoolInv /\ [PoolNext]_poolVars => PoolInv'
<1> SUFFICES ASSUME PoolInv, [PoolNext]_poolVars
             PROVE  PoolInv'
  OBVIOUS
<1>1. PoolTypeOK'
  BY PoolTypeStep DEF PoolInv
<1>2. UsedHeldDisjoint'
  <2>1. CASE \E p \in Port, s \in Session : BootReserve(p, s)
    BY <2>1 DEF BootReserve, Reserve, PoolInv, NoHoldBeforeHolds, PoolTypeOK,
                UsedHeldDisjoint, InUse, IsHeld, NoHold
  <2>2. CASE \E p \in Port, s \in Session, t \in Time : BootHold(p, s, t)
    BY <2>2, CallKeepsDisjoint DEF BootHold, PoolInv
  <2>3. CASE BootReserved \/ BootDone \/ UNCHANGED poolVars
    BY <2>3 DEF BootReserved, BootDone, poolVars, PoolInv, UsedHeldDisjoint, InUse, IsHeld
  <2>4. CASE Serve
    BY <2>4, CallKeepsDisjoint DEF Serve, PoolInv
  <2>5. CASE NewPool
    BY <2>5 DEF NewPool, UsedHeldDisjoint, InUse, IsHeld, NoHold
  <2>6. QED
    BY <2>1, <2>2, <2>3, <2>4, <2>5 DEF PoolNext
<1>3. NoHoldBeforeHolds'
  <2>1. CASE phase' # "reserve"
    BY <2>1 DEF NoHoldBeforeHolds
  <2>2. CASE NewPool
    BY <2>2 DEF NewPool, NoHoldBeforeHolds
  <2>3. CASE phase' = "reserve" /\ ~NewPool
    <3>1. phase = "reserve" /\ UNCHANGED held
      BY <2>3 DEF PoolNext, BootReserve, Reserve, BootHold, BootReserved, BootDone,
                  Serve, poolVars
    <3>2. QED
      BY <3>1 DEF PoolInv, NoHoldBeforeHolds
  <2>4. QED
    BY <2>1, <2>2, <2>3
<1>4. QED
  BY <1>1, <1>2, <1>3 DEF PoolInv

LEMMA PoolInvariant == PoolSpec => []PoolInv
<1>1. PoolInit => PoolInv
  BY DEF PoolInit, PoolInv, PoolTypeOK, UsedHeldDisjoint, NoHoldBeforeHolds,
         InUse, IsHeld, NoHold
<1>2. QED
  BY <1>1, PoolInvStep, PTL DEF PoolSpec

(* In every state of every process, no port is both in use and held.        *)
THEOREM PoolDisjoint == PoolSpec => []UsedHeldDisjoint
<1>1. PoolInv => UsedHeldDisjoint
  BY DEF PoolInv
<1>2. QED
  BY <1>1, PoolInvariant, PTL

-----------------------------------------------------------------------------
(* The step behind UsedNeverTaken: whatever call is made, a port in use     *)
(* stays with its session, is freed, or becomes that session's hold.        *)
LEMMA UsedStep ==
    ASSUME PoolInv, [PoolNext]_poolVars, phase = "serve", NEW p \in Port, InUse(p)
    PROVE  /\ used'[p] \in {used[p], NoSession}
           /\ held'[p].session \in {used[p], NoSession}
<1> DEFINE Kept == /\ used'[p] \in {used[p], NoSession}
                   /\ held'[p].session \in {used[p], NoSession}
<1>0. held[p].session = NoSession /\ ~Free(p)
  BY DEF PoolInv, UsedHeldDisjoint, IsHeld, InUse, Free
<1> USE <1>0 DEF PoolInv, PoolTypeOK
<1>1. ASSUME NEW s \in Session, NEW q \in Port, AcquireFor(s, q)
      PROVE  Kept
  <2>1. q # p
    BY <1>1, SessionAssumption
       DEF AcquireFor, TakeOwnHold, TakeLowestFree, EvictOldestHold, HeldBy, IsHeld
  <2>2. used'[p] = used[p] /\ held'[p] = held[p]
    BY <1>1, <2>1 DEF AcquireFor, TakeOwnHold, TakeLowestFree, EvictOldestHold
  <2>3. QED
    BY <2>2
<1>2. ASSUME NEW s \in Session, NEW q \in Port, Forget(q, s) \/ ReleaseFor(q, s)
      PROVE  Kept
  BY <1>2 DEF Forget, ReleaseFor, NoHold
<1>3. ASSUME NEW s \in Session, NEW q \in Port, NEW t \in Time, HoldPort(q, s, t)
      PROVE  Kept
  <2>1. CASE q = p
    BY <1>3, <2>1 DEF HoldPort, CanHold, InUse
  <2>2. CASE q # p
    BY <1>3, <2>2 DEF HoldPort
  <2>3. QED
    BY <2>1, <2>2
<1>4. ASSUME NEW t \in Time, Expire(t)
      PROVE  Kept
  BY <1>4 DEF Expire, Expired, NoHold
<1>5. ASSUME NEW q \in Port, Release(q)
      PROVE  Kept
  BY <1>5 DEF Release, NoHold
<1>6. CASE NewPool \/ UNCHANGED poolVars
  BY <1>6 DEF NewPool, poolVars, NoHold
<1>7. QED
  BY <1>1, <1>2, <1>3, <1>4, <1>5, <1>6
     DEF PoolNext, Serve, BootReserve, BootHold, BootReserved, BootDone

(* A port in use by a session is never taken from it by another one.        *)
THEOREM PoolUsedNeverTaken == PoolSpec => UsedNeverTaken
<1>1. PoolInv /\ [PoolNext]_poolVars =>
        [phase = "serve" =>
           \A p \in Port : InUse(p) =>
             /\ used'[p] \in {used[p], NoSession}
             /\ held'[p].session \in {used[p], NoSession}]_poolVars
  BY UsedStep
<1>2. QED
  BY <1>1, PoolInvariant, PTL DEF PoolSpec, UsedNeverTaken

-----------------------------------------------------------------------------
(* The step behind HeldTakenOnlyWhenFull: of all the calls only AcquireFor  *)
(* puts a port to use, and only its last resort takes one held by another.  *)
LEMMA HeldStep ==
    ASSUME PoolInv, [PoolNext]_poolVars, phase = "serve",
           NEW p \in Port, NEW s \in Session, NEW t \in Session,
           held[p].session = s, s # t
    PROVE  /\ held'[p].session # t
           /\ used'[p] = t =>
                /\ HeldBy(t) = {}
                /\ \A q \in Range : ~Free(q)
                /\ \A q \in Port \ {p} : IsHeld(q) => Older(p, q)
<1> DEFINE Full == /\ HeldBy(t) = {}
                   /\ \A q \in Range : ~Free(q)
                   /\ \A q \in Port \ {p} : IsHeld(q) => Older(p, q)
           Goal == held'[p].session # t /\ (used'[p] = t => Full)
<1>0. IsHeld(p) /\ used[p] = NoSession /\ ~Free(p)
  BY SessionAssumption DEF PoolInv, UsedHeldDisjoint, IsHeld, InUse, Free
<1> USE SessionAssumption DEF PoolInv, PoolTypeOK
<1>1. ASSUME NEW r \in Session, NEW q \in Port, AcquireFor(r, q)
      PROVE  Goal
  <2>1. CASE q # p
    <3>1. used'[p] = used[p] /\ held'[p] = held[p]
      BY <1>1, <2>1 DEF AcquireFor, TakeOwnHold, TakeLowestFree, EvictOldestHold
    <3>2. QED
      BY <1>0, <3>1
  <2>2. CASE q = p /\ TakeOwnHold(r, q)
    BY <2>2 DEF TakeOwnHold, HeldBy, NoHold
  <2>3. CASE q = p /\ TakeLowestFree(r, q)
    BY <1>0, <2>3 DEF TakeLowestFree
  <2>4. CASE q = p /\ EvictOldestHold(r, q)
    <3>1. held'[p] = NoHold /\ used'[p] = r
      BY <2>4 DEF EvictOldestHold
    <3>2. r = t => Full
      BY <2>4 DEF EvictOldestHold
    <3>3. QED
      BY <3>1, <3>2 DEF NoHold
  <2>5. QED
    BY <1>1, <2>1, <2>2, <2>3, <2>4 DEF AcquireFor
<1>2. ASSUME NEW r \in Session, NEW q \in Port, Forget(q, r) \/ ReleaseFor(q, r)
      PROVE  Goal
  BY <1>0, <1>2 DEF Forget, ReleaseFor, NoHold
<1>3. ASSUME NEW r \in Session, NEW q \in Port, NEW u \in Time, HoldPort(q, r, u)
      PROVE  Goal
  <2>1. CASE q = p
    BY <1>0, <1>3, <2>1 DEF HoldPort, CanHold
  <2>2. CASE q # p
    BY <1>0, <1>3, <2>2 DEF HoldPort
  <2>3. QED
    BY <2>1, <2>2
<1>4. ASSUME NEW u \in Time, Expire(u)
      PROVE  Goal
  BY <1>0, <1>4 DEF Expire, Expired, NoHold
<1>5. ASSUME NEW q \in Port, Release(q)
      PROVE  Goal
  BY <1>0, <1>5 DEF Release, NoHold
<1>6. CASE NewPool \/ UNCHANGED poolVars
  BY <1>0, <1>6 DEF NewPool, poolVars, NoHold
<1>7. QED
  BY <1>1, <1>2, <1>3, <1>4, <1>5, <1>6
     DEF PoolNext, Serve, BootReserve, BootHold, BootReserved, BootDone

(* A hold is taken by another session only when the pool is full and the    *)
(* hold is the oldest, and never by one that has a hold of its own.         *)
THEOREM PoolHeldTakenOnlyWhenFull == PoolSpec => HeldTakenOnlyWhenFull
<1>1. PoolInv /\ [PoolNext]_poolVars =>
        [phase = "serve" =>
           \A p \in Port, s, t \in Session : held[p].session = s /\ s # t =>
             /\ held'[p].session # t
             /\ used'[p] = t =>
                  /\ HeldBy(t) = {}
                  /\ \A q \in Range : ~Free(q)
                  /\ \A q \in Port \ {p} : IsHeld(q) => Older(p, q)]_poolVars
  BY HeldStep
<1>2. QED
  BY <1>1, PoolInvariant, PTL DEF PoolSpec, HeldTakenOnlyWhenFull

-----------------------------------------------------------------------------
(* The pool implements the leases.  LeaseOf is well typed, and a port is    *)
(* vacant, or kept for a session, exactly when the pool calls it free, or   *)
(* holds it for that session.                                               *)
LEMMA LeaseFacts ==
    ASSUME PoolTypeOK, NEW p \in Port, NEW s \in Session
    PROVE  /\ LeaseOf(p) \in PL!Lease
           /\ LeaseOf(p) = PL!Vacant <=> Free(p)
           /\ LeaseOf(p) = PL!UsedBy(s) <=> used[p] = s
           /\ ~InUse(p) => (LeaseOf(p) = PL!KeptFor(s) <=> held[p].session = s)
           /\ ~InUse(p) /\ IsHeld(p) => LeaseOf(p).kind = "kept"
           /\ LeaseOf(p).kind = "kept" <=> ~InUse(p) /\ IsHeld(p)
           /\ LeaseOf(p).by = IF InUse(p) THEN used[p] ELSE held[p].session
BY SessionAssumption
   DEF PoolTypeOK, LeaseOf, InUse, IsHeld, Free, Hold, NoHold,
       PL!Lease, PL!Vacant, PL!UsedBy, PL!KeptFor

(* What becomes of the lease of a port that a step leaves in use by a       *)
(* session, held for one, or free, or that it does not touch.               *)
LEMMA LeaseAfter ==
    ASSUME NEW p \in Port, NEW s \in Session
    PROVE  /\ used'[p] = s => LeaseOf(p)' = PL!UsedBy(s)
           /\ used'[p] = NoSession /\ held'[p].session = s => LeaseOf(p)' = PL!KeptFor(s)
           /\ used'[p] = NoSession /\ held'[p] = NoHold => LeaseOf(p)' = PL!Vacant
           /\ used'[p] = used[p] /\ held'[p] = held[p] => LeaseOf(p)' = LeaseOf(p)
BY SessionAssumption
   DEF LeaseOf, InUse, IsHeld, NoHold, PL!Vacant, PL!UsedBy, PL!KeptFor

(* A step that gives port p the lease l, and touches no other port.         *)
LEMMA LeaseExcept ==
    ASSUME NEW p \in Port, NEW l, LeaseOf(p)' = l,
           \A q \in Port \ {p} : used'[q] = used[q] /\ held'[q] = held[q]
    PROVE  [q \in Port |-> LeaseOf(q)]' = [[q \in Port |-> LeaseOf(q)] EXCEPT ![p] = l]
<1>1. \A q \in Port \ {p} : LeaseOf(q)' = LeaseOf(q)
  BY DEF LeaseOf, InUse, IsHeld
<1>2. QED
  BY <1>1

(* AcquireFor grants a lease.                                               *)
LEMMA AcquireGrants ==
    ASSUME PoolInv, phase = "serve", UNCHANGED phase,
           NEW s \in Session, NEW p \in Port, AcquireFor(s, p)
    PROVE  PL!Grant(s, p)
<1> DEFINE L == [q \in Port |-> LeaseOf(q)]
<1> USE DEF PoolInv
<1>1. used' = [used EXCEPT ![p] = s]
  BY DEF AcquireFor, TakeOwnHold, TakeLowestFree, EvictOldestHold
<1>2. L' = [L EXCEPT ![p] = PL!UsedBy(s)]
  <2>1. used'[p] = s
    BY <1>1 DEF PoolTypeOK
  <2>2. \A q \in Port \ {p} : used'[q] = used[q] /\ held'[q] = held[q]
    BY <1>1 DEF AcquireFor, TakeOwnHold, TakeLowestFree, EvictOldestHold, PoolTypeOK
  <2>3. QED
    BY <2>1, <2>2, LeaseAfter, LeaseExcept
<1>3. ~InUse(p)
  BY SessionAssumption
     DEF AcquireFor, TakeOwnHold, TakeLowestFree, EvictOldestHold, Free, HeldBy,
         UsedHeldDisjoint, IsHeld
<1>4. L[p] # PL!KeptFor(s) => \A q \in Port : L[q] # PL!KeptFor(s)
  <2>1. ASSUME L[p] # PL!KeptFor(s), NEW q \in Port
        PROVE  L[q] # PL!KeptFor(s)
    <3>1. held[p].session # s
      BY <1>3, <2>1, LeaseFacts
    <3>2. HeldBy(s) = {}
      BY <3>1 DEF AcquireFor, TakeOwnHold, TakeLowestFree, EvictOldestHold, HeldBy
    <3>3. held[q].session # s
      BY <3>2 DEF HeldBy
    <3>4. CASE InUse(q)
      BY <3>4 DEF LeaseOf, PL!KeptFor
    <3>5. CASE ~InUse(q)
      BY <3>3, <3>5, LeaseFacts
    <3>6. QED
      BY <3>4, <3>5
  <2>2. QED
    BY <2>1
<1>5. \/ L[p] = PL!KeptFor(s)
      \/ L[p] = PL!Vacant /\ p \in Range
      \/ L[p].kind = "kept" /\ \A q \in Range : L[q] # PL!Vacant
  <2>1. CASE TakeOwnHold(s, p)
    BY <1>3, <2>1, LeaseFacts DEF TakeOwnHold, HeldBy
  <2>2. CASE TakeLowestFree(s, p)
    BY <2>2, LeaseFacts DEF TakeLowestFree
  <2>3. CASE EvictOldestHold(s, p)
    BY <1>3, <2>3, LeaseFacts, PortAssumption DEF EvictOldestHold
  <2>4. QED
    BY <2>1, <2>2, <2>3 DEF AcquireFor
<1>6. QED
  BY <1>2, <1>4, <1>5 DEF PL!Grant, PL!Serving

(* Hold keeps a port for the session that uses it, or that has it already.  *)
LEMMA HoldKeeps ==
    ASSUME PoolInv, phase = "serve", UNCHANGED phase,
           NEW s \in Session, NEW p \in Port, NEW t \in Time, HoldPort(p, s, t)
    PROVE  PL!Keep(s, p)
<1> DEFINE L == [q \in Port |-> LeaseOf(q)]
<1> USE DEF PoolInv
<1>1. L[p] \in {PL!UsedBy(s), PL!KeptFor(s), PL!Vacant}
  BY LeaseFacts DEF HoldPort, CanHold, InUse, IsHeld, Free
<1>2. used'[p] = NoSession /\ held'[p].session = s
  BY DEF HoldPort, PoolTypeOK
<1>3. \A q \in Port \ {p} : used'[q] = used[q] /\ held'[q] = held[q]
  BY DEF HoldPort, PoolTypeOK
<1>4. L' = [L EXCEPT ![p] = PL!KeptFor(s)]
  BY <1>2, <1>3, LeaseAfter, LeaseExcept
<1>5. QED
  BY <1>1, <1>4 DEF PL!Keep, PL!Serving

(* A step that frees some ports, all of them leased to one session or none  *)
(* of them in use, and touches no other port, gives leases back.            *)
LEMMA FreeingGivesBack ==
    ASSUME PoolInv, phase = "serve", UNCHANGED phase, NEW P \in SUBSET Port,
           \/ \E s \in Session : \A p \in P : used[p] = s \/ (~InUse(p) /\ held[p].session = s)
           \/ \A p \in P : ~InUse(p) /\ IsHeld(p),
           \A p \in P : used'[p] = NoSession /\ held'[p] = NoHold,
           \A p \in Port \ P : used'[p] = used[p] /\ held'[p] = held[p]
    PROVE  PL!GiveBack(P)
<1> DEFINE L == [q \in Port |-> LeaseOf(q)]
<1> USE DEF PoolInv
<1>1. \A p \in P : LeaseOf(p)' = PL!Vacant
  BY SessionAssumption DEF LeaseOf, InUse, IsHeld, NoHold, PL!Vacant
<1>2. \A p \in Port \ P : LeaseOf(p)' = LeaseOf(p)
  BY DEF LeaseOf, InUse, IsHeld
<1>3. L' = [p \in Port |-> IF p \in P THEN PL!Vacant ELSE L[p]]
  BY <1>1, <1>2
<1>4. \/ \E s \in Session : \A p \in P : L[p].by = s
      \/ \A p \in P : L[p].kind = "kept"
  BY SessionAssumption DEF LeaseOf, InUse, IsHeld
<1>5. QED
  BY <1>3, <1>4 DEF PL!GiveBack, PL!Serving

(* A call that gives a port back, or lets holds expire, is a GiveBack.      *)
LEMMA CallGivesBack ==
    ASSUME PoolInv, phase = "serve", UNCHANGED phase,
           \/ \E s \in Session, p \in Port : Forget(p, s) \/ ReleaseFor(p, s)
           \/ \E t \in Time : Expire(t)
           \/ \E p \in Port : Release(p)
    PROVE  \E P \in SUBSET Port : PL!GiveBack(P)
<1> USE SessionAssumption DEF PoolInv, PoolTypeOK
<1>1. ASSUME NEW s \in Session, NEW p \in Port, Forget(p, s)
      PROVE  PL!GiveBack({p})
  <2>1. ~InUse(p)
    BY <1>1 DEF Forget, UsedHeldDisjoint, IsHeld
  <2>2. used'[p] = NoSession /\ held'[p] = NoHold
    BY <1>1, <2>1 DEF Forget, InUse
  <2>3. \A q \in Port \ {p} : used'[q] = used[q] /\ held'[q] = held[q]
    BY <1>1 DEF Forget
  <2>4. QED
    BY <1>1, <2>1, <2>2, <2>3, FreeingGivesBack DEF Forget
<1>2. ASSUME NEW s \in Session, NEW p \in Port, ReleaseFor(p, s)
      PROVE  PL!GiveBack({p})
  <2>1. used[p] = s /\ ~IsHeld(p)
    BY <1>2 DEF ReleaseFor, Owns, UsedHeldDisjoint, InUse
  <2>2. used'[p] = NoSession /\ held'[p] = NoHold
    BY <1>2, <2>1 DEF ReleaseFor, IsHeld, Hold, NoHold
  <2>3. \A q \in Port \ {p} : used'[q] = used[q] /\ held'[q] = held[q]
    BY <1>2 DEF ReleaseFor
  <2>4. QED
    BY <2>1, <2>2, <2>3, FreeingGivesBack
<1>3. ASSUME NEW t \in Time, Expire(t)
      PROVE  PL!GiveBack(Expired(t))
  <2>1. \A p \in Expired(t) : ~InUse(p) /\ IsHeld(p)
    BY DEF Expired, UsedHeldDisjoint
  <2>2. \A p \in Expired(t) : used'[p] = NoSession /\ held'[p] = NoHold
    BY <1>3, <2>1 DEF Expire, Expired, InUse
  <2>3. \A p \in Port \ Expired(t) : used'[p] = used[p] /\ held'[p] = held[p]
    BY <1>3 DEF Expire, Expired
  <2>4. Expired(t) \in SUBSET Port
    BY DEF Expired
  <2>5. QED
    BY <2>1, <2>2, <2>3, <2>4, FreeingGivesBack
<1>4. ASSUME NEW p \in Port, Release(p)
      PROVE  \E P \in SUBSET Port : PL!GiveBack(P)
  <2>1. CASE InUse(p) \/ IsHeld(p)
    <3>1. PICK s \in Session : used[p] = s \/ (~InUse(p) /\ held[p].session = s)
      BY <2>1 DEF InUse, IsHeld, UsedHeldDisjoint, Hold, NoHold
    <3>2. used'[p] = NoSession /\ held'[p] = NoHold
      BY <1>4 DEF Release
    <3>3. \A q \in Port \ {p} : used'[q] = used[q] /\ held'[q] = held[q]
      BY <1>4 DEF Release
    <3>4. PL!GiveBack({p})
      BY <3>1, <3>2, <3>3, FreeingGivesBack
    <3>5. QED
      BY <3>4
  <2>2. CASE ~InUse(p) /\ ~IsHeld(p)
    <3>1. used' = used /\ held' = held
      BY <1>4, <2>2 DEF Release, InUse, IsHeld, Hold, NoHold
    <3>2. PL!GiveBack({})
      BY <3>1, FreeingGivesBack
    <3>3. QED
      BY <3>2
  <2>3. QED
    BY <2>1, <2>2
<1>5. QED
  BY <1>1, <1>2, <1>3, <1>4 DEF Expired

LEMMA LeaseStep ==
    ASSUME PoolInv, [PoolNext]_poolVars, PoolInv'
    PROVE  [PL!LeaseNext]_(PL!leaseVars)
<1> DEFINE L == [p \in Port |-> LeaseOf(p)]
<1>1. L' \in [Port -> PL!Lease]
  <2>1. ASSUME NEW p \in Port
        PROVE  LeaseOf(p)' \in PL!Lease
    BY SessionAssumption DEF PoolInv, PoolTypeOK, LeaseOf, InUse, IsHeld, Hold, NoHold, PL!Lease, PL!Vacant
  <2>2. QED
    BY <2>1
<1>2. CASE Serve
  <2>1. ASSUME NEW s \in Session, NEW p \in Port, AcquireFor(s, p)
        PROVE  PL!LeaseNext
    BY <1>2, <2>1, AcquireGrants DEF Serve, PL!LeaseNext
  <2>2. ASSUME NEW s \in Session, NEW p \in Port, NEW t \in Time, HoldPort(p, s, t)
        PROVE  PL!LeaseNext
    BY <1>2, <2>2, HoldKeeps DEF Serve, PL!LeaseNext
  <2>3. ASSUME \/ \E s \in Session, p \in Port : Forget(p, s) \/ ReleaseFor(p, s)
               \/ \E t \in Time : Expire(t)
               \/ \E p \in Port : Release(p)
        PROVE  PL!LeaseNext
    BY <1>2, <2>3, CallGivesBack DEF Serve, PL!LeaseNext
  <2>4. QED
    BY <1>2, <2>1, <2>2, <2>3 DEF Serve
<1>3. CASE NewPool
  <2>1. \A p \in Port : LeaseOf(p)' = PL!Vacant
    BY <1>3 DEF NewPool, LeaseOf, InUse, IsHeld, NoHold, PL!Vacant
  <2>2. L' = [p \in Port |-> PL!Vacant]
    BY <2>1
  <2>3. (phase = "serve")' = FALSE
    BY <1>3 DEF NewPool
  <2>4. QED
    BY <2>2, <2>3 DEF PL!LeaseNext, PL!Restart
<1>4. CASE phase # "serve" /\ ~NewPool
  <2>1. PL!Recover
    BY <1>1, <1>4 DEF PL!Recover
  <2>2. QED
    BY <2>1 DEF PL!LeaseNext
<1>5. CASE UNCHANGED poolVars
  <2>1. \A p \in Port : LeaseOf(p)' = LeaseOf(p)
    BY <1>5 DEF poolVars, LeaseOf, InUse, IsHeld
  <2>2. L' = L /\ (phase = "serve")' = (phase = "serve")
    BY <1>5, <2>1 DEF poolVars
  <2>3. QED
    BY <2>2 DEF PL!leaseVars
<1>6. QED
  BY <1>2, <1>3, <1>4, <1>5 DEF PoolNext, BootReserve, BootHold, BootReserved, BootDone

(* The pool implements the leases of PortLease.                             *)
THEOREM PoolImplementsLease == PoolSpec => ImplementsLease
<1>1. PoolInit => PL!LeaseInit
  <2>1. PoolInit => \A p \in Port : LeaseOf(p) = PL!Vacant
    BY DEF PoolInit, LeaseOf, InUse, IsHeld, NoHold, PL!Vacant
  <2>2. QED
    BY <2>1 DEF PoolInit, PL!LeaseInit
<1>2. PoolInv /\ PoolInv' /\ [PoolNext]_poolVars => [PL!LeaseNext]_(PL!leaseVars)
  BY LeaseStep
<1>3. QED
  BY <1>1, <1>2, PoolInvariant, PTL DEF PoolSpec, ImplementsLease, PL!LeaseSpec
=============================================================================
