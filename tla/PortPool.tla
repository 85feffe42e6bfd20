------------------------------ MODULE PortPool ------------------------------
(***************************************************************************)
(* The in-memory pool of bridge ports (internal/portpool/pool.go).  Every  *)
(* method runs under the pool's mutex, so each is one action here.         *)
(*                                                                         *)
(* A port is in use by a session that is launching or running, or held     *)
(* until a deadline for a paused or crashed session, or free.  The maps    *)
(* `used` and `held` of the code are total functions here, with NoSession  *)
(* and NoHold where the map has no entry.                                  *)
(*                                                                         *)
(* A process starts with an empty pool and recovers it from the database   *)
(* before anyone else calls it: first Reserve for the running sessions     *)
(* (phase "reserve"), then Hold for the recorded reservations (phase       *)
(* "hold"); after that the pool serves calls in any order from any         *)
(* session, with any deadline and any reading of the clock.                *)
(***************************************************************************)
EXTENDS Naturals

CONSTANTS
    Session,     \* session identifiers
    NoSession,   \* no entry in `used`
    Port,        \* every port number a database record may name
    First, Last, \* the configured range the pool hands out, [First, Last]
    Time         \* instants: deadlines of holds and readings of the clock

Range == First..Last

ASSUME PortAssumption == Port \subseteq Nat /\ First \in Nat /\ Last \in Nat
                         /\ Range \subseteq Port
ASSUME TimeAssumption == Time \subseteq Nat
ASSUME SessionAssumption == NoSession \notin Session

VARIABLES
    used,   \* used[p]: the session launching or running on p, or NoSession
    held,   \* held[p]: who keeps p for a relaunch and until when, or NoHold
    phase   \* how far the recovery of the pool at boot has come

poolVars == <<used, held, phase>>

Hold == [session : Session, until : Time]
NoHold == [session |-> NoSession, until |-> 0]

PoolTypeOK ==
    /\ used \in [Port -> Session \cup {NoSession}]
    /\ held \in [Port -> Hold \cup {NoHold}]
    /\ phase \in {"reserve", "hold", "serve"}

-----------------------------------------------------------------------------
InUse(p) == used[p] # NoSession
IsHeld(p) == held[p].session # NoSession
(* Mutant: a port counts as free though a session uses it. *)
FreeUnlessHeld(p) == ~IsHeld(p)

Free(p) == ~InUse(p) /\ ~IsHeld(p)

HeldBy(s) == {p \in Port : held[p].session = s}

(* A hold on p goes before a hold on q when it ends earlier, or ends at the *)
(* same time on a lower port.                                               *)
Older(p, q) ==
    \/ held[p].until < held[q].until
    \/ held[p].until = held[q].until /\ p < q

PoolInit ==
    /\ used = [p \in Port |-> NoSession]
    /\ held = [p \in Port |-> NoHold]
    /\ phase = "reserve"

-----------------------------------------------------------------------------
(* Reserve marks the port as in use whoever had it. *)
Reserve(p, s) ==
    /\ used' = [used EXCEPT ![p] = s]
    /\ UNCHANGED held

(* The three ways AcquireFor finds a port, in the order the code tries them. *)
TakeOwnHold(s, p) ==
    /\ p \in HeldBy(s)
    /\ used' = [used EXCEPT ![p] = s]
    /\ held' = [held EXCEPT ![p] = NoHold]

(* Mutant: a free port is preferred to the one kept for the caller. *)
TakeFreeFirst(s, p) ==
    /\ p \in Range
    /\ Free(p)
    /\ used' = [used EXCEPT ![p] = s]
    /\ UNCHANGED held

TakeLowestFree(s, p) ==
    /\ HeldBy(s) = {}
    /\ p \in Range
    /\ Free(p)
    /\ \A q \in Range : q < p => ~Free(q)
    /\ used' = [used EXCEPT ![p] = s]
    /\ UNCHANGED held

(* Mutant: the range is not checked for a free port first. *)
EvictThoughFree(s, p) ==
    /\ HeldBy(s) = {}
    /\ IsHeld(p)
    /\ \A q \in Port : IsHeld(q) /\ q # p => Older(p, q)
    /\ used' = [used EXCEPT ![p] = s]
    /\ held' = [held EXCEPT ![p] = NoHold]

EvictOldestHold(s, p) ==
    /\ HeldBy(s) = {}
    /\ \A q \in Range : ~Free(q)
    /\ IsHeld(p)
    /\ \A q \in Port : IsHeld(q) /\ q # p => Older(p, q)
    /\ used' = [used EXCEPT ![p] = s]
    /\ held' = [held EXCEPT ![p] = NoHold]

AcquireFor(s, p) ==
    \/ TakeOwnHold(s, p)
    \/ TakeLowestFree(s, p)
    \/ EvictOldestHold(s, p)

(* AcquireFor answers ErrExhausted and changes nothing. *)
Exhausted ==
    /\ \A q \in Range : ~Free(q)
    /\ \A q \in Port : ~IsHeld(q)

(* Mutant: the user of the port is not checked. *)
CanHoldUnlessHeld(p, s) == held[p].session \in {s, NoSession}

CanHold(p, s) ==
    /\ used[p] \in {s, NoSession}
    /\ held[p].session \in {s, NoSession}

(* Mutant: the port stays in `used`. *)
HoldStillUsed(p, s, until) ==
    /\ CanHold(p, s)
    /\ held' = [held EXCEPT ![p] = [session |-> s, until |-> until]]
    /\ UNCHANGED used

HoldPort(p, s, until) ==
    /\ CanHold(p, s)
    /\ used' = [used EXCEPT ![p] = NoSession]
    /\ held' = [held EXCEPT ![p] = [session |-> s, until |-> until]]

Forget(p, s) ==
    /\ held[p].session = s
    /\ held' = [held EXCEPT ![p] = NoHold]
    /\ UNCHANGED used

Expired(t) == {p \in Port : IsHeld(p) /\ held[p].until <= t}

Expire(t) ==
    /\ held' = [p \in Port |-> IF p \in Expired(t) THEN NoHold ELSE held[p]]
    /\ UNCHANGED used

Release(p) ==
    /\ used' = [used EXCEPT ![p] = NoSession]
    /\ held' = [held EXCEPT ![p] = NoHold]

Owns(p, s) == used[p] = s

ReleaseFor(p, s) ==
    /\ Owns(p, s)
    /\ used' = [used EXCEPT ![p] = NoSession]
    /\ UNCHANGED held

-----------------------------------------------------------------------------
(* Recovery at boot, driven by RecoverFromDB. *)
BootReserve(p, s) ==
    /\ phase = "reserve"
    /\ Reserve(p, s)
    /\ UNCHANGED phase

BootReserved ==
    /\ phase = "reserve"
    /\ phase' = "hold"
    /\ UNCHANGED <<used, held>>

BootHold(p, s, until) ==
    /\ phase = "hold"
    /\ HoldPort(p, s, until)
    /\ UNCHANGED phase

BootDone ==
    /\ phase = "hold"
    /\ phase' = "serve"
    /\ UNCHANGED <<used, held>>

(* A new process: New builds an empty pool. *)
NewPool ==
    /\ phase' = "reserve"
    /\ used' = [p \in Port |-> NoSession]
    /\ held' = [p \in Port |-> NoHold]

Serve ==
    /\ phase = "serve"
    /\ UNCHANGED phase
    /\ \/ \E s \in Session, p \in Port :
            \/ AcquireFor(s, p)
            \/ Forget(p, s)
            \/ ReleaseFor(p, s)
            \/ \E t \in Time : HoldPort(p, s, t)
       \/ \E t \in Time : Expire(t)
       \/ \E p \in Port : Release(p)

PoolNext ==
    \/ \E p \in Port, s \in Session :
         \/ BootReserve(p, s)
         \/ \E t \in Time : BootHold(p, s, t)
    \/ BootReserved
    \/ BootDone
    \/ Serve
    \/ NewPool

PoolSpec == PoolInit /\ [][PoolNext]_poolVars

-----------------------------------------------------------------------------
(* No port is both in use and held: the two maps of Pool never contradict   *)
(* each other, so a port the pool calls free really is (free, pool.go:166). *)
UsedHeldDisjoint == \A p \in Port : ~(InUse(p) /\ IsHeld(p))

(* Once the pool serves, a port in use never passes from one session to     *)
(* another, and never turns into the hold of another session: it is given   *)
(* back, or kept, for the session that uses it ("A running session's port   *)
(* is never taken", pool.go:61).                                            *)
UsedNeverTaken ==
    [][phase = "serve" =>
         \A p \in Port : InUse(p) =>
             /\ used'[p] \in {used[p], NoSession}
             /\ held'[p].session \in {used[p], NoSession}]_poolVars

(* A session loses its hold to another session only when that one has no    *)
(* hold of its own, no port of the range is free, and every other hold is   *)
(* younger; the port is then in use by that session.  A hold never turns    *)
(* into the hold of another session (AcquireFor and Hold, pool.go:54-111).  *)
HeldTakenOnlyWhenFull ==
    [][phase = "serve" =>
         \A p \in Port, s, t \in Session : held[p].session = s /\ s # t =>
             /\ held'[p].session # t
             /\ used'[p] = t =>
                  /\ HeldBy(t) = {}
                  /\ \A q \in Range : ~Free(q)
                  /\ \A q \in Port \ {p} : IsHeld(q) => Older(p, q)]_poolVars

-----------------------------------------------------------------------------
(* The lease of a port, as the two maps of the pool stand for it.           *)
LeaseOf(p) ==
    IF InUse(p) THEN [kind |-> "used", by |-> used[p]]
    ELSE IF IsHeld(p) THEN [kind |-> "kept", by |-> held[p].session]
    ELSE [kind |-> "free", by |-> NoSession]

PL == INSTANCE PortLease WITH lease <- [p \in Port |-> LeaseOf(p)], open <- (phase = "serve")

(* The pool is an implementation of the leases of PortLease: each call is   *)
(* one step of a lease, or none (the contract in pool.go:17-29).            *)
ImplementsLease == PL!LeaseSpec
=============================================================================
