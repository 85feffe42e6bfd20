------------------------------ MODULE PortLease ------------------------------
(***************************************************************************)
(* What the rest of the orchestrator relies on: at any moment each bridge  *)
(* port is leased to at most one session, which uses it or has it kept for *)
(* its relaunch, and a lease only ends by its session, by its deadline, or *)
(* for lack of ports (comments of portpool/pool.go and                     *)
(* service/port_reservation.go).  How ports are found, numbered, ordered   *)
(* and timed is left to PortPool; who calls, and when, to Sessions: both   *)
(* implement this specification.                                           *)
(***************************************************************************)
CONSTANTS Session, NoSession, Port, Range

VARIABLES
    lease, \* lease[p]: who has port p, and how
    open   \* the process has recovered its leases and serves requests

leaseVars == <<lease, open>>

Vacant == [kind |-> "free", by |-> NoSession]
UsedBy(s) == [kind |-> "used", by |-> s]
KeptFor(s) == [kind |-> "kept", by |-> s]
Lease == {Vacant} \cup [kind : {"used", "kept"}, by : Session]

LeaseInit ==
    /\ lease = [p \in Port |-> Vacant]
    /\ open = FALSE

(* A process starts with no lease at all, and recovers what it can find.    *)
Restart ==
    /\ lease' = [p \in Port |-> Vacant]
    /\ open' = FALSE

Recover ==
    /\ ~open
    /\ lease' \in [Port -> Lease]
    /\ open' \in BOOLEAN

-----------------------------------------------------------------------------
Serving == open /\ UNCHANGED open

(* A launch gets the port kept for it, or else a free one, or else, when    *)
(* none is free, one that was kept for another session.                     *)
Grant(s, p) ==
    /\ Serving
    /\ lease[p] # KeptFor(s) => \A q \in Port : lease[q] # KeptFor(s)
    /\ \/ lease[p] = KeptFor(s)
       \/ lease[p] = Vacant /\ p \in Range
       \/ lease[p].kind = "kept" /\ \A q \in Range : lease[q] # Vacant
    /\ lease' = [lease EXCEPT ![p] = UsedBy(s)]

Keep(s, p) ==
    /\ Serving
    /\ lease[p] \in {UsedBy(s), KeptFor(s), Vacant}
    /\ lease' = [lease EXCEPT ![p] = KeptFor(s)]

(* Some leases of one session end, or some that were only kept.             *)
GiveBack(P) ==
    /\ Serving
    /\ \/ \E s \in Session : \A p \in P : lease[p].by = s
       \/ \A p \in P : lease[p].kind = "kept"
    /\ lease' = [p \in Port |-> IF p \in P THEN Vacant ELSE lease[p]]

LeaseNext ==
    \/ Restart
    \/ Recover
    \/ \E s \in Session, p \in Port : Grant(s, p) \/ Keep(s, p)
    \/ \E P \in SUBSET Port : GiveBack(P)

LeaseSpec == LeaseInit /\ [][LeaseNext]_leaseVars
=============================================================================
