------------------------------ MODULE Sessions ------------------------------
(***************************************************************************)
(* The life of a multiworld session once its game exists: launched on a    *)
(* port of the pool, running in two containers, paused, crashed, stopped,  *)
(* relaunched, deleted (internal/service: session.go, port_reservation.go, *)
(* sweeper.go and the boot recovery of service.go, over db/session.go and  *)
(* docker/client.go).                                                      *)
(*                                                                         *)
(* The actors are the HTTP handlers (task), the goroutine of each launch   *)
(* (launch), the sweeper (sw), the boot recovery of a process, Docker, and *)
(* a crash of the process.  Each SQL statement, each method of the pool    *)
(* and each group of Docker calls is one step; every actor works on what   *)
(* it read earlier (port, cid), exactly as the code works on the *db.Session *)
(* it fetched.  Nothing in the code serialises two operations on the same  *)
(* session.  Overlap restricts the environment, not the code: a request on *)
(* a session starts while another request, a launch or a sweep of the same *)
(* session is under way only when Overlap says so, and so does a sweep;    *)
(* work on different sessions always overlaps.                             *)
(***************************************************************************)
EXTENDS PortPool, FiniteSets

CONSTANTS
    Known,        \* sessions whose game is generated when the model starts
    Handler,      \* HTTP requests that can be under way at once
    Ops,          \* which API operations clients call
    LaunchId,     \* launches that may be remembered somewhere at once
    TTL,          \* PORT_RESERVATION_TTL; 0 turns reservations off
    MaxTime,      \* bound on the clock
    Overlap,      \* which actors may overlap on one session
    Crashes,      \* the process may crash
    DbFails       \* the statement that records a launch may fail

NoLaunch == 0 \* no container id; no launch
NoPort == 0   \* bridge_port IS NULL
Never == 0    \* port_reserved_until IS NULL

Operation == {"launchFile", "launch", "stop", "delete", "restart", "relaunch", "configure"}

ASSUME SessionsAssumption ==
    /\ Known \subseteq Session /\ Ops \subseteq Operation
    /\ LaunchId \subseteq Nat \ {NoLaunch} /\ NoPort \notin Port
    /\ TTL \in Nat /\ MaxTime \in Nat /\ 0..(MaxTime + TTL) \subseteq Time
    /\ Overlap \subseteq {"handlers", "goroutine", "sweeper"}
    /\ Crashes \in BOOLEAN /\ DbFails \in BOOLEAN

VARIABLES
    rows,   \* rows[s]: the sessions table
    ap,     \* ap[s]: the container named ap-server-<s>
    bridge, \* bridge[s]: the container named archilan-bridge-<s>
    task,   \* task[h]: the request handler h serves, and what it read
    launch, \* launch[n]: the goroutine of launch n
    sw,     \* the sweeper: where it is, and the rows it listed
    now     \* the clock, for reservations

docker == <<ap, bridge>>
procs == <<task, launch, sw>>
vars == <<poolVars, rows, docker, procs, now>>

Status == {"absent", "pending", "draft", "generated", "launching", "running",
           "stopped", "crashed"}
NoRow == [status |-> "absent", port |-> NoPort, cid |-> NoLaunch,
          out |-> FALSE, until |-> Never]
NoContainer == [id |-> NoLaunch, st |-> "none", port |-> NoPort]
NoTask == [op |-> "none", s |-> NoSession, pc |-> "idle",
           port |-> NoPort, cid |-> NoLaunch, victim |-> NoSession]
NoGoroutine == [s |-> NoSession, port |-> NoPort, pc |-> "none"]
NoItem == [s |-> NoSession, port |-> NoPort, cid |-> NoLaunch]
Asleep == [pc |-> "clear", todo |-> {}, cur |-> NoItem, end |-> "none", until |-> Never]

MaybePort == Port \cup {NoPort}
MaybeLaunch == LaunchId \cup {NoLaunch}
MaybeSession == Session \cup {NoSession}

Row == [status : Status, port : MaybePort, cid : MaybeLaunch, out : BOOLEAN, until : Time]
Container == [id : MaybeLaunch, st : {"none", "up", "down"}, port : MaybePort]
Task == [op : Operation \cup {"none"}, s : MaybeSession, port : MaybePort,
         cid : MaybeLaunch, victim : MaybeSession,
         pc : {"idle", "insert", "draft", "generated", "launch", "acquire", "forget",
               "record", "read", "kill", "release", "drop", "clear", "mark", "reset"}]
Goroutine == [s : MaybeSession, port : MaybePort,
              pc : {"none", "startAP", "startBridge", "running", "release", "crash"}]
Item == [s : Session, port : MaybePort, cid : MaybeLaunch]
Sweeper == [pc : {"clear", "transit", "running", "releaseLate", "crashLate",
                  "killDead", "hold", "record", "mark"},
            todo : SUBSET Item, cur : Item \cup {NoItem},
            end : {"none", "stopped", "crashed"}, until : Time]

TypeOK ==
    /\ PoolTypeOK
    /\ rows \in [Session -> Row]
    /\ ap \in [Session -> Container] /\ bridge \in [Session -> Container]
    /\ task \in [Handler -> Task]
    /\ launch \in [LaunchId -> Goroutine]
    /\ sw \in Sweeper
    /\ now \in 0..MaxTime

Init ==
    /\ PoolInit
    /\ rows = [s \in Session |-> IF s \in Known
                                 THEN [NoRow EXCEPT !.status = "generated", !.out = TRUE]
                                 ELSE NoRow]
    /\ ap = [s \in Session |-> NoContainer]
    /\ bridge = [s \in Session |-> NoContainer]
    /\ task = [h \in Handler |-> NoTask]
    /\ launch = [n \in LaunchId |-> NoGoroutine]
    /\ sw = Asleep
    /\ now = 0

-----------------------------------------------------------------------------
Launching == {s \in Session : rows[s].status = "launching"}

(* The database: an UPDATE of a row that is gone changes nothing.           *)
Present(s) == rows[s].status # "absent"
Update(s, row) == rows' = IF Present(s) THEN [rows EXCEPT ![s] = row] ELSE rows

UpdateStatus(s, st) == Update(s, [rows[s] EXCEPT !.status = st])
UpdateGenerated(s) ==
    Update(s, [rows[s] EXCEPT !.status = "generated", !.out = TRUE])
UpdateLaunching(s, p) ==
    Update(s, [rows[s] EXCEPT !.status = "launching", !.port = p, !.until = Never])
(* Mutant: the status takes the name of the webhook, "ready". *)
UpdateReady(s, n) ==
    Update(s, [rows[s] EXCEPT !.status = "ready", !.cid = n])
UpdateRunning(s, n) ==
    Update(s, [rows[s] EXCEPT !.status = "running", !.cid = n])
SetReservation(s, t) == Update(s, [rows[s] EXCEPT !.until = t])
ClearReservation(s) == SetReservation(s, Never)

(* Docker: a container is addressed by its id or by its session's name.     *)
Stopped(c) == IF c.st = "up" THEN [c EXCEPT !.st = "down"] ELSE c
StoppedId(c, n) == IF c.id = n THEN Stopped(c) ELSE c
RemovedId(c, n) == IF c.id = n THEN NoContainer ELSE c

Binds(c, p) == c.st = "up" /\ c.port = p
Bound(s, p) == Binds(ap[s], p) \/ Binds(bridge[s], p)
BoundByOther(s, p) == \E t \in Session \ {s} : Bound(t, p)

(* The pool, called with a port that may be NULL.                           *)
ReleaseOwned(p, s) ==
    \/ p \in Port /\ ReleaseFor(p, s)
    \/ ~(p \in Port /\ Owns(p, s)) /\ UNCHANGED <<used, held>>
ReleaseAndForget(p, s) ==
    /\ used' = [q \in Port |-> IF q = p /\ Owns(q, s) THEN NoSession ELSE used[q]]
    /\ held' = [q \in Port |-> IF q = p /\ held[q].session = s THEN NoHold ELSE held[q]]

-----------------------------------------------------------------------------
(* Who is at work on a session.                                             *)
HandlerOn(s) == \E h \in Handler : task[h].s = s
GoroutineOn(s) == \E n \in LaunchId : launch[n].s = s
SweeperOn(s) == sw.cur.s = s \/ \E i \in sw.todo : i.s = s
Busy(s) == HandlerOn(s) \/ GoroutineOn(s) \/ SweeperOn(s)

MayStart(s) ==
    /\ HandlerOn(s) => "handlers" \in Overlap
    /\ GoroutineOn(s) => "goroutine" \in Overlap
    /\ SweeperOn(s) => "sweeper" \in Overlap

Serving == phase = "serve" /\ UNCHANGED phase

(* A launch number no row, container or actor remembers.                    *)
Unused(n) ==
    /\ launch[n] = NoGoroutine
    /\ \A s \in Session : n \notin {ap[s].id, bridge[s].id, rows[s].cid}
    /\ \A h \in Handler : task[h].cid # n
    /\ \A i \in sw.todo \cup {sw.cur} : i.cid # n

-----------------------------------------------------------------------------
(* HTTP handlers.  Begin reads the row and checks it; the rest of the       *)
(* request works on that reading.                                           *)
InProgress == {"launching", "running"}

Accepts(op, row) ==
    CASE op = "launchFile" -> row.status \notin InProgress
      [] op = "configure"  -> row.status \notin InProgress
      [] op = "launch"     -> row.status = "generated"
      [] op = "stop"       -> row.status # "absent"
      [] op = "delete"     -> row.status # "absent"
      [] op = "restart"    -> row.status = "crashed" /\ row.out
      [] op = "relaunch"   -> row.status \notin InProgress /\ row.out

FirstStep(op, row) ==
    CASE op = "launchFile" -> IF row.status = "absent" THEN "insert" ELSE "generated"
      [] op = "configure"  -> IF row.status = "absent" THEN "insert" ELSE "draft"
      [] op = "launch"     -> "acquire"
      [] op = "restart"    -> "read"
      [] OTHER             -> "kill"

Begin(h, s, op) ==
    /\ Serving
    /\ task[h] = NoTask /\ MayStart(s)
    /\ Accepts(op, rows[s])
    /\ task' = [task EXCEPT ![h] =
         [NoTask EXCEPT !.op = op, !.s = s, !.pc = FirstStep(op, rows[s]),
                        !.port = IF op \in {"stop", "delete", "relaunch"}
                                 THEN rows[s].port ELSE NoPort,
                        !.cid = IF op \in {"stop", "delete", "relaunch"}
                                THEN rows[s].cid ELSE NoLaunch]]
    /\ UNCHANGED <<used, held, rows, docker, launch, sw, now>>

At(h, pc) == Serving /\ task[h].pc = pc
Goto(h, pc) == task' = [task EXCEPT ![h].pc = pc]
GotoLaunch(h) ==
    task' = [task EXCEPT ![h] = [NoTask EXCEPT !.op = "launch", !.s = task[h].s, !.pc = "launch"]]
Done(h) == task' = [task EXCEPT ![h] = NoTask]

(* A request that fails answers an error and leaves things as they are:     *)
(* staging the files, the row inserted meanwhile, ErrSessionNotReady and    *)
(* ErrInvalidMode of Launch, ErrExhausted.                                  *)
Fail(h) ==
    /\ Serving
    /\ \/ task[h].pc \in {"generated", "draft"}
       \/ task[h].pc = "insert" /\ Present(task[h].s)
       \/ task[h].pc = "launch"
       \/ task[h].pc = "acquire" /\ HeldBy(task[h].s) = {} /\ Exhausted
    /\ Done(h)
    /\ UNCHANGED <<used, held, rows, docker, launch, sw, now>>

Insert(h) ==
    LET s == task[h].s IN
    /\ At(h, "insert")
    /\ ~Present(s)
    /\ IF task[h].op = "configure"
       THEN /\ rows' = [rows EXCEPT ![s].status = "draft"]
            /\ Done(h)
       ELSE /\ rows' = [rows EXCEPT ![s].status = "pending"]
            /\ Goto(h, "generated")
    /\ UNCHANGED <<used, held, docker, launch, sw, now>>

Draft(h) ==
    /\ At(h, "draft")
    /\ UpdateStatus(task[h].s, "draft")
    /\ Done(h)
    /\ UNCHANGED <<used, held, docker, launch, sw, now>>

Generated(h) ==
    /\ At(h, "generated")
    /\ UpdateGenerated(task[h].s)
    /\ GotoLaunch(h)
    /\ UNCHANGED <<used, held, docker, launch, sw, now>>

(* Launch, called by the other operations after their own part.             *)
CheckReady(h) ==
    /\ At(h, "launch")
    /\ rows[task[h].s].status = "generated"
    /\ Goto(h, "acquire")
    /\ UNCHANGED <<used, held, rows, docker, launch, sw, now>>

Acquire(h) ==
    /\ At(h, "acquire")
    /\ \E p \in Port :
         /\ AcquireFor(task[h].s, p)
         /\ LET evicted == held[p].session \notin {NoSession, task[h].s} IN
            task' = [task EXCEPT ![h].port = p,
                                 ![h].victim = IF evicted THEN held[p].session ELSE NoSession,
                                 ![h].pc = IF evicted THEN "forget" ELSE "record"]
    /\ UNCHANGED <<rows, docker, launch, sw, now>>

ForgetVictim(h) ==
    /\ At(h, "forget")
    /\ ClearReservation(task[h].victim)
    /\ task' = [task EXCEPT ![h].pc = "record", ![h].victim = NoSession]
    /\ UNCHANGED <<used, held, docker, launch, sw, now>>

Record(h) ==
    /\ At(h, "record")
    /\ UpdateLaunching(task[h].s, task[h].port)
    /\ \E n \in LaunchId :
         /\ Unused(n) /\ \A m \in LaunchId : Unused(m) => n <= m
         /\ launch' = [launch EXCEPT ![n] =
                         [s |-> task[h].s, port |-> task[h].port, pc |-> "startAP"]]
    /\ Done(h)
    /\ UNCHANGED <<used, held, docker, sw, now>>

RecordFails(h) ==
    /\ DbFails
    /\ At(h, "record")
    /\ Release(task[h].port)
    /\ Done(h)
    /\ UNCHANGED <<rows, docker, launch, sw, now>>

(* StopSession, and the clean-up RestartSession runs first.                 *)
ReadForStop(h) ==
    LET row == rows[task[h].s] IN
    /\ At(h, "read")
    /\ task' = [task EXCEPT ![h].port = row.port, ![h].cid = row.cid,
                            ![h].pc = IF Present(task[h].s) THEN "kill" ELSE "reset"]
    /\ UNCHANGED <<used, held, rows, docker, launch, sw, now>>

(* Stop and remove: the bridge by the id of the row, the AP server by name. *)
Kill(h) ==
    LET s == task[h].s IN
    /\ At(h, "kill")
    /\ bridge' = [bridge EXCEPT ![s] = RemovedId(@, task[h].cid)]
    /\ ap' = [ap EXCEPT ![s] = NoContainer]
    /\ task' = [task EXCEPT ![h].cid = NoLaunch,
                            ![h].pc = IF task[h].op = "delete" THEN "drop" ELSE "release"]
    /\ UNCHANGED <<used, held, rows, launch, sw, now>>

GiveBack(h) ==
    /\ At(h, "release")
    /\ ReleaseOwned(task[h].port, task[h].s)
    /\ Goto(h, CASE task[h].op = "stop" -> "drop"
                 [] task[h].op = "restart" -> "mark"
                 [] task[h].op = "relaunch" -> "reset")
    /\ UNCHANGED <<rows, docker, launch, sw, now>>

(* Mutant: the port is given up if it is in use, not if it is reserved. *)
DropUsedOnly(h) ==
    /\ At(h, "drop")
    /\ ReleaseOwned(task[h].port, task[h].s)
    /\ Goto(h, "clear")
    /\ UNCHANGED <<rows, docker, launch, sw, now>>

Drop(h) ==
    /\ At(h, "drop")
    /\ ReleaseAndForget(task[h].port, task[h].s)
    /\ Goto(h, "clear")
    /\ UNCHANGED <<rows, docker, launch, sw, now>>

DropRecord(h) ==
    /\ At(h, "clear")
    /\ ClearReservation(task[h].s)
    /\ Goto(h, "mark")
    /\ UNCHANGED <<used, held, docker, launch, sw, now>>

Mark(h) ==
    LET s == task[h].s IN
    /\ At(h, "mark")
    /\ CASE task[h].op = "stop"    -> UpdateStatus(s, "stopped") /\ Done(h)
         [] task[h].op = "restart" -> UpdateStatus(s, "stopped") /\ Goto(h, "reset")
         [] task[h].op = "delete"  -> rows' = [rows EXCEPT ![s] = NoRow] /\ Done(h)
    /\ UNCHANGED <<used, held, docker, launch, sw, now>>

Reset(h) ==
    /\ At(h, "reset")
    /\ UpdateStatus(task[h].s, "generated")
    /\ GotoLaunch(h)
    /\ UNCHANGED <<used, held, docker, launch, sw, now>>

HandlerStep(h) ==
    \/ \E s \in Session, op \in Ops : Begin(h, s, op)
    \/ Fail(h) \/ Insert(h) \/ Draft(h) \/ Generated(h)
    \/ CheckReady(h) \/ Acquire(h) \/ ForgetVictim(h) \/ Record(h) \/ RecordFails(h)
    \/ ReadForStop(h) \/ Kill(h) \/ GiveBack(h) \/ Drop(h) \/ DropRecord(h)
    \/ Mark(h) \/ Reset(h)

-----------------------------------------------------------------------------
(* The goroutine of a launch (startSession).                                *)
LaunchAt(n, pc) == Serving /\ launch[n].pc = pc
LaunchGoto(n, pc) == launch' = [launch EXCEPT ![n].pc = pc]

(* CreateAPServer and Start: Docker refuses a name that is taken and a host *)
(* port that another container binds.                                       *)
StartAP(n) ==
    LET s == launch[n].s  p == launch[n].port IN
    /\ LaunchAt(n, "startAP")
    /\ ap[s] = NoContainer /\ ~BoundByOther(s, p)
    /\ ap' = [ap EXCEPT ![s] = [id |-> n, st |-> "up", port |-> p]]
    /\ LaunchGoto(n, "startBridge")
    /\ UNCHANGED <<used, held, rows, bridge, task, sw, now>>

(* WaitForPort, then Create and Start of the bridge.                        *)
StartBridge(n) ==
    LET s == launch[n].s  p == launch[n].port IN
    /\ LaunchAt(n, "startBridge")
    /\ ap[s].id = n /\ ap[s].st = "up"
    /\ bridge[s] = NoContainer /\ ~BoundByOther(s, p)
    /\ bridge' = [bridge EXCEPT ![s] = [id |-> n, st |-> "up", port |-> p]]
    /\ LaunchGoto(n, "running")
    /\ UNCHANGED <<used, held, rows, ap, task, sw, now>>

SetRunning(n) ==
    /\ LaunchAt(n, "running")
    /\ UpdateRunning(launch[n].s, n)
    /\ launch' = [launch EXCEPT ![n] = NoGoroutine]
    /\ UNCHANGED <<used, held, docker, task, sw, now>>

(* Any of the Docker calls may fail; the goroutine removes what it made.    *)
LaunchFails(n) ==
    LET s == launch[n].s IN
    /\ Serving
    /\ launch[n].pc \in {"startAP", "startBridge"}
    /\ ap' = [ap EXCEPT ![s] = RemovedId(@, n)]
    /\ bridge' = [bridge EXCEPT ![s] = RemovedId(@, n)]
    /\ LaunchGoto(n, "release")
    /\ UNCHANGED <<used, held, rows, task, sw, now>>

LaunchRelease(n) ==
    /\ LaunchAt(n, "release")
    /\ ReleaseOwned(launch[n].port, launch[n].s)
    /\ LaunchGoto(n, "crash")
    /\ UNCHANGED <<rows, docker, task, sw, now>>

LaunchCrash(n) ==
    /\ LaunchAt(n, "crash")
    /\ UpdateStatus(launch[n].s, "crashed")
    /\ launch' = [launch EXCEPT ![n] = NoGoroutine]
    /\ UNCHANGED <<used, held, docker, task, sw, now>>

LaunchStep(n) ==
    \/ StartAP(n) \/ StartBridge(n) \/ SetRunning(n) \/ LaunchFails(n) \/ LaunchRelease(n) \/ LaunchCrash(n)

-----------------------------------------------------------------------------
(* The sweeper works through lists it read earlier: the launches past their *)
(* deadline, then the running sessions, then the expired holds.             *)
ItemOf(s) == [s |-> s, port |-> rows[s].port, cid |-> rows[s].cid]
SweepAt(pc) == Serving /\ sw.pc = pc
SweepGoto(pc) == sw' = [sw EXCEPT !.pc = pc]
ItemDone(pc) == sw' = [Asleep EXCEPT !.pc = pc, !.todo = sw.todo]
Listing(S) == \A s \in S : HandlerOn(s) \/ GoroutineOn(s) => "sweeper" \in Overlap

(* Any launch may be past its deadline (two minutes) when the list is read; *)
(* when none is, the sweep goes on to the running sessions.                 *)
ListTransit ==
    /\ SweepAt("clear") /\ sw.todo = {}
    /\ \E late \in SUBSET Launching \ {{}} :
         /\ Listing(late)
         /\ sw' = [Asleep EXCEPT !.pc = "transit", !.todo = {ItemOf(s) : s \in late}]
    /\ UNCHANGED <<used, held, rows, docker, task, launch, now>>

KillLate ==
    /\ SweepAt("transit")
    /\ \E i \in sw.todo :
         /\ bridge' = [bridge EXCEPT ![i.s] = Stopped(@)]
         /\ ap' = [ap EXCEPT ![i.s] = Stopped(@)]
         /\ sw' = [sw EXCEPT !.pc = "releaseLate", !.cur = i, !.todo = @ \ {i}]
    /\ UNCHANGED <<used, held, rows, task, launch, now>>

(* Mutant: the release of a late launch is not guarded by the owner. *)
ReleaseLateAny ==
    /\ SweepAt("releaseLate")
    /\ Release(sw.cur.port)
    /\ SweepGoto("crashLate")
    /\ UNCHANGED <<rows, docker, task, launch, now>>

ReleaseLate ==
    /\ SweepAt("releaseLate")
    /\ ReleaseOwned(sw.cur.port, sw.cur.s)
    /\ SweepGoto("crashLate")
    /\ UNCHANGED <<rows, docker, task, launch, now>>

(* Mutant: the session is left in "launching". *)
CrashLateForgotten ==
    /\ SweepAt("crashLate")
    /\ ItemDone("transit")
    /\ UNCHANGED <<used, held, rows, docker, task, launch, now>>

CrashLate ==
    /\ SweepAt("crashLate")
    /\ UpdateStatus(sw.cur.s, "crashed")
    /\ ItemDone("transit")
    /\ UNCHANGED <<used, held, docker, task, launch, now>>

ListRunning ==
    LET live == {s \in Session : rows[s].status = "running"} IN
    /\ SweepAt("transit") \/ SweepAt("clear")
    /\ sw.todo = {}
    /\ Listing(live)
    /\ sw' = [Asleep EXCEPT !.pc = "running", !.todo = {ItemOf(s) : s \in live}]
    /\ UNCHANGED <<used, held, rows, docker, task, launch, now>>

(* Inspect answers that the AP server runs, or fails: skip the session.     *)
InspectSkip ==
    /\ SweepAt("running")
    /\ \E i \in sw.todo : sw' = [sw EXCEPT !.todo = @ \ {i}]
    /\ UNCHANGED <<used, held, rows, docker, task, launch, now>>

(* The container is not running: a clean exit is a pause, anything else (a  *)
(* vanished container too) a crash.                                         *)
Outcomes(c, n) == IF c.id = n THEN {"stopped", "crashed"} ELSE {"crashed"}

InspectDead ==
    /\ SweepAt("running")
    /\ \E i \in sw.todo :
         /\ ~(ap[i.s].id = i.cid /\ ap[i.s].st = "up")
         /\ \E end \in Outcomes(ap[i.s], i.cid) :
              sw' = [sw EXCEPT !.pc = "killDead", !.cur = i, !.end = end, !.todo = @ \ {i}]
    /\ UNCHANGED <<used, held, rows, docker, task, launch, now>>

(* A pause removes both containers, a crash only stops them.                *)
(* Mutant: a crash leaves the bridge running. *)
KillDeadButBridge ==
    LET s == sw.cur.s  n == sw.cur.cid IN
    /\ SweepAt("killDead")
    /\ IF sw.end = "stopped"
       THEN /\ bridge' = [bridge EXCEPT ![s] = RemovedId(@, n)]
            /\ ap' = [ap EXCEPT ![s] = NoContainer]
       ELSE /\ ap' = [ap EXCEPT ![s] = StoppedId(@, n)]
            /\ UNCHANGED bridge
    /\ SweepGoto("hold")
    /\ UNCHANGED <<used, held, rows, task, launch, now>>

KillDead ==
    LET s == sw.cur.s  n == sw.cur.cid IN
    /\ SweepAt("killDead")
    /\ IF sw.end = "stopped"
       THEN /\ bridge' = [bridge EXCEPT ![s] = RemovedId(@, n)]
            /\ ap' = [ap EXCEPT ![s] = NoContainer]
       ELSE /\ bridge' = [bridge EXCEPT ![s] = StoppedId(@, n)]
            /\ ap' = [ap EXCEPT ![s] = StoppedId(@, n)]
    /\ SweepGoto("hold")
    /\ UNCHANGED <<used, held, rows, task, launch, now>>

(* reservePort: keep the port, or give it back when reservations are off.   *)
KeepPort ==
    LET p == sw.cur.port  s == sw.cur.s IN
    /\ SweepAt("hold")
    /\ \/ /\ TTL > 0 /\ p \in Port /\ HoldPort(p, s, now + TTL)
          /\ sw' = [sw EXCEPT !.pc = "record", !.until = now + TTL]
       \/ /\ TTL > 0 /\ (p \in Port => ~CanHold(p, s))
          /\ SweepGoto("mark")
          /\ UNCHANGED <<used, held>>
       \/ /\ TTL = 0
          /\ ReleaseOwned(p, s)
          /\ SweepGoto("mark")
    /\ UNCHANGED <<rows, docker, task, launch, now>>

RecordHold ==
    /\ SweepAt("record")
    /\ SetReservation(sw.cur.s, sw.until)
    /\ SweepGoto("mark")
    /\ UNCHANGED <<used, held, docker, task, launch, now>>

(* Mutant: only a pause is recorded. *)
MarkPausedOnly ==
    /\ SweepAt("mark")
    /\ IF sw.end = "stopped" THEN UpdateStatus(sw.cur.s, "stopped") ELSE UNCHANGED rows
    /\ ItemDone("running")
    /\ UNCHANGED <<used, held, docker, task, launch, now>>

MarkDead ==
    /\ SweepAt("mark")
    /\ UpdateStatus(sw.cur.s, sw.end)
    /\ ItemDone("running")
    /\ UNCHANGED <<used, held, docker, task, launch, now>>

ExpireHolds ==
    /\ SweepAt("running") /\ sw.todo = {}
    /\ Expire(now)
    /\ sw' = [Asleep EXCEPT !.todo =
                {[NoItem EXCEPT !.s = held[p].session] : p \in Expired(now)}]
    /\ UNCHANGED <<rows, docker, task, launch, now>>

ClearExpired ==
    /\ SweepAt("clear")
    /\ \E i \in sw.todo :
         /\ ClearReservation(i.s)
         /\ sw' = [sw EXCEPT !.todo = @ \ {i}]
    /\ UNCHANGED <<used, held, docker, task, launch, now>>

SweeperStep ==
    \/ ListTransit \/ KillLate \/ ReleaseLate \/ CrashLate
    \/ ListRunning \/ InspectSkip \/ InspectDead \/ KillDead \/ KeepPort \/ RecordHold
    \/ MarkDead \/ ExpireHolds \/ ClearExpired

-----------------------------------------------------------------------------
(* The process crashes, perhaps while it boots; a new one recovers the pool *)
(* before it serves.                                                        *)
Crash ==
    /\ Crashes
    /\ NewPool
    /\ task' = [h \in Handler |-> NoTask]
    /\ launch' = [n \in LaunchId |-> NoGoroutine]
    /\ sw' = Asleep
    /\ UNCHANGED <<rows, docker, now>>

BootStop ==
    /\ phase = "reserve"
    /\ \E s \in Launching : "up" \in {ap[s].st, bridge[s].st}
    /\ ap' = [s \in Session |-> IF s \in Launching THEN Stopped(ap[s]) ELSE ap[s]]
    /\ bridge' = [s \in Session |-> IF s \in Launching THEN Stopped(bridge[s]) ELSE bridge[s]]
    /\ UNCHANGED <<poolVars, rows, procs, now>>

BootCrash ==
    /\ phase = "reserve"
    /\ Launching # {}
    /\ \A s \in Launching : "up" \notin {ap[s].st, bridge[s].st}
    /\ rows' = [s \in Session |-> IF s \in Launching
                                  THEN [rows[s] EXCEPT !.status = "crashed"] ELSE rows[s]]
    /\ UNCHANGED <<poolVars, docker, procs, now>>

(* AllSessionPorts: one of the running sessions that name the port.         *)
(* Mutant: every row that names the port counts. *)
RecordedOn(p) == {s \in Session : Present(s) /\ rows[s].port = p}
RunningOn(p) == {s \in Session : rows[s].status = "running" /\ rows[s].port = p}

BootRecoverUsed ==
    /\ phase = "reserve" /\ Launching = {}
    /\ \E f \in [Port -> Session \cup {NoSession}] :
         /\ \A p \in Port : IF RunningOn(p) = {} THEN f[p] = NoSession ELSE f[p] \in RunningOn(p)
         /\ used' = f
    /\ phase' = "hold"
    /\ UNCHANGED <<held, rows, docker, procs, now>>

(* ActivePortReservations: the reservations the boot recovery reads.        *)
Reserving(p) ==
    {s \in Session : rows[s].port = p /\ rows[s].status \in {"stopped", "crashed"}
                     /\ rows[s].until > now}

(* Mutant: a reservation that cannot be honoured stays on record. *)
BootKeepsRecords ==
    /\ phase = "hold"
    /\ \E f \in [Port -> Session \cup {NoSession}] :
         /\ \A p \in Port : IF InUse(p) \/ Reserving(p) = {}
                            THEN f[p] = NoSession ELSE f[p] \in Reserving(p)
         /\ held' = [p \in Port |-> IF f[p] = NoSession THEN NoHold
                                    ELSE [session |-> f[p], until |-> rows[f[p]].until]]
    /\ phase' = "serve"
    /\ UNCHANGED <<used, rows, docker, procs, now>>

BootRecoverHeld ==
    /\ phase = "hold"
    /\ \E f \in [Port -> Session \cup {NoSession}] :
         /\ \A p \in Port : IF InUse(p) \/ Reserving(p) = {}
                            THEN f[p] = NoSession ELSE f[p] \in Reserving(p)
         /\ held' = [p \in Port |-> IF f[p] = NoSession THEN NoHold
                                    ELSE [session |-> f[p], until |-> rows[f[p]].until]]
         /\ rows' = [s \in Session |->
                       IF \E p \in Port : s \in Reserving(p) /\ f[p] # s
                       THEN [rows[s] EXCEPT !.until = Never] ELSE rows[s]]
    /\ phase' = "serve"
    /\ UNCHANGED <<used, docker, procs, now>>

Boot == BootStop \/ BootCrash \/ BootRecoverUsed \/ BootRecoverHeld

-----------------------------------------------------------------------------
(* Docker and time.  An AP server ends, by its auto_shutdown or by failing  *)
(* for good (its exit code is chosen when it is inspected).                 *)
APExits(s) ==
    /\ ap[s].st = "up"
    /\ ap' = [ap EXCEPT ![s].st = "down"]
    /\ UNCHANGED <<poolVars, rows, bridge, procs, now>>

Tick ==
    /\ now < MaxTime
    /\ now' = now + 1
    /\ UNCHANGED <<poolVars, rows, docker, procs>>

Next ==
    \/ \E h \in Handler : HandlerStep(h)
    \/ \E n \in LaunchId : LaunchStep(n)
    \/ SweeperStep
    \/ Boot
    \/ Crash
    \/ \E s \in Session : APExits(s)
    \/ Tick

Spec == Init /\ [][Next]_vars

(* What the code's scheduling justifies: the sweeper's ticker never stops,  *)
(* a new process finishes its recovery, a launch past its deadline is past  *)
(* it at every later sweep, and Docker answers an inspection sooner or      *)
(* later.  Nothing is assumed of clients, of launch goroutines, which may   *)
(* hang in a Docker call, or of crashes.                                    *)
ListsLate(s) == ListTransit /\ \E i \in sw'.todo : i.s = s
FindsDead(s) == InspectDead /\ sw'.cur.s = s
FairSpec ==
    /\ Spec
    /\ WF_vars(SweeperStep) /\ WF_vars(Boot)
    /\ \A s \in Session : SF_vars(ListsLate(s)) /\ SF_vars(FindsDead(s))

-----------------------------------------------------------------------------
(* Properties.  Settled: nobody is at work on the session.                  *)
Settled(s) == phase = "serve" /\ ~Busy(s)

(* A session that runs owns the port it runs on, whatever else happened to  *)
(* that port since its launch (AllSessionPorts, db/session.go:230).         *)
RunningOwnsPort ==
    \A s \in Session :
        Settled(s) /\ rows[s].status = "running" => used[rows[s].port] = s

(* A port in use is in use by a session that is launching or running on it: *)
(* no path of a failed, stopped or interrupted launch leaks a port until    *)
(* the next restart (the concern of service.go:388).                        *)
UsedPortIsLive ==
    \A p \in Port, s \in Session :
        Settled(s) /\ used[p] = s
            => rows[s].status \in InProgress /\ rows[s].port = p

(* A hold is on the port its session last ran on, and the deadline on       *)
(* record, when there is one, is the one of the hold: what a relaunch gets  *)
(* back is the address the players know (port_reservation.go:9-10),         *)
(* whatever was evicted, expired or taken for other sessions between the    *)
(* two steps of a reservation.  A sweep that still has the session on its   *)
(* list while it is deleted, or launched again on another port, breaks it:  *)
(* the runs and the theorem keep such a sweep off (Overlap = {}).           *)
HoldMatchesRow ==
    \A p \in Port, s \in Session :
        Settled(s) /\ held[p].session = s
            => rows[s].port = p /\ rows[s].until \in {held[p].until, Never}

(* A port is handed out only when no container of another session still     *)
(* binds it: containers are stopped before their port is given up           *)
(* (crashRunningSession, sweeper.go:161-167).                               *)
UsedPortUnbound ==
    \A p \in Port, s \in Session : used[p] = s => ~BoundByOther(s, p)

(* A reservation is made for a session that stops running by itself, not    *)
(* for one that was given up: a manual stop "expresses the intent to end    *)
(* the game: its port is not reserved" (session.go:683).  The code breaks   *)
(* it: a sweep that listed the session before the stop reserves its port.   *)
HoldOnlyRunning ==
    [][phase = "serve" =>
         \A p \in Port, s \in Session :
             held[p].session # s /\ held'[p].session = s => rows[s].status = "running"]_vars

(* What an actor does for one session never costs another one the port it   *)
(* uses: only work for the owner, or the end of the process, frees it (the  *)
(* guard of ReleaseFor, pool.go:147-152).                                   *)
ActsFor(s) ==
    \/ \E h \in Handler : task[h].s = s /\ task'[h] # task[h]
    \/ \E n \in LaunchId : launch[n].s = s /\ launch'[n] # launch[n]
    \/ sw.cur.s = s /\ sw' # sw
OthersPortsUntouched ==
    [][phase' = "serve" =>
         \A p \in Port : InUse(p) /\ used'[p] # used[p] => ActsFor(used[p])]_vars

(* When a new process starts to serve, the pool agrees with the database:   *)
(* nobody is launching, every port in use is that of a session running on   *)
(* it, every running session's port is in use, and the holds are exactly    *)
(* the reservations on record that still run, each by a paused or crashed   *)
(* session.                                                                 *)
Paused(s) == rows[s].status \in {"stopped", "crashed"}
Recovered ==
    /\ Launching = {}
    /\ \A p \in Port, s \in Session :
          /\ used[p] = s => rows[s].status = "running" /\ rows[s].port = p
          /\ held[p].session = s => Paused(s) /\ rows[s].port = p
    /\ \A s \in Session :
          /\ rows[s].status = "running" => InUse(rows[s].port)
          /\ Paused(s) /\ rows[s].until > now
                => held[rows[s].port] = [session |-> s, until |-> rows[s].until]
RecoveryAgrees == [][phase = "hold" /\ phase' = "serve" => Recovered']_vars

(* Two sessions never run on the same port ("A running session's port is    *)
(* never taken", pool.go:61).                                               *)
RunningPortsDistinct ==
    \A s, t \in Session :
        s # t /\ rows[s].status = "running" /\ rows[t].status = "running"
            => rows[s].port # rows[t].port

(* The pool holds ports only for paused or crashed sessions, the ones boot  *)
(* recovery rebuilds holds for (ActivePortReservations, db/session.go:347). *)
(* The code breaks it (ConfigureSession); no run checks it: see README.     *)
HoldersPausedOrCrashed ==
    \A p \in Port, s \in Session :
        Settled(s) /\ held[p].session = s => Paused(s)

(* A deleted session leaves no container behind ("DeleteSession removes all *)
(* resources for a session", session.go:729).                               *)
(* The code breaks it after a crash during a launch: see README.            *)
DeletedLeavesNothing ==
    \A s \in Session :
        Settled(s) /\ ~Present(s) => ap[s] = NoContainer /\ bridge[s] = NoContainer

(* No session stays in "launching" for ever, even when its goroutine hangs  *)
(* or dies with the process (sweepTransit and crashInterruptedSessions).    *)
EveryLaunchEnds ==
    \A s \in Session :
        rows[s].status = "launching" ~> rows[s].status # "launching"

(* Once the process stops crashing, a session whose AP server is down does  *)
(* not stay "running" (sweepRunning, sweeper.go:96).                        *)
DeadServersNoticed ==
    <>[](phase = "serve") => \A s \in Session :
        rows[s].status = "running" /\ ap[s].st # "up"
            ~> rows[s].status # "running" \/ ap[s].st = "up"
=============================================================================
