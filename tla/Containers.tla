----------------------------- MODULE Containers -----------------------------
(***************************************************************************)
(* The bridge containers managed without a session: Create, startContainer,*)
(* Stop, Reload, Remove, Get and HandleDockerEvent of                      *)
(* internal/service/service.go, over the containers table of db/db.go, the *)
(* containers of docker/client.go, the stream of Docker events main.go     *)
(* watches, and the port pool, which sessions launched elsewhere share.    *)
(*                                                                         *)
(* Four writers set the status of a row from what they saw earlier: the    *)
(* goroutine of a creation, the handler of events, Stop and Reload, and    *)
(* the synchronisation of Get.  What Docker answers to a stop, a restart   *)
(* or a removal is not looked at, and statements of the database fail:     *)
(* refused and dispossessed remember for which sessions.                   *)
(*                                                                         *)
(* env, chosen once, says which meetings an execution has; the code        *)
(* excludes none of them:                                                  *)
(*   "overlap"  a request meets another one, or the goroutine of the       *)
(*              creation, on the same session (a Get meets that goroutine  *)
(*              and any event in every execution)                          *)
(*   "stale"    a session is created again while an event of its former    *)
(*              container is on its way                                    *)
(*   "lost"     the stream of events breaks                                *)
(***************************************************************************)
EXTENDS PortPool, Sequences

CONSTANTS
    Legacy,    \* sessions of this interface; the others only use the pool
    Request,   \* requests under way at once
    Cid,       \* container ids that may be remembered somewhere at once
    Envs,      \* the values of env an execution may have
    Ends,      \* how a stream may break: "error", or "eof" without an error
    MaxEvents, \* bound on the events on their way
    Crashes,   \* the process may crash
    NoCid, NoPort

Meetings == {"overlap", "stale", "lost"}

ASSUME ContainersAssumption ==
    /\ Legacy \subseteq Session /\ NoCid \notin Cid /\ NoPort \notin Port
    /\ Envs \subseteq SUBSET Meetings /\ Ends \subseteq {"error", "eof"}
    /\ MaxEvents \in Nat /\ Crashes \in BOOLEAN

VARIABLES
    rows,      \* rows[s]: the containers table
    box,       \* box[s]: the container archilan-bridge-<s>
    gor,       \* gor[s]: the goroutine of the creation of s
    req,       \* req[q]: the request q is, and what it read
    events,    \* the events on their way, in order
    stream,    \* the stream main.go reads them from
    runsOn,    \* runsOn[t]: the port a session elsewhere is on record as running on
    env,
    restarted, \* history: the process has crashed
    refused,   \* history: sessions of which Docker or the database refused a call
    dispossessed \* history: sessions whose port on record was given up all the same

vars == <<poolVars, rows, box, gor, req, events, stream, runsOn, env, restarted,
          refused, dispossessed>>

Status == {"absent", "starting", "running", "stopped", "crashed"}
NoRow == [status |-> "absent", port |-> NoPort, cid |-> NoCid]
NoBox == [id |-> NoCid, st |-> "none", port |-> NoPort]
NoGoroutine == [pc |-> "none", port |-> NoPort, id |-> NoCid]
NoRequest == [op |-> "none", s |-> NoSession, pc |-> "none", port |-> NoPort,
              cid |-> NoCid, status |-> "absent"]

MaybePort == Port \cup {NoPort}
MaybeCid == Cid \cup {NoCid}
Event == [type : {"start", "die"}, s : Legacy, id : Cid]
Operation == {"create", "stop", "reload", "remove", "get"}

TypeOK ==
    /\ PoolTypeOK
    /\ rows \in [Legacy -> [status : Status, port : MaybePort, cid : MaybeCid]]
    /\ box \in [Legacy -> [id : MaybeCid, port : MaybePort,
                           st : {"none", "created", "running", "restarting", "exited", "failed"}]]
    /\ gor \in [Legacy -> [pc : {"none", "create", "start", "final"}, port : MaybePort, id : MaybeCid]]
    /\ req \in [Request -> [op : Operation \cup {"none"}, s : Legacy \cup {NoSession},
                            pc : {"none", "acquire", "insert", "docker", "release", "write"},
                            port : MaybePort, cid : MaybeCid, status : Status]]
    /\ events \in Seq(Event) /\ Len(events) <= MaxEvents
    /\ stream \in {"open", "error", "eof"}
    /\ runsOn \in [Session \ Legacy -> MaybePort]
    /\ env \in SUBSET Meetings /\ restarted \in BOOLEAN
    /\ refused \subseteq Legacy /\ dispossessed \subseteq Legacy

Init ==
    /\ used = [p \in Port |-> NoSession] /\ held = [p \in Port |-> NoHold]
    /\ phase = "serve"
    /\ rows = [s \in Legacy |-> NoRow] /\ box = [s \in Legacy |-> NoBox]
    /\ gor = [s \in Legacy |-> NoGoroutine]
    /\ req = [q \in Request |-> NoRequest]
    /\ events = <<>> /\ stream = "open"
    /\ runsOn = [t \in Session \ Legacy |-> NoPort]
    /\ env \in Envs /\ restarted = FALSE
    /\ refused = {} /\ dispossessed = {}

-----------------------------------------------------------------------------
Present(s) == rows[s].status # "absent"
RequestOn(s) == \E q \in Request : req[q].s = s
GoroutineOn(s) == gor[s] # NoGoroutine
EventOn(s) == \E i \in DOMAIN events : events[i].s = s
Quiet(s) == ~RequestOn(s) /\ ~GoroutineOn(s) /\ ~EventOn(s)

Unused(c) ==
    /\ \A s \in Legacy : c \notin {box[s].id, rows[s].cid, gor[s].id}
    /\ \A q \in Request : req[q].cid # c
    /\ \A i \in DOMAIN events : events[i].id # c

Refused(s) == refused' = refused \cup {s}

(* UpdateStatus replaces the id of the container as well, by NULL on        *)
(* failure.  An error of it is dropped, or only told to the client.         *)
UpdateStatus(s, status, cid) ==
    \/ /\ rows' = IF Present(s)
                  THEN [rows EXCEPT ![s] = [status |-> status, port |-> rows[s].port, cid |-> cid]]
                  ELSE rows
       /\ UNCHANGED refused
    \/ Present(s) /\ UNCHANGED rows /\ Refused(s)

(* Docker announces what containers do, to whoever is listening.            *)
Emit(new) ==
    IF stream = "open"
    THEN Len(events) + Len(new) <= MaxEvents /\ events' = events \o new
    ELSE UNCHANGED events
Said(type, s, id) == <<[type |-> type, s |-> s, id |-> id]>>
DieIfUp(s) == IF box[s].st = "running" THEN Said("die", s, box[s].id) ELSE <<>>

Serving == phase = "serve" /\ UNCHANGED <<phase, env, restarted, runsOn>>
Pool == <<used, held>>
Finished(q) == req' = [req EXCEPT ![q] = NoRequest]
Goto(q, pc) == req' = [req EXCEPT ![q].pc = pc]

(* Release frees a port whoever uses it: once the port of s is not its own, *)
(* s takes it from whoever has it by then.                                  *)
GiveUp(s, p) ==
    /\ Release(p)
    /\ dispossessed' = dispossessed \cup (IF s \in dispossessed THEN {used[p]} \cap Legacy ELSE {})

-----------------------------------------------------------------------------
(* Create: no row is found; a port is acquired; the row is inserted and the *)
(* goroutine starts, or the port is given back.                             *)
BeginCreate(q, s) ==
    /\ Serving
    /\ req[q] = NoRequest /\ ~GoroutineOn(s)
    /\ RequestOn(s) => "overlap" \in env
    /\ EventOn(s) => "stale" \in env
    /\ ~Present(s)
    /\ req' = [req EXCEPT ![q] = [NoRequest EXCEPT !.op = "create", !.s = s, !.pc = "acquire"]]
    /\ UNCHANGED <<Pool, rows, box, gor, events, stream, refused, dispossessed>>

AcquirePort(q) ==
    /\ Serving
    /\ req[q].pc = "acquire"
    /\ \/ \E p \in Port :
            /\ AcquireFor(req[q].s, p)
            /\ req' = [req EXCEPT ![q].pc = "insert", ![q].port = p]
            /\ dispossessed' = dispossessed \ {req[q].s}
       \/ Exhausted /\ Finished(q) /\ UNCHANGED <<Pool, dispossessed>>
    /\ UNCHANGED <<rows, box, gor, events, stream, refused>>

(* The session is the primary key, and its port is unique.                  *)
CanInsert(s, p) == ~Present(s) /\ \A t \in Legacy : rows[t].port # p

(* Mutant: the port is kept when the row cannot be inserted. *)
InsertKeepingPort(q) ==
    LET s == req[q].s   p == req[q].port IN
    /\ Serving
    /\ req[q].pc = "insert"
    /\ \/ /\ CanInsert(s, p) /\ ~GoroutineOn(s)
          /\ rows' = [rows EXCEPT ![s] = [status |-> "starting", port |-> p, cid |-> NoCid]]
          /\ gor' = [gor EXCEPT ![s] = [pc |-> "create", port |-> p, id |-> NoCid]]
          /\ UNCHANGED Pool
       \/ UNCHANGED <<used, held, rows, gor>>
    /\ Finished(q)
    /\ UNCHANGED <<box, events, stream, refused, dispossessed>>
InsertRow(q) ==
    LET s == req[q].s   p == req[q].port IN
    /\ Serving
    /\ req[q].pc = "insert"
    /\ \/ /\ CanInsert(s, p) /\ ~GoroutineOn(s)
          /\ rows' = [rows EXCEPT ![s] = [status |-> "starting", port |-> p, cid |-> NoCid]]
          /\ gor' = [gor EXCEPT ![s] = [pc |-> "create", port |-> p, id |-> NoCid]]
          /\ UNCHANGED <<Pool, dispossessed>>
       \/ GiveUp(s, p) /\ UNCHANGED <<rows, gor>>
    /\ Finished(q)
    /\ UNCHANGED <<box, events, stream, refused>>

-----------------------------------------------------------------------------
(* startContainer: the files are fetched and the container created; they    *)
(* are copied into it and it starts; its id is recorded.                    *)
At(s, pc) == Serving /\ gor[s].pc = pc

(* Mutant: a creation that fails gives its port back. *)
FailAndRelease(s) ==
    /\ UpdateStatus(s, "crashed", NoCid)
    /\ Release(gor[s].port)
    /\ gor' = [gor EXCEPT ![s] = NoGoroutine]
    /\ UNCHANGED <<box, events, dispossessed>>
Fail(s) ==
    /\ UpdateStatus(s, "crashed", NoCid)
    /\ gor' = [gor EXCEPT ![s] = NoGoroutine]
    /\ UNCHANGED <<used, held, box, events, dispossessed>>

(* The name archilan-bridge-<s> must be free.                               *)
DockerCreate(s, c) ==
    /\ box[s] = NoBox /\ Unused(c)
    /\ box' = [box EXCEPT ![s] = [id |-> c, st |-> "created", port |-> gor[s].port]]

CreateBox(s) ==
    /\ At(s, "create")
    /\ \/ \E c \in Cid :
            /\ DockerCreate(s, c)
            /\ gor' = [gor EXCEPT ![s] = [pc |-> "start", port |-> gor[s].port, id |-> c]]
            /\ UNCHANGED <<Pool, rows, events, refused, dispossessed>>
       \/ Fail(s)
    /\ UNCHANGED <<req, stream>>

Binds(s, p) == box[s].st = "running" /\ box[s].port = p

DockerStart(s) ==
    /\ \A t \in Legacy \ {s} : ~Binds(t, box[s].port)
    /\ box' = [box EXCEPT ![s].st = "running"]
    /\ Emit(Said("start", s, box[s].id))

StartBox(s) ==
    /\ At(s, "start")
    /\ \/ /\ box[s].id = gor[s].id /\ DockerStart(s)
          /\ gor' = [gor EXCEPT ![s].pc = "final"]
          /\ UNCHANGED <<Pool, rows, refused, dispossessed>>
       \/ Fail(s)
    /\ UNCHANGED <<req, stream>>

(* Mutant: as on the paths that fail, no id is recorded. *)
RecordNoId(s) ==
    /\ At(s, "final")
    /\ UpdateStatus(s, "starting", NoCid)
    /\ gor' = [gor EXCEPT ![s] = NoGoroutine]
    /\ UNCHANGED <<Pool, box, req, events, stream, dispossessed>>
RecordId(s) ==
    /\ At(s, "final")
    /\ UpdateStatus(s, "starting", gor[s].id)
    /\ gor' = [gor EXCEPT ![s] = NoGoroutine]
    /\ UNCHANGED <<Pool, box, req, events, stream, dispossessed>>

-----------------------------------------------------------------------------
(* Stop, Reload, Remove and Get read the row; all but Remove want an id.    *)
Begin(q, s, op) ==
    /\ Serving
    /\ req[q] = NoRequest
    /\ op \in Operation \ {"create"}
    /\ RequestOn(s) => "overlap" \in env
    /\ GoroutineOn(s) => "overlap" \in env \/ op = "get"
    /\ Present(s)
    /\ op # "remove" => rows[s].cid # NoCid
    /\ req' = [req EXCEPT ![q] = [op |-> op, s |-> s, pc |-> "docker", port |-> rows[s].port,
                                  cid |-> rows[s].cid, status |-> rows[s].status]]
    /\ UNCHANGED <<Pool, rows, box, gor, events, stream, refused, dispossessed>>

Calls(q, op) == Serving /\ req[q].op = op /\ req[q].pc = "docker"
Writes(q, op) == Serving /\ req[q].op = op /\ req[q].pc = "write"
Its(q) == box[req[q].s].id = req[q].cid

(* A call Docker does not answer ends the request.                          *)
CallFails(q) ==
    /\ Serving
    /\ req[q].pc = "docker"
    /\ Finished(q)
    /\ UNCHANGED <<Pool, rows, box, gor, events, stream, refused, dispossessed>>

(* Docker answers that it did not do it: the status of the answer is not    *)
(* looked at, and the request goes on.                                      *)
Declined(q) == UNCHANGED <<box, events>> /\ Refused(req[q].s)
NothingToDo == UNCHANGED <<box, events, refused>>

StopBox(q) ==
    LET s == req[q].s IN
    /\ Calls(q, "stop")
    /\ IF Its(q) /\ box[s].st \in {"running", "restarting"}
       THEN \/ /\ \E st \in {"exited", "failed"} : box' = [box EXCEPT ![s].st = st]
               /\ Emit(DieIfUp(s))
               /\ UNCHANGED refused
            \/ Declined(q)
       ELSE NothingToDo
    /\ Goto(q, "write")
    /\ UNCHANGED <<Pool, rows, gor, stream, dispossessed>>

RestartBox(q) ==
    LET s == req[q].s IN
    /\ Calls(q, "reload")
    /\ \/ /\ Its(q) /\ \A t \in Legacy \ {s} : ~Binds(t, box[s].port)
          /\ box' = [box EXCEPT ![s].st = "running"]
          /\ Emit(DieIfUp(s) \o Said("start", s, box[s].id))
          /\ UNCHANGED refused
       \/ Declined(q)
    /\ Goto(q, "write")
    /\ UNCHANGED <<Pool, rows, gor, stream, dispossessed>>

RemoveBox(q) ==
    LET s == req[q].s IN
    /\ Calls(q, "remove")
    /\ IF req[q].cid # NoCid /\ Its(q)
       THEN \/ box' = [box EXCEPT ![s] = NoBox] /\ Emit(DieIfUp(s)) /\ UNCHANGED refused
            \/ Declined(q)
       ELSE NothingToDo
    /\ Goto(q, "release")
    /\ UNCHANGED <<Pool, rows, gor, stream, dispossessed>>

ReleasePort(q) ==
    /\ Serving
    /\ req[q].pc = "release"
    /\ GiveUp(req[q].s, req[q].port)
    /\ Goto(q, "write")
    /\ UNCHANGED <<rows, box, gor, events, stream, refused>>

(* A row that cannot be deleted stays, without the port it names.           *)
DeleteRow(q) ==
    LET s == req[q].s IN
    /\ Writes(q, "remove")
    /\ \/ rows' = [rows EXCEPT ![s] = NoRow] /\ UNCHANGED <<refused, dispossessed>>
       \/ UNCHANGED rows /\ Refused(s) /\ dispossessed' = dispossessed \cup {s}
    /\ Finished(q)
    /\ UNCHANGED <<Pool, box, gor, events, stream>>

Mark(q, op, status) ==
    /\ Writes(q, op)
    /\ UpdateStatus(req[q].s, status, req[q].cid)
    /\ Finished(q)
    /\ UNCHANGED <<Pool, box, gor, events, stream, dispossessed>>

MarkStopped(q) == Mark(q, "stop", "stopped")
MarkReloaded(q) == Mark(q, "reload", "starting")
SyncRow(q) == Mark(q, "get", req[q].status)

(* dockerStatusToApp of what Inspect says of the id on record.              *)
(* Mutant: a container that restarts counts as crashed.                     *)
LiveOrCrashed(s, cid) ==
    CASE box[s].id # cid -> "crashed"
      [] box[s].st = "running" -> "running"
      [] box[s].st = "created" -> "starting"
      [] box[s].st = "exited" -> "stopped"
      [] OTHER -> "crashed"
Live(s, cid) ==
    CASE box[s].id # cid -> "crashed"
      [] box[s].st \in {"running", "restarting"} -> "running"
      [] box[s].st = "created" -> "starting"
      [] box[s].st = "exited" -> "stopped"
      [] OTHER -> "crashed"

InspectBox(q) ==
    LET live == Live(req[q].s, req[q].cid) IN
    /\ Calls(q, "get")
    /\ req' = [req EXCEPT ![q] = IF live = req[q].status THEN NoRequest
                                 ELSE [@ EXCEPT !.pc = "write", !.status = live]]
    /\ UNCHANGED <<Pool, rows, box, gor, events, stream, refused, dispossessed>>

-----------------------------------------------------------------------------
(* Docker restarts a container that exits on its own (unless-stopped).      *)
Exit(s) ==
    /\ box[s].st = "running"
    /\ box' = [box EXCEPT ![s].st = "restarting"]
    /\ Emit(DieIfUp(s))
    /\ UNCHANGED <<poolVars, rows, gor, req, stream, runsOn, env, restarted, refused, dispossessed>>

Resume(s) ==
    /\ box[s].st = "restarting"
    /\ DockerStart(s)
    /\ UNCHANGED <<poolVars, rows, gor, req, stream, runsOn, env, restarted, refused, dispossessed>>

(* HandleDockerEvent.                                                       *)
HandleEvent ==
    /\ Serving
    /\ events # <<>>
    /\ UpdateStatus(Head(events).s,
                    IF Head(events).type = "start" THEN "running" ELSE "crashed",
                    Head(events).id)
    /\ events' = Tail(events)
    /\ UNCHANGED <<Pool, box, gor, req, stream, dispossessed>>

(* The connection breaks; what was read from it is still handled.  main.go  *)
(* then waits for the error of the stream, and connects anew after one; a   *)
(* stream that just ends sends none.                                        *)
BreakStream ==
    /\ Serving
    /\ "lost" \in env /\ stream = "open"
    /\ \E k \in 0..Len(events) : events' = SubSeq(events, 1, k)
    /\ stream' \in Ends
    /\ UNCHANGED <<Pool, rows, box, gor, req, refused, dispossessed>>

Reconnect ==
    /\ Serving
    /\ stream = "error" /\ events = <<>>
    /\ stream' = "open"
    /\ UNCHANGED <<Pool, rows, box, gor, req, events, refused, dispossessed>>

-----------------------------------------------------------------------------
(* The process dies, and with it the events nobody handled; containers go   *)
(* on.  Boot reserves the ports of all rows and then those of the running   *)
(* sessions, each whoever had it, before it watches and serves.             *)
Crash ==
    /\ Crashes
    /\ NewPool
    /\ gor' = [s \in Legacy |-> NoGoroutine]
    /\ req' = [q \in Request |-> NoRequest]
    /\ events' = <<>> /\ stream' = "open"
    /\ restarted' = TRUE
    /\ UNCHANGED <<rows, box, runsOn, env, refused, dispossessed>>

(* Mutant: the rows of containers that crashed are not reserved. *)
RecordedAlive(p) == {s \in Legacy : rows[s].status \notin {"absent", "crashed"} /\ rows[s].port = p}
Recorded(p) == {s \in Legacy : Present(s) /\ rows[s].port = p}
RunningOn(p) == {t \in Session \ Legacy : runsOn[t] = p}
LastReserved(p) == IF RunningOn(p) # {} THEN RunningOn(p)
                   ELSE IF Recorded(p) # {} THEN Recorded(p) ELSE {NoSession}

RecoverPorts ==
    /\ phase = "reserve"
    /\ \E owner \in [Port -> Session \cup {NoSession}] :
         (\A p \in Port : owner[p] \in LastReserved(p)) /\ used' = owner
    /\ phase' = "serve"
    /\ dispossessed' = {s \in Legacy : Present(s) /\ RunningOn(rows[s].port) # {}}
    /\ UNCHANGED <<held, rows, box, gor, req, events, stream, runsOn, env, restarted, refused>>

(* The sessions launched elsewhere use the pool by its contract.  Their     *)
(* rows may name any port, whoever has it by then: a stop gives the port up *)
(* before it writes the row, a launch may write it late.                    *)
Elsewhere ==
    /\ phase = "serve"
    /\ \/ /\ \E s \in Session \ Legacy, p \in Port :
               AcquireFor(s, p) \/ ReleaseFor(p, s) \/ \E t \in Time : used[p] = s /\ HoldPort(p, s, t)
          /\ UNCHANGED runsOn
       \/ /\ \E s \in Session \ Legacy, p \in MaybePort : runsOn' = [runsOn EXCEPT ![s] = p]
          /\ UNCHANGED Pool
    /\ UNCHANGED <<phase, rows, box, gor, req, events, stream, env, restarted, refused, dispossessed>>

-----------------------------------------------------------------------------
Ask == \E q \in Request :
    \/ AcquirePort(q) \/ InsertRow(q) \/ CallFails(q)
    \/ StopBox(q) \/ RestartBox(q) \/ RemoveBox(q) \/ InspectBox(q)
    \/ ReleasePort(q) \/ DeleteRow(q) \/ MarkStopped(q) \/ MarkReloaded(q) \/ SyncRow(q)
    \/ \E s \in Legacy : BeginCreate(q, s) \/ \E op \in Operation : Begin(q, s, op)
Work == \E s \in Legacy : CreateBox(s) \/ StartBox(s) \/ RecordId(s)
Docker == BreakStream \/ \E s \in Legacy : Exit(s) \/ Resume(s)
Watch == HandleEvent \/ Reconnect

Next == Ask \/ Work \/ Docker \/ Watch \/ Elsewhere \/ Crash \/ RecoverPorts

Spec == Init /\ [][Next]_vars

(* The goroutine of main.go handles the events it is given and connects     *)
(* anew; a process that starts recovers.                                    *)
FairSpec == Spec /\ WF_vars(HandleEvent) /\ WF_vars(Reconnect) /\ WF_vars(RecoverPorts)

-----------------------------------------------------------------------------
Apart == "overlap" \notin env
Removing(s) == \E q \in Request : req[q].s = s /\ req[q].op = "remove" /\ req[q].pc = "write"
Creating(s, p) == \E q \in Request : req[q].s = s /\ req[q].op = "create" /\ req[q].port = p

(* The port on record of a container is its own in the pool, through        *)
(* failures and restarts, until Remove gives it up (service.go:483, 736): a *)
(* session launched elsewhere does not get it, unless the row outlived its  *)
(* port (the deletion failed, service.go:737), or boot gave the port to a   *)
(* running session that names it as well (service.go:406-418).              *)
RowOwnsPort ==
    Apart /\ phase = "serve"
        => \A s \in Legacy \ dispossessed :
               Present(s) /\ ~Removing(s) => used[rows[s].port] = s

(* A port is in use for a container only while there is a row, or a         *)
(* creation, that will give it back (service.go:488-499).                   *)
NoPortKept ==
    Apart /\ phase = "serve"
        => \A s \in Legacy, p \in Port : used[p] = s => rows[s].port = p \/ Creating(s, p)

(* At rest a container that runs is the one on record, with a port that is  *)
(* its own: Stop, Reload and Remove reach it (service.go:574).  So it is as *)
(* long as neither Docker nor the database refused a call on it: a refused  *)
(* removal, say, deletes the row of a container that runs.                  *)
RunningIsKnown ==
    Apart /\ ~restarted /\ env \cap {"stale"} = {}
        => \A s \in Legacy \ (refused \cup dispossessed) :
               Quiet(s) /\ box[s].st = "running"
                   => rows[s].cid = box[s].id /\ used[box[s].port] = s

(* At rest, when no event was lost and no call on it refused, the row of a  *)
(* container that runs does not say it is over, and the row of one that was *)
(* stopped does, whichever of the four writers came last (service.go:574,   *)
(* 661-687, 757-776).                                                       *)
StatusTellsLife ==
    env = {} /\ ~restarted
        => \A s \in Legacy \ refused : Quiet(s) =>
               /\ box[s].st = "running" => rows[s].status \in {"starting", "running"}
               /\ box[s].st \in {"exited", "failed"} => rows[s].status \in {"stopped", "crashed"}

(* Remove frees the port of its own container (service.go:736), as long as  *)
(* no two requests meet on it and it has not lost that port before.         *)
RemoveFreesItsOwn ==
    [][ Apart => \A q \in Request :
          req[q].pc = "release" /\ req'[q].pc = "write" /\ req[q].s \notin dispossessed
              => used[req[q].port] = req[q].s ]_vars

(* Remove never frees the port another session uses by then: "an unguarded  *)
(* Release would steal the port from the new session" (pool.go:151).  The   *)
(* code breaks it when a removal whose row stayed is tried again: README.   *)
StealsNoPort ==
    [][ \A q \in Request :
          req[q].pc = "release" /\ req'[q].pc = "write"
              => used[req[q].port] \in {req[q].s, NoSession} ]_vars

(* Docker's events are watched in the background (main.go:81-98): whatever  *)
(* ends the stream, it is opened again.  The code breaks it when the stream *)
(* ends without an error: run events_end.                                   *)
AlwaysWatching == []<>(stream = "open")
=============================================================================
