-------------------------- MODULE Containers_proofs --------------------------
(***************************************************************************)
(* Theorems about the bridge containers managed without a session, for     *)
(* every set of sessions, ports, container ids and requests, every bound   *)
(* on the events under way, with and without crashes.                      *)
(***************************************************************************)
EXTENDS Containers, PortPool_proofs

(* What a request, a goroutine, a container and a row look like at each of  *)
(* their steps, whoever else is at work.                                    *)
RequestShape(r) ==
    \/ r = NoRequest
    \/ /\ r.s \in Legacy
       /\ \/ r.op = "create" /\ r.pc = "acquire" /\ r.port = NoPort
          \/ r.op = "create" /\ r.pc = "insert" /\ r.port \in Port
          \/ r.op = "remove" /\ r.pc \in {"docker", "release", "write"} /\ r.port \in Port
          \/ /\ r.op \in {"stop", "reload", "get"} /\ r.pc \in {"docker", "write"}
             /\ r.cid \in Cid /\ r.status # "absent"

GoroutineShape(g) ==
    \/ g = NoGoroutine
    \/ g.pc = "create" /\ g.port \in Port /\ g.id = NoCid
    \/ g.pc \in {"start", "final"} /\ g.port \in Port /\ g.id \in Cid

BoxShape(b) == b = NoBox \/ (b.id \in Cid /\ b.port \in Port /\ b.st # "none")

RowShape(row) == row = NoRow \/ (row.status # "absent" /\ row.port \in Port)

(* The port column is unique (db.go).                                       *)
PortsOnce ==
    \A s, t \in Legacy : Present(s) /\ rows[s].port = rows[t].port => s = t

(* Between the start of a process and the end of its recovery nobody works. *)
NobodyBeforeServe ==
    phase = "reserve" => /\ \A q \in Request : req[q] = NoRequest
                         /\ \A s \in Legacy : gor[s] = NoGoroutine

(* The state is well typed and well shaped, a variable at a time.           *)
RowsOK ==
    /\ rows \in [Legacy -> [status : Status, port : MaybePort, cid : MaybeCid]]
    /\ \A s \in Legacy : RowShape(rows[s])
    /\ PortsOnce

BoxesOK ==
    /\ box \in [Legacy -> [id : MaybeCid, port : MaybePort,
                           st : {"none", "created", "running", "restarting", "exited", "failed"}]]
    /\ \A s \in Legacy : BoxShape(box[s])

GoroutinesOK ==
    /\ gor \in [Legacy -> [pc : {"none", "create", "start", "final"}, port : MaybePort, id : MaybeCid]]
    /\ \A s \in Legacy : GoroutineShape(gor[s])

RequestType == [op : Operation \cup {"none"}, s : Legacy \cup {NoSession},
                pc : {"none", "acquire", "insert", "docker", "release", "write"},
                port : MaybePort, cid : MaybeCid, status : Status]
RequestsOK ==
    /\ req \in [Request -> RequestType]
    /\ \A q \in Request : RequestShape(req[q])

EventsOK == events \in Seq(Event) /\ Len(events) <= MaxEvents

ProcessOK ==
    /\ phase \in {"reserve", "serve"} /\ NobodyBeforeServe
    /\ stream \in {"open", "error", "eof"} /\ env \in SUBSET Meetings /\ restarted \in BOOLEAN

HandsInv ==
    PoolInv /\ RowsOK /\ BoxesOK /\ GoroutinesOK /\ RequestsOK /\ EventsOK /\ ProcessOK

(* What sessions elsewhere have on record, and what is remembered.          *)
RecordsOK ==
    /\ runsOn \in [Session \ Legacy -> MaybePort]
    /\ refused \subseteq Legacy /\ dispossessed \subseteq Legacy

LEMMA HandsTyped == HandsInv /\ RecordsOK => TypeOK
BY DEF HandsInv, TypeOK, PoolInv, PoolTypeOK, RowsOK, BoxesOK, GoroutinesOK, RequestsOK, RequestType,
       EventsOK, ProcessOK, RecordsOK

-----------------------------------------------------------------------------
(* Nothing that stands for no entry is an entry.                            *)
LEMMA Nothing ==
    /\ NoSession \notin Legacy /\ NoPort \notin Port /\ NoCid \notin Cid /\ MaxEvents \in Nat
    /\ NoRow.status = "absent" /\ NoRow.port = NoPort /\ NoRow.cid = NoCid
    /\ NoBox.id = NoCid /\ NoBox.st = "none"
    /\ NoGoroutine.pc = "none" /\ NoGoroutine.id = NoCid
    /\ NoRequest.op = "none" /\ NoRequest.pc = "none" /\ NoRequest.s = NoSession /\ NoRequest.port = NoPort
BY ContainersAssumption, SessionAssumption DEF NoRow, NoBox, NoGoroutine, NoRequest

LEMMA NothingTyped ==
    /\ NoRow \in [status : Status, port : MaybePort, cid : MaybeCid]
    /\ NoBox \in [id : MaybeCid, port : MaybePort,
                  st : {"none", "created", "running", "restarting", "exited", "failed"}]
    /\ NoGoroutine \in [pc : {"none", "create", "start", "final"}, port : MaybePort, id : MaybeCid]
    /\ NoRequest \in RequestType
BY DEF NoRow, NoBox, NoGoroutine, NoRequest, Status, MaybePort, MaybeCid, RequestType, Operation

(* The writers of a row.                                                    *)
LEMMA UpdateTyped ==
    ASSUME RowsOK, NEW s \in Legacy, NEW st \in Status \ {"absent"}, NEW c \in MaybeCid,
           UpdateStatus(s, st, c)
    PROVE  RowsOK'
<1>1. CASE rows' = rows
  BY <1>1 DEF RowsOK, PortsOnce, Present
<1>2. CASE rows' # rows
  <2>1. /\ rows' = [rows EXCEPT ![s] = [status |-> st, port |-> rows[s].port, cid |-> c]]
        /\ Present(s)
    BY <1>2 DEF UpdateStatus
  <2>2. rows[s].port \in Port
    BY <2>1, Nothing DEF RowsOK, RowShape, Present
  <2>3. /\ rows'[s] = [status |-> st, port |-> rows[s].port, cid |-> c]
        /\ \A t \in Legacy \ {s} : rows'[t] = rows[t]
    BY <2>1 DEF RowsOK
  <2>4. rows' \in [Legacy -> [status : Status, port : MaybePort, cid : MaybeCid]]
    BY <2>1, <2>2 DEF RowsOK, MaybePort
  <2>5. \A t \in Legacy : RowShape(rows'[t])
    BY <2>2, <2>3 DEF RowsOK, RowShape
  <2>6. PortsOnce'
    BY <2>1, <2>3 DEF RowsOK, PortsOnce, Present
  <2> QED BY <2>4, <2>5, <2>6 DEF RowsOK
<1> QED BY <1>1, <1>2

LEMMA InsertTyped ==
    ASSUME RowsOK, NEW s \in Legacy, NEW p \in Port, CanInsert(s, p),
           rows' = [rows EXCEPT ![s] = [status |-> "starting", port |-> p, cid |-> NoCid]]
    PROVE  RowsOK'
<1>1. /\ rows'[s] = [status |-> "starting", port |-> p, cid |-> NoCid]
      /\ \A t \in Legacy \ {s} : rows'[t] = rows[t] /\ rows[t].port # p
  BY DEF RowsOK, CanInsert
<1>2. rows' \in [Legacy -> [status : Status, port : MaybePort, cid : MaybeCid]]
  BY DEF RowsOK, MaybePort, MaybeCid, Status
<1>3. \A t \in Legacy : RowShape(rows'[t])
  BY <1>1 DEF RowsOK, RowShape
<1>4. PortsOnce'
  BY <1>1 DEF RowsOK, PortsOnce, Present
<1> QED BY <1>2, <1>3, <1>4 DEF RowsOK

LEMMA DeleteTyped ==
    ASSUME RowsOK, NEW s \in Legacy, rows' = [rows EXCEPT ![s] = NoRow]
    PROVE  RowsOK'
<1>1. rows'[s] = NoRow /\ \A t \in Legacy \ {s} : rows'[t] = rows[t]
  BY DEF RowsOK
<1>2. rows' \in [Legacy -> [status : Status, port : MaybePort, cid : MaybeCid]]
  BY NothingTyped DEF RowsOK
<1>3. \A t \in Legacy : RowShape(rows'[t])
  BY <1>1 DEF RowsOK, RowShape
<1>4. PortsOnce'
  BY <1>1, Nothing DEF RowsOK, PortsOnce, Present, RowShape
<1> QED BY <1>2, <1>3, <1>4 DEF RowsOK

(* What Docker says is about a container that has an id.                    *)
LEMMA SaidTyped ==
    ASSUME EventsOK, BoxesOK, NEW s \in Legacy, box[s] # NoBox
    PROVE  /\ \A type \in {"start", "die"} : Said(type, s, box[s].id) \in Seq(Event)
           /\ DieIfUp(s) \in Seq(Event)
           /\ DieIfUp(s) \o Said("start", s, box[s].id) \in Seq(Event)
           /\ \A new \in Seq(Event) : Emit(new) => EventsOK'
<1>1. box[s].id \in Cid
  BY DEF BoxesOK, BoxShape
<1>2. \A type \in {"start", "die"} : Said(type, s, box[s].id) \in Seq(Event)
  BY <1>1 DEF Said, Event
<1>3. DieIfUp(s) \in Seq(Event)
  BY <1>2 DEF DieIfUp
<1>4. DieIfUp(s) \o Said("start", s, box[s].id) \in Seq(Event)
  BY <1>2, <1>3
<1>5. ASSUME NEW new \in Seq(Event), Emit(new)
      PROVE  EventsOK'
  <2>1. CASE stream = "open"
    <3>1. events' = events \o new /\ Len(events) + Len(new) <= MaxEvents
      BY <1>5, <2>1 DEF Emit
    <3>2. events \o new \in Seq(Event) /\ Len(events \o new) = Len(events) + Len(new)
      BY DEF EventsOK
    <3> QED BY <3>1, <3>2 DEF EventsOK
  <2>2. CASE stream # "open"
    BY <1>5, <2>2 DEF Emit, EventsOK
  <2> QED BY <2>1, <2>2
<1> QED BY <1>2, <1>3, <1>4, <1>5

(* A request or a goroutine that moves on, and touches no other one.        *)
LEMMA RequestMoves ==
    ASSUME RequestsOK, NEW q \in Request, NEW r \in RequestType, RequestShape(r),
           req' = [req EXCEPT ![q] = r]
    PROVE  RequestsOK'
BY DEF RequestsOK

LEMMA GoroutineMoves ==
    ASSUME GoroutinesOK, NEW s \in Legacy,
           NEW g \in [pc : {"none", "create", "start", "final"}, port : MaybePort, id : MaybeCid],
           GoroutineShape(g),
           gor' = [gor EXCEPT ![s] = g]
    PROVE  GoroutinesOK'
BY DEF GoroutinesOK

LEMMA BoxMoves ==
    ASSUME BoxesOK, NEW s \in Legacy,
           NEW b \in [id : MaybeCid, port : MaybePort,
                      st : {"none", "created", "running", "restarting", "exited", "failed"}],
           BoxShape(b), box' = [box EXCEPT ![s] = b]
    PROVE  BoxesOK'
BY DEF BoxesOK

LEMMA BoxTurns ==
    ASSUME BoxesOK, NEW s \in Legacy, box[s] # NoBox,
           NEW st \in {"running", "restarting", "exited", "failed"},
           box' = [box EXCEPT ![s].st = st]
    PROVE  BoxesOK'
<1>1. box[s].id \in Cid /\ box[s].port \in Port
  BY DEF BoxesOK, BoxShape
<1>2. box' \in [Legacy -> [id : MaybeCid, port : MaybePort,
                          st : {"none", "created", "running", "restarting", "exited", "failed"}]]
  BY DEF BoxesOK
<1>3. /\ box'[s].id = box[s].id /\ box'[s].port = box[s].port /\ box'[s].st = st
      /\ \A t \in Legacy \ {s} : box'[t] = box[t]
  BY DEF BoxesOK
<1> QED
  BY <1>1, <1>2, <1>3 DEF BoxesOK, BoxShape

LEMMA Unmoved ==
    ASSUME HandsInv
    PROVE  /\ rows' = rows => RowsOK'
           /\ box' = box => BoxesOK'
           /\ gor' = gor => GoroutinesOK'
           /\ req' = req => RequestsOK'
           /\ events' = events => EventsOK'
           /\ Serving /\ stream' = stream => ProcessOK'
BY DEF HandsInv, RowsOK, PortsOnce, Present, BoxesOK, GoroutinesOK, RequestsOK, EventsOK, ProcessOK,
       NobodyBeforeServe, Serving

(* The pool of a process that serves is called, or is not.                  *)
LEMMA PoolMoves ==
    ASSUME PoolInv, Serving,
           \/ UNCHANGED Pool
           \/ \E s \in Session, p \in Port : AcquireFor(s, p)
           \/ \E p \in Port : Release(p)
           \/ \E s \in Session, p \in Port : ReleaseFor(p, s) \/ \E t \in Time : HoldPort(p, s, t)
    PROVE  PoolInv'
<1>1. [PoolNext]_poolVars
  BY DEF Serving, Pool, PoolNext, Serve, poolVars
<1> QED BY <1>1, PoolInvStep

(* A request that ends, or goes on to the next of its steps.                *)
LEMMA RequestGoes ==
    ASSUME RequestsOK, NEW q \in Request,
           \/ Finished(q)
           \/ req[q].op = "remove" /\ \E pc \in {"release", "write"} : Goto(q, pc) /\ req[q] # NoRequest
           \/ req[q].op \in {"stop", "reload"} /\ Goto(q, "write")
    PROVE  RequestsOK'
<1>1. CASE Finished(q)
  BY <1>1, NothingTyped, RequestMoves DEF Finished, RequestShape
<1>2. ASSUME NEW pc \in {"release", "write"}, Goto(q, pc), req[q].op \in {"remove", "stop", "reload"},
             req[q].op # "remove" => pc = "write"
      PROVE  RequestsOK'
  <2>1. /\ req' \in [Request -> RequestType]
        /\ \A r \in Request \ {q} : req'[r] = req[r]
        /\ req'[q].op = req[q].op /\ req'[q].s = req[q].s /\ req'[q].pc = pc
        /\ req'[q].port = req[q].port /\ req'[q].cid = req[q].cid /\ req'[q].status = req[q].status
    BY <1>2 DEF Goto, RequestsOK, RequestType
  <2>2. req[q] # NoRequest /\ RequestShape(req[q])
    BY <1>2, Nothing DEF RequestsOK
  <2>3. RequestShape(req'[q])
    BY <1>2, <2>1, <2>2 DEF RequestShape
  <2> QED BY <2>1, <2>3 DEF RequestsOK
<1> QED BY <1>1, <1>2

(* The steps of a request.                                                  *)
LEMMA BeginCreateHands ==
    ASSUME HandsInv, NEW q \in Request, NEW s \in Legacy, BeginCreate(q, s)
    PROVE  HandsInv'
<1> DEFINE r == [NoRequest EXCEPT !.op = "create", !.s = s, !.pc = "acquire"]
<1>1. r \in RequestType /\ RequestShape(r)
  BY DEF NoRequest, RequestType, RequestShape, Operation, MaybePort, MaybeCid, Status
<1>2. req' = [req EXCEPT ![q] = r]
  BY DEF BeginCreate
<1>3. RequestsOK'
  BY <1>1, <1>2, RequestMoves DEF HandsInv
<1> QED BY <1>3, Unmoved, PoolMoves DEF BeginCreate, HandsInv

LEMMA CreateHands ==
    ASSUME HandsInv, NEW q \in Request, AcquirePort(q) \/ InsertRow(q)
    PROVE  HandsInv'
<1> USE DEF HandsInv
<1>1. CASE AcquirePort(q)
  <2>1. req[q] # NoRequest /\ req[q].op = "create" /\ req[q].s \in Legacy
    BY <1>1, Nothing DEF AcquirePort, RequestsOK, RequestShape
  <2>2. ASSUME NEW p \in Port, AcquireFor(req[q].s, p),
               req' = [req EXCEPT ![q].pc = "insert", ![q].port = p]
        PROVE  RequestsOK' /\ PoolInv'
    <3>0. req \in [Request -> RequestType] /\ p \in MaybePort
      BY DEF RequestsOK, MaybePort
    <3>1. /\ req' \in [Request -> RequestType]
          /\ req'[q].op = "create" /\ req'[q].s = req[q].s /\ req'[q].pc = "insert" /\ req'[q].port = p
          /\ \A r \in Request \ {q} : req'[r] = req[r]
      BY <2>1, <2>2, <3>0 DEF RequestType
    <3>2. RequestShape(req'[q])
      BY <2>1, <3>1 DEF RequestShape
    <3>3. req[q].s \in Session
      BY <2>1, ContainersAssumption
    <3>4. PoolInv'
      BY <1>1, <2>2, <3>3, PoolMoves DEF AcquirePort
    <3> QED BY <3>1, <3>2, <3>4 DEF RequestsOK
  <2>3. RequestsOK' /\ PoolInv'
    BY <1>1, <2>2, RequestGoes, PoolMoves DEF AcquirePort
  <2> QED BY <1>1, <2>3, Unmoved DEF AcquirePort
<1>2. CASE InsertRow(q)
  <2>1. req[q].s \in Legacy /\ req[q].port \in Port
    BY <1>2, Nothing DEF InsertRow, RequestsOK, RequestShape
  <2>2. RowsOK'
    BY <1>2, <2>1, Unmoved, InsertTyped DEF InsertRow
  <2>3. GoroutinesOK'
    <3> DEFINE g == [pc |-> "create", port |-> req[q].port, id |-> NoCid]
    <3>1. /\ g \in [pc : {"none", "create", "start", "final"}, port : MaybePort, id : MaybeCid]
          /\ GoroutineShape(g)
      BY <2>1 DEF MaybePort, MaybeCid, GoroutineShape
    <3>2. CASE gor' = [gor EXCEPT ![req[q].s] = g]
      BY <2>1, <3>1, <3>2, GoroutineMoves
    <3> QED BY <1>2, <3>2, Unmoved DEF InsertRow
  <2>4. PoolInv'
    BY <1>2, <2>1, PoolMoves DEF InsertRow, GiveUp
  <2>5. RequestsOK'
    BY <1>2, RequestGoes DEF InsertRow
  <2> QED BY <1>2, <2>2, <2>3, <2>4, <2>5, Unmoved DEF InsertRow
<1> QED BY <1>1, <1>2

LEMMA BeginHands ==
    ASSUME HandsInv, NEW q \in Request, NEW s \in Legacy, NEW op \in Operation, Begin(q, s, op)
    PROVE  HandsInv'
<1> USE DEF HandsInv
<1> DEFINE r == [op |-> op, s |-> s, pc |-> "docker", port |-> rows[s].port,
                 cid |-> rows[s].cid, status |-> rows[s].status]
<1>1. rows[s].port \in Port /\ rows[s].status # "absent"
  BY Nothing DEF Begin, Present, RowsOK, RowShape
<1>2. r \in RequestType
  BY <1>1 DEF RowsOK, RequestType
<1>3. RequestShape(r)
  BY <1>1 DEF Begin, RequestShape, Operation, RowsOK, MaybeCid
<1>4. req' = [req EXCEPT ![q] = r]
  BY DEF Begin
<1>5. RequestsOK'
  BY <1>2, <1>3, <1>4, RequestMoves
<1> QED BY <1>5, Unmoved, PoolMoves DEF Begin

LEMMA DockerHands ==
    ASSUME HandsInv, NEW q \in Request,
           CallFails(q) \/ StopBox(q) \/ RestartBox(q) \/ RemoveBox(q) \/ InspectBox(q)
    PROVE  HandsInv'
<1> USE DEF HandsInv
<1>0. req[q].pc = "docker" /\ req[q] # NoRequest /\ req[q].s \in Legacy /\ req[q].op # "create"
  BY Nothing DEF CallFails, StopBox, RestartBox, RemoveBox, InspectBox, Calls, RequestsOK, RequestShape
<1>1. CASE CallFails(q)
  BY <1>1, RequestGoes, Unmoved, PoolMoves DEF CallFails
<1>2. CASE StopBox(q)
  <2>1. BoxesOK' /\ EventsOK'
    <3>1. CASE UNCHANGED <<box, events>>
      BY <3>1, Unmoved
    <3>2. CASE ~UNCHANGED <<box, events>>
      <4>1. /\ box[req[q].s].st \in {"running", "restarting"} /\ Emit(DieIfUp(req[q].s))
            /\ \E st \in {"exited", "failed"} : box' = [box EXCEPT ![req[q].s].st = st]
        BY <1>2, <3>2 DEF StopBox, Declined, NothingToDo
      <4>2. box[req[q].s] # NoBox
        BY <4>1, Nothing
      <4>3. BoxesOK'
        BY <1>0, <4>1, <4>2, BoxTurns
      <4> QED BY <1>0, <4>1, <4>2, <4>3, SaidTyped
    <3> QED BY <3>1, <3>2
  <2>2. RequestsOK'
    BY <1>2, RequestGoes DEF StopBox, Calls
  <2> QED BY <1>2, <2>1, <2>2, Unmoved, PoolMoves DEF StopBox, Calls
<1>3. CASE RestartBox(q)
  <2>1. BoxesOK' /\ EventsOK'
    <3>1. CASE UNCHANGED <<box, events>>
      BY <3>1, Unmoved
    <3>2. CASE ~UNCHANGED <<box, events>>
      <4>1. /\ Its(q) /\ box' = [box EXCEPT ![req[q].s].st = "running"]
            /\ Emit(DieIfUp(req[q].s) \o Said("start", req[q].s, box[req[q].s].id))
        BY <1>3, <3>2 DEF RestartBox, Declined
      <4>2. box[req[q].s] # NoBox
        BY <1>0, <1>3, <4>1, Nothing DEF RestartBox, Calls, Its, RequestsOK, RequestShape
      <4>3. BoxesOK'
        BY <1>0, <4>1, <4>2, BoxTurns
      <4> QED BY <1>0, <4>1, <4>2, <4>3, SaidTyped
    <3> QED BY <3>1, <3>2
  <2>2. RequestsOK'
    BY <1>3, RequestGoes DEF RestartBox, Calls
  <2> QED BY <1>3, <2>1, <2>2, Unmoved, PoolMoves DEF RestartBox, Calls
<1>4. CASE RemoveBox(q)
  <2>1. BoxesOK' /\ EventsOK'
    <3>1. CASE UNCHANGED <<box, events>>
      BY <3>1, Unmoved
    <3>2. CASE ~UNCHANGED <<box, events>>
      <4>1. /\ req[q].cid # NoCid /\ Its(q) /\ Emit(DieIfUp(req[q].s))
            /\ box' = [box EXCEPT ![req[q].s] = NoBox]
        BY <1>4, <3>2 DEF RemoveBox, Declined, NothingToDo
      <4>2. box[req[q].s] # NoBox
        BY <1>0, <4>1, Nothing DEF Its
      <4>3. BoxesOK'
        BY <1>0, <4>1, BoxMoves, NothingTyped DEF BoxShape
      <4> QED BY <1>0, <4>1, <4>2, <4>3, SaidTyped
    <3> QED BY <3>1, <3>2
  <2>2. RequestsOK'
    BY <1>0, <1>4, RequestGoes DEF RemoveBox, Calls
  <2> QED BY <1>4, <2>1, <2>2, Unmoved, PoolMoves DEF RemoveBox, Calls
<1>5. CASE InspectBox(q)
  <2> DEFINE live == Live(req[q].s, req[q].cid)
  <2>1. live \in Status \ {"absent"}
    BY DEF Live, Status
  <2> HIDE DEF live
  <2>2. CASE live = req[q].status
    <3>1. Finished(q)
      BY <1>5, <2>2 DEF InspectBox, Finished, live
    <3> QED BY <1>5, <3>1, RequestGoes, Unmoved, PoolMoves DEF InspectBox, Calls
  <2>3. CASE live # req[q].status
    <3>1. req' = [req EXCEPT ![q] = [@ EXCEPT !.pc = "write", !.status = live]]
      BY <1>5, <2>3 DEF InspectBox, live
    <3>2. /\ req' \in [Request -> RequestType]
          /\ \A r \in Request \ {q} : req'[r] = req[r]
          /\ req'[q].op = req[q].op /\ req'[q].s = req[q].s /\ req'[q].pc = "write"
          /\ req'[q].port = req[q].port /\ req'[q].cid = req[q].cid /\ req'[q].status = live
      BY <2>1, <3>1 DEF RequestsOK, RequestType
    <3>3. req[q].op = "get" /\ RequestShape(req[q])
      BY <1>5 DEF InspectBox, Calls, RequestsOK
    <3>4. RequestShape(req'[q])
      BY <1>0, <2>1, <3>2, <3>3 DEF RequestShape
    <3>5. RequestsOK'
      BY <3>2, <3>4 DEF RequestsOK
    <3> QED BY <1>5, <3>5, Unmoved, PoolMoves DEF InspectBox, Calls
  <2> QED BY <2>2, <2>3
<1> QED BY <1>1, <1>2, <1>3, <1>4, <1>5

LEMMA WriteHands ==
    ASSUME HandsInv, NEW q \in Request,
           ReleasePort(q) \/ DeleteRow(q) \/ MarkStopped(q) \/ MarkReloaded(q) \/ SyncRow(q)
    PROVE  HandsInv'
<1> USE DEF HandsInv
<1>0. req[q] # NoRequest /\ req[q].s \in Legacy
  BY Nothing DEF ReleasePort, DeleteRow, MarkStopped, MarkReloaded, SyncRow, Mark, Writes,
     RequestsOK, RequestShape
<1>1. CASE ReleasePort(q)
  <2>1. req[q].op = "remove" /\ req[q].port \in Port
    BY <1>0, <1>1 DEF ReleasePort, RequestsOK, RequestShape
  <2>2. RequestsOK' /\ PoolInv'
    BY <1>0, <1>1, <2>1, RequestGoes, PoolMoves DEF ReleasePort, GiveUp
  <2> QED BY <1>1, <2>2, Unmoved DEF ReleasePort
<1>2. CASE DeleteRow(q)
  <2>1. RowsOK' /\ RequestsOK'
    BY <1>0, <1>2, DeleteTyped, RequestGoes, Unmoved DEF DeleteRow
  <2> QED BY <1>2, <2>1, Unmoved, PoolMoves DEF DeleteRow, Writes
<1>3. ASSUME NEW op \in {"stop", "reload", "get"}, NEW st \in Status \ {"absent"}, Mark(q, op, st)
      PROVE  HandsInv'
  <2>1. req[q].cid \in MaybeCid
    BY DEF RequestsOK, RequestType
  <2>2. RowsOK' /\ RequestsOK'
    BY <1>0, <1>3, <2>1, UpdateTyped, RequestGoes DEF Mark
  <2> QED BY <1>3, <2>2, Unmoved, PoolMoves DEF Mark, Writes
<1>4. CASE SyncRow(q)
  <2>1. req[q].status \in Status \ {"absent"}
    BY <1>0, <1>4 DEF SyncRow, Mark, Writes, RequestsOK, RequestShape, RequestType
  <2> QED BY <1>3, <1>4, <2>1 DEF SyncRow
<1>5. CASE MarkStopped(q) \/ MarkReloaded(q)
  BY <1>3, <1>5 DEF MarkStopped, MarkReloaded, Status
<1> QED BY <1>1, <1>2, <1>4, <1>5

(* The steps of the goroutine of a creation.                                *)
LEMMA FailHands ==
    ASSUME HandsInv, NEW s \in Legacy, Fail(s)
    PROVE  RowsOK' /\ GoroutinesOK'
<1>1. RowsOK'
  BY UpdateTyped DEF HandsInv, Fail, Status, MaybeCid
<1>2. GoroutinesOK'
  BY GoroutineMoves, NothingTyped DEF HandsInv, Fail, GoroutineShape
<1> QED BY <1>1, <1>2

LEMMA WorkHands ==
    ASSUME HandsInv, NEW s \in Legacy, CreateBox(s) \/ StartBox(s) \/ RecordId(s)
    PROVE  HandsInv'
<1> USE DEF HandsInv
<1>0. GoroutineShape(gor[s]) /\ gor[s] # NoGoroutine
  BY Nothing DEF CreateBox, StartBox, RecordId, At, GoroutinesOK
<1>1. CASE CreateBox(s)
  <2>1. CASE Fail(s)
    BY <1>1, <2>1, FailHands, Unmoved, PoolMoves DEF CreateBox, At, Fail, Pool
  <2>2. ASSUME NEW c \in Cid, DockerCreate(s, c), UNCHANGED <<Pool, rows, events>>,
               gor' = [gor EXCEPT ![s] = [pc |-> "start", port |-> gor[s].port, id |-> c]]
        PROVE  HandsInv'
    <3>1. gor[s].port \in Port
      BY <1>0 DEF GoroutineShape
    <3>2. BoxesOK'
      BY <2>2, <3>1, BoxMoves DEF DockerCreate, BoxShape, MaybePort, MaybeCid
    <3>3. GoroutinesOK'
      BY <2>2, <3>1, GoroutineMoves DEF GoroutineShape, MaybePort, MaybeCid
    <3> QED BY <1>1, <2>2, <3>2, <3>3, Unmoved, PoolMoves DEF CreateBox, At
  <2> QED BY <1>1, <2>1, <2>2 DEF CreateBox
<1>2. CASE StartBox(s)
  <2>1. CASE Fail(s)
    BY <1>2, <2>1, FailHands, Unmoved, PoolMoves DEF StartBox, At, Fail, Pool
  <2>2. CASE /\ box[s].id = gor[s].id /\ DockerStart(s)
             /\ gor' = [gor EXCEPT ![s].pc = "final"] /\ UNCHANGED <<Pool, rows>>
    <3>1. gor[s].port \in Port /\ gor[s].id \in Cid
      BY <1>0, <1>2 DEF GoroutineShape, StartBox, At
    <3>2. box[s] # NoBox
      BY <2>2, <3>1, Nothing
    <3>3. BoxesOK' /\ EventsOK'
      BY <2>2, <3>2, BoxTurns, SaidTyped DEF DockerStart
    <3>4. /\ gor' \in [Legacy -> [pc : {"none", "create", "start", "final"}, port : MaybePort, id : MaybeCid]]
          /\ gor'[s].pc = "final" /\ gor'[s].port = gor[s].port /\ gor'[s].id = gor[s].id
          /\ \A t \in Legacy \ {s} : gor'[t] = gor[t]
      BY <2>2 DEF GoroutinesOK
    <3>5. GoroutinesOK'
      BY <3>1, <3>4 DEF GoroutinesOK, GoroutineShape
    <3> QED BY <1>2, <2>2, <3>3, <3>5, Unmoved, PoolMoves DEF StartBox, At
  <2> QED BY <1>2, <2>1, <2>2 DEF StartBox
<1>3. CASE RecordId(s)
  <2>1. RowsOK'
    BY <1>3, UpdateTyped DEF RecordId, Status, GoroutinesOK
  <2>2. GoroutinesOK'
    BY <1>3, GoroutineMoves, NothingTyped DEF RecordId, GoroutineShape
  <2> QED BY <1>3, <2>1, <2>2, Unmoved, PoolMoves DEF RecordId, At
<1> QED BY <1>1, <1>2, <1>3

(* What Docker and the stream of its events do.                             *)
LEMMA DockerMoves ==
    ASSUME HandsInv, NEW s \in Legacy, Exit(s) \/ Resume(s)
    PROVE  HandsInv'
<1> USE DEF HandsInv
<1>1. box[s] # NoBox
  BY Nothing DEF Exit, Resume
<1>2. BoxesOK'
  BY <1>1, BoxTurns DEF Exit, Resume, DockerStart
<1>3. EventsOK'
  BY <1>1, SaidTyped DEF Exit, Resume, DockerStart
<1>4. PoolInv' /\ ProcessOK'
  BY DEF Exit, Resume, poolVars, PoolInv, PoolTypeOK, UsedHeldDisjoint, InUse, IsHeld,
         NoHoldBeforeHolds, ProcessOK, NobodyBeforeServe
<1> QED BY <1>2, <1>3, <1>4, Unmoved DEF Exit, Resume

LEMMA WatchHands ==
    ASSUME HandsInv, BreakStream \/ HandleEvent \/ Reconnect
    PROVE  HandsInv'
<1> USE DEF HandsInv
<1>1. CASE BreakStream
  <2>1. PICK k \in 0..Len(events) : events' = SubSeq(events, 1, k)
    BY <1>1 DEF BreakStream
  <2>2. EventsOK'
    BY <2>1, Nothing DEF EventsOK
  <2>3. ProcessOK'
    BY <1>1, ContainersAssumption DEF BreakStream, ProcessOK, NobodyBeforeServe, Serving
  <2> QED BY <1>1, <2>2, <2>3, Unmoved, PoolMoves DEF BreakStream
<1>2. CASE HandleEvent
  <2>1. Head(events) \in Event /\ Tail(events) \in Seq(Event) /\ Len(Tail(events)) = Len(events) - 1
    BY <1>2 DEF HandleEvent, EventsOK
  <2>2. EventsOK'
    BY <1>2, <2>1, Nothing DEF HandleEvent, EventsOK
  <2>3. Head(events).s \in Legacy /\ Head(events).id \in MaybeCid
    BY <2>1 DEF Event, MaybeCid
  <2>4. RowsOK'
    BY <1>2, <2>3, UpdateTyped DEF HandleEvent, Status
  <2> QED BY <1>2, <2>2, <2>4, Unmoved, PoolMoves DEF HandleEvent
<1>3. CASE Reconnect
  <2>1. ProcessOK'
    BY <1>3 DEF Reconnect, ProcessOK, NobodyBeforeServe, Serving
  <2> QED BY <1>3, <2>1, Unmoved, PoolMoves DEF Reconnect
<1> QED BY <1>1, <1>2, <1>3

(* A crash, the recovery, and sessions launched elsewhere.                  *)
LEMMA ProcessHands ==
    ASSUME HandsInv, Crash \/ RecoverPorts \/ Elsewhere
    PROVE  HandsInv'
<1> USE DEF HandsInv
<1>1. CASE Crash
  <2>1. PoolInv'
    <3>1. [PoolNext]_poolVars
      BY <1>1 DEF Crash, PoolNext
    <3> QED BY <3>1, PoolInvStep
  <2>2. GoroutinesOK' /\ RequestsOK'
    BY <1>1, NothingTyped DEF Crash, GoroutinesOK, RequestsOK, GoroutineShape, RequestShape
  <2>3. EventsOK'
    BY <1>1, Nothing DEF Crash, EventsOK
  <2>4. ProcessOK'
    BY <1>1 DEF Crash, NewPool, ProcessOK, NobodyBeforeServe
  <2> QED BY <1>1, <2>1, <2>2, <2>3, <2>4, Unmoved DEF Crash
<1>2. CASE RecoverPorts
  <2>1. PoolInv'
    BY <1>2 DEF RecoverPorts, PoolInv, PoolTypeOK, UsedHeldDisjoint, InUse, IsHeld, NoHold, NoHoldBeforeHolds
  <2>2. ProcessOK'
    BY <1>2 DEF RecoverPorts, ProcessOK, NobodyBeforeServe
  <2> QED BY <1>2, <2>1, <2>2, Unmoved DEF RecoverPorts
<1>3. CASE Elsewhere
  <2>1. [PoolNext]_poolVars
    BY <1>3 DEF Elsewhere, Pool, PoolNext, Serve, poolVars
  <2>2. ProcessOK'
    BY <1>3 DEF Elsewhere, ProcessOK, NobodyBeforeServe
  <2> QED BY <1>3, <2>1, <2>2, PoolInvStep, Unmoved DEF Elsewhere
<1> QED BY <1>1, <1>2, <1>3

LEMMA HandsStep ==
    ASSUME HandsInv, [Next]_vars
    PROVE  HandsInv'
<1>1. CASE Ask
  BY <1>1, BeginCreateHands, CreateHands, BeginHands, DockerHands, WriteHands DEF Ask
<1>2. CASE Work
  BY <1>2, WorkHands DEF Work
<1>3. CASE Docker \/ Watch
  BY <1>3, DockerMoves, WatchHands DEF Docker, Watch
<1>4. CASE Elsewhere \/ Crash \/ RecoverPorts
  BY <1>4, ProcessHands
<1>5. CASE UNCHANGED vars
  <2>1. PoolInv' /\ ProcessOK'
    BY <1>5 DEF vars, poolVars, HandsInv, PoolInv, PoolTypeOK, UsedHeldDisjoint, InUse, IsHeld,
         NoHoldBeforeHolds, ProcessOK, NobodyBeforeServe
  <2> QED BY <1>5, <2>1, Unmoved DEF vars, HandsInv
<1> QED BY <1>1, <1>2, <1>3, <1>4, <1>5 DEF Next

LEMMA HandsInit == Init => HandsInv
<1> SUFFICES ASSUME Init PROVE HandsInv
  OBVIOUS
<1>1. PoolInv
  BY DEF Init, PoolInv, PoolTypeOK, UsedHeldDisjoint, InUse, IsHeld, NoHold, NoHoldBeforeHolds
<1>2. RowsOK
  BY NothingTyped, Nothing DEF Init, RowsOK, PortsOnce, Present, RowShape
<1>3. BoxesOK /\ GoroutinesOK /\ RequestsOK
  BY NothingTyped DEF Init, BoxesOK, BoxShape, GoroutinesOK, GoroutineShape, RequestsOK, RequestShape
<1>4. EventsOK
  BY Nothing DEF Init, EventsOK
<1>5. ProcessOK
  BY ContainersAssumption DEF Init, ProcessOK, NobodyBeforeServe
<1> QED BY <1>1, <1>2, <1>3, <1>4, <1>5 DEF HandsInv

(* A step remembers at most the session it works on.                        *)
LEMMA RecordsStep ==
    ASSUME HandsInv, RecordsOK, [Next]_vars
    PROVE  RecordsOK'
<1>1. CASE Ask
  <2>1. PICK q \in Request :
          \/ AcquirePort(q) \/ InsertRow(q) \/ CallFails(q)
          \/ StopBox(q) \/ RestartBox(q) \/ RemoveBox(q) \/ InspectBox(q)
          \/ ReleasePort(q) \/ DeleteRow(q) \/ MarkStopped(q) \/ MarkReloaded(q) \/ SyncRow(q)
          \/ \E s \in Legacy : BeginCreate(q, s) \/ \E op \in Operation : Begin(q, s, op)
    BY <1>1 DEF Ask
  <2>2. CASE \E s \in Legacy : BeginCreate(q, s) \/ \E op \in Operation : Begin(q, s, op)
    BY <2>2 DEF BeginCreate, Begin, Serving, RecordsOK
  <2>3. CASE AcquirePort(q) \/ CallFails(q) \/ InspectBox(q)
    BY <2>3 DEF AcquirePort, CallFails, InspectBox, Calls, Serving, RecordsOK
  <2>4. CASE InsertRow(q) \/ ReleasePort(q)
    BY <2>4 DEF InsertRow, ReleasePort, GiveUp, Serving, RecordsOK
  <2>5. ASSUME StopBox(q) \/ RestartBox(q) \/ RemoveBox(q) \/ DeleteRow(q)
               \/ MarkStopped(q) \/ MarkReloaded(q) \/ SyncRow(q)
        PROVE  RecordsOK'
    <3>1. req[q].s \in Legacy
      BY <2>5, Nothing DEF StopBox, RestartBox, RemoveBox, DeleteRow, MarkStopped, MarkReloaded, SyncRow,
         Mark, Calls, Writes, HandsInv, RequestsOK, RequestShape
    <3>2. runsOn' = runsOn
      BY <2>5 DEF StopBox, RestartBox, RemoveBox, DeleteRow, MarkStopped, MarkReloaded, SyncRow, Mark,
         Calls, Writes, Serving
    <3>3. refused' \subseteq refused \cup {req[q].s} /\ dispossessed' \subseteq dispossessed \cup {req[q].s}
      BY <2>5 DEF StopBox, RestartBox, RemoveBox, DeleteRow, MarkStopped, MarkReloaded, SyncRow, Mark,
         UpdateStatus, Declined, NothingToDo, Refused
    <3> QED BY <3>1, <3>2, <3>3 DEF RecordsOK
  <2> QED BY <2>1, <2>2, <2>3, <2>4, <2>5
<1>2. CASE Work
  BY <1>2 DEF Work, CreateBox, StartBox, RecordId, Fail, UpdateStatus, Refused, At, Serving, RecordsOK
<1>3. CASE HandleEvent
  <2>1. Head(events) \in Event
    BY <1>3 DEF HandleEvent, HandsInv, EventsOK
  <2>2. Head(events).s \in Legacy
    BY <2>1 DEF Event
  <2> QED BY <1>3, <2>2 DEF HandleEvent, UpdateStatus, Refused, Serving, RecordsOK
<1>4. CASE Docker \/ Reconnect \/ Crash \/ RecoverPorts \/ UNCHANGED vars
  BY <1>4 DEF Docker, BreakStream, Exit, Resume, Reconnect, Crash, RecoverPorts, vars, Serving,
     RecordsOK
<1>5. CASE Elsewhere
  BY <1>5 DEF Elsewhere, RecordsOK
<1> QED BY <1>1, <1>2, <1>3, <1>4, <1>5 DEF Next, Watch

(* Everything the legacy containers keep is well typed, whatever meets and  *)
(* whatever fails: rows, containers, requests, events, and the pool.        *)
THEOREM ContainersTypeCorrect == Spec => []TypeOK
<1>1. Init => HandsInv /\ RecordsOK
  BY HandsInit, ContainersAssumption DEF Init, RecordsOK, MaybePort
<1>2. HandsInv /\ RecordsOK /\ [Next]_vars => HandsInv' /\ RecordsOK'
  BY HandsStep, RecordsStep
<1> QED BY <1>1, <1>2, HandsTyped, PTL DEF Spec
-----------------------------------------------------------------------------
(* While no two requests meet on a session: one request at most works on it, *)
(* a port in use for it is on record or in the hands of a creation, and the  *)
(* port on record is in use for it until a removal has given it up, unless   *)
(* it was given up all the same.                                             *)
AtWrite(q, op) == req[q].op = op /\ req[q].pc = "write"

OneRequest ==
    \A q, r \in Request : req[q] # NoRequest /\ req[q].s = req[r].s => q = r

RowsOwn == \A s \in Legacy \ dispossessed : Present(s) /\ ~Removing(s) => used[rows[s].port] = s

UsedKnown == \A s \in Legacy, p \in Port : used[p] = s => rows[s].port = p \/ Creating(s, p)

RequestOwns(q) ==
    LET s == req[q].s IN
    /\ req[q].op = "create" => ~Present(s)
    /\ req[q].op = "create" /\ req[q].pc = "insert" /\ s \notin dispossessed
           => used[req[q].port] = s
    /\ req[q].op = "remove" => Present(s) /\ rows[s].port = req[q].port
    /\ AtWrite(q, "remove") => \A p \in Port : used[p] # s

Owned == RowsOwn /\ UsedKnown /\ \A q \in Request : RequestOwns(q)

OwnInv ==
    /\ HandsInv
    /\ Apart => OneRequest /\ (phase = "serve" => Owned)


(* A request keeps its session until it ends, and begins alone.              *)
LEMMA RequestSession ==
    ASSUME HandsInv, NEW q \in Request, req[q] # NoRequest,
           CallFails(q) \/ StopBox(q) \/ RestartBox(q) \/ RemoveBox(q) \/ InspectBox(q)
           \/ AcquirePort(q) \/ InsertRow(q)
           \/ ReleasePort(q) \/ DeleteRow(q) \/ MarkStopped(q) \/ MarkReloaded(q) \/ SyncRow(q)
    PROVE  /\ \A r \in Request \ {q} : req'[r] = req[r]
           /\ req'[q] = NoRequest \/ (req'[q].s = req[q].s /\ req'[q].op = req[q].op)
<1> USE DEF HandsInv, RequestsOK, RequestType
<1>1. CASE Finished(q) \/ \E pc \in {"release", "write"} : Goto(q, pc)
  BY <1>1 DEF Finished, Goto
<1>2. CASE AcquirePort(q)
  BY <1>2, <1>1 DEF AcquirePort
<1>3. CASE InspectBox(q)
  <2> DEFINE live == Live(req[q].s, req[q].cid)
  <2>1. req' = [req EXCEPT ![q] = IF live = req[q].status THEN NoRequest
                                 ELSE [@ EXCEPT !.pc = "write", !.status = live]]
    BY <1>3 DEF InspectBox
  <2> HIDE DEF live
  <2> QED BY <2>1
<1> QED
  BY <1>1, <1>2, <1>3 DEF CallFails, StopBox, RestartBox, RemoveBox, InsertRow, ReleasePort, DeleteRow,
     MarkStopped, MarkReloaded, SyncRow, Mark

LEMMA OneRequestStep ==
    ASSUME HandsInv, OneRequest, Apart, [Next]_vars
    PROVE  OneRequest'
<1>1. ASSUME NEW q \in Request, NEW s \in Legacy, req[q] = NoRequest, ~RequestOn(s),
             NEW r, r.s = s, req' = [req EXCEPT ![q] = r]
      PROVE  OneRequest'
  BY <1>1, Nothing DEF OneRequest, RequestOn, HandsInv, RequestsOK
<1>2. ASSUME NEW q \in Request, NEW s \in Legacy, BeginCreate(q, s)
      PROVE  OneRequest'
  <2> DEFINE r == [NoRequest EXCEPT !.op = "create", !.s = s, !.pc = "acquire"]
  <2>1. r.s = s
    BY DEF NoRequest
  <2> QED BY <1>1, <1>2, <2>1 DEF BeginCreate, Apart
<1>3. ASSUME NEW q \in Request, NEW s \in Legacy, NEW op \in Operation, Begin(q, s, op)
      PROVE  OneRequest'
  <2> DEFINE r == [op |-> op, s |-> s, pc |-> "docker", port |-> rows[s].port,
                   cid |-> rows[s].cid, status |-> rows[s].status]
  <2>1. r.s = s
    OBVIOUS
  <2> QED BY <1>1, <1>3, <2>1 DEF Begin, Apart
<1>4. ASSUME NEW q \in Request,
             CallFails(q) \/ StopBox(q) \/ RestartBox(q) \/ RemoveBox(q) \/ InspectBox(q)
             \/ AcquirePort(q) \/ InsertRow(q)
             \/ ReleasePort(q) \/ DeleteRow(q) \/ MarkStopped(q) \/ MarkReloaded(q) \/ SyncRow(q)
      PROVE  OneRequest'
  <2>1. req[q] # NoRequest
    BY <1>4, Nothing DEF CallFails, StopBox, RestartBox, RemoveBox, InspectBox, AcquirePort, InsertRow,
       ReleasePort, DeleteRow, MarkStopped, MarkReloaded, SyncRow, Mark, Calls, Writes
  <2>2. /\ \A r \in Request \ {q} : req'[r] = req[r]
        /\ req'[q] = NoRequest \/ req'[q].s = req[q].s
    BY <1>4, <2>1, RequestSession
  <2>3. \A r \in Request : req[r].s = NoSession => req[r] = NoRequest
    BY Nothing DEF HandsInv, RequestsOK, RequestShape
  <2> QED BY <2>1, <2>2, <2>3, Nothing DEF OneRequest
<1>5. CASE Ask
  BY <1>2, <1>3, <1>4, <1>5 DEF Ask
<1>6. CASE Crash
  BY <1>6 DEF Crash, OneRequest
<1>7. CASE ~Ask /\ ~Crash
  <2>1. req' = req
    BY <1>7 DEF Next, Work, Docker, Watch, CreateBox, StartBox, RecordId, Exit, Resume, HandleEvent,
       BreakStream, Reconnect, Elsewhere, RecoverPorts, vars
  <2> QED BY <2>1 DEF OneRequest
<1> QED BY <1>5, <1>6, <1>7

(* AcquireFor takes a port nobody uses: a hold is never in use.              *)
LEMMA AcquireUsed ==
    ASSUME HandsInv, NEW s \in Session, NEW p \in Port, AcquireFor(s, p)
    PROVE  used[p] = NoSession /\ used'[p] = s /\ \A x \in Port \ {p} : used'[x] = used[x]
<1>1. used' = [used EXCEPT ![p] = s]
  BY DEF AcquireFor, TakeOwnHold, TakeLowestFree, EvictOldestHold
<1>2. used[p] = NoSession
  <2>1. IsHeld(p) \/ Free(p)
    BY SessionAssumption DEF AcquireFor, TakeOwnHold, TakeLowestFree, EvictOldestHold, HeldBy, IsHeld
  <2> QED BY <2>1 DEF Free, InUse, HandsInv, PoolInv, UsedHeldDisjoint
<1> QED BY <1>1, <1>2 DEF HandsInv, PoolInv, PoolTypeOK

(* A step that moves no port: no row comes or goes, and requests are at most *)
(* begun or moved on.                                                        *)
PortsStill ==
    /\ \A s \in Legacy : (Present(s)' <=> Present(s)) /\ rows'[s].port = rows[s].port
    /\ \A s \in Legacy, p \in Port : used'[p] = s <=> used[p] = s
    /\ dispossessed' = dispossessed

RequestStill(q) ==
    \/ req'[q] = req[q]
    \/ /\ req[q].op # "create" /\ ~AtWrite(q, "remove")
       /\ \/ req'[q] = NoRequest
          \/ req'[q].op \in {"stop", "reload", "get"}
          \/ /\ req'[q].op = "remove" /\ req'[q].pc \in {"docker", "release"}
             /\ req'[q].s \in Legacy /\ Present(req'[q].s) /\ rows[req'[q].s].port = req'[q].port

LEMMA StillOwned ==
    ASSUME HandsInv, HandsInv', Owned, PortsStill, \A q \in Request : RequestStill(q)
    PROVE  Owned'
<1>1. \A s \in Legacy : Removing(s)' <=> Removing(s)
  BY Nothing DEF Removing, RequestStill, AtWrite
<1>2. \A s \in Legacy, p \in Port : Creating(s, p)' <=> Creating(s, p)
  BY Nothing DEF Creating, RequestStill, AtWrite
<1>3. \A s \in Legacy : Present(s) => rows[s].port \in Port
  BY Nothing DEF HandsInv, RowsOK, RowShape, Present
<1>4. RowsOwn'
  BY <1>1, <1>3 DEF Owned, RowsOwn, PortsStill
<1>5. UsedKnown'
  BY <1>2 DEF Owned, UsedKnown, PortsStill
<1>6. ASSUME NEW q \in Request
      PROVE  RequestOwns(q)'
  <2>0. req[q] = NoRequest \/ (req[q].s \in Legacy /\ (req[q].op = "create" /\ req[q].pc = "insert" => req[q].port \in Port))
    BY DEF HandsInv, RequestsOK, RequestShape
  <2>1. CASE req'[q] = req[q]
    BY <2>0, <2>1, Nothing DEF Owned, RequestOwns, PortsStill, AtWrite
  <2>2. CASE req'[q] # req[q]
    BY <2>2, Nothing DEF RequestStill, RequestOwns, PortsStill, AtWrite
  <2> QED BY <2>1, <2>2
<1> QED BY <1>4, <1>5, <1>6 DEF Owned

(* Rows that keep their port, requests that begin or move on.                *)
LEMMA UpdateStill ==
    ASSUME RowsOK, NEW s \in Legacy, NEW st \in Status \ {"absent"}, NEW c, UpdateStatus(s, st, c)
    PROVE  \A t \in Legacy : (Present(t)' <=> Present(t)) /\ rows'[t].port = rows[t].port
BY DEF RowsOK, UpdateStatus, Present

LEMMA OneMoves ==
    ASSUME HandsInv, NEW q \in Request, req[q] # NoRequest, req[q].op # "create",
           ~AtWrite(q, "remove"), RequestOwns(q),
           CallFails(q) \/ StopBox(q) \/ RestartBox(q) \/ RemoveBox(q) \/ InspectBox(q)
           \/ MarkStopped(q) \/ MarkReloaded(q) \/ SyncRow(q)
    PROVE  \A r \in Request : RequestStill(r)
<1>1. \A r \in Request \ {q} : RequestStill(r)
  BY RequestSession DEF RequestStill
<1>2. /\ req[q].s \in Legacy /\ req[q].op \in {"stop", "reload", "get", "remove"}
      /\ req[q].op = "remove" => Present(req[q].s) /\ rows[req[q].s].port = req[q].port
  BY DEF HandsInv, RequestsOK, RequestShape, RequestOwns
<1>3. CASE req[q].op # "remove"
  BY <1>2, <1>3, RequestSession DEF RequestStill
<1>4. CASE req[q].op = "remove"
  <2>1. CallFails(q) \/ RemoveBox(q)
    BY <1>4 DEF StopBox, RestartBox, InspectBox, MarkStopped, MarkReloaded, SyncRow, Mark, Calls, Writes
  <2>2. CASE CallFails(q)
    BY <2>2 DEF CallFails, Finished, RequestStill, HandsInv, RequestsOK
  <2>3. CASE RemoveBox(q)
    <3>1. /\ req'[q].op = "remove" /\ req'[q].pc = "release"
          /\ req'[q].s = req[q].s /\ req'[q].port = req[q].port
      BY <1>4, <2>3 DEF RemoveBox, Goto, HandsInv, RequestsOK, RequestType
    <3> QED BY <1>1, <1>2, <1>4, <3>1 DEF RequestStill, Present
  <2> QED BY <2>1, <2>2, <2>3
<1> QED BY <1>1, <1>3, <1>4

LEMMA RequestOwned ==
    ASSUME HandsInv, HandsInv', Owned, NEW q \in Request,
           CallFails(q) \/ StopBox(q) \/ RestartBox(q) \/ RemoveBox(q) \/ InspectBox(q)
           \/ MarkStopped(q) \/ MarkReloaded(q) \/ SyncRow(q)
    PROVE  Owned'
<1>1. /\ req[q] # NoRequest /\ req[q].s \in Legacy /\ req[q].op # "create"
      /\ ~AtWrite(q, "remove")
  BY Nothing DEF CallFails, StopBox, RestartBox, RemoveBox, InspectBox, MarkStopped, MarkReloaded, SyncRow,
     Mark, Calls, Writes, HandsInv, RequestsOK, RequestShape, AtWrite
<1>2. \A r \in Request : RequestStill(r)
  BY <1>1, OneMoves DEF Owned
<1>3. ASSUME NEW op, NEW st \in Status \ {"absent"}, Mark(q, op, st)
      PROVE  PortsStill
  BY <1>1, <1>3, UpdateStill DEF Mark, HandsInv, PortsStill, Pool
<1>4. CASE SyncRow(q)
  <2>1. req[q].status \in Status \ {"absent"}
    BY <1>1, <1>4 DEF SyncRow, Mark, Writes, HandsInv, RequestsOK, RequestShape, RequestType
  <2> QED BY <1>2, <1>3, <1>4, <2>1, StillOwned DEF SyncRow
<1>5. CASE MarkStopped(q) \/ MarkReloaded(q)
  BY <1>2, <1>3, <1>5, StillOwned DEF MarkStopped, MarkReloaded, Status
<1>6. CASE CallFails(q) \/ StopBox(q) \/ RestartBox(q) \/ RemoveBox(q) \/ InspectBox(q)
  <2>1. PortsStill
    BY <1>6 DEF CallFails, StopBox, RestartBox, RemoveBox, InspectBox, PortsStill, Present, Pool
  <2> QED BY <1>2, <2>1, StillOwned
<1> QED BY <1>4, <1>5, <1>6

LEMMA BeginOwned ==
    ASSUME HandsInv, HandsInv', Owned, NEW q \in Request, NEW s \in Legacy, NEW op \in Operation,
           Begin(q, s, op)
    PROVE  Owned'
<1>1. req' = [req EXCEPT ![q] = [op |-> op, s |-> s, pc |-> "docker", port |-> rows[s].port,
                                 cid |-> rows[s].cid, status |-> rows[s].status]]
  BY DEF Begin
<1>2. /\ req'[q].op = op /\ req'[q].s = s /\ req'[q].pc = "docker" /\ req'[q].port = rows[s].port
      /\ \A r \in Request \ {q} : req'[r] = req[r]
  BY <1>1 DEF HandsInv, RequestsOK
<1>3. op \in {"stop", "reload", "remove", "get"} /\ Present(s) /\ req[q] = NoRequest
  BY DEF Begin, Operation
<1>4. \A r \in Request : RequestStill(r)
  BY <1>2, <1>3, Nothing DEF RequestStill, AtWrite
<1>5. PortsStill
  BY DEF Begin, PortsStill, Present, Pool
<1> QED BY <1>4, <1>5, StillOwned

(* The goroutine, Docker and the handler of events move no port.            *)
LEMMA OthersOwned ==
    ASSUME HandsInv, HandsInv', Owned, Work \/ Docker \/ Watch \/ Elsewhere \/ UNCHANGED vars
    PROVE  Owned'
<1>1. \A q \in Request : RequestStill(q)
  BY DEF Work, Docker, Watch, CreateBox, StartBox, RecordId, Exit, Resume, HandleEvent, BreakStream,
     Reconnect, Elsewhere, vars, RequestStill
<1>2. ASSUME NEW s \in Legacy, Fail(s)
      PROVE  PortsStill
  BY <1>2, UpdateStill DEF Fail, HandsInv, Status, PortsStill
<1>3. ASSUME NEW s \in Legacy, RecordId(s)
      PROVE  PortsStill
  BY <1>3, UpdateStill DEF RecordId, HandsInv, Status, PortsStill, Pool
<1>4. CASE HandleEvent
  <2>1. Head(events).s \in Legacy
    <3>1. Head(events) \in Event
      BY <1>4 DEF HandleEvent, HandsInv, EventsOK
    <3> QED BY <3>1 DEF Event
  <2>2. PortsStill
    BY <1>4, <2>1, UpdateStill DEF HandleEvent, HandsInv, Status, PortsStill, Pool
  <2> QED BY <1>1, <2>2, StillOwned
<1>5. CASE Work
  <2>1. PortsStill
    BY <1>2, <1>3, <1>5 DEF Work, CreateBox, StartBox, PortsStill, Present, Pool
  <2> QED BY <1>1, <2>1, StillOwned
<1>6. CASE Docker \/ Reconnect \/ UNCHANGED vars
  <2>1. PortsStill
    BY <1>6 DEF Docker, BreakStream, Exit, Resume, Reconnect, PortsStill, Present, Pool, vars, poolVars
  <2> QED BY <1>1, <2>1, StillOwned
<1>7. CASE Elsewhere
  <2>0. CASE UNCHANGED Pool
    BY <1>1, <1>7, <2>0, StillOwned DEF Elsewhere, PortsStill, Present, Pool
  <2> SUFFICES ASSUME ~UNCHANGED Pool
               PROVE  Owned'
    BY <2>0
  <2>1. PICK s \in Session \ Legacy, p \in Port :
          AcquireFor(s, p) \/ ReleaseFor(p, s) \/ \E t \in Time : used[p] = s /\ HoldPort(p, s, t)
    BY <1>7 DEF Elsewhere
  <2>2. /\ \A x \in Port \ {p} : used'[x] = used[x]
        /\ used[p] \notin Legacy /\ used'[p] \notin Legacy
    <3>1. CASE AcquireFor(s, p)
      BY <2>1, <3>1, AcquireUsed, Nothing
    <3>2. CASE used[p] = s /\ used' = [used EXCEPT ![p] = NoSession]
      BY <2>1, <3>2, Nothing DEF HandsInv, PoolInv, PoolTypeOK
    <3> QED BY <2>1, <3>1, <3>2 DEF ReleaseFor, Owns, HoldPort
  <2>3. PortsStill
    BY <1>7, <2>2 DEF Elsewhere, PortsStill, Present
  <2> QED BY <1>1, <2>3, StillOwned
<1> QED BY <1>4, <1>5, <1>6, <1>7 DEF Watch

(* A creation takes a port, and gives it to the row or back.                *)
LEMMA BeginCreateOwned ==
    ASSUME HandsInv, Owned, NEW q \in Request, NEW s \in Legacy, BeginCreate(q, s)
    PROVE  Owned'
<1>1. /\ req'[q].op = "create" /\ req'[q].s = s /\ req'[q].pc = "acquire" /\ req'[q].port = NoPort
      /\ \A r \in Request \ {q} : req'[r] = req[r]
  BY DEF BeginCreate, NoRequest, HandsInv, RequestsOK
<1>2. /\ req[q] = NoRequest /\ ~Present(s)
      /\ rows' = rows /\ used' = used /\ dispossessed' = dispossessed
  BY DEF BeginCreate, Pool
<1>3. \A t \in Legacy : Removing(t)' <=> Removing(t)
  BY <1>1, <1>2, Nothing DEF Removing
<1>4. \A t \in Legacy, p \in Port : Creating(t, p)' <=> Creating(t, p)
  BY <1>1, <1>2, Nothing DEF Creating
<1>5. RowsOwn' /\ UsedKnown'
  BY <1>2, <1>3, <1>4 DEF Owned, RowsOwn, UsedKnown, Present
<1>6. \A r \in Request : RequestOwns(r)'
  BY <1>1, <1>2 DEF Owned, RequestOwns, Present, AtWrite
<1> QED BY <1>5, <1>6 DEF Owned

LEMMA AcquireOwned ==
    ASSUME HandsInv, Owned, OneRequest, NEW q \in Request, AcquirePort(q)
    PROVE  Owned'
<1>1. /\ req[q] # NoRequest /\ req[q].op = "create" /\ req[q].pc = "acquire"
      /\ req[q].port = NoPort /\ req[q].s \in Legacy
  BY Nothing DEF AcquirePort, HandsInv, RequestsOK, RequestShape
<1>2. rows' = rows
  BY DEF AcquirePort
<1>3. CASE Finished(q) /\ UNCHANGED <<Pool, dispossessed>>
  <2>1. req'[q] = NoRequest /\ (\A r \in Request \ {q} : req'[r] = req[r]) /\ used' = used
    BY <1>3 DEF Finished, Pool, HandsInv, RequestsOK
  <2>2. \A t \in Legacy : Removing(t)' <=> Removing(t)
    BY <1>1, <2>1, Nothing DEF Removing
  <2>3. \A t \in Legacy, p \in Port : Creating(t, p)' <=> Creating(t, p)
    BY <1>1, <2>1, Nothing DEF Creating
  <2>4. RowsOwn' /\ UsedKnown'
    BY <1>2, <1>3, <2>1, <2>2, <2>3 DEF Owned, RowsOwn, UsedKnown, Present
  <2>5. \A r \in Request : RequestOwns(r)'
    BY <1>2, <1>3, <2>1, Nothing DEF Owned, RequestOwns, Present, AtWrite
  <2> QED BY <2>4, <2>5 DEF Owned
<1>4. ASSUME NEW p \in Port, AcquireFor(req[q].s, p),
             req' = [req EXCEPT ![q].pc = "insert", ![q].port = p],
             dispossessed' = dispossessed \ {req[q].s}
      PROVE  Owned'
  <2>0. PICK s \in Legacy : s = req[q].s
    BY <1>1
  <2>1. /\ req'[q].op = "create" /\ req'[q].s = s /\ req'[q].pc = "insert" /\ req'[q].port = p
        /\ \A r \in Request \ {q} : req'[r] = req[r]
    BY <1>1, <1>4, <2>0 DEF HandsInv, RequestsOK, RequestType
  <2>2. s \in Session
    BY ContainersAssumption
  <2>3. used[p] = NoSession /\ used'[p] = s /\ \A x \in Port \ {p} : used'[x] = used[x]
    BY <1>4, <2>0, <2>2, AcquireUsed
  <2>4. \A t \in Legacy : Removing(t)' <=> Removing(t)
    BY <1>1, <2>1, Nothing DEF Removing
  <2>5. \A t \in Legacy, x \in Port : Creating(t, x) => Creating(t, x)'
    BY <1>1, <2>1, Nothing DEF Creating
  <2>6. Creating(s, p)'
    BY <2>1 DEF Creating
  <2>7. \A t \in Legacy : Present(t) => rows[t].port \in Port
    BY Nothing DEF HandsInv, RowsOK, RowShape, Present
  <2>8. RowsOwn'
    <3>1. ~Present(s)
      BY <1>1, <2>0 DEF Owned, RequestOwns
    <3> QED BY <1>2, <1>4, <2>0, <2>3, <2>4, <2>7, <3>1, Nothing DEF Owned, RowsOwn, Present
  <2>9. UsedKnown'
    BY <1>2, <2>3, <2>5, <2>6 DEF Owned, UsedKnown
  <2>10. ASSUME NEW r \in Request
         PROVE  RequestOwns(r)'
    <3>1. CASE r = q
      BY <1>1, <1>2, <2>0, <2>1, <2>3, <3>1 DEF Owned, RequestOwns, Present, AtWrite
    <3>2. CASE r # q
      <4>1. RequestOwns(r) /\ RequestShape(req[r]) /\ (req[r] # NoRequest => req[r].s # s)
        BY <1>1, <2>0, <3>2 DEF Owned, OneRequest, HandsInv, RequestsOK
      <4>2. req'[r] = req[r]
        BY <2>1, <3>2
      <4>3. req[r].op = "create" /\ req[r].pc = "insert" => req[r].port \in Port /\ req[r].s \in Legacy
        BY <4>1, Nothing DEF RequestShape
      <4>4. req[r].op = "remove" => req[r] # NoRequest
        BY Nothing
      <4>5. dispossessed' = dispossessed \ {s}
        BY <1>4, <2>0
      <4>6. req[r].op = "create" /\ req[r].pc = "insert" /\ req[r].s \notin dispossessed'
              => used'[req[r].port] = req[r].s
        BY <2>3, <4>1, <4>3, <4>5, Nothing DEF RequestOwns
      <4>7. AtWrite(r, "remove") => \A x \in Port : used'[x] # req[r].s
        BY <2>3, <4>1, <4>4 DEF RequestOwns, AtWrite
      <4> QED BY <1>2, <4>1, <4>2, <4>6, <4>7 DEF RequestOwns, Present, AtWrite
    <3> QED BY <3>1, <3>2
  <2> QED BY <2>8, <2>9, <2>10 DEF Owned
<1> QED BY <1>3, <1>4 DEF AcquirePort

LEMMA InsertOwned ==
    ASSUME HandsInv, Owned, OneRequest, NEW q \in Request, InsertRow(q)
    PROVE  Owned'
<1>0. /\ req[q] # NoRequest /\ req[q].op = "create" /\ req[q].pc = "insert"
      /\ req[q].port \in Port /\ req[q].s \in Legacy
  BY Nothing DEF InsertRow, HandsInv, RequestsOK, RequestShape
<1>00. PICK s \in Legacy, p \in Port : s = req[q].s /\ p = req[q].port
  BY <1>0
<1>1. /\ req[q] # NoRequest /\ req[q].op = "create" /\ req[q].pc = "insert"
      /\ p = req[q].port /\ s = req[q].s
  BY <1>0, <1>00
<1>2. ~Present(s) /\ (s \notin dispossessed => used[p] = s) /\ rows[s].port = NoPort
  BY <1>1, Nothing DEF Owned, RequestOwns, HandsInv, RowsOK, RowShape, Present
<1>3. req'[q] = NoRequest /\ \A r \in Request \ {q} : req'[r] = req[r]
  BY DEF InsertRow, Finished, HandsInv, RequestsOK
<1>4. \A r \in Request \ {q} : req[r].s # s
  BY <1>1 DEF OneRequest
<1>5. \A t \in Legacy : Removing(t)' <=> Removing(t)
  BY <1>1, <1>3, Nothing DEF Removing
<1>6. \A t \in Legacy \ {s}, x \in Port : Creating(t, x)' <=> Creating(t, x)
  BY <1>1, <1>3, Nothing DEF Creating
<1>7. \A x \in Port : used[x] = s => x = p
  BY <1>1, <1>2, <1>4, Nothing DEF Owned, UsedKnown, Creating
<1>8. CASE /\ CanInsert(s, p) /\ UNCHANGED <<Pool, dispossessed>>
           /\ rows' = [rows EXCEPT ![s] = [status |-> "starting", port |-> p, cid |-> NoCid]]
  <2>1. /\ rows'[s].port = p /\ Present(s)' /\ used' = used
        /\ \A t \in Legacy \ {s} : rows'[t] = rows[t] /\ (Present(t)' <=> Present(t))
    BY <1>1, <1>8 DEF HandsInv, RowsOK, Present, Pool
  <2>2. RowsOwn'
    BY <1>2, <1>5, <1>8, <2>1 DEF Owned, RowsOwn
  <2>3. UsedKnown'
    BY <1>6, <1>7, <2>1 DEF Owned, UsedKnown
  <2>4. ASSUME NEW r \in Request
        PROVE  RequestOwns(r)'
    <3>1. CASE r = q
      BY <1>3, <3>1, Nothing DEF RequestOwns, AtWrite
    <3>2. CASE r # q
      <4>1. RequestOwns(r) /\ req'[r] = req[r] /\ req[r].s # s
        BY <1>3, <1>4, <3>2 DEF Owned
      <4>2. req[r].op \in {"create", "remove"} => req[r].s \in Legacy
        BY Nothing DEF HandsInv, RequestsOK, RequestShape
      <4> QED BY <1>8, <2>1, <4>1, <4>2 DEF RequestOwns, AtWrite
    <3> QED BY <3>1, <3>2
  <2> QED BY <2>2, <2>3, <2>4 DEF Owned
<1>9. CASE GiveUp(s, p) /\ rows' = rows
  <2>1. used'[p] = NoSession /\ \A x \in Port \ {p} : used'[x] = used[x]
    BY <1>1, <1>9 DEF GiveUp, Release, HandsInv, PoolInv, PoolTypeOK
  <2>0. \A t \in Legacy \ {s} : t \notin dispossessed' => t \notin dispossessed /\ used[p] # t
    BY <1>2, <1>9 DEF GiveUp
  <2>2. \A t \in Legacy : Present(t) => rows[t].port \in Port
    BY Nothing DEF HandsInv, RowsOK, RowShape, Present
  <2>3. RowsOwn'
    BY <1>2, <1>5, <1>9, <2>0, <2>1, <2>2 DEF Owned, RowsOwn, Present
  <2>4. UsedKnown'
    BY <1>6, <1>7, <1>9, <2>1, Nothing DEF Owned, UsedKnown
  <2>5. ASSUME NEW r \in Request
        PROVE  RequestOwns(r)'
    <3>1. CASE r = q
      BY <1>3, <3>1, Nothing DEF RequestOwns, AtWrite
    <3>2. CASE r # q
      <4>1. RequestOwns(r) /\ req'[r] = req[r] /\ req[r].s # s
        BY <1>3, <1>4, <3>2 DEF Owned
      <4>2. /\ req[r].op \in {"create", "remove"} => req[r].s \in Legacy
            /\ req[r].op = "create" /\ req[r].pc = "insert" => req[r].port \in Port
        BY Nothing DEF HandsInv, RequestsOK, RequestShape
      <4> QED BY <1>2, <1>9, <2>0, <2>1, <4>1, <4>2, Nothing DEF RequestOwns, AtWrite, Present
    <3> QED BY <3>1, <3>2
  <2> QED BY <2>3, <2>4, <2>5 DEF Owned
<1> QED BY <1>1, <1>8, <1>9 DEF InsertRow

(* A removal gives up the port, and then the row.                           *)
LEMMA ReleaseOwned ==
    ASSUME HandsInv, Owned, OneRequest, NEW q \in Request, ReleasePort(q)
    PROVE  Owned'
<1>0. /\ req[q] # NoRequest /\ req[q].op = "remove" /\ req[q].pc = "release"
      /\ req[q].port \in Port /\ req[q].s \in Legacy
  BY Nothing DEF ReleasePort, HandsInv, RequestsOK, RequestShape
<1>00. PICK s \in Legacy, p \in Port : s = req[q].s /\ p = req[q].port
  BY <1>0
<1>1. /\ req[q] # NoRequest /\ req[q].op = "remove" /\ req[q].pc = "release"
      /\ p = req[q].port /\ s = req[q].s
  BY <1>0, <1>00
<1>2. Present(s) /\ rows[s].port = p
  BY <1>1 DEF Owned, RequestOwns
<1>3. \A r \in Request \ {q} : req[r].s # s
  BY <1>1 DEF OneRequest
<1>4. \A t \in Legacy \ {s} : t \notin dispossessed' => t \notin dispossessed /\ used[p] # t
  <2>1. s \notin dispossessed => used[p] = s
    BY <1>1, <1>2, <1>3 DEF Owned, RowsOwn, Removing
  <2> QED BY <1>1, <2>1 DEF ReleasePort, GiveUp
<1>5. \A x \in Port : used[x] = s => x = p
  BY <1>1, <1>2, <1>3 DEF Owned, UsedKnown, Creating
<1>6. used'[p] = NoSession /\ \A x \in Port \ {p} : used'[x] = used[x]
  BY <1>1 DEF ReleasePort, GiveUp, Release, HandsInv, PoolInv, PoolTypeOK
<1>7. /\ req'[q].s = s /\ req'[q].op = "remove" /\ req'[q].pc = "write" /\ req'[q].port = p
      /\ \A r \in Request \ {q} : req'[r] = req[r]
  BY <1>1 DEF ReleasePort, Goto, HandsInv, RequestsOK, RequestType
<1>8. rows' = rows
  BY DEF ReleasePort
<1>9. \A t \in Legacy \ {s} : Present(t) => rows[t].port \in Port \ {p}
  BY <1>1, <1>2, Nothing DEF HandsInv, RowsOK, RowShape, PortsOnce, Present
<1>10. \A t \in Legacy \ {s} : Removing(t)' <=> Removing(t)
  BY <1>1, <1>7 DEF Removing
<1>11. Removing(s)'
  BY <1>7 DEF Removing
<1>12. \A t \in Legacy, x \in Port : Creating(t, x)' <=> Creating(t, x)
  BY <1>1, <1>7 DEF Creating
<1>13. RowsOwn'
  BY <1>4, <1>6, <1>8, <1>9, <1>10, <1>11 DEF Owned, RowsOwn, Present
<1>14. UsedKnown'
  BY <1>6, <1>8, <1>12, Nothing DEF Owned, UsedKnown
<1>15. ASSUME NEW r \in Request
       PROVE  RequestOwns(r)'
  <2>1. CASE r = q
    BY <1>1, <1>2, <1>5, <1>6, <1>7, <1>8, <2>1, Nothing DEF RequestOwns, AtWrite, Present
  <2>2. CASE r # q
    <3>1. RequestOwns(r) /\ req'[r] = req[r] /\ req[r].s # s
      BY <1>3, <1>7, <2>2 DEF Owned
    <3>2. /\ req[r].op \in {"create", "remove"} => req[r].s \in Legacy
          /\ req[r].op = "create" /\ req[r].pc = "insert" => req[r].port \in Port
      BY Nothing DEF HandsInv, RequestsOK, RequestShape
    <3> QED BY <1>4, <1>6, <1>8, <3>1, <3>2, Nothing DEF RequestOwns, AtWrite, Present
  <2> QED BY <2>1, <2>2
<1> QED BY <1>13, <1>14, <1>15 DEF Owned

LEMMA DeleteOwned ==
    ASSUME HandsInv, Owned, OneRequest, NEW q \in Request, DeleteRow(q)
    PROVE  Owned'
<1>0. req[q] # NoRequest /\ AtWrite(q, "remove") /\ req[q].s \in Legacy
  BY Nothing DEF DeleteRow, Writes, AtWrite, HandsInv, RequestsOK, RequestShape
<1>00. PICK s \in Legacy : s = req[q].s
  BY <1>0
<1>1. req[q] # NoRequest /\ AtWrite(q, "remove") /\ s = req[q].s
  BY <1>0, <1>00
<1>2. \A x \in Port : used[x] # s
  BY <1>1 DEF Owned, RequestOwns
<1>3. \A r \in Request \ {q} : req[r].s # s
  BY <1>1 DEF OneRequest
<1>4. req'[q] = NoRequest /\ (\A r \in Request \ {q} : req'[r] = req[r]) /\ used' = used
  BY DEF DeleteRow, Finished, Pool, HandsInv, RequestsOK
<1>5. /\ \A t \in Legacy \ {s} : rows'[t] = rows[t] /\ (t \in dispossessed' <=> t \in dispossessed)
      /\ rows'[s] = NoRow \/ s \in dispossessed'
  BY <1>1 DEF DeleteRow, HandsInv, RowsOK
<1>6. \A t \in Legacy \ {s} : Removing(t)' <=> Removing(t)
  BY <1>1, <1>4, Nothing DEF Removing
<1>7. \A t \in Legacy, x \in Port : Creating(t, x)' <=> Creating(t, x)
  BY <1>1, <1>4, Nothing DEF Creating, AtWrite
<1>8. RowsOwn' /\ UsedKnown'
  BY <1>1, <1>2, <1>4, <1>5, <1>6, <1>7, Nothing DEF Owned, RowsOwn, UsedKnown, Present
<1>9. ASSUME NEW r \in Request
      PROVE  RequestOwns(r)'
  <2>1. CASE r = q
    BY <1>4, <2>1, Nothing DEF RequestOwns, AtWrite
  <2>2. CASE r # q
    <3>1. RequestOwns(r) /\ req'[r] = req[r] /\ req[r].s # s
      BY <1>3, <1>4, <2>2 DEF Owned
    <3>2. req[r].op \in {"create", "remove"} => req[r].s \in Legacy
      BY Nothing DEF HandsInv, RequestsOK, RequestShape
    <3> QED BY <1>4, <1>5, <3>1, <3>2 DEF RequestOwns, AtWrite, Present
  <2> QED BY <2>1, <2>2
<1> QED BY <1>8, <1>9 DEF Owned

(* Boot gives each recorded port to its row, the port column being unique,  *)
(* or to a running session that names it as well.                           *)
LEMMA RecoverOwned ==
    ASSUME HandsInv, RecoverPorts
    PROVE  Owned'
<1>1. (\A q \in Request : req'[q] = NoRequest) /\ rows' = rows
  BY DEF RecoverPorts, HandsInv, ProcessOK, NobodyBeforeServe
<1>2. \A p \in Port : /\ used'[p] \in Legacy => used'[p] \in Recorded(p)
                      /\ Recorded(p) # {} /\ RunningOn(p) = {} => used'[p] \in Recorded(p)
  BY Nothing DEF RecoverPorts, LastReserved, RunningOn
<1>3. \A s \in Legacy \ dispossessed' : Present(s) => used'[rows[s].port] = s
  <2> SUFFICES ASSUME NEW s \in Legacy \ dispossessed', Present(s)
               PROVE  used'[rows[s].port] = s
    OBVIOUS
  <2>1. rows[s].port \in Port /\ s \in Recorded(rows[s].port)
    BY Nothing DEF HandsInv, RowsOK, RowShape, Present, Recorded
  <2>2. used'[rows[s].port] \in Recorded(rows[s].port)
    <3>1. RunningOn(rows[s].port) = {}
      BY DEF RecoverPorts
    <3> QED BY <1>2, <2>1, <3>1
  <2> QED BY <2>2 DEF Recorded, HandsInv, RowsOK, PortsOnce
<1>4. \A s \in Legacy, p \in Port : used'[p] = s => rows[s].port = p
  BY <1>2 DEF Recorded
<1> QED
  BY <1>1, <1>3, <1>4, Nothing DEF Owned, RowsOwn, UsedKnown, RequestOwns, AtWrite, Present

LEMMA EnvChosen ==
    [Next]_vars => env' = env /\ (phase' = phase \/ RecoverPorts \/ Crash) /\ (restarted' = restarted \/ Crash)
<1>1. Ask => env' = env /\ phase' = phase /\ restarted' = restarted
  <2>1. Ask => Serving
    <3>1. \A q \in Request : AcquirePort(q) \/ InsertRow(q) \/ CallFails(q) \/ ReleasePort(q) \/ DeleteRow(q)
                            => Serving
      BY DEF AcquirePort, InsertRow, CallFails, ReleasePort, DeleteRow, Writes
    <3>2. \A q \in Request : StopBox(q) \/ RestartBox(q) \/ RemoveBox(q) \/ InspectBox(q) => Serving
      BY DEF StopBox, RestartBox, RemoveBox, InspectBox, Calls
    <3>3. \A q \in Request : MarkStopped(q) \/ MarkReloaded(q) \/ SyncRow(q) => Serving
      BY DEF MarkStopped, MarkReloaded, SyncRow, Mark, Writes
    <3>4. \A q \in Request, s \in Legacy : BeginCreate(q, s) => Serving
      BY DEF BeginCreate
    <3>5. \A q \in Request, s \in Legacy, op \in Operation : Begin(q, s, op) => Serving
      BY DEF Begin
    <3> QED BY <3>1, <3>2, <3>3, <3>4, <3>5 DEF Ask
  <2> QED BY <2>1 DEF Serving
<1>2. Work => env' = env /\ phase' = phase /\ restarted' = restarted
  BY DEF Work, CreateBox, StartBox, RecordId, At, Serving
<1>5. Docker \/ Watch => env' = env /\ phase' = phase /\ restarted' = restarted
  BY DEF Docker, Watch, Exit, Resume, HandleEvent, BreakStream, Reconnect, Serving, poolVars
<1>3. Elsewhere \/ UNCHANGED vars => env' = env /\ phase' = phase /\ restarted' = restarted
  BY DEF Elsewhere, vars, poolVars
<1>4. (Crash => env' = env) /\ (RecoverPorts => env' = env /\ restarted' = restarted)
  BY DEF Crash, RecoverPorts
<1> QED BY <1>1, <1>2, <1>3, <1>4, <1>5 DEF Next

LEMMA OwnInit == Init => OwnInv
<1> SUFFICES ASSUME Init PROVE OwnInv
  OBVIOUS
<1>1. (\A q \in Request : req[q] = NoRequest) /\ (\A s \in Legacy : rows[s] = NoRow)
      /\ \A p \in Port : used[p] = NoSession
  BY DEF Init
<1>2. OneRequest
  BY <1>1 DEF OneRequest
<1>3. Owned
  BY <1>1, Nothing DEF Owned, RowsOwn, UsedKnown, RequestOwns, AtWrite, Present
<1> QED BY <1>2, <1>3, HandsInit DEF OwnInv

LEMMA OwnStep ==
    ASSUME OwnInv, [Next]_vars
    PROVE  OwnInv'
<1>1. HandsInv /\ HandsInv'
  BY HandsStep DEF OwnInv
<1> SUFFICES ASSUME Apart'
             PROVE  OneRequest' /\ (phase' = "serve" => Owned')
  BY <1>1 DEF OwnInv
<1>2. Apart
  BY EnvChosen DEF Apart
<1>3. OneRequest /\ OneRequest' /\ (phase = "serve" => Owned)
  BY <1>1, <1>2, OneRequestStep DEF OwnInv
<1> SUFFICES ASSUME phase' = "serve"
             PROVE  Owned'
  BY <1>3
<1>4. CASE RecoverPorts
  BY <1>1, <1>4, RecoverOwned
<1>5. CASE ~RecoverPorts
  <2>1. ~Crash
    BY DEF Crash, NewPool
  <2>2. Owned
    BY <1>3, <1>5, <2>1, EnvChosen
  <2>3. CASE Ask
    BY <1>1, <1>3, <2>2, <2>3, RequestOwned, BeginOwned, BeginCreateOwned, AcquireOwned, InsertOwned,
       ReleaseOwned, DeleteOwned DEF Ask
  <2> QED BY <1>1, <1>5, <2>1, <2>2, <2>3, OthersOwned DEF Next
<1> QED BY <1>4, <1>5

(* The port on record of a container is its own in the pool, through         *)
(* failures and restarts, until Remove gives it up (service.go:483, 736),    *)
(* unless it was given up all the same: the row of a removal was not         *)
(* deleted, or boot gave the port to a running session that names it.        *)
THEOREM ContainersRowOwnsPort == Spec => []RowOwnsPort
<1>1. OwnInv => RowOwnsPort
  BY DEF OwnInv, Owned, RowsOwn, RowOwnsPort
<1> QED BY <1>1, OwnInit, OwnStep, PTL DEF Spec

(* A port in use for a container is on record, or in the hands of a creation *)
(* that will record it or give it back (service.go:488-499).                 *)
THEOREM ContainersNoPortKept == Spec => []NoPortKept
<1>1. OwnInv => NoPortKept
  BY DEF OwnInv, Owned, UsedKnown, NoPortKept
<1> QED BY <1>1, OwnInit, OwnStep, PTL DEF Spec

(* A removal that meets no other request, of a container that has not lost   *)
(* its port before, frees the port of its own container (service.go:736).    *)
THEOREM ContainersRemoveFreesItsOwn == Spec => RemoveFreesItsOwn
<1> DEFINE Own == \A q \in Request : req[q].pc = "release" /\ req[q].s \notin dispossessed
                                         => used[req[q].port] = req[q].s
<1>1. OwnInv /\ Apart => Own
  <2> SUFFICES ASSUME OwnInv, Apart, NEW q \in Request, req[q].pc = "release",
                      req[q].s \notin dispossessed
               PROVE  used[req[q].port] = req[q].s
    OBVIOUS
  <2>1. req[q] # NoRequest /\ req[q].op = "remove" /\ req[q].s \in Legacy
    BY Nothing DEF OwnInv, HandsInv, RequestsOK, RequestShape
  <2>2. OneRequest /\ Owned
    BY <2>1 DEF OwnInv, HandsInv, ProcessOK, NobodyBeforeServe
  <2>3. ~Removing(req[q].s)
    BY <2>1, <2>2 DEF Removing, OneRequest
  <2> QED BY <2>1, <2>2, <2>3 DEF Owned, RowsOwn, RequestOwns
<1>2. OwnInv /\ [Next]_vars
        => [Apart => \A q \in Request :
                req[q].pc = "release" /\ req'[q].pc = "write" /\ req[q].s \notin dispossessed
                    => used[req[q].port] = req[q].s]_vars
  BY <1>1
<1> QED BY <1>2, OwnInit, OwnStep, PTL DEF Spec, RemoveFreesItsOwn

-----------------------------------------------------------------------------
(* While, moreover, no event of a former container is on its way when its    *)
(* session is created again, the process has not crashed, and neither Docker *)
(* nor the database has refused a call on the session: a container that was  *)
(* ever started is the one on record, or the one the goroutine of its       *)
(* creation is about to record; events and requests are about it.            *)
OnWay == {events[i] : i \in DOMAIN events}
Started(s) == box[s].st \notin {"none", "created"}
Gone(s) == \E q \in Request : req[q].s = s /\ req[q].op = "remove" /\ req[q].pc \in {"release", "write"}

GoroutineKnows(s) ==
    /\ gor[s].pc # "none" => Present(s) /\ rows[s].port = gor[s].port
    /\ gor[s].pc = "create" => rows[s].cid = NoCid /\ ~Started(s)
    /\ gor[s].pc = "start" => /\ rows[s].cid = NoCid /\ box[s].id = gor[s].id
                              /\ box[s].st = "created" /\ box[s].port = gor[s].port
    /\ gor[s].pc = "final" => /\ rows[s].cid \in {NoCid, gor[s].id}
                              /\ box[s].id = gor[s].id /\ Started(s)

RowKnows(s) ==
    /\ Started(s) => /\ Present(s) /\ box[s].port = rows[s].port
                     /\ rows[s].cid = box[s].id \/ gor[s].pc = "final"
    /\ rows[s].cid # NoCid /\ ~Gone(s) => rows[s].cid = box[s].id /\ Started(s)

EventKnown(s, e) ==
    \/ Started(s) /\ e.id = box[s].id
    \/ Gone(s) /\ e.id = rows[s].cid
    \/ ~Present(s) /\ ~GoroutineOn(s) /\ ~RequestOn(s)

RequestKnows(s, r) ==
    /\ r.op \in {"stop", "reload", "remove"} => ~GoroutineOn(s)
    /\ r.op \in {"stop", "reload", "get", "remove"} => Present(s) /\ r.cid = rows[s].cid
    /\ r.op = "remove" /\ r.pc # "docker" => ~Started(s)

KnownOf(s) ==
    /\ GoroutineKnows(s) /\ RowKnows(s)
    /\ \A e \in OnWay : e.s = s => EventKnown(s, e)
    /\ \A q \in Request : req[q].s = s => RequestKnows(s, req[q])

Clean == Apart /\ ~restarted /\ "stale" \notin env

KnownInv ==
    /\ OwnInv
    /\ ~restarted => phase = "serve"
    /\ Clean => \A s \in Legacy \ refused : KnownOf(s)

(* A step on a session leaves the others as they are.                        *)
OnlyOn(s) ==
    \A t \in Legacy \ {s} :
        /\ rows'[t] = rows[t] /\ box'[t] = box[t] /\ gor'[t] = gor[t]
        /\ \A q \in Request : req[q].s = t \/ req'[q].s = t => req'[q] = req[q]
        /\ \A e \in OnWay' : e.s = t => e \in OnWay

(* What such a step may change without a container becoming unknown.         *)
KnownStill(s) ==
    /\ gor'[s] = gor[s] /\ (Present(s)' <=> Present(s))
    /\ rows'[s].port = rows[s].port /\ rows'[s].cid = rows[s].cid
    /\ box'[s].id = box[s].id /\ box'[s].port = box[s].port /\ (Started(s)' <=> Started(s))
    /\ gor[s].pc = "start" => box'[s].st = box[s].st
    /\ Gone(s)' <=> Gone(s)
    /\ ~Present(s) => (RequestOn(s)' => RequestOn(s))
    /\ \A e \in OnWay' : e.s = s => e \in OnWay \/ (Started(s) /\ e.id = box[s].id)

LEMMA KnownStays ==
    ASSUME NEW s \in Legacy, KnownOf(s), KnownStill(s),
           \A q \in Request : req'[q].s = s => req'[q] = req[q] \/ RequestKnows(s, req'[q])
    PROVE  KnownOf(s)'
<1>1. GoroutineKnows(s)'
  BY DEF KnownOf, KnownStill, GoroutineKnows
<1>2. RowKnows(s)'
  BY DEF KnownOf, KnownStill, RowKnows
<1>3. GoroutineOn(s)' <=> GoroutineOn(s)
  BY DEF KnownStill, GoroutineOn
<1>4. \A e \in OnWay' : e.s = s => EventKnown(s, e)'
  BY <1>3 DEF KnownOf, KnownStill, EventKnown
<1>5. \A q \in Request : req'[q].s = s => RequestKnows(s, req[q])' /\ RequestKnows(s, req'[q])
  BY <1>3 DEF KnownOf, KnownStill, RequestKnows
<1> QED BY <1>1, <1>2, <1>4, <1>5 DEF KnownOf

LEMMA OthersKnown ==
    ASSUME NEW s, OnlyOn(s), refused \subseteq refused', \A t \in Legacy \ refused : KnownOf(t)
    PROVE  \A t \in (Legacy \ refused') \ {s} : KnownOf(t)'
<1> SUFFICES ASSUME NEW t \in (Legacy \ refused') \ {s}
             PROVE  KnownOf(t)'
  OBVIOUS
<1>1. KnownStill(t)
  BY DEF OnlyOn, KnownStill, Present, Started, Gone, RequestOn
<1> QED BY <1>1, KnownStays DEF OnlyOn

(* Events that are added are about the container that moves; handled and     *)
(* lost ones leave the others.                                               *)
LEMMA EmitOnWay ==
    ASSUME EventsOK, NEW s \in Legacy, NEW new \in Seq(Event), Emit(new),
           \A k \in 1..Len(new) : new[k].s = s /\ new[k].id = box[s].id
    PROVE  \A e \in OnWay' : e \in OnWay \/ (e.s = s /\ e.id = box[s].id)
<1>1. CASE stream = "open"
  <2>1. events' = events \o new
    BY <1>1 DEF Emit
  <2>2. \A i \in DOMAIN events' : \/ i \in DOMAIN events /\ events'[i] = events[i]
                                  \/ i - Len(events) \in 1..Len(new) /\ events'[i] = new[i - Len(events)]
    BY <2>1 DEF EventsOK
  <2> QED BY <2>2 DEF OnWay
<1>2. CASE stream # "open"
  BY <1>2 DEF Emit, OnWay
<1> QED BY <1>1, <1>2

LEMMA SaidOnWay ==
    ASSUME EventsOK, BoxesOK, NEW s \in Legacy, box[s] # NoBox,
           Emit(Said("start", s, box[s].id)) \/ Emit(DieIfUp(s))
           \/ Emit(DieIfUp(s) \o Said("start", s, box[s].id))
    PROVE  \A e \in OnWay' : e \in OnWay \/ (e.s = s /\ e.id = box[s].id)
<1>1. \A type \in {"start", "die"} : \A k \in 1..Len(Said(type, s, box[s].id)) :
         /\ Said(type, s, box[s].id)[k].s = s
         /\ Said(type, s, box[s].id)[k].id = box[s].id
  BY DEF Said
<1>2. \A k \in 1..Len(DieIfUp(s)) : DieIfUp(s)[k].s = s /\ DieIfUp(s)[k].id = box[s].id
  BY DEF DieIfUp, Said
<1> DEFINE both == DieIfUp(s) \o Said("start", s, box[s].id)
<1>3. both \in Seq(Event) /\ DieIfUp(s) \in Seq(Event) /\ Said("start", s, box[s].id) \in Seq(Event)
  BY SaidTyped
<1>4. \A k \in 1..Len(both) : both[k].s = s /\ both[k].id = box[s].id
  <2> SUFFICES ASSUME NEW k \in 1..Len(both)
               PROVE  both[k].s = s /\ both[k].id = box[s].id
    OBVIOUS
  <2>1. \/ k \in 1..Len(DieIfUp(s)) /\ both[k] = DieIfUp(s)[k]
        \/ /\ k - Len(DieIfUp(s)) \in 1..Len(Said("start", s, box[s].id))
           /\ both[k] = Said("start", s, box[s].id)[k - Len(DieIfUp(s))]
    BY <1>3
  <2> QED BY <1>1, <1>2, <2>1
<1> QED BY <1>1, <1>2, <1>3, <1>4, EmitOnWay

LEMMA LeftOnWay ==
    ASSUME EventsOK,
           \/ events # <<>> /\ events' = Tail(events)
           \/ \E k \in 0..Len(events) : events' = SubSeq(events, 1, k)
    PROVE  OnWay' \subseteq OnWay
<1>1. CASE events # <<>> /\ events' = Tail(events)
  <2>1. \A i \in DOMAIN events' : i + 1 \in DOMAIN events /\ events'[i] = events[i + 1]
    BY <1>1 DEF EventsOK
  <2> QED BY <2>1 DEF OnWay
<1>2. ASSUME NEW k \in 0..Len(events), events' = SubSeq(events, 1, k)
      PROVE  OnWay' \subseteq OnWay
  <2>1. \A i \in DOMAIN events' : i \in DOMAIN events /\ events'[i] = events[i]
    BY <1>2 DEF EventsOK
  <2> QED BY <2>1 DEF OnWay
<1> QED BY <1>1, <1>2

(* A refusal is not forgotten; without one a write is done.                  *)
LEMMA RefusedGrows == [Next]_vars => refused \subseteq refused'
<1>1. \A q \in Request : (StopBox(q) \/ RestartBox(q) \/ RemoveBox(q)) => refused \subseteq refused'
  BY DEF StopBox, RestartBox, RemoveBox, Declined, NothingToDo, Refused
<1>2. \A s, st, c : UpdateStatus(s, st, c) => refused \subseteq refused'
  BY DEF UpdateStatus, Refused
<1>3. \A q \in Request : (MarkStopped(q) \/ MarkReloaded(q) \/ SyncRow(q) \/ DeleteRow(q)) => refused \subseteq refused'
  BY <1>2 DEF MarkStopped, MarkReloaded, SyncRow, Mark, DeleteRow, Refused
<1>4. \A q \in Request : (AcquirePort(q) \/ InsertRow(q) \/ CallFails(q) \/ InspectBox(q) \/ ReleasePort(q))
                           => refused \subseteq refused'
  BY DEF AcquirePort, InsertRow, CallFails, InspectBox, ReleasePort
<1>5. \A q \in Request, s \in Legacy : /\ BeginCreate(q, s) => refused \subseteq refused'
                                      /\ \A op \in Operation : Begin(q, s, op) => refused \subseteq refused'
  BY DEF BeginCreate, Begin
<1>6. Ask => refused \subseteq refused'
  BY <1>1, <1>3, <1>4, <1>5 DEF Ask
<1>7. Work \/ HandleEvent => refused \subseteq refused'
  BY <1>2 DEF Work, CreateBox, StartBox, RecordId, Fail, HandleEvent
<1>8. Docker \/ Reconnect \/ Elsewhere \/ Crash \/ RecoverPorts \/ UNCHANGED vars => refused \subseteq refused'
  BY DEF Docker, BreakStream, Exit, Resume, Reconnect, Elsewhere, Crash, RecoverPorts, vars
<1> QED BY <1>6, <1>7, <1>8 DEF Next, Watch

LEMMA Updated ==
    ASSUME NEW s, NEW st, NEW c, UpdateStatus(s, st, c), s \notin refused'
    PROVE  rows' = IF Present(s)
                   THEN [rows EXCEPT ![s] = [status |-> st, port |-> rows[s].port, cid |-> c]]
                   ELSE rows
BY DEF UpdateStatus, Refused

(* What holds of an execution the parts above are about.                     *)
LEMMA CleanFacts ==
    ASSUME KnownInv, Clean
    PROVE  /\ HandsInv /\ OneRequest /\ Owned /\ phase = "serve"
           /\ \A s \in Legacy \ refused : KnownOf(s)
BY DEF KnownInv, OwnInv, Clean

LEMMA BoxOnWay ==
    ASSUME HandsInv, NEW q \in Request, StopBox(q) \/ RestartBox(q) \/ RemoveBox(q)
    PROVE  \A e \in OnWay' : e \in OnWay \/ (e.s = req[q].s /\ e.id = box[req[q].s].id)
<1>1. req[q].s \in Legacy /\ (req[q].op # "remove" => req[q].cid # NoCid)
  BY Nothing DEF StopBox, RestartBox, RemoveBox, Calls, HandsInv, RequestsOK, RequestShape
<1>2. CASE events' = events
  BY <1>2 DEF OnWay
<1>3. CASE events' # events
  <2>1. Its(q) /\ req[q].cid # NoCid
    BY <1>1, <1>3 DEF StopBox, RestartBox, RemoveBox, Calls, Declined, NothingToDo
  <2>2. box[req[q].s] # NoBox
    BY <2>1, Nothing DEF Its
  <2>3. \/ Emit(DieIfUp(req[q].s))
        \/ Emit(DieIfUp(req[q].s) \o Said("start", req[q].s, box[req[q].s].id))
    BY <1>3 DEF StopBox, RestartBox, RemoveBox, Declined, NothingToDo
  <2> QED BY <1>1, <2>2, <2>3, SaidOnWay DEF HandsInv
<1> QED BY <1>2, <1>3

LEMMA RequestOnly ==
    ASSUME HandsInv, NEW q \in Request, req[q] # NoRequest,
           CallFails(q) \/ StopBox(q) \/ RestartBox(q) \/ RemoveBox(q) \/ InspectBox(q)
           \/ AcquirePort(q) \/ InsertRow(q)
           \/ ReleasePort(q) \/ DeleteRow(q) \/ MarkStopped(q) \/ MarkReloaded(q) \/ SyncRow(q)
    PROVE  /\ OnlyOn(req[q].s)
           /\ \A r \in Request \ {q} : req'[r] = req[r]
           /\ req'[q] = NoRequest \/ (req'[q].s = req[q].s /\ req'[q].op = req[q].op)
<1>1. /\ \A r \in Request \ {q} : req'[r] = req[r]
      /\ req'[q] = NoRequest \/ (req'[q].s = req[q].s /\ req'[q].op = req[q].op)
  BY RequestSession
<1>2. \A e \in OnWay' : e \in OnWay \/ e.s = req[q].s
  <2>1. CASE StopBox(q) \/ RestartBox(q) \/ RemoveBox(q)
    BY <2>1, BoxOnWay
  <2>2. CASE events' = events
    BY <2>2 DEF OnWay
  <2> QED
    BY <2>1, <2>2 DEF CallFails, InspectBox, AcquirePort, InsertRow, ReleasePort, DeleteRow, Mark,
       MarkStopped, MarkReloaded, SyncRow
<1>3. \A t \in Legacy \ {req[q].s} : rows'[t] = rows[t] /\ box'[t] = box[t] /\ gor'[t] = gor[t]
  <2>1. CASE StopBox(q) \/ RestartBox(q) \/ RemoveBox(q)
    BY <2>1 DEF StopBox, RestartBox, RemoveBox, Declined, NothingToDo, HandsInv, BoxesOK
  <2>2. CASE MarkStopped(q) \/ MarkReloaded(q) \/ SyncRow(q)
    BY <2>2 DEF Mark, MarkStopped, MarkReloaded, SyncRow, UpdateStatus, HandsInv, RowsOK
  <2> QED
    BY <2>1, <2>2 DEF CallFails, InspectBox, AcquirePort, InsertRow, ReleasePort, DeleteRow, HandsInv, RowsOK,
       GoroutinesOK
<1> QED BY <1>1, <1>2, <1>3, Nothing DEF OnlyOn

LEMMA StartOnWay ==
    ASSUME HandsInv, NEW s \in Legacy, box[s] # NoBox, DockerStart(s) \/ Emit(DieIfUp(s))
    PROVE  \A e \in OnWay' : e \in OnWay \/ (e.s = s /\ e.id = box[s].id)
BY SaidOnWay DEF DockerStart, HandsInv

LEMMA BeginOnly ==
    ASSUME HandsInv, NEW q \in Request, NEW s \in Legacy,
           BeginCreate(q, s) \/ \E op \in Operation : Begin(q, s, op)
    PROVE  OnlyOn(s)
<1>0. req[q].s = NoSession
  BY Nothing DEF BeginCreate, Begin
<1>1. req'[q].s = s /\ \A r \in Request \ {q} : req'[r] = req[r]
  <2>1. CASE BeginCreate(q, s)
    BY <2>1 DEF BeginCreate, NoRequest, HandsInv, RequestsOK
  <2>2. ASSUME NEW op \in Operation, Begin(q, s, op)
        PROVE  req'[q].s = s /\ \A r \in Request \ {q} : req'[r] = req[r]
    BY <2>2 DEF Begin, HandsInv, RequestsOK
  <2> QED BY <2>1, <2>2
<1>2. rows' = rows /\ box' = box /\ gor' = gor /\ events' = events
  BY DEF BeginCreate, Begin
<1> QED BY <1>0, <1>1, <1>2, Nothing DEF OnlyOn, OnWay

LEMMA ContainerOnly ==
    ASSUME HandsInv, NEW s \in Legacy,
           \/ CreateBox(s) \/ StartBox(s) \/ RecordId(s) \/ Exit(s) \/ Resume(s)
           \/ HandleEvent /\ s = Head(events).s
    PROVE  OnlyOn(s)
<1>1. req' = req
  BY DEF CreateBox, StartBox, RecordId, Exit, Resume, HandleEvent
<1>2. \A t \in Legacy \ {s} : rows'[t] = rows[t]
  BY DEF CreateBox, StartBox, RecordId, Exit, Resume, HandleEvent, Fail, UpdateStatus, HandsInv, RowsOK
<1>3. \A t \in Legacy \ {s} : box'[t] = box[t]
  BY DEF CreateBox, StartBox, RecordId, Exit, Resume, HandleEvent, Fail, DockerCreate, DockerStart, HandsInv, BoxesOK
<1>4. \A t \in Legacy \ {s} : gor'[t] = gor[t]
  BY DEF CreateBox, StartBox, RecordId, Exit, Resume, HandleEvent, Fail, HandsInv, GoroutinesOK
<1>5. \A e \in OnWay' : e \in OnWay \/ e.s = s
  <2>1. CASE events' = events
    BY <2>1 DEF OnWay
  <2>2. CASE HandleEvent
    BY <2>2, LeftOnWay DEF HandleEvent, HandsInv
  <2>3. CASE events' # events /\ ~HandleEvent
    <3>1. DockerStart(s) \/ Emit(DieIfUp(s))
      BY <2>3 DEF CreateBox, StartBox, RecordId, Exit, Resume, Fail
    <3>2. box[s] # NoBox
      BY <2>3, Nothing DEF CreateBox, StartBox, RecordId, Exit, Resume, Fail, At, HandsInv, GoroutinesOK, GoroutineShape
    <3> QED BY <3>1, <3>2, StartOnWay
  <2> QED BY <2>1, <2>2, <2>3
<1> QED BY <1>1, <1>2, <1>3, <1>4, <1>5 DEF OnlyOn

(* The steps of a request after which the container is as known as before.   *)
LEMMA QuietCallKnown ==
    ASSUME HandsInv, OneRequest, NEW q \in Request, NEW s \in Legacy, s = req[q].s, KnownOf(s),
           CallFails(q) \/ InspectBox(q) \/ AcquirePort(q) \/ ReleasePort(q)
    PROVE  KnownOf(s)'
<1>1. req[q] # NoRequest
  BY Nothing DEF CallFails, InspectBox, AcquirePort, ReleasePort, Calls
<1>2. s = req[q].s
  OBVIOUS
<1>3. \A r \in Request \ {q} : req'[r] = req[r] /\ req[r].s # s
  BY <1>1, <1>2, RequestOnly DEF OneRequest
<1>4. \/ req'[q] = NoRequest /\ req[q].pc # "release"
      \/ /\ req'[q].s = s /\ req'[q].op = req[q].op /\ req'[q].cid = req[q].cid
         /\ req[q].pc \in {"docker", "acquire"} => req[q].op # "remove"
         /\ req[q].pc = "release" => req'[q].pc = "write"
  <2>1. CASE CallFails(q)
    BY <2>1 DEF CallFails, Finished, HandsInv, RequestsOK
  <2>2. CASE InspectBox(q)
    <3> DEFINE live == Live(req[q].s, req[q].cid)
    <3>1. req' = [req EXCEPT ![q] = IF live = req[q].status THEN NoRequest
                                    ELSE [@ EXCEPT !.pc = "write", !.status = live]]
      BY <2>2 DEF InspectBox
    <3> HIDE DEF live
    <3>2. \/ req'[q] = NoRequest
          \/ req'[q].s = s /\ req'[q].op = req[q].op /\ req'[q].cid = req[q].cid
      BY <3>1 DEF HandsInv, RequestsOK, RequestType
    <3> QED BY <2>2, <3>2 DEF InspectBox, Calls
  <2>3. CASE AcquirePort(q)
    <3>1. req[q].op = "create"
      BY <1>1, <2>3 DEF AcquirePort, HandsInv, RequestsOK, RequestShape
    <3> QED BY <2>3, <3>1 DEF AcquirePort, Finished, HandsInv, RequestsOK, RequestType
  <2>4. CASE ReleasePort(q)
    BY <2>4 DEF ReleasePort, Goto, HandsInv, RequestsOK, RequestType
  <2> QED BY <2>1, <2>2, <2>3, <2>4
<1>5. Gone(s)' <=> Gone(s)
  <2>1. CASE req[q].pc = "release"
    <3>1. req[q].op = "remove"
      BY <1>1, <2>1 DEF HandsInv, RequestsOK, RequestShape
    <3> QED BY <1>2, <1>4, <2>1, <3>1 DEF Gone
  <2>2. CASE req[q].pc \in {"docker", "acquire"}
    BY <1>2, <1>3, <1>4, <2>2, Nothing DEF Gone
  <2> QED BY <2>1, <2>2 DEF CallFails, InspectBox, Calls, AcquirePort, ReleasePort
<1>6. RequestOn(s)
  BY <1>2 DEF RequestOn
<1>7. KnownStill(s)
  BY <1>5, <1>6 DEF KnownStill, CallFails, InspectBox, AcquirePort, ReleasePort, Present, Started, OnWay
<1>8. RequestKnows(s, req[q])
  BY <1>2 DEF KnownOf
<1>9. \A r \in Request : req'[r].s = s => req'[r] = req[r] \/ RequestKnows(s, req'[r])
  <2>1. CASE req[q].pc = "release"
    <3>1. req[q].op = "remove"
      BY <1>1, <2>1 DEF HandsInv, RequestsOK, RequestShape
    <3> QED BY <1>3, <1>4, <1>8, <2>1, <3>1 DEF RequestKnows
  <2>2. CASE req[q].pc \in {"docker", "acquire"}
    BY <1>2, <1>3, <1>4, <1>8, <2>2, Nothing DEF RequestKnows
  <2> QED BY <2>1, <2>2 DEF CallFails, InspectBox, Calls, AcquirePort, ReleasePort
<1> QED BY <1>7, <1>9, KnownStays

(* Stop and Reload turn a container that stays the one on record.            *)
LEMMA TurnKnown ==
    ASSUME HandsInv, OneRequest, NEW q \in Request, NEW s \in Legacy, s = req[q].s, KnownOf(s),
           StopBox(q) \/ RestartBox(q), s \notin refused'
    PROVE  /\ KnownOf(s)' /\ Started(s) /\ Its(q) /\ box[s].st # "created" /\ box[s].id \in Cid
           /\ box[s].port = rows[s].port /\ Present(s) /\ gor'[s] = NoGoroutine
<1>1. /\ req[q] # NoRequest /\ req[q].op \in {"stop", "reload"} /\ req[q].pc = "docker"
      /\ req[q].cid \in Cid
  BY Nothing DEF StopBox, RestartBox, Calls, HandsInv, RequestsOK, RequestShape
<1>2. RequestKnows(s, req[q])
  BY DEF KnownOf
<1>3. Present(s) /\ gor[s] = NoGoroutine /\ req[q].cid = rows[s].cid
  BY <1>1, <1>2 DEF RequestKnows, GoroutineOn
<1>4. ~Gone(s)
  BY <1>1 DEF OneRequest, Gone
<1>5. Started(s) /\ rows[s].cid = box[s].id /\ box[s].port = rows[s].port
  BY <1>1, <1>3, <1>4, Nothing DEF KnownOf, RowKnows
<1>6. box'[s].id = box[s].id /\ box'[s].port = box[s].port /\ Started(s)'
  BY <1>5 DEF StopBox, RestartBox, Declined, Refused, NothingToDo, HandsInv, BoxesOK, Started
<1>7. /\ req'[q].s = s /\ req'[q].op = req[q].op /\ req'[q].pc = "write" /\ req'[q].cid = req[q].cid
      /\ \A r \in Request \ {q} : req'[r] = req[r] /\ req[r].s # s
  BY <1>1 DEF StopBox, RestartBox, Goto, HandsInv, RequestsOK, RequestType, OneRequest
<1>8. ~Gone(s)' /\ rows' = rows /\ gor' = gor
  BY <1>1, <1>7 DEF Gone, StopBox, RestartBox
<1>9. KnownStill(s)
  BY <1>3, <1>4, <1>5, <1>6, <1>8, BoxOnWay, Nothing DEF KnownStill, Present
<1>10. \A r \in Request : req'[r].s = s => req'[r] = req[r] \/ RequestKnows(s, req'[r])
  BY <1>1, <1>2, <1>7 DEF RequestKnows
<1> QED BY <1>1, <1>3, <1>5, <1>8, <1>9, <1>10, KnownStays DEF Its, Started

(* A write of what is known keeps the id on record.                          *)
LEMMA MarkKnown ==
    ASSUME HandsInv, OneRequest, NEW q \in Request, NEW s \in Legacy, s = req[q].s, KnownOf(s),
           MarkStopped(q) \/ MarkReloaded(q) \/ SyncRow(q), s \notin refused'
    PROVE  /\ KnownOf(s)' /\ Present(s) /\ req[q].cid = rows[s].cid /\ rows[s].cid = box[s].id
           /\ Started(s)
<1>1. /\ req[q] # NoRequest /\ req[q].op \in {"stop", "reload", "get"} /\ req[q].pc = "write"
      /\ req[q].cid \in Cid
  BY Nothing DEF MarkStopped, MarkReloaded, SyncRow, Mark, Writes, HandsInv, RequestsOK, RequestShape
<1>2. Present(s) /\ req[q].cid = rows[s].cid
  BY <1>1 DEF KnownOf, RequestKnows
<1>3. \E st \in Status \ {"absent"} : UpdateStatus(s, st, req[q].cid)
  <2>1. req[q].status \in Status \ {"absent"} \/ req[q].op # "get"
    BY <1>1 DEF HandsInv, RequestsOK, RequestShape, RequestType
  <2> QED BY <2>1 DEF MarkStopped, MarkReloaded, SyncRow, Mark, Writes, Status
<1>4. Present(s)' /\ rows'[s].port = rows[s].port /\ rows'[s].cid = rows[s].cid
  BY <1>2, <1>3, Updated DEF Present, HandsInv, RowsOK
<1>5. req'[q] = NoRequest /\ \A r \in Request \ {q} : req'[r] = req[r] /\ req[r].s # s
  BY <1>1 DEF MarkStopped, MarkReloaded, SyncRow, Mark, Finished, HandsInv, RequestsOK, OneRequest
<1>6. ~Gone(s) /\ ~Gone(s)'
  BY <1>1, <1>5, Nothing DEF Gone
<1>7. gor' = gor /\ box' = box /\ events' = events
  BY DEF MarkStopped, MarkReloaded, SyncRow, Mark
<1>8. KnownStill(s)
  BY <1>2, <1>4, <1>6, <1>7 DEF KnownStill, Started, OnWay
<1>9. KnownOf(s)'
  BY <1>5, <1>8, Nothing, KnownStays
<1> QED BY <1>1, <1>2, <1>6, <1>9, Nothing DEF KnownOf, RowKnows

(* A new row has no container, and nothing is said about its session.        *)
LEMMA InsertKnown ==
    ASSUME HandsInv, OneRequest, Owned, NEW q \in Request, NEW s \in Legacy, s = req[q].s, KnownOf(s),
           InsertRow(q)
    PROVE  KnownOf(s)' /\ (rows' = rows \/ ~Started(s)')
<1>1. /\ req[q] # NoRequest /\ req[q].op = "create"
      /\ \A r \in Request \ {q} : req'[r] = req[r] /\ req[r].s # s
      /\ req'[q] = NoRequest
  BY Nothing DEF InsertRow, Finished, HandsInv, RequestsOK, RequestShape, OneRequest
<1>2. ~Present(s) /\ RequestOn(s) /\ ~RequestOn(s)' /\ ~Gone(s) /\ ~Gone(s)'
  BY <1>1, Nothing DEF Owned, RequestOwns, RequestOn, Gone
<1>3. ~Started(s) /\ \A e \in OnWay : e.s # s
  BY <1>2 DEF KnownOf, RowKnows, EventKnown
<1>4. box' = box /\ OnWay' = OnWay
  BY DEF InsertRow, OnWay
<1>5. CASE UNCHANGED <<rows, gor>>
  <2>1. KnownStill(s)
    BY <1>2, <1>3, <1>4, <1>5 DEF KnownStill, Present, Started
  <2> QED BY <1>1, <1>5, <2>1, Nothing, KnownStays
<1>6. CASE /\ rows' = [rows EXCEPT ![s] = [status |-> "starting", port |-> req[q].port, cid |-> NoCid]]
           /\ gor' = [gor EXCEPT ![s] = [pc |-> "create", port |-> req[q].port, id |-> NoCid]]
  <2>1. /\ Present(s)' /\ rows'[s].cid = NoCid /\ rows'[s].port = req[q].port
        /\ gor'[s].pc = "create" /\ gor'[s].port = req[q].port
    BY <1>6 DEF Present, HandsInv, RowsOK, GoroutinesOK
  <2>2. ~Started(s)'
    BY <1>3, <1>4 DEF Started
  <2>3. GoroutineKnows(s)' /\ RowKnows(s)'
    BY <2>1, <2>2 DEF GoroutineKnows, RowKnows
  <2> QED BY <1>1, <1>3, <1>4, <2>2, <2>3, Nothing DEF KnownOf
<1> QED BY <1>5, <1>6 DEF InsertRow

(* Remove leaves no container behind that was ever started.                  *)
LEMMA RemoveKnown ==
    ASSUME HandsInv, OneRequest, NEW q \in Request, NEW s \in Legacy, s = req[q].s, KnownOf(s),
           RemoveBox(q), s \notin refused'
    PROVE  KnownOf(s)' /\ ~Started(s)'
<1>1. req[q] # NoRequest /\ req[q].op = "remove" /\ req[q].pc = "docker"
  BY Nothing DEF RemoveBox, Calls
<1>2. /\ req'[q].s = s /\ req'[q].op = "remove" /\ req'[q].pc = "release" /\ req'[q].cid = req[q].cid
      /\ \A r \in Request \ {q} : req'[r] = req[r] /\ req[r].s # s
  BY <1>1 DEF RemoveBox, Goto, HandsInv, RequestsOK, RequestType, OneRequest
<1>3. /\ ~GoroutineOn(s) /\ Present(s) /\ req[q].cid = rows[s].cid
      /\ gor[s] = NoGoroutine
  BY <1>1 DEF KnownOf, RequestKnows, GoroutineOn
<1>4. ~Gone(s) /\ Gone(s)' /\ RequestOn(s)
  BY <1>1, <1>2 DEF Gone, RequestOn
<1>5. Started(s) => rows[s].cid = box[s].id /\ box[s].id \in Cid
  BY <1>3, Nothing DEF KnownOf, RowKnows, HandsInv, BoxesOK, BoxShape, Started
<1>6. rows[s].cid # NoCid => rows[s].cid = box[s].id
  BY <1>4 DEF KnownOf, RowKnows
<1>7. ~Started(s)'
  <2>1. CASE req[q].cid # NoCid /\ Its(q)
    <3>1. box'[s] = NoBox
      BY <2>1 DEF RemoveBox, Declined, Refused, HandsInv, BoxesOK
    <3> QED BY <3>1, Nothing DEF Started
  <2>2. CASE ~(req[q].cid # NoCid /\ Its(q))
    <3>1. box' = box
      BY <2>2 DEF RemoveBox, NothingToDo
    <3> QED BY <1>3, <1>5, <1>6, <2>2, <3>1, Nothing DEF Started, Its
  <2> QED BY <2>1, <2>2
<1>8. rows' = rows /\ gor' = gor
  BY DEF RemoveBox
<1>9. GoroutineKnows(s)' /\ RowKnows(s)'
  BY <1>3, <1>4, <1>7, <1>8, Nothing DEF GoroutineKnows, RowKnows
<1>10. \A e \in OnWay : e.s = s => e.id = rows[s].cid
  BY <1>3, <1>4, <1>5 DEF KnownOf, EventKnown
<1>11. \A e \in OnWay' : e.s = s => e.id = rows[s].cid
  <2>1. CASE events' = events
    BY <1>10, <2>1 DEF OnWay
  <2>2. CASE events' # events
    <3>1. rows[s].cid = box[s].id
      BY <1>3, <2>2 DEF RemoveBox, NothingToDo, Its
    <3> QED BY <1>10, <3>1, BoxOnWay
  <2> QED BY <2>1, <2>2
<1>12. \A e \in OnWay' : e.s = s => EventKnown(s, e)'
  BY <1>4, <1>8, <1>11 DEF EventKnown
<1>13. \A r \in Request : req'[r].s = s => RequestKnows(s, req[r])'
  BY <1>2, <1>3, <1>7, <1>8 DEF RequestKnows, GoroutineOn, Present
<1> QED BY <1>7, <1>9, <1>12, <1>13 DEF KnownOf

LEMMA DeleteKnown ==
    ASSUME HandsInv, OneRequest, NEW q \in Request, NEW s \in Legacy, s = req[q].s, KnownOf(s),
           DeleteRow(q), s \notin refused'
    PROVE  KnownOf(s)' /\ ~Started(s)'
<1>1. req[q] # NoRequest /\ req[q].op = "remove" /\ req[q].pc = "write"
  BY Nothing DEF DeleteRow, Writes
<1>2. req'[q] = NoRequest /\ \A r \in Request \ {q} : req'[r] = req[r] /\ req[r].s # s
  BY <1>1 DEF DeleteRow, Finished, HandsInv, RequestsOK, OneRequest
<1>3. ~Started(s) /\ gor[s] = NoGoroutine
  BY <1>1 DEF KnownOf, RequestKnows, GoroutineOn
<1>4. rows'[s] = NoRow /\ gor' = gor /\ box' = box
  BY DEF DeleteRow, Refused, HandsInv, RowsOK
<1>5. ~Started(s)' /\ ~Present(s)' /\ ~GoroutineOn(s)' /\ ~RequestOn(s)'
  BY <1>2, <1>3, <1>4, Nothing DEF Started, Present, GoroutineOn, RequestOn
<1>6. GoroutineKnows(s)' /\ RowKnows(s)'
  BY <1>3, <1>4, <1>5, Nothing DEF GoroutineKnows, RowKnows
<1>7. \A e \in OnWay' : e.s = s => EventKnown(s, e)'
  BY <1>5 DEF EventKnown
<1> QED BY <1>2, <1>5, <1>6, <1>7, Nothing DEF KnownOf

(* Requests begin alone.                                                     *)
LEMMA BeginKnown ==
    ASSUME HandsInv, Apart, NEW q \in Request, NEW s \in Legacy, NEW op \in Operation, KnownOf(s),
           Begin(q, s, op)
    PROVE  KnownOf(s)'
<1>1. /\ req[q] = NoRequest /\ op \in {"stop", "reload", "remove", "get"} /\ Present(s)
      /\ ~RequestOn(s) /\ (GoroutineOn(s) => op = "get")
      /\ rows' = rows /\ box' = box /\ gor' = gor /\ events' = events
  BY DEF Begin, Apart, Operation
<1>2. req' = [req EXCEPT ![q] = [op |-> op, s |-> s, pc |-> "docker", port |-> rows[s].port,
                                 cid |-> rows[s].cid, status |-> rows[s].status]]
  BY DEF Begin
<1>3. /\ req'[q].op = op /\ req'[q].s = s /\ req'[q].pc = "docker" /\ req'[q].cid = rows[s].cid
      /\ \A r \in Request \ {q} : req'[r] = req[r]
  BY <1>2 DEF HandsInv, RequestsOK
<1>4. ~Gone(s) /\ ~Gone(s)'
  BY <1>1, <1>3 DEF Gone, RequestOn
<1>5. KnownStill(s)
  BY <1>1, <1>4 DEF KnownStill, Present, Started, OnWay
<1>6. \A r \in Request : req'[r].s = s => req'[r] = req[r] \/ RequestKnows(s, req'[r])
  BY <1>1, <1>3 DEF RequestKnows, RequestOn
<1> QED BY <1>5, <1>6, KnownStays

LEMMA BeginCreateKnown ==
    ASSUME HandsInv, Apart, "stale" \notin env, NEW q \in Request, NEW s \in Legacy, KnownOf(s),
           BeginCreate(q, s)
    PROVE  KnownOf(s)'
<1>1. /\ req[q] = NoRequest /\ ~Present(s) /\ ~RequestOn(s) /\ ~EventOn(s)
      /\ rows' = rows /\ box' = box /\ gor' = gor /\ events' = events
  BY DEF BeginCreate, Apart
<1>2. /\ req'[q].op = "create" /\ req'[q].s = s
      /\ \A r \in Request \ {q} : req'[r] = req[r]
  BY DEF BeginCreate, NoRequest, HandsInv, RequestsOK
<1>3. ~Gone(s) /\ ~Gone(s)'
  BY <1>1, <1>2 DEF Gone, RequestOn
<1>4. \A e \in OnWay' : e.s # s
  BY <1>1 DEF EventOn, OnWay
<1>5. GoroutineKnows(s)' /\ RowKnows(s)'
  BY <1>1, <1>3 DEF KnownOf, GoroutineKnows, RowKnows, Started, Present
<1>6. \A r \in Request : req'[r].s = s => RequestKnows(s, req[r])'
  BY <1>1, <1>2 DEF RequestKnows, RequestOn
<1> QED BY <1>4, <1>5, <1>6 DEF KnownOf

(* The goroutine of a creation is alone with its container until it records  *)
(* the id: who would use the row wants one.                                  *)
LEMMA AloneWithBox ==
    ASSUME HandsInv, Owned, NEW s \in Legacy, KnownOf(s), gor[s].pc \in {"create", "start"}
    PROVE  /\ Present(s) /\ rows[s].cid = NoCid /\ ~Started(s) /\ GoroutineOn(s)
           /\ \A q \in Request : req[q].s # s
           /\ \A e \in OnWay : e.s # s
<1>1. Present(s) /\ rows[s].cid = NoCid /\ ~Started(s) /\ GoroutineOn(s)
  BY Nothing DEF KnownOf, GoroutineKnows, GoroutineOn, Started
<1>2. ASSUME NEW q \in Request, req[q].s = s
      PROVE  FALSE
  <2>1. RequestKnows(s, req[q]) /\ RequestShape(req[q]) /\ RequestOwns(q)
    BY <1>2 DEF KnownOf, HandsInv, RequestsOK, Owned
  <2>2. req[q] # NoRequest
    BY <1>2, Nothing
  <2>3. req[q].op # "create"
    BY <1>1, <1>2, <2>1 DEF RequestOwns
  <2>4. req[q].op = "get" /\ req[q].cid = NoCid
    BY <1>1, <2>1, <2>2, <2>3 DEF RequestKnows, RequestShape
  <2> QED BY <2>1, <2>2, <2>4, Nothing DEF RequestShape
<1>3. ~Gone(s)
  BY <1>2 DEF Gone
<1> QED BY <1>1, <1>2, <1>3 DEF KnownOf, EventKnown

LEMMA FailKnown ==
    ASSUME HandsInv, Owned, NEW s \in Legacy, KnownOf(s), gor[s].pc \in {"create", "start"},
           Fail(s), req' = req, s \notin refused'
    PROVE  KnownOf(s)' /\ ~Started(s)'
<1>1. /\ Present(s) /\ ~Started(s)
      /\ \A q \in Request : req[q].s # s
      /\ \A e \in OnWay : e.s # s
  BY AloneWithBox
<1>2. /\ rows'[s].cid = NoCid /\ gor'[s] = NoGoroutine /\ box' = box /\ events' = events
  BY <1>1, Updated DEF Fail, HandsInv, RowsOK, GoroutinesOK
<1>3. ~Started(s)' /\ OnWay' = OnWay
  BY <1>1, <1>2 DEF Started, OnWay
<1>4. GoroutineKnows(s)' /\ RowKnows(s)'
  BY <1>2, <1>3, Nothing DEF GoroutineKnows, RowKnows
<1> QED BY <1>1, <1>3, <1>4 DEF KnownOf

LEMMA CreateBoxKnown ==
    ASSUME HandsInv, Owned, NEW s \in Legacy, KnownOf(s), CreateBox(s), s \notin refused'
    PROVE  KnownOf(s)' /\ ~Started(s)'
<1>1. gor[s].pc = "create" /\ req' = req /\ events' = events
  BY DEF CreateBox, At, Fail
<1>3. CASE Fail(s)
  BY <1>1, <1>3, FailKnown
<1>4. ASSUME NEW c \in Cid, DockerCreate(s, c), rows' = rows,
             gor' = [gor EXCEPT ![s] = [pc |-> "start", port |-> gor[s].port, id |-> c]]
      PROVE  KnownOf(s)' /\ ~Started(s)'
  <2>1. /\ Present(s) /\ rows[s].cid = NoCid
        /\ \A q \in Request : req[q].s # s
        /\ \A e \in OnWay : e.s # s
    BY <1>1, AloneWithBox
  <2>2. /\ gor'[s].pc = "start" /\ gor'[s].id = c /\ gor'[s].port = gor[s].port
        /\ box'[s].id = c /\ box'[s].st = "created" /\ box'[s].port = gor[s].port
    BY <1>4 DEF DockerCreate, HandsInv, GoroutinesOK, BoxesOK
  <2>3. rows[s].port = gor[s].port
    BY <1>1 DEF KnownOf, GoroutineKnows
  <2>4. GoroutineKnows(s)' /\ RowKnows(s)' /\ ~Started(s)'
    BY <1>4, <2>1, <2>2, <2>3 DEF GoroutineKnows, RowKnows, Started, Present
  <2> QED BY <1>1, <2>1, <2>4 DEF KnownOf, OnWay
<1> QED BY <1>3, <1>4 DEF CreateBox

LEMMA StartBoxKnown ==
    ASSUME HandsInv, Owned, NEW s \in Legacy, KnownOf(s), StartBox(s), s \notin refused'
    PROVE  KnownOf(s)' /\ (Fail(s) => ~Started(s)')
<1>1. gor[s].pc = "start" /\ req' = req
  BY DEF StartBox, At
<1>2. CASE Fail(s)
  BY <1>1, <1>2, FailKnown
<1>3. CASE ~Fail(s)
  <2>1. /\ box[s].id = gor[s].id /\ DockerStart(s) /\ rows' = rows
        /\ gor' = [gor EXCEPT ![s].pc = "final"]
    BY <1>3 DEF StartBox
  <2>2. /\ Present(s) /\ rows[s].cid = NoCid
        /\ \A q \in Request : req[q].s # s
        /\ \A e \in OnWay : e.s # s
    BY <1>1, AloneWithBox
  <2>3. box[s].st = "created" /\ box[s].port = gor[s].port /\ rows[s].port = gor[s].port
    BY <1>1 DEF KnownOf, GoroutineKnows
  <2>4. /\ gor'[s].pc = "final" /\ gor'[s].id = gor[s].id /\ gor'[s].port = gor[s].port
        /\ box'[s].id = box[s].id /\ box'[s].st = "running" /\ box'[s].port = box[s].port
        /\ \A t \in Legacy \ {s} : gor'[t] = gor[t] /\ box'[t] = box[t]
    BY <2>1 DEF DockerStart, HandsInv, GoroutinesOK, BoxesOK
  <2>5. \A e \in OnWay' : e \in OnWay \/ (e.s = s /\ e.id = box[s].id)
    BY <2>1, <2>3, StartOnWay, Nothing
  <2>6. GoroutineKnows(s)' /\ RowKnows(s)' /\ Started(s)'
    BY <2>1, <2>2, <2>3, <2>4 DEF GoroutineKnows, RowKnows, Started, Present
  <2>7. \A e \in OnWay' : e.s = s => EventKnown(s, e)'
    BY <2>2, <2>4, <2>5, <2>6 DEF EventKnown
  <2> QED BY <1>1, <1>3, <2>2, <2>6, <2>7 DEF KnownOf
<1> QED BY <1>2, <1>3

LEMMA RecordKnown ==
    ASSUME HandsInv, Owned, NEW s \in Legacy, KnownOf(s), RecordId(s), s \notin refused'
    PROVE  KnownOf(s)' /\ Present(s) /\ Started(s)
<1>1. gor[s].pc = "final" /\ req' = req /\ box' = box /\ events' = events
  BY DEF RecordId, At
<1>2. /\ Present(s) /\ rows[s].port = gor[s].port /\ rows[s].cid \in {NoCid, gor[s].id}
      /\ box[s].id = gor[s].id /\ Started(s)
  BY <1>1 DEF KnownOf, GoroutineKnows
<1>3. /\ rows'[s].cid = gor[s].id /\ rows'[s].port = rows[s].port /\ Present(s)'
      /\ gor'[s] = NoGoroutine
  BY <1>2, Updated DEF RecordId, HandsInv, RowsOK, GoroutinesOK, Present
<1>5. GoroutineOn(s) /\ Started(s)' /\ (Gone(s)' <=> Gone(s))
  BY <1>1, <1>2, Nothing DEF GoroutineOn, Started, Gone
<1>6. box[s].port = rows[s].port
  BY <1>2 DEF KnownOf, RowKnows
<1>7. GoroutineKnows(s)' /\ RowKnows(s)'
  BY <1>1, <1>2, <1>3, <1>5, <1>6, Nothing DEF GoroutineKnows, RowKnows
<1>8. ASSUME NEW q \in Request, req[q].s = s
      PROVE  RequestKnows(s, req[q])'
  <2>1. RequestKnows(s, req[q]) /\ RequestShape(req[q]) /\ req[q] # NoRequest
    BY <1>8, Nothing DEF KnownOf, HandsInv, RequestsOK
  <2>2. req[q].op \in {"create", "get"}
    BY <1>5, <2>1 DEF RequestKnows, RequestShape
  <2>3. req[q].op = "get" => req[q].cid = gor[s].id
    BY <1>2, <2>1, <2>2, Nothing DEF RequestKnows, RequestShape
  <2> QED BY <1>1, <1>3, <2>2, <2>3 DEF RequestKnows
<1>9. ~Gone(s)
  BY <1>5 DEF Gone, KnownOf, RequestKnows
<1>10. \A e \in OnWay' : e.s = s => EventKnown(s, e)'
  BY <1>1, <1>2, <1>5, <1>9 DEF KnownOf, EventKnown, OnWay
<1> QED BY <1>1, <1>2, <1>7, <1>8, <1>10 DEF KnownOf

(* Docker turns a container on its own, which stays the one on record.       *)
LEMMA DockerKnown ==
    ASSUME HandsInv, NEW s \in Legacy, KnownOf(s), Exit(s) \/ Resume(s)
    PROVE  KnownOf(s)'
<1>1. box[s] # NoBox /\ Started(s) /\ box[s].st # "created" /\ req' = req /\ rows' = rows /\ gor' = gor
  BY Nothing DEF Exit, Resume, Started
<1>2. /\ box'[s].id = box[s].id /\ box'[s].port = box[s].port
      /\ Started(s)'
  BY DEF Exit, Resume, DockerStart, Started, HandsInv, BoxesOK
<1>3. \A e \in OnWay' : e \in OnWay \/ (e.s = s /\ e.id = box[s].id)
  BY <1>1, StartOnWay DEF Exit, Resume
<1>4. gor[s].pc # "start"
  BY <1>1 DEF KnownOf, GoroutineKnows
<1>5. KnownStill(s)
  BY <1>1, <1>2, <1>3, <1>4 DEF KnownStill, Present, Gone, RequestOn
<1> QED BY <1>1, <1>5, KnownStays

(* An event records the id of its container: it is on record, or about to    *)
(* be, or its session has no row any more.                                   *)
LEMMA HandleKnown ==
    ASSUME HandsInv, OneRequest, HandleEvent, NEW s \in Legacy, s = Head(events).s, KnownOf(s),
           s \notin refused'
    PROVE  KnownOf(s)'
<1> DEFINE e == Head(events)
<1>1. /\ req' = req /\ box' = box /\ gor' = gor /\ events # <<>> /\ events' = Tail(events)
      /\ \E st \in Status \ {"absent"} : UpdateStatus(s, st, e.id)
  BY DEF HandleEvent, Status
<1>2. OnWay' \subseteq OnWay /\ e \in OnWay /\ e \in Event
  BY <1>1, LeftOnWay DEF HandsInv, EventsOK, OnWay
<1>3. EventKnown(s, e)
  BY <1>2 DEF KnownOf
<1>5. \E c : c = e.id
  OBVIOUS
<1>6. PICK c : c = e.id
  BY <1>5
<1>7. \E st \in Status \ {"absent"} : UpdateStatus(s, st, c)
  BY <1>1, <1>6
<1>8. EventKnown(s, e) /\ (EventKnown(s, e) => \/ Started(s) /\ c = box[s].id
                                               \/ Gone(s) /\ c = rows[s].cid
                                               \/ ~Present(s))
  BY <1>3, <1>6 DEF EventKnown
<1> HIDE DEF e
<1>9. /\ Present(s)' <=> Present(s)
      /\ rows'[s].port = rows[s].port
      /\ rows'[s].cid = IF Present(s) THEN c ELSE rows[s].cid
  BY <1>7, Updated DEF Present, HandsInv, RowsOK
<1>10. CASE rows'[s].cid = rows[s].cid
  <2>1. KnownStill(s)
    BY <1>1, <1>2, <1>9, <1>10 DEF KnownStill, Started, Gone, RequestOn
  <2> QED BY <1>1, <2>1, KnownStays
<1>11. CASE rows'[s].cid # rows[s].cid
  <2>1. Started(s) /\ c = box[s].id /\ Present(s) /\ rows'[s].cid = c
    BY <1>8, <1>9, <1>11
  <2>2. gor[s].pc = "final" /\ box[s].port = rows[s].port /\ GoroutineOn(s)
    BY <1>11, <2>1, Nothing DEF KnownOf, RowKnows, GoroutineOn
  <2>3. ~Gone(s)
    BY <2>2 DEF Gone, KnownOf, RequestKnows
  <2>4. rows[s].cid = NoCid
    BY <1>11, <2>1, <2>3 DEF KnownOf, RowKnows
  <2>5. Started(s)' /\ (Gone(s)' <=> Gone(s))
    BY <1>1, <2>1 DEF Started, Gone
  <2>6. GoroutineKnows(s)' /\ RowKnows(s)'
    BY <1>1, <1>9, <2>1, <2>2, <2>5 DEF KnownOf, GoroutineKnows, RowKnows
  <2>7. \A f \in OnWay' : f.s = s => EventKnown(s, f)'
    BY <1>1, <1>2, <1>9, <2>1, <2>3, <2>5 DEF KnownOf, EventKnown
  <2>8. ASSUME NEW q \in Request, req[q].s = s
        PROVE  RequestKnows(s, req[q])'
    <3>1. RequestKnows(s, req[q]) /\ RequestShape(req[q]) /\ req[q] # NoRequest
      BY <2>8, Nothing DEF KnownOf, HandsInv, RequestsOK
    <3>2. req[q].op = "create"
      BY <2>2, <2>4, <3>1, Nothing DEF RequestKnows, RequestShape
    <3> QED BY <1>1, <3>2 DEF RequestKnows
  <2> QED BY <1>1, <2>6, <2>7, <2>8 DEF KnownOf
<1> QED BY <1>10, <1>11

LEMMA KnownStep ==
    ASSUME KnownInv, [Next]_vars
    PROVE  KnownInv'
<1>1. OwnInv' /\ env' = env
  BY OwnStep, EnvChosen DEF KnownInv
<1> SUFFICES ASSUME ~restarted'
             PROVE  phase' = "serve" /\ (Clean' => \A s \in Legacy \ refused' : KnownOf(s)')
  BY <1>1 DEF KnownInv, Clean
<1>2. ~Crash
  BY DEF Crash
<1>3. restarted' = restarted
  BY <1>2, EnvChosen
<1>4. phase = "serve" /\ ~RecoverPorts
  BY <1>3 DEF KnownInv, RecoverPorts
<1>5. phase' = "serve"
  BY <1>2, <1>4, EnvChosen
<1> SUFFICES ASSUME Clean'
             PROVE  \A s \in Legacy \ refused' : KnownOf(s)'
  BY <1>5
<1>6. Clean
  BY <1>1, <1>3 DEF Clean, Apart
<1>7. /\ HandsInv /\ OneRequest /\ Owned
      /\ refused \subseteq refused' /\ \A s \in Legacy \ refused : KnownOf(s)
  BY <1>6, CleanFacts, RefusedGrows
<1>8. ASSUME NEW s \in Legacy, s \notin refused' => KnownOf(s)', OnlyOn(s)
      PROVE  \A t \in Legacy \ refused' : KnownOf(t)'
  BY <1>7, <1>8, OthersKnown
<1>9. ASSUME NEW q \in Request,
             CallFails(q) \/ StopBox(q) \/ RestartBox(q) \/ RemoveBox(q) \/ InspectBox(q)
             \/ AcquirePort(q) \/ InsertRow(q)
             \/ ReleasePort(q) \/ DeleteRow(q) \/ MarkStopped(q) \/ MarkReloaded(q) \/ SyncRow(q)
      PROVE  \A t \in Legacy \ refused' : KnownOf(t)'
  <2>1. req[q] # NoRequest /\ req[q].s \in Legacy
    BY <1>7, <1>9, Nothing DEF CallFails, StopBox, RestartBox, RemoveBox, InspectBox, AcquirePort, InsertRow,
       ReleasePort, DeleteRow, MarkStopped, MarkReloaded, SyncRow, Mark, Calls, Writes,
       HandsInv, RequestsOK, RequestShape
  <2>2. PICK s \in Legacy : s = req[q].s
    BY <2>1
  <2>3. s \notin refused' => KnownOf(s)'
    BY <1>7, <1>9, <2>2, QuietCallKnown, TurnKnown, MarkKnown, InsertKnown, RemoveKnown, DeleteKnown
  <2>4. OnlyOn(s)
    <3>1. OnlyOn(req[q].s)
      BY <1>7, <1>9, <2>1, RequestOnly
    <3> QED BY <2>2, <3>1 DEF OnlyOn
  <2> QED BY <1>8, <2>3, <2>4
<1>10. CASE Ask
  BY <1>6, <1>7, <1>8, <1>9, <1>10, BeginKnown, BeginCreateKnown, BeginOnly DEF Ask, Clean
<1>11. CASE Work
  BY <1>7, <1>8, <1>11, CreateBoxKnown, StartBoxKnown, RecordKnown, ContainerOnly DEF Work
<1>12. ASSUME NEW s \in Legacy, Exit(s) \/ Resume(s)
       PROVE  \A t \in Legacy \ refused' : KnownOf(t)'
  BY <1>7, <1>8, <1>12, DockerKnown, ContainerOnly
<1>13. CASE HandleEvent
  <2>1. Head(events) \in Event
    BY <1>7, <1>13 DEF HandleEvent, HandsInv, EventsOK
  <2>2. PICK s \in Legacy : s = Head(events).s
    BY <2>1 DEF Event
  <2> QED BY <1>7, <1>8, <1>13, <2>2, HandleKnown, ContainerOnly
<1>14. CASE BreakStream \/ Reconnect \/ Elsewhere \/ UNCHANGED vars
  <2>1. rows' = rows /\ box' = box /\ gor' = gor /\ req' = req
    BY <1>14 DEF BreakStream, Reconnect, Elsewhere, vars
  <2>2. OnWay' \subseteq OnWay
    <3>1. CASE BreakStream
      BY <1>7, <3>1, LeftOnWay DEF BreakStream, HandsInv
    <3>2. CASE events' = events
      BY <3>2 DEF OnWay
    <3> QED BY <1>14, <3>1, <3>2 DEF Reconnect, Elsewhere, vars
  <2>3. OnlyOn(NoSession)
    BY <2>1, <2>2 DEF OnlyOn
  <2> QED BY <1>7, <2>3, OthersKnown, Nothing
<1> QED BY <1>2, <1>4, <1>10, <1>11, <1>12, <1>13, <1>14 DEF Next, Docker, Watch

LEMMA KnownInit == Init => KnownInv
<1> SUFFICES ASSUME Init PROVE KnownInv
  OBVIOUS
<1>1. ASSUME NEW s \in Legacy
      PROVE  KnownOf(s)
  <2>1. rows[s] = NoRow /\ box[s] = NoBox /\ gor[s] = NoGoroutine /\ events = <<>>
    BY DEF Init
  <2>2. OnWay = {} /\ \A q \in Request : req[q].s # s
    BY <2>1, Nothing DEF Init, OnWay
  <2> QED BY <2>1, <2>2, Nothing DEF KnownOf, GoroutineKnows, RowKnows, Started
<1> QED BY <1>1, OwnInit DEF KnownInv, Init

(* At rest a container that runs is the one on record, with a port that is   *)
(* its own, as long as no call on it was refused: Stop, Reload and Remove    *)
(* reach it (service.go:574).                                                *)
THEOREM ContainersRunningIsKnown == Spec => []RunningIsKnown
<1>1. KnownInv => RunningIsKnown
  <2> SUFFICES ASSUME KnownInv, Apart, ~restarted, env \cap {"stale"} = {},
                      NEW s \in Legacy \ (refused \cup dispossessed), Quiet(s), box[s].st = "running"
               PROVE  rows[s].cid = box[s].id /\ used[box[s].port] = s
    BY DEF RunningIsKnown
  <2>1. Owned /\ KnownOf(s)
    BY CleanFacts DEF Clean
  <2>2. gor[s] = NoGoroutine /\ ~Removing(s)
    BY DEF Quiet, GoroutineOn, RequestOn, Removing
  <2>3. Present(s) /\ box[s].port = rows[s].port /\ rows[s].cid = box[s].id
    BY <2>1, <2>2, Nothing DEF KnownOf, RowKnows, Started
  <2> QED BY <2>1, <2>2, <2>3 DEF Owned, RowsOwn
<1> QED BY <1>1, KnownInit, KnownStep, PTL DEF Spec
-----------------------------------------------------------------------------
(* While nothing meets, no event is lost, the process has not crashed and no *)
(* call was refused: a row that nobody is about to write tells whether its   *)
(* container runs; the last event on its way, and a request about to write,  *)
(* tell the truth.                                                           *)
Latest(s, e) ==
    \E i \in DOMAIN events :
        events[i] = e /\ e.s = s /\ \A j \in DOMAIN events : events[j].s = s => j <= i

Tells(s) ==
    /\ box[s].st = "running" => rows[s].status \in {"starting", "running"}
    /\ box[s].st \in {"exited", "failed"} => rows[s].status \in {"stopped", "crashed"}

Writing(s) == \E q \in Request : req[q].s = s /\ req[q].op \in {"stop", "reload"} /\ req[q].pc = "write"

WritesTruth(s, r) ==
    /\ r.op = "stop" /\ r.pc = "write" => box[s].st \in {"exited", "failed"}
    /\ r.op = "reload" /\ r.pc = "write" => box[s].st \in {"running", "restarting"}
    /\ r.op = "get" /\ r.pc = "write" =>
         \/ r.status = "running" /\ box[s].st \in {"running", "restarting"}
         \/ r.status \in {"stopped", "crashed"} /\ box[s].st \in {"exited", "failed"}

TellOf(s) ==
    /\ ~EventOn(s) /\ ~GoroutineOn(s) /\ ~Writing(s) => Tells(s)
    /\ gor[s].pc = "final" => box[s].st \in {"running", "restarting"}
    /\ \A e \in Event : Latest(s, e) /\ Started(s) => (e.type = "start" <=> box[s].st = "running")
    /\ \A q \in Request : req[q].s = s => WritesTruth(s, req[q])

TellInv ==
    /\ KnownInv
    /\ env = {} => stream = "open" /\ (~restarted => \A s \in Legacy \ refused : TellOf(s))

(* Events about one session leave the order of the others alone.             *)
Ordered(s) ==
    \A t \in Legacy \ {s} : /\ EventOn(t)' <=> EventOn(t)
                            /\ \A e \in Event : Latest(t, e)' => Latest(t, e)

LEMMA UnchangedOrder ==
    ASSUME events' = events
    PROVE  \A t : (EventOn(t)' <=> EventOn(t)) /\ \A e : Latest(t, e)' <=> Latest(t, e)
BY DEF EventOn, Latest

LEMMA Appended ==
    ASSUME EventsOK, NEW s \in Legacy, NEW new \in Seq(Event), events' = events \o new,
           \A k \in 1..Len(new) : new[k].s = s
    PROVE  /\ Ordered(s)
           /\ Len(new) > 0 => EventOn(s)' /\ \A e \in Event : Latest(s, e)' => e = new[Len(new)]
<1> DEFINE n == Len(events)
           m == Len(new)
<1>1. n \in Nat /\ m \in Nat /\ DOMAIN events = 1..n /\ DOMAIN new = 1..m
  BY DEF EventsOK
<1>2. /\ DOMAIN events' = 1..(n + m)
      /\ \A i \in 1..n : events'[i] = events[i]
      /\ \A i \in 1..m : events'[n + i] = new[i]
  BY <1>1 DEF EventsOK
<1>3. n \in Nat /\ m \in Nat
  BY <1>1
<1>4. PICK N \in Nat, M \in Nat : N = n /\ M = m
  BY <1>3
<1>5. /\ DOMAIN events = 1..N /\ DOMAIN events' = 1..(N + M)
      /\ \A i \in 1..N : events'[i] = events[i]
      /\ \A i \in 1..M : events'[N + i] = new[i] /\ new[i].s = s
  BY <1>1, <1>2, <1>4
<1> HIDE DEF n, m
<1>6. \A i \in 1..(N + M) : i \notin 1..N => i - N \in 1..M /\ N + (i - N) = i
  OBVIOUS
<1>7. \A i \in 1..(N + M) : i \notin 1..N => events'[i].s = s
  BY <1>5, <1>6
<1>8. ASSUME NEW t \in Legacy \ {s}
      PROVE  (EventOn(t)' <=> EventOn(t)) /\ \A e \in Event : Latest(t, e)' => Latest(t, e)
  <2>1. EventOn(t)' <=> EventOn(t)
    BY <1>5, <1>7 DEF EventOn
  <2>2. ASSUME NEW e \in Event, Latest(t, e)'
        PROVE  Latest(t, e)
    <3>1. PICK i \in DOMAIN events' :
            events'[i] = e /\ e.s = t /\ \A j \in DOMAIN events' : events'[j].s = t => j <= i
      BY <2>2 DEF Latest
    <3>2. i \in 1..N
      BY <1>5, <1>7, <3>1
    <3> QED BY <1>5, <3>1, <3>2 DEF Latest
  <2> QED BY <2>1, <2>2
<1>9. ASSUME m > 0
      PROVE  EventOn(s)' /\ \A e \in Event : Latest(s, e)' => e = new[m]
  <2>1. N + M \in DOMAIN events' /\ events'[N + M] = new[M] /\ new[M].s = s
    BY <1>4, <1>5, <1>9
  <2>2. EventOn(s)'
    BY <2>1 DEF EventOn
  <2>3. ASSUME NEW e \in Event, Latest(s, e)'
        PROVE  e = new[m]
    <3>1. PICK i \in DOMAIN events' :
            events'[i] = e /\ \A j \in DOMAIN events' : events'[j].s = s => j <= i
      BY <2>3 DEF Latest
    <3>2. N + M <= i /\ i \in 1..(N + M)
      BY <1>5, <2>1, <3>1
    <3>3. i = N + M
      BY <3>2
    <3> QED BY <1>4, <2>1, <3>1, <3>3
  <2> QED BY <2>2, <2>3
<1> QED BY <1>8, <1>9 DEF Ordered, m

LEMMA TwoEvents ==
    ASSUME NEW S, NEW a \in Seq(S), NEW b \in Seq(S), Len(a) = 1, Len(b) = 1
    PROVE  Len(a \o b) = 2 /\ (a \o b)[1] = a[1] /\ (a \o b)[2] = b[1]
<1>1. Len(a \o b) = Len(a) + Len(b)
  OBVIOUS
<1>2. (a \o b)[1] = a[1] /\ (a \o b)[2] = b[1]
  OBVIOUS
<1> QED BY <1>1, <1>2

LEMMA SaidOrder ==
    ASSUME EventsOK, BoxesOK, stream = "open", NEW s \in Legacy, box[s] # NoBox
    PROVE  /\ Emit(Said("start", s, box[s].id)) \/ Emit(DieIfUp(s) \o Said("start", s, box[s].id))
                => Ordered(s) /\ EventOn(s)' /\ \A e \in Event : Latest(s, e)' => e.type = "start"
           /\ Emit(DieIfUp(s)) => Ordered(s)
           /\ Emit(DieIfUp(s)) /\ box[s].st = "running"
                => EventOn(s)' /\ \A e \in Event : Latest(s, e)' => e.type = "die"
           /\ Emit(DieIfUp(s)) /\ box[s].st # "running" => events' = events
<1> DEFINE start == Said("start", s, box[s].id)
           die == Said("die", s, box[s].id)
<1>1. /\ start \in Seq(Event) /\ Len(start) = 1 /\ start[1].s = s /\ start[1].type = "start"
      /\ die \in Seq(Event) /\ Len(die) = 1 /\ die[1].s = s /\ die[1].type = "die"
  <2>1. start \in Seq(Event) /\ die \in Seq(Event)
    BY SaidTyped
  <2> QED BY <2>1 DEF Said
<1>2. \A new \in Seq(Event) : Emit(new) => events' = events \o new
  BY DEF Emit
<1> HIDE DEF start, die
<1>3. ASSUME NEW new \in Seq(Event), Emit(new), new \in {start, die, die \o start}
      PROVE  /\ Ordered(s) /\ EventOn(s)'
             /\ new \in {start, die \o start} => \A e \in Event : Latest(s, e)' => e.type = "start"
             /\ new = die => \A e \in Event : Latest(s, e)' => e.type = "die"
  <2>1. CASE new = start \/ new = die
    <3>1. Len(new) = 1 /\ \A k \in 1..Len(new) : new[k].s = s
      BY <1>1, <2>1
    <3>2. events' = events \o new
      BY <1>2, <1>3
    <3>3. /\ Ordered(s) /\ EventOn(s)' /\ \A e \in Event : Latest(s, e)' => e = new[Len(new)]
      <4>1. Len(new) > 0
        BY <3>1
      <4>2. EventsOK /\ events' = events \o new /\ \A k \in 1..Len(new) : new[k].s = s
        BY <3>1, <3>2
      <4> QED BY <4>1, <4>2, Appended, Zenon
    <3>4. start # die
      BY <1>1
    <3>5. Len(die \o start) = 2
      BY <1>1, TwoEvents
    <3> QED BY <1>1, <2>1, <3>1, <3>3, <3>4, <3>5
  <2>2. CASE new = die \o start
    <3>1. Len(new) = 2 /\ new[1] = die[1] /\ new[2] = start[1]
      BY <1>1, <2>2, TwoEvents
    <3>2. \A k \in 1..Len(new) : new[k].s = s
      BY <1>1, <3>1
    <3>3. events' = events \o new
      BY <1>2, <1>3
    <3>4. /\ Ordered(s) /\ EventOn(s)' /\ \A e \in Event : Latest(s, e)' => e = new[Len(new)]
      <4>1. Len(new) > 0
        BY <3>1
      <4>2. EventsOK /\ events' = events \o new /\ \A k \in 1..Len(new) : new[k].s = s
        BY <3>1, <3>2, <3>3
      <4> QED BY <4>1, <4>2, Appended, Zenon
    <3>5. new # die
      BY <1>1, <3>1
    <3> QED BY <1>1, <3>1, <3>4, <3>5
  <2> QED BY <1>3, <2>1, <2>2
<1>4. DieIfUp(s) = IF box[s].st = "running" THEN die ELSE <<>>
  BY DEF DieIfUp, die
<1>5. <<>> \o start = start /\ die \o start \in Seq(Event)
  BY <1>1
<1>6. Emit(<<>>) => events' = events
  BY DEF Emit, EventsOK
<1>7. events' = events => Ordered(s)
  BY UnchangedOrder DEF Ordered
<1>8. Emit(start) \/ Emit(DieIfUp(s) \o start)
        => Ordered(s) /\ EventOn(s)' /\ \A e \in Event : Latest(s, e)' => e.type = "start"
  <2>1. DieIfUp(s) \o start \in {start, die \o start}
    BY <1>4, <1>5
  <2>2. Emit(start) \/ Emit(DieIfUp(s) \o start)
          => \E new \in {start, die \o start} : Emit(new)
    BY <2>1
  <2> QED BY <1>1, <1>3, <1>5, <2>2
<1>9. Emit(DieIfUp(s)) /\ box[s].st = "running"
        => Ordered(s) /\ EventOn(s)' /\ \A e \in Event : Latest(s, e)' => e.type = "die"
  BY <1>1, <1>3, <1>4
<1>10. Emit(DieIfUp(s)) /\ box[s].st # "running" => events' = events
  BY <1>4, <1>6
<1> QED BY <1>7, <1>8, <1>9, <1>10 DEF start

LEMMA HandledOrder ==
    ASSUME EventsOK, NEW s \in Legacy, events # <<>>, events' = Tail(events), s = Head(events).s
    PROVE  /\ Ordered(s)
           /\ \A e \in Event : Latest(s, e)' => Latest(s, e)
           /\ ~EventOn(s)' => Latest(s, Head(events))
<1>1. PICK N \in Nat : N = Len(events)
  BY DEF EventsOK
<1>2. /\ N > 0 /\ DOMAIN events = 1..N /\ DOMAIN events' = 1..(N - 1)
      /\ \A i \in 1..(N - 1) : events'[i] = events[i + 1]
      /\ events[1] = Head(events)
  BY <1>1 DEF EventsOK
<1>3. \A i \in 1..N : i # 1 => i - 1 \in 1..(N - 1) /\ events'[i - 1] = events[i]
  <2>1. \A i \in 1..N : i # 1 => i - 1 \in 1..(N - 1) /\ (i - 1) + 1 = i
    OBVIOUS
  <2> QED BY <1>2, <2>1
<1>4. \A i \in 1..(N - 1) : i + 1 \in 1..N /\ events[i + 1] = events'[i]
  BY <1>2
<1>5. ASSUME NEW t, NEW e \in Event, Latest(t, e)'
      PROVE  Latest(t, e)
  <2>1. PICK i \in 1..(N - 1) :
          events'[i] = e /\ e.s = t /\ \A j \in 1..(N - 1) : events'[j].s = t => j <= i
    BY <1>2, <1>5 DEF Latest
  <2>2. i + 1 \in 1..N /\ events[i + 1] = e
    BY <1>4, <2>1
  <2>3. \A j \in 1..N : events[j].s = t => j <= i + 1
    <3> SUFFICES ASSUME NEW j \in 1..N, events[j].s = t
                 PROVE  j <= i + 1
      OBVIOUS
    <3>1. CASE j # 1
      <4>1. j - 1 <= i
        BY <1>3, <2>1, <3>1
      <4> QED BY <4>1
    <3> QED BY <3>1
  <2> QED BY <1>2, <2>1, <2>2, <2>3 DEF Latest
<1>6. ASSUME NEW t \in Legacy \ {s}
      PROVE  EventOn(t)' <=> EventOn(t)
  <2>1. ASSUME NEW i \in 1..N, events[i].s = t
        PROVE  EventOn(t)'
    <3>1. i # 1
      BY <1>2, <2>1
    <3> QED BY <1>2, <1>3, <2>1, <3>1 DEF EventOn
  <2>2. ASSUME NEW i \in 1..(N - 1), events'[i].s = t
        PROVE  EventOn(t)
    <3>1. i + 1 \in 1..N /\ events[i + 1].s = t
      BY <1>4, <2>2
    <3> QED BY <1>2, <3>1 DEF EventOn
  <2> QED BY <1>2, <2>1, <2>2 DEF EventOn
<1>7. ASSUME ~EventOn(s)'
      PROVE  Latest(s, Head(events))
  <2>1. \A j \in 1..N : events[j].s = s => j = 1
    BY <1>2, <1>3, <1>7 DEF EventOn
  <2> QED BY <1>2, <2>1 DEF Latest
<1> QED BY <1>5, <1>6, <1>7 DEF Ordered

(* A step on a session tells nothing about the others.                       *)
LEMMA OthersTell ==
    ASSUME NEW s, OnlyOn(s), Ordered(s), refused \subseteq refused', \A t \in Legacy \ refused : TellOf(t)
    PROVE  \A t \in (Legacy \ refused') \ {s} : TellOf(t)'
<1> SUFFICES ASSUME NEW t \in (Legacy \ refused') \ {s}
             PROVE  TellOf(t)'
  OBVIOUS
<1>1. /\ rows'[t] = rows[t] /\ box'[t] = box[t] /\ gor'[t] = gor[t]
      /\ \A q \in Request : req[q].s = t \/ req'[q].s = t => req'[q] = req[q]
      /\ EventOn(t)' <=> EventOn(t)
      /\ \A e \in Event : Latest(t, e)' => Latest(t, e)
  BY DEF OnlyOn, Ordered
<1>2. (Writing(t)' <=> Writing(t)) /\ (GoroutineOn(t)' <=> GoroutineOn(t)) /\ (Tells(t)' <=> Tells(t))
      /\ (Started(t)' <=> Started(t))
  BY <1>1 DEF Writing, GoroutineOn, Tells, Started
<1>3. \A q \in Request : req'[q].s = t => WritesTruth(t, req[q])'
  BY <1>1 DEF TellOf, WritesTruth
<1> QED BY <1>1, <1>2, <1>3 DEF TellOf

(* A container that was never started, or is gone, has nothing to tell.      *)
LEMMA UnstartedTells ==
    ASSUME HandsInv', OneRequest', NEW s \in Legacy, KnownOf(s)', ~Started(s)'
    PROVE  TellOf(s)'
<1>1. Tells(s)'
  BY DEF Started, Tells
<1>2. gor'[s].pc # "final"
  BY DEF KnownOf, GoroutineKnows
<1>3. ASSUME NEW q \in Request, req'[q].s = s
      PROVE  WritesTruth(s, req[q])'
  <2>1. RequestKnows(s, req[q])' /\ RequestShape(req'[q]) /\ req'[q] # NoRequest
    BY <1>3, Nothing DEF KnownOf, HandsInv, RequestsOK, RequestShape
  <2>2. CASE req'[q].op \in {"stop", "reload", "get"}
    <3>1. rows'[s].cid # NoCid
      BY <2>1, <2>2, Nothing DEF RequestKnows, RequestShape
    <3>2. ~Gone(s)'
      BY <1>3, <2>1, <2>2 DEF Gone, OneRequest
    <3> QED BY <3>1, <3>2 DEF KnownOf, RowKnows
  <2> QED BY <2>2 DEF WritesTruth
<1> QED BY <1>1, <1>2, <1>3 DEF TellOf

(* A step that turns no container, writes no row and handles no event.       *)
LEMMA TellStays ==
    ASSUME NEW s \in Legacy, TellOf(s), rows'[s] = rows[s], box'[s] = box[s], gor'[s] = gor[s],
           events' = events, Writing(s) => Writing(s)',
           \A q \in Request : req'[q].s = s => req'[q] = req[q] \/ WritesTruth(s, req'[q])
    PROVE  TellOf(s)'
<1>1. (EventOn(s)' <=> EventOn(s)) /\ \A e : Latest(s, e)' <=> Latest(s, e)
  BY UnchangedOrder
<1>2. (GoroutineOn(s)' <=> GoroutineOn(s)) /\ (Tells(s)' <=> Tells(s)) /\ (Started(s)' <=> Started(s))
  BY DEF GoroutineOn, Tells, Started
<1>3. \A q \in Request : req'[q].s = s => WritesTruth(s, req[q])'
  BY DEF TellOf, WritesTruth
<1> QED BY <1>1, <1>2, <1>3 DEF TellOf

LEMMA QuietCallTells ==
    ASSUME HandsInv, OneRequest, NEW q \in Request, NEW s \in Legacy, s = req[q].s,
           KnownOf(s), TellOf(s),
           CallFails(q) \/ InspectBox(q) \/ AcquirePort(q) \/ ReleasePort(q)
    PROVE  TellOf(s)'
<1>1. req[q] # NoRequest /\ req[q].pc \in {"docker", "acquire", "release"}
  BY Nothing DEF CallFails, InspectBox, AcquirePort, ReleasePort, Calls
<1>2. \A r \in Request \ {q} : req'[r] = req[r] /\ req[r].s # s
  BY <1>1, RequestOnly DEF OneRequest
<1>3. ~Writing(s)
  BY <1>1, <1>2 DEF Writing
<1>4. rows' = rows /\ box' = box /\ gor' = gor /\ events' = events
  BY DEF CallFails, InspectBox, AcquirePort, ReleasePort
<1>5. req'[q].s = s => WritesTruth(s, req'[q])
  <2>1. CASE InspectBox(q)
    <3> DEFINE live == Live(req[q].s, req[q].cid)
    <3>1. req' = [req EXCEPT ![q] = IF live = req[q].status THEN NoRequest
                                    ELSE [@ EXCEPT !.pc = "write", !.status = live]]
      BY <2>1 DEF InspectBox
    <3>2. req[q].op = "get" /\ RequestShape(req[q]) /\ RequestKnows(s, req[q])
      BY <2>1 DEF InspectBox, Calls, HandsInv, RequestsOK, KnownOf
    <3>3. rows[s].cid = req[q].cid /\ rows[s].cid # NoCid
      BY <1>1, <3>2, Nothing DEF RequestKnows, RequestShape
    <3>4. ~Gone(s)
      BY <1>2, <3>2 DEF Gone
    <3>5. Started(s) /\ box[s].id = req[q].cid
      BY <3>3, <3>4 DEF KnownOf, RowKnows
    <3>6. \/ live = "running" /\ box[s].st \in {"running", "restarting"}
          \/ live \in {"stopped", "crashed"} /\ box[s].st \in {"exited", "failed"}
      BY <3>5 DEF Live, Started, HandsInv, BoxesOK
    <3> HIDE DEF live
    <3>7. \/ req'[q] = NoRequest
          \/ req'[q].op = "get" /\ req'[q].status = live
      BY <3>1, <3>2 DEF HandsInv, RequestsOK, RequestType
    <3> QED BY <3>6, <3>7, Nothing DEF WritesTruth
  <2>2. CASE CallFails(q) \/ (AcquirePort(q) /\ Finished(q))
    <3>1. req'[q] = NoRequest
      BY <2>2 DEF CallFails, Finished, HandsInv, RequestsOK
    <3> QED BY <3>1, Nothing
  <2>3. CASE ReleasePort(q)
    <3>1. req[q].op = "remove"
      BY <1>1, <2>3 DEF ReleasePort, HandsInv, RequestsOK, RequestShape
    <3> QED BY <2>3, <3>1 DEF ReleasePort, Goto, WritesTruth, HandsInv, RequestsOK, RequestType
  <2>4. CASE AcquirePort(q) /\ ~Finished(q)
    <3>1. req[q].op = "create"
      BY <1>1, <2>4 DEF AcquirePort, HandsInv, RequestsOK, RequestShape
    <3> QED BY <2>4, <3>1 DEF AcquirePort, WritesTruth, HandsInv, RequestsOK, RequestType
  <2> QED BY <2>1, <2>2, <2>3, <2>4
<1> QED BY <1>2, <1>3, <1>4, <1>5, TellStays

LEMMA BeginTells ==
    ASSUME HandsInv, Apart, NEW q \in Request, NEW s \in Legacy, TellOf(s),
           BeginCreate(q, s) \/ \E op \in Operation : Begin(q, s, op)
    PROVE  TellOf(s)'
<1>1. req[q] = NoRequest /\ ~RequestOn(s)
  BY DEF BeginCreate, Begin, Apart
<1>2. rows' = rows /\ box' = box /\ gor' = gor /\ events' = events
  BY DEF BeginCreate, Begin
<1>3. req'[q].pc # "write" /\ \A r \in Request \ {q} : req'[r] = req[r]
  <2>1. CASE BeginCreate(q, s)
    BY <2>1 DEF BeginCreate, NoRequest, HandsInv, RequestsOK
  <2>2. ASSUME NEW op \in Operation, Begin(q, s, op)
        PROVE  req'[q].pc # "write" /\ \A r \in Request \ {q} : req'[r] = req[r]
    BY <2>2 DEF Begin, HandsInv, RequestsOK
  <2> QED BY <2>1, <2>2
<1>4. ~Writing(s)
  BY <1>1 DEF Writing, RequestOn
<1> QED BY <1>1, <1>2, <1>3, <1>4, TellStays DEF WritesTruth

(* A write puts on record what its request knows.                            *)
LEMMA MarkTells ==
    ASSUME HandsInv, OneRequest, NEW q \in Request, NEW s \in Legacy, s = req[q].s,
           KnownOf(s), TellOf(s), MarkStopped(q) \/ MarkReloaded(q) \/ SyncRow(q), s \notin refused'
    PROVE  TellOf(s)'
<1>1. /\ req[q] # NoRequest /\ req[q].pc = "write"
      /\ \/ MarkStopped(q) /\ req[q].op = "stop"
         \/ MarkReloaded(q) /\ req[q].op = "reload"
         \/ SyncRow(q) /\ req[q].op = "get"
  BY Nothing DEF MarkStopped, MarkReloaded, SyncRow, Mark, Writes
<1>2. Present(s)
  BY MarkKnown
<1>3. req'[q] = NoRequest /\ \A r \in Request \ {q} : req'[r] = req[r] /\ req[r].s # s
  BY <1>1 DEF MarkStopped, MarkReloaded, SyncRow, Mark, Finished, HandsInv, RequestsOK, OneRequest
<1>4. box' = box /\ gor' = gor /\ events' = events
  BY DEF MarkStopped, MarkReloaded, SyncRow, Mark
<1>5. \/ req[q].op = "stop" /\ rows'[s].status = "stopped"
      \/ req[q].op = "reload" /\ rows'[s].status = "starting"
      \/ req[q].op = "get" /\ rows'[s].status = req[q].status
  BY <1>1, <1>2, Updated DEF MarkStopped, MarkReloaded, SyncRow, Mark, HandsInv, RowsOK
<1>6. WritesTruth(s, req[q])
  BY DEF TellOf
<1>7. Tells(s)'
  BY <1>1, <1>4, <1>5, <1>6 DEF WritesTruth, Tells
<1>8. (EventOn(s)' <=> EventOn(s)) /\ \A e : Latest(s, e)' <=> Latest(s, e)
  BY <1>4, UnchangedOrder
<1> QED BY <1>3, <1>4, <1>7, <1>8, Nothing DEF TellOf, Started

(* Stop and Reload turn the container, and write what they made of it.       *)
LEMMA TurnTells ==
    ASSUME HandsInv, OneRequest, NEW q \in Request, NEW s \in Legacy, s = req[q].s,
           KnownOf(s), TellOf(s), stream = "open", StopBox(q) \/ RestartBox(q), s \notin refused'
    PROVE  TellOf(s)'
<1>1. /\ Started(s) /\ Its(q) /\ box[s].st # "created" /\ box[s].id \in Cid
      /\ box[s].port = rows[s].port /\ Present(s) /\ gor'[s] = NoGoroutine
  BY TurnKnown
<1>2. req[q] # NoRequest /\ req[q].pc = "docker" /\ req[q].op \in {"stop", "reload"}
  BY Nothing DEF StopBox, RestartBox, Calls
<1>3. /\ req'[q].s = s /\ req'[q].op = req[q].op /\ req'[q].pc = "write"
      /\ \A r \in Request \ {q} : req'[r] = req[r] /\ req[r].s # s
  BY <1>2 DEF StopBox, RestartBox, Goto, HandsInv, RequestsOK, RequestType, OneRequest
<1>4. Writing(s)'
  BY <1>2, <1>3 DEF Writing
<1>5. box[s] # NoBox /\ EventsOK /\ BoxesOK
  BY <1>1, Nothing DEF HandsInv
<1>6. CASE StopBox(q)
  <2>1. req[q].op = "stop"
    BY <1>6 DEF StopBox, Calls
  <2>2. CASE box[s].st \in {"running", "restarting"}
    <3>1. /\ Emit(DieIfUp(s)) /\ box'[s].st \in {"exited", "failed"}
      BY <1>1, <1>6, <2>2 DEF StopBox, Declined, Refused, HandsInv, BoxesOK
    <3>2. WritesTruth(s, req[q])'
      BY <1>3, <2>1, <3>1 DEF WritesTruth
    <3>3. \A e \in Event : Latest(s, e)' => e.type # "start"
      <4>1. CASE box[s].st = "running"
        BY <1>5, <3>1, <4>1, SaidOrder
      <4>2. CASE box[s].st = "restarting"
        <5>1. \A e : Latest(s, e)' <=> Latest(s, e)
          BY <1>5, <3>1, <4>2, SaidOrder, UnchangedOrder
        <5> QED BY <1>1, <4>2, <5>1 DEF TellOf
      <4> QED BY <2>2, <4>1, <4>2
    <3> QED BY <1>1, <1>3, <1>4, <3>1, <3>2, <3>3, Nothing DEF TellOf
  <2>3. CASE box[s].st \notin {"running", "restarting"}
    <3>1. box' = box /\ events' = events /\ box[s].st \in {"exited", "failed"}
      BY <1>1, <1>6, <2>3 DEF StopBox, NothingToDo, Started, HandsInv, BoxesOK
    <3>2. WritesTruth(s, req[q])'
      BY <1>3, <2>1, <3>1 DEF WritesTruth
    <3>3. \A e : Latest(s, e)' <=> Latest(s, e)
      BY <3>1, UnchangedOrder
    <3> QED BY <1>1, <1>3, <1>4, <3>1, <3>2, <3>3, Nothing DEF TellOf, Started
  <2> QED BY <2>2, <2>3
<1>7. CASE RestartBox(q)
  <2>1. req[q].op = "reload"
    BY <1>7 DEF RestartBox, Calls
  <2>3. /\ Emit(DieIfUp(s) \o Said("start", s, box[s].id)) /\ box'[s].st = "running"
    BY <1>7 DEF RestartBox, Declined, Refused, HandsInv, BoxesOK
  <2>4. WritesTruth(s, req[q])'
    BY <1>3, <2>1, <2>3 DEF WritesTruth
  <2>5. \A e \in Event : Latest(s, e)' => e.type = "start"
    BY <1>5, <2>3, SaidOrder
  <2> QED BY <1>1, <1>3, <1>4, <2>3, <2>4, <2>5, Nothing DEF TellOf
<1> QED BY <1>6, <1>7

(* What happens to a session is announced after what happened before, and   *)
(* says nothing of the others.                                               *)
LEMMA RequestOrder ==
    ASSUME HandsInv, NEW q \in Request, NEW s \in Legacy, s = req[q].s, stream = "open",
           CallFails(q) \/ StopBox(q) \/ RestartBox(q) \/ RemoveBox(q) \/ InspectBox(q)
           \/ AcquirePort(q) \/ InsertRow(q)
           \/ ReleasePort(q) \/ DeleteRow(q) \/ MarkStopped(q) \/ MarkReloaded(q) \/ SyncRow(q)
    PROVE  Ordered(s)
<1>1. CASE events' = events
  BY <1>1, UnchangedOrder DEF Ordered
<1>2. CASE events' # events
  <2>1. StopBox(q) \/ RestartBox(q) \/ RemoveBox(q)
    BY <1>2 DEF CallFails, InspectBox, AcquirePort, InsertRow, ReleasePort, DeleteRow, Mark,
       MarkStopped, MarkReloaded, SyncRow
  <2>2. Emit(DieIfUp(s)) \/ Emit(DieIfUp(s) \o Said("start", s, box[s].id))
    BY <1>2, <2>1 DEF StopBox, RestartBox, RemoveBox, Declined, NothingToDo
  <2>3. Its(q) /\ req[q].cid # NoCid
    <3>1. req[q].op # "remove" => req[q].cid # NoCid
      BY <2>1, Nothing DEF StopBox, RestartBox, RemoveBox, Calls, HandsInv, RequestsOK, RequestShape
    <3> QED BY <1>2, <2>1, <3>1 DEF StopBox, RestartBox, RemoveBox, Calls, Declined, NothingToDo
  <2>4. box[s] # NoBox
    BY <2>3, Nothing DEF Its
  <2> QED BY <2>2, <2>4, SaidOrder DEF HandsInv
<1> QED BY <1>1, <1>2

LEMMA ContainerOrder ==
    ASSUME HandsInv, NEW s \in Legacy, stream = "open",
           \/ CreateBox(s) \/ StartBox(s) \/ RecordId(s) \/ Exit(s) \/ Resume(s)
           \/ HandleEvent /\ s = Head(events).s
    PROVE  Ordered(s)
<1>1. CASE events' = events
  BY <1>1, UnchangedOrder DEF Ordered
<1>2. CASE HandleEvent /\ s = Head(events).s
  BY <1>2, HandledOrder DEF HandleEvent, HandsInv
<1>3. CASE events' # events /\ ~(HandleEvent /\ s = Head(events).s)
  <2>1. Emit(DieIfUp(s)) \/ Emit(Said("start", s, box[s].id))
    BY <1>3 DEF CreateBox, StartBox, RecordId, Exit, Resume, Fail, DockerStart
  <2>2. box[s] # NoBox
    BY <1>3, Nothing DEF CreateBox, StartBox, RecordId, Exit, Resume, Fail, At, HandsInv, GoroutinesOK, GoroutineShape
  <2> QED BY <2>1, <2>2, SaidOrder DEF HandsInv
<1> QED BY <1>1, <1>2, <1>3

(* The goroutine of a creation leaves a container that runs, or none that    *)
(* was started.                                                              *)
LEMMA WorkTells ==
    ASSUME HandsInv, HandsInv', OneRequest', Owned, NEW s \in Legacy, KnownOf(s), KnownOf(s)', TellOf(s),
           stream = "open", CreateBox(s) \/ StartBox(s) \/ RecordId(s), s \notin refused'
    PROVE  TellOf(s)'
<1>1. CASE CreateBox(s)
  BY <1>1, CreateBoxKnown, UnstartedTells
<1>2. CASE StartBox(s) /\ Fail(s)
  BY <1>2, StartBoxKnown, UnstartedTells
<1>3. CASE StartBox(s) /\ ~Fail(s)
  <2>1. /\ gor[s].pc = "start" /\ req' = req /\ Emit(Said("start", s, box[s].id))
        /\ box'[s].st = "running" /\ box[s].id = gor[s].id
    BY <1>3 DEF StartBox, At, DockerStart, HandsInv, BoxesOK
  <2>2. \A q \in Request : req'[q].s # s
    BY <2>1, AloneWithBox
  <2>3. box[s] # NoBox
    BY <2>1, Nothing DEF HandsInv, GoroutinesOK, GoroutineShape
  <2>4. EventOn(s)' /\ \A e \in Event : Latest(s, e)' => e.type = "start"
    BY <2>1, <2>3, SaidOrder DEF HandsInv
  <2> QED BY <2>1, <2>2, <2>4 DEF TellOf
<1>4. CASE RecordId(s)
  <2>1. gor[s].pc = "final" /\ req' = req /\ box' = box /\ events' = events
    BY <1>4 DEF RecordId, At
  <2>2. Present(s)
    BY <1>4, RecordKnown
  <2>3. rows'[s].status = "starting" /\ gor'[s] = NoGoroutine
    BY <1>4, <2>2, Updated DEF RecordId, HandsInv, RowsOK, GoroutinesOK
  <2>4. box[s].st \in {"running", "restarting"}
    BY <2>1 DEF TellOf
  <2>5. Tells(s)'
    BY <2>1, <2>3, <2>4 DEF Tells
  <2>6. \A e : Latest(s, e)' <=> Latest(s, e)
    BY <2>1, UnchangedOrder
  <2>8. \A q \in Request : req[q].s = s => WritesTruth(s, req[q])'
    BY <2>1 DEF TellOf, WritesTruth
  <2> QED BY <2>1, <2>3, <2>5, <2>6, <2>8, Nothing DEF TellOf, Started
<1> QED BY <1>1, <1>2, <1>3, <1>4

(* What a container does on its own is announced, and not yet handled.       *)
LEMMA DockerTells ==
    ASSUME HandsInv, NEW s \in Legacy, TellOf(s), stream = "open", Exit(s) \/ Resume(s)
    PROVE  TellOf(s)'
<1>1. /\ box[s] # NoBox /\ box[s].st \in {"running", "restarting"}
      /\ req' = req /\ gor' = gor
  BY Nothing DEF Exit, Resume
<1>2. \/ Exit(s) /\ box[s].st = "running" /\ box'[s].st = "restarting" /\ Emit(DieIfUp(s))
      \/ Resume(s) /\ box'[s].st = "running" /\ Emit(Said("start", s, box[s].id))
  BY DEF Exit, Resume, DockerStart, HandsInv, BoxesOK
<1>3. EventOn(s)' /\ \A e \in Event : Latest(s, e)' => (e.type = "start" <=> box'[s].st = "running")
  BY <1>1, <1>2, SaidOrder DEF HandsInv
<1>4. \A q \in Request : req[q].s = s => WritesTruth(s, req[q])'
  BY <1>1, <1>2 DEF TellOf, WritesTruth
<1> QED BY <1>1, <1>2, <1>3, <1>4 DEF TellOf

(* The last event handled puts on record what it says.                       *)
LEMMA HandleTells ==
    ASSUME HandsInv, HandleEvent, NEW s \in Legacy, s = Head(events).s, KnownOf(s), TellOf(s),
           s \notin refused'
    PROVE  TellOf(s)'
<1>1. /\ req' = req /\ box' = box /\ gor' = gor /\ events # <<>> /\ events' = Tail(events)
  BY DEF HandleEvent
<1>2. /\ \A e \in Event : Latest(s, e)' => Latest(s, e)
      /\ ~EventOn(s)' => Latest(s, Head(events))
  BY <1>1, HandledOrder DEF HandsInv
<1>3. Head(events) \in Event
  BY <1>1 DEF HandsInv, EventsOK
<1>4. PICK e \in Event : e = Head(events)
  BY <1>3
<1>5. UpdateStatus(s, IF e.type = "start" THEN "running" ELSE "crashed", e.id)
  BY <1>4 DEF HandleEvent
<1>6. ASSUME ~EventOn(s)'
      PROVE  Tells(s)'
  <2>1. CASE Started(s)
    <3>1. e.type = "start" <=> box[s].st = "running"
      BY <1>2, <1>4, <1>6, <2>1 DEF TellOf
    <3>2. Present(s)
      BY <2>1 DEF KnownOf, RowKnows
    <3>3. rows'[s].status = IF e.type = "start" THEN "running" ELSE "crashed"
      BY <1>5, <3>2, Updated DEF HandsInv, RowsOK
    <3> QED BY <1>1, <3>1, <3>3 DEF Tells
  <2>2. CASE ~Started(s)
    BY <1>1, <2>2 DEF Started, Tells
  <2> QED BY <2>1, <2>2
<1>7. \A q \in Request : req[q].s = s => WritesTruth(s, req[q])'
  BY <1>1 DEF TellOf, WritesTruth
<1> QED BY <1>1, <1>2, <1>6, <1>7 DEF TellOf, Started

LEMMA TellStep ==
    ASSUME TellInv, [Next]_vars
    PROVE  TellInv'
<1>1. KnownInv /\ KnownInv' /\ env' = env
  BY KnownStep, EnvChosen DEF TellInv
<1> SUFFICES ASSUME env = {}
             PROVE  stream' = "open" /\ (~restarted' => \A s \in Legacy \ refused' : TellOf(s)')
  BY <1>1 DEF TellInv
<1>2. stream = "open"
  BY DEF TellInv
<1>3. ~BreakStream /\ ~Reconnect
  BY <1>2 DEF BreakStream, Reconnect
<1>4. stream' = "open"
  <2>1. Ask => stream' = stream
    <3>1. \A q \in Request : AcquirePort(q) \/ InsertRow(q) \/ CallFails(q) \/ InspectBox(q)
                            \/ StopBox(q) \/ RestartBox(q) \/ RemoveBox(q) => stream' = stream
      BY DEF AcquirePort, InsertRow, CallFails, InspectBox, StopBox, RestartBox, RemoveBox
    <3>2. \A q \in Request : ReleasePort(q) \/ DeleteRow(q) \/ MarkStopped(q) \/ MarkReloaded(q) \/ SyncRow(q)
                            => stream' = stream
      BY DEF ReleasePort, DeleteRow, MarkStopped, MarkReloaded, SyncRow, Mark
    <3>3. \A q \in Request, s \in Legacy :
             BeginCreate(q, s) \/ (\E op \in Operation : Begin(q, s, op)) => stream' = stream
      BY DEF BeginCreate, Begin
    <3> QED BY <3>1, <3>2, <3>3 DEF Ask
  <2>2. Work \/ (\E s \in Legacy : Exit(s) \/ Resume(s)) \/ HandleEvent => stream' = stream
    BY DEF Work, CreateBox, StartBox, RecordId, Exit, Resume, HandleEvent
  <2> QED BY <1>2, <1>3, <2>1, <2>2 DEF Next, Docker, Watch, Elsewhere, RecoverPorts, Crash, vars
<1> SUFFICES ASSUME ~restarted'
             PROVE  \A s \in Legacy \ refused' : TellOf(s)'
  BY <1>4
<1>5. ~Crash
  BY DEF Crash
<1>6. restarted' = restarted
  BY <1>5, EnvChosen
<1>7. Clean /\ Clean'
  BY <1>1, <1>6 DEF Clean, Apart
<1>8. /\ HandsInv /\ OneRequest /\ Owned /\ phase = "serve"
      /\ refused \subseteq refused' /\ \A s \in Legacy \ refused : KnownOf(s) /\ TellOf(s)
  BY <1>1, <1>6, <1>7, CleanFacts, RefusedGrows DEF TellInv
<1>9. HandsInv' /\ OneRequest' /\ \A s \in Legacy \ refused' : KnownOf(s)'
  BY <1>1, <1>7 DEF KnownInv, OwnInv, Clean
<1>10. ~RecoverPorts
  BY <1>8 DEF RecoverPorts
<1>11. ASSUME NEW s \in Legacy, s \notin refused' => TellOf(s)', OnlyOn(s), Ordered(s)
       PROVE  \A t \in Legacy \ refused' : TellOf(t)'
  BY <1>8, <1>11, OthersTell
<1>12. ASSUME NEW q \in Request,
              CallFails(q) \/ StopBox(q) \/ RestartBox(q) \/ RemoveBox(q) \/ InspectBox(q)
              \/ AcquirePort(q) \/ InsertRow(q)
              \/ ReleasePort(q) \/ DeleteRow(q) \/ MarkStopped(q) \/ MarkReloaded(q) \/ SyncRow(q)
       PROVE  \A t \in Legacy \ refused' : TellOf(t)'
  <2>1. req[q] # NoRequest /\ req[q].s \in Legacy
    BY <1>8, <1>12, Nothing DEF CallFails, StopBox, RestartBox, RemoveBox, InspectBox, AcquirePort, InsertRow,
       ReleasePort, DeleteRow, MarkStopped, MarkReloaded, SyncRow, Mark, Calls, Writes,
       HandsInv, RequestsOK, RequestShape
  <2>2. PICK s \in Legacy : s = req[q].s
    BY <2>1
  <2>3. OnlyOn(s)
    <3>1. OnlyOn(req[q].s)
      BY <1>8, <1>12, <2>1, RequestOnly
    <3> QED BY <2>2, <3>1 DEF OnlyOn
  <2>4. Ordered(s)
    BY <1>2, <1>8, <1>12, <2>2, RequestOrder
  <2> SUFFICES ASSUME s \notin refused'
               PROVE  TellOf(s)'
    BY <1>11, <2>3, <2>4
  <2>5. KnownOf(s) /\ TellOf(s)
    BY <1>8
  <2>6. CASE RemoveBox(q) \/ DeleteRow(q) \/ InsertRow(q)
    <3>2. ~Started(s)' \/ (InsertRow(q) /\ rows' = rows)
      BY <1>8, <2>2, <2>5, <2>6, RemoveKnown, DeleteKnown, InsertKnown
    <3>3. CASE ~Started(s)'
      BY <1>9, <3>3, UnstartedTells
    <3>4. CASE InsertRow(q) /\ rows' = rows
      <4>1. /\ req'[q] = NoRequest /\ \A r \in Request \ {q} : req'[r] = req[r]
            /\ box' = box /\ events' = events
        BY <1>8, <3>4 DEF InsertRow, Finished, HandsInv, RequestsOK
      <4>2. req[q].op = "create" /\ ~Writing(s)
        BY <1>8, <2>1, <2>2, <3>4 DEF InsertRow, HandsInv, RequestsOK, RequestShape, Writing, OneRequest
      <4>3. gor' = gor
        BY <1>8, <2>1, <2>2, <3>4, Nothing DEF InsertRow, HandsInv, RowsOK, CanInsert, Present
      <4> QED BY <2>5, <3>4, <4>1, <4>2, <4>3, TellStays, Nothing
    <3> QED BY <3>2, <3>3, <3>4
  <2>7. CASE StopBox(q) \/ RestartBox(q)
    BY <1>2, <1>8, <2>2, <2>5, <2>7, TurnTells
  <2>8. CASE CallFails(q) \/ InspectBox(q) \/ AcquirePort(q) \/ ReleasePort(q)
    BY <1>8, <2>2, <2>5, <2>8, QuietCallTells
  <2>9. CASE MarkStopped(q) \/ MarkReloaded(q) \/ SyncRow(q)
    BY <1>8, <2>2, <2>5, <2>9, MarkTells
  <2> QED BY <1>12, <2>6, <2>7, <2>8, <2>9
<1>13. ASSUME NEW q \in Request, NEW s \in Legacy,
              BeginCreate(q, s) \/ \E op \in Operation : Begin(q, s, op)
       PROVE  \A t \in Legacy \ refused' : TellOf(t)'
  <2>1. OnlyOn(s) /\ events' = events
    BY <1>8, <1>13, BeginOnly DEF BeginCreate, Begin
  <2>2. Ordered(s)
    BY <2>1, UnchangedOrder DEF Ordered
  <2>3. s \notin refused' => TellOf(s)'
    BY <1>7, <1>8, <1>13, BeginTells DEF Clean
  <2> QED BY <1>11, <2>1, <2>2, <2>3
<1>14. CASE Ask
  BY <1>12, <1>13, <1>14 DEF Ask
<1>15. ASSUME NEW s \in Legacy, CreateBox(s) \/ StartBox(s) \/ RecordId(s)
       PROVE  \A t \in Legacy \ refused' : TellOf(t)'
  <2>1. OnlyOn(s)
    BY <1>8, <1>15, ContainerOnly
  <2>2. Ordered(s)
    BY <1>2, <1>8, <1>15, ContainerOrder
  <2>3. s \notin refused' => TellOf(s)'
    BY <1>2, <1>8, <1>9, <1>15, WorkTells
  <2> QED BY <1>11, <2>1, <2>2, <2>3
<1>16. ASSUME NEW s \in Legacy, Exit(s) \/ Resume(s)
       PROVE  \A t \in Legacy \ refused' : TellOf(t)'
  BY <1>2, <1>8, <1>11, <1>16, ContainerOnly, ContainerOrder, DockerTells
<1>17. CASE HandleEvent
  <2>1. Head(events) \in Event
    BY <1>8, <1>17 DEF HandleEvent, HandsInv, EventsOK
  <2>2. PICK s \in Legacy : s = Head(events).s
    BY <2>1 DEF Event
  <2> QED BY <1>2, <1>8, <1>11, <1>17, <2>2, ContainerOnly, ContainerOrder, HandleTells
<1>18. CASE Elsewhere \/ UNCHANGED vars
  <2>1. rows' = rows /\ box' = box /\ gor' = gor /\ req' = req /\ events' = events
    BY <1>18 DEF Elsewhere, vars
  <2>2. OnlyOn(NoSession) /\ Ordered(NoSession)
    BY <2>1, UnchangedOrder DEF OnlyOn, OnWay, Ordered
  <2> QED BY <1>8, <2>2, OthersTell, Nothing
<1> QED
  BY <1>3, <1>5, <1>10, <1>14, <1>15, <1>16, <1>17, <1>18 DEF Next, Work, Docker, Watch

LEMMA TellInit == Init => TellInv
<1> SUFFICES ASSUME Init PROVE TellInv
  OBVIOUS
<1>1. ASSUME NEW s \in Legacy
      PROVE  TellOf(s)
  <2>1. /\ box[s] = NoBox /\ gor[s] = NoGoroutine /\ events = <<>>
        /\ \A q \in Request : req[q].s # s
    BY Nothing DEF Init
  <2> QED BY <2>1, Nothing DEF TellOf, Tells, Started
<1> QED BY <1>1, KnownInit DEF TellInv, Init

(* At rest, when no event was lost and no call on it refused, the row of a   *)
(* container that runs does not say it is over, and the row of one that was  *)
(* stopped does, whichever of the four writers came last (service.go:574,    *)
(* 661-687, 757-776).                                                        *)
THEOREM ContainersStatusTellsLife == Spec => []StatusTellsLife
<1>1. TellInv => StatusTellsLife
  BY DEF TellInv, TellOf, Tells, StatusTellsLife, Quiet, Writing, RequestOn
<1> QED BY <1>1, TellInit, TellStep, PTL DEF Spec
=============================================================================
