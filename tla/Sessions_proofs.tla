--------------------------- MODULE Sessions_proofs ---------------------------
(***************************************************************************)
(* Theorems about the session life cycle, for every set of sessions, ports, *)
(* requests and launches.  The first ones hold whatever overlaps (every    *)
(* value of Overlap) and with or without crashes of the process.  The last *)
(* six assume Overlap = {}, that is, no two actors at work on one session  *)
(* at a time; the two at the end also assume that the process does not     *)
(* crash.                                                                  *)
(***************************************************************************)
EXTENDS Sessions, PortPool_proofs

(* What an actor that is at work has in hand: the session it works for, and *)
(* the port it was granted; which operations reach which steps.             *)
HandlerAtWork(t) ==
    /\ t.pc # "idle" => t.s \in Session
    /\ t.pc \in {"forget", "record"} => t.port \in Port
    /\ t.pc = "forget" => t.victim \in Session
    /\ t.pc = "read" => t.op = "restart"
    /\ t.pc = "kill" => t.op \in {"stop", "delete", "restart", "relaunch"}
    /\ t.pc = "release" => t.op \in {"stop", "restart", "relaunch"}
    /\ t.pc \in {"drop", "clear"} => t.op \in {"stop", "delete"}
    /\ t.pc = "mark" => t.op \in {"stop", "restart", "delete"}

SweeperAtWork ==
    /\ sw.pc \in {"releaseLate", "crashLate", "killDead", "hold", "record", "mark"}
         => sw.cur \in Item
    /\ sw.pc \in {"killDead", "hold", "record", "mark"} => sw.end \in {"stopped", "crashed"}

AtWork ==
    /\ \A h \in Handler : HandlerAtWork(task[h])
    /\ \A n \in LaunchId : launch[n].pc # "none" => launch[n].s \in Session
    /\ SweeperAtWork

SessionsInv == TypeOK /\ PoolInv /\ AtWork

-----------------------------------------------------------------------------
(* Time starts at 0, which is also how NULL deadlines read.                 *)
LEMMA Deadlines ==
    /\ 0 \in Time /\ Never \in Time
    /\ \A t \in 0..MaxTime : t + TTL \in Time
BY SessionsAssumption DEF Never

(* Each UPDATE leaves rows of the table.                                    *)
LEMMA RowsTyped ==
    ASSUME rows \in [Session -> Row], NEW s \in Session,
           \/ \E st \in Status : UpdateStatus(s, st)
           \/ UpdateGenerated(s)
           \/ \E p \in MaybePort : UpdateLaunching(s, p)
           \/ \E n \in LaunchId : UpdateRunning(s, n)
           \/ \E t \in Time : SetReservation(s, t)
           \/ ClearReservation(s)
    PROVE  rows' \in [Session -> Row]
<1>1. ASSUME NEW row \in Row, Update(s, row)
      PROVE  rows' \in [Session -> Row]
  BY <1>1 DEF Update
<1>2. PICK row \in Row : Update(s, row)
  <2>1. rows[s] \in Row
    OBVIOUS
  <2>2. CASE \E st \in Status : UpdateStatus(s, st)
    BY <2>1, <2>2 DEF UpdateStatus, Row
  <2>3. CASE UpdateGenerated(s)
    BY <2>1, <2>3 DEF UpdateGenerated, Row, Status
  <2>4. CASE \E p \in MaybePort : UpdateLaunching(s, p)
    BY <2>1, <2>4, Deadlines DEF UpdateLaunching, Row, Status
  <2>5. CASE \E n \in LaunchId : UpdateRunning(s, n)
    BY <2>1, <2>5 DEF UpdateRunning, Row, Status, MaybeLaunch
  <2>6. CASE (\E t \in Time : SetReservation(s, t)) \/ ClearReservation(s)
    BY <2>1, <2>6, Deadlines DEF SetReservation, ClearReservation, Row
  <2>7. QED
    BY <2>2, <2>3, <2>4, <2>5, <2>6
<1>3. QED
  BY <1>1, <1>2

(* Each Docker call leaves a container, or none.                            *)
LEMMA ContainersTyped ==
    ASSUME NEW c \in Container, NEW n
    PROVE  /\ NoContainer \in Container
           /\ Stopped(c) \in Container
           /\ StoppedId(c, n) \in Container
           /\ RemovedId(c, n) \in Container
BY DEF Container, NoContainer, Stopped, StoppedId, RemovedId, MaybeLaunch, MaybePort

-----------------------------------------------------------------------------
(* A request that moves on stays well formed, and touches no other one.     *)
LEMMA TaskTyped ==
    ASSUME TypeOK, AtWork, NEW h \in Handler, NEW t \in Task, HandlerAtWork(t),
           task' = [task EXCEPT ![h] = t]
    PROVE  /\ task' \in [Handler -> Task]
           /\ \A k \in Handler : HandlerAtWork(task'[k])
BY DEF TypeOK, AtWork

LEMMA NoTaskTyped == NoTask \in Task /\ HandlerAtWork(NoTask)
BY DEF NoTask, Task, HandlerAtWork, MaybeSession, MaybePort, MaybeLaunch

LEMMA RequestTyped ==
    ASSUME SessionsInv, NEW h \in Handler, HandlerStep(h)
    PROVE  /\ task' \in [Handler -> Task]
           /\ \A k \in Handler : HandlerAtWork(task'[k])
<1> DEFINE Goal == /\ task' \in [Handler -> Task]
                   /\ \A k \in Handler : HandlerAtWork(task'[k])
<1> USE DEF SessionsInv
<1>0. task[h] \in Task /\ HandlerAtWork(task[h])
  BY DEF TypeOK, AtWork
<1>1. CASE Done(h)
  BY <1>1, NoTaskTyped, TaskTyped DEF Done
<1>2. CASE GotoLaunch(h) /\ task[h].pc # "idle"
  <2>1. [NoTask EXCEPT !.op = "launch", !.s = task[h].s, !.pc = "launch"] \in Task
    BY <1>0, NoTaskTyped DEF Task, Operation
  <2>2. HandlerAtWork([NoTask EXCEPT !.op = "launch", !.s = task[h].s, !.pc = "launch"])
    BY <1>0, <1>2 DEF HandlerAtWork, NoTask
  <2>3. QED
    BY <1>2, <2>1, <2>2, TaskTyped DEF GotoLaunch
<1>3. ASSUME NEW s \in Session, NEW op \in Ops, Begin(h, s, op)
      PROVE  Goal
  <2> DEFINE t == [NoTask EXCEPT !.op = op, !.s = s, !.pc = FirstStep(op, rows[s]),
                        !.port = IF op \in {"stop", "delete", "relaunch"}
                                 THEN rows[s].port ELSE NoPort,
                        !.cid = IF op \in {"stop", "delete", "relaunch"}
                                THEN rows[s].cid ELSE NoLaunch]
  <2>1. op \in Operation /\ rows[s] \in Row
    BY SessionsAssumption DEF TypeOK
  <2>2. /\ op = "launchFile" => FirstStep(op, rows[s]) \in {"insert", "generated"}
        /\ op = "configure" => FirstStep(op, rows[s]) \in {"insert", "draft"}
        /\ op = "launch" => FirstStep(op, rows[s]) = "acquire"
        /\ op = "restart" => FirstStep(op, rows[s]) = "read"
        /\ op \in {"stop", "delete", "relaunch"} => FirstStep(op, rows[s]) = "kill"
    BY <2>1 DEF FirstStep, Operation
  <2>3. t \in Task
    <3>1. rows[s].port \in MaybePort /\ NoPort \in MaybePort
          /\ rows[s].cid \in MaybeLaunch /\ NoLaunch \in MaybeLaunch
          /\ s \in MaybeSession /\ NoSession \in MaybeSession
      BY <2>1 DEF Row, MaybeSession, MaybePort, MaybeLaunch
    <3>2. FirstStep(op, rows[s]) \in {"insert", "draft", "generated", "acquire", "read", "kill"}
      BY <2>1, <2>2 DEF Operation
    <3>3. NoTask \in Task
      BY NoTaskTyped
    <3>4. QED
      BY <2>1, <3>1, <3>2, <3>3 DEF Task
  <2>4. HandlerAtWork(t)
    BY <2>1, <2>2 DEF HandlerAtWork, NoTask, Operation
  <2>5. QED
    BY <1>3, <2>3, <2>4, TaskTyped DEF Begin
<1>4. ASSUME NEW pc \in {"generated", "acquire", "clear", "mark", "reset", "drop"}, Goto(h, pc),
             task[h].pc # "idle",
             pc \in {"drop", "clear"} => task[h].op \in {"stop", "delete"},
             pc = "mark" => task[h].op \in {"stop", "restart", "delete"}
      PROVE  Goal
  <2>1. [task[h] EXCEPT !.pc = pc] \in Task
    BY <1>0 DEF Task
  <2>2. HandlerAtWork([task[h] EXCEPT !.pc = pc])
    BY <1>0, <1>4, <2>1 DEF HandlerAtWork, Task
  <2>3. task' = [task EXCEPT ![h] = [task[h] EXCEPT !.pc = pc]]
    BY <1>4 DEF Goto, TypeOK
  <2>4. QED
    BY <2>1, <2>2, <2>3, TaskTyped
<1>5. CASE Insert(h)
  BY <1>1, <1>4, <1>5 DEF Insert, At
<1>6. CASE Generated(h) \/ Reset(h)
  BY <1>2, <1>6 DEF Generated, Reset, At
<1>7. CASE CheckReady(h) \/ DropRecord(h) \/ Drop(h)
  BY <1>0, <1>4, <1>7 DEF CheckReady, DropRecord, Drop, At, HandlerAtWork
<1>8. CASE GiveBack(h)
  BY <1>0, <1>4, <1>8 DEF GiveBack, At, HandlerAtWork
<1>9. CASE Mark(h)
  BY <1>0, <1>1, <1>4, <1>9 DEF Mark, At, HandlerAtWork
<1>10. CASE Acquire(h)
  <2>1. PICK p \in Port : task' = [task EXCEPT
            ![h].port = p,
            ![h].victim = IF held[p].session \notin {NoSession, task[h].s}
                          THEN held[p].session ELSE NoSession,
            ![h].pc = IF held[p].session \notin {NoSession, task[h].s}
                      THEN "forget" ELSE "record"]
    BY <1>10 DEF Acquire
  <2> DEFINE evicted == held[p].session \notin {NoSession, task[h].s}
             t == [task[h] EXCEPT !.port = p,
                        !.victim = IF evicted THEN held[p].session ELSE NoSession,
                        !.pc = IF evicted THEN "forget" ELSE "record"]
  <2>2. evicted => held[p].session \in Session
    BY DEF PoolInv, PoolTypeOK, Hold, NoHold
  <2>3. t \in Task
    BY <1>0, <2>2 DEF Task, MaybePort, MaybeSession
  <2>4. HandlerAtWork(t)
    BY <1>0, <1>10, <2>2 DEF HandlerAtWork, Acquire, At, Task
  <2>5. task' = [task EXCEPT ![h] = t]
    BY <2>1 DEF TypeOK
  <2>6. QED
    BY <2>3, <2>4, <2>5, TaskTyped
<1>11. CASE ForgetVictim(h)
  <2> DEFINE t == [task[h] EXCEPT !.pc = "record", !.victim = NoSession]
  <2>1. t \in Task
    BY <1>0 DEF Task, MaybeSession
  <2>2. HandlerAtWork(t)
    BY <1>0, <1>11, <2>1 DEF HandlerAtWork, ForgetVictim, At, Task
  <2>3. task' = [task EXCEPT ![h] = t]
    BY <1>11 DEF ForgetVictim, TypeOK
  <2>4. QED
    BY <2>1, <2>2, <2>3, TaskTyped
<1>12. CASE ReadForStop(h)
  <2> DEFINE row == rows[task[h].s]
             t == [task[h] EXCEPT !.port = row.port, !.cid = row.cid,
                        !.pc = IF Present(task[h].s) THEN "kill" ELSE "reset"]
  <2>1. task[h].s \in Session /\ row \in Row /\ task[h].op = "restart"
    BY <1>0, <1>12 DEF HandlerAtWork, ReadForStop, At, TypeOK
  <2>2. t \in Task
    BY <1>0, <2>1 DEF Task, Row
  <2>3. HandlerAtWork(t)
    BY <2>1, <2>2 DEF HandlerAtWork, Task
  <2>4. task' = [task EXCEPT ![h] = t]
    BY <1>12 DEF ReadForStop, TypeOK
  <2>5. QED
    BY <2>2, <2>3, <2>4, TaskTyped
<1>13. CASE Kill(h)
  <2> DEFINE t == [task[h] EXCEPT !.cid = NoLaunch,
                        !.pc = IF task[h].op = "delete" THEN "drop" ELSE "release"]
  <2>1. t \in Task
    BY <1>0 DEF Task, MaybeLaunch
  <2>2. HandlerAtWork(t)
    BY <1>0, <1>13, <2>1 DEF HandlerAtWork, Kill, At, Task
  <2>3. task' = [task EXCEPT ![h] = t]
    BY <1>13 DEF Kill, TypeOK
  <2>4. QED
    BY <2>1, <2>2, <2>3, TaskTyped
<1>14. QED
  BY <1>1, <1>3, <1>5, <1>6, <1>7, <1>8, <1>9, <1>10, <1>11, <1>12, <1>13
     DEF HandlerStep, Fail, Draft, Record, RecordFails

-----------------------------------------------------------------------------
(* The rest of the state, by kind of actor.                                 *)
StateTyped ==
    /\ rows \in [Session -> Row]
    /\ ap \in [Session -> Container] /\ bridge \in [Session -> Container]
    /\ launch \in [LaunchId -> Goroutine]
    /\ \A n \in LaunchId : launch[n].pc # "none" => launch[n].s \in Session
    /\ sw \in Sweeper
    /\ SweeperAtWork
    /\ now \in 0..MaxTime

LEMMA HandlerStepTyped ==
    ASSUME SessionsInv, NEW h \in Handler, HandlerStep(h)
    PROVE  StateTyped'
<1> DEFINE s == task[h].s
<1> USE DEF SessionsInv, StateTyped, TypeOK, AtWork, SweeperAtWork
<1>0. task[h] \in Task /\ HandlerAtWork(task[h])
  OBVIOUS
<1>1. CASE UNCHANGED <<rows, docker, launch, sw, now>>
  BY <1>1 DEF docker
<1>2. CASE rows' \in [Session -> Row] /\ UNCHANGED <<docker, launch, sw, now>>
  BY <1>2 DEF docker
<1>3. CASE Insert(h)
  <2>1. rows' \in [Session -> Row]
    BY <1>0, <1>3 DEF Insert, At, HandlerAtWork, Row, Status
  <2>2. QED
    BY <1>2, <1>3, <2>1 DEF Insert
<1>4. CASE Draft(h) \/ Generated(h) \/ Reset(h) \/ DropRecord(h)
  <2>1. s \in Session
    BY <1>0, <1>4 DEF Draft, Generated, Reset, DropRecord, At, HandlerAtWork
  <2>2. rows' \in [Session -> Row]
    BY <1>4, <2>1, RowsTyped DEF Draft, Generated, Reset, DropRecord, Status
  <2>3. QED
    BY <1>2, <1>4, <2>2 DEF Draft, Generated, Reset, DropRecord
<1>5. CASE ForgetVictim(h)
  <2>1. task[h].victim \in Session
    BY <1>0, <1>5 DEF ForgetVictim, At, HandlerAtWork
  <2>2. QED
    BY <1>2, <1>5, <2>1, RowsTyped DEF ForgetVictim
<1>6. CASE Record(h)
  <2>1. s \in Session /\ task[h].port \in MaybePort
    BY <1>0, <1>6 DEF Record, At, HandlerAtWork, MaybePort
  <2>2. rows' \in [Session -> Row]
    BY <1>6, <2>1, RowsTyped DEF Record
  <2>3. [s |-> s, port |-> task[h].port, pc |-> "startAP"] \in Goroutine
    BY <2>1 DEF Goroutine, MaybeSession
  <2>4. /\ launch' \in [LaunchId -> Goroutine]
        /\ \A n \in LaunchId : launch'[n].pc # "none" => launch'[n].s \in Session
    BY <1>6, <2>1, <2>3 DEF Record
  <2>5. QED
    BY <1>6, <2>2, <2>4 DEF Record, docker
<1>7. CASE Mark(h)
  <2>1. s \in Session /\ task[h].op \in {"stop", "restart", "delete"}
    BY <1>0, <1>7 DEF Mark, At, HandlerAtWork
  <2>2. CASE UpdateStatus(s, "stopped")
    BY <1>2, <1>7, <2>1, <2>2, RowsTyped DEF Mark, Status
  <2>3. CASE rows' = [rows EXCEPT ![s] = NoRow]
    <3>1. NoRow \in Row
      BY Deadlines DEF NoRow, Row, Status, MaybePort, MaybeLaunch
    <3>2. QED
      BY <1>2, <1>7, <2>3, <3>1 DEF Mark
  <2>4. QED
    BY <1>7, <2>1, <2>2, <2>3 DEF Mark
<1>8. CASE Kill(h)
  <2>1. ap' \in [Session -> Container] /\ bridge' \in [Session -> Container]
    BY <1>8, ContainersTyped DEF Kill
  <2>2. QED
    BY <1>8, <2>1 DEF Kill
<1>9. QED
  BY <1>1, <1>3, <1>4, <1>5, <1>6, <1>7, <1>8
     DEF HandlerStep, Begin, Fail, CheckReady, Acquire, RecordFails, ReadForStop,
         GiveBack, Drop

LEMMA LaunchStepTyped ==
    ASSUME SessionsInv, NEW n \in LaunchId, LaunchStep(n)
    PROVE  StateTyped'
<1> DEFINE s == launch[n].s
<1> USE DEF SessionsInv, StateTyped, TypeOK, AtWork, SweeperAtWork
<1>0. launch[n] \in Goroutine /\ s \in Session
  BY DEF LaunchStep, StartAP, StartBridge, SetRunning, LaunchFails, LaunchRelease,
         LaunchCrash, LaunchAt
<1>1. /\ launch' \in [LaunchId -> Goroutine]
      /\ \A m \in LaunchId : launch'[m].pc # "none" => launch'[m].s \in Session
  <2>1. ASSUME NEW pc \in {"startBridge", "running", "release", "crash"}, LaunchGoto(n, pc)
        PROVE  /\ launch' \in [LaunchId -> Goroutine]
               /\ \A m \in LaunchId : launch'[m].pc # "none" => launch'[m].s \in Session
    BY <1>0, <2>1 DEF LaunchGoto, Goroutine
  <2>2. CASE launch' = [launch EXCEPT ![n] = NoGoroutine]
    BY <2>2 DEF NoGoroutine, Goroutine, MaybeSession, MaybePort
  <2>3. QED
    BY <2>1, <2>2 DEF LaunchStep, StartAP, StartBridge, SetRunning, LaunchFails,
                      LaunchRelease, LaunchCrash
<1>2. rows' \in [Session -> Row]
  BY <1>0, RowsTyped DEF LaunchStep, StartAP, StartBridge, SetRunning, LaunchFails,
                         LaunchRelease, LaunchCrash, Status
<1>3. ap' \in [Session -> Container] /\ bridge' \in [Session -> Container]
  <2>1. [id |-> n, st |-> "up", port |-> launch[n].port] \in Container
    BY <1>0 DEF Goroutine, Container, MaybeLaunch
  <2>2. CASE StartAP(n) \/ StartBridge(n)
    BY <2>1, <2>2 DEF StartAP, StartBridge
  <2>3. CASE LaunchFails(n)
    BY <2>3, ContainersTyped DEF LaunchFails
  <2>4. QED
    BY <2>2, <2>3 DEF LaunchStep, SetRunning, LaunchRelease, LaunchCrash, docker
<1>4. UNCHANGED <<sw, now>>
  BY DEF LaunchStep, StartAP, StartBridge, SetRunning, LaunchFails, LaunchRelease, LaunchCrash
<1>5. QED
  BY <1>1, <1>2, <1>3, <1>4

LEMMA ItemTyped ==
    ASSUME rows \in [Session -> Row], NEW s \in Session
    PROVE  ItemOf(s) \in Item
BY DEF ItemOf, Item, Row

(* A sweeper that moves on, or takes up the next list.                      *)
LEMMA SweeperTyped ==
    ASSUME SessionsInv, SweeperStep
    PROVE  sw' \in Sweeper /\ SweeperAtWork'
<1> DEFINE Goal == sw' \in Sweeper /\ SweeperAtWork'
<1> USE DEF SessionsInv, SweeperAtWork
<1>0. sw \in Sweeper /\ rows \in [Session -> Row]
  BY DEF TypeOK
<1>1. ASSUME NEW pc \in {"clear", "transit", "running"}, NEW list \in SUBSET Item,
             sw' = [Asleep EXCEPT !.pc = pc, !.todo = list]
      PROVE  Goal
  <2>1. Asleep \in Sweeper
    BY Deadlines DEF Asleep, Sweeper
  <2>2. QED
    BY <1>1, <2>1 DEF Sweeper, Asleep
<1>2. ASSUME NEW i \in sw.todo, NEW end \in {"stopped", "crashed"},
             sw' = [sw EXCEPT !.pc = "killDead", !.cur = i, !.end = end, !.todo = @ \ {i}]
      PROVE  Goal
  BY <1>0, <1>2 DEF Sweeper
<1>3. ASSUME NEW pc \in {"crashLate", "hold", "mark"}, sw.cur \in Item,
             pc # "crashLate" => sw.end \in {"stopped", "crashed"}, SweepGoto(pc)
      PROVE  Goal
  BY <1>0, <1>3 DEF SweepGoto, Sweeper
<1>4. CASE ListTransit
  <2>1. PICK late \in SUBSET Launching : 
          sw' = [Asleep EXCEPT !.pc = "transit", !.todo = {ItemOf(s) : s \in late}]
    BY <1>4 DEF ListTransit
  <2>2. {ItemOf(s) : s \in late} \in SUBSET Item
    BY <1>0, ItemTyped DEF Launching
  <2>3. QED
    BY <1>1, <2>1, <2>2
<1>5. CASE ListRunning
  <2> DEFINE live == {s \in Session : rows[s].status = "running"}
  <2>1. {ItemOf(s) : s \in live} \in SUBSET Item
    BY <1>0, ItemTyped
  <2>2. QED
    BY <1>1, <1>5, <2>1 DEF ListRunning
<1>6. CASE KillLate
  <2>1. PICK i \in sw.todo :
          sw' = [sw EXCEPT !.pc = "releaseLate", !.cur = i, !.todo = @ \ {i}]
    BY <1>6 DEF KillLate
  <2>2. QED
    BY <1>0, <2>1 DEF Sweeper
<1>7. CASE InspectSkip \/ ClearExpired
  <2>1. PICK i \in sw.todo : sw' = [sw EXCEPT !.todo = @ \ {i}]
    BY <1>7 DEF InspectSkip, ClearExpired
  <2>2. sw.pc \in {"running", "clear"}
    BY <1>7 DEF InspectSkip, ClearExpired, SweepAt
  <2>3. QED
    BY <1>0, <2>1, <2>2 DEF Sweeper
<1>8. CASE InspectDead
  <2>1. PICK i \in sw.todo : \E end \in {"stopped", "crashed"} :
          sw' = [sw EXCEPT !.pc = "killDead", !.cur = i, !.end = end, !.todo = @ \ {i}]
    BY <1>8 DEF InspectDead, Outcomes
  <2>2. QED
    BY <1>2, <2>1
<1>9. CASE ReleaseLate \/ KillDead \/ RecordHold
  <2>1. sw.cur \in Item /\ (~ReleaseLate => sw.end \in {"stopped", "crashed"})
    BY <1>9 DEF AtWork, ReleaseLate, KillDead, RecordHold, SweepAt
  <2>2. QED
    BY <1>3, <1>9, <2>1 DEF ReleaseLate, KillDead, RecordHold
<1>10. CASE KeepPort
  <2>1. sw.cur \in Item /\ sw.end \in {"stopped", "crashed"}
    BY <1>10 DEF AtWork, KeepPort, SweepAt
  <2>2. CASE SweepGoto("mark")
    BY <1>3, <2>1, <2>2
  <2>3. CASE sw' = [sw EXCEPT !.pc = "record", !.until = now + TTL]
    <3>1. now + TTL \in Time
      BY Deadlines DEF TypeOK
    <3>2. QED
      BY <1>0, <2>1, <2>3, <3>1 DEF Sweeper
  <2>4. QED
    BY <1>10, <2>2, <2>3 DEF KeepPort
<1>11. CASE CrashLate \/ MarkDead
  BY <1>0, <1>1, <1>11 DEF CrashLate, MarkDead, ItemDone, Sweeper
<1>12. CASE ExpireHolds
  <2> DEFINE list == {[NoItem EXCEPT !.s = held[p].session] : p \in Expired(now)}
  <2>1. ASSUME NEW p \in Expired(now)
        PROVE  [NoItem EXCEPT !.s = held[p].session] \in Item
    <3>1. held[p].session \in Session
      BY DEF Expired, IsHeld, PoolInv, PoolTypeOK, Hold, NoHold
    <3>2. QED
      BY <3>1 DEF NoItem, Item, MaybePort, MaybeLaunch
  <2>2. list \in SUBSET Item
    BY <2>1
  <2>3. sw' = [Asleep EXCEPT !.todo = list]
    BY <1>12 DEF ExpireHolds
  <2>4. QED
    BY <2>2, <2>3, Deadlines DEF Asleep, Sweeper
<1>13. QED
  BY <1>4, <1>5, <1>6, <1>7, <1>8, <1>9, <1>10, <1>11, <1>12 DEF SweeperStep

LEMMA SweeperStepTyped ==
    ASSUME SessionsInv, SweeperStep
    PROVE  StateTyped'
<1> USE DEF SessionsInv, StateTyped, TypeOK, AtWork, SweeperAtWork
<1>1. CASE UNCHANGED <<rows, docker, launch, now>>
  BY <1>1, SweeperTyped DEF docker
<1>2. CASE rows' \in [Session -> Row] /\ UNCHANGED <<docker, launch, now>>
  BY <1>2, SweeperTyped DEF docker
<1>3. CASE CrashLate \/ RecordHold \/ MarkDead
  <2>1. sw.cur.s \in Session
    BY <1>3 DEF CrashLate, RecordHold, MarkDead, SweepAt, Item
  <2>2. CASE MarkDead
    <3>1. sw.end \in Status
      BY <2>2 DEF MarkDead, SweepAt, Status
    <3>2. QED
      BY <1>2, <2>1, <2>2, <3>1, RowsTyped DEF MarkDead
  <2>3. CASE CrashLate
    BY <1>2, <2>1, <2>3, RowsTyped DEF CrashLate, Status
  <2>4. CASE RecordHold
    BY <1>2, <2>1, <2>4, RowsTyped DEF RecordHold, Sweeper
  <2>5. QED
    BY <1>3, <2>2, <2>3, <2>4
<1>4. CASE ClearExpired
  <2>1. PICK i \in sw.todo : ClearReservation(i.s)
    BY <1>4 DEF ClearExpired
  <2>2. i.s \in Session
    BY <2>1 DEF Sweeper, Item
  <2>3. QED
    BY <1>2, <1>4, <2>1, <2>2, RowsTyped DEF ClearExpired
<1>5. CASE KillLate \/ KillDead
  <2>1. ap' \in [Session -> Container] /\ bridge' \in [Session -> Container]
    <3>0. \A s \in Session : ap[s] \in Container /\ bridge[s] \in Container
      OBVIOUS
    <3>1. CASE KillLate
      <4>1. PICK i \in sw.todo : /\ bridge' = [bridge EXCEPT ![i.s] = Stopped(bridge[i.s])]
                                 /\ ap' = [ap EXCEPT ![i.s] = Stopped(ap[i.s])]
        BY <3>1 DEF KillLate
      <4>2. i.s \in Session
        BY <4>1 DEF Sweeper, Item
      <4>3. Stopped(bridge[i.s]) \in Container /\ Stopped(ap[i.s]) \in Container
        BY <3>0, <4>2, ContainersTyped
      <4>4. QED
        BY <4>1, <4>2, <4>3
    <3>2. CASE KillDead
      <4> DEFINE s == sw.cur.s
                 n == sw.cur.cid
      <4>1. s \in Session
        BY <3>2 DEF KillDead, SweepAt, Item
      <4>2. /\ RemovedId(bridge[s], n) \in Container /\ StoppedId(bridge[s], n) \in Container
            /\ NoContainer \in Container /\ StoppedId(ap[s], n) \in Container
        BY <3>0, <4>1, ContainersTyped
      <4>3. \/ /\ bridge' = [bridge EXCEPT ![s] = RemovedId(bridge[s], n)]
               /\ ap' = [ap EXCEPT ![s] = NoContainer]
            \/ /\ bridge' = [bridge EXCEPT ![s] = StoppedId(bridge[s], n)]
               /\ ap' = [ap EXCEPT ![s] = StoppedId(ap[s], n)]
        BY <3>2 DEF KillDead
      <4>4. QED
        BY <4>1, <4>2, <4>3
    <3>3. QED
      BY <1>5, <3>1, <3>2
  <2>2. QED
    BY <1>5, <2>1, SweeperTyped DEF KillLate, KillDead
<1>6. QED
  BY <1>1, <1>3, <1>4, <1>5
     DEF SweeperStep, ListTransit, ReleaseLate, ListRunning, InspectSkip, InspectDead,
         KeepPort, ExpireHolds

-----------------------------------------------------------------------------
(* What the steps of Sessions do to the pool: one call of a serving pool,   *)
(* or none, except that dropping a reservation gives back the port in use   *)
(* and the one held in one step, and that each half of the boot recovery    *)
(* is one step.                                                             *)
DropStep ==
    /\ phase = "serve" /\ UNCHANGED phase
    /\ \E s \in Session, p \in MaybePort : ReleaseAndForget(p, s)

LEMMA PoolCall ==
    ASSUME PoolInv, phase = "serve", UNCHANGED phase,
           \/ UNCHANGED <<used, held>>
           \/ \E s \in Session, p \in Port : AcquireFor(s, p)
           \/ \E s \in Session, p \in MaybePort : ReleaseOwned(p, s)
           \/ \E s \in Session, p \in Port, t \in Time : HoldPort(p, s, t)
           \/ \E t \in Time : Expire(t)
           \/ \E p \in Port : Release(p)
    PROVE  [PoolNext]_poolVars
BY DEF PoolNext, Serve, ReleaseOwned, poolVars

LEMMA PoolSteps ==
    ASSUME SessionsInv, [Next]_vars
    PROVE  [PoolNext]_poolVars \/ DropStep \/ BootRecoverUsed \/ BootRecoverHeld
<1> USE DEF SessionsInv
<1>1. ASSUME NEW h \in Handler, HandlerStep(h)
      PROVE  [PoolNext]_poolVars \/ DropStep
  <2>0. task[h] \in Task /\ HandlerAtWork(task[h])
    BY DEF TypeOK, AtWork
  <2>1. CASE Acquire(h)
    <3>1. task[h].s \in Session
      BY <2>0, <2>1 DEF Acquire, At, HandlerAtWork
    <3>2. QED
      BY <2>1, <3>1, PoolCall DEF Acquire, At, Serving
  <2>2. CASE RecordFails(h)
    <3>1. task[h].port \in Port
      BY <2>0, <2>2 DEF RecordFails, At, HandlerAtWork
    <3>2. QED
      BY <2>2, <3>1, PoolCall DEF RecordFails, At, Serving
  <2>3. CASE GiveBack(h)
    <3>1. task[h].s \in Session /\ task[h].port \in MaybePort
      BY <2>0, <2>3 DEF GiveBack, At, HandlerAtWork, Task
    <3>2. QED
      BY <2>3, <3>1, PoolCall DEF GiveBack, At, Serving
  <2>4. CASE Drop(h)
    <3>1. task[h].s \in Session /\ task[h].port \in MaybePort
      BY <2>0, <2>4 DEF Drop, At, HandlerAtWork, Task
    <3>2. QED
      BY <2>4, <3>1 DEF Drop, At, Serving, DropStep
  <2>5. CASE UNCHANGED <<used, held>> /\ Serving
    BY <2>5, PoolCall DEF Serving
  <2>6. QED
    BY <1>1, <2>1, <2>2, <2>3, <2>4, <2>5
       DEF HandlerStep, Begin, Fail, Insert, Draft, Generated, CheckReady, ForgetVictim,
           Record, ReadForStop, Kill, DropRecord, Mark, Reset, At
<1>2. ASSUME NEW n \in LaunchId, LaunchStep(n)
      PROVE  [PoolNext]_poolVars
  <2>1. CASE LaunchRelease(n)
    <3>1. launch[n].s \in Session /\ launch[n].port \in MaybePort
      BY <2>1 DEF LaunchRelease, LaunchAt, AtWork, TypeOK, Goroutine
    <3>2. QED
      BY <2>1, <3>1, PoolCall DEF LaunchRelease, LaunchAt, Serving
  <2>2. CASE UNCHANGED <<used, held>> /\ Serving
    BY <2>2, PoolCall DEF Serving
  <2>3. QED
    BY <1>2, <2>1, <2>2
       DEF LaunchStep, StartAP, StartBridge, SetRunning, LaunchFails, LaunchCrash, LaunchAt
<1>3. ASSUME SweeperStep
      PROVE  [PoolNext]_poolVars
  <2>1. CASE ReleaseLate
    <3>1. sw.cur.s \in Session /\ sw.cur.port \in MaybePort
      BY <2>1 DEF ReleaseLate, SweepAt, AtWork, SweeperAtWork, Item
    <3>2. QED
      BY <2>1, <3>1, PoolCall DEF ReleaseLate, SweepAt, Serving
  <2>2. CASE KeepPort
    <3>1. sw.cur.s \in Session /\ sw.cur.port \in MaybePort
      BY <2>2 DEF KeepPort, SweepAt, AtWork, SweeperAtWork, Item
    <3>2. now + TTL \in Time
      BY Deadlines DEF TypeOK
    <3>3. QED
      BY <2>2, <3>1, <3>2, PoolCall DEF KeepPort, SweepAt, Serving
  <2>3. CASE ExpireHolds
    <3>1. now \in Time
      BY SessionsAssumption DEF TypeOK
    <3>2. QED
      BY <2>3, <3>1, PoolCall DEF ExpireHolds, SweepAt, Serving
  <2>4. CASE UNCHANGED <<used, held>> /\ Serving
    BY <2>4, PoolCall DEF Serving
  <2>5. QED
    BY <1>3, <2>1, <2>2, <2>3, <2>4
       DEF SweeperStep, ListTransit, KillLate, CrashLate, ListRunning, InspectSkip,
           InspectDead, KillDead, RecordHold, MarkDead, ClearExpired, SweepAt
<1>4. CASE Crash
  BY <1>4 DEF Crash, PoolNext
<1>5. CASE BootStop \/ BootCrash \/ (\E s \in Session : APExits(s)) \/ Tick \/ UNCHANGED vars
  BY <1>5 DEF BootStop, BootCrash, APExits, Tick, vars
<1>6. QED
  BY <1>1, <1>2, <1>3, <1>4, <1>5 DEF Next, Boot

(* A dropped reservation is a GiveBack of the leases of one session.        *)
DroppedPorts(p, s) == {q \in Port : (q = p /\ used[q] = s) \/ (q = p /\ held[q].session = s)}

LEMMA DropGivesBack ==
    ASSUME PoolInv, phase = "serve", UNCHANGED phase,
           NEW s \in Session, NEW p \in MaybePort, ReleaseAndForget(p, s)
    PROVE  /\ PoolInv'
           /\ PL!GiveBack(DroppedPorts(p, s))
<1> USE SessionAssumption DEF PoolInv, PoolTypeOK, ReleaseAndForget
<1>1. DroppedPorts(p, s) \in SUBSET Port
  BY DEF DroppedPorts
<1>2. \A q \in DroppedPorts(p, s) : used[q] = s \/ (~InUse(q) /\ held[q].session = s)
  BY DEF DroppedPorts, UsedHeldDisjoint, InUse, IsHeld
<1>3. \A q \in DroppedPorts(p, s) : used'[q] = NoSession /\ held'[q] = NoHold
  BY <1>2 DEF DroppedPorts, UsedHeldDisjoint, InUse, IsHeld, Hold, NoHold, Owns
<1>4. \A q \in Port \ DroppedPorts(p, s) : used'[q] = used[q] /\ held'[q] = held[q]
  BY DEF DroppedPorts, Owns
<1>5. PoolInv'
  <2>1. PoolTypeOK'
    BY <1>3, <1>4
  <2>2. UsedHeldDisjoint'
    BY <1>3, <1>4 DEF UsedHeldDisjoint, InUse, IsHeld, NoHold
  <2>3. QED
    BY <2>1, <2>2 DEF NoHoldBeforeHolds
<1>6. QED
  BY <1>1, <1>2, <1>3, <1>4, <1>5, FreeingGivesBack

(* The boot recovery leaves a pool in order: it reserves while no port is   *)
(* held, and holds only ports that are not in use.                          *)
LEMMA BootKeepsPool ==
    ASSUME SessionsInv, BootRecoverUsed \/ BootRecoverHeld
    PROVE  PoolInv'
<1> USE SessionAssumption DEF SessionsInv, PoolInv, PoolTypeOK
<1>1. CASE BootRecoverUsed
  <2>1. PICK f \in [Port -> Session \cup {NoSession}] : used' = f
    BY <1>1 DEF BootRecoverUsed
  <2>2. QED
    BY <1>1, <2>1 DEF BootRecoverUsed, NoHoldBeforeHolds, UsedHeldDisjoint, InUse, IsHeld, NoHold
<1>2. CASE BootRecoverHeld
  <2>1. PICK f \in [Port -> Session \cup {NoSession}] :
          /\ \A p \in Port : InUse(p) => f[p] = NoSession
          /\ held' = [p \in Port |-> IF f[p] = NoSession THEN NoHold
                                    ELSE [session |-> f[p], until |-> rows[f[p]].until]]
    BY <1>2 DEF BootRecoverHeld
  <2>2. \A s \in Session : rows[s].until \in Time
    BY DEF TypeOK, Row
  <2>3. held' \in [Port -> Hold \cup {NoHold}]
    BY <2>1, <2>2 DEF Hold
  <2>4. UsedHeldDisjoint'
    BY <1>2, <2>1 DEF BootRecoverHeld, UsedHeldDisjoint, InUse, IsHeld, NoHold
  <2>5. QED
    BY <1>2, <2>3, <2>4 DEF BootRecoverHeld, NoHoldBeforeHolds
<1>3. QED
  BY <1>1, <1>2

-----------------------------------------------------------------------------
(* The invariant is inductive.                                              *)
LEMMA SessionsInvInit == Init => SessionsInv
<1> SUFFICES ASSUME Init
             PROVE  SessionsInv
  OBVIOUS
<1>1. PoolInv
  BY DEF Init, PoolInit, PoolInv, PoolTypeOK, UsedHeldDisjoint, NoHoldBeforeHolds,
         InUse, IsHeld, NoHold
<1>2. rows \in [Session -> Row]
  BY Deadlines DEF Init, NoRow, Row, Status, MaybePort, MaybeLaunch
<1>3. ap \in [Session -> Container] /\ bridge \in [Session -> Container]
  BY DEF Init, NoContainer, Container, MaybePort, MaybeLaunch
<1>4. task \in [Handler -> Task] /\ \A h \in Handler : HandlerAtWork(task[h])
  BY NoTaskTyped DEF Init
<1>5. launch \in [LaunchId -> Goroutine] /\ \A n \in LaunchId : launch[n].pc = "none"
  BY DEF Init, NoGoroutine, Goroutine, MaybePort, MaybeSession
<1>6. sw \in Sweeper /\ SweeperAtWork
  BY Deadlines DEF Init, Asleep, Sweeper, SweeperAtWork
<1>7. now \in 0..MaxTime
  BY SessionsAssumption DEF Init
<1>8. QED
  BY <1>1, <1>2, <1>3, <1>4, <1>5, <1>6, <1>7 DEF SessionsInv, TypeOK, AtWork, PoolInv

LEMMA SessionsInvStep == SessionsInv /\ [Next]_vars => SessionsInv'
<1> SUFFICES ASSUME SessionsInv, [Next]_vars
             PROVE  SessionsInv'
  OBVIOUS
<1>1. PoolInv'
  BY PoolSteps, PoolInvStep, DropGivesBack, BootKeepsPool DEF SessionsInv, DropStep
<1>2. SUFFICES /\ StateTyped'
               /\ task' \in [Handler -> Task]
               /\ \A h \in Handler : HandlerAtWork(task'[h])
  BY <1>1 DEF SessionsInv, TypeOK, AtWork, StateTyped, PoolInv
<1> DEFINE Goal == /\ StateTyped'
                   /\ task' \in [Handler -> Task]
                   /\ \A h \in Handler : HandlerAtWork(task'[h])
<1>3. ASSUME StateTyped', UNCHANGED task
      PROVE  Goal
  BY <1>3 DEF SessionsInv, TypeOK, AtWork
<1>4. CASE \E h \in Handler : HandlerStep(h)
  BY <1>4, RequestTyped, HandlerStepTyped
<1>5. CASE \E n \in LaunchId : LaunchStep(n)
  <2>1. UNCHANGED task
    BY <1>5 DEF LaunchStep, StartAP, StartBridge, SetRunning, LaunchFails, LaunchRelease,
                LaunchCrash
  <2>2. QED
    BY <1>3, <1>5, <2>1, LaunchStepTyped
<1>6. CASE SweeperStep
  <2>1. UNCHANGED task
    BY <1>6 DEF SweeperStep, ListTransit, KillLate, ReleaseLate, CrashLate, ListRunning,
                InspectSkip, InspectDead, KillDead, KeepPort, RecordHold, MarkDead,
                ExpireHolds, ClearExpired
  <2>2. QED
    BY <1>3, <1>6, <2>1, SweeperStepTyped
<1> USE DEF SessionsInv, TypeOK, AtWork, SweeperAtWork, StateTyped
<1>7. CASE Crash
  <2>1. task' \in [Handler -> Task] /\ \A h \in Handler : HandlerAtWork(task'[h])
    BY <1>7, NoTaskTyped DEF Crash
  <2>2. /\ launch' \in [LaunchId -> Goroutine]
        /\ \A n \in LaunchId : launch'[n].pc = "none"
    BY <1>7 DEF Crash, NoGoroutine, Goroutine, MaybePort, MaybeSession
  <2>3. sw' \in Sweeper /\ SweeperAtWork'
    BY <1>7, Deadlines DEF Crash, Asleep, Sweeper
  <2>4. QED
    BY <1>7, <2>1, <2>2, <2>3 DEF Crash, docker
<1>8. CASE Boot
  <2>1. UNCHANGED <<procs, now>>
    BY <1>8 DEF Boot, BootStop, BootCrash, BootRecoverUsed, BootRecoverHeld
  <2>2. ap' \in [Session -> Container] /\ bridge' \in [Session -> Container]
    BY <1>8, ContainersTyped DEF Boot, BootStop, BootCrash, BootRecoverUsed,
                                 BootRecoverHeld, docker
  <2>3. rows' \in [Session -> Row]
    <3>1. CASE BootCrash
      BY <3>1 DEF BootCrash, Row, Status
    <3>2. CASE BootRecoverHeld
      BY <3>2, Deadlines DEF BootRecoverHeld, Row
    <3>3. QED
      BY <1>8, <3>1, <3>2 DEF Boot, BootStop, BootRecoverUsed
  <2>4. QED
    BY <2>1, <2>2, <2>3 DEF procs
<1>9. CASE (\E s \in Session : APExits(s)) \/ Tick \/ UNCHANGED vars
  <2>1. CASE \E s \in Session : APExits(s)
    BY <2>1 DEF APExits, Container, procs
  <2>2. CASE Tick
    BY <2>2, SessionsAssumption DEF Tick, procs, docker
  <2>3. CASE UNCHANGED vars
    BY <2>3 DEF vars, procs, docker
  <2>4. QED
    BY <1>9, <2>1, <2>2, <2>3
<1>10. QED
  BY <1>4, <1>5, <1>6, <1>7, <1>8, <1>9 DEF Next

LEMMA SessionsInvariant == Spec => []SessionsInv
BY SessionsInvInit, SessionsInvStep, PTL DEF Spec

(* The state of the orchestrator is well typed: every actor that is at work *)
(* has a session to work for, whoever else works for it.                    *)
THEOREM SessionsTypeCorrect == Spec => []TypeOK
<1>1. SessionsInv => TypeOK
  BY DEF SessionsInv
<1>2. QED
  BY <1>1, SessionsInvariant, PTL

(* In the whole orchestrator no port is ever both in use and held, whatever *)
(* overlaps and whenever the process crashes.                               *)
THEOREM SessionsDisjoint == Spec => []UsedHeldDisjoint
<1>1. SessionsInv => UsedHeldDisjoint
  BY DEF SessionsInv, PoolInv
<1>2. QED
  BY <1>1, SessionsInvariant, PTL

-----------------------------------------------------------------------------
(* The orchestrator implements the leases: every step is a step of one      *)
(* lease, or of none.                                                       *)
LEMMA SessionsLeaseStep ==
    ASSUME SessionsInv, SessionsInv', [Next]_vars
    PROVE  [PL!LeaseNext]_(PL!leaseVars)
<1>1. PoolInv /\ PoolInv'
  BY DEF SessionsInv
<1>2. CASE [PoolNext]_poolVars
  BY <1>1, <1>2, LeaseStep
<1>3. CASE DropStep
  <2>1. PICK s \in Session, p \in MaybePort : ReleaseAndForget(p, s)
    BY <1>3 DEF DropStep
  <2>2. PL!GiveBack(DroppedPorts(p, s))
    BY <1>1, <1>3, <2>1, DropGivesBack DEF DropStep
  <2>3. DroppedPorts(p, s) \in SUBSET Port
    BY DEF DroppedPorts
  <2>4. QED
    BY <2>2, <2>3 DEF PL!LeaseNext
<1>4. CASE BootRecoverUsed \/ BootRecoverHeld
  <2>1. \A p \in Port : LeaseOf(p)' \in PL!Lease
    BY <1>1, SessionAssumption
       DEF PoolInv, PoolTypeOK, LeaseOf, InUse, IsHeld, Hold, NoHold, PL!Lease, PL!Vacant
  <2>2. [p \in Port |-> LeaseOf(p)]' \in [Port -> PL!Lease]
    BY <2>1
  <2>3. phase # "serve"
    BY <1>4 DEF BootRecoverUsed, BootRecoverHeld
  <2>4. PL!Recover
    BY <2>2, <2>3 DEF PL!Recover
  <2>5. QED
    BY <2>4 DEF PL!LeaseNext
<1>5. QED
  BY <1>2, <1>3, <1>4, PoolSteps

THEOREM SessionsImplementLease == Spec => ImplementsLease
<1>1. Init => PL!LeaseInit
  <2>1. Init => \A p \in Port : LeaseOf(p) = PL!Vacant
    BY DEF Init, PoolInit, LeaseOf, InUse, IsHeld, NoHold, PL!Vacant
  <2>2. QED
    BY <2>1 DEF Init, PoolInit, PL!LeaseInit
<1>2. SessionsInv /\ SessionsInv' /\ [Next]_vars => [PL!LeaseNext]_(PL!leaseVars)
  BY SessionsLeaseStep
<1>3. QED
  BY <1>1, <1>2, SessionsInvariant, PTL DEF Spec, ImplementsLease, PL!LeaseSpec

-----------------------------------------------------------------------------
(* In the orchestrator a port in use never passes to another session,       *)
(* neither for use nor as a hold.                                           *)
LEMMA SessionsUsedStep ==
    ASSUME SessionsInv, [Next]_vars, phase = "serve", NEW p \in Port, InUse(p)
    PROVE  /\ used'[p] \in {used[p], NoSession}
           /\ held'[p].session \in {used[p], NoSession}
<1>1. CASE [PoolNext]_poolVars
  BY <1>1, UsedStep DEF SessionsInv
<1>2. CASE DropStep
  BY <1>2 DEF DropStep, ReleaseAndForget, SessionsInv, PoolInv, PoolTypeOK,
              UsedHeldDisjoint, InUse, IsHeld, NoHold, Owns
<1>3. CASE BootRecoverUsed \/ BootRecoverHeld
  BY <1>3 DEF BootRecoverUsed, BootRecoverHeld
<1>4. QED
  BY <1>1, <1>2, <1>3, PoolSteps

THEOREM SessionsUsedNeverTaken == Spec => UsedNeverTaken
<1>1. SessionsInv /\ [Next]_vars =>
        [phase = "serve" =>
           \A p \in Port : InUse(p) =>
             /\ used'[p] \in {used[p], NoSession}
             /\ held'[p].session \in {used[p], NoSession}]_poolVars
  BY SessionsUsedStep
<1>2. QED
  BY <1>1, SessionsInvariant, PTL DEF Spec, UsedNeverTaken

-----------------------------------------------------------------------------
(* The calls of the pool that serve session s change the use of no port     *)
(* that another session uses.                                               *)
LEMMA CallForOwner ==
    ASSUME PoolInv, NEW s \in Session,
           \/ \E q \in Port : AcquireFor(s, q)
           \/ \E q \in MaybePort : ReleaseOwned(q, s)
           \/ \E q \in MaybePort : ReleaseAndForget(q, s)
           \/ \E q \in Port, t \in Time : HoldPort(q, s, t),
           NEW p \in Port, InUse(p), used'[p] # used[p]
    PROVE  used[p] = s
<1> USE SessionAssumption DEF PoolInv, PoolTypeOK
<1>1. ASSUME NEW q \in Port, AcquireFor(s, q)
      PROVE  FALSE
  BY <1>1 DEF AcquireFor, TakeOwnHold, TakeLowestFree, EvictOldestHold, Free, HeldBy,
              UsedHeldDisjoint, InUse, IsHeld
<1>2. CASE \E q \in MaybePort : ReleaseOwned(q, s)
  BY <1>2 DEF ReleaseOwned, ReleaseFor, Owns
<1>3. CASE \E q \in MaybePort : ReleaseAndForget(q, s)
  BY <1>3 DEF ReleaseAndForget, Owns
<1>4. CASE \E q \in Port, t \in Time : HoldPort(q, s, t)
  BY <1>4 DEF HoldPort, CanHold, InUse
<1>5. QED
  BY <1>1, <1>2, <1>3, <1>4

LEMMA OnlyOwnersStep ==
    ASSUME DbFails = FALSE, SessionsInv, [Next]_vars, phase' = "serve",
           NEW p \in Port, InUse(p), used'[p] # used[p]
    PROVE  ActsFor(used[p])
<1> USE DEF SessionsInv
<1>1. ASSUME NEW h \in Handler, HandlerStep(h)
      PROVE  ActsFor(used[p])
  <2>0. task[h] \in Task /\ HandlerAtWork(task[h])
    BY DEF TypeOK, AtWork
  <2>1. Acquire(h) \/ GiveBack(h) \/ Drop(h)
    BY <1>1 DEF HandlerStep, Begin, Fail, Insert, Draft, Generated, CheckReady,
                ForgetVictim, Record, RecordFails, ReadForStop, Kill, DropRecord, Mark, Reset
  <2>2. task[h].s \in Session /\ task[h].port \in MaybePort
    BY <2>0, <2>1 DEF Acquire, GiveBack, Drop, At, HandlerAtWork, Task
  <2>3. used[p] = task[h].s
    BY <2>1, <2>2, CallForOwner DEF Acquire, GiveBack, Drop
  <2>4. task'[h].pc # task[h].pc
    <3>1. ASSUME NEW pc, task' = [task EXCEPT ![h].pc = pc]
          PROVE  task'[h].pc = pc
      BY <2>0, <3>1 DEF TypeOK, Task
    <3>2. CASE Acquire(h)
      <4>1. task'[h].pc \in {"forget", "record"}
        BY <2>0, <3>2 DEF Acquire, TypeOK, Task
      <4>2. QED
        BY <3>2, <4>1 DEF Acquire, At
    <3>3. CASE GiveBack(h)
      <4>1. task'[h].pc \in {"drop", "mark", "reset"}
        BY <2>0, <3>1, <3>3 DEF GiveBack, At, Goto, HandlerAtWork
      <4>2. QED
        BY <3>3, <4>1 DEF GiveBack, At
    <3>4. CASE Drop(h)
      BY <3>1, <3>4 DEF Drop, At, Goto
    <3>5. QED
      BY <2>1, <3>2, <3>3, <3>4
  <2>5. QED
    BY <2>3, <2>4 DEF ActsFor
<1>2. ASSUME NEW n \in LaunchId, LaunchStep(n)
      PROVE  ActsFor(used[p])
  <2>1. LaunchRelease(n)
    BY <1>2 DEF LaunchStep, StartAP, StartBridge, SetRunning, LaunchFails, LaunchCrash
  <2>2. launch[n].s \in Session /\ launch[n].port \in MaybePort
    BY <2>1 DEF LaunchRelease, LaunchAt, AtWork, TypeOK, Goroutine
  <2>3. used[p] = launch[n].s
    BY <2>1, <2>2, CallForOwner DEF LaunchRelease
  <2>4. launch'[n].pc # launch[n].pc
    BY <2>1 DEF LaunchRelease, LaunchAt, LaunchGoto, TypeOK, Goroutine
  <2>5. QED
    BY <2>3, <2>4 DEF ActsFor
<1>3. ASSUME SweeperStep
      PROVE  ActsFor(used[p])
  <2>1. ReleaseLate \/ KeepPort
    BY <1>3 DEF SweeperStep, ListTransit, KillLate, CrashLate, ListRunning, InspectSkip,
                InspectDead, KillDead, RecordHold, MarkDead, ClearExpired, ExpireHolds, Expire
  <2>2. sw.cur.s \in Session /\ sw.cur.port \in MaybePort /\ now + TTL \in Time
    BY <2>1, Deadlines DEF ReleaseLate, KeepPort, SweepAt, AtWork, SweeperAtWork, Item, TypeOK
  <2>3. used[p] = sw.cur.s
    BY <2>1, <2>2, CallForOwner DEF ReleaseLate, KeepPort
  <2>4. sw'.pc # sw.pc
    BY <2>1 DEF ReleaseLate, KeepPort, SweepAt, SweepGoto, TypeOK, Sweeper
  <2>5. QED
    BY <2>3, <2>4 DEF ActsFor
<1>4. CASE Crash \/ Boot \/ (\E s \in Session : APExits(s)) \/ Tick \/ UNCHANGED vars
  BY <1>4 DEF Crash, NewPool, Boot, BootStop, BootCrash, BootRecoverUsed, BootRecoverHeld,
              APExits, Tick, vars, poolVars
<1>5. QED
  BY <1>1, <1>2, <1>3, <1>4 DEF Next

(* As long as the statement that records a launch does not fail, a session  *)
(* loses the port it uses only to work done for itself.  RecordFails gives  *)
(* the port back without asking whose it is by then, and has to be left out. *)
THEOREM SessionsOnlyOwners == DbFails = FALSE => (Spec => OthersPortsUntouched)
<1> SUFFICES ASSUME DbFails = FALSE
             PROVE  Spec => OthersPortsUntouched
  OBVIOUS
<1>1. SessionsInv /\ [Next]_vars =>
        [phase' = "serve" =>
           \A p \in Port : InUse(p) /\ used'[p] # used[p] => ActsFor(used[p])]_vars
  BY OnlyOwnersStep
<1>2. QED
  BY <1>1, SessionsInvariant, PTL DEF Spec, OthersPortsUntouched
-----------------------------------------------------------------------------
(* When nothing overlaps on a session (Overlap = {}), each session has at   *)
(* most one actor at work on it, and none while a process boots.            *)
AtRest ==
    /\ \A h \in Handler : task[h].pc = "idle" => task[h].s = NoSession
    /\ \A n \in LaunchId : launch[n].pc = "none" => launch[n].s = NoSession
    /\ sw.pc \in {"clear", "transit", "running"} => sw.cur = NoItem
    /\ phase # "serve" =>
         /\ \A h \in Handler : task[h] = NoTask
         /\ \A n \in LaunchId : launch[n] = NoGoroutine
         /\ sw = Asleep

Swept(s) == sw.pc # "clear" /\ SweeperOn(s)

OneActor ==
    /\ \A h, k \in Handler : task[h].s \in Session /\ task[h].s = task[k].s => h = k
    /\ \A n, m \in LaunchId : launch[n].s \in Session /\ launch[n].s = launch[m].s => n = m
    /\ \A s \in Session : ~(HandlerOn(s) /\ GoroutineOn(s))
    /\ \A s \in Session : Swept(s) => ~HandlerOn(s) /\ ~GoroutineOn(s)

(* What each actor may rely on in the row of its session, and in the pool.  *)
NoneUsed(s) == \A p \in Port : used[p] # s

HandlerKnows(h) ==
    LET t == task[h] IN
    /\ t.op \notin {"stop", "delete"} => rows[t.s].status \notin InProgress
    /\ t.op \in {"stop", "delete"} =>
         /\ t.pc \in {"kill", "release", "drop", "clear", "mark"}
         /\ t.port = rows[t.s].port
    /\ t.pc \in {"acquire", "forget", "record"} => rows[t.s].status = "generated"
    /\ t.pc \in {"clear", "mark"} => NoneUsed(t.s)

LaunchKnows(n) ==
    /\ launch[n].port = rows[launch[n].s].port
    /\ launch[n].pc = "crash" => NoneUsed(launch[n].s)

SweeperKnows(s) ==
    /\ sw.pc # "clear" =>
         /\ \A i \in sw.todo : i.s = s => i.port = rows[s].port
         /\ sw.cur.s = s => sw.cur.port = rows[s].port
    /\ sw.cur.s = s /\ sw.pc \in {"crashLate", "record", "mark"} => NoneUsed(s)

Taking(s, p) == \E h \in Handler : task[h].s = s /\ task[h].port = p /\ task[h].pc \in {"forget", "record"}

UseLive(s) ==
    \A p \in Port : used[p] = s =>
        (rows[s].status \in InProgress /\ rows[s].port = p) \/ Taking(s, p)

Orderly(s) ==
    /\ UseLive(s)
    /\ \A h \in Handler : task[h].s = s => HandlerKnows(h)
    /\ \A n \in LaunchId : launch[n].s = s => LaunchKnows(n)
    /\ SweeperKnows(s)

LiveInv ==
    /\ SessionsInv /\ AtRest /\ OneActor
    /\ phase = "reserve" => \A p \in Port : used[p] = NoSession
    /\ \A s \in Session : Orderly(s)

(* A request moves on for its session, ends, or starts on a session that    *)
(* is free; only the last step of a launch starts a goroutine, and it ends  *)
(* the request.                                                             *)
LEMMA RequestMoves ==
    ASSUME SessionsInv, NEW h \in Handler, HandlerStep(h)
    PROVE  /\ phase = "serve" /\ phase' = "serve" /\ UNCHANGED sw
           /\ \A k \in Handler \ {h} : task'[k] = task[k]
           /\ \/ task'[h] = NoTask
              \/ task[h].pc # "idle" /\ task'[h].pc # "idle" /\ task'[h].s = task[h].s
              \/ /\ MayStart(task'[h].s) /\ task'[h].s \in Session /\ task'[h].pc # "idle"
                 /\ UNCHANGED launch
                 /\ \E s \in Session, op \in Ops : Begin(h, s, op) /\ s = task'[h].s
           /\ \/ UNCHANGED launch
              \/ /\ task'[h] = NoTask /\ task[h].pc = "record" /\ Record(h)
                 /\ \E n \in LaunchId :
                      /\ launch[n] = NoGoroutine /\ launch'[n].pc = "startAP"
                      /\ launch'[n].s = task[h].s /\ launch'[n].port = task[h].port
                      /\ \A m \in LaunchId \ {n} : launch'[m] = launch[m]
<1> USE DEF SessionsInv
<1> DEFINE Moved == task[h].pc # "idle" /\ task'[h].pc # "idle" /\ task'[h].s = task[h].s
           Others == \A k \in Handler \ {h} : task'[k] = task[k]
<1>0. task[h] \in Task /\ HandlerAtWork(task[h]) /\ task \in [Handler -> Task]
      /\ launch \in [LaunchId -> Goroutine]
  BY DEF TypeOK, AtWork
<1>1. CASE Done(h) /\ UNCHANGED <<launch, sw, phase>> /\ phase = "serve"
  BY <1>0, <1>1 DEF Done
<1>2. ASSUME NEW pc, Goto(h, pc), pc # "idle", task[h].pc # "idle"
      PROVE  Moved /\ Others
  BY <1>0, <1>2 DEF Goto, Task
<1>3. ASSUME GotoLaunch(h), task[h].pc # "idle"
      PROVE  Moved /\ Others
  BY <1>0, <1>3 DEF GotoLaunch, NoTask
<1>4. ASSUME NEW s \in Session, NEW op \in Ops, Begin(h, s, op)
      PROVE  /\ MayStart(task'[h].s) /\ task'[h].s \in Session /\ task'[h].pc # "idle"
             /\ UNCHANGED <<launch, sw, phase>> /\ phase = "serve" /\ Others
             /\ s = task'[h].s
  <2>1. FirstStep(op, rows[s]) # "idle"
    BY SessionsAssumption DEF FirstStep, Operation
  <2>2. task'[h].s = s /\ task'[h].pc = FirstStep(op, rows[s])
    BY <1>0, <1>4 DEF Begin, NoTask
  <2>3. QED
    BY <1>0, <1>4, <2>1, <2>2 DEF Begin, Serving
<1>5. ASSUME Insert(h) \/ Draft(h) \/ Generated(h) \/ CheckReady(h) \/ GiveBack(h) \/ Drop(h)
             \/ DropRecord(h) \/ Mark(h) \/ Reset(h)
      PROVE  /\ UNCHANGED <<launch, sw, phase>> /\ phase = "serve"
             /\ Done(h) \/ (Moved /\ Others)
  <2>1. /\ UNCHANGED <<launch, sw, phase>> /\ phase = "serve" /\ task[h].pc # "idle"
    BY <1>5 DEF Insert, Draft, Generated, CheckReady, GiveBack, Drop, DropRecord, Mark, Reset,
                At, Serving
  <2>2. Done(h) \/ GotoLaunch(h)
        \/ \E pc \in {"generated", "acquire", "drop", "mark", "reset", "clear"} : Goto(h, pc)
    <3>1. CASE GiveBack(h)
      BY <1>0, <3>1 DEF GiveBack, At, HandlerAtWork
    <3>2. CASE Mark(h)
      BY <1>0, <3>2 DEF Mark, At, HandlerAtWork
    <3>3. QED
      BY <1>5, <3>1, <3>2 DEF Insert, Draft, Generated, CheckReady, Drop, DropRecord, Reset
  <2>3. QED
    BY <1>2, <1>3, <2>1, <2>2
<1>6. ASSUME Acquire(h) \/ ForgetVictim(h) \/ ReadForStop(h) \/ Kill(h)
      PROVE  /\ UNCHANGED <<launch, sw, phase>> /\ phase = "serve" /\ Moved /\ Others
  <2>1. /\ UNCHANGED <<launch, sw, phase>> /\ phase = "serve" /\ task[h].pc # "idle"
    BY <1>6 DEF Acquire, ForgetVictim, ReadForStop, Kill, At, Serving
  <2>2. CASE Acquire(h)
    BY <1>0, <2>1, <2>2 DEF Acquire, Task
  <2>3. CASE ForgetVictim(h)
    BY <1>0, <2>1, <2>3 DEF ForgetVictim, Task
  <2>4. CASE ReadForStop(h)
    BY <1>0, <2>1, <2>4 DEF ReadForStop, Task
  <2>5. CASE Kill(h)
    BY <1>0, <2>1, <2>5 DEF Kill, Task
  <2>6. QED
    BY <1>6, <2>2, <2>3, <2>4, <2>5
<1>7. CASE Record(h)
  <2>1. PICK n \in LaunchId :
          /\ Unused(n)
          /\ launch' = [launch EXCEPT ![n] =
                         [s |-> task[h].s, port |-> task[h].port, pc |-> "startAP"]]
    BY <1>7 DEF Record
  <2>2. QED
    BY <1>0, <1>7, <2>1 DEF Record, At, Serving, Done, Unused
<1>8. CASE Fail(h) \/ RecordFails(h)
  BY <1>1, <1>8 DEF Fail, RecordFails, At, Serving
<1>9. QED
  BY <1>0, <1>1, <1>4, <1>5, <1>6, <1>7, <1>8 DEF HandlerStep

(* The goroutine of a launch goes on for its session, or is gone.           *)
LEMMA LaunchMoves ==
    ASSUME SessionsInv, NEW n \in LaunchId, LaunchStep(n)
    PROVE  /\ phase = "serve" /\ phase' = "serve" /\ UNCHANGED <<sw, task>>
           /\ \A m \in LaunchId \ {n} : launch'[m] = launch[m]
           /\ launch[n].pc # "none" /\ launch[n].s \in Session
           /\ \/ launch'[n] = NoGoroutine
              \/ /\ launch'[n].pc # "none" /\ launch'[n].s = launch[n].s
                 /\ launch'[n].port = launch[n].port
<1> USE DEF SessionsInv
<1>0. launch[n] \in Goroutine /\ launch \in [LaunchId -> Goroutine]
  BY DEF TypeOK
<1>1. phase = "serve" /\ phase' = "serve" /\ UNCHANGED <<sw, task>> /\ launch[n].pc # "none"
  BY DEF LaunchStep, StartAP, StartBridge, SetRunning, LaunchFails, LaunchRelease,
         LaunchCrash, LaunchAt, Serving
<1>2. ASSUME NEW pc \in {"startBridge", "running", "release", "crash"}, LaunchGoto(n, pc)
      PROVE  /\ \A m \in LaunchId \ {n} : launch'[m] = launch[m]
             /\ launch'[n].pc # "none" /\ launch'[n].s = launch[n].s
             /\ launch'[n].port = launch[n].port
  BY <1>0, <1>2 DEF LaunchGoto, Goroutine
<1>3. launch' = [launch EXCEPT ![n] = NoGoroutine]
      \/ \E pc \in {"startBridge", "running", "release", "crash"} : LaunchGoto(n, pc)
  BY DEF LaunchStep, StartAP, StartBridge, SetRunning, LaunchFails, LaunchRelease, LaunchCrash
<1>4. QED
  BY <1>0, <1>1, <1>2, <1>3 DEF AtWork

(* The sweeper takes up a list of sessions nobody works on, or goes on with *)
(* the list it has; the expired holds are no work on a session.             *)
LEMMA SweeperMoves ==
    ASSUME SessionsInv, AtRest, SweeperStep, Overlap = {}
    PROVE  /\ phase = "serve" /\ phase' = "serve" /\ UNCHANGED <<task, launch>>
           /\ sw'.pc \in {"clear", "transit", "running"} => sw'.cur = NoItem
           /\ \/ sw'.pc = "clear"
              \/ \A s \in Session : Swept(s)' => Swept(s)
              \/ \A s \in Session : Swept(s)' => ~HandlerOn(s) /\ ~GoroutineOn(s)
<1> USE DEF SessionsInv, Swept, SweeperOn
<1>0. sw \in Sweeper /\ NoSession \notin Session
  BY SessionAssumption DEF TypeOK
<1>1. phase = "serve" /\ phase' = "serve" /\ UNCHANGED <<task, launch>>
  BY DEF SweeperStep, ListTransit, KillLate, ReleaseLate, CrashLate, ListRunning,
         InspectSkip, InspectDead, KillDead, KeepPort, RecordHold, MarkDead,
         ExpireHolds, ClearExpired, SweepAt, Serving
<1>2. CASE ListTransit \/ ListRunning
  <2>1. PICK S \in SUBSET Session, pc \in {"transit", "running"} :
          /\ Listing(S)
          /\ sw' = [Asleep EXCEPT !.pc = pc, !.todo = {ItemOf(s) : s \in S}]
    BY <1>2 DEF ListTransit, ListRunning, Launching
  <2>2. sw'.cur = NoItem /\ sw'.todo = {ItemOf(s) : s \in S}
    BY <2>1 DEF Asleep
  <2>3. \A s \in Session : Swept(s)' => s \in S
    BY <1>0, <2>2 DEF NoItem, ItemOf
  <2>4. \A s \in S : ~HandlerOn(s) /\ ~GoroutineOn(s)
    BY <2>1 DEF Listing
  <2>5. QED
    BY <1>1, <2>2, <2>3, <2>4
<1>3. CASE InspectSkip \/ ClearExpired
  <2>1. PICK i \in sw.todo : sw' = [sw EXCEPT !.todo = @ \ {i}]
    BY <1>3 DEF InspectSkip, ClearExpired
  <2>2. sw'.pc = sw.pc /\ sw'.cur = sw.cur /\ sw'.todo \subseteq sw.todo
    BY <1>0, <2>1 DEF Sweeper
  <2>3. QED
    BY <1>1, <2>2 DEF AtRest
<1>4. CASE KillLate \/ InspectDead
  <2>1. PICK i \in sw.todo : /\ sw'.cur = i /\ sw'.pc \in {"releaseLate", "killDead"}
                             /\ sw'.todo = sw.todo \ {i}
    BY <1>0, <1>4 DEF KillLate, InspectDead, Sweeper
  <2>2. sw.pc # "clear"
    BY <1>4 DEF KillLate, InspectDead, SweepAt
  <2>3. QED
    BY <1>1, <2>1, <2>2
<1>5. CASE ReleaseLate \/ KillDead \/ KeepPort \/ RecordHold
  <2>1. /\ sw'.cur = sw.cur /\ sw'.todo = sw.todo
        /\ sw'.pc \in {"crashLate", "hold", "record", "mark"}
    BY <1>0, <1>5 DEF ReleaseLate, KillDead, KeepPort, RecordHold, SweepGoto, Sweeper
  <2>2. sw.pc # "clear"
    BY <1>5 DEF ReleaseLate, KillDead, KeepPort, RecordHold, SweepAt
  <2>3. QED
    BY <1>1, <2>1, <2>2
<1>6. CASE CrashLate \/ MarkDead
  <2>1. sw'.cur = NoItem /\ sw'.todo = sw.todo
    BY <1>6 DEF CrashLate, MarkDead, ItemDone, Asleep
  <2>2. sw.pc # "clear"
    BY <1>6 DEF CrashLate, MarkDead, SweepAt
  <2>3. QED
    BY <1>0, <1>1, <2>1, <2>2 DEF NoItem
<1>7. CASE ExpireHolds
  BY <1>1, <1>7 DEF ExpireHolds, Asleep
<1>8. QED
  BY <1>2, <1>3, <1>4, <1>5, <1>6, <1>7 DEF SweeperStep

LEMMA OneActorStep ==
    ASSUME Overlap = {}, SessionsInv, SessionsInv', AtRest, OneActor, [Next]_vars
    PROVE  AtRest' /\ OneActor'
<1> USE DEF AtRest, OneActor, HandlerOn, GoroutineOn
<1>0. /\ NoSession \notin Session
      /\ \A h \in Handler : task[h].pc # "idle" => task[h].s \in Session
      /\ \A n \in LaunchId : launch[n].pc # "none" => launch[n].s \in Session
      /\ NoTask.s = NoSession /\ NoGoroutine.s = NoSession /\ Asleep.cur = NoItem
      /\ NoTask.pc = "idle" /\ NoGoroutine.pc = "none" /\ Asleep.pc = "clear"
  BY SessionAssumption
     DEF SessionsInv, AtWork, HandlerAtWork, NoTask, NoGoroutine, Asleep
<1>1. ASSUME NEW h \in Handler, HandlerStep(h)
      PROVE  AtRest' /\ OneActor'
  <2>1. /\ phase' = "serve" /\ UNCHANGED sw
        /\ \A k \in Handler \ {h} : task'[k] = task[k]
    BY <1>1, RequestMoves
  <2>2. CASE task'[h] = NoTask /\ UNCHANGED launch
    BY <1>0, <2>1, <2>2 DEF Swept, SweeperOn
  <2>3. CASE task'[h] = NoTask /\ task[h].pc = "record"
             /\ \E n \in LaunchId :
                  /\ launch[n] = NoGoroutine /\ launch'[n].pc = "startAP"
                  /\ launch'[n].s = task[h].s
                  /\ \A m \in LaunchId \ {n} : launch'[m] = launch[m]
    <3>1. PICK n \in LaunchId :
            /\ launch[n] = NoGoroutine /\ launch'[n].pc = "startAP"
            /\ launch'[n].s = task[h].s
            /\ \A m \in LaunchId \ {n} : launch'[m] = launch[m]
      BY <2>3
    <3>2. task[h].s \in Session /\ HandlerOn(task[h].s)
      BY <1>0, <2>3
    <3>3. AtRest'
      BY <1>0, <2>1, <2>3, <3>1
    <3>4. \A k \in Handler : task'[k].s \in Session => k # h /\ task'[k] = task[k]
      BY <1>0, <2>1, <2>3
    <3>5. \A m \in LaunchId : m # n /\ launch[m].s \in Session => launch[m].s # task[h].s
      BY <3>2
    <3>6. \A k \in Handler : k # h => task[k].s # task[h].s
      BY <3>2
    <3>7. \A s \in Session : Swept(s)' => Swept(s)
      BY <2>1 DEF Swept, SweeperOn
    <3>8. QED
      BY <1>0, <2>1, <2>3, <3>1, <3>2, <3>3, <3>4, <3>5, <3>6, <3>7
  <2>4. CASE task[h].pc # "idle" /\ task'[h].pc # "idle" /\ task'[h].s = task[h].s
             /\ UNCHANGED launch
    BY <1>0, <2>1, <2>4 DEF Swept, SweeperOn
  <2>5. CASE MayStart(task'[h].s) /\ task'[h].s \in Session /\ task'[h].pc # "idle"
             /\ UNCHANGED launch
    <3>1. ~HandlerOn(task'[h].s) /\ ~GoroutineOn(task'[h].s) /\ ~SweeperOn(task'[h].s)
      BY <2>5 DEF MayStart
    <3>2. QED
      BY <1>0, <2>1, <2>5, <3>1 DEF Swept, SweeperOn
  <2>6. QED
    BY <1>0, <1>1, <2>2, <2>3, <2>4, <2>5, RequestMoves
<1>2. ASSUME NEW n \in LaunchId, LaunchStep(n)
      PROVE  AtRest' /\ OneActor'
  <2>1. /\ phase' = "serve" /\ UNCHANGED <<sw, task>>
        /\ \A m \in LaunchId \ {n} : launch'[m] = launch[m]
        /\ \/ launch'[n] = NoGoroutine
           \/ launch'[n].pc # "none" /\ launch'[n].s = launch[n].s
    BY <1>2, LaunchMoves
  <2>2. AtRest'
    BY <1>0, <2>1
  <2>3. \A m \in LaunchId : launch'[m].s \in Session => launch'[m].s = launch[m].s
    BY <1>0, <2>1
  <2>4. QED
    BY <2>1, <2>2, <2>3 DEF Swept, SweeperOn
<1>3. ASSUME SweeperStep
      PROVE  AtRest' /\ OneActor'
  <2>1. /\ phase' = "serve" /\ UNCHANGED <<task, launch>>
        /\ sw'.pc \in {"clear", "transit", "running"} => sw'.cur = NoItem
    BY <1>3, SweeperMoves
  <2>2. \A s \in Session : Swept(s)' => ~HandlerOn(s) /\ ~GoroutineOn(s)
    BY <1>3, SweeperMoves DEF Swept
  <2>3. QED
    BY <2>1, <2>2
<1>4. CASE Crash
  BY <1>0, <1>4 DEF Crash, Swept
<1>5. CASE UNCHANGED procs /\ (phase # "serve" \/ UNCHANGED phase)
  BY <1>5 DEF procs, Swept, SweeperOn
<1>6. CASE Boot \/ (\E s \in Session : APExits(s)) \/ Tick \/ UNCHANGED vars
  BY <1>5, <1>6 DEF Boot, BootStop, BootCrash, BootRecoverUsed, BootRecoverHeld,
                    APExits, Tick, vars, poolVars
<1>7. QED
  BY <1>1, <1>2, <1>3, <1>4, <1>6 DEF Next

-----------------------------------------------------------------------------
(* What the statements of the database and the calls of the pool do, one    *)
(* session at a time.                                                       *)
LEMMA StatusDoes ==
    ASSUME rows \in [Session -> Row], NEW s \in Session, NEW st, UpdateStatus(s, st)
    PROVE  /\ rows'[s].status \in {st, rows[s].status} /\ rows'[s].port = rows[s].port
           /\ \A t \in Session \ {s} : rows'[t] = rows[t]
BY DEF UpdateStatus, Update, Row

LEMMA GeneratedDoes ==
    ASSUME rows \in [Session -> Row], NEW s \in Session, UpdateGenerated(s)
    PROVE  /\ rows'[s].status \in {"generated", rows[s].status} /\ rows'[s].port = rows[s].port
           /\ \A t \in Session \ {s} : rows'[t] = rows[t]
BY DEF UpdateGenerated, Update, Row

LEMMA ReservationDoes ==
    ASSUME rows \in [Session -> Row], NEW s \in Session, NEW t, SetReservation(s, t)
    PROVE  \A u \in Session : /\ rows'[u].status = rows[u].status
                              /\ rows'[u].port = rows[u].port
BY DEF SetReservation, Update, Row

LEMMA ReleaseDoes ==
    ASSUME used \in [Port -> Session \cup {NoSession}], NEW s \in Session, NEW p \in MaybePort,
           ReleaseOwned(p, s) \/ ReleaseAndForget(p, s)
    PROVE  \A q \in Port : /\ used'[q] \in Session => used'[q] = used[q]
                           /\ used'[q] = s => q # p
BY SessionAssumption DEF ReleaseOwned, ReleaseFor, ReleaseAndForget, Owns

LEMMA AcquireDoes ==
    ASSUME used \in [Port -> Session \cup {NoSession}], NEW s \in Session, NEW p \in Port,
           AcquireFor(s, p)
    PROVE  \A q \in Port : used'[q] = IF q = p THEN s ELSE used[q]
BY DEF AcquireFor, TakeOwnHold, TakeLowestFree, EvictOldestHold

(* A session whose row, ports and actors a step leaves alone stays in order. *)
LEMMA Undisturbed ==
    ASSUME NEW s \in Session, Orderly(s),
           rows'[s].status = rows[s].status, rows'[s].port = rows[s].port,
           \A p \in Port : used'[p] = s => used[p] = s,
           \A h \in Handler : task[h].s = s \/ task'[h].s = s => task'[h] = task[h],
           \A n \in LaunchId : launch'[n].s = s => launch'[n] = launch[n]
    PROVE  /\ UseLive(s)'
           /\ \A h \in Handler : task'[h].s = s => HandlerKnows(h)'
           /\ \A n \in LaunchId : launch'[n].s = s => LaunchKnows(n)'
           /\ UNCHANGED sw => SweeperKnows(s)'
<1>1. NoneUsed(s) => NoneUsed(s)'
  BY DEF NoneUsed
<1>2. UseLive(s)'
  <2>1. \A p \in Port : Taking(s, p) => Taking(s, p)'
    BY DEF Taking
  <2>2. QED
    BY <2>1 DEF Orderly, UseLive
<1>3. ASSUME NEW h \in Handler, task'[h].s = s
      PROVE  HandlerKnows(h)'
  BY <1>1, <1>3 DEF Orderly, HandlerKnows
<1>4. ASSUME NEW n \in LaunchId, launch'[n].s = s
      PROVE  LaunchKnows(n)'
  BY <1>1, <1>4 DEF Orderly, LaunchKnows
<1>5. UNCHANGED sw => SweeperKnows(s)'
  BY <1>1 DEF Orderly, SweeperKnows
<1>6. QED
  BY <1>2, <1>3, <1>4, <1>5

(* A request is alone with its session; unless it stops or deletes it, or   *)
(* is just acquiring, the session uses no port.                             *)
LEMMA RequestAlone ==
    ASSUME LiveInv, NEW h \in Handler, task[h].pc # "idle"
    PROVE  /\ task[h].s \in Session /\ Orderly(task[h].s) /\ HandlerKnows(h)
           /\ \A k \in Handler \ {h} : task[k].s # task[h].s
           /\ \A n \in LaunchId : launch[n].s # task[h].s
           /\ ~Swept(task[h].s)
           /\ task[h].pc \notin {"forget", "record"} =>
                \A p \in Port : used[p] = task[h].s =>
                  rows[task[h].s].status \in InProgress /\ rows[task[h].s].port = p
           /\ task[h].pc \notin {"forget", "record"} /\ task[h].op \notin {"stop", "delete"} =>
                NoneUsed(task[h].s)
           /\ task[h].pc \in {"forget", "record"} =>
                \A p \in Port : used[p] = task[h].s => task[h].port = p
<1> DEFINE s == task[h].s
<1>1. s \in Session
  BY DEF LiveInv, SessionsInv, AtWork, HandlerAtWork
<1>2. Orderly(s) /\ HandlerKnows(h)
  BY <1>1 DEF LiveInv, Orderly
<1>3. HandlerOn(s)
  BY DEF HandlerOn
<1>4. /\ \A k \in Handler \ {h} : task[k].s # s
      /\ \A n \in LaunchId : launch[n].s # s
      /\ ~Swept(s)
  BY <1>1, <1>3 DEF LiveInv, OneActor, GoroutineOn
<1>5. \A p \in Port : Taking(s, p) => task[h].pc \in {"forget", "record"} /\ task[h].port = p
  BY <1>4 DEF Taking
<1>6. \A p \in Port : used[p] = s =>
        (rows[s].status \in InProgress /\ rows[s].port = p) \/ Taking(s, p)
  BY <1>2 DEF Orderly, UseLive
<1>7. task[h].op \notin {"stop", "delete"} => rows[s].status \notin InProgress
  BY <1>2 DEF HandlerKnows
<1>8. task[h].pc \in {"forget", "record"} => rows[s].status \notin InProgress
  BY <1>2 DEF HandlerKnows, InProgress
<1>9. QED
  BY <1>1, <1>2, <1>4, <1>5, <1>6, <1>7, <1>8 DEF NoneUsed

(* So after its step the session is in order when the use of its ports is   *)
(* explained, and the request still knows what it relies on.                *)
LEMMA RequestOrder ==
    ASSUME LiveInv, NEW h \in Handler, task[h].pc # "idle", NEW s \in Session, s = task[h].s,
           UNCHANGED <<launch, sw>>,
           \A k \in Handler \ {h} : task'[k] = task[k],
           UseLive(s)', task'[h].s = s => HandlerKnows(h)'
    PROVE  Orderly(s)'
<1>1. /\ \A k \in Handler \ {h} : task'[k].s # s
      /\ \A n \in LaunchId : launch'[n].s # s
  BY RequestAlone
<1>2. SweeperKnows(s)'
  BY RequestAlone DEF Swept, SweeperOn, SweeperKnows
<1>3. QED
  BY <1>1, <1>2 DEF Orderly

(* The steps of a request that leave its session without a port in use.     *)
LEMMA IdleRequestOrder ==
    ASSUME LiveInv, NEW h \in Handler, NEW s \in Session, s = task[h].s,
           Fail(h) \/ Insert(h) \/ Draft(h) \/ Generated(h) \/ CheckReady(h)
             \/ ReadForStop(h) \/ Reset(h) \/ DropRecord(h) \/ Mark(h)
    PROVE  Orderly(s)'
<1>0. /\ task[h] \in Task /\ HandlerAtWork(task[h]) /\ task \in [Handler -> Task]
      /\ rows \in [Session -> Row]
      /\ task[h].pc \notin {"idle", "forget", "record"}
  BY DEF LiveInv, SessionsInv, TypeOK, AtWork, Fail, Insert, Draft, Generated, CheckReady,
         ReadForStop, Reset, DropRecord, Mark, At
<1>1. HandlerKnows(h)
  BY <1>0, RequestAlone
<1>2. NoneUsed(s)
  <2>1. task[h].pc \in {"insert", "draft", "generated", "launch", "acquire", "read", "reset"}
          => task[h].op \notin {"stop", "delete"}
    BY <1>1 DEF HandlerKnows
  <2>2. task[h].pc \in {"clear", "mark"} => NoneUsed(s)
    BY <1>1 DEF HandlerKnows
  <2>3. task[h].pc \in {"insert", "draft", "generated", "launch", "acquire", "read", "reset",
                        "clear", "mark"}
    BY DEF Fail, Insert, Draft, Generated, CheckReady, ReadForStop, Reset, DropRecord, Mark, At
  <2>4. QED
    BY <1>0, <2>1, <2>2, <2>3, RequestAlone
<1>3. UNCHANGED <<used, launch, sw>> /\ \A k \in Handler \ {h} : task'[k] = task[k]
  <2>1. UNCHANGED <<used, launch, sw>>
    BY DEF Fail, Insert, Draft, Generated, CheckReady, ReadForStop, Reset, DropRecord, Mark
  <2>2. HandlerStep(h)
    BY DEF HandlerStep
  <2>3. QED
    BY <2>1, <2>2, RequestMoves DEF LiveInv
<1>4. NoneUsed(s)' /\ UseLive(s)'
  BY <1>2, <1>3 DEF NoneUsed, UseLive
<1>5. task'[h].s = s => HandlerKnows(h)'
  <2>0. CASE Done(h)
    BY <1>0, <1>1, <2>0, SessionAssumption DEF Done, NoTask
  <2>1. CASE Insert(h)
    <3>1. \/ /\ task'[h].op = task[h].op /\ task'[h].pc = "generated"
             /\ task'[h].s = s /\ task[h].op \notin {"stop", "delete"}
             /\ rows'[s].status = "pending"
          \/ Done(h)
      BY <1>0, <1>1, <2>1 DEF Insert, At, Goto, HandlerKnows, Task, Row
    <3>2. QED
      BY <2>0, <3>1 DEF HandlerKnows, InProgress
  <2>2. CASE Generated(h) \/ Reset(h)
    <3>1. /\ task'[h].op = "launch" /\ task'[h].pc = "launch" /\ task'[h].s = s
          /\ task[h].op \notin {"stop", "delete"}
      BY <1>0, <1>1, <2>2 DEF Generated, Reset, At, GotoLaunch, HandlerKnows, NoTask
    <3>2. rows'[s].status \in {"generated", rows[s].status}
      BY <1>0, <2>2, GeneratedDoes, StatusDoes DEF Generated, Reset
    <3>3. rows[s].status \notin InProgress
      BY <1>1, <3>1 DEF HandlerKnows
    <3>4. QED
      BY <3>1, <3>2, <3>3 DEF HandlerKnows, InProgress
  <2>3. CASE CheckReady(h)
    <3>1. /\ task'[h].op = task[h].op /\ task'[h].pc = "acquire" /\ task'[h].s = s
          /\ rows'[s].status = "generated" /\ task[h].op \notin {"stop", "delete"}
      BY <1>0, <1>1, <2>3 DEF CheckReady, At, Goto, HandlerKnows, Task
    <3>2. QED
      BY <3>1 DEF HandlerKnows, InProgress
  <2>4. CASE ReadForStop(h)
    <3>1. /\ task'[h].op = task[h].op /\ task'[h].pc \in {"kill", "reset"} /\ task'[h].s = s
          /\ rows'[s].status = rows[s].status /\ task[h].op \notin {"stop", "delete"}
      BY <1>0, <1>1, <2>4 DEF ReadForStop, At, HandlerKnows, Task
    <3>2. QED
      BY <1>1, <3>1 DEF HandlerKnows
  <2>5. CASE DropRecord(h)
    <3>1. /\ task'[h].op = task[h].op /\ task'[h].pc = "mark" /\ task'[h].s = s
          /\ task'[h].port = task[h].port
      BY <1>0, <2>5 DEF DropRecord, At, Goto, Task
    <3>2. rows'[s].status = rows[s].status /\ rows'[s].port = rows[s].port
      BY <1>0, <1>1, <2>5, ReservationDoes DEF DropRecord, ClearReservation
    <3>3. QED
      BY <1>1, <1>4, <3>1, <3>2 DEF HandlerKnows
  <2>6. CASE Mark(h)
    <3>1. CASE task[h].op = "restart"
      <4>1. /\ task'[h].op = "restart" /\ task'[h].pc = "reset" /\ task'[h].s = s
            /\ UpdateStatus(s, "stopped")
        BY <1>0, <2>6, <3>1 DEF Mark, At, Goto, Task
      <4>2. rows'[s].status \in {"stopped", rows[s].status}
        BY <1>0, <1>1, <4>1, StatusDoes
      <4>3. QED
        BY <1>1, <3>1, <4>1, <4>2 DEF HandlerKnows, InProgress
    <3>2. QED
      BY <1>0, <2>0, <2>6, <3>1 DEF Mark, At, HandlerAtWork
  <2>7. QED
    BY <2>0, <2>1, <2>2, <2>3, <2>4, <2>5, <2>6 DEF Fail, Draft
<1>6. QED
  BY <1>0, <1>1, <1>3, <1>4, <1>5, RequestOrder

(* The steps that stop the containers of a session and give its port back.  *)
LEMMA StoppingOrder ==
    ASSUME LiveInv, NEW h \in Handler, NEW s \in Session, s = task[h].s,
           Kill(h) \/ GiveBack(h) \/ Drop(h)
    PROVE  Orderly(s)'
<1>0. /\ task[h] \in Task /\ HandlerAtWork(task[h]) /\ task \in [Handler -> Task]
      /\ used \in [Port -> Session \cup {NoSession}]
      /\ task[h].pc \notin {"idle", "forget", "record"}
  BY DEF LiveInv, SessionsInv, TypeOK, PoolTypeOK, AtWork, Kill, GiveBack, Drop, At
<1>1. HandlerKnows(h)
  BY <1>0, RequestAlone
<1>2. task[h].port \in MaybePort
  BY <1>0 DEF Task
<1>3. UNCHANGED <<rows, launch, sw>> /\ \A k \in Handler \ {h} : task'[k] = task[k]
  BY <1>0 DEF Kill, GiveBack, Drop, At, Goto
<1>4. \A p \in Port : used'[p] = s => used[p] = s
  BY <1>0, <1>1, <1>2, ReleaseDoes DEF Kill, GiveBack, Drop
<1>5. UseLive(s)'
  <2>1. \A p \in Port : used'[p] = s => rows[s].status \in InProgress /\ rows[s].port = p
    BY <1>0, <1>4, RequestAlone
  <2>2. QED
    BY <1>3, <2>1 DEF UseLive
<1>6. task[h].op \notin {"stop", "delete"} => NoneUsed(s)'
  BY <1>0, <1>4, RequestAlone DEF NoneUsed
<1>7. /\ task'[h].op = task[h].op /\ task'[h].port = task[h].port /\ task'[h].s = s
      /\ task'[h].pc \in {"release", "drop", "clear", "mark", "reset"}
      /\ task'[h].pc = "clear" => Drop(h)
      /\ task'[h].pc = "mark" => task[h].op = "restart"
      /\ task'[h].pc = "reset" => task[h].op = "relaunch"
  <2>1. CASE Kill(h)
    BY <1>0, <2>1 DEF Kill, Task
  <2>2. CASE GiveBack(h)
    <3>1. PICK pc \in {"drop", "mark", "reset"} :
            /\ Goto(h, pc)
            /\ pc = "mark" => task[h].op = "restart"
            /\ pc = "reset" => task[h].op = "relaunch"
      BY <1>0, <2>2 DEF GiveBack, At, HandlerAtWork
    <3>2. QED
      BY <1>0, <3>1 DEF Goto, Task
  <2>3. CASE Drop(h)
    BY <1>0, <2>3 DEF Drop, Goto, Task
  <2>4. QED
    BY <2>1, <2>2, <2>3
<1>8. Drop(h) => NoneUsed(s)'
  <2>1. SUFFICES ASSUME Drop(h), NEW p \in Port, used'[p] = s
                 PROVE  FALSE
    BY DEF NoneUsed
  <2>2. rows[s].port = p /\ rows[s].port = task[h].port
    BY <1>0, <1>1, <1>4, <2>1, RequestAlone DEF Drop, At, HandlerAtWork, HandlerKnows
  <2>3. QED
    BY <1>0, <1>1, <1>2, <2>1, <2>2, ReleaseDoes DEF Drop
<1>9. HandlerKnows(h)'
  BY <1>1, <1>3, <1>6, <1>7, <1>8 DEF HandlerKnows
<1>10. QED
  BY <1>0, <1>1, <1>3, <1>5, <1>9, RequestOrder

(* A request that starts knows what it has just read.                       *)
LEMMA BeginOrder ==
    ASSUME LiveInv, Overlap = {}, NEW h \in Handler, NEW s \in Session, NEW op \in Ops,
           Begin(h, s, op)
    PROVE  Orderly(s)'
<1>0. /\ op \in Operation /\ task \in [Handler -> Task]
      /\ ~HandlerOn(s) /\ ~GoroutineOn(s) /\ ~SweeperOn(s)
      /\ UNCHANGED <<used, rows, launch, sw>>
  BY SessionsAssumption DEF LiveInv, SessionsInv, TypeOK, Begin, MayStart
<1>1. /\ task'[h].op = op /\ task'[h].s = s /\ task'[h].pc = FirstStep(op, rows[s])
      /\ op \in {"stop", "delete"} => task'[h].port = rows[s].port
      /\ \A k \in Handler \ {h} : task'[k] = task[k]
  BY <1>0 DEF Begin, NoTask
<1>2. UseLive(s)'
  <2>1. \A p \in Port : ~Taking(s, p)
    BY <1>0 DEF Taking, HandlerOn
  <2>2. \A p \in Port : used[p] = s => rows[s].status \in InProgress /\ rows[s].port = p
    BY <2>1 DEF LiveInv, Orderly, UseLive
  <2>3. QED
    BY <1>0, <2>2 DEF UseLive
<1>3. HandlerKnows(h)'
  <2>1. /\ op \notin {"stop", "delete"} => rows[s].status \notin InProgress
        /\ op = "launch" => rows[s].status = "generated"
    BY <1>0 DEF Begin, Accepts, Operation, InProgress
  <2>2. /\ op \in {"stop", "delete"} => FirstStep(op, rows[s]) = "kill"
        /\ FirstStep(op, rows[s]) = "acquire" => op = "launch"
        /\ FirstStep(op, rows[s]) \notin {"forget", "record", "clear", "mark"}
    BY <1>0 DEF FirstStep, Operation
  <2>3. QED
    BY <1>0, <1>1, <2>1, <2>2 DEF HandlerKnows
<1>4. /\ \A k \in Handler \ {h} : task'[k].s # s
      /\ \A n \in LaunchId : launch'[n].s # s
      /\ SweeperKnows(s)'
  BY <1>0, <1>1 DEF HandlerOn, GoroutineOn, SweeperOn, SweeperKnows
<1>5. QED
  BY <1>2, <1>3, <1>4 DEF Orderly

LEMMA AcquireMoves ==
    ASSUME NEW h \in Handler, task \in [Handler -> Task], Acquire(h)
    PROVE  \E p \in Port :
             /\ task[h].pc = "acquire" /\ AcquireFor(task[h].s, p)
             /\ task'[h].port = p /\ task'[h].pc \in {"forget", "record"}
             /\ task'[h].s = task[h].s /\ task'[h].op = task[h].op
<1>1. PICK p \in Port :
        /\ AcquireFor(task[h].s, p)
        /\ task' = [task EXCEPT
             ![h].port = p,
             ![h].victim = IF held[p].session \notin {NoSession, task[h].s}
                           THEN held[p].session ELSE NoSession,
             ![h].pc = IF held[p].session \notin {NoSession, task[h].s}
                       THEN "forget" ELSE "record"]
  BY DEF Acquire
<1>2. /\ task[h].pc = "acquire"
      /\ task'[h].port = p /\ task'[h].pc \in {"forget", "record"}
      /\ task'[h].s = task[h].s /\ task'[h].op = task[h].op
  BY <1>1 DEF Acquire, At, Task
<1>3. QED
  BY <1>1, <1>2

(* From the acquired port to the goroutine: the request passes its port on. *)
LEMMA LaunchingOrder ==
    ASSUME LiveInv, NEW h \in Handler, NEW s \in Session, s = task[h].s,
           Acquire(h) \/ ForgetVictim(h) \/ Record(h) \/ RecordFails(h)
    PROVE  Orderly(s)'
<1>0. /\ task[h] \in Task /\ HandlerAtWork(task[h]) /\ task \in [Handler -> Task]
      /\ rows \in [Session -> Row] /\ used \in [Port -> Session \cup {NoSession}]
      /\ task[h].pc \in {"acquire", "forget", "record"} /\ UNCHANGED sw
  BY DEF LiveInv, SessionsInv, TypeOK, PoolTypeOK, AtWork, Acquire, ForgetVictim, Record,
         RecordFails, At
<1>1. HandlerKnows(h) /\ rows[s].status = "generated" /\ task[h].op \notin {"stop", "delete"}
  BY <1>0, RequestAlone DEF HandlerKnows
<1>2. \A k \in Handler \ {h} : task'[k] = task[k]
  BY <1>0, RequestMoves DEF LiveInv, HandlerStep
<1>3. \A p \in Port : used[p] = s => task[h].pc # "acquire" /\ task[h].port = p
  BY <1>0, <1>1, RequestAlone DEF NoneUsed
<1>4. CASE Acquire(h)
  <2>1. PICK p \in Port :
          /\ task[h].pc = "acquire" /\ AcquireFor(s, p)
          /\ task'[h].port = p /\ task'[h].pc \in {"forget", "record"}
          /\ task'[h].s = s /\ task'[h].op = task[h].op
    BY <1>0, <1>4, AcquireMoves
  <2>2. \A q \in Port : used'[q] = s => q = p
    BY <1>0, <1>3, <2>1, AcquireDoes
  <2>3. UseLive(s)'
    BY <2>1, <2>2 DEF UseLive, Taking
  <2>4. HandlerKnows(h)'
    BY <1>1, <1>4, <2>1 DEF HandlerKnows, Acquire, InProgress
  <2>5. QED
    BY <1>0, <1>2, <1>4, <2>3, <2>4, RequestOrder DEF Acquire
<1>5. CASE ForgetVictim(h)
  <2>1. /\ task'[h].port = task[h].port /\ task'[h].pc = "record"
        /\ task'[h].s = s /\ task'[h].op = task[h].op
        /\ task[h].victim \in Session /\ UNCHANGED <<used, launch>>
    BY <1>0, <1>5 DEF ForgetVictim, At, Task, HandlerAtWork
  <2>2. rows'[s].status = "generated"
    BY <1>0, <1>1, <1>5, <2>1, ReservationDoes DEF ForgetVictim, ClearReservation
  <2>3. UseLive(s)'
    BY <1>3, <2>1 DEF UseLive, Taking
  <2>4. HandlerKnows(h)'
    BY <1>1, <2>1, <2>2 DEF HandlerKnows, InProgress
  <2>5. QED
    BY <1>0, <1>2, <2>1, <2>3, <2>4, RequestOrder
<1>6. CASE RecordFails(h)
  <2>1. /\ task'[h] = NoTask /\ NoTask.s # s /\ UNCHANGED launch
        /\ \A p \in Port : used'[p] = s => used[p] = s /\ p # task[h].port
    BY <1>0, <1>6, SessionAssumption DEF RecordFails, Release, Done, NoTask
  <2>2. UseLive(s)'
    BY <1>3, <2>1 DEF UseLive
  <2>3. QED
    BY <1>0, <1>2, <2>1, <2>2, RequestOrder
<1>7. CASE Record(h)
  <2>1. PICK n \in LaunchId :
          /\ task'[h] = NoTask /\ launch[n] = NoGoroutine
          /\ launch'[n].pc = "startAP" /\ launch'[n].port = task[h].port
          /\ \A m \in LaunchId \ {n} : launch'[m] = launch[m]
    <3>1. HandlerStep(h) /\ task'[h] = NoTask
      BY <1>0, <1>7 DEF HandlerStep, Record, Done
    <3>2. launch' # launch
      BY <1>7 DEF LiveInv, SessionsInv, TypeOK, Record, Unused, NoGoroutine
    <3>3. QED
      BY <3>1, <3>2, RequestMoves DEF LiveInv
  <2>2. /\ rows'[s].status = "launching" /\ rows'[s].port = task[h].port
    BY <1>0, <1>1, <1>7 DEF Record, UpdateLaunching, Update, Present, Row
  <2>3. UseLive(s)'
    BY <1>3, <1>7, <2>2 DEF UseLive, Record, InProgress
  <2>4. \A k \in Handler : task'[k].s # s
    BY <1>0, <1>2, <2>1, RequestAlone, SessionAssumption DEF NoTask
  <2>5. \A m \in LaunchId : launch'[m].s = s => LaunchKnows(m)'
    <3>1. launch'[n].s = s => LaunchKnows(n)'
      BY <2>1, <2>2 DEF LaunchKnows
    <3>2. \A m \in LaunchId \ {n} : launch'[m].s # s
      BY <1>0, <2>1, RequestAlone
    <3>3. QED
      BY <3>1, <3>2
  <2>6. SweeperKnows(s)'
    BY <1>0, RequestAlone DEF Swept, SweeperOn, SweeperKnows
  <2>7. QED
    BY <2>3, <2>4, <2>5, <2>6 DEF Orderly
<1>8. QED
  BY <1>4, <1>5, <1>6, <1>7

(* What a request does to the row and the ports of another session.         *)
LEMMA RequestElsewhere ==
    ASSUME LiveInv, NEW h \in Handler, HandlerStep(h), NEW t \in Session, t # task[h].s
    PROVE  /\ rows'[t].status = rows[t].status /\ rows'[t].port = rows[t].port
           /\ \A p \in Port : used'[p] = t => used[p] = t
<1>0. /\ task[h] \in Task /\ HandlerAtWork(task[h]) /\ rows \in [Session -> Row]
      /\ used \in [Port -> Session \cup {NoSession}] /\ task[h].port \in MaybePort
  BY DEF LiveInv, SessionsInv, TypeOK, PoolTypeOK, AtWork, Task
<1>1. CASE UNCHANGED <<rows, used>>
  BY <1>1
<1>2. ASSUME Insert(h) \/ Mark(h) \/ Draft(h) \/ Reset(h) \/ Generated(h) \/ Record(h)
      PROVE  rows'[t] = rows[t] /\ UNCHANGED used
  <2>1. task[h].s \in Session /\ UNCHANGED used
    BY <1>0, <1>2 DEF Insert, Mark, Draft, Reset, Generated, Record, At, HandlerAtWork
  <2>2. CASE Insert(h)
    BY <1>0, <2>1, <2>2 DEF Insert
  <2>3. CASE Mark(h)
    <3>1. \/ UpdateStatus(task[h].s, "stopped")
          \/ rows' = [rows EXCEPT ![task[h].s] = NoRow]
      BY <1>0, <2>3 DEF Mark, At, HandlerAtWork
    <3>2. QED
      BY <1>0, <2>1, <3>1, StatusDoes
  <2>4. CASE Draft(h) \/ Reset(h) \/ Generated(h)
    BY <1>0, <2>1, <2>4, StatusDoes, GeneratedDoes DEF Draft, Reset, Generated
  <2>5. CASE Record(h)
    BY <1>0, <2>1, <2>5 DEF Record, UpdateLaunching, Update
  <2>6. QED
    BY <1>2, <2>2, <2>3, <2>4, <2>5
<1>3. ASSUME ForgetVictim(h) \/ DropRecord(h)
      PROVE  /\ rows'[t].status = rows[t].status /\ rows'[t].port = rows[t].port
             /\ UNCHANGED used
  <2>1. PICK u \in Session : SetReservation(u, Never)
    BY <1>0, <1>3 DEF ForgetVictim, DropRecord, At, HandlerAtWork, ClearReservation
  <2>2. UNCHANGED used
    BY <1>3 DEF ForgetVictim, DropRecord
  <2>3. QED
    BY <1>0, <2>1, <2>2, ReservationDoes
<1>4. ASSUME Acquire(h) \/ GiveBack(h) \/ Drop(h) \/ RecordFails(h)
      PROVE  UNCHANGED rows /\ \A p \in Port : used'[p] = t => used[p] = t
  <2>1. task[h].s \in Session /\ UNCHANGED rows
    BY <1>0, <1>4 DEF Acquire, GiveBack, Drop, RecordFails, At, HandlerAtWork
  <2>2. CASE Acquire(h)
    <3>1. PICK p \in Port : AcquireFor(task[h].s, p)
      BY <2>2 DEF Acquire
    <3>2. QED
      BY <1>0, <2>1, <3>1, AcquireDoes
  <2>3. CASE GiveBack(h) \/ Drop(h)
    BY <1>0, <2>1, <2>3, ReleaseDoes DEF GiveBack, Drop
  <2>4. CASE RecordFails(h)
    BY <1>0, <2>1, <2>4, SessionAssumption DEF RecordFails, Release
  <2>5. QED
    BY <1>4, <2>1, <2>2, <2>3, <2>4
<1>5. QED
  BY <1>1, <1>2, <1>3, <1>4
     DEF HandlerStep, Begin, Fail, CheckReady, ReadForStop, Kill

LEMMA RequestsOrdered ==
    ASSUME LiveInv, Overlap = {}, NEW h \in Handler, HandlerStep(h), NEW t \in Session
    PROVE  Orderly(t)'
<1>1. CASE t = task[h].s
  <2>1. task[h].pc # "idle"
    BY <1>1, SessionAssumption DEF LiveInv, AtRest
  <2>2. ASSUME NEW s \in Session, NEW op \in Ops, Begin(h, s, op)
        PROVE  FALSE
    <3>1. task[h] = NoTask
      BY <2>2 DEF Begin
    <3>2. QED
      BY <2>1, <3>1 DEF NoTask
  <2>3. QED
    BY <1>1, <2>2, IdleRequestOrder, StoppingOrder, LaunchingOrder DEF HandlerStep
<1>2. CASE t # task[h].s /\ t = task'[h].s
  <2>1. task'[h] # NoTask
    BY <1>2, SessionAssumption DEF NoTask
  <2>2. \E s \in Session, op \in Ops : Begin(h, s, op) /\ s = task'[h].s
    BY <1>2, <2>1, RequestMoves DEF LiveInv
  <2>3. QED
    BY <1>2, <2>2, BeginOrder
<1>3. CASE t # task[h].s /\ t # task'[h].s
  <2>1. /\ UNCHANGED sw
        /\ \A k \in Handler : task[k].s = t \/ task'[k].s = t => task'[k] = task[k]
        /\ \A n \in LaunchId : launch'[n].s = t => launch'[n] = launch[n]
    BY <1>3, RequestMoves DEF LiveInv
  <2>2. QED
    BY <1>3, <2>1, RequestElsewhere, Undisturbed DEF LiveInv, Orderly
<1>4. QED
  BY <1>1, <1>2, <1>3

LEMMA RunningDoes ==
    ASSUME rows \in [Session -> Row], NEW s \in Session, NEW n, UpdateRunning(s, n)
    PROVE  /\ rows'[s].status \in {"running", rows[s].status} /\ rows'[s].port = rows[s].port
           /\ \A t \in Session \ {s} : rows'[t] = rows[t]
BY DEF UpdateRunning, Update, Row

(* The goroutine of a launch is alone with its session, too.                *)
LEMMA LaunchOrder ==
    ASSUME LiveInv, NEW n \in LaunchId, LaunchStep(n), NEW s \in Session, s = launch[n].s
    PROVE  Orderly(s)'
<1>0. /\ rows \in [Session -> Row] /\ used \in [Port -> Session \cup {NoSession}]
      /\ launch[n] \in Goroutine /\ launch \in [LaunchId -> Goroutine]
      /\ launch[n].port \in MaybePort
  BY DEF LiveInv, SessionsInv, TypeOK, PoolTypeOK, Goroutine
<1>1. /\ \A h \in Handler : task[h].s # s
      /\ \A m \in LaunchId \ {n} : launch[m].s # s
      /\ ~Swept(s)
  BY DEF LiveInv, OneActor, HandlerOn, GoroutineOn
<1>2. /\ UNCHANGED <<sw, task>>
      /\ \A m \in LaunchId \ {n} : launch'[m] = launch[m]
      /\ \/ launch'[n] = NoGoroutine
         \/ /\ launch'[n].pc # "none" /\ launch'[n].s = s
            /\ launch'[n].port = launch[n].port
  BY LaunchMoves DEF LiveInv
<1>3. LaunchKnows(n) /\ \A p \in Port : used[p] = s =>
                          rows[s].status \in InProgress /\ rows[s].port = p
  BY <1>1 DEF LiveInv, Orderly, UseLive, Taking
<1>4. SweeperKnows(s)' /\ \A h \in Handler : task'[h].s # s
  BY <1>1, <1>2 DEF Swept, SweeperOn, SweeperKnows
<1>5. ASSUME UseLive(s)', launch'[n] = NoGoroutine \/ LaunchKnows(n)'
      PROVE  Orderly(s)'
  BY <1>1, <1>2, <1>4, <1>5, SessionAssumption DEF Orderly, NoGoroutine
<1>6. CASE StartAP(n) \/ StartBridge(n) \/ LaunchFails(n)
  <2>1. UNCHANGED <<rows, used>>
    BY <1>6 DEF StartAP, StartBridge, LaunchFails
  <2>2. launch'[n].pc \in {"startBridge", "running", "release"}
    BY <1>0, <1>6 DEF StartAP, StartBridge, LaunchFails, LaunchGoto, Goroutine
  <2>3. UseLive(s)'
    BY <1>3, <2>1 DEF UseLive
  <2>4. launch'[n] = NoGoroutine \/ LaunchKnows(n)'
    BY <1>2, <1>3, <2>1, <2>2 DEF LaunchKnows
  <2>5. QED
    BY <1>5, <2>3, <2>4
<1>7. CASE SetRunning(n)
  <2>1. /\ rows'[s].status \in {"running", rows[s].status} /\ rows'[s].port = rows[s].port
        /\ UNCHANGED used
    BY <1>0, <1>7, RunningDoes DEF SetRunning
  <2>2. UseLive(s)'
    BY <1>3, <2>1 DEF UseLive, InProgress
  <2>3. launch'[n] = NoGoroutine
    BY <1>0, <1>7 DEF SetRunning
  <2>4. QED
    BY <1>5, <2>2, <2>3
<1>8. CASE LaunchRelease(n)
  <2>1. UNCHANGED rows /\ \A p \in Port : used'[p] = s => used[p] = s /\ p # launch[n].port
    BY <1>0, <1>8, ReleaseDoes DEF LaunchRelease
  <2>2. NoneUsed(s)' /\ UseLive(s)'
    BY <1>3, <2>1 DEF NoneUsed, UseLive, LaunchKnows
  <2>3. LaunchKnows(n)' \/ launch'[n] = NoGoroutine
    BY <1>2, <1>3, <2>1, <2>2 DEF LaunchKnows
  <2>4. QED
    BY <1>5, <2>2, <2>3
<1>9. CASE LaunchCrash(n)
  <2>1. NoneUsed(s) /\ UNCHANGED used
    BY <1>3, <1>9 DEF LaunchCrash, LaunchAt, LaunchKnows
  <2>2. UseLive(s)'
    BY <2>1 DEF NoneUsed, UseLive
  <2>3. launch'[n] = NoGoroutine
    BY <1>0, <1>9 DEF LaunchCrash
  <2>4. QED
    BY <1>5, <2>2, <2>3
<1>10. QED
  BY <1>6, <1>7, <1>8, <1>9 DEF LaunchStep

LEMMA LaunchesOrdered ==
    ASSUME LiveInv, NEW n \in LaunchId, LaunchStep(n), NEW t \in Session
    PROVE  Orderly(t)'
<1>0. /\ rows \in [Session -> Row] /\ used \in [Port -> Session \cup {NoSession}]
      /\ launch[n].s \in Session /\ launch[n].port \in MaybePort
  BY LaunchMoves DEF LiveInv, SessionsInv, TypeOK, PoolTypeOK, Goroutine
<1>1. CASE t = launch[n].s
  BY <1>1, LaunchOrder
<1>2. CASE t # launch[n].s
  <2>1. /\ UNCHANGED <<sw, task>>
        /\ \A m \in LaunchId : launch'[m].s = t => launch'[m] = launch[m]
    BY <1>2, LaunchMoves, SessionAssumption DEF LiveInv, NoGoroutine
  <2>2. rows'[t] = rows[t]
    BY <1>0, <1>2, StatusDoes, RunningDoes
       DEF LaunchStep, StartAP, StartBridge, SetRunning, LaunchFails, LaunchRelease, LaunchCrash
  <2>3. \A p \in Port : used'[p] = t => used[p] = t
    BY <1>0, ReleaseDoes
       DEF LaunchStep, StartAP, StartBridge, SetRunning, LaunchFails, LaunchRelease, LaunchCrash
  <2>4. Orderly(t)
    BY DEF LiveInv
  <2>5. QED
    BY <2>1, <2>2, <2>3, <2>4, Undisturbed DEF Orderly
<1>3. QED
  BY <1>1, <1>2

(* The sweeper: what it read of the rows it listed is still so, and the     *)
(* session it crashes or pauses has given its port back.                    *)
LEMMA SweepElsewhere ==
    ASSUME LiveInv, SweeperStep, NEW t \in Session,
           t # sw.cur.s \/ ~(CrashLate \/ MarkDead)
    PROVE  /\ rows'[t].status = rows[t].status /\ rows'[t].port = rows[t].port
           /\ \A p \in Port : used'[p] = t => used[p] = t
           /\ UNCHANGED <<task, launch>>
<1>0. /\ rows \in [Session -> Row] /\ used \in [Port -> Session \cup {NoSession}]
      /\ sw \in Sweeper /\ SweeperAtWork
  BY DEF LiveInv, SessionsInv, TypeOK, PoolTypeOK, AtWork
<1>1. UNCHANGED <<task, launch>>
  BY DEF SweeperStep, ListTransit, KillLate, ReleaseLate, CrashLate, ListRunning,
         InspectSkip, InspectDead, KillDead, KeepPort, RecordHold, MarkDead,
         ExpireHolds, ClearExpired
<1>2. CASE UNCHANGED <<rows, used>>
  BY <1>1, <1>2
<1>3. CASE RecordHold \/ ClearExpired
  <2>1. \E u \in Session : \E v : SetReservation(u, v)
    BY <1>0, <1>3 DEF RecordHold, ClearExpired, ClearReservation, SweepAt, SweeperAtWork,
                      Sweeper, Item
  <2>2. UNCHANGED used
    BY <1>3 DEF RecordHold, ClearExpired
  <2>3. PICK u \in Session : \E v : SetReservation(u, v)
    BY <2>1
  <2>4. PICK v : SetReservation(u, v)
    BY <2>3
  <2>5. QED
    BY <1>0, <1>1, <2>4, <2>2, ReservationDoes
<1>4. CASE ReleaseLate \/ KeepPort
  <2>1. sw.cur.s \in Session /\ sw.cur.port \in MaybePort /\ UNCHANGED rows
    BY <1>0, <1>4 DEF ReleaseLate, KeepPort, SweepAt, SweeperAtWork, Item
  <2>2. \A p \in Port : used'[p] = t => used[p] = t
    BY <1>0, <1>4, <2>1, ReleaseDoes, SessionAssumption DEF ReleaseLate, KeepPort, HoldPort
  <2>3. QED
    BY <1>1, <2>1, <2>2
<1>5. CASE CrashLate \/ MarkDead
  <2>1. sw.cur.s \in Session /\ UNCHANGED used
    BY <1>0, <1>5 DEF CrashLate, MarkDead, SweepAt, SweeperAtWork, Item
  <2>2. rows'[t] = rows[t]
    BY <1>0, <1>5, <2>1, StatusDoes DEF CrashLate, MarkDead
  <2>3. QED
    BY <1>1, <2>1, <2>2
<1>6. QED
  BY <1>2, <1>3, <1>4, <1>5
     DEF SweeperStep, ListTransit, KillLate, ListRunning, InspectSkip, InspectDead,
         KillDead, ExpireHolds, Expire

(* Nobody else works on a session the sweeper has taken up, so the port in  *)
(* its row is the only one it can be using.                                 *)
LEMMA SweptAlone ==
    ASSUME LiveInv, NEW t \in Session, Swept(t)
    PROVE  /\ \A h \in Handler : task[h].s # t
           /\ \A n \in LaunchId : launch[n].s # t
           /\ \A p \in Port : used[p] = t => rows[t].port = p
BY DEF LiveInv, OneActor, HandlerOn, GoroutineOn, Orderly, UseLive, Taking

(* The port of a session is free before the sweeper marks the session.      *)
LEMMA SweptGivesBack ==
    ASSUME LiveInv, NEW t \in Session, t = sw.cur.s, ReleaseLate \/ KeepPort \/ RecordHold
    PROVE  NoneUsed(t)'
<1>0. /\ used \in [Port -> Session \cup {NoSession}] /\ held \in [Port -> Hold \cup {NoHold}]
      /\ UsedHeldDisjoint /\ sw.cur \in Item /\ sw.pc # "clear"
  BY DEF LiveInv, SessionsInv, PoolInv, PoolTypeOK, AtWork, SweeperAtWork, ReleaseLate,
         KeepPort, RecordHold, SweepAt
<1>1. /\ Swept(t) /\ sw.cur.port = rows[t].port /\ sw.cur.port \in MaybePort
      /\ sw.pc = "record" => NoneUsed(t)
  BY <1>0 DEF Swept, SweeperOn, LiveInv, Orderly, SweeperKnows, Item
<1>2. \A p \in Port : used[p] = t => p = sw.cur.port
  BY <1>1, SweptAlone
<1>3. CASE RecordHold
  BY <1>1, <1>3 DEF RecordHold, SweepAt, NoneUsed
<1>4. ASSUME ReleaseOwned(sw.cur.port, sw.cur.s)
      PROVE  NoneUsed(t)'
  BY <1>0, <1>1, <1>2, <1>4, ReleaseDoes DEF NoneUsed
<1>5. CASE KeepPort
  <2>1. ASSUME sw.cur.port \in Port, HoldPort(sw.cur.port, sw.cur.s, now + TTL)
        PROVE  NoneUsed(t)'
    BY <1>0, <1>2, <2>1, SessionAssumption DEF HoldPort, NoneUsed
  <2>2. ASSUME sw.cur.port \in Port => ~CanHold(sw.cur.port, sw.cur.s), UNCHANGED used
        PROVE  NoneUsed(t)'
    <3>1. ASSUME NEW p \in Port, used[p] = t
          PROVE  FALSE
      <4>1. p = sw.cur.port /\ held[p].session = NoSession
        BY <1>0, <1>2, <3>1, SessionAssumption DEF UsedHeldDisjoint, InUse, IsHeld
      <4>2. QED
        BY <2>2, <3>1, <4>1 DEF CanHold
    <3>2. QED
      BY <2>2, <3>1 DEF NoneUsed
  <2>3. QED
    BY <1>4, <1>5, <2>1, <2>2 DEF KeepPort
<1>6. QED
  BY <1>3, <1>4, <1>5 DEF ReleaseLate

LEMMA SweepsOrdered ==
    ASSUME LiveInv, SweeperStep, NEW t \in Session
    PROVE  Orderly(t)'
<1>0. /\ rows \in [Session -> Row] /\ sw \in Sweeper /\ sw' \in Sweeper /\ NoItem.s \notin Session
  BY SweeperTyped, SessionAssumption DEF LiveInv, SessionsInv, TypeOK, NoItem
<1>1. Orderly(t) /\ SweeperKnows(t)
  BY DEF LiveInv, Orderly
<1>2. CASE t = sw.cur.s /\ (CrashLate \/ MarkDead)
  <2>1. /\ sw.pc \in {"crashLate", "mark"} /\ Swept(t)
    BY <1>2 DEF CrashLate, MarkDead, SweepAt, Swept, SweeperOn
  <2>2. NoneUsed(t) /\ UNCHANGED <<used, task, launch>>
    BY <1>1, <1>2, <2>1 DEF SweeperKnows, CrashLate, MarkDead
  <2>3. UseLive(t)'
    BY <2>2 DEF NoneUsed, UseLive
  <2>4. rows'[t].port = rows[t].port
    BY <1>0, <1>2, StatusDoes DEF CrashLate, MarkDead
  <2>5. sw'.cur = NoItem /\ sw'.todo = sw.todo
    BY <1>2 DEF CrashLate, MarkDead, ItemDone, Asleep
  <2>6. SweeperKnows(t)'
    BY <1>0, <1>1, <2>1, <2>4, <2>5 DEF SweeperKnows
  <2>7. QED
    BY <2>1, <2>2, <2>3, <2>6, SweptAlone DEF Orderly
<1>3. CASE t # sw.cur.s \/ ~(CrashLate \/ MarkDead)
  <2>1. /\ rows'[t].status = rows[t].status /\ rows'[t].port = rows[t].port
        /\ \A p \in Port : used'[p] = t => used[p] = t
        /\ UNCHANGED <<task, launch>>
    BY <1>3, SweepElsewhere
  <2>2. ASSUME SweeperKnows(t)'
        PROVE  Orderly(t)'
    BY <1>1, <2>1, <2>2, Undisturbed DEF Orderly
  <2>3. NoneUsed(t) => NoneUsed(t)'
    BY <2>1 DEF NoneUsed
  <2>4. CASE ListTransit \/ ListRunning
    <3>1. PICK S \in SUBSET Session, pc \in {"transit", "running"} :
            sw' = [Asleep EXCEPT !.pc = pc, !.todo = {ItemOf(s) : s \in S}]
      BY <2>4 DEF ListTransit, ListRunning, Launching
    <3>2. sw'.cur = NoItem /\ sw'.todo = {ItemOf(s) : s \in S}
      BY <3>1 DEF Asleep
    <3>3. QED
      BY <1>0, <2>1, <2>2, <3>2 DEF SweeperKnows, ItemOf
  <2>5. CASE InspectSkip \/ ClearExpired
    <3>1. PICK i \in sw.todo : sw' = [sw EXCEPT !.todo = @ \ {i}]
      BY <2>5 DEF InspectSkip, ClearExpired
    <3>2. sw'.pc = sw.pc /\ sw'.cur = sw.cur /\ sw'.todo \subseteq sw.todo
      BY <1>0, <3>1 DEF Sweeper
    <3>3. QED
      BY <1>1, <2>1, <2>2, <2>3, <3>2 DEF SweeperKnows
  <2>6. CASE KillLate \/ InspectDead
    <3>1. PICK i \in sw.todo : /\ sw'.cur = i /\ sw'.pc \in {"releaseLate", "killDead"}
                               /\ sw'.todo = sw.todo \ {i} /\ sw.pc # "clear"
      BY <1>0, <2>6 DEF KillLate, InspectDead, SweepAt, Sweeper
    <3>2. QED
      BY <1>1, <2>1, <2>2, <3>1 DEF SweeperKnows
  <2>7. CASE ReleaseLate \/ KillDead \/ KeepPort \/ RecordHold
    <3>1. /\ sw'.cur = sw.cur /\ sw'.todo = sw.todo /\ sw.pc # "clear"
          /\ KillDead => sw'.pc = "hold"
      BY <1>0, <2>7 DEF ReleaseLate, KillDead, KeepPort, RecordHold, SweepAt, SweepGoto, Sweeper
    <3>2. sw'.cur.s = t /\ ~KillDead => NoneUsed(t)'
      BY <2>7, <3>1, SweptGivesBack
    <3>3. QED
      BY <1>1, <2>1, <2>2, <3>1, <3>2 DEF SweeperKnows
  <2>8. CASE CrashLate \/ MarkDead
    <3>1. sw'.cur = NoItem /\ sw'.todo = sw.todo /\ sw.pc # "clear"
      BY <2>8 DEF CrashLate, MarkDead, SweepAt, ItemDone, Asleep
    <3>2. QED
      BY <1>0, <1>1, <2>1, <2>2, <3>1 DEF SweeperKnows
  <2>9. CASE ExpireHolds
    <3>1. sw'.pc = "clear" /\ sw'.cur = NoItem
      BY <2>9 DEF ExpireHolds, Asleep
    <3>2. QED
      BY <1>0, <2>2, <3>1 DEF SweeperKnows
  <2>10. QED
    BY <2>4, <2>5, <2>6, <2>7, <2>8, <2>9 DEF SweeperStep
<1>4. QED
  BY <1>2, <1>3

(* A new process knows of no actor and, until it has read the rows, of no   *)
(* port in use; then each is that of a session running on it.               *)
LEMMA ProcessUses ==
    ASSUME LiveInv, Crash \/ Boot, phase' = "reserve"
    PROVE  \A p \in Port : used'[p] = NoSession
BY DEF LiveInv, Crash, NewPool, Boot, BootStop, BootCrash, BootRecoverUsed,
       BootRecoverHeld, poolVars

LEMMA ProcessOrdered ==
    ASSUME LiveInv, Crash \/ Boot, NEW t \in Session
    PROVE  Orderly(t)'
<1>0. /\ NoTask.s \notin Session /\ NoGoroutine.s \notin Session
      /\ Asleep.cur.s \notin Session /\ Asleep.pc = "clear"
      /\ rows \in [Session -> Row]
  BY SessionAssumption DEF NoTask, NoGoroutine, Asleep, NoItem, LiveInv, SessionsInv, TypeOK
<1>1. /\ \A h \in Handler : task'[h] = NoTask
      /\ \A n \in LaunchId : launch'[n] = NoGoroutine
      /\ sw' = Asleep
  <2>1. CASE Crash
    BY <2>1 DEF Crash
  <2>2. CASE Boot
    <3>1. phase # "serve" /\ UNCHANGED procs
      BY <2>2 DEF Boot, BootStop, BootCrash, BootRecoverUsed, BootRecoverHeld
    <3>2. QED
      BY <3>1 DEF LiveInv, AtRest, procs
  <2>3. QED
    BY <2>1, <2>2
<1>2. ASSUME UseLive(t)'
      PROVE  Orderly(t)'
  BY <1>0, <1>1, <1>2 DEF Orderly, SweeperKnows
<1>3. CASE Crash \/ BootStop \/ BootCrash
  <2>1. \A p \in Port : used'[p] = NoSession
    BY <1>3, ProcessUses DEF Crash, NewPool, BootStop, BootCrash, Boot, poolVars
  <2>2. UseLive(t)'
    BY <2>1, SessionAssumption DEF UseLive
  <2>3. QED
    BY <1>2, <2>1, <2>2
<1>4. CASE BootRecoverUsed
  <2>1. \A p \in Port : used'[p] = t => t \in RunningOn(p)
    BY <1>4, SessionAssumption DEF BootRecoverUsed
  <2>2. UseLive(t)'
    BY <1>4, <2>1 DEF UseLive, RunningOn, InProgress, BootRecoverUsed
  <2>3. QED
    BY <1>2, <1>4, <2>2 DEF BootRecoverUsed
<1>5. CASE BootRecoverHeld
  <2>1. /\ rows'[t].status = rows[t].status /\ rows'[t].port = rows[t].port
        /\ UNCHANGED used /\ phase' = "serve" /\ phase = "hold"
    BY <1>0, <1>5 DEF BootRecoverHeld, Row
  <2>2. \A p \in Port : ~Taking(t, p)
    BY <1>0, <2>1 DEF LiveInv, AtRest, Taking
  <2>3. UseLive(t)'
    BY <2>1, <2>2 DEF LiveInv, Orderly, UseLive
  <2>4. QED
    BY <1>2, <2>1, <2>3
<1>6. QED
  BY <1>3, <1>4, <1>5 DEF Boot

LEMMA LiveInvStep ==
    Overlap = {} /\ LiveInv /\ [Next]_vars => LiveInv'
<1> SUFFICES ASSUME Overlap = {}, LiveInv, [Next]_vars
             PROVE  LiveInv'
  OBVIOUS
<1>1. SessionsInv'
  BY SessionsInvStep DEF LiveInv
<1>2. AtRest' /\ OneActor'
  BY <1>1, OneActorStep DEF LiveInv
<1>3. /\ phase' = "reserve" => \A p \in Port : used'[p] = NoSession
      /\ \A t \in Session : Orderly(t)'
  <2>1. ASSUME NEW h \in Handler, HandlerStep(h)
        PROVE  phase' = "serve" /\ \A t \in Session : Orderly(t)'
    BY <2>1, RequestMoves, RequestsOrdered DEF LiveInv
  <2>2. ASSUME NEW n \in LaunchId, LaunchStep(n)
        PROVE  phase' = "serve" /\ \A t \in Session : Orderly(t)'
    BY <2>2, LaunchMoves, LaunchesOrdered DEF LiveInv
  <2>3. ASSUME SweeperStep
        PROVE  phase' = "serve" /\ \A t \in Session : Orderly(t)'
    BY <2>3, SweeperMoves, SweepsOrdered DEF LiveInv
  <2>4. CASE (\E s \in Session : APExits(s)) \/ Tick \/ UNCHANGED vars
    <3>1. UNCHANGED <<phase, used, rows, task, launch, sw>>
      BY <2>4 DEF APExits, Tick, vars, poolVars, procs
    <3>2. QED
      BY <3>1, Undisturbed DEF LiveInv, Orderly
  <2>5. QED
    BY <2>1, <2>2, <2>3, <2>4, ProcessUses, ProcessOrdered DEF Next
<1>4. QED
  BY <1>1, <1>2, <1>3 DEF LiveInv

LEMMA LiveInvInit == Init => LiveInv
<1> SUFFICES ASSUME Init
             PROVE  LiveInv
  OBVIOUS
<1>1. SessionsInv
  BY SessionsInvInit
<1>2. /\ \A h \in Handler : task[h] = NoTask
      /\ \A n \in LaunchId : launch[n] = NoGoroutine
      /\ sw = Asleep
      /\ \A p \in Port : used[p] = NoSession
  BY DEF Init, PoolInit
<1>3. /\ NoTask.s = NoSession /\ NoGoroutine.s = NoSession /\ Asleep.cur = NoItem
      /\ NoItem.s = NoSession /\ Asleep.pc = "clear" /\ NoSession \notin Session
  BY SessionAssumption DEF NoTask, NoGoroutine, Asleep, NoItem
<1>4. AtRest /\ OneActor
  BY <1>2, <1>3 DEF AtRest, OneActor, Swept, HandlerOn, GoroutineOn
<1>5. \A s \in Session : Orderly(s)
  BY <1>2, <1>3 DEF Orderly, UseLive, SweeperKnows
<1>6. QED
  BY <1>1, <1>2, <1>4, <1>5 DEF LiveInv

(* No path of a launch, stop or crash leaks a port, as long as no two       *)
(* actors work on one session at the same time: a port in use is that of a  *)
(* session launching or running on it, whenever the process crashes and     *)
(* whichever statement fails.                                               *)
THEOREM SessionsNoLeak == Overlap = {} => (Spec => []UsedPortIsLive)
<1> SUFFICES ASSUME Overlap = {}
             PROVE  Spec => []UsedPortIsLive
  OBVIOUS
<1>1. LiveInv => UsedPortIsLive
  BY DEF LiveInv, Orderly, UseLive, Taking, UsedPortIsLive, Settled, Busy, HandlerOn
<1>2. LiveInv /\ [Next]_vars => LiveInv'
  BY LiveInvStep
<1>3. QED
  BY <1>1, <1>2, LiveInvInit, PTL DEF Spec

-----------------------------------------------------------------------------
(* The second layer: what the row of a session says while an actor works    *)
(* on it.  A launch is under way, a sweep found what it found, and every    *)
(* port on record is a port of the pool.                                    *)
OnceListed ==
    /\ \A i, j \in sw.todo : i.s = j.s => i = j
    /\ \A i \in sw.todo : i.s # sw.cur.s

SweepsLaunches == sw.pc \in {"transit", "releaseLate", "crashLate"}
SweepsRunning == sw.pc \in {"running", "killDead", "hold", "record", "mark"}

Recorded(row) == row.status \in InProgress \/ row.until # Never => row.port \in Port

Current(s) ==
    /\ \A n \in LaunchId : launch[n].s = s =>
         rows[s].status = "launching" /\ launch[n].port \in Port
    /\ SweeperOn(s) /\ SweepsLaunches => rows[s].status = "launching"
    /\ SweeperOn(s) /\ SweepsRunning => rows[s].status = "running"
    /\ Recorded(rows[s])
    /\ sw.cur.s = s /\ sw.pc = "record" => sw.cur.port \in Port
    /\ phase = "hold" => /\ rows[s].status # "launching"
                         /\ rows[s].status = "running" => InUse(rows[s].port)

CurrentInv == LiveInv /\ OnceListed /\ \A s \in Session : Current(s)

(* Every statement keeps a port on record a port of the pool.               *)
LEMMA StatusRecords ==
    ASSUME rows \in [Session -> Row], \A u \in Session : Recorded(rows[u]), NEW s \in Session,
           NEW st, UpdateStatus(s, st), st \notin InProgress
    PROVE  \A u \in Session : Recorded(rows'[u])
BY DEF UpdateStatus, Update, Recorded, Row

LEMMA ReservationRecords ==
    ASSUME rows \in [Session -> Row], \A u \in Session : Recorded(rows[u]), NEW s \in Session,
           NEW t, SetReservation(s, t), t = Never \/ rows[s].port \in Port
    PROVE  \A u \in Session : Recorded(rows'[u])
BY DEF SetReservation, Update, Recorded, Row

LEMMA RequestRecords ==
    ASSUME CurrentInv, NEW h \in Handler, HandlerStep(h)
    PROVE  \A u \in Session : Recorded(rows'[u])
<1>0. /\ HandlerAtWork(task[h]) /\ rows \in [Session -> Row]
      /\ \A u \in Session : Recorded(rows[u])
  BY DEF CurrentInv, LiveInv, SessionsInv, TypeOK, AtWork, Current
<1>1. CASE UNCHANGED rows
  BY <1>0, <1>1
<1>2. CASE Insert(h)
  <2>1. PICK st \in {"draft", "pending"} : rows' = [rows EXCEPT ![task[h].s].status = st]
    BY <1>2 DEF Insert
  <2>2. QED
    BY <1>0, <2>1 DEF Recorded, Row, InProgress
<1>3. CASE Draft(h) \/ Reset(h)
  <2>1. PICK st \in {"draft", "generated"} : UpdateStatus(task[h].s, st)
    BY <1>3 DEF Draft, Reset
  <2>2. task[h].s \in Session
    BY <1>0, <1>3 DEF Draft, Reset, At, HandlerAtWork
  <2>3. QED
    BY <1>0, <2>1, <2>2, StatusRecords DEF InProgress
<1>4. CASE Generated(h)
  <2>1. task[h].s \in Session /\ UpdateGenerated(task[h].s)
    BY <1>0, <1>4 DEF Generated, At, HandlerAtWork
  <2>2. QED
    BY <1>0, <2>1 DEF UpdateGenerated, Update, Recorded, Row, InProgress
<1>5. CASE ForgetVictim(h) \/ DropRecord(h)
  <2>1. PICK u \in Session : SetReservation(u, Never)
    BY <1>0, <1>5 DEF ForgetVictim, DropRecord, At, HandlerAtWork, ClearReservation
  <2>2. QED
    BY <1>0, <2>1, ReservationRecords
<1>6. CASE Record(h)
  <2>1. task[h].s \in Session /\ task[h].port \in Port
    BY <1>0, <1>6 DEF Record, At, HandlerAtWork
  <2>2. QED
    BY <1>0, <1>6, <2>1 DEF Record, UpdateLaunching, Update, Recorded, Row
<1>7. CASE Mark(h)
  <2>1. task[h].s \in Session
        /\ (UpdateStatus(task[h].s, "stopped") \/ rows' = [rows EXCEPT ![task[h].s] = NoRow])
    BY <1>0, <1>7 DEF Mark, At, HandlerAtWork
  <2>2. CASE UpdateStatus(task[h].s, "stopped")
    BY <1>0, <2>1, <2>2, StatusRecords DEF InProgress
  <2>3. CASE rows' = [rows EXCEPT ![task[h].s] = NoRow]
    BY <1>0, <2>1, <2>3 DEF Recorded, NoRow, InProgress
  <2>4. QED
    BY <2>1, <2>2, <2>3
<1>8. QED
  BY <1>1, <1>2, <1>3, <1>4, <1>5, <1>6, <1>7
     DEF HandlerStep, Begin, Fail, CheckReady, Acquire, RecordFails, ReadForStop, Kill,
         GiveBack, Drop

LEMMA RequestsCurrent ==
    ASSUME CurrentInv, NEW h \in Handler, HandlerStep(h), NEW s \in Session
    PROVE  Current(s)'
<1>0. /\ LiveInv /\ SessionsInv /\ Current(s) /\ task[h] \in Task /\ HandlerAtWork(task[h])
      /\ rows \in [Session -> Row]
  BY DEF CurrentInv, LiveInv, SessionsInv, TypeOK, AtWork
<1>1. /\ phase' = "serve" /\ UNCHANGED sw /\ Recorded(rows'[s])
  BY <1>0, RequestMoves, RequestRecords
<1>2. CASE s # task[h].s
  <2>1. rows'[s].status = rows[s].status
    BY <1>0, <1>2, RequestElsewhere
  <2>2. \A n \in LaunchId : launch'[n].s = s => launch'[n] = launch[n]
    BY <1>0, <1>2, RequestMoves
  <2>3. QED
    BY <1>0, <1>1, <2>1, <2>2 DEF Current, SweeperOn, SweepsLaunches, SweepsRunning
<1>3. CASE s = task[h].s
  <2>1. task[h].pc # "idle"
    BY <1>0, <1>3, SessionAssumption DEF LiveInv, AtRest
  <2>2. ~Swept(s) /\ \A n \in LaunchId : launch[n].s # s
    BY <1>0, <1>3, <2>1, RequestAlone
  <2>3. \A n \in LaunchId : launch'[n].s = s =>
          Record(h) /\ launch'[n].port = task[h].port
    BY <1>0, <1>3, <2>2, RequestMoves
  <2>4. Record(h) => rows'[s].status = "launching" /\ task[h].port \in Port
    <3>1. SUFFICES ASSUME Record(h)
                   PROVE  rows'[s].status = "launching" /\ task[h].port \in Port
      OBVIOUS
    <3>2. task[h].port \in Port /\ rows[s].status = "generated"
      BY <1>0, <1>3, <2>1, <3>1, RequestAlone DEF Record, At, HandlerAtWork, HandlerKnows
    <3>3. QED
      BY <1>0, <1>3, <3>1, <3>2 DEF Record, UpdateLaunching, Update, Present, Row
  <2>5. QED
    BY <1>1, <2>2, <2>3, <2>4 DEF Current, Swept, SweeperOn, SweepsLaunches, SweepsRunning
<1>4. QED
  BY <1>2, <1>3

LEMMA LaunchesCurrent ==
    ASSUME CurrentInv, NEW n \in LaunchId, LaunchStep(n), NEW s \in Session
    PROVE  Current(s)'
<1>0. /\ LiveInv /\ SessionsInv /\ Current(s) /\ rows \in [Session -> Row]
      /\ launch[n].s \in Session /\ launch \in [LaunchId -> Goroutine]
      /\ phase' = "serve" /\ UNCHANGED sw
  BY LaunchMoves DEF CurrentInv, LiveInv, SessionsInv, TypeOK
<1>1. CASE s # launch[n].s
  <2>1. \A m \in LaunchId : launch'[m].s = s => launch'[m] = launch[m]
    BY <1>0, <1>1, LaunchMoves, SessionAssumption DEF NoGoroutine
  <2>2. rows'[s] = rows[s]
    BY <1>0, <1>1, StatusDoes, RunningDoes
       DEF LaunchStep, StartAP, StartBridge, SetRunning, LaunchFails, LaunchRelease, LaunchCrash
  <2>3. QED
    BY <1>0, <2>1, <2>2 DEF Current, SweeperOn, SweepsLaunches, SweepsRunning
<1>2. CASE s = launch[n].s
  <2>1. ~Swept(s) /\ \A m \in LaunchId \ {n} : launch[m].s # s
    BY <1>0, <1>2 DEF LiveInv, OneActor, GoroutineOn
  <2>2. \A m \in LaunchId \ {n} : launch'[m].s # s
    BY <1>0, <2>1, LaunchMoves
  <2>3. rows[s].port \in Port
    BY <1>0, <1>2 DEF Current, Recorded, InProgress
  <2>4. Recorded(rows'[s])
    <3>1. CASE UNCHANGED rows
      BY <1>0, <3>1 DEF Current
    <3>2. CASE SetRunning(n) \/ LaunchCrash(n)
      <4>1. rows'[s].port = rows[s].port
        BY <1>0, <1>2, <3>2, StatusDoes, RunningDoes DEF SetRunning, LaunchCrash
      <4>2. QED
        BY <2>3, <4>1 DEF Recorded
    <3>3. QED
      BY <3>1, <3>2 DEF LaunchStep, StartAP, StartBridge, LaunchFails, LaunchRelease
  <2>5. launch'[n].s = s => rows'[s].status = "launching" /\ launch'[n].port \in Port
    <3>1. CASE SetRunning(n) \/ LaunchCrash(n)
      BY <1>0, <3>1, SessionAssumption DEF SetRunning, LaunchCrash, NoGoroutine
    <3>2. CASE UNCHANGED rows
      BY <1>0, <1>2, <3>2, LaunchMoves, SessionAssumption DEF Current, NoGoroutine
    <3>3. QED
      BY <3>1, <3>2 DEF LaunchStep, StartAP, StartBridge, LaunchFails, LaunchRelease
  <2>6. QED
    BY <1>0, <2>1, <2>2, <2>4, <2>5
       DEF Current, Swept, SweeperOn, SweepsLaunches, SweepsRunning
<1>3. QED
  BY <1>1, <1>2

LEMMA OnceListedStep ==
    ASSUME CurrentInv, SweeperStep
    PROVE  OnceListed'
<1>0. sw \in Sweeper /\ OnceListed /\ NoItem.s \notin Session /\ sw.todo \subseteq Item
      /\ \A i \in Item : i.s \in Session
  BY SessionAssumption DEF CurrentInv, LiveInv, SessionsInv, TypeOK, NoItem, Sweeper, Item
<1>1. CASE ListTransit \/ ListRunning
  <2>1. PICK S \in SUBSET Session, pc \in {"transit", "running"} :
          sw' = [Asleep EXCEPT !.pc = pc, !.todo = {ItemOf(s) : s \in S}]
    BY <1>1 DEF ListTransit, ListRunning, Launching
  <2>2. sw'.cur = NoItem /\ sw'.todo = {ItemOf(s) : s \in S}
    BY <2>1 DEF Asleep
  <2>3. \A s \in S : ItemOf(s).s = s
    BY DEF ItemOf
  <2>4. QED
    BY <1>0, <2>2, <2>3 DEF OnceListed
<1>2. CASE InspectSkip \/ ClearExpired
  <2>1. PICK i \in sw.todo : sw' = [sw EXCEPT !.todo = @ \ {i}]
    BY <1>2 DEF InspectSkip, ClearExpired
  <2>2. sw'.cur = sw.cur /\ sw'.todo \subseteq sw.todo
    BY <1>0, <2>1 DEF Sweeper
  <2>3. QED
    BY <1>0, <2>2 DEF OnceListed
<1>3. CASE KillLate \/ InspectDead
  <2>1. PICK i \in sw.todo : sw'.cur = i /\ sw'.todo = sw.todo \ {i}
    BY <1>0, <1>3 DEF KillLate, InspectDead, Sweeper
  <2>2. QED
    BY <1>0, <2>1 DEF OnceListed
<1>4. CASE ReleaseLate \/ KillDead \/ KeepPort \/ RecordHold
  <2>1. sw'.cur = sw.cur /\ sw'.todo = sw.todo
    BY <1>0, <1>4 DEF ReleaseLate, KillDead, KeepPort, RecordHold, SweepGoto, Sweeper
  <2>2. QED
    BY <1>0, <2>1 DEF OnceListed
<1>5. CASE CrashLate \/ MarkDead
  <2>1. sw'.cur = NoItem /\ sw'.todo = sw.todo
    BY <1>5 DEF CrashLate, MarkDead, ItemDone, Asleep
  <2>2. QED
    BY <1>0, <2>1 DEF OnceListed
<1>6. CASE ExpireHolds
  <2>1. /\ sw'.cur = NoItem
        /\ sw'.todo = {[NoItem EXCEPT !.s = held[p].session] : p \in Expired(now)}
    BY <1>6 DEF ExpireHolds, Asleep
  <2>2. \A i, j \in sw'.todo : i.s = j.s => i = j
    BY <2>1 DEF NoItem
  <2>3. \A i \in sw'.todo : i.s # sw'.cur.s
    <3>1. sw' \in Sweeper
      BY SweeperTyped DEF CurrentInv, LiveInv
    <3>2. QED
      BY <1>0, <2>1, <3>1 DEF Sweeper
  <2>4. QED
    BY <2>2, <2>3 DEF OnceListed
<1>7. QED
  BY <1>1, <1>2, <1>3, <1>4, <1>5, <1>6 DEF SweeperStep

(* The sweeper keeps to the pass it is in: the sessions it still has to see *)
(* to are the ones it listed.                                               *)
LEMMA SweepsCurrent ==
    ASSUME CurrentInv, SweeperStep, Overlap = {}, NEW s \in Session
    PROVE  Current(s)'
<1>0. /\ LiveInv /\ SessionsInv /\ Current(s) /\ OnceListed /\ Orderly(s)
      /\ rows \in [Session -> Row] /\ sw \in Sweeper /\ SweeperAtWork /\ NoItem.s \notin Session
      /\ \A u \in Session : Recorded(rows[u])
  BY SessionAssumption
     DEF CurrentInv, LiveInv, SessionsInv, TypeOK, AtWork, NoItem, Current
<1>1. phase' = "serve" /\ UNCHANGED <<task, launch>>
  BY <1>0, SweeperMoves DEF LiveInv
<1>2. ASSUME UNCHANGED rows,
             SweeperOn(s)' /\ SweepsLaunches' => rows[s].status = "launching",
             SweeperOn(s)' /\ SweepsRunning' => rows[s].status = "running",
             sw'.pc = "record" => sw'.cur.port \in Port
      PROVE  Current(s)'
  BY <1>0, <1>1, <1>2 DEF Current
<1>3. CASE ListTransit \/ ListRunning
  <2>1. PICK S \in SUBSET Session, pc \in {"transit", "running"} :
          /\ sw' = [Asleep EXCEPT !.pc = pc, !.todo = {ItemOf(u) : u \in S}]
          /\ \A u \in S : rows[u].status = IF pc = "transit" THEN "launching" ELSE "running"
    <3>1. CASE ListTransit
      <4>1. PICK late \in SUBSET Launching :
              sw' = [Asleep EXCEPT !.pc = "transit", !.todo = {ItemOf(u) : u \in late}]
        BY <3>1 DEF ListTransit
      <4>2. late \in SUBSET Session /\ \A u \in late : rows[u].status = "launching"
        BY DEF Launching
      <4>3. QED
        BY <4>1, <4>2
    <3>2. CASE ListRunning
      <4> DEFINE live == {u \in Session : rows[u].status = "running"}
      <4>1. sw' = [Asleep EXCEPT !.pc = "running", !.todo = {ItemOf(u) : u \in live}]
        BY <3>2 DEF ListRunning
      <4>2. live \in SUBSET Session /\ \A u \in live : rows[u].status = "running"
        OBVIOUS
      <4>3. QED
        BY <4>1, <4>2
    <3>3. QED
      BY <1>3, <3>1, <3>2
  <2>2. sw'.cur = NoItem /\ sw'.todo = {ItemOf(u) : u \in S} /\ sw'.pc = pc
    BY <2>1 DEF Asleep
  <2>3. SweeperOn(s)' => s \in S
    BY <1>0, <2>2 DEF SweeperOn, ItemOf
  <2>4. UNCHANGED rows
    BY <1>3 DEF ListTransit, ListRunning
  <2>5. QED
    BY <1>2, <2>1, <2>2, <2>3, <2>4 DEF SweepsLaunches, SweepsRunning
<1>4. CASE InspectSkip
  <2>1. PICK i \in sw.todo : sw' = [sw EXCEPT !.todo = @ \ {i}]
    BY <1>4 DEF InspectSkip
  <2>2. sw'.cur = sw.cur /\ sw'.todo \subseteq sw.todo /\ sw'.pc = "running" /\ sw.pc = "running"
    BY <1>0, <1>4, <2>1 DEF Sweeper, InspectSkip, SweepAt
  <2>3. UNCHANGED rows
    BY <1>4 DEF InspectSkip
  <2>4. QED
    BY <1>0, <1>2, <2>2, <2>3 DEF Current, SweeperOn, SweepsLaunches, SweepsRunning
<1>5. CASE KillLate \/ InspectDead
  <2>1. PICK i \in sw.todo : sw'.cur = i /\ sw'.todo = sw.todo \ {i}
    BY <1>0, <1>5 DEF KillLate, InspectDead, Sweeper
  <2>2. \/ sw.pc = "transit" /\ sw'.pc = "releaseLate"
        \/ sw.pc = "running" /\ sw'.pc = "killDead"
    BY <1>0, <1>5 DEF KillLate, InspectDead, Sweeper, SweepAt
  <2>3. UNCHANGED rows
    BY <1>5 DEF KillLate, InspectDead
  <2>4. QED
    BY <1>0, <1>2, <2>1, <2>2, <2>3 DEF Current, SweeperOn, SweepsLaunches, SweepsRunning
<1>6. CASE ReleaseLate \/ KillDead \/ KeepPort
  <2>1. /\ sw'.cur = sw.cur /\ sw'.todo = sw.todo /\ UNCHANGED rows
        /\ \/ sw.pc = "releaseLate" /\ sw'.pc = "crashLate"
           \/ sw.pc \in {"killDead", "hold"} /\ sw'.pc \in {"hold", "mark"}
           \/ sw.pc = "hold" /\ sw'.pc = "record" /\ sw.cur.port \in Port
    BY <1>0, <1>6 DEF ReleaseLate, KillDead, KeepPort, SweepAt, SweepGoto, Sweeper
  <2>2. QED
    BY <1>0, <1>2, <2>1 DEF Current, SweeperOn, SweepsLaunches, SweepsRunning
<1>7. CASE RecordHold
  <2>1. /\ sw'.cur = sw.cur /\ sw'.todo = sw.todo /\ sw.pc = "record" /\ sw'.pc = "mark"
        /\ SetReservation(sw.cur.s, sw.until) /\ sw.cur.s \in Session
    BY <1>0, <1>7 DEF RecordHold, SweepAt, SweepGoto, Sweeper, SweeperAtWork, Item
  <2>2. rows'[s].status = rows[s].status
    BY <1>0, <2>1, ReservationDoes
  <2>3. rows[sw.cur.s].port \in Port
    BY <1>0, <2>1 DEF CurrentInv, Current, LiveInv, Orderly, SweeperKnows
  <2>4. Recorded(rows'[s])
    BY <1>0, <2>1, <2>3, ReservationRecords
  <2>5. QED
    BY <1>0, <1>1, <2>1, <2>2, <2>4 DEF Current, SweeperOn, SweepsLaunches, SweepsRunning
<1>8. CASE CrashLate \/ MarkDead
  <2>1. /\ sw'.cur = NoItem /\ sw'.todo = sw.todo /\ sw.cur.s \in Session
        /\ \/ sw.pc = "crashLate" /\ sw'.pc = "transit"
           \/ sw.pc = "mark" /\ sw'.pc = "running"
    BY <1>0, <1>8 DEF CrashLate, MarkDead, ItemDone, Asleep, SweepAt, SweeperAtWork, Item
  <2>2. PICK st \in {"stopped", "crashed"} : UpdateStatus(sw.cur.s, st)
    BY <1>0, <1>8 DEF CrashLate, MarkDead, SweepAt, SweeperAtWork
  <2>3. s # sw.cur.s => rows'[s] = rows[s]
    BY <1>0, <2>1, <2>2, StatusDoes
  <2>4. SweeperOn(s)' => s # sw.cur.s /\ SweeperOn(s)
    BY <1>0, <2>1 DEF SweeperOn, OnceListed
  <2>5. Recorded(rows'[s])
    BY <1>0, <2>1, <2>2, StatusRecords DEF InProgress
  <2>6. s = sw.cur.s => \A n \in LaunchId : launch[n].s # s
    BY <1>0, <2>1, SweptAlone DEF Swept, SweeperOn
  <2>7. QED
    BY <1>0, <1>1, <2>1, <2>3, <2>4, <2>5, <2>6
       DEF Current, SweeperOn, SweepsLaunches, SweepsRunning
<1>9. CASE ExpireHolds
  <2>1. sw'.pc = "clear" /\ UNCHANGED rows
    BY <1>9 DEF ExpireHolds, Asleep
  <2>2. QED
    BY <1>2, <2>1 DEF SweepsLaunches, SweepsRunning
<1>10. CASE ClearExpired
  <2>1. PICK i \in sw.todo : SetReservation(i.s, Never) /\ sw' = [sw EXCEPT !.todo = @ \ {i}]
    BY <1>10 DEF ClearExpired, ClearReservation
  <2>2. i.s \in Session /\ sw'.pc = "clear"
    BY <1>0, <1>10, <2>1 DEF Sweeper, Item, ClearExpired, SweepAt
  <2>3. rows'[s].status = rows[s].status /\ Recorded(rows'[s])
    BY <1>0, <2>1, <2>2, ReservationDoes, ReservationRecords
  <2>4. QED
    BY <1>0, <1>1, <2>2, <2>3 DEF Current, SweepsLaunches, SweepsRunning
<1>11. QED
  BY <1>3, <1>4, <1>5, <1>6, <1>7, <1>8, <1>9, <1>10 DEF SweeperStep

LEMMA ProcessCurrent ==
    ASSUME CurrentInv, Crash \/ Boot
    PROVE  OnceListed' /\ \A s \in Session : Current(s)'
<1>0. /\ NoGoroutine.s \notin Session /\ Asleep.cur.s \notin Session
      /\ Asleep.pc = "clear" /\ Asleep.todo = {} /\ rows \in [Session -> Row]
      /\ used \in [Port -> Session \cup {NoSession}]
  BY SessionAssumption
     DEF NoGoroutine, Asleep, NoItem, CurrentInv, LiveInv, SessionsInv, TypeOK, PoolTypeOK
<1>1. (\A n \in LaunchId : launch'[n] = NoGoroutine) /\ sw' = Asleep
  <2>1. CASE Crash
    BY <2>1 DEF Crash
  <2>2. CASE Boot
    <3>1. phase # "serve" /\ UNCHANGED procs
      BY <2>2 DEF Boot, BootStop, BootCrash, BootRecoverUsed, BootRecoverHeld
    <3>2. QED
      BY <3>1 DEF CurrentInv, LiveInv, AtRest, procs
  <2>3. QED
    BY <2>1, <2>2
<1>2. OnceListed'
  BY <1>0, <1>1 DEF OnceListed
<1>3. ASSUME NEW s \in Session
      PROVE  Current(s)'
  <2>0. Recorded(rows[s])
    BY DEF CurrentInv, Current
  <2>1. ASSUME Recorded(rows'[s]),
               phase' = "hold" => /\ rows'[s].status # "launching"
                                  /\ rows'[s].status = "running" => used'[rows'[s].port] # NoSession
        PROVE  Current(s)'
    BY <1>0, <1>1, <2>1 DEF Current, SweepsLaunches, SweepsRunning, InUse
  <2>2. CASE Crash \/ BootStop
    BY <2>0, <2>1, <2>2 DEF Crash, NewPool, BootStop, poolVars
  <2>3. CASE BootCrash
    BY <1>0, <2>0, <2>1, <2>3 DEF BootCrash, poolVars, Recorded, InProgress, Row
  <2>4. CASE BootRecoverUsed
    <3>1. rows[s].status # "launching"
      BY <2>4 DEF BootRecoverUsed, Launching
    <3>2. ASSUME rows[s].status = "running"
          PROVE  used'[rows[s].port] # NoSession
      <4>1. rows[s].port \in Port
        BY <2>0, <3>2 DEF Recorded, InProgress
      <4>2. s \in RunningOn(rows[s].port)
        BY <3>2 DEF RunningOn
      <4>3. used'[rows[s].port] \in RunningOn(rows[s].port)
        BY <2>4, <4>1, <4>2 DEF BootRecoverUsed
      <4>4. QED
        BY <4>3, SessionAssumption DEF RunningOn
    <3>3. QED
      BY <2>0, <2>1, <2>4, <3>1, <3>2 DEF BootRecoverUsed
  <2>5. CASE BootRecoverHeld
    BY <1>0, <2>0, <2>1, <2>5 DEF BootRecoverHeld, Recorded, Row
  <2>6. QED
    BY <2>2, <2>3, <2>4, <2>5 DEF Boot
<1>4. QED
  BY <1>2, <1>3

LEMMA CurrentInvStep == Overlap = {} /\ CurrentInv /\ [Next]_vars => CurrentInv'
<1> SUFFICES ASSUME Overlap = {}, CurrentInv, [Next]_vars
             PROVE  OnceListed' /\ \A s \in Session : Current(s)'
  BY LiveInvStep DEF CurrentInv
<1>0. LiveInv /\ SessionsInv /\ OnceListed /\ \A s \in Session : Current(s)
  BY DEF CurrentInv, LiveInv
<1>1. ASSUME NEW h \in Handler, HandlerStep(h)
      PROVE  OnceListed' /\ \A s \in Session : Current(s)'
  BY <1>0, <1>1, RequestMoves, RequestsCurrent DEF OnceListed
<1>2. ASSUME NEW n \in LaunchId, LaunchStep(n)
      PROVE  OnceListed' /\ \A s \in Session : Current(s)'
  BY <1>0, <1>2, LaunchMoves, LaunchesCurrent DEF OnceListed
<1>3. CASE SweeperStep
  BY <1>3, OnceListedStep, SweepsCurrent
<1>4. CASE (\E s \in Session : APExits(s)) \/ Tick \/ UNCHANGED vars
  <2>1. UNCHANGED <<phase, used, rows, launch, sw>>
    BY <1>4 DEF APExits, Tick, vars, poolVars, procs
  <2>2. QED
    BY <1>0, <2>1 DEF OnceListed, Current, SweeperOn, SweepsLaunches, SweepsRunning, InUse
<1>5. QED
  BY <1>1, <1>2, <1>3, <1>4, ProcessCurrent DEF Next

LEMMA CurrentInvInit == Init => CurrentInv
<1> SUFFICES ASSUME Init
             PROVE  CurrentInv
  OBVIOUS
<1>1. LiveInv
  BY LiveInvInit
<1>2. /\ \A n \in LaunchId : launch[n] = NoGoroutine
      /\ sw = Asleep /\ phase = "reserve"
      /\ \A s \in Session : rows[s].status \in {"generated", "absent"} /\ rows[s].until = Never
  BY DEF Init, PoolInit, NoRow
<1>3. /\ NoGoroutine.s \notin Session /\ Asleep.cur.s \notin Session
      /\ Asleep.pc = "clear" /\ Asleep.todo = {}
  BY SessionAssumption DEF NoGoroutine, Asleep, NoItem
<1>4. QED
  BY <1>1, <1>2, <1>3
     DEF CurrentInv, OnceListed, Current, Recorded, InProgress, SweepsLaunches, SweepsRunning

LEMMA CurrentInvariant == Overlap = {} => (Spec => []CurrentInv)
<1> SUFFICES ASSUME Overlap = {}
             PROVE  Spec => []CurrentInv
  OBVIOUS
<1>1. CurrentInv /\ [Next]_vars => CurrentInv'
  BY CurrentInvStep
<1>2. QED
  BY <1>1, CurrentInvInit, PTL DEF Spec

(* Recovery: the pool of a new process is what the rows say.                *)
LEMMA RecoveryStep ==
    ASSUME CurrentInv, [Next]_vars, phase = "hold", phase' = "serve"
    PROVE  Recovered'
<1>0. /\ rows \in [Session -> Row] /\ now \in Nat /\ Never = 0 /\ NoSession \notin Session
      /\ Time \subseteq Nat
      /\ \A h \in Handler : task[h] = NoTask
      /\ \A s \in Session : Current(s) /\ UseLive(s)
  BY SessionAssumption, TimeAssumption, SessionsAssumption
     DEF CurrentInv, LiveInv, SessionsInv, TypeOK, AtRest, Never, Orderly
<1>1. BootRecoverHeld
  <2>1. ~\E h \in Handler : HandlerStep(h)
    BY RequestMoves DEF CurrentInv, LiveInv
  <2>2. ~\E n \in LaunchId : LaunchStep(n)
    BY LaunchMoves DEF CurrentInv, LiveInv
  <2>3. ~SweeperStep
    BY DEF SweeperStep, ListTransit, KillLate, ReleaseLate, CrashLate, ListRunning,
           InspectSkip, InspectDead, KillDead, KeepPort, RecordHold, MarkDead,
           ExpireHolds, ClearExpired, SweepAt, Serving
  <2>4. ~(Crash \/ BootStop \/ BootCrash \/ BootRecoverUsed
          \/ (\E s \in Session : APExits(s)) \/ Tick \/ UNCHANGED vars)
    BY DEF Crash, NewPool, BootStop, BootCrash, BootRecoverUsed, APExits, Tick, vars, poolVars
  <2>5. QED
    BY <2>1, <2>2, <2>3, <2>4 DEF Next, Boot
<1>2. PICK f \in [Port -> Session \cup {NoSession}] :
        /\ \A p \in Port : IF InUse(p) \/ Reserving(p) = {}
                           THEN f[p] = NoSession ELSE f[p] \in Reserving(p)
        /\ held' = [p \in Port |-> IF f[p] = NoSession THEN NoHold
                                   ELSE [session |-> f[p], until |-> rows[f[p]].until]]
        /\ rows' = [s \in Session |->
                      IF \E p \in Port : s \in Reserving(p) /\ f[p] # s
                      THEN [rows[s] EXCEPT !.until = Never] ELSE rows[s]]
  BY <1>1 DEF BootRecoverHeld
<1>3. UNCHANGED <<used, now>>
  BY <1>1 DEF BootRecoverHeld
<1>4. \A s \in Session : rows'[s].status = rows[s].status /\ rows'[s].port = rows[s].port
  BY <1>0, <1>2 DEF Row
<1>5. Launching' = {}
  BY <1>0, <1>4 DEF Launching, Current
<1>6. ASSUME NEW p \in Port, NEW s \in Session
      PROVE  /\ used'[p] = s => rows'[s].status = "running" /\ rows'[s].port = p
             /\ held'[p].session = s => Paused(s)' /\ rows'[s].port = p
  <2>1. ASSUME used[p] = s
        PROVE  rows[s].status = "running" /\ rows[s].port = p
    <3>1. ~Taking(s, p)
      BY <1>0 DEF Taking, NoTask
    <3>2. QED
      BY <1>0, <2>1, <3>1 DEF UseLive, Current, InProgress
  <2>2. ASSUME held'[p].session = s
        PROVE  Paused(s) /\ rows[s].port = p
    <3>1. f[p] = s
      BY <1>0, <1>2, <2>2 DEF NoHold
    <3>2. s \in Reserving(p)
      BY <1>0, <1>2, <3>1
    <3>3. QED
      BY <3>2 DEF Reserving, Paused
  <2>3. QED
    BY <1>3, <1>4, <2>1, <2>2 DEF Paused
<1>7. ASSUME NEW s \in Session
      PROVE  /\ rows'[s].status = "running" => InUse(rows[s].port)'
             /\ Paused(s)' /\ rows'[s].until > now'
                  => held'[rows'[s].port] = [session |-> s, until |-> rows'[s].until]
  <2>1. rows[s].status = "running" => used[rows[s].port] # NoSession
    BY <1>0 DEF Current, InUse
  <2>2. ASSUME Paused(s), rows'[s].until > now
        PROVE  held'[rows[s].port] = [session |-> s, until |-> rows'[s].until]
    <3>1. rows'[s].until # Never
      BY <1>0, <2>2
    <3>2. /\ rows'[s] = rows[s]
          /\ \A p \in Port : s \in Reserving(p) => f[p] = s
      BY <1>0, <1>2, <3>1 DEF Row
    <3>3. rows[s].port \in Port
      BY <1>0, <3>1, <3>2 DEF Current, Recorded
    <3>4. s \in Reserving(rows[s].port)
      BY <2>2, <3>2 DEF Reserving, Paused
    <3>5. f[rows[s].port] = s
      BY <3>2, <3>3, <3>4
    <3>6. QED
      BY <1>0, <1>2, <3>2, <3>3, <3>5
  <2>3. QED
    BY <1>3, <1>4, <2>1, <2>2 DEF Paused, InUse
<1>8. QED
  BY <1>4, <1>5, <1>6, <1>7 DEF Recovered, InUse

(* When a new process starts to serve, its pool agrees with the database,   *)
(* wherever the process before it crashed.                                  *)
THEOREM SessionsRecoveryAgrees == Overlap = {} => (Spec => RecoveryAgrees)
<1> SUFFICES ASSUME Overlap = {}
             PROVE  Spec => RecoveryAgrees
  OBVIOUS
<1>1. CurrentInv /\ [Next]_vars =>
        [phase = "hold" /\ phase' = "serve" => Recovered']_vars
  BY RecoveryStep
<1>2. QED
  BY <1>1, CurrentInvariant, PTL DEF Spec, RecoveryAgrees

-----------------------------------------------------------------------------
(* What a hold has to do with the row of its session.  The port is kept     *)
(* where the session last ran, the deadline is the one on record unless the *)
(* sweeper is about to write it, and a session that takes a port, or whose  *)
(* row is about to go, holds none.                                          *)
NoneHeld(s) == \A p \in Port : held[p].session # s
Recording(s) == sw.cur.s = s /\ sw.pc = "record"
LettingGo(s) ==
    \E h \in Handler :
        /\ task[h].s = s
        /\ \/ task[h].pc \in {"forget", "record"}
           \/ task[h].op = "delete" /\ task[h].pc \in {"clear", "mark"}

HeldFor(s, p) ==
    /\ rows[s].port = p
    /\ IF Recording(s) THEN held[p].until = sw.until
                       ELSE rows[s].until \in {held[p].until, Never}
Kept(s) ==
    /\ \A p \in Port : held[p].session = s => HeldFor(s, p)
    /\ LettingGo(s) => NoneHeld(s)

KeptInv == CurrentInv /\ \A s \in Session : Kept(s)

(* Only a launch that has found its port is about to record it.             *)
LEMMA RequestTakes ==
    ASSUME SessionsInv, NEW h \in Handler, HandlerStep(h), task'[h].pc \in {"forget", "record"}
    PROVE  Acquire(h) \/ ForgetVictim(h)
<1>0. /\ task[h] \in Task /\ HandlerAtWork(task[h]) /\ task \in [Handler -> Task]
  BY DEF SessionsInv, TypeOK, AtWork
<1>1. ASSUME \/ Done(h) \/ GotoLaunch(h)
             \/ \E pc \in {"generated", "acquire", "drop", "mark", "reset", "clear"} : Goto(h, pc)
             \/ \E s1 \in Session, op \in Ops : Begin(h, s1, op)
             \/ ReadForStop(h) \/ Kill(h)
      PROVE  task'[h].pc \notin {"forget", "record"}
  <2>0. CASE Done(h)
    BY <1>0, <2>0 DEF Done, NoTask
  <2>1. CASE GotoLaunch(h)
    BY <1>0, <2>1 DEF GotoLaunch, NoTask
  <2>2. CASE \E pc \in {"generated", "acquire", "drop", "mark", "reset", "clear"} : Goto(h, pc)
    BY <1>0, <2>2 DEF Goto, Task
  <2>3. ASSUME NEW s1 \in Session, NEW op \in Ops, Begin(h, s1, op)
        PROVE  task'[h].pc \notin {"forget", "record"}
    <3>1. task'[h].pc = FirstStep(op, rows[s1])
      BY <1>0, <2>3 DEF Begin, NoTask
    <3>2. QED
      BY <3>1, SessionsAssumption DEF FirstStep, Operation
  <2>4. CASE ReadForStop(h) \/ Kill(h)
    BY <1>0, <2>4 DEF ReadForStop, Kill, Task
  <2>5. QED
    BY <1>1, <2>0, <2>1, <2>2, <2>3, <2>4
<1>2. CASE GiveBack(h) \/ Mark(h)
  <2>1. Done(h) \/ \E pc \in {"drop", "mark", "reset"} : Goto(h, pc)
    BY <1>0, <1>2 DEF GiveBack, Mark, At, HandlerAtWork
  <2>2. QED
    BY <1>1, <2>1
<1>3. QED
  BY <1>1, <1>2
     DEF HandlerStep, Fail, Insert, Draft, Generated, CheckReady, Record, RecordFails,
         Drop, DropRecord, Reset

(* Only a deletion that has dropped the reservation comes to the end of it. *)
LEMMA DeletionDrops ==
    ASSUME SessionsInv, NEW h \in Handler, HandlerStep(h),
           task'[h].op = "delete", task'[h].pc \in {"clear", "mark"}
    PROVE  /\ task[h].op = "delete" /\ task[h].s = task'[h].s
           /\ Drop(h) \/ task[h].pc = "clear"
<1>0. /\ task[h] \in Task /\ HandlerAtWork(task[h]) /\ task \in [Handler -> Task]
  BY DEF SessionsInv, TypeOK, AtWork
<1>1. ASSUME Done(h) \/ GotoLaunch(h) \/ ReadForStop(h) \/ Kill(h) \/ Acquire(h)
             \/ ForgetVictim(h)
             \/ \E pc \in {"generated", "acquire", "drop", "reset"} : Goto(h, pc)
             \/ \E s1 \in Session, op \in Ops : Begin(h, s1, op)
      PROVE  FALSE
  <2>0. ~Done(h)
    <3>1. Done(h) => task'[h] = NoTask
      BY <1>0 DEF Done
    <3>2. QED
      BY <3>1 DEF NoTask
  <2>1. ~GotoLaunch(h)
    <3>1. GotoLaunch(h) => task'[h] = [NoTask EXCEPT !.op = "launch", !.s = task[h].s, !.pc = "launch"]
      BY <1>0 DEF GotoLaunch
    <3>2. QED
      BY <3>1 DEF NoTask
  <2>2. ~(\E pc \in {"generated", "acquire", "drop", "reset"} : Goto(h, pc))
    BY <1>0 DEF Goto, Task
  <2>3. ASSUME NEW s1 \in Session, NEW op \in Ops, Begin(h, s1, op)
        PROVE  FALSE
    <3>1. task'[h].pc = FirstStep(op, rows[s1])
      BY <1>0, <2>3 DEF Begin, NoTask
    <3>2. QED
      BY <3>1, SessionsAssumption DEF FirstStep, Operation
  <2>4. ~(ReadForStop(h) \/ Kill(h) \/ ForgetVictim(h))
    BY <1>0 DEF ReadForStop, Kill, ForgetVictim, Task
  <2>5. ~Acquire(h)
    BY <1>0, AcquireMoves
  <2>6. QED
    BY <1>1, <2>0, <2>1, <2>2, <2>3, <2>4, <2>5
<1>2. ~GiveBack(h)
  <2>1. ASSUME GiveBack(h)
        PROVE  FALSE
    <3>1. task[h].op \in {"stop", "restart", "relaunch"}
          /\ \E pc \in {"drop", "mark", "reset"} : Goto(h, pc)
      BY <1>0, <2>1 DEF GiveBack, At, HandlerAtWork
    <3>2. task'[h].op = task[h].op
      BY <1>0, <3>1 DEF Goto, Task
    <3>3. QED
      BY <3>1, <3>2
  <2>2. QED
    BY <2>1
<1>3. ~Mark(h)
  <2>1. Mark(h) => Done(h) \/ Goto(h, "reset")
    BY <1>0 DEF Mark, At, HandlerAtWork
  <2>2. QED
    BY <1>1, <2>1
<1>4. Drop(h) \/ DropRecord(h)
  BY <1>1, <1>2, <1>3
     DEF HandlerStep, Fail, Insert, Draft, Generated, CheckReady, Record, RecordFails, Reset
<1>5. \E pc \in {"clear", "mark"} : Goto(h, pc)
  BY <1>4 DEF Drop, DropRecord
<1>6. task'[h].op = task[h].op /\ task'[h].s = task[h].s
  BY <1>0, <1>5 DEF Goto, Task
<1>7. QED
  BY <1>4, <1>6 DEF DropRecord, At

(* No statement but the reservation's changes a deadline, and only the      *)
(* statement of a launch the port.                                          *)
LEMMA StatementsKeepDeadline ==
    ASSUME rows \in [Session -> Row], NEW s \in Session,
           \/ \E st : UpdateStatus(s, st)
           \/ \E n : UpdateRunning(s, n)
           \/ UpdateGenerated(s)
    PROVE  \A u \in Session : rows'[u].until = rows[u].until /\ rows'[u].port = rows[u].port
<1>0. rows[s] \in Row
  OBVIOUS
<1>1. ASSUME NEW row, Update(s, row), row.until = rows[s].until, row.port = rows[s].port
      PROVE  \A u \in Session : rows'[u].until = rows[u].until /\ rows'[u].port = rows[u].port
  BY <1>1 DEF Update
<1>2. ASSUME NEW st, UpdateStatus(s, st)
      PROVE  \A u \in Session : rows'[u].until = rows[u].until /\ rows'[u].port = rows[u].port
  <2>1. [rows[s] EXCEPT !.status = st].until = rows[s].until
        /\ [rows[s] EXCEPT !.status = st].port = rows[s].port
    BY <1>0 DEF Row
  <2>2. QED
    BY <1>1, <1>2, <2>1 DEF UpdateStatus
<1>3. ASSUME NEW n, UpdateRunning(s, n)
      PROVE  \A u \in Session : rows'[u].until = rows[u].until /\ rows'[u].port = rows[u].port
  <2>1. [rows[s] EXCEPT !.status = "running", !.cid = n].until = rows[s].until
        /\ [rows[s] EXCEPT !.status = "running", !.cid = n].port = rows[s].port
    BY <1>0 DEF Row
  <2>2. QED
    BY <1>1, <1>3, <2>1 DEF UpdateRunning
<1>4. ASSUME UpdateGenerated(s)
      PROVE  \A u \in Session : rows'[u].until = rows[u].until /\ rows'[u].port = rows[u].port
  <2>1. [rows[s] EXCEPT !.status = "generated", !.out = TRUE].until = rows[s].until
        /\ [rows[s] EXCEPT !.status = "generated", !.out = TRUE].port = rows[s].port
    BY <1>0 DEF Row
  <2>2. QED
    BY <1>1, <1>4, <2>1 DEF UpdateGenerated
<1>5. QED
  BY <1>2, <1>3, <1>4

LEMMA ReservationSets ==
    ASSUME rows \in [Session -> Row], NEW s \in Session, NEW t, SetReservation(s, t)
    PROVE  /\ \A u \in Session : rows'[u].port = rows[u].port
           /\ \A u \in Session \ {s} : rows'[u].until = rows[u].until
           /\ rows'[s].until = IF Present(s) THEN t ELSE rows[s].until
<1>1. rows[s] \in Row
  OBVIOUS
<1>2. [rows[s] EXCEPT !.until = t].port = rows[s].port /\ [rows[s] EXCEPT !.until = t].until = t
  BY <1>1 DEF Row
<1>3. QED
  BY <1>2 DEF SetReservation, Update

(* A session keeps what it has as long as nothing is kept for it anew.      *)
LEMMA KeptStays ==
    ASSUME NEW s \in Session, Kept(s),
           \A p \in Port : held'[p].session = s => held'[p] = held[p],
           rows'[s].port = rows[s].port, rows'[s].until \in {rows[s].until, Never},
           Recording(s)' <=> Recording(s), Recording(s) => sw'.until = sw.until,
           LettingGo(s)' => LettingGo(s) \/ NoneHeld(s)'
    PROVE  Kept(s)'
<1>1. ASSUME NEW p \in Port, held'[p].session = s
      PROVE  HeldFor(s, p)'
  <2>1. held'[p] = held[p] /\ HeldFor(s, p)
    BY <1>1 DEF Kept
  <2>2. CASE Recording(s)
    BY <2>1, <2>2 DEF HeldFor
  <2>3. CASE ~Recording(s)
    BY <2>1, <2>3 DEF HeldFor
  <2>4. QED
    BY <2>2, <2>3
<1>2. NoneHeld(s) => NoneHeld(s)'
  BY DEF NoneHeld
<1>3. QED
  BY <1>1, <1>2 DEF Kept

(* A request keeps nothing; it clears deadlines, and moves a port on record *)
(* only when the session holds none.                                        *)
LEMMA RequestHolds ==
    ASSUME KeptInv, NEW h \in Handler, HandlerStep(h), NEW s \in Session
    PROVE  \A p \in Port : held'[p].session = s => held'[p] = held[p]
<1>0. NoHold.session # s /\ held \in [Port -> Hold \cup {NoHold}]
  BY SessionAssumption DEF NoHold, KeptInv, CurrentInv, LiveInv, SessionsInv, PoolInv, PoolTypeOK
<1>1. CASE Acquire(h)
  <2>1. PICK q \in Port : AcquireFor(task[h].s, q)
    BY <1>1 DEF Acquire
  <2>2. held' = held \/ held' = [held EXCEPT ![q] = NoHold]
    BY <2>1 DEF AcquireFor, TakeOwnHold, TakeLowestFree, EvictOldestHold
  <2>3. QED
    BY <1>0, <2>2
<1>2. CASE Drop(h) \/ GiveBack(h)
  BY <1>0, <1>2 DEF Drop, GiveBack, ReleaseAndForget, ReleaseOwned, ReleaseFor
<1>3. CASE RecordFails(h)
  BY <1>0, <1>3 DEF RecordFails, Release
<1>4. CASE UNCHANGED held
  BY <1>4
<1>5. QED
  BY <1>1, <1>2, <1>3, <1>4
     DEF HandlerStep, Begin, Fail, Insert, Draft, Generated, CheckReady,
         ForgetVictim, Record, ReadForStop, Kill, DropRecord, Mark, Reset

LEMMA RequestRows ==
    ASSUME KeptInv, NEW h \in Handler, HandlerStep(h), NEW s \in Session,
           ~LettingGo(s)
    PROVE  rows'[s].port = rows[s].port /\ rows'[s].until \in {rows[s].until, Never}
<1>0. /\ LiveInv /\ task[h] \in Task /\ HandlerAtWork(task[h]) /\ rows \in [Session -> Row]
  BY DEF KeptInv, CurrentInv, LiveInv, SessionsInv, TypeOK, AtWork
<1>1. CASE UNCHANGED rows
  BY <1>1
<1>2. CASE Insert(h)
  BY <1>0, <1>2 DEF Insert, Row
<1>3. CASE Draft(h) \/ Reset(h) \/ Generated(h)
  <2>1. task[h].s \in Session
    BY <1>0, <1>3 DEF Draft, Reset, Generated, At, HandlerAtWork
  <2>2. QED
    BY <1>0, <1>3, <2>1, StatementsKeepDeadline DEF Draft, Reset, Generated
<1>4. CASE ForgetVictim(h) \/ DropRecord(h)
  <2>1. PICK u \in Session : SetReservation(u, Never)
    BY <1>0, <1>4 DEF ForgetVictim, DropRecord, At, HandlerAtWork, ClearReservation
  <2>2. QED
    BY <1>0, <2>1, ReservationSets
<1>5. CASE Record(h)
  <2>1. s # task[h].s /\ task[h].s \in Session
    BY <1>0, <1>5 DEF Record, At, LettingGo, HandlerAtWork
  <2>2. rows'[s] = rows[s]
    BY <1>0, <1>5, <2>1 DEF Record, UpdateLaunching, Update
  <2>3. QED
    BY <2>2
<1>6. CASE Mark(h)
  <2>1. task[h].s \in Session /\ (task[h].op = "delete" => s # task[h].s)
    BY <1>0, <1>6 DEF Mark, At, LettingGo, HandlerAtWork
  <2>2. CASE task[h].op = "delete"
    <3>1. rows' = [rows EXCEPT ![task[h].s] = NoRow]
      BY <1>6, <2>2 DEF Mark
    <3>2. QED
      BY <1>0, <2>1, <2>2, <3>1
  <2>3. CASE task[h].op # "delete"
    <3>1. UpdateStatus(task[h].s, "stopped")
      BY <1>0, <1>6, <2>3 DEF Mark, At, HandlerAtWork
    <3>2. QED
      BY <1>0, <2>1, <3>1, StatementsKeepDeadline
  <2>4. QED
    BY <2>2, <2>3
<1>7. QED
  BY <1>1, <1>2, <1>3, <1>4, <1>5, <1>6
     DEF HandlerStep, Begin, Fail, CheckReady, Acquire, RecordFails, ReadForStop, Kill,
         GiveBack, Drop

(* A session that is about to let go of its port or of its row has lost its *)
(* hold: the port it took was the one it held, or it held none, and a       *)
(* deletion has dropped the one in its row, which is where holds are.       *)
LEMMA RequestLetsGo ==
    ASSUME KeptInv, NEW h \in Handler, HandlerStep(h), NEW s \in Session,
           ~LettingGo(s), LettingGo(s)'
    PROVE  NoneHeld(s)'
<1>0. /\ LiveInv /\ SessionsInv /\ Kept(s) /\ task[h] \in Task /\ HandlerAtWork(task[h])
      /\ task \in [Handler -> Task] /\ held \in [Port -> Hold \cup {NoHold}]
      /\ NoHold.session # s
  BY SessionAssumption
     DEF NoHold, KeptInv, CurrentInv, LiveInv, SessionsInv, PoolInv, PoolTypeOK, TypeOK, AtWork
<1>1. /\ task'[h].s = s
      /\ \/ task'[h].pc \in {"forget", "record"}
         \/ task'[h].op = "delete" /\ task'[h].pc \in {"clear", "mark"}
  <2>1. \A k \in Handler \ {h} : task'[k] = task[k]
    BY <1>0, RequestMoves
  <2>2. QED
    BY <2>1 DEF LettingGo
<1>2. \A p, q \in Port : held[p].session = s /\ held[q].session = s => p = q
  BY <1>0 DEF Kept, HeldFor
<1>3. CASE task'[h].pc \in {"forget", "record"}
  <2>1. Acquire(h)
    <3>1. ~ForgetVictim(h)
      <4>1. ForgetVictim(h) => task[h].s = s /\ task[h].pc = "forget"
        BY <1>0, <1>1 DEF ForgetVictim, At, Task
      <4>2. QED
        BY <4>1 DEF LettingGo
    <3>2. QED
      BY <1>0, <1>3, <3>1, RequestTakes
  <2>2. PICK p \in Port : AcquireFor(s, p)
    BY <1>0, <1>1, <2>1, AcquireMoves
  <2>3. CASE TakeOwnHold(s, p)
    BY <1>0, <1>2, <2>3 DEF TakeOwnHold, HeldBy, NoneHeld
  <2>4. CASE TakeLowestFree(s, p) \/ EvictOldestHold(s, p)
    BY <1>0, <2>4 DEF TakeLowestFree, EvictOldestHold, HeldBy, NoneHeld
  <2>5. QED
    BY <2>2, <2>3, <2>4 DEF AcquireFor
<1>4. CASE task'[h].op = "delete" /\ task'[h].pc \in {"clear", "mark"}
  <2>1. task[h].op = "delete" /\ task[h].s = s /\ Drop(h)
    <3>1. /\ task[h].op = "delete" /\ task[h].s = s
          /\ Drop(h) \/ task[h].pc = "clear"
      BY <1>0, <1>1, <1>4, DeletionDrops
    <3>2. QED
      BY <3>1 DEF LettingGo
  <2>2. HandlerKnows(h)
    BY <1>0, <2>1 DEF LiveInv, Orderly
  <2>3. task[h].port = rows[s].port
    BY <2>1, <2>2 DEF HandlerKnows
  <2>4. ReleaseAndForget(rows[s].port, s)
    BY <2>1, <2>3 DEF Drop
  <2>5. QED
    BY <1>0, <2>4 DEF ReleaseAndForget, NoneHeld, Kept, HeldFor
<1>5. QED
  BY <1>1, <1>3, <1>4

LEMMA RequestsKept ==
    ASSUME KeptInv, NEW h \in Handler, HandlerStep(h), NEW s \in Session
    PROVE  Kept(s)'
<1>0. SessionsInv /\ Kept(s)
  BY DEF KeptInv, CurrentInv, LiveInv
<1>1. UNCHANGED sw /\ \A p \in Port : held'[p].session = s => held'[p] = held[p]
  BY <1>0, RequestMoves, RequestHolds
<1>2. CASE LettingGo(s)
  <2>1. NoneHeld(s)
    BY <1>0, <1>2 DEF Kept
  <2>2. NoneHeld(s)'
    BY <1>1, <2>1 DEF NoneHeld
  <2>3. QED
    BY <2>2 DEF Kept, NoneHeld
<1>3. CASE ~LettingGo(s)
  <2>1. Recording(s)' <=> Recording(s)
    BY <1>1 DEF Recording
  <2>2. QED
    BY <1>0, <1>1, <1>3, <2>1, RequestRows, RequestLetsGo, KeptStays
<1>4. QED
  BY <1>2, <1>3

LEMMA LaunchesKept ==
    ASSUME KeptInv, NEW n \in LaunchId, LaunchStep(n), NEW s \in Session
    PROVE  Kept(s)'
<1>0. /\ SessionsInv /\ Kept(s) /\ rows \in [Session -> Row]
  BY DEF KeptInv, CurrentInv, LiveInv, SessionsInv, TypeOK
<1>1. launch[n].s \in Session /\ UNCHANGED <<sw, task>>
  BY <1>0, LaunchMoves
<1>2. UNCHANGED held
  BY DEF LaunchStep, StartAP, StartBridge, SetRunning, LaunchFails, LaunchRelease, LaunchCrash,
         ReleaseOwned, ReleaseFor
<1>3. rows'[s].port = rows[s].port /\ rows'[s].until = rows[s].until
  <2>1. CASE UNCHANGED rows
    BY <2>1
  <2>2. CASE SetRunning(n) \/ LaunchCrash(n)
    BY <1>0, <1>1, <2>2, StatementsKeepDeadline DEF SetRunning, LaunchCrash
  <2>3. QED
    BY <2>1, <2>2 DEF LaunchStep, StartAP, StartBridge, LaunchFails, LaunchRelease
<1>4. (Recording(s)' <=> Recording(s)) /\ (LettingGo(s)' <=> LettingGo(s))
  BY <1>1 DEF Recording, LettingGo
<1>5. QED
  BY <1>0, <1>1, <1>2, <1>3, <1>4, KeptStays

LEMMA SweepsKept ==
    ASSUME KeptInv, SweeperStep, NEW s \in Session
    PROVE  Kept(s)'
<1>0. /\ LiveInv /\ SessionsInv /\ Kept(s) /\ Current(s) /\ Orderly(s)
      /\ rows \in [Session -> Row] /\ sw \in Sweeper /\ SweeperAtWork
      /\ held \in [Port -> Hold \cup {NoHold}] /\ NoHold.session # s
      /\ \A i \in sw.todo : i.s \in Session
  BY SessionAssumption
     DEF NoHold, KeptInv, CurrentInv, LiveInv, SessionsInv, PoolInv, PoolTypeOK, TypeOK, AtWork,
         Sweeper, Item
<1>1. UNCHANGED <<task, launch>>
  BY DEF SweeperStep, ListTransit, KillLate, ReleaseLate, CrashLate, ListRunning,
         InspectSkip, InspectDead, KillDead, KeepPort, RecordHold, MarkDead,
         ExpireHolds, ClearExpired
<1>2. LettingGo(s)' <=> LettingGo(s)
  BY <1>1 DEF LettingGo
<1>3. CASE KeepPort
  <2>1. UNCHANGED rows /\ ~Recording(s) /\ sw.pc = "hold"
    BY <1>3 DEF KeepPort, SweepAt, Recording
  <2>2. CASE UNCHANGED held /\ sw'.pc = "mark"
    <3>1. ~Recording(s)'
      BY <2>2 DEF Recording
    <3>2. QED
      BY <1>0, <1>2, <2>1, <2>2, <3>1, KeptStays
  <2>3. CASE /\ sw.cur.port \in Port /\ HoldPort(sw.cur.port, sw.cur.s, now + TTL)
             /\ sw' = [sw EXCEPT !.pc = "record", !.until = now + TTL]
    <3>1. /\ sw'.pc = "record" /\ sw'.until = now + TTL /\ sw'.cur = sw.cur
          /\ \A q \in Port : held'[q] = IF q = sw.cur.port
                                        THEN [session |-> sw.cur.s, until |-> now + TTL]
                                        ELSE held[q]
      BY <1>0, <2>3 DEF HoldPort, Sweeper
    <3>2. CASE s # sw.cur.s
      <4>1. \A q \in Port : held'[q].session = s => held'[q] = held[q]
        BY <3>1, <3>2
      <4>2. ~Recording(s)'
        BY <3>1, <3>2 DEF Recording
      <4>3. QED
        BY <1>0, <1>2, <2>1, <4>1, <4>2, KeptStays
    <3>3. CASE s = sw.cur.s
      <4>1. sw.cur.port = rows[s].port
        BY <1>0, <2>1, <3>3 DEF Orderly, SweeperKnows
      <4>2. Recording(s)'
        BY <3>1, <3>3 DEF Recording
      <4>3. ASSUME NEW q \in Port, held'[q].session = s
            PROVE  HeldFor(s, q)'
        <5>1. q = sw.cur.port
          BY <1>0, <3>1, <4>1, <4>3 DEF Kept, HeldFor
        <5>2. QED
          BY <2>1, <3>1, <4>1, <4>2, <5>1 DEF HeldFor
      <4>4. ~LettingGo(s)
        BY <1>0, <2>1, <3>3, SweptAlone DEF LettingGo, Swept, SweeperOn
      <4>5. QED
        BY <1>2, <4>3, <4>4 DEF Kept
    <3>4. QED
      BY <3>2, <3>3
  <2>4. CASE UNCHANGED <<used, held>> /\ SweepGoto("mark")
    <3>1. sw'.pc = "mark"
      BY <1>0, <2>4 DEF SweepGoto, Sweeper
    <3>2. QED
      BY <2>2, <2>4, <3>1
  <2>5. CASE ReleaseOwned(sw.cur.port, sw.cur.s) /\ SweepGoto("mark")
    <3>1. UNCHANGED held
      BY <2>5 DEF ReleaseOwned, ReleaseFor
    <3>2. sw'.pc = "mark"
      BY <1>0, <2>5 DEF SweepGoto, Sweeper
    <3>3. QED
      BY <2>2, <3>1, <3>2
  <2>6. QED
    BY <1>3, <2>3, <2>4, <2>5 DEF KeepPort
<1>4. CASE RecordHold
  <2>1. /\ sw.pc = "record" /\ sw.cur.s \in Session /\ SetReservation(sw.cur.s, sw.until)
        /\ UNCHANGED held /\ sw'.pc = "mark"
    BY <1>0, <1>4 DEF RecordHold, SweepAt, SweeperAtWork, Item, SweepGoto, Sweeper
  <2>2. ~Recording(s)'
    BY <2>1 DEF Recording
  <2>3. CASE s # sw.cur.s
    <3>1. ~Recording(s)
      BY <2>3 DEF Recording
    <3>2. rows'[s].port = rows[s].port /\ rows'[s].until = rows[s].until
      BY <1>0, <2>1, <2>3, ReservationSets
    <3>3. QED
      BY <1>0, <1>2, <2>1, <2>2, <3>1, <3>2, KeptStays
  <2>4. CASE s = sw.cur.s
    <3>1. Recording(s) /\ Present(s)
      BY <1>0, <2>1, <2>4 DEF Recording, Current, SweeperOn, SweepsRunning, Present
    <3>2. rows'[s].port = rows[s].port /\ rows'[s].until = sw.until
      BY <1>0, <2>1, <2>4, <3>1, ReservationSets
    <3>3. \A p \in Port : held'[p].session = s => HeldFor(s, p)'
      BY <1>0, <2>1, <2>2, <3>1, <3>2 DEF Kept, HeldFor
    <3>4. ~LettingGo(s)
      BY <1>0, <2>1, <2>4, SweptAlone DEF LettingGo, Swept, SweeperOn
    <3>5. QED
      BY <1>2, <3>3, <3>4 DEF Kept
  <2>5. QED
    BY <2>3, <2>4
<1>5. ASSUME ~KeepPort, ~RecordHold
      PROVE  Kept(s)'
  <2>1. sw.pc # "record" /\ sw'.pc # "record"
    <3>1. CASE InspectSkip \/ ClearExpired
      BY <1>0, <3>1 DEF InspectSkip, ClearExpired, SweepAt, Sweeper
    <3>2. CASE KillLate \/ InspectDead \/ ReleaseLate \/ KillDead
      BY <1>0, <3>2 DEF KillLate, InspectDead, ReleaseLate, KillDead, SweepAt, SweepGoto, Sweeper
    <3>3. CASE ListTransit \/ ListRunning
      BY <3>3 DEF ListTransit, ListRunning, SweepAt, Asleep
    <3>4. CASE CrashLate \/ MarkDead \/ ExpireHolds
      BY <3>4 DEF CrashLate, MarkDead, ExpireHolds, ItemDone, SweepAt, Asleep
    <3>5. QED
      BY <1>5, <3>1, <3>2, <3>3, <3>4 DEF SweeperStep
  <2>2. ~Recording(s) /\ ~Recording(s)'
    BY <2>1 DEF Recording
  <2>3. \A p \in Port : held'[p].session = s => held'[p] = held[p]
    <3>1. CASE ExpireHolds
      BY <1>0, <3>1 DEF ExpireHolds, Expire
    <3>2. CASE UNCHANGED held
      BY <3>2
    <3>3. QED
      BY <1>5, <3>1, <3>2
         DEF SweeperStep, ListTransit, KillLate, ReleaseLate, CrashLate, ListRunning,
             InspectSkip, InspectDead, KillDead, MarkDead, ClearExpired, ReleaseOwned, ReleaseFor
  <2>4. rows'[s].port = rows[s].port /\ rows'[s].until \in {rows[s].until, Never}
    <3>1. CASE UNCHANGED rows
      BY <3>1
    <3>2. CASE CrashLate \/ MarkDead
      <4>1. sw.cur.s \in Session
        BY <1>0, <3>2 DEF CrashLate, MarkDead, SweepAt, SweeperAtWork, Item
      <4>2. QED
        BY <1>0, <3>2, <4>1, StatementsKeepDeadline DEF CrashLate, MarkDead
    <3>3. CASE ClearExpired
      <4>1. PICK i \in sw.todo : SetReservation(i.s, Never)
        BY <3>3 DEF ClearExpired, ClearReservation
      <4>2. i.s \in Session
        BY <1>0, <4>1
      <4>3. QED
        BY <1>0, <4>1, <4>2, ReservationSets
    <3>4. QED
      BY <1>5, <3>1, <3>2, <3>3
         DEF SweeperStep, ListTransit, KillLate, ReleaseLate, ListRunning,
             InspectSkip, InspectDead, KillDead, ExpireHolds
  <2>5. QED
    BY <1>0, <1>2, <2>2, <2>3, <2>4, KeptStays
<1>6. QED
  BY <1>3, <1>4, <1>5

(* A new process starts without holds, and takes them from the rows.        *)
LEMMA ProcessKept ==
    ASSUME KeptInv, Crash \/ Boot, NEW s \in Session
    PROVE  Kept(s)'
<1>0. /\ Kept(s) /\ NoTask.s # s /\ Asleep.cur.s # s /\ NoHold.session # s
      /\ rows \in [Session -> Row] /\ rows[s] \in Row
  BY SessionAssumption
     DEF NoTask, Asleep, NoItem, NoHold, KeptInv, CurrentInv, LiveInv, SessionsInv, TypeOK
<1>1. (\A h \in Handler : task'[h] = NoTask) /\ sw' = Asleep
  <2>1. CASE Crash
    BY <2>1 DEF Crash
  <2>2. CASE Boot
    <3>1. phase # "serve" /\ UNCHANGED procs
      BY <2>2 DEF Boot, BootStop, BootCrash, BootRecoverUsed, BootRecoverHeld
    <3>2. QED
      BY <3>1 DEF KeptInv, CurrentInv, LiveInv, AtRest, procs
  <2>3. QED
    BY <2>1, <2>2
<1>2. ~LettingGo(s)' /\ ~Recording(s)'
  BY <1>0, <1>1 DEF LettingGo, Recording
<1>3. CASE Crash
  <2>1. \A p \in Port : held'[p].session # s
    BY <1>0, <1>3 DEF Crash, NewPool
  <2>2. QED
    BY <1>2, <2>1 DEF Kept
<1>4. CASE BootStop \/ BootCrash \/ BootRecoverUsed
  <2>1. UNCHANGED held /\ UNCHANGED sw
    BY <1>4 DEF BootStop, BootCrash, BootRecoverUsed, poolVars, procs
  <2>2. rows'[s].port = rows[s].port /\ rows'[s].until = rows[s].until
    BY <1>0, <1>4 DEF BootStop, BootCrash, BootRecoverUsed, Row
  <2>3. Recording(s)' <=> Recording(s)
    BY <2>1 DEF Recording
  <2>4. QED
    BY <1>0, <1>2, <2>1, <2>2, <2>3, KeptStays
<1>5. CASE BootRecoverHeld
  <2>1. PICK f \in [Port -> Session \cup {NoSession}] :
          /\ \A p \in Port : IF InUse(p) \/ Reserving(p) = {}
                             THEN f[p] = NoSession ELSE f[p] \in Reserving(p)
          /\ held' = [p \in Port |-> IF f[p] = NoSession THEN NoHold
                                     ELSE [session |-> f[p], until |-> rows[f[p]].until]]
          /\ rows' = [u \in Session |->
                        IF \E p \in Port : u \in Reserving(p) /\ f[p] # u
                        THEN [rows[u] EXCEPT !.until = Never] ELSE rows[u]]
    BY <1>5 DEF BootRecoverHeld
  <2>2. ASSUME NEW p \in Port, held'[p].session = s
        PROVE  HeldFor(s, p)'
    <3>1. f[p] = s /\ held'[p].until = rows[s].until
      BY <1>0, <2>1, <2>2
    <3>2. s \in Reserving(p)
      BY <2>1, <3>1, SessionAssumption
    <3>3. \A q \in Port : s \in Reserving(q) => q = p
      BY <3>2 DEF Reserving
    <3>4. rows'[s] = rows[s]
      BY <2>1, <3>1, <3>3
    <3>5. QED
      BY <1>2, <3>1, <3>2, <3>4 DEF HeldFor, Reserving
  <2>3. QED
    BY <1>2, <2>2 DEF Kept
<1>6. QED
  BY <1>3, <1>4, <1>5 DEF Boot

LEMMA KeptInvStep == Overlap = {} /\ KeptInv /\ [Next]_vars => KeptInv'
<1> SUFFICES ASSUME Overlap = {}, KeptInv, [Next]_vars, NEW s \in Session
             PROVE  Kept(s)'
  BY CurrentInvStep DEF KeptInv
<1>1. CASE (\E u \in Session : APExits(u)) \/ Tick \/ UNCHANGED vars
  <2>1. UNCHANGED <<held, rows, task, sw>>
    BY <1>1 DEF APExits, Tick, vars, poolVars, procs
  <2>2. QED
    BY <2>1 DEF KeptInv, Kept, NoneHeld, LettingGo, HeldFor, Recording
<1>2. QED
  BY <1>1, RequestsKept, LaunchesKept, SweepsKept, ProcessKept DEF Next

LEMMA KeptInvInit == Init => KeptInv
<1> SUFFICES ASSUME Init, NEW s \in Session
             PROVE  Kept(s)
  BY CurrentInvInit DEF KeptInv
<1>1. \A p \in Port : held[p].session # s
  BY SessionAssumption DEF Init, PoolInit, NoHold
<1>2. QED
  BY <1>1 DEF Kept, NoneHeld

(* A port is kept where its session last ran, for as long as the row says,  *)
(* as long as no two actors work on one session at the same time: so a      *)
(* relaunch gets the address the players know (port_reservation.go:9-10),   *)
(* also after a crash of the process.                                       *)
THEOREM SessionsHoldMatchesRow == Overlap = {} => (Spec => []HoldMatchesRow)
<1> SUFFICES ASSUME Overlap = {}
             PROVE  Spec => []HoldMatchesRow
  OBVIOUS
<1>1. KeptInv => HoldMatchesRow
  BY DEF KeptInv, Kept, HeldFor, Recording, HoldMatchesRow, Settled, Busy, SweeperOn
<1>2. KeptInv /\ [Next]_vars => KeptInv'
  BY KeptInvStep
<1>3. QED
  BY <1>1, <1>2, KeptInvInit, PTL DEF Spec

-----------------------------------------------------------------------------
(* The third layer, in a process that does not crash: a running session     *)
(* uses its port until somebody has begun to give it up.                    *)
GivingUp(s) ==
    \/ \E h \in Handler : task[h].s = s /\ task[h].pc \in {"drop", "clear", "mark"}
    \/ sw.cur.s = s /\ sw.pc \in {"record", "mark"}

Owner(s) ==
    /\ rows[s].status = "running" /\ ~GivingUp(s) => used[rows[s].port] = s
    /\ \A n \in LaunchId : launch[n].s = s /\ launch[n].pc \in {"startAP", "startBridge", "running"}
         => used[launch[n].port] = s
    /\ \A h \in Handler : task[h].s = s /\ task[h].pc \in {"forget", "record"}
         => used[task[h].port] = s
    /\ phase # "serve" => rows[s].status \notin InProgress

OwnerInv == CurrentInv /\ \A s \in Session : Owner(s)

(* No request makes a session running.                                      *)
LEMMA RequestStatus ==
    ASSUME LiveInv, NEW h \in Handler, HandlerStep(h), NEW s \in Session,
           rows'[s].status = "running"
    PROVE  rows[s].status = "running"
<1>0. HandlerAtWork(task[h]) /\ rows \in [Session -> Row]
  BY DEF LiveInv, SessionsInv, TypeOK, AtWork
<1>1. CASE s # task[h].s
  BY <1>1, RequestElsewhere
<1>2. CASE s = task[h].s
  <2>1. CASE UNCHANGED rows
    BY <2>1
  <2>2. CASE Insert(h)
    BY <1>0, <1>2, <2>2 DEF Insert, Row
  <2>3. CASE Draft(h) \/ Reset(h) \/ Generated(h)
    BY <1>0, <1>2, <2>3, StatusDoes, GeneratedDoes DEF Draft, Reset, Generated
  <2>4. CASE ForgetVictim(h) \/ DropRecord(h)
    BY <1>0, <2>4, ReservationDoes DEF ForgetVictim, DropRecord, ClearReservation, At, HandlerAtWork
  <2>5. CASE Record(h)
    BY <1>0, <1>2, <2>5 DEF Record, UpdateLaunching, Update, Row
  <2>6. CASE Mark(h)
    <3>1. \/ UpdateStatus(s, "stopped")
          \/ rows' = [rows EXCEPT ![s] = NoRow]
      BY <1>0, <1>2, <2>6 DEF Mark, At, HandlerAtWork
    <3>2. QED
      BY <1>0, <3>1, StatusDoes DEF NoRow
  <2>7. QED
    BY <2>1, <2>2, <2>3, <2>4, <2>5, <2>6
       DEF HandlerStep, Begin, Fail, CheckReady, Acquire, RecordFails, ReadForStop, Kill,
           GiveBack, Drop
<1>3. QED
  BY <1>1, <1>2

(* Work on one session leaves the ports of the others in use.               *)
LEMMA RequestKeepsUse ==
    ASSUME OwnerInv, NEW h \in Handler, HandlerStep(h), NEW s \in Session, s # task[h].s,
           NEW p \in Port, used[p] = s
    PROVE  used'[p] = s
<1>0. /\ PoolInv /\ task[h] \in Task /\ HandlerAtWork(task[h]) /\ s # NoSession
      /\ used \in [Port -> Session \cup {NoSession}]
  BY SessionAssumption
     DEF OwnerInv, CurrentInv, LiveInv, SessionsInv, TypeOK, AtWork, PoolTypeOK
<1>1. CASE UNCHANGED used
  BY <1>1
<1>2. CASE Acquire(h) \/ GiveBack(h) \/ Drop(h)
  <2>1. task[h].s \in Session /\ task[h].port \in MaybePort
    BY <1>0, <1>2 DEF Acquire, GiveBack, Drop, At, HandlerAtWork, Task
  <2>2. used'[p] # used[p] => used[p] = task[h].s
    BY <1>0, <1>2, <2>1, CallForOwner DEF Acquire, GiveBack, Drop, InUse
  <2>3. QED
    BY <2>2
<1>3. CASE RecordFails(h)
  <2>1. task[h].s \in Session /\ task[h].pc = "record"
    BY <1>0, <1>3 DEF RecordFails, At, HandlerAtWork
  <2>2. used[task[h].port] = task[h].s
    BY <2>1 DEF OwnerInv, Owner
  <2>3. QED
    BY <1>0, <1>3, <2>2 DEF RecordFails, Release
<1>4. QED
  BY <1>1, <1>2, <1>3
     DEF HandlerStep, Begin, Fail, Insert, Draft, Generated, CheckReady, ForgetVictim, Record,
         ReadForStop, Kill, DropRecord, Mark, Reset

LEMMA RequestsOwn ==
    ASSUME OwnerInv, NEW h \in Handler, HandlerStep(h), NEW s \in Session
    PROVE  Owner(s)'
<1>0. /\ CurrentInv /\ LiveInv /\ SessionsInv /\ Owner(s) /\ Current(s)
      /\ task[h] \in Task /\ HandlerAtWork(task[h]) /\ task \in [Handler -> Task]
      /\ task[h].pc \in {"forget", "record"} => task[h].port \in Port
      /\ used \in [Port -> Session \cup {NoSession}] /\ rows \in [Session -> Row]
  BY DEF OwnerInv, CurrentInv, LiveInv, SessionsInv, TypeOK, AtWork, PoolTypeOK, HandlerAtWork
<1>1. /\ phase' = "serve" /\ UNCHANGED sw
      /\ \A k \in Handler \ {h} : task'[k] = task[k]
  BY <1>0, RequestMoves
<1>2. task'[h].pc \in {"forget", "record"} => Acquire(h) \/ ForgetVictim(h)
  BY <1>0, RequestTakes
<1>3. CASE s # task[h].s
  <2>1. /\ rows'[s].status = rows[s].status /\ rows'[s].port = rows[s].port
        /\ \A p \in Port : used[p] = s => used'[p] = s
    BY <1>0, <1>3, RequestElsewhere, RequestKeepsUse
  <2>2. \A n \in LaunchId : launch'[n].s = s => launch'[n] = launch[n]
    BY <1>0, <1>3, RequestMoves
  <2>3. GivingUp(s) => GivingUp(s)'
    BY <1>1, <1>3 DEF GivingUp
  <2>4. rows[s].status = "running" => rows[s].port \in Port
    BY <1>0 DEF Current, Recorded, InProgress
  <2>5. \A n \in LaunchId : launch[n].s = s => launch[n].port \in Port
    BY <1>0 DEF Current
  <2>6. task'[h].s = s => task'[h].pc \notin {"forget", "record"}
    <3>1. CASE Acquire(h)
      BY <1>0, <1>3, <3>1, AcquireMoves
    <3>2. CASE ForgetVictim(h)
      BY <1>0, <1>3, <3>2 DEF ForgetVictim, Task
    <3>3. QED
      BY <1>2, <3>1, <3>2
  <2>7. \A k \in Handler : task[k].pc \in {"forget", "record"} => task[k].port \in Port
    BY <1>0 DEF SessionsInv, AtWork, HandlerAtWork
  <2>8. QED
    BY <1>0, <1>1, <2>1, <2>2, <2>3, <2>4, <2>5, <2>6, <2>7 DEF Owner
<1>4. CASE s = task[h].s
  <2>0. task[h].pc # "idle"
    BY <1>0, <1>4, SessionAssumption DEF LiveInv, AtRest
  <2>1. /\ \A k \in Handler \ {h} : task[k].s # s
        /\ \A n \in LaunchId : launch[n].s # s
        /\ ~Swept(s) /\ HandlerKnows(h)
    BY <1>0, <1>4, <2>0, RequestAlone
  <2>2. ASSUME rows'[s].status = "running", ~GivingUp(s)'
        PROVE  used'[rows'[s].port] = s
    <3>1. rows[s].status = "running"
      BY <1>0, <2>2, RequestStatus
    <3>2. task[h].op \in {"stop", "delete"}
          /\ task[h].pc \in {"kill", "release", "drop", "clear", "mark"}
      BY <1>4, <2>1, <3>1 DEF HandlerKnows, InProgress
    <3>3. task'[h].s = s => task'[h].pc \notin {"drop", "clear", "mark"}
      BY <2>2 DEF GivingUp
    <3>4. Kill(h)
      <4>1. CASE Mark(h)
        <5>1. \/ UpdateStatus(s, "stopped")
              \/ rows' = [rows EXCEPT ![s] = NoRow]
          BY <1>4, <3>2, <4>1 DEF Mark
        <5>2. rows'[s].status # "running"
          BY <1>0, <3>1, <5>1 DEF UpdateStatus, Update, Present, NoRow, Row
        <5>3. QED
          BY <2>2, <5>2
      <4>2. CASE GiveBack(h)
        <5>1. task[h].op = "stop" /\ Goto(h, "drop")
          BY <1>0, <3>2, <4>2 DEF GiveBack, At, HandlerAtWork
        <5>2. QED
          BY <1>0, <1>4, <3>3, <5>1 DEF Goto, Task
      <4>3. CASE Drop(h) \/ DropRecord(h)
        BY <1>0, <1>4, <3>3, <4>3 DEF Drop, DropRecord, Goto, Task
      <4>4. ASSUME NEW s1 \in Session, NEW op \in Ops, Begin(h, s1, op)
            PROVE  FALSE
        BY <2>0, <4>4 DEF Begin, NoTask
      <4>5. QED
        BY <3>2, <4>1, <4>2, <4>3, <4>4
           DEF HandlerStep, Fail, Insert, Draft, Generated, CheckReady,
               Acquire, ForgetVictim, Record, RecordFails, ReadForStop, Reset, At
    <3>5. UNCHANGED <<used, rows>> /\ ~GivingUp(s)
      BY <1>4, <2>1, <3>4 DEF Kill, At, GivingUp, Swept, SweeperOn
    <3>6. QED
      BY <1>0, <3>1, <3>5 DEF Owner
  <2>3. ASSUME NEW n \in LaunchId, launch'[n].s = s
        PROVE  used'[launch'[n].port] = s
    <3>1. Record(h) /\ launch'[n].port = task[h].port
      BY <1>0, <1>4, <2>1, <2>3, RequestMoves
    <3>2. QED
      BY <1>0, <1>4, <3>1 DEF Record, At, Owner
  <2>4. ASSUME NEW k \in Handler, task'[k].s = s, task'[k].pc \in {"forget", "record"}
        PROVE  used'[task'[k].port] = s
    <3>1. k = h
      BY <1>1, <2>1, <2>4
    <3>2. CASE Acquire(h)
      <4>1. PICK p \in Port : AcquireFor(s, p) /\ task'[h].port = p
        BY <1>0, <1>4, <3>2, AcquireMoves
      <4>2. QED
        BY <1>0, <3>1, <4>1, AcquireDoes
    <3>3. CASE ForgetVictim(h)
      <4>1. /\ task'[h].port = task[h].port /\ task[h].pc = "forget" /\ UNCHANGED used
        BY <1>0, <3>3 DEF ForgetVictim, At, Task
      <4>2. QED
        BY <1>0, <1>4, <3>1, <4>1 DEF Owner
    <3>4. QED
      BY <1>2, <2>4, <3>1, <3>2, <3>3
  <2>5. QED
    BY <1>1, <2>2, <2>3, <2>4 DEF Owner
<1>5. QED
  BY <1>3, <1>4

(* The launch of one session leaves the others alone.                       *)
LEMMA LaunchElsewhere ==
    ASSUME OwnerInv, NEW n \in LaunchId, LaunchStep(n), NEW s \in Session, s # launch[n].s
    PROVE  /\ rows'[s] = rows[s] /\ ap'[s] = ap[s] /\ bridge'[s] = bridge[s]
           /\ \A p \in Port : used[p] = s => used'[p] = s
<1>0. /\ LiveInv /\ SessionsInv /\ PoolInv /\ launch[n] \in Goroutine
      /\ rows \in [Session -> Row] /\ used \in [Port -> Session \cup {NoSession}]
      /\ ap \in [Session -> Container] /\ bridge \in [Session -> Container]
  BY DEF OwnerInv, CurrentInv, LiveInv, SessionsInv, TypeOK, PoolTypeOK
<1>1. launch[n].s \in Session
  BY <1>0, LaunchMoves
<1>2. rows'[s] = rows[s]
  BY <1>0, <1>1, StatusDoes, RunningDoes
     DEF LaunchStep, StartAP, StartBridge, SetRunning, LaunchFails, LaunchRelease, LaunchCrash
<1>3. ap'[s] = ap[s] /\ bridge'[s] = bridge[s]
  BY <1>0, <1>1
     DEF LaunchStep, StartAP, StartBridge, SetRunning, LaunchFails, LaunchRelease, LaunchCrash,
         docker
<1>4. ASSUME NEW p \in Port, used[p] = s
      PROVE  used'[p] = s
  <2>1. CASE LaunchRelease(n)
    <3>1. launch[n].port \in MaybePort
      BY <1>0 DEF Goroutine
    <3>2. used'[p] # used[p] => used[p] = launch[n].s
      BY <1>0, <1>1, <1>4, <2>1, <3>1, CallForOwner, SessionAssumption DEF LaunchRelease, InUse
    <3>3. QED
      BY <1>4, <3>2
  <2>2. CASE UNCHANGED used
    BY <1>4, <2>2
  <2>3. QED
    BY <2>1, <2>2 DEF LaunchStep, StartAP, StartBridge, SetRunning, LaunchFails, LaunchCrash
<1>5. QED
  BY <1>2, <1>3, <1>4

LEMMA LaunchesOwn ==
    ASSUME OwnerInv, NEW n \in LaunchId, LaunchStep(n), NEW s \in Session
    PROVE  Owner(s)'
<1>0. /\ LiveInv /\ SessionsInv /\ PoolInv /\ Owner(s) /\ Current(s)
      /\ launch \in [LaunchId -> Goroutine] /\ launch[n] \in Goroutine
      /\ used \in [Port -> Session \cup {NoSession}] /\ rows \in [Session -> Row]
      /\ \A h \in Handler : task[h].pc \in {"forget", "record"} => task[h].port \in Port
  BY DEF OwnerInv, CurrentInv, LiveInv, SessionsInv, TypeOK, AtWork, PoolTypeOK, HandlerAtWork
<1>1. /\ phase' = "serve" /\ UNCHANGED <<sw, task>>
      /\ \A m \in LaunchId \ {n} : launch'[m] = launch[m]
      /\ launch[n].pc # "none" /\ launch[n].s \in Session
      /\ \/ launch'[n] = NoGoroutine
         \/ /\ launch'[n].pc # "none" /\ launch'[n].s = launch[n].s
            /\ launch'[n].port = launch[n].port
  BY <1>0, LaunchMoves
<1>2. GivingUp(s)' <=> GivingUp(s)
  BY <1>1 DEF GivingUp
<1>3. CASE s # launch[n].s
  <2>1. rows'[s] = rows[s]
    BY <1>3, LaunchElsewhere
  <2>2. \A p \in Port : used[p] = s => used'[p] = s
    BY <1>3, LaunchElsewhere
  <2>3. \A m \in LaunchId : launch'[m].s = s => m # n /\ launch'[m] = launch[m]
    BY <1>1, <1>3, SessionAssumption DEF NoGoroutine
  <2>4. rows[s].status = "running" => rows[s].port \in Port
    BY <1>0 DEF Current, Recorded, InProgress
  <2>5. \A m \in LaunchId : launch[m].s = s => launch[m].port \in Port
    BY <1>0 DEF Current
  <2>6. QED
    BY <1>0, <1>1, <1>2, <2>1, <2>2, <2>3, <2>4, <2>5 DEF Owner
<1>4. CASE s = launch[n].s
  <2>1. /\ \A h \in Handler : task[h].s # s
        /\ \A m \in LaunchId \ {n} : launch[m].s # s
    BY <1>0, <1>4 DEF LiveInv, OneActor, HandlerOn, GoroutineOn
  <2>2. rows[s].status = "launching" /\ launch[n].port = rows[s].port
    BY <1>0, <1>4 DEF Current, LiveInv, Orderly, LaunchKnows
  <2>3. ASSUME rows'[s].status = "running"
        PROVE  used'[rows'[s].port] = s
    <3>1. SetRunning(n)
      <4>1. CASE LaunchCrash(n)
        BY <1>0, <1>4, <2>2, <2>3, <4>1, StatusDoes DEF LaunchCrash
      <4>2. QED
        BY <2>2, <2>3, <4>1 DEF LaunchStep, StartAP, StartBridge, LaunchFails, LaunchRelease
    <3>2. rows'[s].port = launch[n].port /\ UNCHANGED used /\ launch[n].pc = "running"
      BY <1>0, <1>4, <2>2, <3>1, RunningDoes DEF SetRunning, LaunchAt
    <3>3. QED
      BY <1>0, <1>4, <3>2 DEF Owner
  <2>4. ASSUME launch'[n].s = s, launch'[n].pc \in {"startAP", "startBridge", "running"}
        PROVE  used'[launch'[n].port] = s
    <3>1. StartAP(n) \/ StartBridge(n)
      BY <1>0, <2>4, SessionAssumption
         DEF LaunchStep, SetRunning, LaunchFails, LaunchRelease, LaunchCrash, LaunchGoto,
             Goroutine, NoGoroutine
    <3>2. /\ launch[n].pc \in {"startAP", "startBridge"} /\ UNCHANGED used
          /\ launch'[n].port = launch[n].port
      BY <1>0, <3>1 DEF StartAP, StartBridge, LaunchAt, LaunchGoto, Goroutine
    <3>3. QED
      BY <1>0, <1>4, <3>2 DEF Owner
  <2>5. QED
    BY <1>1, <2>1, <2>3, <2>4 DEF Owner
<1>5. QED
  BY <1>3, <1>4

LEMMA SweepsOwn ==
    ASSUME OwnerInv, SweeperStep, Overlap = {}, NEW s \in Session
    PROVE  Owner(s)'
<1>0. /\ LiveInv /\ SessionsInv /\ PoolInv /\ Owner(s) /\ Current(s) /\ AtRest
      /\ used \in [Port -> Session \cup {NoSession}] /\ rows \in [Session -> Row]
      /\ sw \in Sweeper /\ SweeperAtWork
      /\ \A h \in Handler : task[h].pc \in {"forget", "record"} => task[h].port \in Port
      /\ NoItem.s \notin Session
  BY SessionAssumption
     DEF OwnerInv, CurrentInv, LiveInv, SessionsInv, TypeOK, AtWork, PoolTypeOK, HandlerAtWork,
         NoItem
<1>1. phase' = "serve" /\ UNCHANGED <<task, launch>>
  BY <1>0, SweeperMoves
<1>2. CASE s # sw.cur.s
  <2>1. rows'[s].status = rows[s].status /\ rows'[s].port = rows[s].port
    BY <1>0, <1>2, SweepElsewhere
  <2>2. ASSUME NEW p \in Port, used[p] = s
        PROVE  used'[p] = s
    <3>1. CASE ReleaseLate \/ KeepPort
      <4>1. sw.cur.s \in Session /\ sw.cur.port \in MaybePort /\ now + TTL \in Time
        BY <1>0, <3>1, Deadlines
           DEF ReleaseLate, KeepPort, SweepAt, SweeperAtWork, Item, SessionsInv, TypeOK
      <4>2. used'[p] # used[p] => used[p] = sw.cur.s
        BY <1>0, <2>2, <3>1, <4>1, CallForOwner, SessionAssumption DEF ReleaseLate, KeepPort, InUse
      <4>3. QED
        BY <1>2, <2>2, <4>2
    <3>2. CASE UNCHANGED used
      BY <2>2, <3>2
    <3>3. QED
      BY <3>1, <3>2
         DEF SweeperStep, ListTransit, KillLate, CrashLate, ListRunning, InspectSkip,
             InspectDead, KillDead, RecordHold, MarkDead, ClearExpired, ExpireHolds, Expire
  <2>3. GivingUp(s) => GivingUp(s)'
    BY <1>1, <1>2 DEF GivingUp
  <2>4. rows[s].status = "running" => rows[s].port \in Port
    BY <1>0 DEF Current, Recorded, InProgress
  <2>5. \A m \in LaunchId : launch[m].s = s => launch[m].port \in Port
    BY <1>0 DEF Current
  <2>6. QED
    BY <1>0, <1>1, <2>1, <2>2, <2>3, <2>4, <2>5 DEF Owner
<1>3. CASE s = sw.cur.s
  <2>1. sw.pc \notin {"clear", "transit", "running"} /\ Swept(s)
    BY <1>0, <1>3 DEF AtRest, Swept, SweeperOn
  <2>2. /\ \A h \in Handler : task[h].s # s
        /\ \A n \in LaunchId : launch[n].s # s
    BY <1>0, <2>1, SweptAlone
  <2>3. ASSUME rows'[s].status = "running", ~GivingUp(s)'
        PROVE  used'[rows'[s].port] = s
    <3>1. ReleaseLate \/ CrashLate \/ KillDead \/ KeepPort \/ RecordHold \/ MarkDead
      BY <2>1 DEF SweeperStep, ListTransit, ListRunning, KillLate, InspectSkip, InspectDead,
                  ExpireHolds, ClearExpired, SweepAt
    <3>2. ~(CrashLate \/ MarkDead)
      <4>1. ASSUME NEW st \in {"stopped", "crashed"}, UpdateStatus(s, st), CrashLate \/ MarkDead
            PROVE  FALSE
        BY <1>0, <2>3, <4>1 DEF UpdateStatus, Update, Present, Row
      <4>2. QED
        BY <1>0, <1>3, <4>1 DEF CrashLate, MarkDead, SweepAt, SweeperAtWork
    <3>3. ~ReleaseLate
      BY <1>0, <1>3, <2>3 DEF ReleaseLate, SweepAt, Current, SweeperOn, SweepsLaunches
    <3>4. ~(KeepPort \/ RecordHold)
      <4>1. ASSUME KeepPort \/ RecordHold
            PROVE  sw'.cur = sw.cur /\ sw'.pc \in {"record", "mark"}
        BY <1>0, <4>1 DEF KeepPort, RecordHold, SweepGoto, Sweeper
      <4>2. QED
        BY <1>3, <2>3, <4>1 DEF GivingUp
    <3>5. KillDead
      BY <3>1, <3>2, <3>3, <3>4
    <3>6. UNCHANGED <<used, rows>> /\ ~GivingUp(s)
      BY <2>2, <3>5 DEF KillDead, SweepAt, GivingUp
    <3>7. QED
      BY <1>0, <2>3, <3>6 DEF Owner
  <2>4. QED
    BY <1>1, <2>2, <2>3 DEF Owner
<1>4. QED
  BY <1>2, <1>3

LEMMA OwnerInvStep ==
    Overlap = {} /\ Crashes = FALSE /\ OwnerInv /\ [Next]_vars => OwnerInv'
<1> SUFFICES ASSUME Overlap = {}, Crashes = FALSE, OwnerInv, [Next]_vars, NEW s \in Session
             PROVE  Owner(s)'
  BY CurrentInvStep DEF OwnerInv
<1>0. /\ LiveInv /\ AtRest /\ Owner(s) /\ rows \in [Session -> Row]
      /\ NoTask.s # s /\ NoGoroutine.s # s
  BY SessionAssumption
     DEF OwnerInv, CurrentInv, LiveInv, SessionsInv, TypeOK, NoTask, NoGoroutine
<1>1. CASE Boot
  <2>1. /\ \A h \in Handler : task'[h].s # s
        /\ \A n \in LaunchId : launch'[n].s # s
        /\ rows[s].status \notin InProgress
    <3>1. phase # "serve" /\ UNCHANGED procs
      BY <1>1 DEF Boot, BootStop, BootCrash, BootRecoverUsed, BootRecoverHeld
    <3>2. QED
      BY <1>0, <3>1 DEF AtRest, Owner, procs
  <2>2. rows'[s].status \notin InProgress
    BY <1>0, <1>1, <2>1
       DEF Boot, BootStop, BootCrash, BootRecoverUsed, BootRecoverHeld, Row, InProgress
  <2>3. QED
    BY <2>1, <2>2 DEF Owner, InProgress
<1>2. CASE (\E t \in Session : APExits(t)) \/ Tick \/ UNCHANGED vars
  <2>1. UNCHANGED <<phase, used, rows, task, launch, sw>>
    BY <1>2 DEF APExits, Tick, vars, poolVars, procs
  <2>2. QED
    BY <1>0, <2>1 DEF Owner, GivingUp
<1>3. QED
  BY <1>1, <1>2, RequestsOwn, LaunchesOwn, SweepsOwn DEF Next, Crash

LEMMA OwnerInvInit == Init => OwnerInv
<1> SUFFICES ASSUME Init, NEW s \in Session
             PROVE  Owner(s)
  BY CurrentInvInit DEF OwnerInv
<1>1. /\ \A h \in Handler : task[h].pc = "idle"
      /\ \A n \in LaunchId : launch[n].pc = "none"
      /\ rows[s].status \in {"generated", "absent"}
  BY DEF Init, NoTask, NoGoroutine, NoRow
<1>2. QED
  BY <1>1 DEF Owner, InProgress

(* A session that runs owns the port in its row, as long as no two actors   *)
(* work on one session at the same time and the process does not crash: no  *)
(* other session launched, paused or stopped meanwhile costs it its port.   *)
THEOREM SessionsRunningOwnsPort ==
    Overlap = {} /\ Crashes = FALSE => (Spec => []RunningOwnsPort)
<1> SUFFICES ASSUME Overlap = {}, Crashes = FALSE
             PROVE  Spec => []RunningOwnsPort
  OBVIOUS
<1>1. OwnerInv => RunningOwnsPort
  BY DEF OwnerInv, Owner, GivingUp, RunningOwnsPort, Settled, Busy, HandlerOn, SweeperOn
<1>2. OwnerInv /\ [Next]_vars => OwnerInv'
  BY OwnerInvStep
<1>3. QED
  BY <1>1, <1>2, OwnerInvInit, PTL DEF Spec
-----------------------------------------------------------------------------
(* The fourth layer, still in a process that does not crash: a container    *)
(* that binds a host port does so on a port its session uses, and only      *)
(* while the session is launching or running; whoever gives the port up     *)
(* knows by which id to reach the containers, and has stopped them before.  *)
Up(s) == ap[s].st = "up" \/ bridge[s].st = "up"
OnlyUp(s, n) == /\ ap[s].st = "up" => ap[s].id = n
                /\ bridge[s].st = "up" => bridge[s].id = n

HandlerStops(h) ==
    LET t == task[h] IN
    /\ t.op \in {"stop", "delete"} /\ t.pc = "kill" => t.cid = rows[t.s].cid
    /\ t.pc \in {"release", "drop", "clear", "mark"} => ~Up(t.s)

LaunchStarts(n) ==
    /\ OnlyUp(launch[n].s, n)
    /\ launch[n].pc \in {"release", "crash"} => ~Up(launch[n].s)

SweeperStops(s) ==
    /\ sw.pc # "clear" =>
         /\ \A i \in sw.todo : i.s = s => i.cid = rows[s].cid
         /\ sw.cur.s = s => sw.cur.cid = rows[s].cid
    /\ sw.cur.s = s /\ sw.pc \in {"hold", "record", "mark"} => ~Up(s)

BoundInUse(s) == \A p \in Port : Bound(s, p) => used[p] = s

Boxed(s) ==
    /\ BoundInUse(s)
    /\ Up(s) => rows[s].status \in InProgress
    /\ rows[s].status = "running" => OnlyUp(s, rows[s].cid)
    /\ rows[s].status = "launching" => GoroutineOn(s)
    /\ \A h \in Handler : task[h].s = s => HandlerStops(h)
    /\ \A n \in LaunchId : launch[n].s = s => LaunchStarts(n)
    /\ SweeperStops(s)

BoxInv == OwnerInv /\ \A s \in Session : Boxed(s)

(* What a statement changes of a row, the id of its container is not.       *)
LEMMA UpdateKeepsId ==
    ASSUME rows \in [Session -> Row], NEW s \in Session, NEW row, Update(s, row),
           row.cid = rows[s].cid
    PROVE  \A u \in Session : rows'[u].cid = rows[u].cid
BY DEF Update

LEMMA StatementsKeepId ==
    ASSUME rows \in [Session -> Row], NEW s \in Session,
           \/ \E st : UpdateStatus(s, st)
           \/ \E t : SetReservation(s, t)
           \/ \E p : UpdateLaunching(s, p)
           \/ UpdateGenerated(s)
    PROVE  \A u \in Session : rows'[u].cid = rows[u].cid
<1>0. rows[s] \in Row
  OBVIOUS
<1>1. ASSUME NEW st, UpdateStatus(s, st)
      PROVE  \A u \in Session : rows'[u].cid = rows[u].cid
  <2>1. [rows[s] EXCEPT !.status = st].cid = rows[s].cid
    BY <1>0 DEF Row
  <2>2. QED
    BY <1>1, <2>1, UpdateKeepsId DEF UpdateStatus
<1>2. ASSUME NEW t, SetReservation(s, t)
      PROVE  \A u \in Session : rows'[u].cid = rows[u].cid
  <2>1. [rows[s] EXCEPT !.until = t].cid = rows[s].cid
    BY <1>0 DEF Row
  <2>2. QED
    BY <1>2, <2>1, UpdateKeepsId DEF SetReservation
<1>3. ASSUME NEW p, UpdateLaunching(s, p)
      PROVE  \A u \in Session : rows'[u].cid = rows[u].cid
  <2>1. [rows[s] EXCEPT !.status = "launching", !.port = p, !.until = Never].cid = rows[s].cid
    BY <1>0 DEF Row
  <2>2. QED
    BY <1>3, <2>1, UpdateKeepsId DEF UpdateLaunching
<1>4. ASSUME UpdateGenerated(s)
      PROVE  \A u \in Session : rows'[u].cid = rows[u].cid
  <2>1. [rows[s] EXCEPT !.status = "generated", !.out = TRUE].cid = rows[s].cid
    BY <1>0 DEF Row
  <2>2. QED
    BY <1>4, <2>1, UpdateKeepsId DEF UpdateGenerated
<1>5. QED
  BY <1>1, <1>2, <1>3, <1>4

(* The containers of a session are stopped by its own requests only, and    *)
(* only its deletion takes the id from its row.                             *)
LEMMA RequestSpares ==
    ASSUME LiveInv, NEW h \in Handler, HandlerStep(h), NEW s \in Session
    PROVE  /\ s # task[h].s \/ ~Kill(h) => ap'[s] = ap[s] /\ bridge'[s] = bridge[s]
           /\ s # task[h].s \/ ~Mark(h) => rows'[s].cid = rows[s].cid
<1>0. /\ task[h] \in Task /\ HandlerAtWork(task[h]) /\ rows \in [Session -> Row]
      /\ ap \in [Session -> Container] /\ bridge \in [Session -> Container]
  BY DEF LiveInv, SessionsInv, TypeOK, AtWork
<1>1. ASSUME s # task[h].s \/ ~Kill(h)
      PROVE  ap'[s] = ap[s] /\ bridge'[s] = bridge[s]
  <2>1. CASE Kill(h)
    BY <1>0, <1>1, <2>1 DEF Kill
  <2>2. CASE UNCHANGED docker
    BY <2>2 DEF docker
  <2>3. QED
    BY <2>1, <2>2
       DEF HandlerStep, Begin, Fail, Insert, Draft, Generated, CheckReady, Acquire,
           ForgetVictim, Record, RecordFails, ReadForStop, GiveBack, Drop, DropRecord, Mark, Reset
<1>2. ASSUME s # task[h].s \/ ~Mark(h)
      PROVE  rows'[s].cid = rows[s].cid
  <2>1. CASE UNCHANGED rows
    BY <2>1
  <2>2. CASE Insert(h)
    BY <1>0, <2>2 DEF Insert, Row
  <2>3. ASSUME Draft(h) \/ Reset(h) \/ Generated(h) \/ Record(h) \/ ForgetVictim(h) \/ DropRecord(h)
        PROVE  rows'[s].cid = rows[s].cid
    <3>1. task[h].s \in Session /\ (task[h].pc = "forget" => task[h].victim \in Session)
      BY <1>0, <2>3
         DEF Draft, Reset, Generated, Record, ForgetVictim, DropRecord, At, HandlerAtWork
    <3>2. CASE Draft(h) \/ Reset(h)
      BY <1>0, <3>1, <3>2, StatementsKeepId DEF Draft, Reset
    <3>3. CASE Generated(h)
      BY <1>0, <3>1, <3>3, StatementsKeepId DEF Generated
    <3>4. CASE Record(h)
      BY <1>0, <3>1, <3>4, StatementsKeepId DEF Record
    <3>5. CASE ForgetVictim(h) \/ DropRecord(h)
      BY <1>0, <3>1, <3>5, StatementsKeepId DEF ForgetVictim, DropRecord, ClearReservation, At
    <3>6. QED
      BY <2>3, <3>2, <3>3, <3>4, <3>5
  <2>4. CASE Mark(h)
    <3>0. task[h].s \in Session /\ s # task[h].s
      BY <1>0, <1>2, <2>4 DEF Mark, At, HandlerAtWork
    <3>1. \/ UpdateStatus(task[h].s, "stopped")
          \/ rows' = [rows EXCEPT ![task[h].s] = NoRow]
      BY <1>0, <2>4 DEF Mark, At, HandlerAtWork
    <3>2. QED
      BY <1>0, <3>0, <3>1, StatementsKeepId
  <2>5. QED
    BY <2>1, <2>2, <2>3, <2>4
       DEF HandlerStep, Begin, Fail, CheckReady, Acquire, RecordFails, ReadForStop, Kill,
           GiveBack, Drop
<1>3. QED
  BY <1>1, <1>2

(* A session nobody touches stays as it is.                                 *)
LEMMA BoxedKept ==
    ASSUME NEW s \in Session, Boxed(s),
           ap'[s] = ap[s], bridge'[s] = bridge[s],
           rows'[s].status = rows[s].status, rows'[s].cid = rows[s].cid,
           \A p \in Port : used[p] = s => used'[p] = s,
           \A n \in LaunchId : launch'[n].s = s \/ launch[n].s = s => launch'[n] = launch[n],
           \A h \in Handler : task'[h].s = s => HandlerStops(h)',
           SweeperStops(s)'
    PROVE  Boxed(s)'
<1>1. Up(s)' = Up(s) /\ (\A n : OnlyUp(s, n)' <=> OnlyUp(s, n))
  BY DEF Up, OnlyUp
<1>2. BoundInUse(s)'
  BY DEF Boxed, BoundInUse, Bound, Binds
<1>3. GoroutineOn(s)' <=> GoroutineOn(s)
  BY DEF GoroutineOn
<1>4. OnlyUp(s, rows[s].cid) => OnlyUp(s, rows[s].cid)'
  BY DEF OnlyUp
<1>5. ASSUME NEW n \in LaunchId, launch'[n].s = s
      PROVE  LaunchStarts(n)'
  <2>1. launch'[n] = launch[n] /\ LaunchStarts(n) /\ launch[n].s = s
    BY <1>5 DEF Boxed
  <2>2. QED
    BY <1>1, <2>1 DEF LaunchStarts, Up, OnlyUp
<1>6. QED
  BY <1>1, <1>2, <1>3, <1>4, <1>5 DEF Boxed, Up, OnlyUp

(* Nor can anything be wrong with a session that has no container up, as    *)
(* far as its port is concerned.                                            *)
LEMMA BoxedIdle ==
    ASSUME NEW s \in Session, ~Up(s)',
           rows'[s].status = "launching" => GoroutineOn(s)',
           \A h \in Handler : task'[h].s = s => ~(task'[h].op \in {"stop", "delete"} /\ task'[h].pc = "kill"),
           sw'.pc # "clear" =>
             /\ \A i \in sw'.todo : i.s # s
             /\ sw'.cur.s = s => sw'.cur.cid = rows'[s].cid
    PROVE  Boxed(s)'
<1>1. BoundInUse(s)' /\ \A n : OnlyUp(s, n)'
  BY DEF BoundInUse, Bound, Binds, Up, OnlyUp
<1>2. OnlyUp(s, rows[s].cid)'
  BY DEF Up, OnlyUp
<1>3. \A h \in Handler : task'[h].s = s => HandlerStops(h)'
  BY DEF HandlerStops, Up
<1>4. \A n \in LaunchId : launch'[n].s = s => LaunchStarts(n)'
  BY DEF LaunchStarts, Up, OnlyUp
<1>5. SweeperStops(s)'
  BY DEF SweeperStops, Up
<1>6. QED
  BY <1>1, <1>2, <1>3, <1>4, <1>5 DEF Boxed, Up

(* A request whose session has a container up is about to stop it.          *)
LEMMA RequestQuiet ==
    ASSUME BoxInv, NEW h \in Handler, HandlerStep(h), NEW s \in Session, s = task[h].s
    PROVE  ~Up(s)'
<1>0. /\ LiveInv /\ Boxed(s) /\ Boxed(task[h].s) /\ task[h] \in Task /\ HandlerAtWork(task[h])
      /\ ap \in [Session -> Container] /\ bridge \in [Session -> Container]
  BY DEF BoxInv, OwnerInv, CurrentInv, LiveInv, SessionsInv, TypeOK, AtWork
<1>1. task[h].pc # "idle"
  BY <1>0, SessionAssumption DEF LiveInv, AtRest
<1>2. HandlerKnows(h) /\ HandlerStops(h) /\ ~GoroutineOn(s)
  BY <1>0, <1>1, RequestAlone DEF Boxed, GoroutineOn
<1>3. ASSUME task[h].pc # "kill" \/ task[h].op \notin {"stop", "delete"}
      PROVE  ~Up(s)
  BY <1>0, <1>2, <1>3 DEF HandlerKnows, HandlerStops, Boxed
<1>4. CASE Kill(h)
  <2>1. /\ bridge'[s] = RemovedId(bridge[s], task[h].cid) /\ ap'[s] = NoContainer
    BY <1>0, <1>4 DEF Kill
  <2>2. CASE ~Up(s)
    BY <2>1, <2>2 DEF Up, RemovedId, NoContainer
  <2>3. CASE Up(s)
    <3>1. task[h].op \in {"stop", "delete"} /\ task[h].pc = "kill"
      BY <1>3, <2>3
    <3>2. task[h].cid = rows[s].cid
      BY <1>2, <3>1 DEF HandlerStops
    <3>3. rows[s].status = "running"
      BY <1>0, <1>2, <2>3 DEF Boxed, InProgress
    <3>4. OnlyUp(s, task[h].cid)
      BY <1>0, <3>2, <3>3 DEF Boxed
    <3>5. QED
      BY <2>1, <3>4 DEF Up, OnlyUp, RemovedId, NoContainer
  <2>4. QED
    BY <2>2, <2>3
<1>5. CASE ~Kill(h)
  <2>1. ap'[s] = ap[s] /\ bridge'[s] = bridge[s]
    BY <1>0, <1>5, RequestSpares
  <2>2. task[h].pc # "kill"
    <3>1. ASSUME NEW u \in Session, NEW op \in Ops, Begin(h, u, op)
          PROVE  FALSE
      BY <1>1, <3>1 DEF Begin, NoTask
    <3>2. QED
      BY <1>5, <3>1
         DEF HandlerStep, Fail, Insert, Draft, Generated, CheckReady, Acquire, ForgetVictim,
             Record, RecordFails, ReadForStop, GiveBack, Drop, DropRecord, Mark, Reset, At
  <2>3. QED
    BY <1>3, <2>1, <2>2 DEF Up
<1>6. QED
  BY <1>4, <1>5

(* Once it is at work, only a restart comes to the point where it stops     *)
(* the containers.                                                          *)
LEMMA RequestComesToKill ==
    ASSUME SessionsInv, NEW h \in Handler, HandlerStep(h), task[h].pc # "idle",
           task'[h].pc = "kill"
    PROVE  task'[h].op = "restart"
<1>0. task[h] \in Task /\ HandlerAtWork(task[h]) /\ task \in [Handler -> Task]
  BY DEF SessionsInv, TypeOK, AtWork
<1>1. CASE ReadForStop(h)
  BY <1>0, <1>1 DEF ReadForStop, At, HandlerAtWork, Task
<1>2. ~Done(h) /\ ~GotoLaunch(h)
  <2>1. ASSUME Done(h)
        PROVE  FALSE
    <3>1. task'[h] = NoTask
      BY <1>0, <2>1 DEF Done
    <3>2. QED
      BY <3>1 DEF NoTask
  <2>2. ASSUME GotoLaunch(h)
        PROVE  FALSE
    <3>1. task'[h] = [NoTask EXCEPT !.op = "launch", !.s = task[h].s, !.pc = "launch"]
      BY <1>0, <2>2 DEF GotoLaunch
    <3>2. QED
      BY <3>1 DEF NoTask
  <2>3. QED
    BY <2>1, <2>2
<1>3. \A pc \in {"generated", "acquire", "drop", "mark", "reset", "clear"} : ~Goto(h, pc)
  BY <1>0 DEF Goto, Task
<1>4. ~GiveBack(h)
  BY <1>0, <1>3 DEF GiveBack, At, HandlerAtWork
<1>5. ~Mark(h)
  BY <1>0, <1>2, <1>3 DEF Mark, At, HandlerAtWork
<1>6. ~Kill(h) /\ ~Acquire(h) /\ ~ForgetVictim(h)
  BY <1>0, AcquireMoves DEF Kill, ForgetVictim, Task
<1>7. \A u \in Session, op \in Ops : ~Begin(h, u, op)
  BY DEF Begin, NoTask
<1>8. QED
  BY <1>1, <1>2, <1>3, <1>4, <1>5, <1>6, <1>7
     DEF HandlerStep, Fail, Insert, Draft, Generated, CheckReady, Record, RecordFails,
         Drop, DropRecord, Reset

(* Only the last step of a launch makes a row say launching.                *)
LEMMA RequestLaunches ==
    ASSUME LiveInv, NEW h \in Handler, HandlerStep(h), NEW s \in Session, s = task[h].s,
           rows'[s].status = "launching", rows[s].status # "launching"
    PROVE  Record(h)
<1>0. HandlerAtWork(task[h]) /\ rows \in [Session -> Row]
  BY DEF LiveInv, SessionsInv, TypeOK, AtWork
<1>1. ~UNCHANGED rows /\ (\A st \in {"stopped", "draft", "generated"} : ~UpdateStatus(s, st))
  BY <1>0, StatusDoes
<1>2. ~Insert(h)
  BY <1>0 DEF Insert, Row
<1>3. ~Draft(h) /\ ~Reset(h)
  BY <1>1 DEF Draft, Reset
<1>4. ~Generated(h)
  BY <1>0, GeneratedDoes DEF Generated
<1>5. ~ForgetVictim(h) /\ ~DropRecord(h)
  BY <1>0, ReservationDoes DEF ForgetVictim, DropRecord, ClearReservation, At, HandlerAtWork
<1>6. ~Mark(h)
  <2>1. ASSUME Mark(h)
        PROVE  FALSE
    <3>1. rows' = [rows EXCEPT ![s] = NoRow]
      BY <1>0, <1>1, <2>1 DEF Mark, At, HandlerAtWork
    <3>2. rows'[s] = NoRow
      BY <1>0, <3>1
    <3>3. QED
      BY <3>2 DEF NoRow
  <2>2. QED
    BY <2>1
<1>7. QED
  BY <1>1, <1>2, <1>3, <1>4, <1>5, <1>6
     DEF HandlerStep, Begin, Fail, CheckReady, Acquire, RecordFails, ReadForStop, Kill,
         GiveBack, Drop

LEMMA RequestsBoxed ==
    ASSUME BoxInv, Overlap = {}, NEW h \in Handler, HandlerStep(h), NEW s \in Session
    PROVE  Boxed(s)'
<1>0. /\ OwnerInv /\ LiveInv /\ SessionsInv /\ Boxed(s) /\ task[h] \in Task
      /\ task \in [Handler -> Task] /\ rows \in [Session -> Row]
      /\ NoGoroutine.s # s /\ NoTask.s # s
  BY SessionAssumption
     DEF BoxInv, OwnerInv, CurrentInv, LiveInv, SessionsInv, TypeOK, NoGoroutine, NoTask
<1>1. /\ UNCHANGED sw /\ \A k \in Handler \ {h} : task'[k] = task[k]
  BY <1>0, RequestMoves
<1>2. CASE s = task[h].s
  <2>1. task[h].pc # "idle" /\ task[h].s \in Session
    BY <1>0, <1>2, SessionAssumption DEF LiveInv, AtRest
  <2>2. /\ \A k \in Handler \ {h} : task[k].s # s
        /\ ~Swept(s) /\ HandlerKnows(h) /\ ~GoroutineOn(s)
    BY <1>0, <1>2, <2>1, RequestAlone DEF GoroutineOn
  <2>3. ASSUME rows'[s].status = "launching"
        PROVE  GoroutineOn(s)'
    <3>1. Record(h)
      BY <1>0, <1>2, <2>2, <2>3, RequestLaunches DEF Boxed
    <3>2. ~UNCHANGED launch
      BY <1>0, <3>1 DEF Record, NoGoroutine, Unused, LiveInv, SessionsInv, TypeOK
    <3>3. QED
      BY <1>0, <1>2, <3>2, RequestMoves DEF GoroutineOn
  <2>4. ASSUME NEW k \in Handler, task'[k].s = s,
               task'[k].op \in {"stop", "delete"}, task'[k].pc = "kill"
        PROVE  FALSE
    <3>1. k = h
      BY <1>1, <2>2, <2>4
    <3>2. QED
      BY <1>0, <2>1, <2>4, <3>1, RequestComesToKill
  <2>5. sw'.pc # "clear" => sw'.cur.s # s /\ \A i \in sw'.todo : i.s # s
    BY <1>1, <2>2 DEF Swept, SweeperOn
  <2>6. ~Up(s)'
    BY <1>2, RequestQuiet
  <2>7. QED
    BY <2>3, <2>4, <2>5, <2>6, BoxedIdle
<1>3. CASE s # task[h].s
  <2>1. /\ ap'[s] = ap[s] /\ bridge'[s] = bridge[s] /\ rows'[s].cid = rows[s].cid
        /\ rows'[s].status = rows[s].status
    BY <1>0, <1>3, RequestSpares, RequestElsewhere
  <2>2. \A p \in Port : used[p] = s => used'[p] = s
    BY <1>0, <1>3, RequestKeepsUse
  <2>3. \A n \in LaunchId : launch'[n].s = s \/ launch[n].s = s => launch'[n] = launch[n]
    BY <1>0, <1>3, RequestMoves
  <2>4. ASSUME NEW k \in Handler, task'[k].s = s
        PROVE  HandlerStops(k)'
    <3>1. CASE k # h
      <4>1. task'[k] = task[k] /\ HandlerStops(k)
        BY <1>0, <1>1, <2>4, <3>1 DEF Boxed
      <4>2. QED
        BY <2>1, <2>4, <4>1 DEF HandlerStops, Up
    <3>2. CASE k = h
      <4>1. PICK op \in Ops : Begin(h, s, op)
        BY <1>0, <1>3, <2>4, <3>2, RequestMoves
      <4>2. /\ task'[h].op = op /\ task'[h].pc = FirstStep(op, rows[s])
            /\ op \in {"stop", "delete"} => task'[h].cid = rows[s].cid
        BY <1>0, <4>1 DEF Begin, NoTask
      <4>3. task'[h].pc \notin {"release", "drop", "clear", "mark"}
        BY <4>2, SessionsAssumption DEF FirstStep, Operation
      <4>4. QED
        BY <2>1, <2>4, <3>2, <4>2, <4>3 DEF HandlerStops
    <3>3. QED
      BY <3>1, <3>2
  <2>5. SweeperStops(s)'
    BY <1>0, <1>1, <2>1 DEF Boxed, SweeperStops, Up
  <2>6. QED
    BY <1>0, <2>1, <2>2, <2>3, <2>4, <2>5, BoxedKept
<1>4. QED
  BY <1>2, <1>3

LEMMA LaunchesBoxed ==
    ASSUME BoxInv, NEW n \in LaunchId, LaunchStep(n), NEW s \in Session
    PROVE  Boxed(s)'
<1>0. /\ OwnerInv /\ LiveInv /\ SessionsInv /\ Boxed(s) /\ Owner(s) /\ Current(s)
      /\ launch \in [LaunchId -> Goroutine] /\ launch[n] \in Goroutine
      /\ rows \in [Session -> Row] /\ rows[s] \in Row /\ NoGoroutine.s # s
      /\ ap \in [Session -> Container] /\ bridge \in [Session -> Container]
  BY SessionAssumption
     DEF BoxInv, OwnerInv, CurrentInv, LiveInv, SessionsInv, TypeOK, NoGoroutine
<1>1. /\ UNCHANGED <<sw, task>>
      /\ \A m \in LaunchId \ {n} : launch'[m] = launch[m]
      /\ launch[n].pc # "none"
      /\ \/ launch'[n] = NoGoroutine
         \/ launch'[n].s = launch[n].s /\ launch'[n].port = launch[n].port
  BY <1>0, LaunchMoves
<1>2. CASE s # launch[n].s
  <2>1. /\ rows'[s] = rows[s] /\ ap'[s] = ap[s] /\ bridge'[s] = bridge[s]
        /\ \A p \in Port : used[p] = s => used'[p] = s
    BY <1>0, <1>2, LaunchElsewhere
  <2>2. \A m \in LaunchId : launch'[m].s = s \/ launch[m].s = s => launch'[m] = launch[m]
    BY <1>0, <1>1, <1>2
  <2>3. \A h \in Handler : task'[h].s = s => HandlerStops(h)'
    BY <1>0, <1>1, <2>1 DEF Boxed, HandlerStops, Up
  <2>4. SweeperStops(s)'
    BY <1>0, <1>1, <2>1 DEF Boxed, SweeperStops, Up
  <2>5. QED
    BY <1>0, <2>1, <2>2, <2>3, <2>4, BoxedKept
<1>3. CASE s = launch[n].s
  <2>1. /\ \A h \in Handler : task[h].s # s
        /\ \A m \in LaunchId \ {n} : launch[m].s # s
        /\ ~Swept(s)
    BY <1>0, <1>3 DEF LiveInv, OneActor, HandlerOn, GoroutineOn
  <2>2. /\ rows[s].status = "launching" /\ launch[n].port \in Port
        /\ LaunchStarts(n) /\ OnlyUp(s, n)
    BY <1>0, <1>3 DEF Current, Boxed, LaunchStarts
  <2>3. /\ \A h \in Handler : task'[h].s # s
        /\ SweeperStops(s)'
        /\ sw'.pc # "clear" => sw'.cur.s # s /\ \A i \in sw'.todo : i.s # s
    BY <1>1, <2>1 DEF SweeperStops, Swept, SweeperOn
  <2>4. \A m \in LaunchId : launch'[m].s = s => m = n
    BY <1>1, <2>1
  <2>5. ASSUME OnlyUp(s, n)', UNCHANGED rows, launch'[n].s = s,
               launch'[n].pc \notin {"release", "crash"}, BoundInUse(s)'
        PROVE  Boxed(s)'
    <3>1. LaunchStarts(n)'
      BY <2>5 DEF LaunchStarts, OnlyUp
    <3>2. GoroutineOn(s)'
      BY <2>5 DEF GoroutineOn
    <3>3. rows'[s].status = "launching"
      BY <2>2, <2>5
    <3>4. QED
      BY <2>3, <2>4, <2>5, <3>1, <3>2, <3>3 DEF Boxed, InProgress
  <2>6. CASE StartAP(n) \/ StartBridge(n)
    <3>1. /\ launch[n].pc \in {"startAP", "startBridge"} /\ UNCHANGED <<rows, used>>
          /\ launch'[n].s = s /\ launch'[n].pc \notin {"release", "crash"}
      BY <1>0, <1>3, <2>6 DEF StartAP, StartBridge, LaunchAt, LaunchGoto, Goroutine
    <3>2. used[launch[n].port] = s
      BY <1>0, <1>3, <3>1 DEF Owner
    <3>3. /\ ap'[s] = ap[s] \/ ap'[s] = [id |-> n, st |-> "up", port |-> launch[n].port]
          /\ bridge'[s] = bridge[s] \/ bridge'[s] = [id |-> n, st |-> "up", port |-> launch[n].port]
      BY <1>0, <1>3, <2>6 DEF StartAP, StartBridge
    <3>4. OnlyUp(s, n)'
      BY <2>2, <3>3 DEF OnlyUp
    <3>5. BoundInUse(s)'
      BY <1>0, <3>1, <3>2, <3>3 DEF Boxed, BoundInUse, Bound, Binds
    <3>6. QED
      BY <2>5, <3>1, <3>4, <3>5
  <2>7. CASE SetRunning(n)
    <3>1. UpdateRunning(s, n) /\ UNCHANGED <<used, docker>> /\ launch'[n] = NoGoroutine
      BY <1>0, <1>3, <2>7 DEF SetRunning
    <3>2. rows'[s].status = "running" /\ rows'[s].cid = n
      BY <1>0, <2>2, <3>1 DEF UpdateRunning, Update, Present, Row
    <3>3. OnlyUp(s, rows[s].cid)' /\ BoundInUse(s)'
      BY <1>0, <2>2, <3>1, <3>2 DEF OnlyUp, docker, Boxed, BoundInUse, Bound, Binds
    <3>4. \A m \in LaunchId : launch'[m].s # s
      BY <1>0, <2>4, <3>1
    <3>5. QED
      BY <2>3, <3>2, <3>3, <3>4 DEF Boxed, InProgress
  <2>8. CASE LaunchFails(n) \/ LaunchRelease(n) \/ LaunchCrash(n)
    <3>1. ~Up(s)'
      <4>1. CASE LaunchFails(n)
        <5>1. ap'[s] = RemovedId(ap[s], n) /\ bridge'[s] = RemovedId(bridge[s], n)
          BY <1>0, <1>3, <4>1 DEF LaunchFails
        <5>2. QED
          BY <2>2, <5>1 DEF Up, OnlyUp, RemovedId, NoContainer
      <4>2. CASE LaunchRelease(n) \/ LaunchCrash(n)
        BY <1>3, <2>2, <4>2 DEF LaunchRelease, LaunchCrash, LaunchAt, LaunchStarts, docker, Up
      <4>3. QED
        BY <2>8, <4>1, <4>2
    <3>2. ASSUME rows'[s].status = "launching"
          PROVE  GoroutineOn(s)'
      <4>1. CASE LaunchFails(n) \/ LaunchRelease(n)
        <5>1. launch'[n].s = s
          BY <1>0, <1>3, <4>1 DEF LaunchFails, LaunchRelease, LaunchGoto, Goroutine
        <5>2. QED
          BY <5>1 DEF GoroutineOn
      <4>2. CASE LaunchCrash(n)
        BY <1>0, <1>3, <2>2, <3>2, <4>2 DEF LaunchCrash, UpdateStatus, Update, Present, Row
      <4>3. QED
        BY <2>8, <4>1, <4>2
    <3>3. QED
      BY <2>3, <3>1, <3>2, BoxedIdle
  <2>9. QED
    BY <2>6, <2>7, <2>8 DEF LaunchStep
<1>4. QED
  BY <1>2, <1>3

(* The goroutine of a launch is at work as long as the row says launching,  *)
(* so the sweeper has no late launch to deal with.                          *)
LEMMA NoLateLaunch ==
    ASSUME BoxInv
    PROVE  ~KillLate /\ ~ReleaseLate /\ ~CrashLate
<1>0. /\ LiveInv /\ sw \in Sweeper /\ SweeperAtWork /\ \A i \in sw.todo : i.s \in Session
  BY DEF BoxInv, OwnerInv, CurrentInv, LiveInv, SessionsInv, TypeOK, AtWork, Sweeper, Item
<1>1. ASSUME NEW s \in Session, SweeperOn(s), SweepsLaunches
      PROVE  FALSE
  <2>1. rows[s].status = "launching" /\ Swept(s)
    BY <1>1 DEF BoxInv, OwnerInv, CurrentInv, Current, Swept, SweepsLaunches
  <2>2. GoroutineOn(s) /\ ~GoroutineOn(s)
    BY <1>0, <2>1 DEF BoxInv, Boxed, LiveInv, OneActor
  <2>3. QED
    BY <2>2
<1>2. ~KillLate
  BY <1>0, <1>1 DEF KillLate, SweepAt, SweeperOn, SweepsLaunches
<1>3. ~ReleaseLate /\ ~CrashLate
  BY <1>0, <1>1 DEF ReleaseLate, CrashLate, SweepAt, SweeperOn, SweepsLaunches, SweeperAtWork, Item
<1>4. QED
  BY <1>2, <1>3

(* A sweep costs no session but the one it is at its port or its containers.*)
LEMMA SweepSpares ==
    ASSUME BoxInv, SweeperStep, NEW s \in Session
    PROVE  /\ rows'[s].cid = rows[s].cid
           /\ s # sw.cur.s => /\ ap'[s] = ap[s] /\ bridge'[s] = bridge[s]
                              /\ \A p \in Port : used[p] = s => used'[p] = s
<1>0. /\ LiveInv /\ SessionsInv /\ PoolInv /\ sw \in Sweeper /\ SweeperAtWork
      /\ rows \in [Session -> Row] /\ used \in [Port -> Session \cup {NoSession}]
      /\ ap \in [Session -> Container] /\ bridge \in [Session -> Container] /\ now + TTL \in Time
      /\ \A i \in sw.todo : i.s \in Session
  BY Deadlines
     DEF BoxInv, OwnerInv, CurrentInv, LiveInv, SessionsInv, TypeOK, PoolTypeOK, AtWork,
         Sweeper, Item
<1>1. ~KillLate /\ ~ReleaseLate /\ ~CrashLate
  BY NoLateLaunch
<1>2. rows'[s].cid = rows[s].cid
  <2>1. CASE UNCHANGED rows
    BY <2>1
  <2>2. CASE RecordHold \/ MarkDead
    <3>1. sw.cur.s \in Session
      BY <1>0, <2>2 DEF RecordHold, MarkDead, SweepAt, SweeperAtWork, Item
    <3>2. CASE RecordHold
      BY <1>0, <3>1, <3>2, StatementsKeepId DEF RecordHold
    <3>3. CASE MarkDead
      BY <1>0, <3>1, <3>3, StatementsKeepId DEF MarkDead
    <3>4. QED
      BY <2>2, <3>2, <3>3
  <2>3. CASE ClearExpired
    <3>1. PICK i \in sw.todo : SetReservation(i.s, Never)
      BY <2>3 DEF ClearExpired, ClearReservation
    <3>2. i.s \in Session
      BY <1>0, <3>1
    <3>3. QED
      BY <1>0, <3>1, <3>2, StatementsKeepId
  <2>4. QED
    BY <1>1, <2>1, <2>2, <2>3
       DEF SweeperStep, ListTransit, ListRunning, InspectSkip, InspectDead, KillDead, KeepPort,
           ExpireHolds
<1>3. ASSUME s # sw.cur.s
      PROVE  ap'[s] = ap[s] /\ bridge'[s] = bridge[s]
  <2>1. CASE KillDead
    BY <1>0, <1>3, <2>1 DEF KillDead
  <2>2. CASE UNCHANGED docker
    BY <2>2 DEF docker
  <2>3. QED
    BY <1>1, <2>1, <2>2
       DEF SweeperStep, ListTransit, ListRunning, InspectSkip, InspectDead, KeepPort,
           RecordHold, MarkDead, ExpireHolds, ClearExpired
<1>4. ASSUME s # sw.cur.s, NEW p \in Port, used[p] = s
      PROVE  used'[p] = s
  <2>1. CASE KeepPort
    <3>1. sw.cur.s \in Session /\ sw.cur.port \in MaybePort
      BY <1>0, <2>1 DEF KeepPort, SweepAt, SweeperAtWork, Item
    <3>2. used'[p] # used[p] => used[p] = sw.cur.s
      BY <1>0, <1>4, <2>1, <3>1, CallForOwner, SessionAssumption DEF KeepPort, InUse
    <3>3. QED
      BY <1>4, <3>2
  <2>2. CASE UNCHANGED used
    BY <1>4, <2>2
  <2>3. QED
    BY <1>1, <2>1, <2>2
       DEF SweeperStep, ListTransit, ListRunning, InspectSkip, InspectDead, KillDead,
           RecordHold, MarkDead, ExpireHolds, Expire, ClearExpired
<1>5. QED
  BY <1>2, <1>3, <1>4

(* What the sweeper lists, and what it takes from its list, carries the id  *)
(* of the row.                                                              *)
LEMMA SweepLists ==
    ASSUME BoxInv, SweeperStep, NEW s \in Session, sw'.pc # "clear"
    PROVE  /\ \A i \in sw'.todo : i.s = s => i.cid = rows[s].cid
           /\ sw'.cur.s = s => sw'.cur.cid = rows[s].cid
           /\ sw'.cur.s = s /\ sw'.pc \in {"hold", "record", "mark"} => sw.cur.s = s
<1>0. /\ LiveInv /\ sw \in Sweeper /\ SweeperStops(s) /\ NoItem.s # s
  BY SessionAssumption
     DEF BoxInv, OwnerInv, CurrentInv, LiveInv, SessionsInv, TypeOK, Boxed, NoItem
<1>1. ~KillLate /\ ~ReleaseLate /\ ~CrashLate
  BY NoLateLaunch
<1>2. CASE ListTransit \/ ListRunning
  <2>1. PICK S \in SUBSET Session, pc \in {"transit", "running"} :
          sw' = [Asleep EXCEPT !.pc = pc, !.todo = {ItemOf(u) : u \in S}]
    BY <1>2 DEF ListTransit, ListRunning, Launching
  <2>2. sw'.cur = NoItem /\ sw'.todo = {ItemOf(u) : u \in S}
    BY <2>1 DEF Asleep
  <2>3. \A u \in S : ItemOf(u).s = u /\ ItemOf(u).cid = rows[u].cid
    BY DEF ItemOf
  <2>4. QED
    BY <1>0, <2>2, <2>3
<1>3. CASE InspectSkip
  <2>1. PICK i \in sw.todo : sw' = [sw EXCEPT !.todo = @ \ {i}]
    BY <1>3 DEF InspectSkip
  <2>2. sw'.cur = sw.cur /\ sw'.todo \subseteq sw.todo /\ sw.pc = "running" /\ sw'.pc = sw.pc
    BY <1>0, <1>3, <2>1 DEF Sweeper, InspectSkip, SweepAt
  <2>3. QED
    BY <1>0, <2>2 DEF SweeperStops
<1>4. CASE InspectDead
  <2>1. /\ sw'.cur \in sw.todo /\ sw'.todo \subseteq sw.todo /\ sw'.pc = "killDead"
        /\ sw.pc = "running"
    BY <1>0, <1>4 DEF InspectDead, Sweeper, SweepAt
  <2>2. QED
    BY <1>0, <2>1 DEF SweeperStops
<1>5. CASE KillDead \/ KeepPort \/ RecordHold
  <2>1. sw'.cur = sw.cur /\ sw'.todo = sw.todo /\ sw.pc # "clear"
    BY <1>0, <1>5 DEF KillDead, KeepPort, RecordHold, SweepGoto, Sweeper, SweepAt
  <2>2. QED
    BY <1>0, <2>1 DEF SweeperStops
<1>6. CASE MarkDead
  <2>1. sw'.cur = NoItem /\ sw'.todo = sw.todo /\ sw.pc # "clear"
    BY <1>6 DEF MarkDead, ItemDone, Asleep, SweepAt
  <2>2. QED
    BY <1>0, <2>1 DEF SweeperStops
<1>7. CASE ExpireHolds \/ ClearExpired
  <2>1. sw'.pc = "clear"
    <3>1. CASE ExpireHolds
      BY <3>1 DEF ExpireHolds, Asleep
    <3>2. CASE ClearExpired
      BY <1>0, <3>2 DEF ClearExpired, SweepAt, Sweeper
    <3>3. QED
      BY <1>7, <3>1, <3>2
  <2>2. QED
    BY <2>1
<1>8. QED
  BY <1>1, <1>2, <1>3, <1>4, <1>5, <1>6, <1>7 DEF SweeperStep

LEMMA SweepsBoxed ==
    ASSUME BoxInv, SweeperStep, NEW s \in Session
    PROVE  Boxed(s)'
<1>0. /\ LiveInv /\ OnceListed /\ Boxed(s) /\ Current(s)
      /\ rows \in [Session -> Row] /\ rows[s] \in Row /\ sw \in Sweeper /\ SweeperAtWork
      /\ ap \in [Session -> Container] /\ bridge \in [Session -> Container]
  BY DEF BoxInv, OwnerInv, CurrentInv, LiveInv, SessionsInv, TypeOK, AtWork
<1>1. /\ UNCHANGED <<task, launch>> /\ rows'[s].cid = rows[s].cid
      /\ ~KillLate /\ ~ReleaseLate /\ ~CrashLate
  BY <1>0, SweepElsewhere, SweepSpares, NoLateLaunch
     DEF SweeperStep, ListTransit, ListRunning, InspectSkip, InspectDead, KillDead, KeepPort,
         RecordHold, MarkDead, ExpireHolds, ClearExpired
<1>2. CASE s # sw.cur.s
  <2>1. /\ ap'[s] = ap[s] /\ bridge'[s] = bridge[s] /\ rows'[s].status = rows[s].status
        /\ \A p \in Port : used[p] = s => used'[p] = s
    BY <1>0, <1>2, SweepElsewhere, SweepSpares
  <2>2. \A h \in Handler : task'[h].s = s => HandlerStops(h)'
    BY <1>0, <1>1, <2>1 DEF Boxed, HandlerStops, Up
  <2>3. SweeperStops(s)'
    BY <1>1, <1>2, SweepLists DEF SweeperStops
  <2>4. QED
    BY <1>0, <1>1, <2>1, <2>2, <2>3, BoxedKept
<1>3. CASE s = sw.cur.s
  <2>1. /\ sw.pc \in {"killDead", "hold", "record", "mark"} /\ Swept(s)
        /\ rows[s].status = "running"
        /\ KillDead \/ KeepPort \/ RecordHold \/ MarkDead
    <3>1. sw.pc \notin {"clear", "transit", "running"} /\ Swept(s)
      BY <1>0, <1>3, SessionAssumption DEF LiveInv, AtRest, NoItem, Swept, SweeperOn
    <3>2. KillDead \/ KeepPort \/ RecordHold \/ MarkDead
      BY <1>1, <3>1 DEF SweeperStep, ListTransit, ListRunning, InspectSkip, InspectDead,
                        ExpireHolds, ClearExpired, SweepAt
    <3>3. sw.pc \in {"killDead", "hold", "record", "mark"}
      BY <3>2 DEF KillDead, KeepPort, RecordHold, MarkDead, SweepAt
    <3>4. QED
      BY <1>0, <1>3, <3>1, <3>2, <3>3 DEF Current, SweeperOn, SweepsRunning
  <2>2. (\A h \in Handler : task'[h].s # s) /\ (\A n \in LaunchId : launch'[n].s # s)
    BY <1>0, <1>1, <2>1, SweptAlone
  <2>3. ~Up(s)'
    <3>1. CASE KillDead
      <4>1. OnlyUp(s, sw.cur.cid)
        BY <1>0, <1>3, <2>1 DEF Boxed, SweeperStops
      <4>2. /\ ap'[s] \in {NoContainer, StoppedId(ap[s], sw.cur.cid)}
            /\ bridge'[s] \in {RemovedId(bridge[s], sw.cur.cid), StoppedId(bridge[s], sw.cur.cid)}
        BY <1>0, <1>3, <3>1 DEF KillDead
      <4>3. ap[s] \in Container /\ bridge[s] \in Container
        BY <1>0
      <4>4. StoppedId(ap[s], sw.cur.cid).st # "up" /\ StoppedId(bridge[s], sw.cur.cid).st # "up"
        BY <4>1, <4>3 DEF OnlyUp, StoppedId, Stopped, Container
      <4>5. NoContainer.st # "up" /\ RemovedId(bridge[s], sw.cur.cid).st # "up"
        BY <4>1 DEF OnlyUp, RemovedId, NoContainer
      <4>6. QED
        BY <4>2, <4>4, <4>5 DEF Up
    <3>2. CASE KeepPort \/ RecordHold \/ MarkDead
      BY <1>0, <1>3, <3>2
         DEF KeepPort, RecordHold, MarkDead, SweepAt, Boxed, SweeperStops, Up, docker
    <3>3. QED
      BY <2>1, <3>1, <3>2
  <2>4. rows'[s].status # "launching"
    <3>1. CASE MarkDead
      <4>1. UpdateStatus(s, sw.end) /\ sw.end \in {"stopped", "crashed"}
        BY <1>0, <1>3, <2>1, <3>1 DEF MarkDead, SweeperAtWork
      <4>2. QED
        BY <1>0, <2>1, <4>1, StatusDoes
    <3>2. CASE ~MarkDead
      BY <1>0, <1>1, <2>1, <3>2, SweepElsewhere
    <3>3. QED
      BY <3>1, <3>2
  <2>5. ASSUME sw'.pc # "clear"
        PROVE  /\ \A i \in sw'.todo : i.s # s
               /\ sw'.cur.s = s => sw'.cur.cid = rows'[s].cid
    <3>1. sw'.todo = sw.todo
      <4>1. CASE KillDead \/ KeepPort \/ RecordHold
        BY <1>0, <4>1 DEF KillDead, KeepPort, RecordHold, SweepGoto, Sweeper
      <4>2. CASE MarkDead
        BY <4>2 DEF MarkDead, ItemDone, Asleep
      <4>3. QED
        BY <2>1, <4>1, <4>2
    <3>2. QED
      BY <1>0, <1>1, <1>3, <2>5, <3>1, SweepLists DEF OnceListed
  <2>6. QED
    BY <2>2, <2>3, <2>4, <2>5, BoxedIdle
<1>4. QED
  BY <1>2, <1>3

LEMMA BootBoxed ==
    ASSUME BoxInv, Boot, NEW s \in Session
    PROVE  Boxed(s)'
<1>0. /\ Boxed(s) /\ Owner(s) /\ rows \in [Session -> Row] /\ rows[s] \in Row
      /\ ap \in [Session -> Container] /\ bridge \in [Session -> Container]
      /\ NoTask.s # s /\ Asleep.pc = "clear"
  BY SessionAssumption
     DEF BoxInv, OwnerInv, CurrentInv, LiveInv, SessionsInv, TypeOK, NoTask, Asleep
<1>1. /\ \A h \in Handler : task'[h] = NoTask
      /\ sw' = Asleep /\ rows[s].status \notin InProgress
  <2>1. phase # "serve" /\ UNCHANGED procs
    BY DEF Boot, BootStop, BootCrash, BootRecoverUsed, BootRecoverHeld
  <2>2. QED
    BY <1>0, <2>1 DEF BoxInv, OwnerInv, CurrentInv, LiveInv, AtRest, Owner, procs
<1>2. ~Up(s)
  BY <1>0, <1>1 DEF Boxed
<1>3. ~Up(s)'
  <2>1. CASE BootStop
    <3>1. ap'[s] = ap[s] /\ bridge'[s] = bridge[s]
      BY <1>0, <1>1, <2>1 DEF BootStop, Launching, InProgress
    <3>2. QED
      BY <1>2, <3>1 DEF Up
  <2>2. CASE UNCHANGED docker
    BY <1>2, <2>2 DEF docker, Up
  <2>3. QED
    BY <2>1, <2>2 DEF Boot, BootCrash, BootRecoverUsed, BootRecoverHeld
<1>4. rows'[s].status # "launching"
  BY <1>0, <1>1
     DEF Boot, BootStop, BootCrash, BootRecoverUsed, BootRecoverHeld, Row, InProgress
<1>5. QED
  BY <1>0, <1>1, <1>3, <1>4, BoxedIdle

(* A server that ends leaves less bound, under the same id.                 *)
LEMMA ExitBoxed ==
    ASSUME BoxInv, NEW u \in Session, APExits(u), NEW s \in Session
    PROVE  Boxed(s)'
<1>0. /\ Boxed(s) /\ ap \in [Session -> Container]
  BY DEF BoxInv, OwnerInv, CurrentInv, LiveInv, SessionsInv, TypeOK
<1>1. /\ UNCHANGED <<used, rows, bridge, task, launch, sw>>
      /\ ap'[s] = ap[s] \/ ap'[s].st = "down"
  BY <1>0 DEF APExits, poolVars, procs, Container
<1>2. (Up(s)' => Up(s)) /\ \A n : OnlyUp(s, n) => OnlyUp(s, n)'
  BY <1>1 DEF Up, OnlyUp
<1>3. BoundInUse(s)'
  BY <1>0, <1>1 DEF Boxed, BoundInUse, Bound, Binds
<1>4. GoroutineOn(s)' <=> GoroutineOn(s)
  BY <1>1 DEF GoroutineOn
<1>5. OnlyUp(s, rows[s].cid) => OnlyUp(s, rows[s].cid)'
  BY <1>1 DEF OnlyUp
<1>6. \A h \in Handler : task'[h].s = s => HandlerStops(h)'
  BY <1>0, <1>1, <1>2 DEF Boxed, HandlerStops, Up
<1>7. \A n \in LaunchId : launch'[n].s = s => LaunchStarts(n)'
  BY <1>0, <1>1, <1>2 DEF Boxed, LaunchStarts, Up, OnlyUp
<1>8. SweeperStops(s)'
  BY <1>0, <1>1, <1>2 DEF Boxed, SweeperStops, Up
<1>9. QED
  BY <1>0, <1>1, <1>2, <1>3, <1>4, <1>5, <1>6, <1>7, <1>8 DEF Boxed, Up

LEMMA BoxInvStep ==
    Overlap = {} /\ Crashes = FALSE /\ BoxInv /\ [Next]_vars => BoxInv'
<1> SUFFICES ASSUME Overlap = {}, Crashes = FALSE, BoxInv, [Next]_vars, NEW s \in Session
             PROVE  Boxed(s)'
  BY OwnerInvStep DEF BoxInv
<1>1. CASE Tick \/ UNCHANGED vars
  <2>1. UNCHANGED <<used, rows, ap, bridge, task, launch, sw>> /\ Boxed(s)
    BY <1>1 DEF Tick, vars, poolVars, procs, docker, BoxInv
  <2>2. /\ \A h \in Handler : task'[h].s = s => HandlerStops(h)'
        /\ SweeperStops(s)'
    BY <2>1 DEF Boxed, HandlerStops, SweeperStops, Up
  <2>3. QED
    BY <2>1, <2>2, BoxedKept
<1>2. QED
  BY <1>1, RequestsBoxed, LaunchesBoxed, SweepsBoxed, BootBoxed, ExitBoxed DEF Next, Crash

LEMMA BoxInvInit == Init => BoxInv
<1> SUFFICES ASSUME Init, NEW s \in Session
             PROVE  Boxed(s)
  BY OwnerInvInit DEF BoxInv
<1>1. /\ \A h \in Handler : task[h].s # s
      /\ \A n \in LaunchId : launch[n].s # s
      /\ rows[s].status \in {"generated", "absent"}
      /\ ~Up(s) /\ sw.pc = "clear"
  BY SessionAssumption DEF Init, NoTask, NoGoroutine, NoRow, NoContainer, Up, Asleep
<1>2. BoundInUse(s) /\ SweeperStops(s)
  BY <1>1 DEF BoundInUse, Bound, Binds, Up, SweeperStops
<1>3. QED
  BY <1>1, <1>2 DEF Boxed

(* A port is not handed out while a container of another session binds it,  *)
(* as long as no two actors work on one session at the same time and the    *)
(* process does not crash: on every path the containers are stopped before  *)
(* the port is given up (crashRunningSession, sweeper.go:161-167).          *)
THEOREM SessionsUsedPortUnbound ==
    Overlap = {} /\ Crashes = FALSE => (Spec => []UsedPortUnbound)
<1> SUFFICES ASSUME Overlap = {}, Crashes = FALSE
             PROVE  Spec => []UsedPortUnbound
  OBVIOUS
<1>1. BoxInv => UsedPortUnbound
  BY DEF BoxInv, Boxed, BoundInUse, UsedPortUnbound, BoundByOther
<1>2. BoxInv /\ [Next]_vars => BoxInv'
  BY BoxInvStep
<1>3. QED
  BY <1>1, <1>2, BoxInvInit, PTL DEF Spec
=============================================================================
