----------------------------- MODULE Generation -----------------------------
(***************************************************************************)
(* The generation of a multiworld: Generate and runGeneration of           *)
(* internal/service/session.go, the one-shot container archilan-gen-<id>   *)
(* of internal/docker/client.go, the sweeper that watches it, and the boot *)
(* recovery that crashes what a restart interrupted.                       *)
(*                                                                         *)
(* A goroutine writes the row of its session four times without looking at *)
(* it, so its writes meet those of the sweeper, of a second generation of  *)
(* the same session, and of a deletion.  env, chosen once, says which of   *)
(* these meetings this execution has; the code excludes none of them:      *)
(*   "twice"  a generation starts while another of the session is at work  *)
(*   "delete" a session is deleted while work on it goes on, or the         *)
(*            process dies between the two steps of a deletion             *)
(*   "late"   the sweeper finds a deadline passed at any moment            *)
(*   "blind"  an inspection by the sweeper may fail                        *)
(*   "play"   a session is launched, stopped or relaunched while a         *)
(*            generation of it is at work                                  *)
(*   "refused" Docker may refuse to remove a container, or not be reached: *)
(*            no caller looks at the answer                                *)
(* The provided files a generation takes are in TestRuns.                  *)
(***************************************************************************)
EXTENDS FiniteSets

CONSTANTS
    Session,
    Request,   \* requests under way at once
    Gen,       \* generations that may be remembered somewhere at once
    Envs,      \* the values of env an execution may have
    Crashes,   \* the process may crash
    NoSession, NoGen

Meetings == {"twice", "delete", "late", "blind", "play", "refused"}

ASSUME GenerationAssumption ==
    /\ NoSession \notin Session /\ NoGen \notin Gen
    /\ Envs \subseteq SUBSET Meetings
    /\ Crashes \in BOOLEAN

VARIABLES
    rows,      \* rows[s]: status, generation_job_id, output_file
    box,       \* box[s]: the container archilan-gen-<s>
    vol,       \* vol[s]: the generations whose output is in the volume of s
    art,       \* art[s]: the outputs in the archive stored for s
    gen,       \* gen[g]: the goroutine of generation g
    req,       \* req[q]: the request q is
    sw,        \* the sweeper: the rows it listed, the one in hand
    phase,     \* the process recovers, or serves
    env,
    restarted,  \* history: the process has crashed
    misread,    \* history: the generations whose wait was answered by an error
    relaunched  \* history: the sessions that say generated since a relaunch

disk == <<rows, box, vol, art>>
known == <<misread, relaunched>>
vars == <<disk, gen, req, sw, phase, env, restarted, known>>

Status == {"absent", "pending", "generating", "generated", "running", "stopped", "crashed"}
NoRow == [status |-> "absent", job |-> NoGen, file |-> NoGen]
NoBox == [g |-> NoGen, st |-> "none"]
NoGoroutine == [s |-> NoSession, pc |-> "none", won |-> FALSE, copy |-> {}]
NoRequest == [op |-> "none", s |-> NoSession, new |-> FALSE]
NoItem == [s |-> NoSession, job |-> NoGen]
Asleep == [todo |-> {}, cur |-> NoItem]

MaybeGen == Gen \cup {NoGen}
MaybeSession == Session \cup {NoSession}
Item == [s : Session, job : MaybeGen]

TypeOK ==
    /\ rows \in [Session -> [status : Status, job : MaybeGen, file : MaybeGen]]
    /\ box \in [Session -> [g : MaybeGen, st : {"none", "created", "running", "done", "failed"}]]
    /\ vol \in [Session -> SUBSET Gen] /\ art \in [Session -> SUBSET Gen]
    /\ gen \in [Gen -> [s : MaybeSession, won : BOOLEAN, copy : SUBSET Gen,
                        pc : {"none", "mark", "create", "start", "wait", "job",
                              "generated", "copy", "upload", "crash"}]]
    /\ req \in [Request -> [op : {"none", "generate", "delete", "drop"},
                            s : MaybeSession, new : BOOLEAN]]
    /\ sw \in [todo : SUBSET Item, cur : Item \cup {NoItem}]
    /\ phase \in {"boot", "crash", "serve"}
    /\ env \in SUBSET Meetings /\ restarted \in BOOLEAN
    /\ misread \in SUBSET Gen /\ relaunched \in SUBSET Session

Init ==
    /\ rows = [s \in Session |-> NoRow]
    /\ box = [s \in Session |-> NoBox]
    /\ vol = [s \in Session |-> {}] /\ art = [s \in Session |-> {}]
    /\ gen = [g \in Gen |-> NoGoroutine]
    /\ req = [q \in Request |-> NoRequest]
    /\ sw = Asleep
    /\ phase = "serve"
    /\ env \in Envs
    /\ restarted = FALSE
    /\ misread = {} /\ relaunched = {}

-----------------------------------------------------------------------------
GoroutineOn(s) == \E g \in Gen : gen[g].s = s
DeleteOn(s) == \E q \in Request : req[q].s = s /\ req[q].op \in {"delete", "drop"}
RequestOn(s) == \E q \in Request : req[q].s = s
SweeperOn(s) == sw.cur.s = s \/ \E i \in sw.todo : i.s = s
Busy(s) == GoroutineOn(s) \/ RequestOn(s) \/ SweeperOn(s)

(* A generation no row, container, volume, archive or sweep remembers.      *)
Unused(g) ==
    /\ gen[g] = NoGoroutine
    /\ \A s \in Session : /\ g \notin vol[s] \cup art[s]
                          /\ g \notin {box[s].g, rows[s].job, rows[s].file}
    /\ \A h \in Gen : g \notin gen[h].copy
    /\ \A i \in sw.todo \cup {sw.cur} : i.job # g

(* The database: an UPDATE of a row that is gone changes nothing.           *)
Present(s) == rows[s].status # "absent"
Update(s, row) == rows' = IF Present(s) THEN [rows EXCEPT ![s] = row] ELSE rows
UpdatePending(s) ==
    Update(s, [status |-> "pending", job |-> rows[s].job, file |-> rows[s].file])
UpdateGenerating(s, job) ==
    Update(s, [status |-> "generating", job |-> job, file |-> rows[s].file])
UpdateGenerated(s, file) ==
    Update(s, [status |-> "generated", job |-> NoGen, file |-> file])
UpdateCrashed(s) ==
    Update(s, [status |-> "crashed", job |-> rows[s].job, file |-> rows[s].file])

Serving == phase = "serve" /\ UNCHANGED <<phase, env, restarted>>

-----------------------------------------------------------------------------
(* Generate: the status is read and checked; the inputs are downloaded; the *)
(* row becomes pending and the goroutine starts.  "pending" is not refused. *)
InProgress == {"generating", "running"}

BeginGenerate(q, s) ==
    /\ Serving
    /\ req[q] = NoRequest
    /\ Busy(s) => "twice" \in env /\ (DeleteOn(s) => "delete" \in env)
    /\ rows[s].status \notin InProgress
    /\ req' = [req EXCEPT ![q] = [op |-> "generate", s |-> s, new |-> ~Present(s)]]
    /\ UNCHANGED <<disk, gen, sw, known>>

Enqueue(q) ==
    LET s == req[q].s IN
    /\ Serving
    /\ req[q].op = "generate"
    /\ \/ /\ req[q].new /\ ~Present(s)
          /\ rows' = [rows EXCEPT ![s] = [status |-> "pending", job |-> NoGen, file |-> NoGen]]
       \/ ~req[q].new /\ UpdatePending(s)
    /\ \E g \in Gen :
         /\ Unused(g)
         /\ gen' = [gen EXCEPT ![g] = [s |-> s, pc |-> "mark", won |-> FALSE, copy |-> {}]]
         /\ misread' = misread \ {g}
    /\ relaunched' = relaunched \ {s}
    /\ req' = [req EXCEPT ![q] = NoRequest]
    /\ UNCHANGED <<box, vol, art, sw>>

(* The inputs cannot be read, or the row was inserted meanwhile.            *)
Refuse(q) ==
    /\ Serving
    /\ req[q].op = "generate"
    /\ req' = [req EXCEPT ![q] = NoRequest]
    /\ UNCHANGED <<disk, gen, sw, known>>

(* DeleteSession: the volume, which Docker keeps while a container mounts   *)
(* it, then the row.  The container of a generation is not removed.         *)
BeginDelete(q, s) ==
    /\ Serving
    /\ req[q] = NoRequest
    /\ Busy(s) => "delete" \in env
    /\ Present(s)
    /\ req' = [req EXCEPT ![q] = [op |-> "delete", s |-> s, new |-> FALSE]]
    /\ UNCHANGED <<disk, gen, sw, known>>

RemoveVolume(q) ==
    LET s == req[q].s IN
    /\ Serving
    /\ req[q].op = "delete"
    /\ vol' = IF box[s] = NoBox THEN [vol EXCEPT ![s] = {}] ELSE vol
    /\ req' = [req EXCEPT ![q] = [op |-> "drop", s |-> s, new |-> FALSE]]
    /\ UNCHANGED <<rows, box, art, gen, sw, known>>

DeleteRow(q) ==
    /\ Serving
    /\ req[q].op = "drop"
    /\ rows' = [rows EXCEPT ![req[q].s] = NoRow]
    /\ req' = [req EXCEPT ![q] = NoRequest]
    /\ UNCHANGED <<box, vol, art, gen, sw, known>>

(* The rest of a session's life, which Sessions has: it is launched, stops, *)
(* and RestartSession or RelaunchFromSave make a row with an output say     *)
(* generated once more, then launch it.                                     *)
Playable(s) == Busy(s) => "play" \in env /\ (DeleteOn(s) => "delete" \in env)

Play(s) ==
    /\ Serving
    /\ Playable(s)
    /\ \/ rows[s].status = "generated" /\ rows' = [rows EXCEPT ![s].status = "running"]
       \/ rows[s].status = "running" /\ rows' = [rows EXCEPT ![s].status = "stopped"]
    /\ relaunched' = relaunched \ {s}
    /\ UNCHANGED <<box, vol, art, gen, req, sw, misread>>

Relaunch(s) ==
    /\ Serving
    /\ Playable(s)
    /\ rows[s].status \in {"pending", "stopped", "crashed"} /\ rows[s].file # NoGen
    /\ rows' = [rows EXCEPT ![s].status = "generated"]
    /\ relaunched' = relaunched \cup {s}
    /\ UNCHANGED <<box, vol, art, gen, req, sw, misread>>

-----------------------------------------------------------------------------
(* runGeneration and GenerateMultiworld.                                    *)
At(g, pc) == Serving /\ gen[g].pc = pc
Goto(g, pc, won) ==
    gen' = [gen EXCEPT ![g] = [s |-> gen[g].s, pc |-> pc, won |-> won, copy |-> {}]]
GoCrash(g) == Goto(g, "crash", FALSE)
Done(g) == gen' = [gen EXCEPT ![g] = NoGoroutine]

MarkGenerating(g) ==
    /\ At(g, "mark")
    /\ UpdateGenerating(gen[g].s, NoGen)
    /\ Goto(g, "create", FALSE)
    /\ UNCHANGED <<box, vol, art, req, sw, known>>

(* The name is taken while an older container of the session exists; and    *)
(* Docker may refuse.  No job id is known then.                             *)
CreateBox(g) ==
    LET s == gen[g].s IN
    /\ At(g, "create")
    /\ \/ /\ box[s] = NoBox
          /\ box' = [box EXCEPT ![s] = [g |-> g, st |-> "created"]]
          /\ Goto(g, "start", FALSE)
       \/ UNCHANGED box /\ GoCrash(g)
    /\ UNCHANGED <<rows, vol, art, req, sw, known>>

RemoveBox(g) ==
    LET s == gen[g].s IN
    \/ box' = IF box[s].g = g THEN [box EXCEPT ![s] = NoBox] ELSE box
    \/ "refused" \in env /\ UNCHANGED box

(* The inputs are copied into the container and it starts, or one of the    *)
(* calls fails and the deferred removal runs.                               *)
StartBox(g) ==
    LET s == gen[g].s IN
    /\ At(g, "start")
    /\ \/ /\ box[s] = [g |-> g, st |-> "created"]
          /\ box' = [box EXCEPT ![s] = [g |-> g, st |-> "running"]]
          /\ Goto(g, "wait", FALSE)
       \/ RemoveBox(g) /\ Goto(g, "job", FALSE)
    /\ UNCHANGED <<rows, vol, art, req, sw, known>>

(* The generator ends on its own, whoever waits for it.                     *)
BoxEnds(s) ==
    /\ box[s].st = "running"
    /\ SweeperOn(s) => "late" \in env
    /\ \/ /\ box' = [box EXCEPT ![s] = [g |-> box[s].g, st |-> "done"]]
          /\ vol' = [vol EXCEPT ![s] = vol[s] \cup {box[s].g}]
       \/ /\ box' = [box EXCEPT ![s] = [g |-> box[s].g, st |-> "failed"]]
          /\ UNCHANGED vol
    /\ UNCHANGED <<rows, art, gen, req, sw, phase, env, restarted, known>>

(* An answer that is an error has no exit code, which decodes to 0; what the *)
(* container has written so far is then taken for the name of the output.    *)
WaitAnsweredByError(g) ==
    Goto(g, "job", TRUE) /\ misread' = misread \cup {g}

(* Mutant: the exit code is not looked at. *)
WaitAnyExit(g) ==
    LET s == gen[g].s IN
    /\ At(g, "wait")
    /\ \/ /\ box[s].g = g /\ box[s].st \in {"done", "failed"}
          /\ Goto(g, "job", TRUE) /\ UNCHANGED misread
       \/ WaitAnsweredByError(g)
       \/ Goto(g, "job", FALSE) /\ UNCHANGED misread
    /\ RemoveBox(g)
    /\ UNCHANGED <<rows, vol, art, req, sw, relaunched>>

(* The wait returns the exit code, or fails; the log names the output, is    *)
(* empty, or cannot be read.  The container is removed on every path.        *)
WaitBox(g) ==
    LET s == gen[g].s IN
    /\ At(g, "wait")
    /\ \/ /\ box[s] = [g |-> g, st |-> "done"]
          /\ Goto(g, "job", TRUE) /\ UNCHANGED misread
       \/ WaitAnsweredByError(g)
       \/ Goto(g, "job", FALSE) /\ UNCHANGED misread
    /\ RemoveBox(g)
    /\ UNCHANGED <<rows, vol, art, req, sw, relaunched>>

(* The second UpdateSessionGenerating: the row is generating once more.     *)
StoreJob(g) ==
    /\ At(g, "job")
    /\ UpdateGenerating(gen[g].s, g)
    /\ IF gen[g].won THEN Goto(g, "generated", TRUE) ELSE GoCrash(g)
    /\ UNCHANGED <<box, vol, art, req, sw, known>>

MarkGenerated(g) ==
    /\ At(g, "generated")
    /\ UpdateGenerated(gen[g].s, g)
    /\ relaunched' = relaunched \ {gen[g].s}
    /\ Goto(g, "copy", TRUE)
    /\ UNCHANGED <<box, vol, art, req, sw, misread>>

(* CopyOutputDirFromVolume and buildOutputArtifact take the whole directory. *)
CopyOutput(g) ==
    /\ At(g, "copy")
    /\ \/ gen' = [gen EXCEPT ![g] = [s |-> gen[g].s, pc |-> "upload", won |-> TRUE,
                                     copy |-> vol[gen[g].s]]]
       \/ GoCrash(g)
    /\ UNCHANGED <<disk, req, sw, known>>

(* Mutant: a failed upload is only logged. *)
UploadLogged(g) ==
    /\ At(g, "upload")
    /\ \/ art' = [art EXCEPT ![gen[g].s] = gen[g].copy]
       \/ UNCHANGED art
    /\ Done(g)
    /\ UNCHANGED <<rows, box, vol, req, sw, known>>
UploadOutput(g) ==
    /\ At(g, "upload")
    /\ \/ art' = [art EXCEPT ![gen[g].s] = gen[g].copy] /\ Done(g)
       \/ UNCHANGED art /\ GoCrash(g)
    /\ UNCHANGED <<rows, box, vol, req, sw, known>>

MarkCrashed(g) ==
    /\ At(g, "crash")
    /\ UpdateCrashed(gen[g].s)
    /\ Done(g)
    /\ UNCHANGED <<box, vol, art, req, sw, known>>

-----------------------------------------------------------------------------
(* sweepTransit, for generations.  The rows are listed, then each container *)
(* is inspected: by the job id of the row if it has one, else by name.      *)
Due(s) ==
    /\ rows[s].status = "generating"
    /\ box[s].st = "running" \/ ~GoroutineOn(s) \/ "late" \in env

ListExpired(due) ==
    /\ Serving
    /\ sw = Asleep
    /\ due # {} /\ \A s \in due : Due(s)
    /\ sw' = [todo |-> {[s |-> s, job |-> rows[s].job] : s \in due}, cur |-> NoItem]
    /\ UNCHANGED <<disk, gen, req, known>>

(* Mutant: only by the job id, which is stored when the container is gone. *)
SeesJob(i) == box[i.s].st = "running" /\ i.job = box[i.s].g
(* Mutant: a container that exists counts as one that runs. *)
SeesAny(i) == box[i.s] # NoBox /\ i.job \in {NoGen, box[i.s].g}
SeesRunning(i) == box[i.s].st = "running" /\ i.job \in {NoGen, box[i.s].g}

(* A container that runs gets its deadline extended, and nothing else.      *)
Inspect(i) ==
    /\ Serving
    /\ sw.cur = NoItem /\ i \in sw.todo
    /\ \/ /\ SeesRunning(i)
          /\ sw' = [todo |-> sw.todo \ {i}, cur |-> NoItem]
       \/ /\ ~SeesRunning(i) \/ "blind" \in env
          /\ sw' = [todo |-> sw.todo \ {i}, cur |-> i]
    /\ UNCHANGED <<disk, gen, req, known>>

SweepCrash ==
    /\ Serving
    /\ sw.cur # NoItem
    /\ UpdateCrashed(sw.cur.s)
    /\ sw' = [todo |-> sw.todo, cur |-> NoItem]
    /\ UNCHANGED <<box, vol, art, gen, req, known>>

-----------------------------------------------------------------------------
(* The process dies; containers go on.  Boot removes the containers of the  *)
(* rows that are generating, by name, and then crashes these rows.          *)
Crash ==
    /\ Crashes
    /\ \A s \in Session : DeleteOn(s) => "delete" \in env
    /\ gen' = [g \in Gen |-> NoGoroutine]
    /\ req' = [q \in Request |-> NoRequest]
    /\ sw' = Asleep
    /\ phase' = "boot"
    /\ restarted' = TRUE
    /\ UNCHANGED <<disk, env, known>>

Interrupted == {s \in Session : rows[s].status = "generating"}

(* Mutant: boot only crashes the rows. *)
BootLeave ==
    /\ phase = "boot"
    /\ phase' = "crash"
    /\ UNCHANGED <<disk, gen, req, sw, env, restarted, known>>
BootRemove ==
    /\ phase = "boot"
    /\ \E left \in SUBSET Interrupted :
         /\ left # {} => "refused" \in env
         /\ box' = [s \in Session |-> IF s \in Interrupted \ left THEN NoBox ELSE box[s]]
    /\ phase' = "crash"
    /\ UNCHANGED <<rows, vol, art, gen, req, sw, env, restarted, known>>

BootCrash ==
    /\ phase = "crash"
    /\ rows' = [s \in Session |-> IF s \in Interrupted
                                  THEN [status |-> "crashed", job |-> NoGen, file |-> rows[s].file]
                                  ELSE rows[s]]
    /\ phase' = "serve"
    /\ UNCHANGED <<box, vol, art, gen, req, sw, env, restarted, known>>

-----------------------------------------------------------------------------
Ask == \E q \in Request :
    \/ Enqueue(q) \/ Refuse(q) \/ RemoveVolume(q) \/ DeleteRow(q)
    \/ \E s \in Session : BeginGenerate(q, s) \/ BeginDelete(q, s)
Run == \E g \in Gen :
    \/ MarkGenerating(g) \/ CreateBox(g) \/ StartBox(g) \/ WaitBox(g) \/ StoreJob(g)
    \/ MarkGenerated(g) \/ CopyOutput(g) \/ UploadOutput(g) \/ MarkCrashed(g)
Sweep ==
    \/ \E due \in SUBSET Session : ListExpired(due)
    \/ \E i \in sw.todo : Inspect(i)
    \/ SweepCrash
Boot == BootRemove \/ BootCrash

Next ==
    \/ Ask \/ Run \/ Sweep \/ Boot \/ Crash
    \/ \E s \in Session : Play(s) \/ Relaunch(s) \/ BoxEnds(s)

Spec == Init /\ [][Next]_vars

(* The generator ends; the ticker never stops, and a sweep works through    *)
(* its list; a process that starts recovers; a generation that stays past   *)
(* its deadline is on some list.  Nothing is assumed of a goroutine, which  *)
(* may hang in a call of Docker: its context has no deadline.               *)
FairSpec ==
    /\ Spec
    /\ WF_vars(Boot)
    /\ WF_vars(SweepCrash) /\ WF_vars(\E i \in sw.todo : Inspect(i))
    /\ \A s \in Session :
         /\ WF_vars(BoxEnds(s))
         /\ SF_vars(\E due \in SUBSET Session : s \in due /\ ListExpired(due))

-----------------------------------------------------------------------------
(* A session that says generated has, in its volume, the output its row     *)
(* names, however many generations, sweeps, relaunches and restarts met on   *)
(* it: a launch finds its game (session.go:284, 499).  A deletion takes it   *)
(* away; and it may never have been there when Docker answered the wait for  *)
(* its generator by an error (client.go:458-469).                            *)
GeneratedHasOutput ==
    \A s \in Session :
        rows[s].status = "generated" /\ "delete" \notin env /\ ~DeleteOn(s)
            => rows[s].file \in vol[s] \cup misread

(* What session.go:295-296 says: as a failed copy or upload is fatal to the  *)
(* run, a session is not advertised as generated without a retrievable       *)
(* artifact, once its goroutine is done (and the wait was not misread).      *)
(* The code breaks it: a relaunch makes the crashed row generated (797, 856), *)
(* and so does a crash of the process before the upload: see README.          *)
GeneratedIsArchived ==
    \A s \in Session :
        rows[s].status = "generated" /\ ~GoroutineOn(s) /\ env \cap {"delete", "twice"} = {}
            => rows[s].file \in art[s] \cup misread

(* What is left of it: a session that says generated since its generation    *)
(* ended, not since a relaunch, has its output in the stored archive         *)
(* (session.go:291-294), whatever failed and whoever launched or stopped it   *)
(* meanwhile, unless the process crashed in between or the wait was misread. *)
ArchivedUnlessRestarted ==
    ~restarted =>
        \A s \in Session :
            /\ rows[s].status = "generated" /\ s \notin relaunched
            /\ ~GoroutineOn(s) /\ env \cap {"delete", "twice"} = {}
            => rows[s].file \in art[s] \cup misread

(* At rest no generation container is left, whatever failed but the removal  *)
(* itself, and whenever the process crashed: it may hold a file its launcher *)
(* provided, and its name bars the next generation (service.go:437,          *)
(* client.go:959).                                                           *)
NothingLeftAtRest ==
    phase = "serve" /\ env = {}
        => \A s \in Session : ~GoroutineOn(s) => box[s] = NoBox

(* The sweeper condemns a generation only when no container of it runs      *)
(* (sweeper.go:49-63), as long as it can look and no second generation of   *)
(* the session hides behind the job id of the first.                        *)
SweeperSparesLive ==
    [][ \A s \in Session :
          sw.cur = NoItem /\ sw'.cur.s = s /\ env \cap {"blind", "twice", "delete"} = {}
              => box[s].st # "running" ]_vars

(* Once the process stays up, no session says generating for good: the      *)
(* sweeper ends what its goroutine does not (sweeper.go:44-72).              *)
EveryGenerationEnds ==
    <>[](phase = "serve") => \A s \in Session :
        rows[s].status = "generating" /\ "late" \in env ~> rows[s].status # "generating"

=============================================================================
