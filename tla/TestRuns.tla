------------------------------ MODULE TestRuns ------------------------------
(***************************************************************************)
(* The runs that read the files clients provide (internal/service:         *)
(* slot_preflight.go, apworld_preflight.go, Generate in session.go), and   *)
(* what they compete for: the files in the store and, for test             *)
(* generations, the slots of preflightSem.                                 *)
(*                                                                         *)
(* A run is a goroutine.  A "slot" run tests the YAML of one player and    *)
(* answers through a job its client polls; an "apworld" run answers with   *)
(* the verdict on an apworld, which is module Verdict; a "generation" run  *)
(* makes the multiworld of a session.                                      *)
(***************************************************************************)
EXTENDS RequiredFiles, FiniteSets

CONSTANTS
    Run,     \* the runs that can be under way at once
    Slots,   \* PREFLIGHT_MAX_CONCURRENT
    JobTTL,  \* slotPreflightTTL
    MaxClock \* bound on the clock

ASSUME TestRunsAssumption ==
    Slots \in Nat \ {0} /\ JobTTL \in Nat /\ MaxClock \in Nat /\ IsFiniteSet(Run)

VARIABLES
    run,   \* run[r]: its kind, where it is, and the files it holds
    inUse, \* the slots taken: what is in the channel preflightSem
    job,   \* job[r]: what a poller of slot run r is told
    clock  \* the clock of the files and of the jobs

vars == <<storeVars, run, inUse, job, clock>>

Idle == [kind |-> "none", pc |-> "idle", files |-> {}]
NoJob == [status |-> "none", at |-> 0]

RunState == [kind : {"none", "apworld", "slot", "generation"}, files : SUBSET FileId,
             pc : {"idle", "download", "wait", "generate", "done"}]
JobState == [status : {"none", "pending", "passed", "failed"}, at : 0..MaxClock]

(* Rows, jobs and files are well typed, and no more bytes are in memory     *)
(* than REQUIRED_FILES_MAX_BYTES.                                           *)
TypeOK ==
    /\ staged \subseteq FileId
    /\ info \in [FileId -> [bytes : FileSize \cup {0}, until : 0..(MaxClock + FileTTL)]]
    /\ size \in 0..MaxBytes
    /\ run \in [Run -> RunState]
    /\ inUse \in 0..Slots
    /\ job \in [Run -> JobState]
    /\ clock \in 0..MaxClock

Init ==
    /\ StoreInit
    /\ run = [r \in Run |-> Idle]
    /\ inUse = 0
    /\ job = [r \in Run |-> NoJob]
    /\ clock = 0

(* A caller reads the clock, then waits for the mutex it needs.             *)
Past == 0..clock
At(r, pc) == run[r].pc = pc
Goto(r, pc) == run' = [run EXCEPT ![r].pc = pc]

-----------------------------------------------------------------------------
(* The store, as its other callers use it.  `has` of Generate is SweepFiles. *)
StageFile ==
    /\ \E f \in FileId, b \in FileSize, t \in Past : Stage(f, b, t)
    /\ UNCHANGED <<run, inUse, job, clock>>

StageFileRefused ==
    /\ \E b \in FileSize, t \in Past : StageRefused(b, t)
    /\ UNCHANGED <<run, inUse, job, clock>>

DropFile ==
    /\ \E f \in FileId : info[f] # NeverStaged /\ ReleaseFile(f)
    /\ UNCHANGED <<run, inUse, job, clock>>

SweepFiles ==
    /\ \E t \in Past : Prune(t)
    /\ UNCHANGED <<run, inUse, job, clock>>

-----------------------------------------------------------------------------
(* A request takes its files, all or none, before anything else it does.    *)
TakeFiles(ids) ==
    IF ids = <<>> THEN UNCHANGED storeVars ELSE \E t \in Past : Take(ids, t)

Starting(r, kind, pc, ids) ==
    /\ run[r] = Idle
    /\ TakeFiles(ids)
    /\ run' = [run EXCEPT ![r] = [kind |-> kind, pc |-> pc, files |-> Range(ids)]]
    /\ UNCHANGED <<inUse, clock>>

StartApworld(r, ids) == Starting(r, "apworld", "download", ids) /\ UNCHANGED job

(* Generate: no slot is needed, and nothing bounds the time it takes.       *)
StartGeneration(r, ids) == Starting(r, "generation", "generate", ids) /\ UNCHANGED job

(* StartSlotPreflight: the jobs past their time are dropped first.          *)
StartSlot(r, ids) ==
    /\ Starting(r, "slot", "wait", ids)
    /\ \E t \in Past :
         job' = [q \in Run |-> IF q = r THEN [status |-> "pending", at |-> t]
                               ELSE IF t - job[q].at > JobTTL THEN NoJob ELSE job[q]]

StartRefused ==
    /\ \E ids \in Request, t \in Past : TakeRefused(ids, t)
    /\ UNCHANGED <<run, inUse, job, clock>>

-----------------------------------------------------------------------------
(* RunApworldPreflight: without storage the run ends, and without a template *)
(* there is nothing to generate with.                                       *)
Download(r) ==
    /\ At(r, "download")
    /\ \E pc \in {"wait", "done"} : Goto(r, pc)
    /\ UNCHANGED <<storeVars, inUse, job, clock>>

AcquireSlot(r) ==
    /\ At(r, "wait")
    /\ inUse < Slots
    /\ inUse' = inUse + 1
    /\ Goto(r, "generate")
    /\ UNCHANGED <<storeVars, job, clock>>

(* Mutant: only a success is recorded. *)
FinishPassed(r, out) ==
    job' = IF job[r] = NoJob \/ out = "failed" THEN job ELSE [job EXCEPT ![r].status = out]

(* finishSlotPreflight: the job may be gone by now.                         *)
Finish(r, out) ==
    job' = IF job[r] = NoJob THEN job ELSE [job EXCEPT ![r].status = out]

(* Mutant: the slot is not given back after a failure. *)
LeaveSlotAfterPass(r, out) ==
    inUse' = IF run[r].kind = "generation" \/ out = "failed" THEN inUse ELSE inUse - 1

LeaveSlot(r, out) == inUse' = IF run[r].kind = "generation" THEN inUse ELSE inUse - 1

(* The container answers, Docker fails or the timeout strikes, and the run  *)
(* says so and leaves its slot.                                             *)
Generate(r) ==
    /\ At(r, "generate")
    /\ \E out \in {"passed", "failed"} :
         /\ IF run[r].kind = "slot" THEN Finish(r, out) ELSE UNCHANGED job
         /\ LeaveSlot(r, out)
    /\ Goto(r, "done")
    /\ UNCHANGED <<storeVars, clock>>

(* The goroutine ends: the room of its files is given back.                 *)
End(r) ==
    /\ At(r, "done")
    /\ Free(run[r].files)
    /\ run' = [run EXCEPT ![r] = Idle]
    /\ UNCHANGED <<inUse, job, clock>>

(* A new process has no files, no runs and no jobs.                         *)
Restart ==
    /\ ForgetFiles
    /\ run' = [r \in Run |-> Idle]
    /\ inUse' = 0
    /\ job' = [r \in Run |-> NoJob]
    /\ UNCHANGED clock

Tick ==
    /\ clock < MaxClock
    /\ clock' = clock + 1
    /\ UNCHANGED <<storeVars, run, inUse, job>>

Next ==
    \/ StageFile \/ StageFileRefused \/ DropFile \/ SweepFiles
    \/ \E r \in Run, ids \in Request \cup {<<>>} :
         StartApworld(r, ids) \/ StartGeneration(r, ids) \/ StartSlot(r, ids)
    \/ StartRefused
    \/ \E r \in Run : Download(r) \/ AcquireSlot(r) \/ Generate(r) \/ End(r)
    \/ Restart \/ Tick

Spec == Init /\ [][Next]_vars

(* A test is bounded by PREFLIGHT_TIMEOUT; a generation is not.  Senders    *)
(* wait for a channel in order, so a slot free again and again is granted.  *)
Bounded(r) == run[r].kind \in {"apworld", "slot"}

FairSpec ==
    /\ Spec
    /\ \A r \in Run :
         /\ WF_vars(Download(r)) /\ WF_vars(Bounded(r) /\ Generate(r)) /\ WF_vars(End(r))
         /\ SF_vars(AcquireSlot(r))

-----------------------------------------------------------------------------
(* The bytes the store counts are those in memory, staged or read by a run, *)
(* and never more than its cap ("the cap is what bounds that memory",       *)
(* required_files.go:108-110), whatever expires, is dropped or runs late.   *)
RoomAccounted ==
    /\ size = Bytes(staged) + MapThenSumSet(LAMBDA r : Bytes(run[r].files), Run)
    /\ size <= MaxBytes

(* A provided file is read by one run only and can no longer be taken, even *)
(* after it ("one use, then gone", session.go:226).                         *)
FilesReadOnce ==
    \A r, q \in Run :
        /\ run[r].files \cap staged = {}
        /\ r # q => run[r].files \cap run[q].files = {}

(* A poller is never left with a job that is pending and that no run will   *)
(* settle, whatever happened to the run (slot_preflight.go:23-24).          *)
PendingJobHasRun ==
    \A r \in Run : job[r].status = "pending" =>
                      run[r].kind = "slot" /\ run[r].pc \in {"wait", "generate"}

(* Every test ends, however many wait for the slots and even when a         *)
(* generation hangs.                                                        *)
EveryTestEnds == \A r \in Run : Bounded(r) ~> run[r] = Idle
=============================================================================
