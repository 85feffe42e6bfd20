--------------------------- MODULE TestRuns_proofs ---------------------------
(***************************************************************************)
(* Proof, for any files, sizes, runs and slots, that a file a client       *)
(* provided is read by one run only, and that a job that is pending has a  *)
(* run that will settle it.                                                *)
(***************************************************************************)
EXTENDS TestRuns, FiniteSetTheorems, TLAPS

(* The sets of files, without the bytes they count for.                     *)
FilesTyped ==
    /\ staged \subseteq FileId
    /\ info \in [FileId -> [bytes : Nat, until : Int]]
    /\ run \in [Run -> RunState]
    /\ clock \in Nat

(* An identifier in use was given out, so a new file never has it: without  *)
(* this, Stage could hand the identifier of a file still read to another.   *)
InUseWasStaged ==
    /\ \A f \in staged : info[f] # NeverStaged
    /\ \A r \in Run, f \in FileId : f \in run[r].files => info[f] # NeverStaged

FilesInv == FilesTyped /\ InUseWasStaged /\ FilesReadOnce

LEMMA AliveStaged == \A t : Alive(t) \subseteq staged
BY DEF Alive

(* A request without files takes none; one with files takes files.          *)
LEMMA RequestFiles ==
    /\ Range(<<>>) = {}
    /\ \A ids \in Request : Range(ids) \subseteq FileId
<1>1. Range(<<>>) = {}
  BY DEF Range
<1>2. ASSUME NEW n \in 1..(PerRun + 1), NEW ids \in [1..n -> FileId]
      PROVE  Range(ids) \subseteq FileId
  BY <1>2 DEF Range
<1> QED
  BY <1>1, <1>2 DEF Request

(* Nothing new in memory: most steps only drop files, or do not touch them. *)
LEMMA DroppingFiles ==
    ASSUME FilesInv, clock' \in Nat, staged' \subseteq staged, info' = info,
           run' \in [Run -> RunState], \A r \in Run : run'[r].files \subseteq run[r].files
    PROVE  FilesInv'
BY DEF FilesInv, FilesTyped, InUseWasStaged, FilesReadOnce

(* A new file has an identifier that no file in memory has.                 *)
LEMMA StagingFile ==
    ASSUME FilesInv, RequiredFilesAssumption, StageFile
    PROVE  FilesInv'
<1>1. PICK f \in FileId, b \in FileSize, t \in Past : Stage(f, b, t)
  BY DEF StageFile
<1>2. t + FileTTL \in Int /\ b \in Nat /\ b # 0
  BY RequiredFilesAssumption DEF Past, FilesInv, FilesTyped
<1>3. /\ info' = [info EXCEPT ![f] = [bytes |-> b, until |-> t + FileTTL]]
      /\ info[f] = NeverStaged
      /\ staged' \subseteq staged \cup {f}
      /\ UNCHANGED <<run, clock>>
  BY <1>1, AliveStaged DEF Stage, StageFile
<1>4. info'[f] # NeverStaged /\ \A g \in FileId \ {f} : info'[g] = info[g]
  BY <1>2, <1>3 DEF NeverStaged, FilesInv, FilesTyped
<1>5. f \notin staged /\ \A r \in Run : f \notin run[r].files
  BY <1>3 DEF FilesInv, InUseWasStaged
<1>6. FilesTyped'
  BY <1>2, <1>3 DEF FilesInv, FilesTyped
<1>7. InUseWasStaged'
  BY <1>3, <1>4 DEF FilesInv, FilesTyped, InUseWasStaged
<1>8. FilesReadOnce'
  BY <1>3, <1>5 DEF FilesInv, FilesReadOnce
<1> QED
  BY <1>6, <1>7, <1>8 DEF FilesInv

(* The files of a new run leave the store in the step that reads them.      *)
LEMMA StartingRun ==
    ASSUME FilesInv, NEW r \in Run, NEW ids \in Request \cup {<<>>},
           NEW kind \in {"apworld", "generation", "slot"},
           NEW pc \in {"download", "generate", "wait"},
           Starting(r, kind, pc, ids)
    PROVE  FilesInv'
<1>1. /\ info' = info /\ clock' = clock
      /\ staged' \subseteq staged \ Range(ids)
      /\ Range(ids) \subseteq staged
  <2>1. CASE ids = <<>>
    BY <2>1, RequestFiles DEF Starting, TakeFiles, storeVars
  <2>2. CASE ids # <<>>
    <3>1. PICK t \in Past : Take(ids, t)
      BY <2>2 DEF Starting, TakeFiles
    <3> QED
      BY <3>1, AliveStaged DEF Take, Takes, Starting
  <2> QED
    BY <2>1, <2>2
<1>2. run' = [run EXCEPT ![r] = [kind |-> kind, pc |-> pc, files |-> Range(ids)]]
  BY DEF Starting
<1>3. /\ run'[r].files = Range(ids)
      /\ \A q \in Run \ {r} : run'[q] = run[q]
  BY <1>2 DEF FilesInv, FilesTyped, Idle
<1>4. FilesTyped'
  <2>1. Range(ids) \in SUBSET FileId
    BY <1>1 DEF FilesInv, FilesTyped
  <2> QED
    BY <1>1, <1>2, <2>1 DEF FilesInv, FilesTyped, Idle, RunState
<1>5. InUseWasStaged'
  BY <1>1, <1>3 DEF FilesInv, InUseWasStaged
<1>6. FilesReadOnce'
  BY <1>1, <1>3 DEF FilesInv, FilesReadOnce
<1> QED
  BY <1>4, <1>5, <1>6 DEF FilesInv

LEMMA FilesInit == Init => FilesInv
BY DEF Init, StoreInit, NeverStaged, Idle, RunState,
       FilesInv, FilesTyped, InUseWasStaged, FilesReadOnce

LEMMA FilesStep ==
    ASSUME FilesInv, RequiredFilesAssumption, [Next]_vars
    PROVE  FilesInv'
<1>1. CASE StageFile
  BY <1>1, StagingFile, RequiredFilesAssumption
<1>2. CASE StageFileRefused \/ DropFile \/ SweepFiles \/ StartRefused
  <2>1. staged' \subseteq staged /\ info' = info /\ UNCHANGED <<run, clock>>
    BY <1>2, AliveStaged DEF StageFileRefused, DropFile, SweepFiles, StartRefused,
         StageRefused, ReleaseFile, Prune, TakeRefused, storeVars
  <2> QED
    BY <2>1, DroppingFiles DEF FilesInv, FilesTyped
<1>3. ASSUME NEW r \in Run, NEW ids \in Request \cup {<<>>},
             StartApworld(r, ids) \/ StartGeneration(r, ids) \/ StartSlot(r, ids)
      PROVE  FilesInv'
  BY <1>3, StartingRun DEF StartApworld, StartGeneration, StartSlot
<1>4. ASSUME NEW r \in Run, Download(r) \/ AcquireSlot(r) \/ Generate(r)
      PROVE  FilesInv'
  <2>1. PICK pc \in {"wait", "done", "generate"} : Goto(r, pc)
    BY <1>4 DEF Download, AcquireSlot, Generate
  <2>2. UNCHANGED <<staged, info, clock>>
    BY <1>4 DEF Download, AcquireSlot, Generate, storeVars
  <2>3. /\ run' \in [Run -> RunState]
        /\ \A q \in Run : run'[q].files = run[q].files
    BY <2>1 DEF Goto, FilesInv, FilesTyped, RunState
  <2> QED
    BY <2>2, <2>3, DroppingFiles DEF FilesInv, FilesTyped
<1>5. ASSUME NEW r \in Run, End(r)
      PROVE  FilesInv'
  BY <1>5, DroppingFiles DEF End, Free, Idle, RunState, FilesInv, FilesTyped
<1>6. CASE Restart
  BY <1>6, DroppingFiles DEF Restart, ForgetFiles, Idle, RunState, FilesInv, FilesTyped
<1>7. CASE Tick
  BY <1>7, DroppingFiles DEF Tick, storeVars, FilesInv, FilesTyped
<1>8. CASE UNCHANGED vars
  BY <1>8, DroppingFiles DEF vars, storeVars, FilesInv, FilesTyped
<1> QED
  BY <1>1, <1>2, <1>3, <1>4, <1>5, <1>6, <1>7, <1>8 DEF Next

(* A provided file is read by one run only: once a run took it, no other    *)
(* run has it and the store no longer gives it out.                         *)
THEOREM TestRunsReadOnce == Spec => []FilesReadOnce
<1>1. FilesInv => FilesReadOnce
  BY DEF FilesInv
<1> QED
  BY FilesInit, FilesStep, RequiredFilesAssumption, <1>1, PTL DEF Spec

-----------------------------------------------------------------------------
(* What a poller is told, with the runs whose files are as above.            *)
JobsTyped == job \in [Run -> [status : {"none", "pending", "passed", "failed"}, at : Int]]
JobsInv == FilesInv /\ JobsTyped /\ PendingJobHasRun

LEMMA NotPending == NoJob.status = "none" /\ Idle.kind = "none" /\ Idle.pc = "idle"
BY DEF NoJob, Idle

(* A new run replaces its own job, and may drop those of others.             *)
LEMMA StartingKeepsJobs ==
    ASSUME JobsInv, NEW r \in Run, NEW ids \in Request \cup {<<>>},
           StartApworld(r, ids) \/ StartGeneration(r, ids) \/ StartSlot(r, ids)
    PROVE  JobsTyped' /\ PendingJobHasRun'
<1>1. /\ run[r] = Idle /\ job[r].status # "pending"
      /\ \A q \in Run \ {r} : run'[q] = run[q]
  BY NotPending DEF StartApworld, StartGeneration, StartSlot, Starting,
     JobsInv, FilesInv, FilesTyped, PendingJobHasRun
<1>2. CASE StartApworld(r, ids) \/ StartGeneration(r, ids)
  BY <1>1, <1>2 DEF StartApworld, StartGeneration, JobsInv, JobsTyped, PendingJobHasRun
<1>3. CASE StartSlot(r, ids)
  <2>1. run'[r].kind = "slot" /\ run'[r].pc = "wait"
    BY <1>3 DEF StartSlot, Starting, JobsInv, FilesInv, FilesTyped
  <2>2. PICK t \in Past :
           job' = [q \in Run |-> IF q = r THEN [status |-> "pending", at |-> t]
                                 ELSE IF t - job[q].at > JobTTL THEN NoJob ELSE job[q]]
    BY <1>3 DEF StartSlot
  <2>3. JobsTyped'
    BY <2>2 DEF Past, NoJob, JobsInv, JobsTyped, FilesInv, FilesTyped
  <2>4. \A q \in Run \ {r} : job'[q] = NoJob \/ job'[q] = job[q]
    BY <2>2
  <2>5. PendingJobHasRun'
    BY <1>1, <2>1, <2>4, NotPending DEF JobsInv, PendingJobHasRun
  <2> QED BY <2>3, <2>5
<1> QED BY <1>2, <1>3

(* A run settles its job before it moves out of its reach.                   *)
LEMMA RunningKeepsJobs ==
    ASSUME JobsInv, NEW r \in Run, Download(r) \/ AcquireSlot(r) \/ Generate(r) \/ End(r)
    PROVE  JobsTyped' /\ PendingJobHasRun'
<1>1. \A q \in Run \ {r} : run'[q] = run[q]
  BY DEF Download, AcquireSlot, Generate, End, Goto, JobsInv, FilesInv, FilesTyped
<1>2. CASE Download(r) \/ End(r)
  <2>1. run[r].pc \notin {"wait", "generate"} /\ UNCHANGED job
    BY <1>2 DEF Download, End, At
  <2> QED BY <1>1, <2>1 DEF JobsInv, JobsTyped, PendingJobHasRun
<1>3. CASE AcquireSlot(r)
  <2>1. UNCHANGED job /\ run'[r].kind = run[r].kind /\ run'[r].pc = "generate" /\ run[r].pc = "wait"
    BY <1>3 DEF AcquireSlot, At, Goto, JobsInv, FilesInv, FilesTyped, RunState
  <2> QED BY <1>1, <2>1 DEF JobsInv, JobsTyped, PendingJobHasRun
<1>4. CASE Generate(r)
  <2>1. PICK out \in {"passed", "failed"} :
          IF run[r].kind = "slot" THEN Finish(r, out) ELSE UNCHANGED job
    BY <1>4 DEF Generate
  <2>2. CASE run[r].kind = "slot" /\ job[r] # NoJob
    <3>1. job' = [job EXCEPT ![r].status = out]
      BY <2>1, <2>2 DEF Finish
    <3>2. JobsTyped' /\ job'[r].status = out /\ \A q \in Run \ {r} : job'[q] = job[q]
      BY <3>1 DEF JobsInv, JobsTyped
    <3> QED BY <1>1, <3>2 DEF JobsInv, PendingJobHasRun
  <2>3. CASE run[r].kind # "slot" \/ job[r] = NoJob
    <3>1. UNCHANGED job /\ job[r].status # "pending"
      BY <2>1, <2>3, NotPending DEF Finish, JobsInv, PendingJobHasRun
    <3> QED BY <1>1, <3>1 DEF JobsInv, JobsTyped, PendingJobHasRun
  <2> QED BY <2>2, <2>3
<1> QED BY <1>2, <1>3, <1>4

LEMMA JobsStep ==
    ASSUME JobsInv, RequiredFilesAssumption, [Next]_vars
    PROVE  JobsInv'
<1>1. FilesInv'
  BY FilesStep DEF JobsInv
<1>2. CASE StageFile \/ StageFileRefused \/ DropFile \/ SweepFiles \/ StartRefused
           \/ Tick \/ UNCHANGED vars
  <2>1. UNCHANGED <<run, job>>
    BY <1>2 DEF StageFile, StageFileRefused, DropFile, SweepFiles, StartRefused, Tick, vars
  <2> QED BY <1>1, <2>1 DEF JobsInv, JobsTyped, PendingJobHasRun
<1>3. ASSUME NEW r \in Run, NEW ids \in Request \cup {<<>>},
             StartApworld(r, ids) \/ StartGeneration(r, ids) \/ StartSlot(r, ids)
      PROVE  JobsInv'
  BY <1>1, <1>3, StartingKeepsJobs DEF JobsInv
<1>4. ASSUME NEW r \in Run, Download(r) \/ AcquireSlot(r) \/ Generate(r) \/ End(r)
      PROVE  JobsInv'
  BY <1>1, <1>4, RunningKeepsJobs DEF JobsInv
<1>5. CASE Restart
  BY <1>1, <1>5, NotPending DEF Restart, NoJob, JobsInv, JobsTyped, PendingJobHasRun
<1> QED
  BY <1>2, <1>3, <1>4, <1>5 DEF Next

(* Whatever happens to a run, the job of its client is settled or gone when   *)
(* the run cannot settle it any more (slot_preflight.go:23-24): it can expire *)
(* while the run waits, and never be left pending without a run.              *)
THEOREM TestRunsJobHasRun == Spec => []PendingJobHasRun
<1>1. Init => JobsInv
  BY FilesInit, NotPending DEF Init, NoJob, JobsInv, JobsTyped, PendingJobHasRun
<1>2. JobsInv => PendingJobHasRun
  BY DEF JobsInv
<1> QED
  BY <1>1, <1>2, JobsStep, RequiredFilesAssumption, PTL DEF Spec

-----------------------------------------------------------------------------
(* Sums over a finite set, read from a table of the sums over its subsets.  *)
Some(s) == CHOOSE x \in s : TRUE

(* The table a sum over the subsets of a set is read from.                  *)
IsTable(g, w, D) ==
    g = [s \in D |-> IF s = {} THEN 0 ELSE w[Some(s)] + g[s \ {Some(s)}]]

Total(w, S) == (CHOOSE g : IsTable(g, w, SUBSET S))[S]

(* Induction on the size of a finite set.                                   *)
LEMMA CountingUp ==
    ASSUME NEW S, 0 \in S, \A n \in Nat : n \in S => n + 1 \in S
    PROVE  Nat \subseteq S
<1> DEFINE R == {ss \in Nat \X Nat : ss[1] < ss[2]}
           T == Nat \ S
<1>2. IsWellFoundedOn(R, Nat)
  BY NatLessThanWellFounded, Zenon DEF OpToRel
<1>3. \A x, y \in Nat : <<y, x>> \in R <=> y < x
  OBVIOUS
<1>4. T \subseteq Nat
  OBVIOUS
<1> HIDE DEF R, T
<1>5. ASSUME T # {} PROVE FALSE
  <2>1. PICK x \in T : \A y \in T : <<y, x>> \notin R
    BY <1>2, <1>4, <1>5, WFMin
  <2>2. x \in Nat /\ x \notin S /\ \A y \in Nat : y < x => y \in S
    BY <1>3, <1>4, <2>1 DEF T
  <2>3. x # 0 /\ x - 1 \in Nat /\ x - 1 < x /\ x = (x - 1) + 1
    BY <2>2
  <2> QED
    BY <2>2, <2>3
<1> QED
  BY <1>5 DEF T

(* What holds of a finite set when it holds of each set one element short.   *)
LEMMA SubsetInduction ==
    ASSUME NEW S, IsFiniteSet(S), NEW Q,
           \A T \in SUBSET S : (\A x \in T : T \ {x} \in Q) => T \in Q
    PROVE  SUBSET S \subseteq Q
<1> DEFINE N == {n \in Nat : \A T \in SUBSET S : Cardinality(T) = n => T \in Q}
<1>1. \A T \in SUBSET S : IsFiniteSet(T) /\ Cardinality(T) \in Nat
  BY FS_Subset, FS_CardinalityType
<1>2. \A T \in SUBSET S : \A x \in T : Cardinality(T \ {x}) = Cardinality(T) - 1
  BY <1>1, FS_RemoveElement
<1>3. \A T \in SUBSET S : Cardinality(T) = 0 => T = {}
  BY <1>1, FS_EmptySet
<1>4. 0 \in N
  BY <1>3
<1>5. ASSUME NEW n \in Nat, n \in N
      PROVE  n + 1 \in N
  <2> SUFFICES ASSUME NEW T \in SUBSET S, Cardinality(T) = n + 1 PROVE T \in Q
    OBVIOUS
  <2>1. ASSUME NEW x \in T PROVE T \ {x} \in Q
    <3>1. Cardinality(T \ {x}) = n /\ T \ {x} \in SUBSET S
      BY <1>2
    <3> QED BY <1>5, <3>1
  <2> QED BY <2>1
<1> HIDE DEF N
<1>6. Nat \subseteq N
  BY <1>4, <1>5, CountingUp
<1> QED
  BY <1>1, <1>6 DEF N

LEMMA SomeIsIn == \A s : s # {} => Some(s) \in s
BY Zenon DEF Some

Agree(g, h, D) == \A x \in D : g[x] = h[x]

(* Only one table fits the weights, wherever it ends.                       *)
LEMMA TablesAgree ==
    ASSUME NEW S, IsFiniteSet(S), NEW U, S \subseteq U, NEW w, NEW v, Agree(w, v, S),
           NEW g, IsTable(g, w, SUBSET S), NEW h, IsTable(h, v, SUBSET U)
    PROVE  Agree(g, h, SUBSET S)
<1> DEFINE Q == {s \in SUBSET S : g[s] = h[s]}
<1>1. ASSUME NEW T \in SUBSET S, \A x \in T : T \ {x} \in Q
      PROVE  T \in Q
  <2>1. CASE T = {}
    BY <2>1 DEF IsTable
  <2>2. CASE T # {}
    <3>1. Some(T) \in T
      BY <2>2, SomeIsIn
    <3>2. g[T] = w[Some(T)] + g[T \ {Some(T)}]
      BY <2>2 DEF IsTable
    <3>3. h[T] = v[Some(T)] + h[T \ {Some(T)}]
      BY <2>2 DEF IsTable
    <3> QED
      BY <1>1, <3>1, <3>2, <3>3 DEF Agree
  <2> QED BY <2>1, <2>2
<1> HIDE DEF Q
<1>2. SUBSET S \subseteq Q
  BY <1>1, SubsetInduction
<1> QED
  BY <1>2 DEF Q, Agree

(* There is one, for any finite set.                                        *)
LEMMA TableExists ==
    ASSUME NEW S, IsFiniteSet(S), NEW w
    PROVE  \E g : IsTable(g, w, SUBSET S)
<1> DEFINE Level(n) == {s \in SUBSET S : Cardinality(s) <= n}
           N == {n \in Nat : \E g : IsTable(g, w, Level(n))}
<1>1. \A T \in SUBSET S : IsFiniteSet(T) /\ Cardinality(T) \in 0..Cardinality(S)
  BY FS_Subset, FS_CardinalityType
<1>2. \A T \in SUBSET S : \A x \in T : Cardinality(T \ {x}) = Cardinality(T) - 1
  BY <1>1, FS_RemoveElement
<1>3. \A T \in SUBSET S : Cardinality(T) = 0 => T = {}
  BY <1>1, FS_EmptySet
<1>4. 0 \in N
  <2>1. \A s \in Level(0) : s = {}
    BY <1>1, <1>3
  <2>2. IsTable([s \in Level(0) |-> 0], w, Level(0))
    BY <2>1 DEF IsTable
  <2> QED BY <2>2
<1>5. ASSUME NEW n \in Nat, n \in N
      PROVE  n + 1 \in N
  <2>1. PICK g : IsTable(g, w, Level(n))
    BY <1>5
  <2> DEFINE h == [s \in Level(n + 1) |->
                     IF s = {} THEN 0 ELSE w[Some(s)] + g[s \ {Some(s)}]]
  <2>2. \A s \in Level(n + 1) : s # {} => s \ {Some(s)} \in Level(n)
    BY <1>1, <1>2, SomeIsIn
  <2>3. \A s \in Level(n) : s \in Level(n + 1)
    BY <1>1
  <2>6. \A s \in Level(n) : g[s] = h[s]
    <3> HIDE DEF Level
    <3> QED BY <2>1, <2>3 DEF IsTable
  <2> HIDE DEF Level
  <2>4. h = [s \in Level(n + 1) |-> IF s = {} THEN 0 ELSE w[Some(s)] + h[s \ {Some(s)}]]
    BY <2>2, <2>6
  <2>5. IsTable(h, w, Level(n + 1))
    BY <2>4 DEF IsTable
  <2> QED BY <2>5
<1>6. SUBSET S = Level(Cardinality(S)) /\ Cardinality(S) \in Nat
  BY <1>1, FS_CardinalityType
<1>7. Nat \subseteq N
  <2> HIDE DEF N
  <2> QED BY <1>4, <1>5, CountingUp
<1> QED
  BY <1>6, <1>7

LEMMA TotalTable ==
    ASSUME NEW S, IsFiniteSet(S), NEW w, NEW g, IsTable(g, w, SUBSET S)
    PROVE  Total(w, S) = g[S]
<1>1. IsTable(CHOOSE h : IsTable(h, w, SUBSET S), w, SUBSET S)
  <2>1. \E h : IsTable(h, w, SUBSET S)
    BY TableExists
  <2> QED BY <2>1, Zenon
<1>2. \A s \in SUBSET S : (CHOOSE h : IsTable(h, w, SUBSET S))[s] = g[s]
  <2> DEFINE h == CHOOSE h : IsTable(h, w, SUBSET S)
  <2>1. IsTable(h, w, SUBSET S)
    BY <1>1
  <2> HIDE DEF h
  <2>2. S \subseteq S /\ Agree(w, w, S)
    BY DEF Agree
  <2>3. Agree(h, g, SUBSET S)
    BY <2>1, <2>2, TablesAgree
  <2> QED BY <2>3 DEF h, Agree
<1> QED
  BY <1>2, Zenon DEF Total

LEMMA TotalOfNone == \A w : Total(w, {}) = 0
<1> SUFFICES ASSUME NEW w PROVE Total(w, {}) = 0
  OBVIOUS
<1>1. IsFiniteSet({})
  BY FS_EmptySet
<1>2. PICK g : IsTable(g, w, SUBSET {})
  BY <1>1, TableExists
<1>3. g[{}] = 0
  BY <1>2 DEF IsTable
<1> QED
  BY <1>1, <1>2, <1>3, TotalTable

(* A sum says nothing about the weights of other things.                    *)
LEMMA TotalDependsOn ==
    ASSUME NEW S, IsFiniteSet(S), NEW w, NEW v, \A x \in S : w[x] = v[x]
    PROVE  Total(w, S) = Total(v, S)
<1>1. PICK g : IsTable(g, w, SUBSET S)
  BY TableExists
<1>2. PICK h : IsTable(h, v, SUBSET S)
  BY TableExists
<1>3. g[S] = h[S]
  <2>1. S \subseteq S /\ Agree(w, v, S)
    BY DEF Agree
  <2>2. Agree(g, h, SUBSET S)
    BY <1>1, <1>2, <2>1, TablesAgree
  <2> QED BY <2>2 DEF Agree
<1> QED
  BY <1>1, <1>2, <1>3, TotalTable

(* The sum of a set is one of its weights and the sum of the others.        *)
LEMMA TotalPeels ==
    ASSUME NEW S, IsFiniteSet(S), S # {}, NEW w
    PROVE  /\ Some(S) \in S
           /\ Total(w, S) = w[Some(S)] + Total(w, S \ {Some(S)})
<1> DEFINE T == S \ {Some(S)}
<1>1. Some(S) \in S
  BY SomeIsIn
<1>2. IsFiniteSet(T)
  BY FS_Subset
<1> HIDE DEF T
<1>3. PICK g : IsTable(g, w, SUBSET S)
  BY TableExists
<1>4. PICK h : IsTable(h, w, SUBSET T)
  BY <1>2, TableExists
<1>5. g[T] = h[T]
  <2>1. T \subseteq S
    BY DEF T
  <2>2. Agree(w, w, T)
    BY DEF Agree
  <2>3. Agree(h, g, SUBSET T)
    BY <1>2, <1>3, <1>4, <2>1, <2>2, TablesAgree
  <2> QED BY <2>3 DEF Agree
<1>6. g[S] = w[Some(S)] + g[T]
  BY <1>3 DEF IsTable, T
<1>7. Total(w, S) = g[S]
  BY <1>3, TotalTable
<1>8. Total(w, T) = h[T]
  BY <1>2, <1>4, TotalTable
<1>9. Total(w, S) = w[Some(S)] + Total(w, T)
  BY <1>5, <1>6, <1>7, <1>8
<1> QED
  BY <1>1, <1>9 DEF T

LEMMA TotalIsNat ==
    ASSUME NEW S, IsFiniteSet(S), NEW w, \A x \in S : w[x] \in Nat
    PROVE  Total(w, S) \in Nat
<1> DEFINE Q == {s \in SUBSET S : Total(w, s) \in Nat}
<1>1. ASSUME NEW T \in SUBSET S, \A x \in T : T \ {x} \in Q
      PROVE  T \in Q
  <2>1. CASE T = {}
    BY <2>1, TotalOfNone
  <2>2. CASE T # {}
    <3>1. IsFiniteSet(T)
      BY FS_Subset
    <3>2. Some(T) \in T /\ Total(w, T) = w[Some(T)] + Total(w, T \ {Some(T)})
      BY <2>2, <3>1, TotalPeels
    <3>3. w[Some(T)] \in Nat /\ Total(w, T \ {Some(T)}) \in Nat
      BY <1>1, <3>2
    <3> QED
      BY <3>2, <3>3
  <2> QED BY <2>1, <2>2
<1> HIDE DEF Q
<1>2. SUBSET S \subseteq Q
  BY <1>1, SubsetInduction
<1>3. S \in Q
  BY <1>2
<1> QED
  BY <1>3 DEF Q

(* Any of its elements will do.                                             *)
LEMMA TotalWithout ==
    ASSUME NEW S, IsFiniteSet(S), NEW w, \A x \in S : w[x] \in Nat, NEW e \in S
    PROVE  Total(w, S) = w[e] + Total(w, S \ {e})
<1> DEFINE Q == {s \in SUBSET S : \A x \in s : Total(w, s) = w[x] + Total(w, s \ {x})}
<1>0. \A s \in SUBSET S : IsFiniteSet(s) /\ Total(w, s) \in Nat
  <2> TAKE s \in SUBSET S
  <2>1. IsFiniteSet(s)
    BY FS_Subset
  <2> QED BY <2>1, TotalIsNat
<1>1. ASSUME NEW T \in SUBSET S, \A x \in T : T \ {x} \in Q
      PROVE  T \in Q
  <2> SUFFICES ASSUME NEW x \in T, Some(T) # x
               PROVE  Total(w, T) = w[x] + Total(w, T \ {x})
    <3>1. CASE T = {}
      BY <3>1
    <3>2. CASE T # {}
      <4>1. Total(w, T) = w[Some(T)] + Total(w, T \ {Some(T)})
        BY <1>0, <3>2, TotalPeels
      <4> QED BY <4>1
    <3> QED BY <3>1, <3>2
  <2> DEFINE y == Some(T)
             R == (T \ {y}) \ {x}
  <2>1. y \in T /\ Total(w, T) = w[y] + Total(w, T \ {y})
    BY <1>0, TotalPeels
  <2> HIDE DEF y
  <2>2. x \in T \ {y} /\ y \in T \ {x} /\ (T \ {x}) \ {y} = R
    BY <2>1 DEF y
  <2>3. Total(w, T \ {y}) = w[x] + Total(w, R)
    BY <1>1, <2>1, <2>2
  <2>4. Total(w, T \ {x}) = w[y] + Total(w, R)
    BY <1>1, <2>2
  <2>5. w[x] \in Nat /\ w[y] \in Nat /\ Total(w, R) \in Nat
    <3>1. R \in SUBSET S
      OBVIOUS
    <3> QED BY <1>0, <2>1, <3>1
  <2> QED
    BY <2>1, <2>3, <2>4, <2>5
<1> HIDE DEF Q
<1>2. SUBSET S \subseteq Q
  BY <1>1, SubsetInduction
<1>3. S \in Q
  BY <1>2
<1> QED
  BY <1>3 DEF Q

(* Disjoint sets are summed apart.                                          *)
LEMMA TotalOfTwo ==
    ASSUME NEW S, IsFiniteSet(S), NEW w, \A x \in S : w[x] \in Nat,
           NEW A \in SUBSET S
    PROVE  Total(w, S) = Total(w, A) + Total(w, S \ A)
<1> DEFINE Q == {s \in SUBSET A : Total(w, S) = Total(w, s) + Total(w, S \ s)}
<1>0. \A s \in SUBSET S : IsFiniteSet(s) /\ Total(w, s) \in Nat
  <2> TAKE s \in SUBSET S
  <2>1. IsFiniteSet(s)
    BY FS_Subset
  <2> QED BY <2>1, TotalIsNat
<1>1. ASSUME NEW T \in SUBSET A, \A x \in T : T \ {x} \in Q
      PROVE  T \in Q
  <2>1. CASE T = {}
    <3>1. Total(w, S) = 0 + Total(w, S \ {})
      BY <1>0
    <3> QED BY <2>1, <3>1, TotalOfNone
  <2>2. CASE T # {}
    <3>1. PICK x \in T : TRUE
      BY <2>2
    <3> DEFINE R == T \ {x}
    <3>2. Total(w, S) = Total(w, R) + Total(w, S \ R)
      BY <1>1, <3>1
    <3>3. Total(w, T) = w[x] + Total(w, R)
      BY <1>0, <3>1, TotalWithout
    <3>4. Total(w, S \ R) = w[x] + Total(w, S \ T)
      <4>1. (S \ R) \ {x} = S \ T /\ S \ R \in SUBSET S /\ x \in S \ R
        BY <3>1
      <4>2. Total(w, S \ R) = w[x] + Total(w, (S \ R) \ {x})
        <5> HIDE DEF R
        <5> QED BY <1>0, <4>1, TotalWithout
      <4> QED BY <4>1, <4>2
    <3>5. w[x] \in Nat /\ Total(w, R) \in Nat /\ Total(w, S \ T) \in Nat
      BY <1>0, <3>1
    <3> QED
      BY <3>2, <3>3, <3>4, <3>5
  <2> QED BY <2>1, <2>2
<1> HIDE DEF Q
<1>2. SUBSET A \subseteq Q
  BY <1>0, <1>1, SubsetInduction
<1>3. A \in Q
  BY <1>2
<1> QED
  BY <1>3 DEF Q

(* Where one weight changes, the sum changes by as much.                    *)
LEMMA TotalOfNew ==
    ASSUME NEW S, IsFiniteSet(S), NEW w, NEW v, NEW e \in S,
           \A x \in S : w[x] \in Nat /\ v[x] \in Nat,
           \A x \in S \ {e} : v[x] = w[x]
    PROVE  Total(v, S) + w[e] = Total(w, S) + v[e]
<1>1. IsFiniteSet(S \ {e})
  BY FS_Subset
<1>2. Total(w, S) = w[e] + Total(w, S \ {e})
  BY TotalWithout
<1>3. Total(v, S) = v[e] + Total(v, S \ {e})
  BY TotalWithout
<1>4. Total(v, S \ {e}) = Total(w, S \ {e})
  BY <1>1, TotalDependsOn
<1>5. Total(w, S \ {e}) \in Nat
  BY <1>1, TotalIsNat
<1> QED
  BY <1>2, <1>3, <1>4, <1>5

LEMMA TotalOfNothing ==
    ASSUME NEW S, IsFiniteSet(S), NEW w, \A x \in S : w[x] = 0
    PROVE  Total(w, S) = 0
<1> DEFINE Q == {s \in SUBSET S : Total(w, s) = 0}
<1>1. ASSUME NEW T \in SUBSET S, \A x \in T : T \ {x} \in Q
      PROVE  T \in Q
  <2>1. CASE T = {}
    BY <2>1, TotalOfNone
  <2>2. CASE T # {}
    <3>1. IsFiniteSet(T)
      BY FS_Subset
    <3>2. Some(T) \in T /\ Total(w, T) = w[Some(T)] + Total(w, T \ {Some(T)})
      BY <2>2, <3>1, TotalPeels
    <3>3. w[Some(T)] = 0 /\ Total(w, T \ {Some(T)}) = 0
      BY <1>1, <3>2
    <3> QED
      BY <3>2, <3>3
  <2> QED BY <2>1, <2>2
<1> HIDE DEF Q
<1>2. SUBSET S \subseteq Q
  BY <1>1, SubsetInduction
<1>3. S \in Q
  BY <1>2
<1> QED
  BY <1>3 DEF Q

-----------------------------------------------------------------------------
(* The room of the files, as sums over tables.                              *)
Weight == [f \in FileId |-> info[f].bytes]
ReadBytes == [r \in Run |-> Total(Weight, run[r].files)]

LEMMA BytesIsTotal ==
    ASSUME NEW S \in SUBSET FileId, IsFiniteSet(S)
    PROVE  Bytes(S) = Total(Weight, S)
<1> DEFINE Counted(g) == g = [s \in SUBSET S |-> IF s = {} THEN 0
                                 ELSE info[Some(s)].bytes + g[s \ {Some(s)}]]
<1>1. Bytes(S) = (CHOOSE g : Counted(g))[S]
  BY DEF Bytes, MapThenSumSet, MapThenFoldSet, Some
<1>2. ASSUME NEW g PROVE Counted(g) <=> IsTable(g, Weight, SUBSET S)
  <2>1. \A s \in SUBSET S : s # {} => Weight[Some(s)] = info[Some(s)].bytes
    BY SomeIsIn DEF Weight
  <2> QED BY <2>1 DEF IsTable
<1> HIDE DEF Counted
<1>3. \E g : Counted(g)
  BY <1>2, TableExists
<1> DEFINE h == CHOOSE g : Counted(g)
<1>4. IsTable(h, Weight, SUBSET S)
  <2>1. Counted(h)
    BY <1>3, Zenon
  <2> HIDE DEF h
  <2> QED BY <1>2, <2>1
<1> HIDE DEF h
<1>5. Total(Weight, S) = h[S]
  BY <1>4, TotalTable
<1> QED
  BY <1>1, <1>5 DEF h

LEMMA ReadIsTotal ==
    ASSUME IsFiniteSet(Run), \A r \in Run : run[r].files \in SUBSET FileId /\ IsFiniteSet(run[r].files)
    PROVE  MapThenSumSet(LAMBDA r : Bytes(run[r].files), Run) = Total(ReadBytes, Run)
<1> DEFINE Counted(g) == g = [s \in SUBSET Run |-> IF s = {} THEN 0
                                ELSE Bytes(run[Some(s)].files) + g[s \ {Some(s)}]]
<1>1. MapThenSumSet(LAMBDA r : Bytes(run[r].files), Run) = (CHOOSE g : Counted(g))[Run]
  BY DEF MapThenSumSet, MapThenFoldSet, Some
<1>2. ASSUME NEW g PROVE Counted(g) <=> IsTable(g, ReadBytes, SUBSET Run)
  <2>1. \A r \in Run : ReadBytes[r] = Bytes(run[r].files)
    BY BytesIsTotal DEF ReadBytes
  <2>2. \A s \in SUBSET Run : s # {} => ReadBytes[Some(s)] = Bytes(run[Some(s)].files)
    BY <2>1, SomeIsIn
  <2> QED BY <2>2 DEF IsTable
<1> HIDE DEF Counted
<1>3. \E g : Counted(g)
  BY <1>2, TableExists
<1> DEFINE h == CHOOSE g : Counted(g)
<1>4. IsTable(h, ReadBytes, SUBSET Run)
  <2>1. Counted(h)
    BY <1>3, Zenon
  <2> HIDE DEF h
  <2> QED BY <1>2, <2>1
<1> HIDE DEF h
<1>5. Total(ReadBytes, Run) = h[Run]
  BY <1>4, TotalTable
<1> QED
  BY <1>1, <1>5 DEF h

(* Few files are in memory at once, and the room counted is theirs.         *)
RoomTyped ==
    IsFiniteSet(staged) /\ \A r \in Run : IsFiniteSet(run[r].files)

RoomCounted ==
    size = Total(Weight, staged) + Total(ReadBytes, Run) /\ size <= MaxBytes

RoomInv == FilesInv /\ RoomTyped /\ RoomCounted

LEMMA Weighs ==
    ASSUME FilesInv, RoomTyped
    PROVE  /\ \A f \in FileId : Weight[f] \in Nat
           /\ \A S \in SUBSET FileId : IsFiniteSet(S) => Total(Weight, S) \in Nat
           /\ \A r \in Run : ReadBytes[r] = Total(Weight, run[r].files) /\ ReadBytes[r] \in Nat
<1>1. \A f \in FileId : Weight[f] \in Nat
  BY DEF Weight, FilesInv, FilesTyped
<1>2. \A S \in SUBSET FileId : IsFiniteSet(S) => Total(Weight, S) \in Nat
  BY <1>1, TotalIsNat
<1>3. \A r \in Run : run[r].files \in SUBSET FileId
  BY DEF FilesInv, FilesTyped, RunState
<1> QED
  BY <1>1, <1>2, <1>3 DEF ReadBytes, RoomTyped

(* What a call of the store drops before it does anything else.              *)
LEMMA PruningRoom ==
    ASSUME RoomInv, NEW S \in SUBSET staged
    PROVE  /\ IsFiniteSet(S) /\ IsFiniteSet(staged \ S)
           /\ Bytes(S) = Total(Weight, S) /\ Bytes(S) \in Nat
           /\ Total(Weight, staged) = Bytes(S) + Total(Weight, staged \ S)
<1>1. IsFiniteSet(S) /\ IsFiniteSet(staged \ S) /\ S \in SUBSET FileId
  BY FS_Subset DEF RoomInv, RoomTyped, FilesInv, FilesTyped
<1>2. Bytes(S) = Total(Weight, S) /\ Total(Weight, S) \in Nat
  BY <1>1, BytesIsTotal, Weighs DEF RoomInv
<1>3. Total(Weight, staged) = Total(Weight, S) + Total(Weight, staged \ S)
  <2>1. staged \subseteq FileId /\ IsFiniteSet(staged) /\ \A f \in staged : Weight[f] \in Nat
    BY Weighs DEF RoomInv, RoomTyped, FilesInv, FilesTyped
  <2> QED BY <2>1, TotalOfTwo
<1> QED
  BY <1>1, <1>2, <1>3

LEMMA RoomIsNat ==
    ASSUME RoomInv, IsFiniteSet(Run)
    PROVE  /\ Total(Weight, staged) \in Nat /\ Total(ReadBytes, Run) \in Nat
           /\ size \in Nat
<1>1. Total(Weight, staged) \in Nat
  BY Weighs DEF RoomInv, RoomTyped, FilesInv, FilesTyped
<1>2. Total(ReadBytes, Run) \in Nat
  BY Weighs, TotalIsNat DEF RoomInv
<1> QED
  BY <1>1, <1>2 DEF RoomInv, RoomCounted

(* A step that only drops files staged, and counts them out.                 *)
LEMMA DroppingRoom ==
    ASSUME RoomInv, FilesInv', RequiredFilesAssumption, IsFiniteSet(Run),
           NEW S \in SUBSET staged, staged' = staged \ S, info' = info,
           \A r \in Run : run'[r].files = run[r].files, size' = size - Bytes(S)
    PROVE  RoomInv'
<1>1. Weight' = Weight /\ ReadBytes' = ReadBytes
  BY DEF Weight, ReadBytes
<1>2. RoomTyped'
  BY PruningRoom DEF RoomInv, RoomTyped
<1>3. Bytes(S) \in Nat /\ Total(Weight, staged) = Bytes(S) + Total(Weight, staged \ S)
  BY PruningRoom
<1>4. Total(Weight, staged) \in Nat /\ Total(ReadBytes, Run) \in Nat
  BY RoomIsNat
<1>5. Total(Weight, staged \ S) \in Nat
  BY PruningRoom, Weighs DEF RoomInv, FilesInv, FilesTyped
<1>6. RoomCounted'
  BY <1>1, <1>3, <1>4, <1>5, RequiredFilesAssumption DEF RoomInv, RoomCounted
<1> QED
  BY <1>2, <1>6 DEF RoomInv

(* The bytes of the files a run takes change hands.                          *)
LEMMA StartingRoom ==
    ASSUME RoomInv, FilesInv', RequiredFilesAssumption, IsFiniteSet(Run),
           NEW r \in Run, run[r].files = {},
           NEW S \in SUBSET staged, NEW taken \in SUBSET (staged \ S),
           staged' = (staged \ S) \ taken, info' = info, size' = size - Bytes(S),
           run'[r].files = taken, \A q \in Run \ {r} : run'[q].files = run[q].files
    PROVE  RoomInv'
<1> DEFINE left == staged \ S
<1>1. Weight' = Weight
  BY DEF Weight
<1>2. taken \in SUBSET staged /\ left \in SUBSET staged /\ left \ taken = staged \ (S \cup taken)
  OBVIOUS
<1>3. IsFiniteSet(taken) /\ IsFiniteSet(left) /\ IsFiniteSet(left \ taken)
  <2>1. IsFiniteSet(staged)
    BY DEF RoomInv, RoomTyped
  <2> QED BY <1>2, <2>1, FS_Subset
<1>4. RoomTyped'
  BY <1>3 DEF RoomInv, RoomTyped
<1>5. Bytes(S) \in Nat /\ Total(Weight, staged) = Bytes(S) + Total(Weight, left)
  BY PruningRoom
<1>6. \A f \in staged : Weight[f] \in Nat
  BY Weighs DEF RoomInv, FilesInv, FilesTyped
<1> HIDE DEF left
<1>7. Total(Weight, left) = Total(Weight, taken) + Total(Weight, left \ taken)
  <2>1. taken \in SUBSET left
    BY DEF left
  <2> QED BY <1>2, <1>3, <1>6, <2>1, TotalOfTwo
<1>8. /\ Total(Weight, taken) \in Nat /\ Total(Weight, left) \in Nat
      /\ Total(Weight, left \ taken) \in Nat
  BY <1>2, <1>3, <1>6, TotalIsNat
<1>9. ReadBytes[r] = 0 /\ ReadBytes'[r] = Total(Weight, taken)
  BY <1>1, TotalOfNone DEF ReadBytes
<1>10. \A q \in Run \ {r} : ReadBytes'[q] = ReadBytes[q]
  BY <1>1 DEF ReadBytes
<1>11. \A q \in Run : ReadBytes[q] \in Nat /\ ReadBytes'[q] \in Nat
  BY <1>8, <1>9, <1>10, Weighs DEF RoomInv
<1>12. Total(ReadBytes', Run) + ReadBytes[r] = Total(ReadBytes, Run) + ReadBytes'[r]
  BY <1>10, <1>11, TotalOfNew
<1>13. Total(ReadBytes', Run) \in Nat /\ Total(ReadBytes, Run) \in Nat
  BY <1>11, TotalIsNat
<1>14. Total(ReadBytes', Run) = Total(ReadBytes, Run) + Total(Weight, taken)
  BY <1>8, <1>9, <1>12, <1>13
<1>15. RoomCounted'
  <2>1. size = Total(Weight, staged) + Total(ReadBytes, Run) /\ size <= MaxBytes
    BY DEF RoomInv, RoomCounted
  <2>2. staged' = left \ taken
    BY DEF left
  <2>3. size' = Total(Weight, left \ taken) + Total(ReadBytes', Run)
    BY <1>5, <1>7, <1>8, <1>13, <1>14, <2>1
  <2>4. size' <= MaxBytes
    BY <1>5, <1>8, <1>13, <2>1, RequiredFilesAssumption
  <2> QED BY <1>1, <2>2, <2>3, <2>4 DEF RoomCounted
<1> QED
  BY <1>4, <1>15 DEF RoomInv

(* A file is let in when there is room for it beside those left.             *)
LEMMA StagingRoom ==
    ASSUME RoomInv, FilesInv', RequiredFilesAssumption, IsFiniteSet(Run),
           NEW f \in FileId, NEW b \in FileSize, NEW t \in Int, info[f] = NeverStaged,
           NEW S \in SUBSET staged, size - Bytes(S) + b <= MaxBytes,
           staged' = (staged \ S) \cup {f}, size' = size - Bytes(S) + b,
           info' = [info EXCEPT ![f] = [bytes |-> b, until |-> t]], run' = run
    PROVE  RoomInv'
<1> DEFINE left == staged \ S
<1>1. b \in Nat
  BY RequiredFilesAssumption
<1>2. f \notin staged /\ \A r \in Run : f \notin run[r].files
  BY DEF RoomInv, FilesInv, InUseWasStaged
<1>3. Weight'[f] = b /\ \A g \in FileId \ {f} : Weight'[g] = Weight[g]
  BY DEF Weight, RoomInv, FilesInv, FilesTyped
<1>4. IsFiniteSet(left) /\ IsFiniteSet(left \cup {f}) /\ left \in SUBSET FileId /\ f \notin left
  <2>1. IsFiniteSet(left) /\ staged \subseteq FileId
    BY PruningRoom DEF RoomInv, FilesInv, FilesTyped
  <2> QED BY <1>2, <2>1, FS_AddElement
<1>5. Bytes(S) \in Nat /\ Total(Weight, staged) = Bytes(S) + Total(Weight, left)
  BY PruningRoom
<1> HIDE DEF left
<1>6. \A g \in FileId : Weight[g] \in Nat /\ Weight'[g] \in Nat
  BY <1>1, <1>3, Weighs DEF RoomInv
<1>7. Total(Weight', left) = Total(Weight, left)
  BY <1>3, <1>4, TotalDependsOn
<1>8. Total(Weight', left \cup {f}) = b + Total(Weight, left)
  <2>1. (left \cup {f}) \ {f} = left /\ \A g \in left \cup {f} : Weight'[g] \in Nat
    BY <1>4, <1>6
  <2>2. Total(Weight', left \cup {f}) = Weight'[f] + Total(Weight', (left \cup {f}) \ {f})
    BY <1>4, <2>1, TotalWithout
  <2> QED BY <1>3, <1>7, <2>1, <2>2
<1>9. ReadBytes' = ReadBytes
  <2>1. ASSUME NEW r \in Run
        PROVE  Total(Weight', run[r].files) = Total(Weight, run[r].files)
    <3>1. IsFiniteSet(run[r].files) /\ run[r].files \subseteq FileId \ {f}
      BY <1>2 DEF RoomInv, RoomTyped, FilesInv, FilesTyped, RunState
    <3> QED BY <1>3, <3>1, TotalDependsOn
  <2> QED BY <2>1 DEF ReadBytes
<1>10. Total(Weight, left) \in Nat /\ Total(ReadBytes, Run) \in Nat
  BY <1>4, RoomIsNat, Weighs DEF RoomInv
<1>11. RoomTyped'
  BY <1>4 DEF RoomInv, RoomTyped, left
<1>12. RoomCounted'
  <2>1. size = Total(Weight, staged) + Total(ReadBytes, Run)
    BY DEF RoomInv, RoomCounted
  <2>2. staged' = left \cup {f}
    BY DEF left
  <2>3. size' = Total(Weight', left \cup {f}) + Total(ReadBytes, Run)
    BY <1>1, <1>5, <1>8, <1>10, <2>1
  <2> QED BY <1>9, <2>2, <2>3 DEF RoomCounted
<1> QED
  BY <1>11, <1>12 DEF RoomInv

LEMMA EndingRoom ==
    ASSUME RoomInv, FilesInv', RequiredFilesAssumption, IsFiniteSet(Run),
           NEW r \in Run, staged' = staged, info' = info,
           size' = size - Bytes(run[r].files),
           run'[r].files = {}, \A q \in Run \ {r} : run'[q].files = run[q].files
    PROVE  RoomInv'
<1>1. Weight' = Weight
  BY DEF Weight
<1>2. RoomTyped'
  BY FS_EmptySet DEF RoomInv, RoomTyped
<1>3. /\ Bytes(run[r].files) = ReadBytes[r]
      /\ ReadBytes[r] \in Nat
  BY BytesIsTotal, Weighs DEF RoomInv, RoomTyped, FilesInv, FilesTyped, RunState
<1>4. ReadBytes'[r] = 0
  BY TotalOfNone DEF ReadBytes
<1>5. \A q \in Run \ {r} : ReadBytes'[q] = ReadBytes[q]
  BY <1>1 DEF ReadBytes
<1>6. \A q \in Run : ReadBytes[q] \in Nat /\ ReadBytes'[q] \in Nat
  BY <1>4, <1>5, Weighs DEF RoomInv
<1>7. Total(ReadBytes', Run) + ReadBytes[r] = Total(ReadBytes, Run) + ReadBytes'[r]
  BY <1>5, <1>6, TotalOfNew
<1>8. Total(ReadBytes', Run) \in Nat /\ Total(ReadBytes, Run) \in Nat /\ Total(Weight, staged) \in Nat
  BY <1>6, TotalIsNat, RoomIsNat
<1>9. RoomCounted'
  BY <1>1, <1>3, <1>4, <1>7, <1>8, RequiredFilesAssumption DEF RoomInv, RoomCounted
<1> QED
  BY <1>2, <1>9 DEF RoomInv

LEMMA RoomInit ==
    ASSUME Init, RequiredFilesAssumption, IsFiniteSet(Run)
    PROVE  RoomInv
<1>1. FilesInv
  BY FilesInit
<1>2. staged = {} /\ \A r \in Run : run[r].files = {}
  BY DEF Init, StoreInit, Idle
<1>3. RoomTyped
  BY <1>2, FS_EmptySet DEF RoomTyped
<1>4. Total(Weight, staged) = 0 /\ Total(ReadBytes, Run) = 0
  <2>1. \A r \in Run : ReadBytes[r] = 0
    BY <1>2, TotalOfNone DEF ReadBytes
  <2> QED BY <1>2, <2>1, TotalOfNone, TotalOfNothing
<1>5. size = 0
  BY DEF Init, StoreInit
<1> QED
  BY <1>1, <1>3, <1>4, <1>5, RequiredFilesAssumption DEF RoomInv, RoomCounted

(* A new process has nothing in memory.                                      *)
LEMMA RestartingRoom ==
    ASSUME RoomInv, FilesInv', RequiredFilesAssumption, IsFiniteSet(Run), Restart
    PROVE  RoomInv'
<1>1. staged' = {} /\ size' = 0 /\ \A r \in Run : run'[r].files = {}
  BY DEF Restart, ForgetFiles, Idle
<1>2. RoomTyped'
  BY <1>1, FS_EmptySet DEF RoomTyped
<1>3. Total(Weight', {}) = 0 /\ Total(ReadBytes', Run) = 0
  <2>1. \A r \in Run : ReadBytes'[r] = 0
    BY <1>1, TotalOfNone DEF ReadBytes
  <2> QED BY <2>1, TotalOfNone, TotalOfNothing
<1>4. RoomCounted'
  BY <1>1, <1>3, RequiredFilesAssumption DEF RoomCounted
<1> QED
  BY <1>2, <1>4 DEF RoomInv

LEMMA RoomStep ==
    ASSUME RoomInv, RequiredFilesAssumption, IsFiniteSet(Run), [Next]_vars
    PROVE  RoomInv'
<1>1. FilesInv'
  BY FilesStep DEF RoomInv
<1>2. \A t : Alive(t) = staged \ (staged \ Alive(t)) /\ staged \ Alive(t) \in SUBSET staged
  BY AliveStaged
<1>3. CASE StageFile
  <2>1. PICK f \in FileId, b \in FileSize, t \in Past : Stage(f, b, t)
    BY <1>3 DEF StageFile
  <2>2. t + FileTTL \in Int /\ run' = run
    BY <1>3, RequiredFilesAssumption DEF StageFile, Past, RoomInv, FilesInv, FilesTyped
  <2>3. /\ info[f] = NeverStaged
        /\ size - Bytes(staged \ Alive(t)) + b <= MaxBytes
        /\ staged' = (staged \ (staged \ Alive(t))) \cup {f}
        /\ size' = size - Bytes(staged \ Alive(t)) + b
        /\ info' = [info EXCEPT ![f] = [bytes |-> b, until |-> t + FileTTL]]
    BY <1>2, <2>1 DEF Stage, Fits, LeftAfterPrune
  <2> QED
    BY <1>1, <1>2, <2>2, <2>3, StagingRoom
<1>4. ASSUME NEW t, Prune(t), UNCHANGED run
      PROVE  RoomInv'
  <2>1. /\ staged' = staged \ (staged \ Alive(t)) /\ info' = info
        /\ size' = size - Bytes(staged \ Alive(t)) /\ run' = run
    BY <1>2, <1>4 DEF Prune, LeftAfterPrune
  <2> QED
    BY <1>1, <1>2, <2>1, DroppingRoom
<1>5. ASSUME UNCHANGED storeVars, \A q \in Run : run'[q].files = run[q].files
      PROVE  RoomInv'
  <2>1. UNCHANGED <<staged, info, size>>
    BY <1>5 DEF storeVars
  <2>2. Weight' = Weight /\ ReadBytes' = ReadBytes
    BY <1>5, <2>1 DEF Weight, ReadBytes
  <2> QED
    BY <1>1, <1>5, <2>1, <2>2 DEF RoomInv, RoomTyped, RoomCounted
<1>6. CASE StageFileRefused \/ SweepFiles \/ StartRefused
  <2>1. UNCHANGED run /\ (UNCHANGED storeVars \/ \E t \in Past : Prune(t))
    BY <1>6 DEF StageFileRefused, StageRefused, SweepFiles, StartRefused, TakeRefused
  <2> QED BY <1>4, <1>5, <2>1
<1>7. CASE DropFile
  <2>1. PICK f \in FileId : ReleaseFile(f)
    BY <1>7 DEF DropFile
  <2>2. /\ staged' = staged \ ({f} \cap staged) /\ info' = info /\ run' = run
        /\ size' = size - Bytes({f} \cap staged) /\ {f} \cap staged \in SUBSET staged
    BY <1>7, <2>1 DEF DropFile, ReleaseFile
  <2> QED
    BY <1>1, <2>2, DroppingRoom
<1>8. ASSUME NEW r \in Run, NEW ids \in Request \cup {<<>>},
             StartApworld(r, ids) \/ StartGeneration(r, ids) \/ StartSlot(r, ids)
      PROVE  RoomInv'
  <2>1. PICK kind, pc : Starting(r, kind, pc, ids)
    BY <1>8 DEF StartApworld, StartGeneration, StartSlot
  <2>2. /\ run[r].files = {} /\ run'[r].files = Range(ids)
        /\ \A q \in Run \ {r} : run'[q].files = run[q].files
    BY <2>1 DEF Starting, Idle, RoomInv, FilesInv, FilesTyped
  <2>3. CASE ids = <<>>
    <3>1. UNCHANGED storeVars /\ Range(ids) = {}
      BY <2>1, <2>3, RequestFiles DEF Starting, TakeFiles
    <3> QED BY <1>5, <2>2, <3>1
  <2>4. CASE ids # <<>>
    <3>1. PICK t \in Past : Take(ids, t)
      BY <2>1, <2>4 DEF Starting, TakeFiles
    <3> DEFINE S == staged \ Alive(t)
    <3>2. /\ Range(ids) \in SUBSET (staged \ S) /\ S \in SUBSET staged
          /\ staged' = (staged \ S) \ Range(ids) /\ info' = info
          /\ size' = size - Bytes(S)
      BY <1>2, <3>1 DEF Take, Takes, LeftAfterPrune
    <3> HIDE DEF S
    <3> QED
      BY <1>1, <2>2, <3>2, StartingRoom
  <2> QED BY <2>3, <2>4
<1>9. ASSUME NEW r \in Run, Download(r) \/ AcquireSlot(r) \/ Generate(r)
      PROVE  RoomInv'
  <2>1. UNCHANGED storeVars /\ \E pc : Goto(r, pc)
    BY <1>9 DEF Download, AcquireSlot, Generate
  <2>2. \A q \in Run : run'[q].files = run[q].files
    BY <2>1 DEF Goto, RoomInv, FilesInv, FilesTyped, RunState
  <2> QED BY <1>5, <2>1, <2>2
<1>10. ASSUME NEW r \in Run, End(r)
       PROVE  RoomInv'
  <2>1. /\ staged' = staged /\ info' = info /\ size' = size - Bytes(run[r].files)
        /\ run'[r].files = {} /\ \A q \in Run \ {r} : run'[q].files = run[q].files
    BY <1>10 DEF End, Free, Idle, RoomInv, FilesInv, FilesTyped
  <2> QED
    BY <1>1, <2>1, EndingRoom
<1>11. CASE Restart
  BY <1>1, <1>11, RestartingRoom
<1>12. CASE Tick \/ UNCHANGED vars
  BY <1>5, <1>12 DEF Tick, vars, storeVars
<1> QED
  BY <1>3, <1>6, <1>7, <1>8, <1>9, <1>10, <1>11, <1>12 DEF Next

(* Whatever clients stage, drop, take or let expire, and however runs and    *)
(* processes end, the bytes the store counts are those of the files staged   *)
(* and of those the runs read, and they never exceed the cap                  *)
(* (required_files.go:108-110).                                              *)
THEOREM TestRunsRoomAccounted == Spec => []RoomAccounted
<1> USE RequiredFilesAssumption, TestRunsAssumption
<1>1. Init => RoomInv
  BY RoomInit
<1>2. RoomInv /\ [Next]_vars => RoomInv'
  BY RoomStep
<1>3. RoomInv => RoomAccounted
  <2> SUFFICES ASSUME RoomInv PROVE RoomAccounted
    OBVIOUS
  <2>1. Bytes(staged) = Total(Weight, staged)
    BY BytesIsTotal DEF RoomInv, RoomTyped, FilesInv, FilesTyped
  <2>2. \A r \in Run : run[r].files \in SUBSET FileId /\ IsFiniteSet(run[r].files)
    BY DEF RoomInv, RoomTyped, FilesInv, FilesTyped, RunState
  <2>3. MapThenSumSet(LAMBDA r : Bytes(run[r].files), Run) = Total(ReadBytes, Run)
    BY <2>2, ReadIsTotal
  <2> QED
    BY <2>1, <2>3 DEF RoomInv, RoomCounted, RoomAccounted
<1> QED
  BY <1>1, <1>2, <1>3, PTL DEF Spec

-----------------------------------------------------------------------------
(* The slots of preflightSem: one for each test that generates.             *)
Holders == {r \in Run : At(r, "generate") /\ run[r].kind # "generation"}

(* What waits for a slot is a test; the slots taken are those of the tests.  *)
TestsWait == \A r \in Run : run[r].pc \in {"download", "wait"} => run[r].kind # "generation"
SlotsCounted == inUse = Cardinality(Holders) /\ inUse <= Slots
SlotsInv == FilesInv /\ TestsWait /\ SlotsCounted

LEMMA HoldersAreFew == IsFiniteSet(Run) => IsFiniteSet(Holders) /\ Cardinality(Holders) \in Nat
<1>1. Holders \subseteq Run
  BY DEF Holders
<1> QED BY <1>1, FS_Subset, FS_CardinalityType

LEMMA SlotsStep ==
    ASSUME SlotsInv, RequiredFilesAssumption, TestRunsAssumption, [Next]_vars
    PROVE  SlotsInv'
<1>1. FilesInv'
  BY FilesStep DEF SlotsInv
<1>2. IsFiniteSet(Holders) /\ Cardinality(Holders) \in Nat
  BY HoldersAreFew, TestRunsAssumption
<1>3. run \in [Run -> RunState]
  BY DEF SlotsInv, FilesInv, FilesTyped
<1>4. ASSUME UNCHANGED <<run, inUse>>
      PROVE  SlotsInv'
  BY <1>1, <1>4 DEF SlotsInv, TestsWait, SlotsCounted, Holders, At
<1>5. CASE StageFile \/ StageFileRefused \/ DropFile \/ SweepFiles \/ StartRefused
           \/ Tick \/ UNCHANGED vars
  BY <1>4, <1>5 DEF StageFile, StageFileRefused, DropFile, SweepFiles, StartRefused, Tick, vars
<1>6. ASSUME NEW r \in Run, UNCHANGED inUse, \A q \in Run \ {r} : run'[q] = run[q],
             r \notin Holders, run'[r].pc \in {"download", "wait"} => run'[r].kind # "generation",
             run'[r].pc = "generate" => run'[r].kind = "generation"
      PROVE  SlotsInv'
  <2>1. Holders' = Holders
    BY <1>6 DEF Holders, At
  <2>2. TestsWait'
    BY <1>6 DEF SlotsInv, TestsWait
  <2> QED BY <1>1, <1>6, <2>1, <2>2 DEF SlotsInv, SlotsCounted
<1>7. ASSUME NEW r \in Run, NEW ids \in Request \cup {<<>>},
             StartApworld(r, ids) \/ StartGeneration(r, ids) \/ StartSlot(r, ids)
      PROVE  SlotsInv'
  <2>1. /\ run[r] = Idle /\ UNCHANGED inUse
        /\ \A q \in Run \ {r} : run'[q] = run[q]
        /\ \/ run'[r].kind = "apworld" /\ run'[r].pc = "download"
           \/ run'[r].kind = "generation" /\ run'[r].pc = "generate"
           \/ run'[r].kind = "slot" /\ run'[r].pc = "wait"
    BY <1>3, <1>7 DEF StartApworld, StartGeneration, StartSlot, Starting
  <2> QED
    BY <1>6, <2>1 DEF Idle, Holders, At
<1>8. ASSUME NEW r \in Run, Download(r) \/ End(r)
      PROVE  SlotsInv'
  <2>1. /\ run[r].pc \in {"download", "done"} /\ UNCHANGED inUse
        /\ \A q \in Run \ {r} : run'[q] = run[q]
        /\ \/ run'[r].kind = run[r].kind /\ run[r].pc = "download" /\ run'[r].pc \in {"wait", "done"}
           \/ run'[r].pc = "idle"
    BY <1>3, <1>8 DEF Download, End, Goto, At, Idle, RunState
  <2> QED
    BY <1>6, <2>1 DEF Holders, At, SlotsInv, TestsWait
<1>9. ASSUME NEW r \in Run, AcquireSlot(r)
      PROVE  SlotsInv'
  <2>1. /\ run[r].pc = "wait" /\ inUse < Slots /\ inUse' = inUse + 1
        /\ \A q \in Run \ {r} : run'[q] = run[q]
        /\ run'[r].kind = run[r].kind /\ run'[r].pc = "generate"
    BY <1>3, <1>9 DEF AcquireSlot, Goto, At, RunState
  <2>2. Holders' = Holders \cup {r} /\ r \notin Holders
    BY <2>1 DEF Holders, At, SlotsInv, TestsWait
  <2>3. Cardinality(Holders') = Cardinality(Holders) + 1
    BY <1>2, <2>2, FS_AddElement
  <2>4. TestsWait'
    BY <2>1 DEF SlotsInv, TestsWait
  <2> QED
    BY <1>1, <1>2, <2>1, <2>3, <2>4, TestRunsAssumption DEF SlotsInv, SlotsCounted
<1>10. ASSUME NEW r \in Run, Generate(r)
       PROVE  SlotsInv'
  <2>1. /\ run[r].pc = "generate"
        /\ inUse' = IF run[r].kind = "generation" THEN inUse ELSE inUse - 1
        /\ \A q \in Run \ {r} : run'[q] = run[q]
        /\ run'[r].pc = "done"
    BY <1>3, <1>10 DEF Generate, Goto, At, RunState, LeaveSlot
  <2>2. CASE run[r].kind = "generation"
    BY <1>6, <2>1, <2>2 DEF Holders, At
  <2>3. CASE run[r].kind # "generation"
    <3>1. Holders' = Holders \ {r} /\ r \in Holders
      BY <2>1, <2>3 DEF Holders, At
    <3>2. Cardinality(Holders') = Cardinality(Holders) - 1
      BY <1>2, <3>1, FS_RemoveElement
    <3>3. TestsWait'
      BY <2>1 DEF SlotsInv, TestsWait
    <3> QED
      BY <1>1, <1>2, <2>1, <2>3, <3>2, <3>3, TestRunsAssumption DEF SlotsInv, SlotsCounted
  <2> QED BY <2>2, <2>3
<1>11. CASE Restart
  <2>1. inUse' = 0 /\ \A r \in Run : run'[r] = Idle
    BY <1>11 DEF Restart
  <2>2. Holders' = {} /\ TestsWait'
    BY <2>1 DEF Holders, At, Idle, TestsWait
  <2> QED
    BY <1>1, <2>1, <2>2, FS_EmptySet, TestRunsAssumption DEF SlotsInv, SlotsCounted
<1> QED
  BY <1>5, <1>7, <1>8, <1>9, <1>10, <1>11 DEF Next

LEMMA SlotsInit ==
    ASSUME Init, TestRunsAssumption PROVE SlotsInv
<1>1. inUse = 0 /\ \A r \in Run : run[r] = Idle
  BY DEF Init
<1>2. Holders = {} /\ TestsWait
  BY <1>1 DEF Holders, At, Idle, TestsWait
<1> QED
  BY <1>1, <1>2, FilesInit, FS_EmptySet, TestRunsAssumption DEF SlotsInv, SlotsCounted

(* The slots taken are those of the tests that generate, whatever failed: no *)
(* slot is given back twice or kept by a run that ended, and no more than    *)
(* PREFLIGHT_MAX_CONCURRENT tests generate at once.                          *)
THEOREM TestRunsSlotsCounted == Spec => []SlotsCounted
<1>1. Init => SlotsInv
  BY SlotsInit, TestRunsAssumption
<1>2. SlotsInv /\ [Next]_vars => SlotsInv'
  BY SlotsStep, RequiredFilesAssumption, TestRunsAssumption
<1>3. SlotsInv => SlotsCounted
  BY DEF SlotsInv
<1> QED
  BY <1>1, <1>2, <1>3, PTL DEF Spec

-----------------------------------------------------------------------------
(* The instants: none is later than the clock allows.                       *)
Timed ==
    /\ info \in [FileId -> [bytes : FileSize \cup {0}, until : 0..(MaxClock + FileTTL)]]
    /\ job \in [Run -> JobState]
    /\ clock \in 0..MaxClock

TypeInv == RoomInv /\ SlotsInv /\ Timed

LEMMA TimedStep ==
    ASSUME Timed, FilesInv, RequiredFilesAssumption, TestRunsAssumption, [Next]_vars
    PROVE  Timed'
<1> USE RequiredFilesAssumption, TestRunsAssumption
<1>1. \A t \in Past : t \in 0..MaxClock /\ t + FileTTL \in 0..(MaxClock + FileTTL)
  BY DEF Past, Timed
<1>2. CASE StageFile
  <2>1. PICK f \in FileId, b \in FileSize, t \in Past : Stage(f, b, t)
    BY <1>2 DEF StageFile
  <2>2. [bytes |-> b, until |-> t + FileTTL] \in
          [bytes : FileSize \cup {0}, until : 0..(MaxClock + FileTTL)]
    BY <1>1
  <2>3. info' = [info EXCEPT ![f] = [bytes |-> b, until |-> t + FileTTL]] /\ UNCHANGED <<job, clock>>
    BY <1>2, <2>1 DEF StageFile, Stage
  <2> QED BY <2>2, <2>3 DEF Timed
<1>3. CASE StageFileRefused \/ DropFile \/ SweepFiles \/ StartRefused \/ UNCHANGED vars
  <2>1. UNCHANGED <<info, job, clock>>
    BY <1>3 DEF StageFileRefused, DropFile, SweepFiles, StartRefused, vars,
         StageRefused, ReleaseFile, Prune, TakeRefused, storeVars
  <2> QED BY <2>1 DEF Timed
<1>4. ASSUME NEW r \in Run, NEW ids \in Request \cup {<<>>},
             StartApworld(r, ids) \/ StartGeneration(r, ids) \/ StartSlot(r, ids)
      PROVE  Timed'
  <2>1. info' = info /\ clock' = clock
    BY <1>4 DEF StartApworld, StartGeneration, StartSlot, Starting, TakeFiles, Take, storeVars
  <2>2. job' \in [Run -> JobState]
    <3>1. CASE StartSlot(r, ids)
      <4>1. PICK t \in Past :
               job' = [q \in Run |-> IF q = r THEN [status |-> "pending", at |-> t]
                                     ELSE IF t - job[q].at > JobTTL THEN NoJob ELSE job[q]]
        BY <3>1 DEF StartSlot
      <4>2. NoJob \in JobState /\ [status |-> "pending", at |-> t] \in JobState
        BY <1>1 DEF NoJob, JobState
      <4> QED BY <4>1, <4>2 DEF Timed
    <3>2. CASE ~StartSlot(r, ids)
      BY <1>4, <3>2 DEF StartApworld, StartGeneration, Timed
    <3> QED BY <3>1, <3>2
  <2> QED BY <2>1, <2>2 DEF Timed
<1>5. ASSUME NEW r \in Run, Download(r) \/ AcquireSlot(r) \/ Generate(r) \/ End(r)
      PROVE  Timed'
  <2>1. info' = info /\ clock' = clock
    BY <1>5 DEF Download, AcquireSlot, Generate, End, Free, storeVars
  <2>2. job' = job \/ \E out \in {"passed", "failed"} : job' = [job EXCEPT ![r].status = out]
    BY <1>5 DEF Download, AcquireSlot, Generate, End, Finish
  <2>3. job' \in [Run -> JobState]
    BY <2>2 DEF Timed, JobState
  <2> QED BY <2>1, <2>3 DEF Timed
<1>6. CASE Restart
  BY <1>6 DEF Restart, ForgetFiles, Timed, NoJob, JobState
<1>7. CASE Tick
  BY <1>7 DEF Tick, storeVars, Timed
<1> QED
  BY <1>2, <1>3, <1>4, <1>5, <1>6, <1>7 DEF Next

(* Rows, jobs, files and slots are well typed.                               *)
THEOREM TestRunsTypeCorrect == Spec => []TypeOK
<1> USE RequiredFilesAssumption, TestRunsAssumption
<1>1. Init => TypeInv
  <2>1. Init => Timed
    BY DEF Init, StoreInit, NeverStaged, NoJob, JobState, Timed
  <2> QED BY <2>1, RoomInit, SlotsInit DEF TypeInv
<1>2. TypeInv /\ [Next]_vars => TypeInv'
  BY RoomStep, SlotsStep, TimedStep DEF TypeInv, RoomInv
<1>3. TypeInv => TypeOK
  <2> SUFFICES ASSUME TypeInv PROVE TypeOK
    OBVIOUS
  <2>1. size \in 0..MaxBytes
    BY RoomIsNat DEF TypeInv, RoomInv, RoomCounted
  <2>2. inUse \in 0..Slots
    BY HoldersAreFew DEF TypeInv, SlotsInv, SlotsCounted
  <2> QED
    BY <2>1, <2>2 DEF TypeInv, RoomInv, FilesInv, FilesTyped, Timed, TypeOK
<1> QED
  BY <1>1, <1>2, <1>3, PTL DEF Spec
=============================================================================
