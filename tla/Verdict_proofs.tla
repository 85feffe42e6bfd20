---------------------------- MODULE Verdict_proofs ----------------------------
(***************************************************************************)
(* Proofs, for any runs, that a settled verdict is free and that a run      *)
(* started before another one does not replace the verdict of the latter.   *)
(***************************************************************************)
EXTENDS Verdict, TLAPS

(* What SettledIsFree says of the verdict, of any copy.                     *)
IsFree(p) ==
    /\ p.owner # NoRun => p.status = "pending"
    /\ p.pendingWithFiles => p.owner # NoRun

(* Stale copies are put back, so they must be free as well.                 *)
CopiesFree ==
    /\ IsFree(verdict) /\ IsFree(override.copy)
    /\ \A r \in Run : IsFree(run[r].copy) /\ IsFree(run[r].previous)

(* A run has a verdict when it comes to store it.                           *)
OutSettled == \A r \in Run : RunAt(r, "store") => run[r].out \in Settled

(* A run holds the mutex only where it changes the object.                  *)
LockedMutates == \A r \in Run : run[r].locked => Mutates(r)

FreeInv == VerdictTypeOK /\ CopiesFree /\ OutSettled /\ LockedMutates

-----------------------------------------------------------------------------
LEMMA NoVerdictFacts ==
    /\ NoVerdict \in ApworldPreflight
    /\ IsFree(NoVerdict)
    /\ IdleRun \in RunState
    /\ IdleRun.locked = FALSE /\ IdleRun.copy = NoVerdict /\ IdleRun.previous = NoVerdict
    /\ NoOverride \in [on : BOOLEAN, copy : ApworldPreflight, value : BOOLEAN]
    /\ NoOverride.copy = NoVerdict
BY VerdictAssumption DEF NoVerdict, ApworldPreflight, IsFree, IdleRun, RunState, NoOverride, Settled

LEMMA InitFree == VerdictInit => FreeInv
BY NoVerdictFacts, VerdictAssumption
   DEF VerdictInit, FreeInv, VerdictTypeOK, CopiesFree, OutSettled, LockedMutates, RunAt, IdleRun

(* A step that gives one run r the state q, unlocked or alone locked, and   *)
(* keeps the rest, keeps the invariant when q is typed and its copies free. *)
LEMMA RunStep ==
    ASSUME FreeInv, NEW r \in Run, NEW q \in RunState,
           run' = [run EXCEPT ![r] = q],
           q.locked => \A o \in Run : ~run[o].locked,
           IsFree(q.copy), IsFree(q.previous),
           q.pc = "store" => q.out \in Settled,
           q.locked => q.pc \in {"mark", "begin", "store", "restore"},
           verdict' \in ApworldPreflight, IsFree(verdict'),
           newest' \in Run \cup {NoRun},
           UNCHANGED override
    PROVE  FreeInv'
<1>1. run' \in [Run -> RunState]
  BY DEF FreeInv, VerdictTypeOK
<1>2. \A o \in Run : run'[o] = IF o = r THEN q ELSE run[o]
  BY DEF FreeInv, VerdictTypeOK
<1>3. \A o, w \in Run : run'[o].locked /\ run'[w].locked => o = w
  BY <1>2 DEF FreeInv, VerdictTypeOK
<1>4. VerdictTypeOK'
  BY <1>1, <1>3 DEF FreeInv, VerdictTypeOK
<1>5. CopiesFree'
  BY <1>2 DEF FreeInv, CopiesFree, IsFree
<1>6. OutSettled'
  BY <1>2 DEF FreeInv, OutSettled, RunAt
<1>7. LockedMutates'
  BY <1>2 DEF FreeInv, LockedMutates, Mutates
<1> QED
  BY <1>4, <1>5, <1>6, <1>7 DEF FreeInv

-----------------------------------------------------------------------------
LEMMA MutatedFree ==
    ASSUME FreeInv, NEW r \in Run, Mutates(r)
    PROVE  Mutated(r, run[r].copy) \in ApworldPreflight /\ IsFree(Mutated(r, run[r].copy))
<1> DEFINE p == run[r].copy
<1>1. run[r] \in RunState /\ IsFree(p) /\ IsFree(run[r].previous)
  BY DEF FreeInv, VerdictTypeOK, CopiesFree
<1>2. p \in ApworldPreflight /\ run[r].previous \in ApworldPreflight
  BY <1>1 DEF RunState
<1>3. CASE RunAt(r, "mark")
  <2>1. Mutated(r, p) = MarkPending(r, p)
    BY <1>3 DEF Mutated, RunAt
  <2>2. run[r].files \in BOOLEAN /\ p.overridden \in BOOLEAN
    BY <1>1, <1>2 DEF RunState, ApworldPreflight
  <2>3. MarkPending(r, p) \in ApworldPreflight
    BY <2>2 DEF MarkPending, ApworldPreflight
  <2>4. IsFree(MarkPending(r, p))
    BY VerdictAssumption DEF MarkPending, IsFree
  <2> QED
    BY <2>1, <2>3, <2>4
<1>4. CASE RunAt(r, "begin")
  BY <1>1, <1>2, <1>4 DEF Mutated, RunAt
<1>5. CASE RunAt(r, "store")
  <2>1. Mutated(r, p) = StoreVerdict(r, p)
    BY <1>5 DEF Mutated, RunAt
  <2>2. CASE ~OwnsRun(r, p)
    BY <1>1, <1>2, <2>1, <2>2 DEF StoreVerdict
  <2>3. CASE OwnsRun(r, p)
    <3>1. run[r].out \in Settled
      BY <1>1, <1>5 DEF FreeInv, OutSettled, RunAt
    <3> QED
      BY <1>2, <2>1, <2>3, <3>1 DEF StoreVerdict, ApworldPreflight, IsFree
  <2> QED
    BY <2>2, <2>3
<1>6. CASE RunAt(r, "restore")
  BY <1>1, <1>2, <1>6 DEF Mutated, RunAt
<1> QED
  BY <1>3, <1>4, <1>5, <1>6 DEF Mutates, RunAt

(* A run in state q has dropped its copy, and may be where it is.           *)
Moved(q) ==
    /\ q \in RunState
    /\ q.locked = FALSE
    /\ IsFree(q.copy) /\ IsFree(q.previous)
    /\ q.pc = "store" => q.out \in Settled

LEMMA OnwardMoved ==
    ASSUME FreeInv, NEW r \in Run,
           NEW pc \in {"download", "begin", "generate", "store", "restore"},
           NEW out \in {"none"} \cup Settled, pc = "store" => out \in Settled
    PROVE  Moved(Onward(r, pc, out))
<1>1. run[r] \in RunState /\ IsFree(run[r].previous)
  BY DEF FreeInv, VerdictTypeOK, CopiesFree
<1> QED
  BY <1>1, NoVerdictFacts DEF Onward, RunState, Moved

LEMMA AfterMoved ==
    ASSUME FreeInv, NEW r \in Run, NEW written \in BOOLEAN
    PROVE  Moved(After(r, written))
<1>1. Moved(Onward(r, "download", "none"))
  BY OnwardMoved
<1>2. Moved(Onward(r, "generate", "none"))
  BY OnwardMoved
<1>3. Moved(Onward(r, "restore", "none"))
  BY OnwardMoved
<1>4. Moved(IdleRun)
  BY NoVerdictFacts DEF Moved, IdleRun
<1> QED
  BY <1>1, <1>2, <1>3, <1>4 DEF After

(* The steps of a run that lock nothing and keep no copy.                   *)
LEMMA MovedStep ==
    ASSUME FreeInv, NEW r \in Run, NEW q, Moved(q), run' = [run EXCEPT ![r] = q],
           verdict' \in ApworldPreflight, IsFree(verdict'),
           newest' \in Run \cup {NoRun},
           UNCHANGED override
    PROVE  FreeInv'
BY RunStep DEF Moved

(* A failure of MinIO counts as no verdict: what is read is free as well.   *)
LEMMA ReadFree ==
    ASSUME FreeInv, NEW p \in Read
    PROVE  p \in ApworldPreflight /\ IsFree(p)
BY NoVerdictFacts DEF FreeInv, VerdictTypeOK, CopiesFree, Read

LEMMA KeptVerdict ==
    ASSUME FreeInv, UNCHANGED <<verdict, override, newest>>
    PROVE  /\ verdict' \in ApworldPreflight /\ IsFree(verdict')
           /\ newest' \in Run \cup {NoRun}
           /\ UNCHANGED override
BY DEF FreeInv, VerdictTypeOK, CopiesFree, IsFree

LEMMA StartFree == FreeInv /\ (\E r \in Run : Start(r)) => FreeInv'
<1> SUFFICES ASSUME FreeInv, NEW r \in Run, Start(r) PROVE FreeInv'
  OBVIOUS
<1>1. PICK p \in Read, files \in BOOLEAN :
        run' = [run EXCEPT ![r] = [kind |-> "start", pc |-> "mark", files |-> files,
                                   out |-> "none", locked |-> FALSE,
                                   previous |-> p, copy |-> NoVerdict]]
  BY DEF Start
<1> DEFINE q == [kind |-> "start", pc |-> "mark", files |-> files, out |-> "none",
                 locked |-> FALSE, previous |-> p, copy |-> NoVerdict]
<1>2. Moved(q)
  BY ReadFree, NoVerdictFacts DEF Start, Moved, RunState
<1>3. /\ verdict' \in ApworldPreflight /\ IsFree(verdict')
      /\ newest' \in Run \cup {NoRun} /\ UNCHANGED override
  BY KeptVerdict DEF Start
<1> QED
  BY <1>1, <1>2, <1>3, MovedStep

LEMMA UploadFree == FreeInv /\ (\E r \in Run : Upload(r)) => FreeInv'
<1> SUFFICES ASSUME FreeInv, NEW r \in Run, Upload(r) PROVE FreeInv'
  OBVIOUS
<1>1. PICK p \in Read :
        run' = [run EXCEPT ![r] = [kind |-> "upload", pc |-> "upload", files |-> FALSE,
                                   out |-> "none", locked |-> FALSE,
                                   previous |-> NoVerdict, copy |-> p]]
  BY DEF Upload
<1> DEFINE q == [kind |-> "upload", pc |-> "upload", files |-> FALSE, out |-> "none",
                 locked |-> FALSE, previous |-> NoVerdict, copy |-> p]
<1>2. Moved(q)
  BY ReadFree, NoVerdictFacts DEF Upload, Moved, RunState
<1>3. /\ verdict' \in ApworldPreflight /\ IsFree(verdict')
      /\ newest' \in Run \cup {NoRun} /\ UNCHANGED override
  BY KeptVerdict DEF Upload
<1> QED
  BY <1>1, <1>2, <1>3, MovedStep

(* The upload itself: the object is pending and nobody's.                   *)
LEMMA UploadMetaFree == FreeInv /\ (\E r \in Run : UploadMeta(r)) => FreeInv'
<1> SUFFICES ASSUME FreeInv, NEW r \in Run, UploadMeta(r) PROVE FreeInv'
  OBVIOUS
<1>1. run[r].copy.overridden \in BOOLEAN
  BY DEF FreeInv, VerdictTypeOK, RunState, ApworldPreflight
<1>2. verdict' \in ApworldPreflight /\ IsFree(verdict')
  <2>1. CASE verdict' = [status |-> "pending", owner |-> NoRun, pendingWithFiles |-> FALSE,
                         overridden |-> run[r].copy.overridden]
    BY <1>1, <2>1 DEF ApworldPreflight, IsFree
  <2>2. CASE UNCHANGED verdict
    BY <2>2 DEF FreeInv, VerdictTypeOK, CopiesFree, IsFree
  <2> QED
    BY <2>1, <2>2 DEF UploadMeta
<1>3. newest' \in Run \cup {NoRun}
  BY DEF UploadMeta, FreeInv, VerdictTypeOK
<1>4. run' = [run EXCEPT ![r] = Onward(r, "download", "none")] /\ UNCHANGED override
  BY DEF UploadMeta
<1>5. Moved(Onward(r, "download", "none"))
  BY OnwardMoved
<1> QED
  BY <1>2, <1>3, <1>4, <1>5, MovedStep

LEMMA DownloadFree == FreeInv /\ (\E r \in Run : Download(r)) => FreeInv'
<1> SUFFICES ASSUME FreeInv, NEW r \in Run, Download(r) PROVE FreeInv'
  OBVIOUS
<1>1. Moved(Onward(r, "begin", "none"))
  BY OnwardMoved
<1>2. Moved(Onward(r, "store", "failed"))
  BY OnwardMoved DEF Settled
<1>3. Moved(Failed(r))
  <2>1. Moved(Onward(r, "restore", "none"))
    BY OnwardMoved
  <2>2. Moved(IdleRun)
    BY NoVerdictFacts DEF Moved, IdleRun
  <2> QED
    BY <2>1, <2>2 DEF Failed
<1>4. \E q : Moved(q) /\ run' = [run EXCEPT ![r] = q]
  BY <1>1, <1>2, <1>3 DEF Download
<1>5. /\ verdict' \in ApworldPreflight /\ IsFree(verdict')
      /\ newest' \in Run \cup {NoRun} /\ UNCHANGED override
  BY KeptVerdict DEF Download
<1> QED
  BY <1>4, <1>5, MovedStep

LEMMA GenerateFree == FreeInv /\ (\E r \in Run : Generate(r)) => FreeInv'
<1> SUFFICES ASSUME FreeInv, NEW r \in Run, Generate(r) PROVE FreeInv'
  OBVIOUS
<1>1. PICK out \in Settled : run' = [run EXCEPT ![r] = Onward(r, "store", out)]
  BY DEF Generate
<1>2. Moved(Onward(r, "store", out))
  BY OnwardMoved
<1>3. /\ verdict' \in ApworldPreflight /\ IsFree(verdict')
      /\ newest' \in Run \cup {NoRun} /\ UNCHANGED override
  BY KeptVerdict DEF Generate
<1> QED
  BY <1>1, <1>2, <1>3, MovedStep

(* The copy that is put back later is the verdict, which is free.           *)
LEMMA GetMetaFree == FreeInv /\ (\E r \in Run : GetMeta(r)) => FreeInv'
<1> SUFFICES ASSUME FreeInv, NEW r \in Run, GetMeta(r) PROVE FreeInv'
  OBVIOUS
<1> DEFINE q == [kind |-> run[r].kind, files |-> run[r].files,
                 previous |-> run[r].previous, pc |-> run[r].pc, out |-> run[r].out,
                 locked |-> TRUE, copy |-> verdict]
<1>1. run[r] \in RunState /\ verdict \in ApworldPreflight
  BY DEF FreeInv, VerdictTypeOK
<1>2. q \in RunState
  BY <1>1 DEF RunState
<1>3. IsFree(q.copy) /\ IsFree(q.previous)
  BY DEF FreeInv, CopiesFree
<1>4. q.pc = "store" => q.out \in Settled
  BY DEF FreeInv, OutSettled, RunAt
<1>5. run' = [run EXCEPT ![r] = q] /\ \A o \in Run : ~run[o].locked
  BY DEF GetMeta, MuFree
<1>7. q.locked => q.pc \in {"mark", "begin", "store", "restore"}
  BY DEF GetMeta, Mutates
<1>6. /\ verdict' \in ApworldPreflight /\ IsFree(verdict')
      /\ newest' \in Run \cup {NoRun} /\ UNCHANGED override
  BY KeptVerdict DEF GetMeta
<1> HIDE DEF q
<1> QED
  BY <1>2, <1>3, <1>4, <1>5, <1>6, <1>7, RunStep

(* What is put is what the change makes of a free copy.                     *)
LEMMA PutMetaFree == FreeInv /\ (\E r \in Run : PutMeta(r)) => FreeInv'
<1> SUFFICES ASSUME FreeInv, NEW r \in Run, PutMeta(r) PROVE FreeInv'
  OBVIOUS
<1>1. Mutates(r)
  BY DEF PutMeta, FreeInv, LockedMutates
<1>2. verdict' \in ApworldPreflight /\ IsFree(verdict')
  BY <1>1, MutatedFree DEF PutMeta, IsFree
<1>3. verdict'.owner \in Run \cup {NoRun}
  BY <1>2 DEF ApworldPreflight
<1>4. newest' \in Run \cup {NoRun}
  BY <1>3 DEF PutMeta, FreeInv, VerdictTypeOK
<1>5. run' = [run EXCEPT ![r] = After(r, TRUE)] /\ UNCHANGED override
  BY DEF PutMeta
<1>6. Moved(After(r, TRUE))
  BY AfterMoved
<1> QED
  BY <1>2, <1>4, <1>5, <1>6, MovedStep

LEMMA MetaFailsFree == FreeInv /\ (\E r \in Run : MetaFails(r)) => FreeInv'
<1> SUFFICES ASSUME FreeInv, NEW r \in Run, MetaFails(r) PROVE FreeInv'
  OBVIOUS
<1>1. run' = [run EXCEPT ![r] = After(r, FALSE)]
  BY DEF MetaFails
<1>2. Moved(After(r, FALSE))
  BY AfterMoved
<1>3. /\ verdict' \in ApworldPreflight /\ IsFree(verdict')
      /\ newest' \in Run \cup {NoRun} /\ UNCHANGED override
  BY KeptVerdict DEF MetaFails
<1> QED
  BY <1>1, <1>2, <1>3, MovedStep

-----------------------------------------------------------------------------
(* The writers without the mutex, and the restart.                          *)
LEMMA RunsKept ==
    ASSUME FreeInv, UNCHANGED run, verdict' \in ApworldPreflight, IsFree(verdict'),
           newest' \in Run \cup {NoRun},
           override' \in [on : BOOLEAN, copy : ApworldPreflight, value : BOOLEAN],
           IsFree(override'.copy)
    PROVE  FreeInv'
BY DEF FreeInv, VerdictTypeOK, CopiesFree, IsFree, OutSettled, LockedMutates, Mutates, RunAt

LEMMA OverrideGetFree == FreeInv /\ OverrideGet => FreeInv'
<1> SUFFICES ASSUME FreeInv, OverrideGet PROVE FreeInv'
  OBVIOUS
<1>1. PICK v \in Overrides : override' = [on |-> TRUE, copy |-> verdict, value |-> v]
  BY DEF OverrideGet
<1>2. override' \in [on : BOOLEAN, copy : ApworldPreflight, value : BOOLEAN]
  BY <1>1, VerdictAssumption DEF FreeInv, VerdictTypeOK
<1>3. IsFree(override'.copy)
  BY <1>1 DEF FreeInv, CopiesFree
<1>4. verdict' \in ApworldPreflight /\ IsFree(verdict') /\ newest' \in Run \cup {NoRun}
      /\ UNCHANGED run
  BY DEF OverrideGet, FreeInv, VerdictTypeOK, CopiesFree, IsFree
<1> QED
  BY <1>2, <1>3, <1>4, RunsKept

LEMMA OverridePutFree == FreeInv /\ OverridePut => FreeInv'
<1> SUFFICES ASSUME FreeInv, OverridePut PROVE FreeInv'
  OBVIOUS
<1> DEFINE c == override.copy
<1>1. c \in ApworldPreflight /\ override.value \in BOOLEAN /\ IsFree(c)
  BY DEF FreeInv, VerdictTypeOK, CopiesFree
<1>2. verdict' = [c EXCEPT !.overridden = override.value]
  BY DEF OverridePut
<1>3. verdict' \in ApworldPreflight
  BY <1>1, <1>2 DEF ApworldPreflight
<1>4. /\ verdict'.owner = c.owner
      /\ verdict'.status = c.status
      /\ verdict'.pendingWithFiles = c.pendingWithFiles
  BY <1>1, <1>2 DEF ApworldPreflight
<1>5. IsFree(verdict')
  BY <1>1, <1>4 DEF IsFree
<1>6. /\ override' \in [on : BOOLEAN, copy : ApworldPreflight, value : BOOLEAN]
      /\ IsFree(override'.copy)
  BY NoVerdictFacts DEF OverridePut
<1>7. newest' \in Run \cup {NoRun} /\ UNCHANGED run
  BY DEF OverridePut
<1> QED
  BY <1>3, <1>5, <1>6, <1>7, RunsKept

LEMMA RestartFree == FreeInv /\ RestartProcess => FreeInv'
<1> SUFFICES ASSUME FreeInv, RestartProcess PROVE FreeInv'
  OBVIOUS
<1>1. \A r \in Run : run'[r] = IdleRun
  BY DEF RestartProcess
<1>2. VerdictTypeOK'
  BY <1>1, NoVerdictFacts DEF RestartProcess, FreeInv, VerdictTypeOK
<1>3. CopiesFree'
  BY <1>1, NoVerdictFacts DEF RestartProcess, FreeInv, CopiesFree, IsFree
<1>4. OutSettled'
  BY <1>1 DEF OutSettled, RunAt, IdleRun
<1>5. LockedMutates'
  BY <1>1, NoVerdictFacts DEF LockedMutates
<1> QED
  BY <1>2, <1>3, <1>4, <1>5 DEF FreeInv

LEMMA StepFree == FreeInv /\ [VerdictNext]_verdictVars => FreeInv'
<1> SUFFICES ASSUME FreeInv, [VerdictNext]_verdictVars PROVE FreeInv'
  OBVIOUS
<1>1. CASE \E r \in Run :
        \/ Start(r) \/ Upload(r) \/ UploadMeta(r) \/ Download(r) \/ Generate(r)
        \/ GetMeta(r) \/ PutMeta(r) \/ MetaFails(r)
  BY <1>1, StartFree, UploadFree, UploadMetaFree, DownloadFree, GenerateFree,
     GetMetaFree, PutMetaFree, MetaFailsFree
<1>2. CASE OverrideGet
  BY <1>2, OverrideGetFree
<1>3. CASE OverridePut
  BY <1>3, OverridePutFree
<1>4. CASE RestartProcess
  BY <1>4, RestartFree
<1>5. CASE UNCHANGED verdictVars
  BY <1>5 DEF verdictVars, FreeInv, VerdictTypeOK, CopiesFree, IsFree, OutSettled, LockedMutates, Mutates, RunAt
<1> QED
  BY <1>1, <1>2, <1>3, <1>4, <1>5 DEF VerdictNext

LEMMA FreeInvariant == VerdictSpec => []FreeInv
BY InitFree, StepFree, PTL DEF VerdictSpec

(* The verdict and the runs are well typed, and the mutex of the metadata   *)
(* is held by one run at most, however calls to MinIO fail.                 *)
THEOREM VerdictTypeCorrect == VerdictSpec => []VerdictTypeOK
<1>1. FreeInv => VerdictTypeOK
  BY DEF FreeInv
<1> QED
  BY <1>1, FreeInvariant, PTL

(* A settled verdict has no owner and withholds no files, for any runs that *)
(* interleave with uploads, overrides and restarts.                         *)
THEOREM VerdictSettledIsFree == VerdictSpec => []SettledIsFree
<1>1. FreeInv => SettledIsFree
  BY DEF FreeInv, CopiesFree, IsFree, SettledIsFree
<1> QED
  BY <1>1, FreeInvariant, PTL

-----------------------------------------------------------------------------
(* Until a writer without the mutex comes, the owner of the verdict is the  *)
(* run that was last given it, and a copy taken under the mutex is current. *)
NewestInv ==
    /\ verdict.owner # NoRun => newest \in {verdict.owner, NoRun}
    /\ \A r \in Run : run[r].locked => run[r].copy = verdict \/ newest = NoRun

LEMMA InitNewest == VerdictInit => NewestInv
BY NoVerdictFacts DEF VerdictInit, NewestInv, NoVerdict

(* Steps of a run that leave the verdict alone.                             *)
LEMMA QuietStep ==
    ASSUME FreeInv, NewestInv, NEW r \in Run, NEW q,
           run' = [run EXCEPT ![r] = q],
           q.locked => q.copy = verdict,
           UNCHANGED <<verdict, newest>>
    PROVE  NewestInv'
<1>1. \A o \in Run : run'[o] = IF o = r THEN q ELSE run[o]
  BY DEF FreeInv, VerdictTypeOK
<1> QED
  BY <1>1 DEF NewestInv

(* Steps after which nobody can tell which run came last.                   *)
LEMMA UnlockedWriterNewest ==
    ASSUME NewestInv, newest' = NoRun
    PROVE  NewestInv'
BY DEF NewestInv

LEMMA QuietRun ==
    ASSUME FreeInv, NewestInv, NEW r \in Run,
           \/ Start(r) \/ Upload(r) \/ Download(r) \/ Generate(r) \/ GetMeta(r) \/ MetaFails(r)
    PROVE  NewestInv'
<1>1. CASE Start(r)
  <2>1. PICK p \in Read, files \in BOOLEAN :
          run' = [run EXCEPT ![r] = [kind |-> "start", pc |-> "mark", files |-> files,
                                     out |-> "none", locked |-> FALSE,
                                     previous |-> p, copy |-> NoVerdict]]
    BY <1>1 DEF Start
  <2> DEFINE q == [kind |-> "start", pc |-> "mark", files |-> files, out |-> "none",
                   locked |-> FALSE, previous |-> p, copy |-> NoVerdict]
  <2>2. q.locked = FALSE /\ UNCHANGED <<verdict, newest>>
    BY <1>1 DEF Start
  <2> QED
    BY <2>1, <2>2, QuietStep
<1>2. CASE Upload(r)
  <2>1. PICK p \in Read :
          run' = [run EXCEPT ![r] = [kind |-> "upload", pc |-> "upload", files |-> FALSE,
                                     out |-> "none", locked |-> FALSE,
                                     previous |-> NoVerdict, copy |-> p]]
    BY <1>2 DEF Upload
  <2> DEFINE q == [kind |-> "upload", pc |-> "upload", files |-> FALSE, out |-> "none",
                   locked |-> FALSE, previous |-> NoVerdict, copy |-> p]
  <2>2. q.locked = FALSE /\ UNCHANGED <<verdict, newest>>
    BY <1>2 DEF Upload
  <2> QED
    BY <2>1, <2>2, QuietStep
<1>3. CASE Download(r)
  <2>1. \A pc, out : Onward(r, pc, out).locked = FALSE
    BY DEF Onward
  <2>2. Failed(r).locked = FALSE
    BY <2>1, NoVerdictFacts DEF Failed
  <2>3. \E q : run' = [run EXCEPT ![r] = q] /\ q.locked = FALSE
    BY <1>3, <2>1, <2>2 DEF Download
  <2> QED
    BY <1>3, <2>3, QuietStep DEF Download
<1>4. CASE Generate(r)
  <2>1. PICK out : run' = [run EXCEPT ![r] = Onward(r, "store", out)]
    BY <1>4 DEF Generate
  <2>2. Onward(r, "store", out).locked = FALSE
    BY DEF Onward
  <2> QED
    BY <1>4, <2>1, <2>2, QuietStep DEF Generate
<1>5. CASE GetMeta(r)
  <2> DEFINE q == [kind |-> run[r].kind, files |-> run[r].files,
                   previous |-> run[r].previous, pc |-> run[r].pc, out |-> run[r].out,
                   locked |-> TRUE, copy |-> verdict]
  <2>1. run' = [run EXCEPT ![r] = q] /\ UNCHANGED <<verdict, newest>>
    BY <1>5 DEF GetMeta
  <2>2. q.copy = verdict
    OBVIOUS
  <2> QED
    BY <2>1, <2>2, QuietStep
<1>6. CASE MetaFails(r)
  <2>1. After(r, FALSE).locked = FALSE
    BY AfterMoved DEF Moved
  <2> QED
    BY <1>6, <2>1, QuietStep DEF MetaFails
<1> QED
  BY <1>1, <1>2, <1>3, <1>4, <1>5, <1>6

(* A run that puts its copy back: it is last now, or it gives the verdict   *)
(* back to the owner it had, or the verdict keeps its owner or has none.    *)
LEMMA PutMetaNewest ==
    ASSUME FreeInv, NewestInv, NEW r \in Run, PutMeta(r)
    PROVE  NewestInv'
<1> DEFINE p == run[r].copy
<1>1. Mutates(r) /\ run[r].locked
  BY DEF PutMeta, FreeInv, LockedMutates
<1>2. \A o \in Run : ~run'[o].locked
  <2>1. After(r, TRUE).locked = FALSE
    BY AfterMoved DEF Moved
  <2>2. run' = [run EXCEPT ![r] = After(r, TRUE)]
    BY DEF PutMeta
  <2> QED
    BY <1>1, <2>1, <2>2 DEF FreeInv, VerdictTypeOK
<1>3. p = verdict \/ newest = NoRun
  BY <1>1 DEF NewestInv
<1>4. verdict' = Mutated(r, p)
  BY DEF PutMeta
<1>5. verdict'.owner # NoRun => newest' \in {verdict'.owner, NoRun}
  <2>1. CASE RunAt(r, "mark")
    <3>1. verdict'.owner = r /\ newest' = r
      BY <1>4, <2>1 DEF Mutated, MarkPending, PutMeta
    <3> QED
      BY <3>1
  <2>2. CASE RunAt(r, "restore") /\ OwnsRun(r, p)
    <3>1. newest' = verdict'.owner
      BY <2>2 DEF PutMeta, RunAt
    <3> QED
      BY <3>1
  <2>3. CASE RunAt(r, "store") /\ OwnsRun(r, p)
    <3>1. verdict'.owner = NoRun
      BY <1>4, <2>3 DEF Mutated, StoreVerdict, RunAt
    <3> QED
      BY <3>1
  <2>4. CASE ~RunAt(r, "mark") /\ ~((RunAt(r, "restore") \/ RunAt(r, "store")) /\ OwnsRun(r, p))
    <3>1. verdict' = p
      BY <1>4, <2>4 DEF Mutated, StoreVerdict
    <3>2. newest' = newest
      BY <2>4 DEF PutMeta
    <3> QED
      BY <1>3, <3>1, <3>2 DEF NewestInv
  <2> QED
    BY <2>1, <2>2, <2>3, <2>4
<1> QED
  BY <1>2, <1>5 DEF NewestInv

LEMMA StepNewest == FreeInv /\ NewestInv /\ [VerdictNext]_verdictVars => NewestInv'
<1> SUFFICES ASSUME FreeInv, NewestInv, [VerdictNext]_verdictVars PROVE NewestInv'
  OBVIOUS
<1>1. ASSUME NEW r \in Run, UploadMeta(r) PROVE NewestInv'
  <2>1. CASE newest' = NoRun
    BY <2>1, UnlockedWriterNewest
  <2>2. CASE UNCHANGED <<verdict, newest>>
    <3>1. Onward(r, "download", "none").locked = FALSE
      BY DEF Onward
    <3> QED
      BY <1>1, <2>2, <3>1, QuietStep DEF UploadMeta
  <2> QED
    BY <1>1, <2>1, <2>2 DEF UploadMeta
<1>2. CASE OverrideGet
  BY <1>2 DEF OverrideGet, NewestInv
<1>3. CASE OverridePut
  BY <1>3, UnlockedWriterNewest DEF OverridePut
<1>4. CASE RestartProcess
  BY <1>4, NoVerdictFacts DEF RestartProcess, NewestInv
<1>5. CASE UNCHANGED verdictVars
  BY <1>5 DEF verdictVars, NewestInv
<1> QED
  BY <1>1, <1>2, <1>3, <1>4, <1>5, QuietRun, PutMetaNewest DEF VerdictNext

(* A started run settles the verdict only when it is the last one given it. *)
LEMMA StoreIsNewest ==
    ASSUME FreeInv, NewestInv, [VerdictNext]_verdictVars, NEW r \in Run,
           run[r].kind = "start", ChangesVerdict(r)
    PROVE  newest \in {r, NoRun}
<1> DEFINE p == run[r].copy
<1>1. RunAt(r, "store") /\ run[r].locked /\ ~run'[r].locked /\ verdict' # verdict
  BY DEF ChangesVerdict
<1>2. ASSUME NEW o \in Run, NEW q, run' = [run EXCEPT ![o] = q], o # r PROVE FALSE
  BY <1>1, <1>2 DEF FreeInv, VerdictTypeOK
<1>3. PutMeta(r)
  <2>1. ASSUME NEW o \in Run, UploadMeta(o) PROVE FALSE
    BY <1>1, <1>2, <2>1 DEF UploadMeta, RunAt
  <2>2. ASSUME NEW o \in Run, PutMeta(o) PROVE o = r
    BY <1>1, <1>2, <2>2 DEF PutMeta
  <2>3. ~OverridePut /\ ~OverrideGet /\ ~RestartProcess /\ ~UNCHANGED verdictVars
    BY <1>1 DEF OverridePut, OverrideGet, RestartProcess, verdictVars
  <2>4. ASSUME NEW o \in Run,
               \/ Start(o) \/ Upload(o) \/ Download(o) \/ Generate(o) \/ GetMeta(o) \/ MetaFails(o)
        PROVE  FALSE
    BY <1>1, <2>4 DEF Start, Upload, Download, Generate, GetMeta, MetaFails
  <2> QED
    BY <2>1, <2>2, <2>3, <2>4 DEF VerdictNext
<1>4. verdict' = StoreVerdict(r, p)
  BY <1>1, <1>3 DEF PutMeta, Mutated, RunAt
<1>5. p = verdict \/ newest = NoRun
  BY <1>1 DEF NewestInv
<1>6. CASE OwnsRun(r, p)
  <2>1. p.owner = r
    BY <1>6 DEF OwnsRun, RunId
  <2> QED
    BY <1>5, <2>1, VerdictAssumption DEF NewestInv
<1>7. CASE ~OwnsRun(r, p)
  BY <1>1, <1>4, <1>5, <1>7 DEF StoreVerdict
<1> QED
  BY <1>6, <1>7

(* Among the runs that take the mutex, one that is no longer the last       *)
(* started writes no verdict, for any number of runs and any interleaving.  *)
THEOREM VerdictOlderStartsWriteNothing == VerdictSpec => OlderStartsWriteNothing
<1>1. VerdictSpec => []NewestInv
  BY FreeInvariant, InitNewest, StepNewest, PTL DEF VerdictSpec
<1>2. FreeInv /\ NewestInv /\ [VerdictNext]_verdictVars =>
        [\A r \in Run : run[r].kind = "start" /\ ChangesVerdict(r)
                         => newest \in {r, NoRun}]_verdictVars
  BY StoreIsNewest
<1> QED
  BY <1>1, <1>2, FreeInvariant, PTL DEF VerdictSpec, OlderStartsWriteNothing
===============================================================================
