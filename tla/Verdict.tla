------------------------------ MODULE Verdict ------------------------------
(***************************************************************************)
(* The verdict of the test generation of one apworld (internal/service:    *)
(* apworld_preflight.go, runtime.go, UploadApworld in service.go).         *)
(*                                                                         *)
(* The verdict is part of an object in MinIO that every writer gets,       *)
(* changes and puts back whole (MutateApworldPreflight): the runs under    *)
(* preflightMetaMu, an upload and the admin's override without it.  A run  *)
(* is the goroutine of POST .../preflight ("start"), by an admin or the    *)
(* rolling test of the API, or of an upload ("upload").  The files and the *)
(* slot a run needs are module TestRuns; here it has files or not.         *)
(***************************************************************************)
EXTENDS Naturals

CONSTANTS
    Run,          \* runs that can be under way at once, and their runID
    NoRun,        \* the empty runID
    Kinds,        \* which kinds of run are started
    Overrides,    \* the values an admin gives the override
    StorageFails, \* calls to MinIO may fail
    Restarts      \* the process may restart

ASSUME VerdictAssumption ==
    /\ NoRun \notin Run
    /\ Kinds \subseteq {"start", "upload"}
    /\ Overrides \subseteq BOOLEAN
    /\ {StorageFails, Restarts} \subseteq BOOLEAN

VARIABLES
    verdict,  \* ApworldPreflight in the object of the apworld
    run,      \* run[r]: what run r does, and the copies it works on
    override, \* the override under way, and the copy it works on
    newest    \* history: the run that was last given the verdict under the
              \* mutex; NoRun when a writer without the mutex came after it

verdictVars == <<verdict, run, override, newest>>

(* "skipped", the verdict without a template, is not told apart from        *)
(* "failed", nor is what a run only notes: its inputs, image and times.     *)
Settled == {"passed", "failed"}
ApworldPreflight ==
    [status : {"none", "pending"} \cup Settled, owner : Run \cup {NoRun},
     pendingWithFiles : BOOLEAN, overridden : BOOLEAN]
NoVerdict == [status |-> "none", owner |-> NoRun,
              pendingWithFiles |-> FALSE, overridden |-> FALSE]

IdleRun == [kind |-> "none", pc |-> "idle", files |-> FALSE, out |-> "none",
         locked |-> FALSE, previous |-> NoVerdict, copy |-> NoVerdict]
NoOverride == [on |-> FALSE, copy |-> NoVerdict, value |-> FALSE]

RunState ==
    [kind : {"none"} \cup Kinds, files : BOOLEAN, out : {"none"} \cup Settled,
     locked : BOOLEAN, previous : ApworldPreflight, copy : ApworldPreflight,
     pc : {"idle", "upload", "mark", "download", "begin", "generate", "store", "restore"}]

(* The verdict, the runs and the override are well typed, and at most one   *)
(* run is between its get and its put: preflightMetaMu serialises the runs. *)
VerdictTypeOK ==
    /\ verdict \in ApworldPreflight
    /\ run \in [Run -> RunState]
    /\ override \in [on : BOOLEAN, copy : ApworldPreflight, value : BOOLEAN]
    /\ newest \in Run \cup {NoRun}
    /\ \A r, q \in Run : run[r].locked /\ run[q].locked => r = q

VerdictInit ==
    /\ verdict = NoVerdict
    /\ run = [r \in Run |-> IdleRun]
    /\ override = NoOverride
    /\ newest = NoRun

RunAt(r, pc) == run[r].pc = pc

(* Run r goes on at pc, without the mutex and without a copy.               *)
Onward(r, pc, out) ==
    [kind |-> run[r].kind, files |-> run[r].files, previous |-> run[r].previous,
     pc |-> pc, out |-> out, locked |-> FALSE, copy |-> NoVerdict]

(* GetApworldMeta where a failure counts as no verdict.                     *)
Read == {verdict} \cup (IF StorageFails THEN {NoVerdict} ELSE {})

-----------------------------------------------------------------------------
(* A runID is drawn afresh: nobody remembers it.                            *)
Fresh(r) ==
    /\ run[r] = IdleRun
    /\ r \notin {verdict.owner, override.copy.owner, newest}
                   \cup {run[q].previous.owner : q \in Run}
                   \cup {run[q].copy.owner : q \in Run}

(* A run without files does not start while one with files is pending.      *)
Skips(files, p) == ~files /\ p.status = "pending" /\ p.pendingWithFiles

(* StartApworldPreflight: the verdict it reads is the one it may restore.   *)
Start(r) ==
    /\ "start" \in Kinds /\ Fresh(r)
    /\ \E p \in Read, files \in BOOLEAN :
         /\ ~Skips(files, p)
         /\ run' = [run EXCEPT ![r] = [kind |-> "start", pc |-> "mark", files |-> files,
                                        out |-> "none", locked |-> FALSE,
                                        previous |-> p, copy |-> NoVerdict]]
    /\ UNCHANGED <<verdict, override, newest>>

(* UploadApworld: the object is written anew, the override it read kept.    *)
Upload(r) ==
    /\ "upload" \in Kinds /\ Fresh(r)
    /\ \E p \in Read :
         run' = [run EXCEPT ![r] = [kind |-> "upload", pc |-> "upload", files |-> FALSE,
                                     out |-> "none", locked |-> FALSE,
                                     previous |-> NoVerdict, copy |-> p]]
    /\ UNCHANGED <<verdict, override, newest>>

UploadMeta(r) ==
    /\ RunAt(r, "upload")
    /\ \/ /\ verdict' = [status |-> "pending", owner |-> NoRun, pendingWithFiles |-> FALSE,
                         overridden |-> run[r].copy.overridden]
          /\ newest' = NoRun
       \/ StorageFails /\ UNCHANGED <<verdict, newest>>
    /\ run' = [run EXCEPT ![r] = Onward(r, "download", "none")]
    /\ UNCHANGED override

-----------------------------------------------------------------------------
(* RunApworldPreflight, and what its goroutine does after it.               *)
Failed(r) == IF run[r].kind = "start" THEN Onward(r, "restore", "none") ELSE IdleRun

(* Without a template there is nothing to wait for a slot with.             *)
Download(r) ==
    /\ RunAt(r, "download")
    /\ \/ run' = [run EXCEPT ![r] = Onward(r, "begin", "none")]
       \/ run' = [run EXCEPT ![r] = Onward(r, "store", "failed")]
       \/ StorageFails /\ run' = [run EXCEPT ![r] = Failed(r)]
    /\ UNCHANGED <<verdict, override, newest>>

(* The container answers, Docker fails, or the timeout strikes: all but a   *)
(* success is a failed verdict.                                             *)
Generate(r) ==
    /\ RunAt(r, "generate")
    /\ \E out \in Settled : run' = [run EXCEPT ![r] = Onward(r, "store", out)]
    /\ UNCHANGED <<verdict, override, newest>>

RunId(r) == IF run[r].kind = "upload" THEN NoRun ELSE r

(* Mutant: the last run to finish settles the verdict. *)
OwnsAnyway(r, p) == TRUE

(* ownsRun *)
OwnsRun(r, p) == p.owner = RunId(r)

(* markPending, openRun *)
MarkPending(r, p) == [status |-> "pending", owner |-> r,
                      pendingWithFiles |-> run[r].files, overridden |-> p.overridden]

(* Mutant: the settled verdict keeps what the pending one said. *)
StoreStatusOnly(r, p) ==
    IF OwnsRun(r, p)
    THEN [p EXCEPT !.status = run[r].out, !.owner = NoRun,
                   !.overridden = @ /\ run[r].out # "passed"]
    ELSE p

(* storeApworldPreflight, applyVerdict *)
StoreVerdict(r, p) ==
    IF OwnsRun(r, p)
    THEN [status |-> run[r].out, owner |-> NoRun, pendingWithFiles |-> FALSE,
          overridden |-> p.overridden /\ run[r].out # "passed"]
    ELSE p

(* What each change makes of the copy; startRun only notes a time in it.    *)
Mutated(r, p) ==
    IF RunAt(r, "mark") THEN MarkPending(r, p)
    ELSE IF RunAt(r, "store") THEN StoreVerdict(r, p)
    ELSE IF RunAt(r, "restore") /\ OwnsRun(r, p) THEN run[r].previous
    ELSE p

(* Where the run goes on; only the store minds that nothing was written.    *)
After(r, written) ==
    IF RunAt(r, "mark") THEN Onward(r, "download", "none")
    ELSE IF RunAt(r, "begin") THEN Onward(r, "generate", "none")
    ELSE IF RunAt(r, "store") /\ ~written /\ run[r].kind = "start" THEN Onward(r, "restore", "none")
    ELSE IdleRun

Mutates(r) == run[r].pc \in {"mark", "begin", "store", "restore"}

MuFree == \A r \in Run : ~run[r].locked

(* MutateApworldPreflight under preflightMetaMu: get, then change and put.  *)
GetMeta(r) ==
    /\ Mutates(r) /\ ~run[r].locked /\ MuFree
    /\ run' = [run EXCEPT ![r] = [kind |-> run[r].kind, files |-> run[r].files,
                 previous |-> run[r].previous, pc |-> run[r].pc, out |-> run[r].out,
                 locked |-> TRUE, copy |-> verdict]]
    /\ UNCHANGED <<verdict, override, newest>>

PutMeta(r) ==
    /\ run[r].locked
    /\ verdict' = Mutated(r, run[r].copy)
    /\ newest' = IF RunAt(r, "mark") THEN r
                 ELSE IF RunAt(r, "restore") /\ OwnsRun(r, run[r].copy) THEN verdict'.owner
                 ELSE newest
    /\ run' = [run EXCEPT ![r] = After(r, TRUE)]
    /\ UNCHANGED override

(* The get or the put fails; the mutex is released either way.              *)
MetaFails(r) ==
    /\ StorageFails
    /\ Mutates(r)
    /\ run[r].locked \/ MuFree
    /\ run' = [run EXCEPT ![r] = After(r, FALSE)]
    /\ UNCHANGED <<verdict, override, newest>>

-----------------------------------------------------------------------------
(* OverrideApworldPreflight: the same change of a copy, without the mutex;  *)
(* one whose get or put failed changed nothing, and another may follow.     *)
OverrideGet ==
    /\ override.on => StorageFails
    /\ \E v \in Overrides : override' = [on |-> TRUE, copy |-> verdict, value |-> v]
    /\ UNCHANGED <<verdict, run, newest>>

OverridePut ==
    /\ override.on
    /\ override' = NoOverride
    /\ verdict' = [override.copy EXCEPT !.overridden = override.value]
    /\ newest' = NoRun
    /\ UNCHANGED run

(* A new process: the object stays, the runs are gone.                      *)
RestartProcess ==
    /\ Restarts
    /\ run' = [r \in Run |-> IdleRun]
    /\ override' = NoOverride
    /\ UNCHANGED <<verdict, newest>>

VerdictNext ==
    \/ \E r \in Run :
         \/ Start(r) \/ Upload(r) \/ UploadMeta(r) \/ Download(r) \/ Generate(r)
         \/ GetMeta(r) \/ PutMeta(r) \/ MetaFails(r)
    \/ OverrideGet \/ OverridePut
    \/ RestartProcess

VerdictSpec == VerdictInit /\ [][VerdictNext]_verdictVars

-----------------------------------------------------------------------------
(* A verdict names its owner, and files its run was given, only while it is *)
(* pending: a settled one never keeps the next run from starting or from    *)
(* being the last ("Empty once settled", storage/client.go:57-62), however  *)
(* stale the copies that were put back.                                     *)
SettledIsFree ==
    /\ verdict.owner # NoRun => verdict.status = "pending"
    /\ verdict.pendingWithFiles => verdict.owner # NoRun

(* Among the writers that take the mutex, a run settles a verdict only when *)
(* it is the one last given it ("a run that is no longer the last started   *)
(* writes nothing", apworld_preflight.go:95).                               *)
ChangesVerdict(r) ==
    RunAt(r, "store") /\ run[r].locked /\ ~run'[r].locked /\ verdict' # verdict

OlderStartsWriteNothing ==
    [][\A r \in Run : run[r].kind = "start" /\ ChangesVerdict(r) => newest \in {r, NoRun}]_verdictVars

(* The same of every run, the one of an upload included.                    *)
(* The code breaks it, an upload has no runID: see README.                  *)
OlderRunsWriteNothing ==
    [][\A r \in Run : ChangesVerdict(r) => newest \in {r, NoRun}]_verdictVars
=============================================================================
