--------------------------- MODULE RequiredFiles ---------------------------
(***************************************************************************)
(* The files a world reads at generation, held in memory under a size cap  *)
(* until one run takes them (internal/service/required_files.go).  Every   *)
(* method of the store runs under its mutex, so each is one operator here. *)
(* The caller reads the clock before it gets the mutex: `t` is any earlier *)
(* instant.  A run that took files keeps their bytes in memory until it    *)
(* frees them, and until then they count against the cap.                  *)
(***************************************************************************)
EXTENDS Integers, Sequences, Functions, FiniteSetsExt

CONSTANTS
    FileId,   \* identifiers the store may give out, each at most once
    FileSize, \* sizes of the files clients send
    MaxBytes, \* REQUIRED_FILES_MAX_BYTES
    PerRun,   \* MaxRequiredFilesPerGeneration
    FileTTL   \* requiredFileTTL

ASSUME RequiredFilesAssumption ==
    /\ FileSize \subseteq Nat \ {0}
    /\ MaxBytes \in Nat /\ PerRun \in Nat /\ FileTTL \in Nat

VARIABLES
    staged, \* the identifiers in the map of the store
    info,   \* info[f]: what was staged as f, its size and when it expires
    size    \* the bytes the store counts

storeVars == <<staged, info, size>>

NeverStaged == [bytes |-> 0, until |-> 0]

StoreInit ==
    /\ staged = {}
    /\ info = [f \in FileId |-> NeverStaged]
    /\ size = 0

Bytes(S) == MapThenSumSet(LAMBDA f : info[f].bytes, S)

(* Every method first drops the files that have expired.                    *)
Alive(t) == {f \in staged : t < info[f].until}
LeftAfterPrune(t) == size - Bytes(staged \ Alive(t))

(* Mutant: an expired file still counts. *)
PruneKeepingRoom(t) ==
    /\ staged' = Alive(t)
    /\ UNCHANGED <<info, size>>

Prune(t) ==
    /\ staged' = Alive(t)
    /\ size' = LeftAfterPrune(t)
    /\ UNCHANGED info

Fits(b, t) == LeftAfterPrune(t) + b <= MaxBytes

Stage(f, b, t) ==
    /\ info[f] = NeverStaged
    /\ Fits(b, t)
    /\ staged' = Alive(t) \cup {f}
    /\ size' = LeftAfterPrune(t) + b
    /\ info' = [info EXCEPT ![f] = [bytes |-> b, until |-> t + FileTTL]]

StageRefused(b, t) ==
    /\ ~Fits(b, t)
    /\ Prune(t)

(* The identifiers of a request, as its client lists them.                  *)
Request == UNION {[1..n -> FileId] : n \in 1..(PerRun + 1)}

(* All the files of the request, or none of them.                           *)
Takes(ids, t) ==
    Len(ids) <= PerRun /\ IsInjective(ids) /\ Range(ids) \subseteq Alive(t)

(* Mutant: the files are read and stay. *)
TakeACopy(ids, t) ==
    /\ Takes(ids, t)
    /\ staged' = Alive(t)
    /\ size' = LeftAfterPrune(t)
    /\ UNCHANGED info

Take(ids, t) ==
    /\ Takes(ids, t)
    /\ staged' = Alive(t) \ Range(ids)
    /\ size' = LeftAfterPrune(t)
    /\ UNCHANGED info

TakeRefused(ids, t) ==
    /\ ~Takes(ids, t)
    /\ IF Len(ids) > PerRun THEN UNCHANGED storeVars ELSE Prune(t)

Free(S) ==
    /\ size' = size - Bytes(S)
    /\ UNCHANGED <<staged, info>>

ReleaseFile(f) ==
    /\ size' = size - Bytes({f} \cap staged)
    /\ staged' = staged \ {f}
    /\ UNCHANGED info

(* Everything a process held is gone with it.                               *)
ForgetFiles ==
    /\ staged' = {}
    /\ size' = 0
    /\ UNCHANGED info
=============================================================================
