------------------------------- MODULE OneShots -------------------------------
(***************************************************************************)
(* The calls that run a throwaway container of the Archipelago image        *)
(* (internal/docker/client.go, image.go), and what their callers keep of    *)
(* the result (internal/service: apworld_template.go, declared_files.go,    *)
(* UploadApworld): the template and the options of one apworld in storage,  *)
(* the id of the image, the files its worlds declare.                       *)
(*                                                                          *)
(*   "template"  RegenerateApworldTemplate                                  *)
(*   "options"   ReintrospectApworldOptions                                 *)
(*   "upload"    UploadApworld: a template, and then, behind the answer,    *)
(*               the options                                                *)
(*   "multidata" ReadMultidata                                              *)
(*   "declared"  OfficialDeclaredFiles                                      *)
(*   "test"      PreflightGenerate, for a run of TestRuns                   *)
(*   "put", "copy"  PutDataToVolume, CopyOutputDirFromVolume, which only    *)
(*               need a container that mounts the volume                    *)
(*   "runtime"   GET /runtime: no container, the id of the image            *)
(*                                                                          *)
(* What a call prints is "whole" or "partial".  A container Docker was asked *)
(* to remove and did not is "kept": no caller looks at the answer.  One      *)
(* whose id is lost, with its answer or with the process, is not modelled   *)
(* on: it has no name and no label, and nothing in the program looks for it. *)
(***************************************************************************)
EXTENDS Naturals, Sequences

CONSTANTS
    Call,      \* calls under way at once
    Image,     \* the images the reference AP_IMAGE may point to
    NoImage,   \* "", no image id
    Mixes,     \* the sets of operations an execution may mix
    TTL,       \* imageIDTTL
    MaxClock,  \* bound on the clock
    WaitErrors \* Docker may answer a wait with an error status

Op == {"template", "options", "upload", "multidata", "declared", "test", "put", "copy", "runtime"}

ASSUME OneShotsAssumption ==
    /\ NoImage \notin Image
    /\ Mixes \subseteq SUBSET Op
    /\ TTL \in Nat \ {0} /\ MaxClock \in Nat
    /\ WaitErrors \in BOOLEAN

VARIABLES
    tag,      \* the image the reference points to
    until,    \* history: when the tag left an image, if it did
    cache,    \* imageID and imageSeenAt of the Docker client
    files,    \* officialDeclaredFiles: the image id, and the image whose games it holds
    call,     \* call[c]: what it does, its container and its result
    template, \* <hash>.yaml in storage
    sidecar,  \* <hash>.types.json in storage
    mix,      \* the operations of this execution
    clock

images == <<tag, until>>
caches == <<cache, files>>
stored == <<template, sidecar>>
vars == <<images, caches, stored, call, mix, clock>>

MaybeImage == Image \cup {NoImage}
Instant == 0..MaxClock
Content == {"absent", "partial", "whole"}
Idle == [op |-> "none", pc |-> "idle", request |-> FALSE, gone |-> FALSE, at |-> 0,
         id |-> NoImage, img |-> NoImage, st |-> "none", out |-> "none"]

CallState ==
    [op : Op \cup {"none"}, request : BOOLEAN, gone : BOOLEAN, at : Instant,
     pc : {"idle", "ask", "inspect", "note", "lock", "create", "put", "get", "start",
           "wait", "logs", "remove", "removeAlways", "store", "end"},
     id : MaybeImage, img : MaybeImage,
     st : {"none", "created", "running", "done", "failed", "kept"},
     out : {"none", "bad", "partial", "whole"}]

TypeOK ==
    /\ tag \in Image /\ until \in [Image -> Instant]
    /\ cache \in [id : MaybeImage, at : Instant]
    /\ files \in [id : MaybeImage, games : MaybeImage]
    /\ call \in [Call -> CallState]
    /\ template \in Content /\ sidecar \in Content
    /\ mix \subseteq Op /\ clock \in Instant

Init ==
    /\ tag \in Image
    /\ until = [i \in Image |-> 0]
    /\ cache = [id |-> NoImage, at |-> 0]
    /\ files = [id |-> NoImage, games |-> NoImage]
    /\ call = [c \in Call |-> Idle]
    /\ template = "absent" /\ sidecar = "absent"
    /\ mix \in Mixes
    /\ clock = 0

At(c, pc) == call[c].pc = pc
Goto(c, pc) == call' = [call EXCEPT ![c].pc = pc]

(* The context of a call: a client that goes cancels its request, a test has *)
(* its timeout, what runs behind an answer has neither.                      *)
CanGo(c) == call[c].request \/ call[c].op = "test"

(* Who asks which image the reference points to.                            *)
Asks == {"declared", "runtime"}

(* The Docker calls each of the methods makes, in order.  A container that   *)
(* only mounts a volume is never started.  "removeAlways" has a context of   *)
(* its own (context.WithoutCancel), "remove" that of the call.               *)
GenerateTemplate == <<"create", "put", "start", "wait", "logs", "remove">>
IntrospectOptions == <<"create", "put", "start", "wait", "logs", "remove">>
ReadMultidata == <<"create", "put", "start", "wait", "logs", "remove">>
ListRequiredFiles == <<"create", "start", "wait", "logs", "removeAlways">>
PreflightGenerate == <<"create", "put", "start", "wait", "logs", "removeAlways">>
PutDataToVolume == <<"create", "put", "remove">>
CopyOutputDirFromVolume == <<"create", "get", "remove">>

DockerCalls(op) ==
    CASE op \in {"template", "upload"} -> GenerateTemplate
      [] op = "options"   -> IntrospectOptions
      [] op = "declared"  -> ListRequiredFiles
      [] op = "multidata" -> ReadMultidata
      [] op = "test"      -> PreflightGenerate
      [] op = "put"       -> PutDataToVolume
      [] op = "copy"      -> CopyOutputDirFromVolume

(* Of some of them the service stores the result, then the call is over.    *)
Stores == {"template", "upload", "options", "declared"}
Following(op, pc) ==
    LET calls == DockerCalls(op)
        i == CHOOSE j \in DOMAIN calls : calls[j] = pc
    IN  IF i < Len(calls) THEN calls[i + 1] ELSE IF op \in Stores THEN "store" ELSE "end"

(* The removal a method defers comes last in it.                            *)
Removal(op) == DockerCalls(op)[Len(DockerCalls(op))]

-----------------------------------------------------------------------------
(* A request arrives, or a run of TestRuns gets its slot.                   *)
Begin(c, op) ==
    /\ call[c] = Idle
    /\ op \in mix
    /\ call' = [call EXCEPT ![c] =
          [Idle EXCEPT !.op = op, !.request = op \notin {"test", "copy"},
                       !.at = IF op \in Asks THEN clock ELSE 0,
                       !.pc = IF op \in Asks THEN "ask" ELSE "create"]]
    /\ UNCHANGED <<images, caches, stored, mix, clock>>

Leave(c) ==
    /\ call[c] # Idle /\ CanGo(c) /\ ~call[c].gone
    /\ call' = [call EXCEPT ![c].gone = TRUE]
    /\ UNCHANGED <<images, caches, stored, mix, clock>>

-----------------------------------------------------------------------------
(* ImageID, at the time the call began: from the cache while it is fresh.   *)
Cached(c) == cache.id # NoImage /\ call[c].at - cache.at < TTL
Answer(c, id) ==
    call' = [call EXCEPT ![c].id = id,
                         ![c].pc = IF call[c].op = "runtime" THEN "end" ELSE "lock"]

LookUp(c) ==
    /\ At(c, "ask")
    /\ IF Cached(c) THEN Answer(c, cache.id) ELSE Goto(c, "inspect")
    /\ UNCHANGED <<images, caches, stored, mix, clock>>

(* The inspection runs outside the lock; a failure leaves the id empty.     *)
Inspect(c) ==
    /\ At(c, "inspect")
    /\ \/ ~call[c].gone /\ call' = [call EXCEPT ![c].id = tag, ![c].pc = "note"]
       \/ Answer(c, NoImage)
    /\ UNCHANGED <<images, caches, stored, mix, clock>>

(* Mutant: the id counts as seen when it is stored. *)
NoteLate(c) ==
    /\ At(c, "note")
    /\ cache' = [id |-> call[c].id, at |-> clock]
    /\ Answer(c, call[c].id)
    /\ UNCHANGED <<images, files, stored, mix, clock>>

Note(c) ==
    /\ At(c, "note")
    /\ cache' = [id |-> call[c].id, at |-> call[c].at]
    /\ Answer(c, call[c].id)
    /\ UNCHANGED <<images, files, stored, mix, clock>>

-----------------------------------------------------------------------------
(* OfficialDeclaredFiles: one lists, the others wait for it, gone or not.   *)
Lists(c) ==
    /\ call[c].op = "declared"
    /\ call[c].pc \in {"create", "start", "wait", "logs", "removeAlways", "store"}
Known(id) == files.games # NoImage /\ id # NoImage /\ files.id = id

Consult(c) ==
    /\ At(c, "lock")
    /\ call' = [call EXCEPT ![c] =
          IF Known(call[c].id)
          THEN [call[c] EXCEPT !.pc = "end", !.img = files.games, !.out = "whole"]
          ELSE [call[c] EXCEPT !.pc = "create"]]
    /\ UNCHANGED <<images, caches, stored, mix, clock>>

(* Mutant: the mutex guards the cache only, not the listing. *)
LockForLookup(c) == Consult(c)

Lock(c) == (\A d \in Call : ~Lists(d)) /\ Consult(c)

-----------------------------------------------------------------------------
(* Mutant: the removal is deferred only once the container has started. *)
FailBeforeStart(c) ==
    call' = [call EXCEPT ![c].out = "bad",
                   ![c].pc = IF call[c].st \in {"none", "created"} THEN "end"
                             ELSE Removal(call[c].op)]
(* A Docker call fails: the deferred removal runs, if there is a container. *)
Fail(c) == call' = [call EXCEPT ![c].out = "bad",
                   ![c].pc = IF call[c].st = "none" THEN "end" ELSE Removal(call[c].op)]

GoOn(c) == Goto(c, Following(call[c].op, call[c].pc))
Got(c, out) == call' = [call EXCEPT ![c].out = out, ![c].pc = Following(call[c].op, @)]

(* createOneShot, and the creation in PutDataToVolume and its like.          *)
CreateOneShot(c) ==
    /\ At(c, "create")
    /\ \/ /\ ~call[c].gone
          /\ call' = [call EXCEPT ![c].img = IF call[c].op \in Asks THEN tag ELSE NoImage,
                                  ![c].st = "created", ![c].pc = Following(call[c].op, @)]
       \/ Fail(c)
    /\ UNCHANGED <<images, caches, stored, mix, clock>>

(* putArchiveTo, and the archive got from the volume.                       *)
CopyArchive(c) ==
    /\ call[c].pc \in {"put", "get"}
    /\ (~call[c].gone /\ GoOn(c)) \/ Fail(c)
    /\ UNCHANGED <<images, caches, stored, mix, clock>>

StartContainer(c) ==
    /\ At(c, "start")
    /\ \/ /\ ~call[c].gone
          /\ call' = [call EXCEPT ![c].st = "running", ![c].pc = Following(call[c].op, @)]
       \/ Fail(c)
    /\ UNCHANGED <<images, caches, stored, mix, clock>>

ContainerEnds(c) ==
    /\ call[c].st = "running" /\ call[c].pc # "end"
    /\ \E st \in {"done", "failed"} : call' = [call EXCEPT ![c].st = st]
    /\ UNCHANGED <<images, caches, stored, mix, clock>>

(* waitContainer does not look at the status of the answer: an error decodes *)
(* to exit code 0.                                                           *)
WaitContainer(c) ==
    /\ At(c, "wait")
    /\ \/ ~call[c].gone /\ call[c].st = "done" /\ GoOn(c)
       \/ ~call[c].gone /\ WaitErrors /\ GoOn(c)
       \/ Fail(c)
    /\ UNCHANGED <<images, caches, stored, mix, clock>>

(* What has been printed by now; a test has nothing to print but warnings.  *)
Printed(c) == IF call[c].st = "done" THEN "whole" ELSE "partial"

(* Mutant: what introspection prints is kept as it is. *)
LogsKeptRaw(c) ==
    /\ At(c, "logs")
    /\ \/ ~call[c].gone /\ Got(c, Printed(c))
       \/ IF call[c].op = "test" THEN Got(c, "whole") ELSE Fail(c)
    /\ UNCHANGED <<images, caches, stored, mix, clock>>

(* The JSON of the options and of the declared files is decoded: a part of  *)
(* it is refused.  Nothing tells a part of a template from a template.      *)
Decoded == {"options", "declared"}
ReadLogs(c) ==
    /\ At(c, "logs")
    /\ \/ ~call[c].gone
          /\ IF call[c].op \in Decoded /\ Printed(c) = "partial" THEN Fail(c)
             ELSE Got(c, Printed(c))
       \/ IF call[c].op = "test" THEN Got(c, "whole") ELSE Fail(c)
    /\ UNCHANGED <<images, caches, stored, mix, clock>>

(* Remove: once the context it is given is over, Docker is not even asked,   *)
(* and the container stays as it is; asked, it may refuse or not be reached. *)
(* Nobody looks at the answer, and a failure has nothing to store.          *)
RemoveOneShot(c) ==
    /\ call[c].pc \in {"remove", "removeAlways"}
    /\ \E st \in IF call[c].gone /\ At(c, "remove") THEN {call[c].st} ELSE {"none", "kept"} :
         call' = [call EXCEPT
            ![c].st = st,
            ![c].pc = IF call[c].out = "bad" THEN "end" ELSE Following(call[c].op, @)]
    /\ UNCHANGED <<images, caches, stored, mix, clock>>

-----------------------------------------------------------------------------
(* What the caller keeps; storage may refuse, and does once the client has  *)
(* gone.                                                                    *)
StoreTemplate(c) ==
    /\ At(c, "store") /\ call[c].op \in {"template", "upload"}
    /\ \/ ~call[c].gone /\ template' = call[c].out /\ Goto(c, "end")
       \/ UNCHANGED template /\ call' = [call EXCEPT ![c] = Idle]
    /\ UNCHANGED <<images, caches, sidecar, mix, clock>>

(* SetApworldTemplate: an admin's own, of an apworld that exists.           *)
SetApworldTemplate ==
    /\ mix \cap {"template", "upload"} # {}
    /\ template' = "whole"
    /\ UNCHANGED <<images, caches, sidecar, call, mix, clock>>

StoreOptions(c) ==
    /\ At(c, "store") /\ call[c].op = "options"
    /\ \/ ~call[c].gone /\ sidecar' = call[c].out
       \/ UNCHANGED sidecar
    /\ Goto(c, "end")
    /\ UNCHANGED <<images, caches, template, mix, clock>>

(* An image that could not be inspected is listed every time.               *)
KeepDeclared(c) ==
    /\ At(c, "store") /\ call[c].op = "declared"
    /\ files' = IF call[c].id # NoImage THEN [id |-> call[c].id, games |-> call[c].img] ELSE files
    /\ Goto(c, "end")
    /\ UNCHANGED <<images, cache, stored, mix, clock>>

(* The call is answered.  An upload, with its template stored or without    *)
(* one, goes on to its options, with no client to lose.                     *)
End(c) ==
    /\ At(c, "end")
    /\ call' = [call EXCEPT ![c] =
          IF call[c].op = "upload" THEN [Idle EXCEPT !.op = "options", !.pc = "create"] ELSE Idle]
    /\ UNCHANGED <<images, caches, stored, mix, clock>>

-----------------------------------------------------------------------------
(* The tag is moved: an image pulled, built again, or rolled back.  Where   *)
(* nobody asks for the image, neither it nor the time makes a difference.    *)
Retag ==
    /\ mix \cap Asks # {}
    /\ tag' \in Image \ {tag}
    /\ until' = [until EXCEPT ![tag] = clock, ![tag'] = 0]
    /\ UNCHANGED <<caches, stored, call, mix, clock>>

Tick ==
    /\ mix \cap Asks # {} /\ clock < MaxClock
    /\ clock' = clock + 1
    /\ UNCHANGED <<images, caches, stored, call, mix>>

(* A new process; its containers, if any, stay where they are.              *)
Restart ==
    /\ cache' = [id |-> NoImage, at |-> 0]
    /\ files' = [id |-> NoImage, games |-> NoImage]
    /\ call' = [c \in Call |-> Idle]
    /\ UNCHANGED <<images, stored, mix, clock>>

Step(c) ==
    \/ LookUp(c) \/ Inspect(c) \/ Note(c)
    \/ CreateOneShot(c) \/ CopyArchive(c) \/ StartContainer(c) \/ WaitContainer(c)
    \/ ReadLogs(c) \/ RemoveOneShot(c)
    \/ StoreTemplate(c) \/ StoreOptions(c) \/ KeepDeclared(c) \/ End(c)

Next ==
    \/ \E c \in Call :
         \/ \E op \in Op : Begin(c, op)
         \/ Leave(c) \/ Step(c) \/ Lock(c) \/ ContainerEnds(c)
    \/ SetApworldTemplate \/ Retag \/ Tick \/ Restart

Spec == Init /\ [][Next]_vars

-----------------------------------------------------------------------------
(* However long an inspection takes and whatever overtakes it, an image id   *)
(* that is answered was that of the tag less than imageIDTTL before it was   *)
(* asked for ("inspected again from time to time", image.go:12-14).          *)
ImageIdFresh ==
    \A c \in Call : call[c].id \in Image =>
        call[c].id = tag \/ until[call[c].id] + TTL > call[c].at

(* A test or a listing whose client goes, or whose timeout passes, at any   *)
(* step, and whatever failed before, is not over until Docker was asked to   *)
(* remove its container, whose id nobody else has (client.go:585, 734).      *)
Detached == {"declared", "test"}
DetachedLeaveNothing ==
    \A c \in Call : call[c].op \in Detached /\ call[c].pc \in {"store", "end"}
        => call[c].st \in {"none", "kept"}

(* No part of a listing or of a set of options is ever kept: "a bad run      *)
(* would cost the editor far more" (apworld_template.go:63-65).              *)
SidecarIsWhole == sidecar # "partial"

(* Nobody lists the files of an image whose files are known already, not    *)
(* even while others wait for theirs ("Computed once per image ...;          *)
(* concurrent callers wait for it", declared_files.go:59).                   *)
ListedOnce == \A c \in Call : Lists(c) => ~Known(call[c].id)

(* The games kept, or answered, under an image id are those of that image   *)
(* ("returns ... the files the worlds shipped with the image declare, and   *)
(* the id of that image", declared_files.go:58-59).                          *)
(* The code breaks it when the tag moves in between: see README.            *)
GamesOfTheirImage == files.games # NoImage => files.games = files.id

(* A test that counts as passed generated ("Returns nil when the generation  *)
(* succeeds", client.go:712-713): its container has ended well when it is    *)
(* about to be removed.  The code breaks it when Docker answers the wait by   *)
(* an error (client.go:458-469): see README.                                 *)
PassedTestSucceeded ==
    \A c \in Call : call[c].op = "test" /\ At(c, "removeAlways") /\ call[c].out # "bad"
        => call[c].st = "done"
=============================================================================
