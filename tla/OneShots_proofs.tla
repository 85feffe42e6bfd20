---------------------------- MODULE OneShots_proofs ----------------------------
(***************************************************************************)
(* For any number of calls and images, and any mix of operations: the ids   *)
(* of the image that are answered, the listings, the options that are kept  *)
(* and the containers that are left.                                        *)
(***************************************************************************)
EXTENDS OneShots, TLAPS

Working == Op \ {"runtime"}
DockerStep == {"create", "put", "get", "start", "wait", "logs", "remove", "removeAlways"}

(* The Docker calls an operation makes, and all the steps it may be at.      *)
Made(op) == {DockerCalls(op)[i] : i \in DOMAIN DockerCalls(op)}
Onward(op) == Made(op) \cup (IF op \in Stores THEN {"store"} ELSE {}) \cup {"end"}
Path(op) ==
    IF op = "none" THEN {"idle"}
    ELSE IF op = "runtime" THEN {"ask", "inspect", "note", "end"}
    ELSE Onward(op) \cup (IF op = "declared" THEN {"ask", "inspect", "note", "lock"} ELSE {})

(* TypeOK, but for what is in storage.                                       *)
Typed ==
    /\ tag \in Image /\ until \in [Image -> Instant]
    /\ cache \in [id : MaybeImage, at : Instant]
    /\ files \in [id : MaybeImage, games : MaybeImage]
    /\ call \in [Call -> CallState]
    /\ mix \subseteq Op /\ clock \in Instant

OnPath == \A c \in Call : call[c].pc \in Path(call[c].op)

------------------------------------------------------------------------------
LEMMA DockerCallsTyped ==
    ASSUME NEW op \in Working
    PROVE  /\ DockerCalls(op) \in Seq(DockerStep)
           /\ Len(DockerCalls(op)) \in Nat \ {0}
           /\ DOMAIN DockerCalls(op) = 1..Len(DockerCalls(op))
<1>1. \/ DockerCalls(op) = GenerateTemplate
      \/ DockerCalls(op) = IntrospectOptions
      \/ DockerCalls(op) = ReadMultidata
      \/ DockerCalls(op) = ListRequiredFiles
      \/ DockerCalls(op) = PreflightGenerate
      \/ DockerCalls(op) = PutDataToVolume
      \/ DockerCalls(op) = CopyOutputDirFromVolume
  BY DEF DockerCalls, Working, Op
<1>2. /\ GenerateTemplate \in Seq(DockerStep) /\ Len(GenerateTemplate) = 6
      /\ IntrospectOptions \in Seq(DockerStep) /\ Len(IntrospectOptions) = 6
      /\ ReadMultidata \in Seq(DockerStep) /\ Len(ReadMultidata) = 6
  BY DEF GenerateTemplate, IntrospectOptions, ReadMultidata, DockerStep
<1>3. /\ ListRequiredFiles \in Seq(DockerStep) /\ Len(ListRequiredFiles) = 5
      /\ PreflightGenerate \in Seq(DockerStep) /\ Len(PreflightGenerate) = 6
  BY DEF ListRequiredFiles, PreflightGenerate, DockerStep
<1>4. /\ PutDataToVolume \in Seq(DockerStep) /\ Len(PutDataToVolume) = 3
      /\ CopyOutputDirFromVolume \in Seq(DockerStep) /\ Len(CopyOutputDirFromVolume) = 3
  BY DEF PutDataToVolume, CopyOutputDirFromVolume, DockerStep
<1>5. DockerCalls(op) \in Seq(DockerStep) /\ Len(DockerCalls(op)) \in {3, 5, 6}
  <2> HIDE DEF DockerStep
  <2> QED BY <1>1, <1>2, <1>3, <1>4, Zenon
<1>6. \A s \in Seq(DockerStep) : DOMAIN s = 1..Len(s)
  OBVIOUS
<1>7. DOMAIN DockerCalls(op) = 1..Len(DockerCalls(op))
  BY <1>5, <1>6, Zenon
<1>8. Len(DockerCalls(op)) \in Nat \ {0}
  BY <1>5
<1> QED BY <1>5, <1>7, <1>8, Zenon

(* After a Docker call comes another of the operation, or its end.          *)
LEMMA FollowingOnward ==
    ASSUME NEW op \in Working, NEW pc \in Made(op)
    PROVE  Following(op, pc) \in Onward(op)
<1> DEFINE calls == DockerCalls(op)
           i == CHOOSE j \in DOMAIN calls : calls[j] = pc
<1>1. /\ Len(calls) \in Nat /\ DOMAIN calls = 1..Len(calls)
  BY DockerCallsTyped
<1>2. \E j \in DOMAIN calls : calls[j] = pc
  BY DEF Made
<1>3. i \in DOMAIN calls
  BY <1>2
<1>4. Following(op, pc) = IF i < Len(calls) THEN calls[i + 1]
                         ELSE IF op \in Stores THEN "store" ELSE "end"
  BY DEF Following
<1>5. ASSUME i < Len(calls) PROVE calls[i + 1] \in Made(op)
  <2> HIDE DEF i
  <2>1. i + 1 \in DOMAIN calls
    BY <1>1, <1>3, <1>5
  <2> QED BY <2>1 DEF Made
<1> HIDE DEF i, calls
<1> QED BY <1>4, <1>5 DEF Onward

LEMMA RemovalOnward ==
    ASSUME NEW op \in Working
    PROVE  Removal(op) \in Onward(op)
<1>1. Len(DockerCalls(op)) \in DOMAIN DockerCalls(op)
  BY DockerCallsTyped
<1> QED BY <1>1 DEF Removal, Onward, Made

LEMMA MadeAreSteps == \A op \in Working : Made(op) \subseteq DockerStep
BY DockerCallsTyped DEF Made

(* What takes care of its container makes no removal that could be refused. *)
LEMMA DetachedPaths ==
    /\ Made("declared") \subseteq DockerStep \ {"put", "get", "remove"}
    /\ Made("test") \subseteq DockerStep \ {"remove"}
<1>1. DockerCalls("declared") = ListRequiredFiles /\ DockerCalls("test") = PreflightGenerate
  BY DEF DockerCalls
<1> QED BY <1>1 DEF Made, ListRequiredFiles, PreflightGenerate, DockerStep

\* Its other Docker calls are followed by one more.
LEMMA DetachedGoOn ==
    ASSUME NEW op \in Detached, NEW pc \in Made(op), pc # "removeAlways"
    PROVE  Following(op, pc) \in DockerStep
<1> DEFINE calls == DockerCalls(op)
           i == CHOOSE j \in DOMAIN calls : calls[j] = pc
<1>1. i \in DOMAIN calls /\ calls[i] = pc
  BY DEF Made
<1>2. Following(op, pc) = IF i < Len(calls) THEN calls[i + 1]
                         ELSE IF op \in Stores THEN "store" ELSE "end"
  BY DEF Following
<1> HIDE DEF i
<1>3. \/ calls = <<"create", "start", "wait", "logs", "removeAlways">>
      \/ calls = <<"create", "put", "start", "wait", "logs", "removeAlways">>
  BY DEF Detached, DockerCalls, ListRequiredFiles, PreflightGenerate
<1> HIDE DEF calls
<1>4. i < Len(calls) /\ calls[i + 1] \in DockerStep
  <2>1. CASE calls = <<"create", "start", "wait", "logs", "removeAlways">>
    <3>1. Len(calls) = 5 /\ i \in 1..5
      BY <1>1, <2>1
    <3> QED BY <1>1, <2>1, <3>1 DEF DockerStep
  <2>2. CASE calls = <<"create", "put", "start", "wait", "logs", "removeAlways">>
    <3>1. Len(calls) = 6 /\ i \in 1..6
      BY <1>1, <2>2
    <3> QED BY <1>1, <2>2, <3>1 DEF DockerStep
  <2> QED BY <1>3, <2>1, <2>2
<1> QED BY <1>2, <1>4

LEMMA RemovalIsStep == \A op \in Working : Removal(op) \in DockerStep
BY DockerCallsTyped, MadeAreSteps DEF Removal, Made

------------------------------------------------------------------------------
(* The image of an id that is answered was the tag's less than TTL before    *)
(* it was asked for; before the id is cached, at the time or later.          *)
IdFresh(c) ==
    /\ call[c].at <= clock
    /\ call[c].id \in Image =>
          (call[c].id = tag \/ until[call[c].id] + TTL > call[c].at)
    /\ (call[c].id \in Image /\ call[c].pc = "note") =>
          (call[c].id = tag \/ until[call[c].id] >= call[c].at)

CacheFresh ==
    /\ cache.at <= clock
    /\ cache.id \in Image => (cache.id = tag \/ until[cache.id] >= cache.at)

(* One lists, and what it lists is not known.                                *)
OneLists ==
    /\ \A c, d \in Call : Lists(c) /\ Lists(d) => c = d
    /\ \A c \in Call : Lists(c) => ~Known(call[c].id)

(* A part of the options is not what a call holds.                           *)
NoPart(c) == call[c].op = "options" => call[c].out # "partial"

(* What takes care of its container has none before it creates it, and none  *)
(* Docker was not asked to remove once it is over.                           *)
Tidy(r) ==
    r.op \in Detached =>
        /\ r.pc \in {"ask", "inspect", "note", "lock"} => r.st = "none"
        /\ r.pc \in {"store", "end"} => r.st \in {"none", "kept"}

OneShotsInv ==
    /\ Typed /\ OnPath
    /\ \A c \in Call : IdFresh(c) /\ NoPart(c) /\ Tidy(call[c])
    /\ CacheFresh /\ OneLists
    /\ SidecarIsWhole

LEMMA OneShotsInit == Init => OneShotsInv
<1> SUFFICES ASSUME Init PROVE OneShotsInv
  OBVIOUS
<1>1. Typed
  BY OneShotsAssumption DEF Init, Typed, Idle, CallState, MaybeImage, Instant, Content
<1>2. OnPath
  BY DEF Init, OnPath, Path, Idle
<1>3. /\ \A c \in Call : IdFresh(c) /\ NoPart(c) /\ Tidy(call[c])
      /\ CacheFresh /\ OneLists
  BY OneShotsAssumption DEF Init, Idle, Tidy, Detached, IdFresh, NoPart, CacheFresh, OneLists, Lists
<1>4. SidecarIsWhole
  BY DEF Init, SidecarIsWhole
<1> QED BY <1>1, <1>2, <1>3, <1>4 DEF OneShotsInv

------------------------------------------------------------------------------
(* What a step of call c on its container does to it: it goes along the path *)
(* of its operation, from a Docker call, and keeps what it knows.            *)
Works(c) ==
    /\ call' \in [Call -> CallState]
    /\ \A d \in Call : d # c => call'[d] = call[d]
    /\ \/ call'[c].pc = call[c].pc
       \/ /\ call[c].op \in Working /\ call[c].pc \in Made(call[c].op)
          /\ call'[c].pc \in Onward(call[c].op)
    /\ call'[c].op = call[c].op /\ call'[c].id = call[c].id /\ call'[c].at = call[c].at
    /\ NoPart(c)' /\ Tidy(call'[c])

LEMMA WorksOnPath ==
    ASSUME OneShotsInv, NEW c \in Call, Works(c)
    PROVE  /\ OnPath'
           /\ call'[c].pc = "note" => call[c].pc = "note"
           /\ \A d \in Call : Lists(d)' => Lists(d)
<1>1. call[c].pc \in Path(call[c].op) /\ call[c].op \in Op \cup {"none"}
  BY DEF OneShotsInv, OnPath, Typed, CallState
<1>2. CASE call'[c].pc = call[c].pc
  BY <1>1, <1>2 DEF Works, OneShotsInv, OnPath, Lists
<1>3. CASE /\ call[c].op \in Working /\ call[c].pc \in Made(call[c].op)
           /\ call'[c].pc \in Onward(call[c].op)
  <2>1. Made(call[c].op) \subseteq DockerStep
    BY <1>3, MadeAreSteps
  <2>2. call[c].pc \in DockerStep /\ call'[c].pc \in DockerStep \cup {"store", "end"}
    BY <1>3, <2>1 DEF Onward
  <2>3. call'[c].pc \in Path(call'[c].op)
    BY <1>3 DEF Works, Path, Working, Op
  <2>4. call'[c].pc # "note"
    BY <2>2 DEF DockerStep
  <2>5. Lists(c)' => Lists(c)
    BY <1>3, DetachedPaths DEF Lists, Works, DockerStep
  <2> QED BY <2>3, <2>4, <2>5 DEF Works, OneShotsInv, OnPath, Lists
<1> QED BY <1>2, <1>3 DEF Works

(* A step on a container tells nothing of images and keeps no result.        *)
LEMMA WorksKeeps ==
    ASSUME OneShotsInv, NEW c \in Call, Works(c),
           UNCHANGED <<images, caches, stored, mix, clock>>
    PROVE  OneShotsInv'
<1> USE DEF images, caches, stored
<1>1. Typed'
  BY DEF OneShotsInv, Typed, Works
<1>2. OnPath' /\ (call'[c].pc = "note" => call[c].pc = "note") /\ \A d \in Call : Lists(d)' => Lists(d)
  BY WorksOnPath
<1>3. \A d \in Call : IdFresh(d)' /\ NoPart(d)' /\ Tidy(call'[d])
  <2>1. \A d \in Call : IdFresh(d)' /\ NoPart(d)'
    BY <1>2 DEF OneShotsInv, Works, IdFresh, NoPart
  <2>2. \A d \in Call : Tidy(call'[d])
    BY DEF OneShotsInv, Works
  <2> QED BY <2>1, <2>2
<1>4. \A d \in Call : call'[d].id = call[d].id
  BY DEF Works
<1>5. CacheFresh' /\ OneLists'
  BY <1>2, <1>4 DEF OneShotsInv, CacheFresh, OneLists, Known
<1> QED BY <1>1, <1>2, <1>3, <1>5 DEF OneShotsInv, SidecarIsWhole

(* Where a step is, when it is a Docker call.                                *)
LEMMA AtDocker ==
    ASSUME OneShotsInv, NEW c \in Call, call[c].pc \in DockerStep
    PROVE  /\ call[c].op \in Working /\ call[c].pc \in Made(call[c].op)
           /\ Following(call[c].op, call[c].pc) \in Onward(call[c].op)
           /\ Removal(call[c].op) \in Onward(call[c].op)
           /\ "end" \in Onward(call[c].op)
           /\ Onward(call[c].op) \subseteq DockerStep \cup {"store", "end"}
           /\ Removal(call[c].op) \in DockerStep
           /\ call[c].op \in Detached => call[c].pc # "remove"
           /\ call[c].op \in Detached /\ call[c].pc # "removeAlways" =>
                 Following(call[c].op, call[c].pc) \in DockerStep
<1>1. call[c].pc \in Path(call[c].op) /\ call[c].op \in Op \cup {"none"}
  BY DEF OneShotsInv, OnPath, Typed, CallState
<1>2. call[c].op \in Working /\ call[c].pc \in Made(call[c].op)
  BY <1>1 DEF Path, Onward, DockerStep, Working
<1>3. call[c].op \in Detached => call[c].pc # "remove"
  BY <1>2, DetachedPaths DEF Detached
<1> QED BY <1>2, <1>3, FollowingOnward, RemovalOnward, RemovalIsStep, DetachedGoOn, MadeAreSteps DEF Onward

(* A call that gets a result and goes to a step.                             *)
LEMMA Settles ==
    ASSUME call \in [Call -> CallState], NEW c \in Call,
           NEW out \in {"none", "bad", "partial", "whole"}, NEW pc \in DockerStep \cup {"store", "end"},
           call' = [call EXCEPT ![c].out = out, ![c].pc = pc]
    PROVE  /\ call' \in [Call -> CallState]
           /\ \A d \in Call : d # c => call'[d] = call[d]
           /\ call'[c].pc = pc /\ call'[c].out = out
           /\ call'[c].op = call[c].op /\ call'[c].id = call[c].id /\ call'[c].at = call[c].at
           /\ call'[c].st = call[c].st
<1> DEFINE r == [call[c] EXCEPT !.out = out, !.pc = pc]
<1>1. r \in CallState
  BY DEF CallState, DockerStep
<1>2. call' = [call EXCEPT ![c] = r]
  OBVIOUS
<1>3. /\ r.pc = pc /\ r.out = out /\ r.op = call[c].op /\ r.id = call[c].id /\ r.at = call[c].at
      /\ r.st = call[c].st
  BY DEF CallState
<1> HIDE DEF r
<1> QED BY <1>1, <1>2, <1>3

LEMMA FailWorks ==
    ASSUME OneShotsInv, NEW c \in Call, call[c].pc \in DockerStep, Fail(c)
    PROVE  Works(c)
<1>1. /\ call[c].op \in Working /\ call[c].pc \in Made(call[c].op)
      /\ Removal(call[c].op) \in Onward(call[c].op)
      /\ "end" \in Onward(call[c].op)
      /\ Onward(call[c].op) \subseteq DockerStep \cup {"store", "end"}
      /\ Removal(call[c].op) \in DockerStep
  BY AtDocker
<1> DEFINE pc == IF call[c].st = "none" THEN "end" ELSE Removal(call[c].op)
<1>2. pc \in Onward(call[c].op) /\ ((pc = "end" /\ call[c].st = "none") \/ pc \in DockerStep)
  BY <1>1
<1>3. call' = [call EXCEPT ![c].out = "bad", ![c].pc = pc]
  BY DEF Fail
<1> HIDE DEF pc
<1>4. call \in [Call -> CallState]
  BY DEF OneShotsInv, Typed
<1>5. pc \in DockerStep \cup {"store", "end"}
  BY <1>1, <1>2
<1>6. "bad" \in {"none", "bad", "partial", "whole"}
  OBVIOUS
<1>7. /\ call' \in [Call -> CallState]
      /\ \A d \in Call : d # c => call'[d] = call[d]
      /\ call'[c].pc = pc /\ call'[c].out = "bad"
      /\ call'[c].op = call[c].op /\ call'[c].id = call[c].id /\ call'[c].at = call[c].at
      /\ call'[c].st = call[c].st
  BY <1>3, <1>4, <1>5, <1>6, Settles
<1>8. Tidy(call'[c])
  BY <1>2, <1>7 DEF Tidy, DockerStep
<1> QED BY <1>1, <1>2, <1>3, <1>7, <1>8 DEF Works, NoPart

LEMMA GotWorks ==
    ASSUME OneShotsInv, NEW c \in Call, call[c].pc \in DockerStep \ {"remove", "removeAlways"},
           NEW out \in {"partial", "whole"}, call[c].op = "options" => out = "whole", Got(c, out)
    PROVE  Works(c)
<1>1. /\ call[c].op \in Working /\ call[c].pc \in Made(call[c].op)
      /\ Following(call[c].op, call[c].pc) \in Onward(call[c].op)
      /\ Onward(call[c].op) \subseteq DockerStep \cup {"store", "end"}
      /\ call[c].op \in Detached => Following(call[c].op, call[c].pc) \in DockerStep
  BY AtDocker
<1> DEFINE pc == Following(call[c].op, call[c].pc)
<1>2. call' = [call EXCEPT ![c].out = out, ![c].pc = pc]
  BY DEF Got, OneShotsInv, Typed, CallState
<1>3. pc \in Onward(call[c].op) /\ (call[c].op \in Detached => pc \in DockerStep)
  BY <1>1
<1> HIDE DEF pc
<1>4. call \in [Call -> CallState]
  BY DEF OneShotsInv, Typed
<1>5. pc \in DockerStep \cup {"store", "end"}
  BY <1>1, <1>3
<1>6. out \in {"none", "bad", "partial", "whole"}
  OBVIOUS
<1>7. /\ call' \in [Call -> CallState]
      /\ \A d \in Call : d # c => call'[d] = call[d]
      /\ call'[c].pc = pc /\ call'[c].out = out
      /\ call'[c].op = call[c].op /\ call'[c].id = call[c].id /\ call'[c].at = call[c].at
  BY <1>2, <1>4, <1>5, <1>6, Settles
<1>8. Tidy(call'[c])
  BY <1>3, <1>7 DEF Tidy, DockerStep
<1> QED BY <1>1, <1>2, <1>3, <1>7, <1>8 DEF Works, NoPart

LEMMA GoOnWorks ==
    ASSUME OneShotsInv, NEW c \in Call, call[c].pc \in DockerStep \ {"remove", "removeAlways"}, GoOn(c)
    PROVE  Works(c)
<1>1. /\ call[c].op \in Working /\ call[c].pc \in Made(call[c].op)
      /\ Following(call[c].op, call[c].pc) \in Onward(call[c].op)
      /\ Onward(call[c].op) \subseteq DockerStep \cup {"store", "end"}
      /\ call[c].op \in Detached => Following(call[c].op, call[c].pc) \in DockerStep
  BY AtDocker
<1> DEFINE pc == Following(call[c].op, call[c].pc)
<1>2. /\ pc \in DockerStep \cup {"store", "end"} /\ pc \in Onward(call[c].op)
      /\ call[c].op \in Detached => pc \in DockerStep
  BY <1>1
<1>3. call \in [Call -> CallState] /\ NoPart(c)
  BY DEF OneShotsInv, Typed
<1>4. call' = [call EXCEPT ![c].pc = pc]
  BY DEF GoOn, Goto
<1> HIDE DEF pc
<1>5. call' \in [Call -> CallState]
  BY <1>2, <1>3, <1>4 DEF CallState, DockerStep
<1>6. /\ \A d \in Call : d # c => call'[d] = call[d]
      /\ call'[c].pc = pc /\ call'[c].out = call[c].out
      /\ call'[c].op = call[c].op /\ call'[c].id = call[c].id /\ call'[c].at = call[c].at
  BY <1>3, <1>4 DEF CallState
<1>7. Tidy(call'[c])
  BY <1>2, <1>6 DEF Tidy, DockerStep
<1> QED BY <1>1, <1>2, <1>3, <1>5, <1>6, <1>7 DEF Works, NoPart

LEMMA CreateOneShotWorks ==
    ASSUME OneShotsInv, NEW c \in Call, CreateOneShot(c)
    PROVE  Works(c)
<1>1. call[c].pc \in DockerStep /\ call[c].pc # "removeAlways"
  BY DEF CreateOneShot, At, DockerStep
<1>2. CASE Fail(c)
  BY <1>1, <1>2, FailWorks
<1>3. CASE ~Fail(c)
  <2> DEFINE pc == Following(call[c].op, call[c].pc)
             img == IF call[c].op \in Asks THEN tag ELSE NoImage
             r == [call[c] EXCEPT !.img = img, !.st = "created", !.pc = pc]
  <2>1. /\ call[c].op \in Working /\ call[c].pc \in Made(call[c].op) /\ pc \in Onward(call[c].op)
        /\ Onward(call[c].op) \subseteq DockerStep \cup {"store", "end"}
        /\ call[c].op \in Detached => pc \in DockerStep
    BY <1>1, AtDocker
  <2>2. call \in [Call -> CallState] /\ call[c] \in CallState /\ img \in MaybeImage
    BY DEF OneShotsInv, Typed, MaybeImage
  <2>3. call' = [call EXCEPT ![c].img = img, ![c].st = "created", ![c].pc = pc]
    BY <1>3, <2>2 DEF CreateOneShot, CallState
  <2> HIDE DEF pc, img
  <2>4. call' = [call EXCEPT ![c] = r]
    BY <2>2, <2>3
  <2>5. pc \in DockerStep \cup {"store", "end"}
    BY <2>1
  <2>6. r \in CallState
    BY <2>2, <2>5 DEF CallState, DockerStep
  <2>7. /\ r.pc = pc /\ r.op = call[c].op /\ r.id = call[c].id /\ r.at = call[c].at
        /\ r.out = call[c].out
    BY <2>2 DEF CallState
  <2> HIDE DEF r
  <2>8. call' \in [Call -> CallState] /\ call'[c] = r /\ \A d \in Call : d # c => call'[d] = call[d]
    BY <2>2, <2>4, <2>6
  <2>9. Tidy(r)
    BY <2>1, <2>7 DEF Tidy, DockerStep
  <2> QED BY <2>1, <2>7, <2>8, <2>9 DEF Works, NoPart, OneShotsInv
<1> QED BY <1>2, <1>3

LEMMA StartContainerWorks ==
    ASSUME OneShotsInv, NEW c \in Call, StartContainer(c)
    PROVE  Works(c)
<1>1. call[c].pc \in DockerStep /\ call[c].pc # "removeAlways"
  BY DEF StartContainer, At, DockerStep
<1>2. CASE Fail(c)
  BY <1>1, <1>2, FailWorks
<1>3. CASE ~Fail(c)
  <2> DEFINE pc == Following(call[c].op, call[c].pc)
             r == [call[c] EXCEPT !.st = "running", !.pc = pc]
  <2>1. /\ call[c].op \in Working /\ call[c].pc \in Made(call[c].op) /\ pc \in Onward(call[c].op)
        /\ Onward(call[c].op) \subseteq DockerStep \cup {"store", "end"}
        /\ call[c].op \in Detached => pc \in DockerStep
    BY <1>1, AtDocker
  <2>2. call \in [Call -> CallState] /\ call[c] \in CallState
    BY DEF OneShotsInv, Typed
  <2>3. call' = [call EXCEPT ![c].st = "running", ![c].pc = pc]
    BY <1>3, <2>2 DEF StartContainer, CallState
  <2> HIDE DEF pc
  <2>4. call' = [call EXCEPT ![c] = r]
    BY <2>2, <2>3
  <2>5. pc \in DockerStep \cup {"store", "end"}
    BY <2>1
  <2>6. r \in CallState
    BY <2>2, <2>5 DEF CallState, DockerStep
  <2>7. /\ r.pc = pc /\ r.op = call[c].op /\ r.id = call[c].id /\ r.at = call[c].at
        /\ r.out = call[c].out
    BY <2>2 DEF CallState
  <2> HIDE DEF r
  <2>8. call' \in [Call -> CallState] /\ call'[c] = r /\ \A d \in Call : d # c => call'[d] = call[d]
    BY <2>2, <2>4, <2>6
  <2>9. Tidy(r)
    BY <2>1, <2>7 DEF Tidy, DockerStep
  <2> QED BY <2>1, <2>7, <2>8, <2>9 DEF Works, NoPart, OneShotsInv
<1> QED BY <1>2, <1>3

LEMMA RemoveOneShotWorks ==
    ASSUME OneShotsInv, NEW c \in Call, RemoveOneShot(c)
    PROVE  Works(c)
<1> DEFINE pc == IF call[c].out = "bad" THEN "end" ELSE Following(call[c].op, call[c].pc)
<1>1. /\ call[c].op \in Working /\ call[c].pc \in Made(call[c].op) /\ pc \in Onward(call[c].op)
      /\ Onward(call[c].op) \subseteq DockerStep \cup {"store", "end"}
      /\ call[c].op \in Detached => call[c].pc # "remove"
  BY AtDocker DEF RemoveOneShot, DockerStep
<1>2. call \in [Call -> CallState] /\ call[c] \in CallState
  BY DEF OneShotsInv, Typed
<1>3. PICK st : /\ st \in IF call[c].gone /\ call[c].pc = "remove" THEN {call[c].st} ELSE {"none", "kept"}
                /\ call' = [call EXCEPT ![c].st = st, ![c].pc = pc]
  BY <1>2 DEF RemoveOneShot, At, CallState
<1>4. /\ st \in {"none", "created", "running", "done", "failed", "kept"}
      /\ call[c].pc # "remove" => st \in {"none", "kept"}
  BY <1>2, <1>3 DEF CallState
<1> DEFINE r == [call[c] EXCEPT !.st = st, !.pc = pc]
<1> HIDE DEF pc
<1>5. call' = [call EXCEPT ![c] = r]
  BY <1>2, <1>3
<1>6. pc \in DockerStep \cup {"store", "end"}
  BY <1>1
<1>7. r \in CallState
  BY <1>2, <1>4, <1>6 DEF CallState, DockerStep
<1>8. /\ r.pc = pc /\ r.op = call[c].op /\ r.id = call[c].id /\ r.at = call[c].at
      /\ r.out = call[c].out /\ r.st = st
  BY <1>2 DEF CallState
<1> HIDE DEF r
<1>9. call' \in [Call -> CallState] /\ call'[c] = r /\ \A d \in Call : d # c => call'[d] = call[d]
  BY <1>2, <1>5, <1>7
<1>10. Tidy(r)
  BY <1>1, <1>4, <1>6, <1>8 DEF Tidy, DockerStep
<1> QED BY <1>1, <1>8, <1>9, <1>10 DEF Works, NoPart, OneShotsInv

(* The other steps on a container.                                           *)
LEMMA OtherWorks ==
    ASSUME OneShotsInv, NEW c \in Call,
           CopyArchive(c) \/ WaitContainer(c) \/ ReadLogs(c) \/ ContainerEnds(c) \/ Leave(c)
    PROVE  Works(c)
<1>1. CASE CopyArchive(c)
  <2>1. call[c].pc \in DockerStep \ {"remove", "removeAlways"} /\ (GoOn(c) \/ Fail(c))
    BY <1>1 DEF CopyArchive, DockerStep
  <2> QED BY <2>1, GoOnWorks, FailWorks
<1>2. CASE WaitContainer(c)
  <2>1. call[c].pc \in DockerStep \ {"remove", "removeAlways"} /\ (GoOn(c) \/ Fail(c))
    BY <1>2 DEF WaitContainer, At, DockerStep
  <2> QED BY <2>1, GoOnWorks, FailWorks
<1>3. CASE ReadLogs(c)
  <2>1. call[c].pc \in DockerStep \ {"remove", "removeAlways"}
    BY <1>3 DEF ReadLogs, At, DockerStep
  <2>2. \/ Fail(c)
        \/ \E out \in {"partial", "whole"} :
              (call[c].op = "options" => out = "whole") /\ Got(c, out)
    BY <1>3 DEF ReadLogs, Printed, Decoded
  <2> QED BY <2>1, <2>2, FailWorks, GotWorks
<1>4. CASE ContainerEnds(c)
  <2>1. PICK st \in {"done", "failed"} : call' = [call EXCEPT ![c].st = st]
    BY <1>4 DEF ContainerEnds
  <2>2. call \in [Call -> CallState] /\ call[c].st = "running" /\ NoPart(c) /\ Tidy(call[c])
    BY <1>4 DEF ContainerEnds, OneShotsInv, Typed
  <2> DEFINE r == [call[c] EXCEPT !.st = st]
  <2>3. r \in CallState
    BY <2>2 DEF CallState
  <2>4. call' = [call EXCEPT ![c] = r]
    BY <2>1, <2>2
  <2>5. /\ r.pc = call[c].pc /\ r.op = call[c].op /\ r.id = call[c].id /\ r.at = call[c].at
        /\ r.out = call[c].out
    BY <2>2 DEF CallState
  <2> HIDE DEF r
  <2>6. Tidy(r)
    BY <2>2, <2>5 DEF Tidy
  <2>7. call' \in [Call -> CallState] /\ call'[c] = r /\ \A d \in Call : d # c => call'[d] = call[d]
    BY <2>2, <2>3, <2>4
  <2> QED BY <2>2, <2>5, <2>6, <2>7 DEF Works, NoPart
<1>5. CASE Leave(c)
  <2>1. call \in [Call -> CallState] /\ NoPart(c) /\ Tidy(call[c])
    BY DEF OneShotsInv, Typed
  <2>2. call' = [call EXCEPT ![c].gone = TRUE]
    BY <1>5 DEF Leave
  <2>3. call' \in [Call -> CallState]
    <3> DEFINE r == [call[c] EXCEPT !.gone = TRUE]
    <3>1. r \in CallState
      BY <2>1 DEF CallState
    <3>2. call' = [call EXCEPT ![c] = r]
      BY <2>1, <2>2
    <3> HIDE DEF r
    <3> QED BY <2>1, <3>1, <3>2
  <2>4. /\ call'[c].pc = call[c].pc /\ call'[c].op = call[c].op /\ call'[c].id = call[c].id
        /\ call'[c].at = call[c].at /\ call'[c].out = call[c].out
        /\ call'[c].st = call[c].st
        /\ \A d \in Call : d # c => call'[d] = call[d]
    BY <2>1, <2>2 DEF CallState
  <2> QED BY <2>1, <2>3, <2>4 DEF Works, NoPart, Tidy
<1> QED BY <1>1, <1>2, <1>3, <1>4, <1>5

(* No step on a container breaks the invariant, the removal included.        *)
LEMMA ContainerKeeps ==
    ASSUME OneShotsInv, NEW c \in Call,
           \/ CreateOneShot(c) \/ CopyArchive(c) \/ StartContainer(c) \/ WaitContainer(c)
           \/ ReadLogs(c) \/ ContainerEnds(c) \/ Leave(c) \/ RemoveOneShot(c)
    PROVE  OneShotsInv'
<1>1. Works(c)
  BY CreateOneShotWorks, StartContainerWorks, RemoveOneShotWorks, OtherWorks
<1>2. UNCHANGED <<images, caches, stored, mix, clock>>
  BY DEF CreateOneShot, CopyArchive, StartContainer, WaitContainer, ReadLogs, ContainerEnds,
         Leave, RemoveOneShot
<1> QED BY <1>1, <1>2, WorksKeeps

------------------------------------------------------------------------------
(* A state of a call that fits what the others and the images are.           *)
Fits(r) ==
    /\ r \in CallState /\ r.pc \in Path(r.op) /\ r.at <= clock
    /\ r.id \in Image => (r.id = tag \/ until[r.id] + TTL > r.at)
    /\ (r.id \in Image /\ r.pc = "note") => (r.id = tag \/ until[r.id] >= r.at)
    /\ r.op = "options" => r.out # "partial"
    /\ Tidy(r)

Listing(r) ==
    r.op = "declared" /\ r.pc \in {"create", "start", "wait", "logs", "removeAlways", "store"}

(* A call put into a state that fits, whatever it stores: it lists only if   *)
(* nobody does, and keeps what it listed only if nobody else does.          *)
LEMMA FitsKeeps ==
    ASSUME OneShotsInv, NEW c \in Call, NEW r, Fits(r), call' = [call EXCEPT ![c] = r],
           UNCHANGED <<images, mix, clock>>,
           cache' = cache \/ (cache' \in [id : MaybeImage, at : Instant] /\ CacheFresh'),
           \/ files' = files
           \/ /\ files' \in [id : MaybeImage, games : MaybeImage]
              /\ ~Listing(r) /\ \A d \in Call : d # c => ~Lists(d),
           SidecarIsWhole',
           Listing(r) => (\A d \in Call : ~Lists(d)) /\ ~Known(r.id)
    PROVE  OneShotsInv'
<1> USE DEF images, caches, stored
<1>1. call \in [Call -> CallState] /\ r \in CallState
  BY DEF OneShotsInv, Typed, Fits
<1>2. call'[c] = r /\ \A d \in Call : d # c => call'[d] = call[d]
  BY <1>1
<1>3. Typed'
  BY <1>1 DEF OneShotsInv, Typed
<1>4. OnPath'
  BY <1>2 DEF OneShotsInv, OnPath, Fits
<1>5. \A d \in Call : IdFresh(d)' /\ NoPart(d)' /\ Tidy(call'[d])
  BY <1>2 DEF OneShotsInv, IdFresh, NoPart, Fits
<1>6. CacheFresh'
  BY DEF OneShotsInv, CacheFresh
<1>7. /\ Lists(c)' <=> Listing(r)
      /\ \A d \in Call : d # c => (Lists(d)' <=> Lists(d))
  BY <1>2 DEF Lists, Listing, Known
<1>8. OneLists'
  <2>1. CASE files' = files
    BY <1>2, <1>7, <2>1 DEF OneShotsInv, OneLists, Known
  <2>2. CASE files' # files
    BY <1>7, <2>2 DEF OneLists
  <2> QED BY <2>1, <2>2
<1> QED BY <1>3, <1>4, <1>5, <1>6, <1>8 DEF OneShotsInv

LEMMA FirstIsCreate == \A op \in Working : "create" \in Made(op)
<1> SUFFICES ASSUME NEW op \in Working PROVE "create" \in Made(op)
  OBVIOUS
<1>1. DockerCalls(op)[1] = "create"
  BY DEF DockerCalls, Working, Op, GenerateTemplate, IntrospectOptions, ReadMultidata,
         ListRequiredFiles, PreflightGenerate, PutDataToVolume, CopyOutputDirFromVolume
<1>2. 1 \in DOMAIN DockerCalls(op)
  BY DockerCallsTyped
<1> QED BY <1>1, <1>2 DEF Made

(* Who is at a step before its container, or after it.                       *)
LEMMA AtOther ==
    ASSUME OneShotsInv, NEW c \in Call
    PROVE  /\ call \in [Call -> CallState] /\ call[c] \in CallState
           /\ call[c].pc \in {"ask", "inspect", "note"} => call[c].op \in Asks
           /\ call[c].pc = "lock" => call[c].op = "declared"
           /\ call[c].pc = "store" => call[c].op \in Stores
           /\ call[c].op # "none" => "end" \in Path(call[c].op)
<1>1. /\ call \in [Call -> CallState] /\ call[c] \in CallState
      /\ call[c].pc \in Path(call[c].op) /\ call[c].op \in Op \cup {"none"}
  BY DEF OneShotsInv, OnPath, Typed, CallState
<1>2. call[c].op \in Working => Made(call[c].op) \subseteq DockerStep
  BY MadeAreSteps
<1> QED BY <1>1, <1>2 DEF Path, Onward, DockerStep, Working, Asks

(* A call that is over.                                                      *)
LEMMA EndFits ==
    ASSUME OneShotsInv, NEW c \in Call, call[c].op # "none", call[c].pc = "store", Goto(c, "end")
    PROVE  \E r : Fits(r) /\ ~Listing(r) /\ call' = [call EXCEPT ![c] = r]
<1> DEFINE r == [call[c] EXCEPT !.pc = "end"]
<1>1. call \in [Call -> CallState] /\ call[c] \in CallState /\ "end" \in Path(call[c].op)
  BY AtOther
<1>2. /\ r \in CallState /\ r.pc = "end" /\ r.op = call[c].op /\ r.id = call[c].id
      /\ r.at = call[c].at /\ r.out = call[c].out /\ r.st = call[c].st
  BY <1>1 DEF CallState
<1>3. call' = [call EXCEPT ![c] = r]
  BY <1>1 DEF Goto
<1> HIDE DEF r
<1>4. Fits(r) /\ ~Listing(r)
  BY <1>1, <1>2 DEF Fits, Listing, OneShotsInv, IdFresh, NoPart, Tidy
<1> QED BY <1>3, <1>4

(* A call that is given an id of the image.                                  *)
LEMMA AnswerFits ==
    ASSUME OneShotsInv, NEW c \in Call, call[c].pc \in {"ask", "inspect", "note"},
           NEW id \in MaybeImage, Answer(c, id),
           id \in Image => (id = tag \/ until[id] + TTL > call[c].at)
    PROVE  \E r : Fits(r) /\ ~Listing(r) /\ call' = [call EXCEPT ![c] = r]
<1> DEFINE pc == IF call[c].op = "runtime" THEN "end" ELSE "lock"
           r == [call[c] EXCEPT !.id = id, !.pc = pc]
<1>1. call \in [Call -> CallState] /\ call[c] \in CallState /\ call[c].op \in Asks
  BY AtOther
<1>2. /\ r \in CallState /\ r.pc = pc /\ r.op = call[c].op /\ r.id = id
      /\ r.at = call[c].at /\ r.out = call[c].out /\ r.st = call[c].st
  BY <1>1 DEF CallState
<1>3. call' = [call EXCEPT ![c].id = id, ![c].pc = pc]
  BY DEF Answer
<1>4. call' = [call EXCEPT ![c] = r]
  BY <1>1, <1>3
<1>5. pc \in Path(call[c].op) /\ pc \in {"end", "lock"}
  BY <1>1 DEF Path, Asks
<1> HIDE DEF r, pc
<1>6. Fits(r) /\ ~Listing(r)
  BY <1>1, <1>2, <1>5 DEF Fits, Listing, OneShotsInv, IdFresh, NoPart, Asks, Tidy, Detached
<1> QED BY <1>4, <1>6

------------------------------------------------------------------------------
LEMMA BeginKeeps ==
    ASSUME OneShotsInv, NEW c \in Call, NEW op \in Op, Begin(c, op)
    PROVE  OneShotsInv'
<1> DEFINE at == IF op \in Asks THEN clock ELSE 0
           pc == IF op \in Asks THEN "ask" ELSE "create"
           r == [Idle EXCEPT !.op = op, !.request = op \notin {"test", "copy"}, !.at = at, !.pc = pc]
<1>1. at \in Instant /\ at <= clock
  BY OneShotsAssumption DEF OneShotsInv, Typed, Instant
<1>2. call' = [call EXCEPT ![c] = r] /\ UNCHANGED <<images, caches, stored, mix, clock>>
  BY DEF Begin
<1>3. pc \in Path(op) /\ pc \in {"ask", "create"} /\ (op = "declared" => pc = "ask")
  <2>1. CASE op \in Asks
    BY <2>1 DEF Path, Onward, Asks
  <2>2. CASE op \notin Asks
    <3>1. op \in Working /\ op # "none" /\ op # "declared"
      BY <2>2 DEF Asks, Working, Op
    <3> QED BY <2>2, <3>1, FirstIsCreate DEF Path, Onward, Working
  <2> QED BY <2>1, <2>2
<1> HIDE DEF at, pc
<1>4. /\ r \in CallState /\ r.op = op /\ r.at = at /\ r.pc = pc /\ r.id = NoImage /\ r.out = "none" /\ r.st = "none"
  BY <1>1, <1>3 DEF CallState, Idle, MaybeImage
<1> HIDE DEF r
<1>5. Fits(r) /\ ~Listing(r)
  BY <1>1, <1>3, <1>4, OneShotsAssumption DEF Fits, Listing, Tidy
<1> QED BY <1>2, <1>5, FitsKeeps DEF caches, stored, SidecarIsWhole, OneShotsInv

LEMMA LookUpKeeps ==
    ASSUME OneShotsInv, NEW c \in Call, LookUp(c)
    PROVE  OneShotsInv'
<1>1. UNCHANGED <<images, caches, stored, mix, clock>> /\ call[c].pc = "ask"
  BY DEF LookUp, At
<1>2. \E r : Fits(r) /\ ~Listing(r) /\ call' = [call EXCEPT ![c] = r]
  <2>1. CASE Cached(c)
    <3>1. Answer(c, cache.id) /\ cache.id \in MaybeImage
      BY <2>1 DEF LookUp, OneShotsInv, Typed
    <3>2. cache.id \in Image => (cache.id = tag \/ until[cache.id] + TTL > call[c].at)
      <4> SUFFICES ASSUME cache.id \in Image, cache.id # tag
                   PROVE  until[cache.id] + TTL > call[c].at
        OBVIOUS
      <4>1. until[cache.id] >= cache.at /\ call[c].at - cache.at < TTL
        BY <2>1 DEF OneShotsInv, CacheFresh, Cached
      <4>2. until[cache.id] \in Nat /\ cache.at \in Nat /\ call[c].at \in Nat /\ TTL \in Nat
        BY AtOther, OneShotsAssumption DEF OneShotsInv, Typed, Instant, CallState
      <4> QED BY <4>1, <4>2
    <3> QED BY <1>1, <3>1, <3>2, AnswerFits
  <2>2. CASE ~Cached(c)
    <3> DEFINE r == [call[c] EXCEPT !.pc = "inspect"]
    <3>1. call \in [Call -> CallState] /\ call[c] \in CallState /\ call[c].op \in Asks
      BY <1>1, AtOther
    <3>2. /\ r \in CallState /\ r.pc = "inspect" /\ r.op = call[c].op /\ r.id = call[c].id
          /\ r.at = call[c].at /\ r.out = call[c].out /\ r.st = call[c].st
      BY <3>1 DEF CallState
    <3>3. call' = [call EXCEPT ![c] = r]
      BY <2>2, <3>1 DEF LookUp, Goto
    <3> HIDE DEF r
    <3>4. Fits(r) /\ ~Listing(r)
      BY <1>1, <3>1, <3>2 DEF Fits, Listing, OneShotsInv, IdFresh, NoPart, Path, Asks, Tidy
    <3> QED BY <3>3, <3>4
  <2> QED BY <2>1, <2>2
<1> QED BY <1>1, <1>2, FitsKeeps DEF caches, stored, SidecarIsWhole, OneShotsInv

LEMMA InspectKeeps ==
    ASSUME OneShotsInv, NEW c \in Call, Inspect(c)
    PROVE  OneShotsInv'
<1>1. UNCHANGED <<images, caches, stored, mix, clock>> /\ call[c].pc = "inspect"
  BY DEF Inspect, At
<1>2. \E r : Fits(r) /\ ~Listing(r) /\ call' = [call EXCEPT ![c] = r]
  <2>1. CASE Answer(c, NoImage)
    BY <1>1, <2>1, AnswerFits, OneShotsAssumption DEF MaybeImage
  <2>2. CASE call' = [call EXCEPT ![c].id = tag, ![c].pc = "note"]
    <3> DEFINE r == [call[c] EXCEPT !.id = tag, !.pc = "note"]
    <3>1. call \in [Call -> CallState] /\ call[c] \in CallState /\ call[c].op \in Asks
      BY <1>1, AtOther
    <3>2. /\ r \in CallState /\ r.pc = "note" /\ r.op = call[c].op /\ r.id = tag
          /\ r.at = call[c].at /\ r.out = call[c].out /\ r.st = call[c].st
      BY <3>1 DEF CallState, MaybeImage, OneShotsInv, Typed
    <3>3. call' = [call EXCEPT ![c] = r]
      BY <2>2, <3>1
    <3> HIDE DEF r
    <3>4. Fits(r) /\ ~Listing(r)
      BY <1>1, <3>1, <3>2 DEF Fits, Listing, OneShotsInv, IdFresh, NoPart, Path, Asks, Tidy
    <3> QED BY <3>3, <3>4
  <2> QED BY <2>1, <2>2 DEF Inspect
<1> QED BY <1>1, <1>2, FitsKeeps DEF caches, stored, SidecarIsWhole, OneShotsInv

(* The cache gets the id with the time it was asked for, however late.       *)
LEMMA NoteKeeps ==
    ASSUME OneShotsInv, NEW c \in Call, Note(c)
    PROVE  OneShotsInv'
<1>1. /\ UNCHANGED <<images, files, stored, mix, clock>> /\ call[c].pc = "note"
      /\ cache' = [id |-> call[c].id, at |-> call[c].at] /\ Answer(c, call[c].id)
  BY DEF Note, At
<1>2. call[c].id \in MaybeImage /\ call[c].at \in Instant
  BY AtOther DEF CallState
<1>3. \E r : Fits(r) /\ ~Listing(r) /\ call' = [call EXCEPT ![c] = r]
  BY <1>1, <1>2, AnswerFits DEF OneShotsInv, IdFresh
<1>4. cache' \in [id : MaybeImage, at : Instant] /\ CacheFresh'
  BY <1>1, <1>2 DEF CacheFresh, OneShotsInv, IdFresh, images
<1> QED BY <1>1, <1>3, <1>4, FitsKeeps DEF stored, SidecarIsWhole, OneShotsInv

LEMMA LockKeeps ==
    ASSUME OneShotsInv, NEW c \in Call, Lock(c)
    PROVE  OneShotsInv'
<1>1. /\ UNCHANGED <<images, caches, stored, mix, clock>> /\ call[c].pc = "lock"
      /\ \A d \in Call : ~Lists(d)
  BY DEF Lock, Consult, At
<1>2. call \in [Call -> CallState] /\ call[c] \in CallState /\ call[c].op = "declared"
  BY <1>1, AtOther
<1>3. CASE Known(call[c].id)
  <2> DEFINE r == [call[c] EXCEPT !.pc = "end", !.img = files.games, !.out = "whole"]
  <2>1. /\ r \in CallState /\ r.pc = "end" /\ r.op = call[c].op /\ r.id = call[c].id
        /\ r.at = call[c].at /\ r.st = call[c].st
    BY <1>2 DEF CallState, OneShotsInv, Typed
  <2>2. call' = [call EXCEPT ![c] = r]
    BY <1>3 DEF Lock, Consult
  <2> HIDE DEF r
  <2>3. Fits(r) /\ ~Listing(r)
    BY <1>1, <1>2, <2>1 DEF Fits, Listing, OneShotsInv, IdFresh, Path, Onward, Tidy, Detached
  <2> QED BY <1>1, <2>2, <2>3, FitsKeeps DEF caches, stored, SidecarIsWhole, OneShotsInv
<1>4. CASE ~Known(call[c].id)
  <2> DEFINE r == [call[c] EXCEPT !.pc = "create"]
  <2>1. /\ r \in CallState /\ r.pc = "create" /\ r.op = call[c].op /\ r.id = call[c].id
        /\ r.at = call[c].at /\ r.st = call[c].st
    BY <1>2 DEF CallState
  <2>2. call' = [call EXCEPT ![c] = r]
    BY <1>4 DEF Lock, Consult
  <2> HIDE DEF r
  <2>3. "create" \in Path("declared")
    BY FirstIsCreate DEF Path, Onward, Working, Op
  <2>4. Fits(r) /\ ~Known(r.id)
    BY <1>2, <1>4, <2>1, <2>3 DEF Fits, OneShotsInv, IdFresh, Tidy
  <2> QED BY <1>1, <2>2, <2>4, FitsKeeps DEF caches, stored, SidecarIsWhole, OneShotsInv
<1> QED BY <1>3, <1>4

(* What is stored: options are never a part, and only who lists keeps files. *)
LEMMA StoreKeeps ==
    ASSUME OneShotsInv, NEW c \in Call,
           StoreTemplate(c) \/ StoreOptions(c) \/ KeepDeclared(c) \/ End(c)
    PROVE  OneShotsInv'
<1>1. UNCHANGED <<images, cache, mix, clock>>
  BY DEF StoreTemplate, StoreOptions, KeepDeclared, End, caches
<1>2. /\ call \in [Call -> CallState] /\ call[c] \in CallState
      /\ call[c].pc = "store" => call[c].op \in Stores
  BY AtOther
<1>3. Fits(Idle) /\ ~Listing(Idle)
  BY OneShotsAssumption DEF Fits, Listing, Tidy, Idle, CallState, MaybeImage, Path, Instant, OneShotsInv, Typed
<1>4. SidecarIsWhole'
  BY DEF OneShotsInv, SidecarIsWhole, NoPart, StoreTemplate, StoreOptions, KeepDeclared, End, stored
<1>5. CASE StoreTemplate(c) \/ StoreOptions(c)
  <2>1. files' = files /\ (Goto(c, "end") \/ call' = [call EXCEPT ![c] = Idle])
    BY <1>5 DEF StoreTemplate, StoreOptions, caches
  <2>2. call[c].op # "none" /\ call[c].pc = "store"
    BY <1>2, <1>5 DEF StoreTemplate, StoreOptions, At, Stores
  <2>3. \E r : Fits(r) /\ ~Listing(r) /\ call' = [call EXCEPT ![c] = r]
    BY <1>3, <2>1, <2>2, EndFits
  <2> QED BY <1>1, <1>4, <2>1, <2>3, FitsKeeps
<1>6. CASE KeepDeclared(c)
  <2>1. call[c].op = "declared" /\ call[c].pc = "store" /\ Goto(c, "end")
    BY <1>6 DEF KeepDeclared, At
  <2>2. \A d \in Call : d # c => ~Lists(d)
    BY <2>1 DEF OneShotsInv, OneLists, Lists
  <2>3. files' \in [id : MaybeImage, games : MaybeImage]
    BY <1>2, <1>6 DEF KeepDeclared, CallState, OneShotsInv, Typed
  <2>4. \E r : Fits(r) /\ ~Listing(r) /\ call' = [call EXCEPT ![c] = r]
    BY <2>1, EndFits
  <2> QED BY <1>1, <1>4, <2>2, <2>3, <2>4, FitsKeeps
<1>7. CASE End(c)
  <2> DEFINE next == [Idle EXCEPT !.op = "options", !.pc = "create"]
  <2>1. files' = files /\ (call' = [call EXCEPT ![c] = next] \/ call' = [call EXCEPT ![c] = Idle])
    BY <1>7 DEF End, caches
  <2>2. /\ next \in CallState /\ next.op = "options" /\ next.pc = "create" /\ next.id = NoImage
        /\ next.at = 0 /\ next.out = "none"
    BY <1>3 DEF Fits, CallState, Idle, Op
  <2> HIDE DEF next
  <2>3. "create" \in Path("options")
    BY FirstIsCreate DEF Path, Onward, Working, Op
  <2>4. Fits(next) /\ ~Listing(next)
    BY <2>2, <2>3, OneShotsAssumption DEF Fits, Listing, Tidy, Detached, OneShotsInv, Typed, Instant
  <2> QED BY <1>1, <1>3, <1>4, <2>1, <2>4, FitsKeeps
<1> QED BY <1>5, <1>6, <1>7

(* The tag leaves an image now, when every id of it was asked for already.   *)
LEMMA RetagKeeps ==
    ASSUME OneShotsInv, Retag
    PROVE  OneShotsInv'
<1>1. /\ tag \in Image /\ tag' \in Image /\ tag' # tag
      /\ until \in [Image -> Instant] /\ clock \in Instant /\ Instant \subseteq Nat
      /\ until' = [until EXCEPT ![tag] = clock, ![tag'] = 0]
      /\ UNCHANGED <<cache, files, template, sidecar, call, mix, clock>>
      /\ TTL \in Nat \ {0}
  BY OneShotsAssumption DEF Retag, OneShotsInv, Typed, Instant, caches, stored
<1>2. /\ until'[tag] = clock
      /\ \A i \in Image : i # tag /\ i # tag' => until'[i] = until[i]
  BY <1>1
<1>3. until' \in [Image -> Instant]
  BY <1>1, OneShotsAssumption DEF Instant
<1>4. Typed' /\ OnPath' /\ OneLists' /\ SidecarIsWhole'
  BY <1>1, <1>3 DEF OneShotsInv, Typed, OnPath, OneLists, Lists, Known, SidecarIsWhole
<1>5. ASSUME NEW c \in Call PROVE IdFresh(c)' /\ NoPart(c)' /\ Tidy(call'[c])
  <2>1. /\ IdFresh(c) /\ NoPart(c) /\ Tidy(call[c]) /\ call[c] \in CallState /\ call'[c] = call[c]
    BY <1>1 DEF OneShotsInv, Typed
  <2>2. call[c].at \in Nat /\ call[c].at <= clock
    BY <1>1, <2>1 DEF IdFresh, CallState
  <2> QED BY <1>1, <1>2, <2>1, <2>2 DEF IdFresh, NoPart
<1>6. CacheFresh'
  <2>1. cache.at \in Nat /\ cache.at <= clock
    BY <1>1 DEF OneShotsInv, CacheFresh, Typed
  <2> QED BY <1>1, <1>2, <2>1 DEF OneShotsInv, CacheFresh
<1> QED BY <1>4, <1>5, <1>6 DEF OneShotsInv

LEMMA RestartKeeps ==
    ASSUME OneShotsInv, Restart
    PROVE  OneShotsInv'
<1>1. /\ cache' = [id |-> NoImage, at |-> 0] /\ files' = [id |-> NoImage, games |-> NoImage]
      /\ call' = [c \in Call |-> Idle]
      /\ UNCHANGED <<tag, until, template, sidecar, mix, clock>>
  BY DEF Restart, images, stored
<1>2. Typed'
  BY <1>1, OneShotsAssumption DEF OneShotsInv, Typed, Idle, CallState, MaybeImage, Instant
<1>3. OnPath'
  BY <1>1 DEF OnPath, Path, Idle
<1>4. /\ \A c \in Call : IdFresh(c)' /\ NoPart(c)' /\ Tidy(call'[c])
      /\ CacheFresh' /\ OneLists'
  BY <1>1, OneShotsAssumption DEF OneShotsInv, Typed, Instant, Idle, IdFresh, NoPart, Tidy, Detached, CacheFresh, OneLists, Lists
<1> QED BY <1>1, <1>2, <1>3, <1>4 DEF OneShotsInv, SidecarIsWhole

LEMMA OneShotsNext == OneShotsInv /\ [Next]_vars => OneShotsInv'
<1> SUFFICES ASSUME OneShotsInv, [Next]_vars PROVE OneShotsInv'
  OBVIOUS
<1>1. CASE UNCHANGED vars
  BY <1>1 DEF vars, images, caches, stored, OneShotsInv, Typed, OnPath, IdFresh, NoPart, CacheFresh,
              OneLists, Lists, Known, SidecarIsWhole
<1>2. CASE SetApworldTemplate
  BY <1>2 DEF SetApworldTemplate, images, caches, OneShotsInv, Typed, OnPath, IdFresh, NoPart, CacheFresh,
              OneLists, Lists, Known, SidecarIsWhole
<1>3. CASE Tick
  <2>1. /\ clock \in Instant /\ clock' = clock + 1 /\ clock' \in Instant
        /\ UNCHANGED <<tag, until, cache, files, template, sidecar, call, mix>>
    BY <1>3, OneShotsAssumption DEF Tick, OneShotsInv, Typed, Instant, images, caches, stored
  <2>2. Typed' /\ OnPath' /\ OneLists' /\ SidecarIsWhole'
    BY <2>1 DEF OneShotsInv, Typed, OnPath, OneLists, Lists, Known, SidecarIsWhole
  <2>3. CacheFresh' /\ \A c \in Call : IdFresh(c)' /\ NoPart(c)' /\ Tidy(call'[c])
    BY <2>1, OneShotsAssumption DEF OneShotsInv, Typed, CallState, Instant, IdFresh, NoPart, CacheFresh
  <2> QED BY <2>2, <2>3 DEF OneShotsInv
<1>4. ASSUME NEW c \in Call, Step(c) PROVE OneShotsInv'
  BY <1>4, ContainerKeeps, LookUpKeeps, InspectKeeps, NoteKeeps, StoreKeeps DEF Step
<1>5. ASSUME NEW c \in Call, Leave(c) \/ ContainerEnds(c) \/ Lock(c) PROVE OneShotsInv'
  BY <1>5, ContainerKeeps, LockKeeps
<1> QED
  BY <1>1, <1>2, <1>3, <1>4, <1>5, BeginKeeps, RetagKeeps, RestartKeeps DEF Next

------------------------------------------------------------------------------
LEMMA OneShotsHolds == Spec => []OneShotsInv
BY OneShotsInit, OneShotsNext, PTL DEF Spec

(* However slow and however often overtaken its inspection was, an image id  *)
(* that is answered was the tag's less than TTL before it was asked for, for *)
(* any number of calls and images (image.go:26-51).                          *)
THEOREM OneShotsImageIdFresh == Spec => []ImageIdFresh
<1>1. OneShotsInv => ImageIdFresh
  BY DEF OneShotsInv, IdFresh, ImageIdFresh
<1> QED BY <1>1, OneShotsHolds, PTL

(* A test or a listing whose client goes, or whose timeout passes, at any    *)
(* step, and whatever failed before, is not over until Docker was asked to   *)
(* remove its container (client.go:585, 734), for any number of calls.       *)
THEOREM OneShotsDetachedLeaveNothing == Spec => []DetachedLeaveNothing
<1>1. OneShotsInv => DetachedLeaveNothing
  BY DEF OneShotsInv, Tidy, DetachedLeaveNothing
<1> QED BY <1>1, OneShotsHolds, PTL

(* No part of a set of options is stored, whatever fails, ends early or is   *)
(* answered wrongly (apworld_template.go:63-90).                             *)
THEOREM OneShotsSidecarIsWhole == Spec => []SidecarIsWhole
<1>1. OneShotsInv => SidecarIsWhole
  BY DEF OneShotsInv
<1> QED BY <1>1, OneShotsHolds, PTL

(* The declared files of an image that are known are not listed again, by    *)
(* any number of concurrent readers (declared_files.go:59).                  *)
THEOREM OneShotsListedOnce == Spec => []ListedOnce
<1>1. OneShotsInv => ListedOnce
  BY DEF OneShotsInv, OneLists, ListedOnce
<1> QED BY <1>1, OneShotsHolds, PTL

------------------------------------------------------------------------------
(* What a call would store, once it is done with its container, is what the  *)
(* container printed: only then is what is stored well typed.                *)
Beyond == {"remove", "removeAlways", "store"}
HasResult(r) ==
    r.op \in Stores =>
       /\ r.pc \in Beyond => r.out # "none"
       /\ r.pc = "store" => r.out # "bad"

TypeInv == OneShotsInv /\ (\A c \in Call : HasResult(call[c])) /\ template \in Content /\ sidecar \in Content

\* The removal comes after the logs.
LEMMA LogsBeforeRemoval ==
    ASSUME NEW op \in Stores, NEW pc \in Made(op), pc \in {"create", "put", "get", "start", "wait"}
    PROVE  Following(op, pc) \notin Beyond
<1> DEFINE calls == DockerCalls(op)
           i == CHOOSE j \in DOMAIN calls : calls[j] = pc
<1>1. i \in DOMAIN calls /\ calls[i] = pc
  BY DEF Made
<1>2. Following(op, pc) = IF i < Len(calls) THEN calls[i + 1]
                         ELSE IF op \in Stores THEN "store" ELSE "end"
  BY DEF Following
<1> HIDE DEF i
<1>3. \/ calls = <<"create", "put", "start", "wait", "logs", "remove">>
      \/ calls = <<"create", "start", "wait", "logs", "removeAlways">>
  BY DEF Stores, DockerCalls, GenerateTemplate, IntrospectOptions, ListRequiredFiles
<1> HIDE DEF calls
<1>4. i < Len(calls) /\ calls[i + 1] \in {"put", "start", "wait", "logs"}
  <2>1. CASE calls = <<"create", "put", "start", "wait", "logs", "remove">>
    <3>1. Len(calls) = 6 /\ i \in 1..6
      BY <1>1, <2>1
    <3> QED BY <1>1, <2>1, <3>1
  <2>2. CASE calls = <<"create", "start", "wait", "logs", "removeAlways">>
    <3>1. Len(calls) = 5 /\ i \in 1..5
      BY <1>1, <2>2
    <3> QED BY <1>1, <2>2, <3>1
  <2> QED BY <1>3, <2>1, <2>2
<1> QED BY <1>2, <1>4 DEF Beyond

LEMMA FailHasResult ==
    ASSUME OneShotsInv, NEW c \in Call, Fail(c)
    PROVE  \E r : call' = [call EXCEPT ![c] = r] /\ HasResult(r)
<1> DEFINE r == [call[c] EXCEPT !.out = "bad",
                   !.pc = IF call[c].st = "none" THEN "end" ELSE Removal(call[c].op)]
<1>1. call \in [Call -> CallState]
  BY DEF OneShotsInv, Typed
<1>2. call' = [call EXCEPT ![c] = r]
  BY <1>1 DEF Fail
<1>3. r.op = call[c].op /\ r.out = "bad"
      /\ r.pc = IF call[c].st = "none" THEN "end" ELSE Removal(call[c].op)
  BY <1>1 DEF CallState
<1> HIDE DEF r
<1>4. ASSUME r.op \in Stores PROVE r.pc # "store"
  <2>1. r.op \in Working /\ Len(DockerCalls(r.op)) \in DOMAIN DockerCalls(r.op)
    BY <1>4, DockerCallsTyped DEF Stores, Working, Op
  <2>2. Removal(r.op) \in DockerStep
    BY <2>1, MadeAreSteps DEF Removal, Made
  <2> QED BY <1>3, <2>2 DEF DockerStep
<1> QED BY <1>2, <1>3, <1>4 DEF HasResult

\* A call before its logs goes on, with what it has.
LEMMA GoesOn ==
    ASSUME OneShotsInv, NEW c \in Call, NEW r,
           call[c].pc \in {"create", "put", "get", "start", "wait"},
           r.op = call[c].op, r.pc = Following(call[c].op, call[c].pc)
    PROVE  HasResult(r)
<1> SUFFICES ASSUME r.op \in Stores PROVE r.pc \notin Beyond
  BY DEF HasResult, Beyond
<1>1. call[c].pc \in Path(call[c].op) /\ call[c].op \notin {"none", "runtime"}
  BY DEF OneShotsInv, OnPath, Stores
<1>2. call[c].pc \in Made(call[c].op)
  BY <1>1 DEF Path, Onward
<1> QED BY <1>2, LogsBeforeRemoval

LEMMA StepHasResult ==
    ASSUME TypeInv, NEW c \in Call,
           (\E op \in Op : Begin(c, op)) \/ Leave(c) \/ Step(c) \/ Lock(c) \/ ContainerEnds(c)
    PROVE  \E r : call' = [call EXCEPT ![c] = r] /\ HasResult(r)
<1>0. call \in [Call -> CallState] /\ HasResult(call[c]) /\ OneShotsInv /\ call[c] \in CallState
  BY DEF TypeInv, OneShotsInv, Typed
<1> DEFINE Done == \E r : call' = [call EXCEPT ![c] = r] /\ HasResult(r)
<1>1. ASSUME NEW op \in Op, Begin(c, op) PROVE Done
  <2> DEFINE r == [Idle EXCEPT !.op = op, !.request = op \notin {"test", "copy"},
                       !.at = IF op \in Asks THEN clock ELSE 0,
                       !.pc = IF op \in Asks THEN "ask" ELSE "create"]
  <2>1. call' = [call EXCEPT ![c] = r]
    BY <1>1, Zenon DEF Begin
  <2>2. r.pc \notin Beyond
    BY DEF Idle, Beyond
  <2> HIDE DEF r
  <2> QED BY <2>1, <2>2 DEF HasResult, Beyond
<1>2. ASSUME Leave(c) PROVE Done
  <2> DEFINE r == [call[c] EXCEPT !.gone = TRUE]
  <2>1. call' = [call EXCEPT ![c] = r]
    BY <1>0, <1>2 DEF Leave
  <2>2. HasResult(r)
    BY <1>0 DEF HasResult, CallState
  <2> QED BY <2>1, <2>2
<1>3. ASSUME ContainerEnds(c) PROVE Done
  <2>1. PICK st \in {"done", "failed"} : call' = [call EXCEPT ![c].st = st]
    BY <1>3 DEF ContainerEnds
  <2> DEFINE r == [call[c] EXCEPT !.st = st]
  <2>2. call' = [call EXCEPT ![c] = r]
    BY <1>0, <2>1
  <2>3. HasResult(r)
    BY <1>0 DEF HasResult, CallState
  <2> QED BY <2>2, <2>3
<1>4. ASSUME NEW id, Answer(c, id) PROVE Done
  <2> DEFINE r == [call[c] EXCEPT !.id = id, !.pc = IF call[c].op = "runtime" THEN "end" ELSE "lock"]
  <2>1. call' = [call EXCEPT ![c] = r]
    BY <1>0, <1>4 DEF Answer
  <2>2. HasResult(r)
    BY <1>0 DEF HasResult, Beyond, CallState
  <2> QED BY <2>1, <2>2
<1>5. ASSUME NEW pc \in {"inspect", "end"}, Goto(c, pc) PROVE Done
  <2> DEFINE r == [call[c] EXCEPT !.pc = pc]
  <2>1. call' = [call EXCEPT ![c] = r]
    BY <1>0, <1>5 DEF Goto
  <2>2. HasResult(r)
    BY <1>0 DEF HasResult, Beyond, CallState
  <2> QED BY <2>1, <2>2
<1>6. ASSUME LookUp(c) \/ Inspect(c) \/ Note(c) PROVE Done
  <2>1. CASE LookUp(c)
    BY <1>4, <1>5, <2>1 DEF LookUp
  <2>2. CASE Note(c)
    BY <1>4, <2>2 DEF Note
  <2>3. CASE Inspect(c)
    <3>1. CASE Answer(c, NoImage)
      BY <1>4, <3>1
    <3>2. CASE call' = [call EXCEPT ![c].id = tag, ![c].pc = "note"]
      <4> DEFINE r == [call[c] EXCEPT !.id = tag, !.pc = "note"]
      <4>1. call' = [call EXCEPT ![c] = r]
        BY <1>0, <3>2
      <4>2. HasResult(r)
        BY <1>0 DEF HasResult, Beyond, CallState
      <4> QED BY <4>1, <4>2
    <3> QED BY <2>3, <3>1, <3>2 DEF Inspect
  <2> QED BY <1>6, <2>1, <2>2, <2>3
<1>7. ASSUME Lock(c) PROVE Done
  <2> DEFINE r == IF Known(call[c].id)
                  THEN [call[c] EXCEPT !.pc = "end", !.img = files.games, !.out = "whole"]
                  ELSE [call[c] EXCEPT !.pc = "create"]
  <2>1. call' = [call EXCEPT ![c] = r]
    BY <1>7 DEF Lock, Consult
  <2>2. HasResult(r)
    BY <1>0 DEF HasResult, Beyond, CallState
  <2> QED BY <2>1, <2>2
<1>8. ASSUME GoOn(c), call[c].pc \in {"put", "get", "wait"} PROVE Done
  <2> DEFINE r == [call[c] EXCEPT !.pc = Following(call[c].op, call[c].pc)]
  <2>1. call' = [call EXCEPT ![c] = r]
    BY <1>0, <1>8 DEF GoOn, Goto
  <2>2. r.op = call[c].op /\ r.pc = Following(call[c].op, call[c].pc)
    BY <1>0 DEF CallState
  <2> HIDE DEF r
  <2>3. HasResult(r)
    BY <1>0, <1>8, <2>2, GoesOn
  <2> QED BY <2>1, <2>3
<1>9. ASSUME CopyArchive(c) \/ WaitContainer(c) PROVE Done
  BY <1>0, <1>8, <1>9, FailHasResult DEF CopyArchive, WaitContainer, At
<1>10. ASSUME CreateOneShot(c) PROVE Done
  <2>1. CASE Fail(c)
    BY <1>0, <2>1, FailHasResult
  <2>2. CASE ~Fail(c)
    <3> DEFINE r == [call[c] EXCEPT !.img = IF call[c].op \in Asks THEN tag ELSE NoImage,
                                    !.st = "created", !.pc = Following(call[c].op, call[c].pc)]
    <3>1. call' = [call EXCEPT ![c] = r] /\ call[c].pc = "create"
      BY <1>0, <1>10, <2>2 DEF CreateOneShot, At
    <3>2. r.op = call[c].op /\ r.pc = Following(call[c].op, call[c].pc)
      BY <1>0 DEF CallState
    <3> HIDE DEF r
    <3>3. HasResult(r)
      BY <1>0, <3>1, <3>2, GoesOn
    <3> QED BY <3>1, <3>3
  <2> QED BY <2>1, <2>2
<1>11. ASSUME StartContainer(c) PROVE Done
  <2>1. CASE Fail(c)
    BY <1>0, <2>1, FailHasResult
  <2>2. CASE ~Fail(c)
    <3> DEFINE r == [call[c] EXCEPT !.st = "running", !.pc = Following(call[c].op, call[c].pc)]
    <3>1. call' = [call EXCEPT ![c] = r] /\ call[c].pc = "start"
      BY <1>0, <1>11, <2>2 DEF StartContainer, At
    <3>2. r.op = call[c].op /\ r.pc = Following(call[c].op, call[c].pc)
      BY <1>0 DEF CallState
    <3> HIDE DEF r
    <3>3. HasResult(r)
      BY <1>0, <3>1, <3>2, GoesOn
    <3> QED BY <3>1, <3>3
  <2> QED BY <2>1, <2>2
<1>12. ASSUME NEW out \in {"partial", "whole"}, Got(c, out) PROVE Done
  <2> DEFINE r == [call[c] EXCEPT !.out = out, !.pc = Following(call[c].op, call[c].pc)]
  <2>1. call' = [call EXCEPT ![c] = r]
    BY <1>0, <1>12 DEF Got
  <2>2. HasResult(r)
    BY <1>0 DEF HasResult, CallState
  <2> QED BY <2>1, <2>2
<1>13. ASSUME ReadLogs(c) PROVE Done
  <2>1. Printed(c) \in {"partial", "whole"}
    BY DEF Printed
  <2> QED BY <1>0, <1>12, <1>13, <2>1, FailHasResult DEF ReadLogs
<1>14. ASSUME RemoveOneShot(c) PROVE Done
  <2> DEFINE pc == IF call[c].out = "bad" THEN "end" ELSE Following(call[c].op, call[c].pc)
  <2>1. PICK st : call' = [call EXCEPT ![c].st = st, ![c].pc = pc]
    BY <1>0, <1>14 DEF RemoveOneShot, CallState
  <2> DEFINE r == [call[c] EXCEPT !.st = st, !.pc = pc]
  <2>2. call' = [call EXCEPT ![c] = r] /\ call[c].pc \in {"remove", "removeAlways"}
    BY <1>0, <1>14, <2>1 DEF RemoveOneShot
  <2>3. r.op = call[c].op /\ r.out = call[c].out /\ r.pc = pc
    BY <1>0 DEF CallState
  <2> HIDE DEF r
  <2>4. HasResult(r)
    BY <1>0, <2>2, <2>3 DEF HasResult, Beyond
  <2> QED BY <2>2, <2>4
<1>15. ASSUME StoreTemplate(c) \/ StoreOptions(c) \/ KeepDeclared(c) \/ End(c) PROVE Done
  <2>1. CASE Goto(c, "end")
    BY <1>5, <2>1
  <2>2. CASE call' = [call EXCEPT ![c] = Idle]
    <3>1. HasResult(Idle)
      BY DEF HasResult, Idle, Stores
    <3> QED BY <2>2, <3>1
  <2>3. CASE End(c)
    <3> DEFINE r == [Idle EXCEPT !.op = "options", !.pc = "create"]
    <3>1. call' = [call EXCEPT ![c] = r] \/ call' = [call EXCEPT ![c] = Idle]
      BY <2>3 DEF End
    <3>2. HasResult(r)
      BY DEF HasResult, Idle, Beyond
    <3> QED BY <2>2, <3>1, <3>2
  <2> QED BY <1>15, <2>1, <2>2, <2>3 DEF StoreTemplate, StoreOptions, KeepDeclared
<1> QED
  BY <1>1, <1>2, <1>3, <1>6, <1>7, <1>9, <1>10, <1>11, <1>13, <1>14, <1>15 DEF Step

LEMMA StoredTyped ==
    ASSUME TypeInv, NEW c \in Call, StoreTemplate(c) \/ StoreOptions(c)
    PROVE  template' \in Content /\ sidecar' \in Content
<1>1. call[c].out \in {"none", "bad", "partial", "whole"} /\ HasResult(call[c])
      /\ template \in Content /\ sidecar \in Content
  BY DEF TypeInv, OneShotsInv, Typed, CallState
<1>2. call[c].op \in Stores /\ call[c].pc = "store"
  BY DEF StoreTemplate, StoreOptions, At, Stores
<1>3. call[c].out \in Content
  BY <1>1, <1>2 DEF HasResult, Beyond, Content
<1> QED BY <1>1, <1>3 DEF StoreTemplate, StoreOptions

LEMMA TypeStep == TypeInv /\ [Next]_vars => TypeInv'
<1> SUFFICES ASSUME TypeInv, [Next]_vars PROVE TypeInv'
  OBVIOUS
<1>1. OneShotsInv'
  BY OneShotsNext DEF TypeInv
<1>2. \A c \in Call : HasResult(call[c])'
  <2>1. CASE call' = call
    BY <2>1 DEF TypeInv, HasResult
  <2>2. CASE call' = [c \in Call |-> Idle]
    BY <2>2 DEF HasResult, Idle, Stores
  <2>3. CASE \E c \in Call : (\E op \in Op : Begin(c, op)) \/ Leave(c) \/ Step(c) \/ Lock(c) \/ ContainerEnds(c)
    <3>1. PICK c \in Call : \E r : call' = [call EXCEPT ![c] = r] /\ HasResult(r)
      BY <2>3, StepHasResult
    <3>2. PICK r : call' = [call EXCEPT ![c] = r] /\ HasResult(r)
      BY <3>1
    <3>3. \A d \in Call : call'[d] = IF d = c THEN r ELSE call[d]
      BY <3>2 DEF TypeInv, OneShotsInv, Typed
    <3> QED BY <3>2, <3>3 DEF TypeInv, HasResult
  <2> QED BY <2>1, <2>2, <2>3 DEF Next, vars, SetApworldTemplate, Retag, Tick, Restart
<1>3. template' \in Content /\ sidecar' \in Content
  <2>1. CASE UNCHANGED <<template, sidecar>>
    BY <2>1 DEF TypeInv
  <2>2. CASE SetApworldTemplate
    BY <2>2 DEF SetApworldTemplate, TypeInv, Content
  <2>3. CASE \E c \in Call : StoreTemplate(c) \/ StoreOptions(c)
    BY <2>3, StoredTyped
  <2>4. ASSUME NEW c \in Call, Step(c) PROVE UNCHANGED <<template, sidecar>> \/ StoreTemplate(c) \/ StoreOptions(c)
    BY <2>4 DEF Step, LookUp, Inspect, Note, CreateOneShot, CopyArchive, StartContainer, WaitContainer,
                ReadLogs, RemoveOneShot, KeepDeclared, End, stored
  <2>5. ASSUME NEW c \in Call, (\E op \in Op : Begin(c, op)) \/ Leave(c) \/ Lock(c) \/ ContainerEnds(c)
        PROVE  UNCHANGED <<template, sidecar>>
    <3>1. CASE \E op \in Op : Begin(c, op)
      BY <3>1, Zenon DEF Begin, stored
    <3>2. CASE Leave(c) \/ Lock(c) \/ ContainerEnds(c)
      BY <3>2 DEF Leave, Lock, Consult, ContainerEnds, stored
    <3> QED BY <2>5, <3>1, <3>2
  <2> QED
    BY <2>1, <2>2, <2>3, <2>4, <2>5 DEF Next, vars, stored, Retag, Tick, Restart
<1> QED BY <1>1, <1>2, <1>3 DEF TypeInv

(* However a call fails or is left, what is stored is a template or options  *)
(* a container printed, and every variable of OneShots is well typed.        *)
THEOREM OneShotsTypeCorrect == Spec => []TypeOK
<1>1. Init => TypeInv
  BY OneShotsInit DEF Init, TypeInv, HasResult, Idle, Stores, Content
<1>2. TypeInv => TypeOK
  BY DEF TypeInv, OneShotsInv, Typed, TypeOK
<1> QED BY <1>1, <1>2, TypeStep, PTL DEF Spec
================================================================================
