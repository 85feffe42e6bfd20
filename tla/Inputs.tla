--------------------------------- MODULE Inputs ---------------------------------
(***************************************************************************)
(* The inputs of a generation: ConfigureSession stores a YAML per player    *)
(* and the manifest of the worlds they play (internal/service/session.go),  *)
(* Generate reads them back into the tar its container starts from          *)
(* (buildDataTar, internal/service/service.go).  Each object is put or got  *)
(* alone, and no lock spans two of them.                                    *)
(* A YAML is the world its slot plays: what else it says is for the world.  *)
(* Of the row of the session, which is in Sessions and Generation, there is *)
(* what these two look at: whether it is busy (generating, launching or     *)
(* running), or not, or absent.                                             *)
(***************************************************************************)
EXTENDS Naturals, Sequences

CONSTANTS
    Configurer,     \* configure requests at work at once
    Configuration   \* the slots of a request, a sequence of [player, world]

NoOne == "no one"

\* The handler refuses a request without slots.
ASSUME InputsAssumption ==
    /\ \A slots \in Configuration : slots # <<>> /\ slots \in Seq({slots[i] : i \in DOMAIN slots})
    /\ NoOne \notin Configurer

VARIABLES
    yamls,     \* the YAMLs stored: player -> world
    manifest,  \* the worlds of the stored manifest; none before the first
    busy,      \* the status of the session refuses both requests
    conf,      \* conf[c]: the request c is, and its next write
    reader,    \* the Generate at work (one at once) and the tar it builds
    alone,     \* history: who has done every upload since its own first
    intended,  \* history: the slots stored by uploads nothing came between
    expected   \* history: the same for reader; none once they are disturbed

inputsVars == <<yamls, manifest, busy, conf, reader, alone, intended, expected>>

NoYamls == [player \in {} |-> NoOne]
Idle == [slots |-> <<>>, next |-> 0]
Asleep == [at |-> "none", worlds |-> {}, yamls |-> NoYamls, todo |-> {}]

InputsInit ==
    /\ yamls = NoYamls /\ manifest = {} /\ busy = FALSE
    /\ conf = [c \in Configurer |-> Idle]
    /\ reader = Asleep
    /\ alone = NoOne /\ intended = <<>> /\ expected = <<>>

------------------------------------------------------------------------------
\* ConfigureSession: the status is read, and the slots found valid.  When one
\* is not, or the session is busy, the request ends without a write.
Configure(c, slots) ==
    /\ conf[c] = Idle /\ ~busy
    /\ conf' = [conf EXCEPT ![c] = [slots |-> slots, next |-> 1]]
    /\ UNCHANGED <<yamls, manifest, busy, reader, alone, intended, expected>>

Advance(c) == conf' = [conf EXCEPT ![c] = [slots |-> conf[c].slots, next |-> conf[c].next + 1]]

\* The YAMLs one by one, each over the one stored for a player of that name.
UploadYaml(c) ==
    LET slots == conf[c].slots
        i == conf[c].next
    IN  /\ i \in DOMAIN slots
        /\ yamls' = [p \in DOMAIN yamls \cup {slots[i].player} |->
                       IF p = slots[i].player THEN slots[i].world ELSE yamls[p]]
        /\ Advance(c)
        /\ alone' = IF i = 1 \/ alone = c THEN c ELSE NoOne
        /\ intended' = <<>> /\ expected' = <<>>
        /\ UNCHANGED <<manifest, busy, reader>>

\* For a mutant: a player given twice is listed once, with its first world.
RefsByPlayer(slots) ==
    {slots[i].world : i \in {j \in DOMAIN slots :
        \A k \in DOMAIN slots : k < j => slots[k].player # slots[j].player}}

\* Each world once, in the order of the slots: an order nothing reads.
Refs(slots) == {slots[i].world : i \in DOMAIN slots}

UploadManifest(c) ==
    LET slots == conf[c].slots
    IN  /\ conf[c].next = Len(slots) + 1 /\ slots # <<>>
        /\ manifest' = Refs(slots)
        /\ Advance(c)
        /\ alone' = NoOne
        /\ intended' = IF alone = c THEN slots ELSE <<>>
        /\ expected' = <<>>
        /\ UNCHANGED <<yamls, busy, reader>>

\* The status is written whatever it has become since it was read; but the
\* insertion of a row that is there by now fails, and the uploads stay.
PutRow == busy' \in {busy, FALSE}

Draft(c) ==
    /\ conf[c].next = Len(conf[c].slots) + 2
    /\ PutRow
    /\ conf' = [conf EXCEPT ![c] = Idle]
    /\ UNCHANGED <<yamls, manifest, reader, alone, intended, expected>>

\* An upload fails, or the client or the process is gone.
Abandon(c) ==
    /\ conf[c] # Idle
    /\ conf' = [conf EXCEPT ![c] = Idle]
    /\ UNCHANGED <<yamls, manifest, busy, reader, alone, intended, expected>>

------------------------------------------------------------------------------
\* Generate reads the status, then the manifest and its worlds, then the list of
\* the YAMLs, then each.  A world is stored under its hash and never changes.
Generate ==
    /\ reader = Asleep /\ ~busy
    /\ reader' = [at |-> "manifest", worlds |-> {}, yamls |-> NoYamls, todo |-> {}]
    /\ UNCHANGED <<yamls, manifest, busy, conf, alone, intended, expected>>

ReadManifest ==
    /\ reader.at = "manifest"
    /\ reader' = [at |-> "list", worlds |-> manifest, yamls |-> NoYamls, todo |-> {}]
    /\ expected' = intended
    /\ UNCHANGED <<yamls, manifest, busy, conf, alone, intended>>

ListSessionYamls ==
    /\ reader.at = "list"
    /\ reader' = [at |-> "yamls", worlds |-> reader.worlds, yamls |-> NoYamls, todo |-> DOMAIN yamls]
    /\ UNCHANGED <<yamls, manifest, busy, conf, alone, intended, expected>>

DownloadSessionYaml(p) ==
    /\ reader.at = "yamls" /\ p \in reader.todo
    /\ LET got == DOMAIN reader.yamls \cup {p}
       IN  reader' = [at |-> "yamls", worlds |-> reader.worlds, todo |-> reader.todo \ {p},
                      yamls |-> [q \in got |-> IF q = p THEN yamls[p] ELSE reader.yamls[q]]]
    /\ UNCHANGED <<yamls, manifest, busy, conf, alone, intended, expected>>

\* The tar is complete (an observer is added, who plays no world): the row
\* becomes pending and the generation starts from the tar.
Pending ==
    /\ reader.at = "yamls" /\ reader.todo = {}
    /\ PutRow
    /\ reader' = Asleep
    /\ expected' = <<>>
    /\ UNCHANGED <<yamls, manifest, conf, alone, intended>>

\* A read fails, or the client or the process is gone.
GiveUp ==
    /\ reader # Asleep
    /\ reader' = Asleep /\ expected' = <<>>
    /\ UNCHANGED <<yamls, manifest, busy, conf, alone, intended>>

\* The other operations of the session, which never touch its inputs: a
\* deletion leaves them behind.
Elsewhere ==
    /\ busy' = ~busy
    /\ UNCHANGED <<yamls, manifest, conf, reader, alone, intended, expected>>

InputsNext ==
    \/ \E c \in Configurer :
         \/ \E slots \in Configuration : Configure(c, slots)
         \/ UploadYaml(c) \/ UploadManifest(c) \/ Draft(c) \/ Abandon(c)
    \/ Generate \/ ReadManifest \/ ListSessionYamls \/ Pending \/ GiveUp
    \/ \E p \in reader.todo : DownloadSessionYaml(p)
    \/ Elsewhere

------------------------------------------------------------------------------
\* The files hold the first n slots, of each name the last.
HasSlots(files, slots, n) ==
    \A i \in 1..n :
        /\ slots[i].player \in DOMAIN files
        /\ (\A j \in (i + 1)..n : slots[j].player # slots[i].player) =>
              files[slots[i].player] = slots[i].world

\* Configure is "safe to call multiple times" (session_handlers.go:402): after
\* one whose uploads nothing came between, whatever requests failed, overlapped
\* or configured other players before it, a generation that reads while nobody
\* writes gets each of its players with the last slot of that name, and the
\* worlds of exactly its slots (session.go:1077-1098, service.go:599-640).
ConfiguredIsGiven ==
    (reader.at = "yamls" /\ reader.todo = {} /\ expected # <<>>) =>
        /\ HasSlots(reader.yamls, expected, Len(expected))
        /\ reader.worlds = {expected[i].world : i \in DOMAIN expected}
================================================================================
