------------------------------- MODULE Artifacts -------------------------------
(***************************************************************************)
(* What a generation leaves in /data/output, on its way into the stored     *)
(* artifact and back into the volume of a session that is launched again    *)
(* from it (internal/service/session.go: buildOutputArtifact, tarToZip,     *)
(* isZipArtifact, zipToOutputTar, and their use by LaunchFromFile).         *)
(* A file is [dir, folder, stem, ext, data].  The data of a zip is          *)
(* [zip |-> its entries]; other data is [plain |-> a payload].              *)
(***************************************************************************)
EXTENDS Naturals, Sequences, Filters

CONSTANTS
    Entry,       \* what the generator may write into /data/output
    Import,      \* files a member may launch from, [stem, ext, data]
    MaxEntries   \* bound on the entries captured

ASSUME ArtifactsAssumption ==
    /\ MaxEntries \in Nat
    \* The entries of a zip are a list.
    /\ \A file \in Entry \cup Import : "zip" \in DOMAIN file.data =>
          file.data.zip \in Seq({file.data.zip[i] : i \in DOMAIN file.data.zip})

VARIABLES
    captured,  \* the tar of /data/output, an entry after the other
    artifact,  \* the file kept, [stem, ext, data], or NotStored
    volume,    \* /data/output of the session launched: base name -> data
    refused    \* the launch was refused

artifactVars == <<captured, artifact, volume, refused>>

NotStored == [stem |-> "", ext |-> "", data |-> [plain |-> ""]]
Files(entries) == Filter(entries, LAMBDA e : ~e.dir)
IsZip(data) == "zip" \in DOMAIN data
BaseName(e) == <<e.stem, e.ext>>

------------------------------------------------------------------------------
\* The directory entries are left out, the folders of the others are kept.
TarToZip(tar) == [zip |-> Files(tar)]

\* For a mutant: a bundle is stored alone whatever lies beside it.
BuildFromFirst(tar) ==
    IF Files(tar) # <<>> /\ Files(tar)[1].ext = "zip" THEN Files(tar)[1].data ELSE TarToZip(tar)

\* A bundle the generator made is stored as it is, when it is the only file.
BuildOutputArtifact(tar) ==
    IF Len(Files(tar)) = 1 /\ Files(tar)[1].ext = "zip" THEN Files(tar)[1].data ELSE TarToZip(tar)

IsZipArtifact(file) == file.ext = "zip" \/ IsZip(file.data)

Restorable(zip) == Filter(Files(zip), LAMBDA e : e.ext # "apsave")

\* Unpacked flat: of the entries of one base name, the last one stays.
ZipToOutputTar(zip) ==
    LET kept == Restorable(zip)
        Last(n) == CHOOSE i \in DOMAIN kept :
                     /\ BaseName(kept[i]) = n
                     /\ \A j \in DOMAIN kept : j > i => BaseName(kept[j]) # n
    IN  [n \in {BaseName(kept[i]) : i \in DOMAIN kept} |-> kept[Last(n)].data]

------------------------------------------------------------------------------
ArtifactsInit ==
    /\ captured = <<>> /\ artifact = NotStored /\ volume = <<>> /\ refused = FALSE

\* The generator writes one more file or directory.
Write(e) ==
    /\ artifact = NotStored /\ Len(captured) < MaxEntries
    /\ captured' = Append(captured, e)
    /\ UNCHANGED <<artifact, volume, refused>>

\* runGeneration packs the output and stores it as archive.zip.
StoreOutput ==
    /\ artifact = NotStored /\ captured # <<>>
    /\ artifact' = [stem |-> "archive", ext |-> "zip", data |-> BuildOutputArtifact(captured)]
    /\ UNCHANGED <<captured, volume, refused>>

\* A session is launched from a file a member provides.
Provide(file) ==
    /\ artifact = NotStored /\ captured = <<>>
    /\ artifact' = file
    /\ UNCHANGED <<captured, volume, refused>>

\* LaunchFromFile: an archive is unpacked, a save or an archive that cannot be
\* read is refused, any other file is put down as it is.
Restore ==
    /\ artifact # NotStored /\ volume = <<>> /\ ~refused
    /\ \/ /\ IsZipArtifact(artifact) /\ IsZip(artifact.data)
          /\ volume' = ZipToOutputTar(artifact.data.zip)
          /\ UNCHANGED refused
       \/ /\ IF IsZipArtifact(artifact) THEN ~IsZip(artifact.data) ELSE artifact.ext = "apsave"
          /\ refused' = TRUE
          /\ UNCHANGED volume
       \/ /\ ~IsZipArtifact(artifact) /\ artifact.ext # "apsave"
          /\ volume' = [n \in {BaseName(artifact)} |-> artifact.data]
          /\ UNCHANGED refused
    /\ UNCHANGED <<captured, artifact>>

ArtifactsNext ==
    \/ \E e \in Entry : Write(e)
    \/ StoreOutput
    \/ \E file \in Import : Provide(file)
    \/ Restore

------------------------------------------------------------------------------
\* The files a generation made: those of its bundle when that is all it left.
Generated ==
    LET files == Files(captured)
    IN  IF Len(files) = 1 /\ files[1].ext = "zip" /\ IsZip(files[1].data) THEN Files(files[1].data.zip) ELSE files

Flat(files) == \A i, j \in DOMAIN files : BaseName(files[i]) = BaseName(files[j]) => i = j

\* The volume of a session launched from a stored output holds every file of
\* the generation, under its name and with its data, as long as no two of them
\* differ by their folder only (session.go:330-406); and no launch brings a
\* save along, neither one the generator or a member put into an archive nor
\* one provided alone: the server and the bridge would read it as their own
\* (session.go:424-425, 652).
RestoredAsGenerated ==
    /\ (volume # <<>> /\ captured # <<>> /\ Flat(Generated)) =>
          LET files == Filter(Generated, LAMBDA e : e.ext # "apsave")
          IN  /\ DOMAIN volume = {BaseName(files[i]) : i \in DOMAIN files}
              /\ \A i \in DOMAIN files : volume[BaseName(files[i])] = files[i].data
    /\ \A n \in DOMAIN volume : n[2] # "apsave"
================================================================================
