---------------------------- MODULE ArtifactStore ----------------------------
(***************************************************************************)
(* The content-addressed artifact store (packages/artifacts): uploads that *)
(* put chunks and then a manifest with conditional writes, and garbage     *)
(* collections that list the manifests, list the chunks and delete what no *)
(* manifest names.  Nothing coordinates the two but the age of a chunk.    *)
(*                                                                         *)
(* The object store is strongly consistent: each request is a step.  A     *)
(* digest stands for its bytes, so a key has one possible content and a    *)
(* second PUT of it is refused (412) without changing the object, its      *)
(* LastModified included.                                                  *)
(***************************************************************************)
EXTENDS Integers, FiniteSets

CONSTANTS
    Artifacts,   \* the manifests of one tenant, named by their digests
    Chunks,      \* chunk digests
    ChunksOf,    \* the chunks a manifest names
    Uploaders,   \* concurrent uploads
    Collectors,  \* concurrent garbage collections
    NoArtifact,  \* no artifact: what an idle upload puts
    Retention,   \* the age below which a chunk is never a candidate (24 hours)
    ScanTime,    \* bound: how long the reading of the manifests takes
    MaxTime      \* bound: the last instant of the clock

ASSUME StoreAssumption ==
    /\ NoArtifact \notin Artifacts
    /\ ChunksOf \in [Artifacts -> SUBSET Chunks]
    /\ Retention \in Nat /\ ScanTime \in Nat /\ MaxTime \in Nat

VARIABLES
    instant,    \* the clock of the object store
    written,    \* LastModified of each chunk; Absent if it is not stored
    manifests,  \* the manifests stored; none is ever deleted
    uploads,    \* what each upload still has to put
    scans,      \* how far each garbage collection is
    age,        \* history: the age of the oldest chunk a manifest was finalized on
    renewed,    \* history: the candidates of a collection put again since it listed them
    lost        \* history: the chunks last deleted as renewed candidates

history == <<age, renewed, lost>>
storeVars == <<instant, written, manifests, uploads, scans, history>>

Absent == 0
Stored(c) == written[c] # Absent

\* An upload remembers (as history) the oldest LastModified it relied on.
Upload   == [artifact : Artifacts \union {NoArtifact}, todo : SUBSET Chunks, oldest : Nat]
NoUpload == [artifact |-> NoArtifact, todo |-> {}, oldest |-> 0]
Scan     == [at : {"idle", "manifests", "deleting"}, since : Nat, listed : SUBSET Artifacts,
             read : SUBSET Artifacts, candidates : SUBSET Chunks]
NoScan   == [at |-> "idle", since |-> 0, listed |-> {}, read |-> {}, candidates |-> {}]

\* What read finds: the manifest and each of its chunks.
Readable(a) == a \in manifests /\ \A c \in ChunksOf[a] : Stored(c)

StoreTypeOK ==
    /\ instant \in 1..(MaxTime + 1)
    /\ written \in [Chunks -> 0..instant]
    /\ manifests \subseteq Artifacts
    /\ uploads \in [Uploaders -> Upload]
    /\ scans \in [Collectors -> Scan]
    /\ age \in [Artifacts -> Nat]
    /\ renewed \in [Collectors -> SUBSET Chunks]
    /\ lost \subseteq Chunks

StoreInit ==
    /\ instant = 1
    /\ written = [c \in Chunks |-> Absent]
    /\ manifests = {}
    /\ uploads = [u \in Uploaders |-> NoUpload]
    /\ scans = [g \in Collectors |-> NoScan]
    /\ age = [a \in Artifacts |-> 0]
    /\ renewed = [g \in Collectors |-> {}]
    /\ lost = {}

-----------------------------------------------------------------------------
(* Uploads: putStream, then finalize.                                      *)

\* storeArtifact and putBytes: the bytes decide the chunks.
BeginUpload(u, a) ==
    /\ uploads[u] = NoUpload
    /\ uploads' = [uploads EXCEPT ![u] = [artifact |-> a, todo |-> ChunksOf[a], oldest |-> instant]]
    /\ UNCHANGED <<instant, written, manifests, scans, history>>

\* The LastModified of a chunk after a conditional PUT at this instant.
AfterPut(c) == IF Stored(c) THEN written[c] ELSE instant

\* #putImmutable of a chunk: 412 counts as success.
PutChunk(u, c) ==
    /\ c \in uploads[u].todo
    /\ written' = [written EXCEPT ![c] = AfterPut(c)]
    /\ uploads' = [uploads EXCEPT
           ![u].todo = @ \ {c},
           ![u].oldest = IF AfterPut(c) < @ THEN AfterPut(c) ELSE @]
    /\ renewed' = IF Stored(c) THEN renewed
                  ELSE [g \in Collectors |-> renewed[g] \union ({c} \intersect scans[g].candidates)]
    /\ lost' = lost \ {c}
    /\ UNCHANGED <<instant, manifests, scans, age>>

\* finalize: #putImmutable of the manifest; the reference is its digest.
Finalize(u) ==
    LET a == uploads[u].artifact
    IN  /\ a # NoArtifact
        /\ uploads[u].todo = {}
        /\ manifests' = manifests \union {a}
        /\ age' = IF a \in manifests THEN age
                  ELSE [age EXCEPT ![a] = instant - uploads[u].oldest]
        /\ uploads' = [uploads EXCEPT ![u] = NoUpload]
        /\ UNCHANGED <<instant, written, scans, renewed, lost>>

\* STORE_UNAVAILABLE, an input stream that fails, or a crash: what was put stays.
FailUpload(u) ==
    /\ uploads[u].artifact # NoArtifact
    /\ uploads' = [uploads EXCEPT ![u] = NoUpload]
    /\ UNCHANGED <<instant, written, manifests, scans, history>>

-----------------------------------------------------------------------------
(* collectGarbage.                                                         *)

StartScan(g) ==
    /\ scans[g].at = "idle"
    /\ scans' = [scans EXCEPT ![g] = [NoScan EXCEPT !.at = "manifests", !.since = instant,
                                      !.listed = manifests]]
    /\ UNCHANGED <<instant, written, manifests, uploads, history>>

\* A page of the listing, and a GET per manifest.  The listing is in the order
\* of keys: a manifest stored meanwhile is found or not.
ReadManifest(g, a) ==
    /\ scans[g].at = "manifests"
    /\ a \in manifests \ scans[g].read
    /\ scans' = [scans EXCEPT ![g].read = @ \union {a}]
    /\ UNCHANGED <<instant, written, manifests, uploads, history>>

\* No more pages: every manifest there was at the start has been read.
AllListed(g) == scans[g].listed \subseteq scans[g].read

Reachable(g) == UNION {ChunksOf[a] : a \in scans[g].read}

\* A faulty variant: the age of a chunk is not looked at.
OldEnoughAlways(c) == TRUE

OldEnough(c) == written[c] < instant - Retention

\* The cutoff is taken after the manifests are read.  The LastModified of a
\* stored chunk does not change, so the pages of this listing are one step.
ListChunks(g) ==
    /\ scans[g].at = "manifests"
    /\ AllListed(g)
    /\ scans' = [scans EXCEPT ![g] = [NoScan EXCEPT
           !.at = "deleting",
           !.candidates = {c \in Chunks \ Reachable(g) : Stored(c) /\ OldEnough(c)}]]
    /\ renewed' = [renewed EXCEPT ![g] = {}]
    /\ UNCHANGED <<instant, written, manifests, uploads, age, lost>>

\* One object of a DeleteObjects request.
DeleteChunk(g, c) ==
    /\ scans[g].at = "deleting"
    /\ c \in scans[g].candidates
    /\ written' = [written EXCEPT ![c] = Absent]
    /\ scans' = [scans EXCEPT ![g].candidates = @ \ {c}]
    /\ renewed' = [renewed EXCEPT ![g] = @ \ {c}]
    /\ lost' = IF Stored(c) /\ c \in renewed[g] THEN lost \union {c} ELSE lost
    /\ UNCHANGED <<instant, manifests, uploads, age>>

\* The end of a collection: all deleted, a dry run, a request that failed, a
\* manifest that does not parse, or a crash.
StopScan(g) ==
    /\ scans[g].at # "idle"
    /\ scans' = [scans EXCEPT ![g] = NoScan]
    /\ renewed' = [renewed EXCEPT ![g] = {}]
    /\ UNCHANGED <<instant, written, manifests, uploads, age, lost>>

\* Time passes, but the reading of the manifests takes no more than ScanTime.
Tick ==
    /\ instant <= MaxTime
    /\ \A g \in Collectors : scans[g].at = "manifests" => instant < scans[g].since + ScanTime
    /\ instant' = instant + 1
    /\ UNCHANGED <<written, manifests, uploads, scans, history>>

UploadStep(u) ==
    \/ \E a \in Artifacts : BeginUpload(u, a)
    \/ \E c \in Chunks : PutChunk(u, c)
    \/ Finalize(u)
    \/ FailUpload(u)

ScanStep(g) ==
    \/ StartScan(g)
    \/ \E a \in Artifacts : ReadManifest(g, a)
    \/ ListChunks(g)
    \/ \E c \in Chunks : DeleteChunk(g, c)
    \/ StopScan(g)

StoreNext ==
    \/ \E u \in Uploaders : UploadStep(u)
    \/ \E g \in Collectors : ScanStep(g)
    \/ Tick

StoreSpec == StoreInit /\ [][StoreNext]_storeVars

-----------------------------------------------------------------------------
(***************************************************************************)
(* An artifact whose chunks were all recent when its manifest was          *)
(* finalized stays readable, through any uploads and collections beside    *)
(* it: recent means that their age and the time a collection takes to read *)
(* the manifests stay within the retention.  (A chunk that was there       *)
(* before is reused as it is, with its old age: FinalizedStaysReadable.)   *)
(* The one way it loses a chunk is that two collections list an object,    *)
(* one deletes it, the chunk is put again, and the other one deletes the   *)
(* new object in the place of the one it listed.                           *)
(***************************************************************************)
YoungArtifactsSurvive ==
    \A a \in manifests : age[a] + ScanTime <= Retention =>
        \A c \in ChunksOf[a] : Stored(c) \/ c \in lost

(***************************************************************************)
(* packages/artifacts/README.md:7-9 and test/s3-store.test.ts:106: garbage *)
(* collection deletes only chunks unreachable from a finalized manifest.   *)
(* An upload that reuses an orphan older than the retention, between the   *)
(* listing of the manifests and the deletion, loses it.                    *)
(***************************************************************************)
FinalizedStaysReadable ==
    [][\A a \in manifests : Readable(a) => Readable(a)']_storeVars
==============================================================================
