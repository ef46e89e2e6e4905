----------------------------- MODULE SongCatalog -----------------------------
(***************************************************************************)
(* How a song gets into the catalogue: POST /songs (src/app/api/songs.py)  *)
(* with its row in Postgres, its objects in MinIO                          *)
(* (src/app/services/storage.py) and its document in Meilisearch           *)
(* (src/app/services/search.py), the start of the application              *)
(* (src/app/main.py), and two commands: the one that indexes everything    *)
(* again (src/app/cli/reindex_catalog.py) and the one that fills the       *)
(* catalogue with tracks of a dataset (src/app/cli/seed_catalog.py).       *)
(*                                                                         *)
(* One handler serves each song, so what it does next is a function of the *)
(* song.  Uploads refused before there is a row (size, ffprobe) leave      *)
(* nothing and are left out.                                               *)
(*                                                                         *)
(* A call to MinIO may succeed, fail, or fail having been carried out (the *)
(* answer was lost).  boto3 reports a refusal of the server as ClientError *)
(* and an unreachable or silent one as other exceptions.                   *)
(***************************************************************************)
EXTENDS FiniteSets

CONSTANTS
    Song,      \* ids of songs, one per row
    Track,     \* the tracks of the dataset up to --limit, each a title and an artist
    None

ASSUME CatalogAssumption == None \notin Song \cup Track

VARIABLES
    status,    \* song -> songs.status, "absent" before there is a row
    track,     \* song -> its title and artist if they are those of a track
    seeded,    \* songs made by the seed command: their objects are the tone
    bucket,    \* the bucket exists
    objects,   \* <<song, key>> for the objects in the bucket
    pc,        \* song -> what its handler does next
    uploaded,  \* song -> uploaded_keys
    index,     \* the index exists
    queued,    \* songs with a document in a task that Meilisearch has not run
    indexed,   \* songs with a document in the index
    batch,     \* songs the reindex command has yet to send
    failures,  \* whether the reindex command counted a failure
    seeding,   \* whether the seed command runs, or has printed its summary
    left,      \* tracks the seed command has yet to look at
    sown,      \* the song it has committed and not yet indexed
    unindexed, \* whether it counted a song that was not indexed
    \* Observers:
    logged,    \* <<song, key>> for the errors that were logged or answered with 500
    inDoubt,   \* songs whose final COMMIT failed with its effect unknown
    cut,       \* songs whose handler died, or was cut off from Postgres
    covered,   \* songs that were ready when the reindex command began
    made       \* songs it created, unless the index was lost since

rowVars == <<status, track, seeded>>
storeVars == <<bucket, objects>>
handlerVars == <<pc, uploaded>>
indexVars == <<index, queued, indexed>>
reindexVars == <<batch, failures, covered>>
seedVars == <<seeding, left, sown, unindexed, made>>
observerVars == <<logged, inDoubt, cut>>
othersVars == <<indexVars, reindexVars, seedVars>>
vars == <<rowVars, storeVars, handlerVars, othersVars, observerVars>>

Object == {"original", "transcoded"}
Running == {"original", "transcode", "transcoded", "finish", "cleanup", "doubt", "index", "wait"}

\* _SYNTHETIC_AUDIO_KEY, and what a row refers to
Tone == <<None, "tone">>
Keys(s) == IF s \in seeded THEN {Tone} ELSE {s} \X Object

Init ==
    /\ status = [s \in Song |-> "absent"]
    /\ track = [s \in Song |-> None]
    /\ seeded = {}
    /\ bucket = FALSE
    /\ index = FALSE
    /\ objects = {}
    /\ pc = [s \in Song |-> "ended"]
    /\ uploaded = [s \in Song |-> {}]
    /\ queued = {}
    /\ indexed = {}
    /\ batch = {}
    /\ failures = FALSE
    /\ logged = {}
    /\ inDoubt = {}
    /\ cut = {}
    /\ covered = {}
    /\ seeding = "no"
    /\ left = {}
    /\ sown = None
    /\ unindexed = FALSE
    /\ made = {}

Goto(s, step) == pc' = [pc EXCEPT ![s] = step]

----------------------------------------------------------------------------
(* upload_song *)

\* The row, committed with the key of the original; title and artist are free.
CreateRow(s) ==
    /\ status[s] = "absent"
    /\ status' = [status EXCEPT ![s] = "processing"]
    /\ \E t \in Track \cup {None} : track' = [track EXCEPT ![s] = t]
    /\ Goto(s, "original")
    /\ UNCHANGED <<seeded, storeVars, uploaded, othersVars, observerVars>>

After(key) == IF key = "original" THEN "transcode" ELSE "finish"

\* storage.upload_file, of the original and then of the transcoded file.
Store(s, key) ==
    /\ pc[s] = key
    /\ bucket
    /\ objects' = objects \cup {<<s, key>>}
    /\ uploaded' = [uploaded EXCEPT ![s] = @ \cup {key}]
    /\ Goto(s, After(key))
    /\ UNCHANGED <<rowVars, bucket, othersVars, observerVars>>

\* It fails: the object is not in uploaded_keys, even if it was stored.
StoreFails(s, key) ==
    /\ pc[s] = key
    /\ objects' \in IF bucket THEN {objects, objects \cup {<<s, key>>}} ELSE {objects}
    /\ logged' = logged \cup {<<s, key>>}
    /\ Goto(s, "cleanup")
    /\ UNCHANGED <<rowVars, bucket, uploaded, othersVars, inDoubt, cut>>

\* Fault: the song is announced as ready when the transcoded file exists locally.
Transcode_Ready(s) ==
    /\ pc[s] = "transcode"
    /\ \/ Goto(s, "transcoded") /\ status' = [status EXCEPT ![s] = "ready"]
       \/ Goto(s, "cleanup") /\ UNCHANGED status
    /\ UNCHANGED <<track, seeded, storeVars, uploaded, othersVars, observerVars>>

\* ffmpeg succeeds, or fails, or exceeds its timeout.
Transcode(s) ==
    /\ pc[s] = "transcode"
    /\ Goto(s, "transcoded") \/ Goto(s, "cleanup")
    /\ UNCHANGED <<rowVars, storeVars, uploaded, othersVars, observerVars>>

\* The commit of "ready".
Finish(s) ==
    /\ pc[s] = "finish"
    /\ status' = [status EXCEPT ![s] = "ready"]
    /\ Goto(s, "index")
    /\ UNCHANGED <<track, seeded, storeVars, uploaded, othersVars, observerVars>>

\* An error of Postgres at that point.  If the UPDATE or the refresh fails, the
\* session refuses the read of song.id in the except block, and the handler ends
\* there.  If COMMIT itself fails, with the row ready or not, the except block cleans
\* up, but the session will not commit again.
FinishFails(s) ==
    /\ pc[s] = "finish"
    /\ cut' = cut \cup {s}
    /\ \/ /\ status' \in {status, [status EXCEPT ![s] = "ready"]}
          /\ Goto(s, "ended")
          /\ UNCHANGED inDoubt
       \/ /\ status' \in {status, [status EXCEPT ![s] = "ready"]}
          /\ Goto(s, "doubt")
          /\ inDoubt' = inDoubt \cup {s}
    /\ UNCHANGED <<track, seeded, storeVars, uploaded, othersVars, logged>>

\* The keys are deleted in the order in which they were uploaded.
NextKey(s, key) ==
    /\ key \in uploaded[s]
    /\ key = "transcoded" => "original" \notin uploaded[s]

\* delete_object, for the next of uploaded_keys: done, or refused (ClientError) and
\* logged.
Delete(s, key) ==
    /\ pc[s] \in {"cleanup", "doubt"}
    /\ NextKey(s, key)
    /\ uploaded' = [uploaded EXCEPT ![s] = @ \ {key}]
    /\ \/ objects' = objects \ {<<s, key>>} /\ UNCHANGED logged
       \/ logged' = logged \cup {<<s, key>>} /\ UNCHANGED objects
    /\ UNCHANGED <<rowVars, bucket, pc, othersVars, inDoubt, cut>>

\* delete_object with any other error: not caught, here or in upload_song.
DeleteEscapes(s, key) ==
    /\ pc[s] \in {"cleanup", "doubt"}
    /\ NextKey(s, key)
    /\ objects' \in {objects, objects \ {<<s, key>>}}
    /\ logged' = logged \cup {<<s, k>> : k \in uploaded[s]}
    /\ uploaded' = [uploaded EXCEPT ![s] = {}]
    /\ Goto(s, "ended")
    /\ UNCHANGED <<rowVars, bucket, othersVars, inDoubt, cut>>

\* Fault: nothing is deleted.
MarkFailed_NoCleanup(s) ==
    /\ pc[s] = "cleanup"
    /\ status' = [status EXCEPT ![s] = "failed"]
    /\ uploaded' = [uploaded EXCEPT ![s] = {}]
    /\ Goto(s, "ended")
    /\ UNCHANGED <<track, seeded, storeVars, othersVars, observerVars>>

\* Fault: the song is marked before the deletions.
MarkFailed_Early(s) ==
    /\ pc[s] = "cleanup"
    /\ status' = [status EXCEPT ![s] = "failed"]
    /\ UNCHANGED <<track, seeded, storeVars, handlerVars, othersVars, observerVars>>

\* The commit of "failed", when everything was deleted.
MarkFailed(s) ==
    /\ pc[s] = "cleanup"
    /\ uploaded[s] = {}
    /\ status' = [status EXCEPT ![s] = "failed"]
    /\ Goto(s, "ended")
    /\ UNCHANGED <<track, seeded, storeVars, uploaded, othersVars, observerVars>>

\* That commit fails, or is one the session refuses.
MarkFailedFails(s) ==
    /\ pc[s] \in {"cleanup", "doubt"}
    /\ uploaded[s] = {}
    /\ cut' = cut \cup {s}
    /\ Goto(s, "ended")
    /\ UNCHANGED <<rowVars, storeVars, uploaded, othersVars, logged, inDoubt>>

\* index_song sends the document ...
IndexSong(s) ==
    /\ pc[s] = "index"
    /\ queued' = queued \cup {s}
    /\ Goto(s, "wait")
    /\ UNCHANGED <<rowVars, storeVars, uploaded, index, indexed, reindexVars, seedVars, observerVars>>

\* ... waits until the task has succeeded, or for as long as the timeout ...
WaitForTask(s) ==
    /\ pc[s] = "wait"
    /\ Goto(s, "ended")
    /\ UNCHANGED <<rowVars, storeVars, uploaded, othersVars, observerVars>>

\* ... and ignores every failure; the document may have been accepted all the same.
IndexSongFails(s) ==
    /\ pc[s] = "index"
    /\ queued' \in {queued, queued \cup {s}}
    /\ Goto(s, "ended")
    /\ UNCHANGED <<rowVars, storeVars, uploaded, index, indexed, reindexVars, seedVars, observerVars>>

\* The process is killed with the request in any of its steps.
Crash(s) ==
    /\ pc[s] \in Running
    /\ Goto(s, "ended")
    /\ cut' = cut \cup {s}
    /\ UNCHANGED <<rowVars, storeVars, uploaded, othersVars, logged, inDoubt>>

----------------------------------------------------------------------------
(* reindex_catalog: reindex_all reads the songs that are ready, then sends each *)

\* Fault: every song that has a row is sent.
ReindexBegin_AllSongs ==
    /\ batch = {}
    /\ batch' = {s \in Song : status[s] # "absent"}
    /\ covered' = batch'
    /\ failures' = FALSE
    /\ UNCHANGED <<rowVars, storeVars, handlerVars, indexVars, seedVars, observerVars>>

ReindexBegin ==
    /\ batch = {}
    /\ batch' = {s \in Song : status[s] = "ready"}
    /\ covered' = batch'
    /\ failures' = FALSE
    /\ UNCHANGED <<rowVars, storeVars, handlerVars, indexVars, seedVars, observerVars>>

\* Fault: a document that was accepted counts, before its task has run.
Reindex_NoWait(s) ==
    /\ s \in batch
    /\ batch' = batch \ {s}
    /\ queued' = queued \cup {s}
    /\ UNCHANGED <<rowVars, storeVars, handlerVars, index, indexed, failures, covered, seedVars,
                   observerVars>>

\* index_song, to the end: the task of s succeeds (Meilisearch runs it, and any before
\* it, before the answer) ...
Indexes(s) ==
    /\ index
    /\ indexed' = indexed \cup {s}
    /\ UNCHANGED queued

\* ... or there is a failure, with or without the document accepted.
IndexFails(s) ==
    /\ queued' \in {queued, queued \cup {s}}
    /\ UNCHANGED indexed

\* One song, and its failure counted.
Reindex(s) ==
    /\ s \in batch
    /\ batch' = batch \ {s}
    /\ \/ Indexes(s) /\ UNCHANGED failures
       \/ IndexFails(s) /\ failures' = TRUE
    /\ UNCHANGED <<rowVars, storeVars, handlerVars, index, covered, seedVars, observerVars>>

----------------------------------------------------------------------------
(* seed_catalog: one command at a time *)

\* The tracks are there, and ensure_synthetic_audio has stored the tone.
SeedBegin ==
    /\ seeding # "runs"
    /\ seeding' = "runs"
    /\ left' = Track
    /\ made' = {}
    /\ unindexed' = FALSE
    /\ bucket' = TRUE
    /\ objects' = objects \cup {Tone}
    /\ UNCHANGED <<rowVars, handlerVars, indexVars, reindexVars, sown, observerVars>>

\* It fails, or what precedes it: the command exits.
SeedBeginFails ==
    /\ seeding # "runs"
    /\ bucket' \in {bucket, TRUE}
    /\ objects' \in IF bucket' THEN {objects, objects \cup {Tone}} ELSE {objects}
    /\ UNCHANGED <<rowVars, handlerVars, othersVars, observerVars>>

\* A row, in whatever status, has this title and artist already ...
SeedSkip(t) ==
    /\ seeding = "runs" /\ sown = None
    /\ t \in left
    /\ \E s \in Song : track[s] = t
    /\ left' = left \ {t}
    /\ UNCHANGED <<rowVars, storeVars, handlerVars, indexVars, reindexVars,
                   seeding, sown, unindexed, made, observerVars>>

\* ... or none has, and one is committed, ready from the beginning.
SeedCreate(t, s) ==
    /\ seeding = "runs" /\ sown = None
    /\ t \in left
    /\ \A x \in Song : track[x] # t
    /\ status[s] = "absent"
    /\ status' = [status EXCEPT ![s] = "ready"]
    /\ track' = [track EXCEPT ![s] = t]
    /\ seeded' = seeded \cup {s}
    /\ made' = made \cup {s}
    /\ left' = left \ {t}
    /\ sown' = s
    /\ UNCHANGED <<storeVars, handlerVars, indexVars, reindexVars,
                   seeding, unindexed, observerVars>>

\* Fault: a song that could not be indexed is not counted.
SeedIndex_NotCounted ==
    /\ sown # None
    /\ sown' = None
    /\ Indexes(sown) \/ IndexFails(sown)
    /\ UNCHANGED <<rowVars, storeVars, handlerVars, index, reindexVars,
                   seeding, left, unindexed, made, observerVars>>

SeedIndex ==
    /\ sown # None
    /\ sown' = None
    /\ \/ Indexes(sown) /\ UNCHANGED unindexed
       \/ IndexFails(sown) /\ unindexed' = TRUE
    /\ UNCHANGED <<rowVars, storeVars, handlerVars, index, reindexVars,
                   seeding, left, made, observerVars>>

\* The summary, at the end.
SeedReport ==
    /\ seeding = "runs" /\ sown = None
    /\ left = {}
    /\ seeding' = "reported"
    /\ UNCHANGED <<rowVars, storeVars, handlerVars, indexVars, reindexVars,
                   left, sown, unindexed, made, observerVars>>

\* Postgres fails, or the command is stopped: what was committed stays.
SeedDies ==
    /\ seeding = "runs"
    /\ seeding' = "no"
    /\ left' = {} /\ made' = {}
    /\ sown' = None
    /\ UNCHANGED <<rowVars, storeVars, handlerVars, indexVars, reindexVars, unindexed,
                   observerVars>>

----------------------------------------------------------------------------
(* Meilisearch, and the start of the application *)

\* Without the index there is no primary key, and the task fails.
RunTask(s) ==
    /\ s \in queued
    /\ queued' = queued \ {s}
    /\ indexed' = IF index THEN indexed \cup {s} ELSE indexed
    /\ UNCHANGED <<rowVars, storeVars, handlerVars, index, reindexVars, seedVars, observerVars>>

\* The index is lost, or emptied by mistake (reindex_catalog.py, lines 3-5), while
\* no reindexing is going on.
LoseIndex ==
    /\ batch = {}
    /\ index' \in {index, FALSE}
    /\ queued' = {} /\ indexed' = {}
    /\ covered' = {} /\ made' = {}
    /\ UNCHANGED <<rowVars, storeVars, handlerVars, batch, failures,
                   seeding, left, sown, unindexed, observerVars>>

\* lifespan: ensure_bucket_exists and ensure_index_exists; the failure of either is only
\* logged, and neither is tried again until the next start.
Start ==
    /\ bucket' \in {bucket, TRUE}
    /\ index' \in {index, TRUE}
    /\ UNCHANGED <<rowVars, objects, handlerVars, queued, indexed, reindexVars, seedVars,
                   observerVars>>

Handler(s) ==
    \/ CreateRow(s)
    \/ \E key \in Object : \/ Store(s, key) \/ StoreFails(s, key)
                           \/ Delete(s, key) \/ DeleteEscapes(s, key)
    \/ Transcode(s) \/ Finish(s) \/ FinishFails(s)
    \/ MarkFailed(s) \/ MarkFailedFails(s)
    \/ IndexSong(s) \/ WaitForTask(s) \/ IndexSongFails(s) \/ Crash(s)

Next ==
    \/ \E s \in Song : Handler(s) \/ Reindex(s) \/ RunTask(s)
    \/ \E t \in Track : SeedSkip(t) \/ \E s \in Song : SeedCreate(t, s)
    \/ SeedBegin \/ SeedBeginFails \/ SeedIndex \/ SeedReport \/ SeedDies
    \/ ReindexBegin \/ LoseIndex \/ Start

Spec == Init /\ [][Next]_vars

----------------------------------------------------------------------------
(* Properties *)

Status == {"absent", "processing", "ready", "failed"}

TypeOK ==
    /\ status \in [Song -> Status]
    /\ track \in [Song -> Track \cup {None}]
    /\ seeded \subseteq {s \in Song : status[s] = "ready" /\ pc[s] = "ended"}
    /\ objects \subseteq (Song \X Object) \cup {Tone}
    /\ {bucket, index, failures, unindexed} \subseteq BOOLEAN
    /\ pc \in [Song -> Running \cup {"ended"}]
    /\ uploaded \in [Song -> SUBSET Object]
    /\ queued \subseteq Song /\ indexed \subseteq Song /\ batch \subseteq Song
    /\ seeding \in {"no", "runs", "reported"}
    /\ left \subseteq Track
    /\ sown \in seeded \cup {None} /\ made \subseteq seeded
    /\ sown # None => seeding = "runs"
    /\ \A s \in Song : pc[s] \in Running => status[s] \in {"processing", "ready"}

\* A song that is offered for playing has both its objects, unless the COMMIT that
\* made it ready was reported as failed.
ReadyMeansStored ==
    \A s \in Song : status[s] = "ready" /\ s \notin inDoubt => Keys(s) \subseteq objects

\* What search finds can be played: nothing is indexed, or about to be, that is not
\* ready, by uploads and reindexing together.
IndexedAreReady == \A s \in queued \cup indexed \cup batch : status[s] = "ready"

\* A song that failed leaves no object behind of which no log tells.
NoSilentOrphan ==
    \A s \in Song, key \in Object :
        status[s] = "failed" /\ <<s, key>> \in objects => <<s, key>> \in logged

\* A song that is ready or has failed stays so, however its handler goes on.
StatusIsFinal ==
    [][\A s \in Song : status[s] \in {"ready", "failed"} => status'[s] = status[s]]_vars

\* When reindex_catalog reports no failure, all the songs that were ready when it
\* began can be found, whatever was uploaded or indexed meanwhile.
ReindexRestores == batch = {} /\ ~failures => covered \subseteq indexed

\* A seed command that prints "sin indexar: 0" has left every song it created where
\* search finds it; every track it was given is in the catalogue, and no two commands,
\* one of which died or was run again, have made the same track twice (seed_catalog.py,
\* lines 121-131; docs/architecture.md, lines 1331-1340).
SeedingReportsTruly ==
    /\ seeding = "reported" =>
        /\ \A t \in Track : \E s \in Song : track[s] = t /\ status[s] # "absent"
        /\ ~unindexed => made \subseteq indexed
    /\ \A s, x \in seeded : track[s] = track[x] => s = x

\* What storage.py, lines 102-105, promises (a failed deletion is not propagated), and
\* docs/architecture.md takes for granted (line 957): a song stays in "processing" only
\* if its process dies.
NoStuckSong ==
    \A s \in Song : status[s] = "processing" => pc[s] \in Running \/ s \in cut
=============================================================================
