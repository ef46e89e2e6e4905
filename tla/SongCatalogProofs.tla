-------------------------- MODULE SongCatalogProofs --------------------------
(***************************************************************************)
(* The properties of SongCatalog for any number of songs.  The invariant   *)
(* says, for every step of the upload handler, what is stored by then      *)
(* (StepsKnown), and that objects which the handler would not delete were  *)
(* logged (Tracked).  A song leaves "processing" once, so what was read as *)
(* "ready" by the reindex command still is when it is sent.  Of the seed    *)
(* command, SeedKnown says what it has done by then.                        *)
(***************************************************************************)
EXTENDS SongCatalog, TLAPS

----------------------------------------------------------------------------
(* The inductive invariant *)

\* What is known of a song at each step of its handler.
StepsKnown ==
    \A s \in Song :
        /\ status[s] = "absent" => pc[s] = "ended" /\ uploaded[s] = {}
        /\ pc[s] \in {"original", "transcode", "transcoded", "finish", "cleanup"}
              => status[s] = "processing"
        /\ pc[s] \in {"index", "wait"} => status[s] = "ready"
        /\ pc[s] = "doubt" => s \in inDoubt
        /\ pc[s] \in {"transcode", "transcoded", "finish"} => <<s, "original">> \in objects
        /\ pc[s] = "finish" => <<s, "transcoded">> \in objects

\* Until its handler ends, a song has no object that is neither in uploaded_keys nor
\* logged.
Tracked ==
    \A s \in Song, key \in Object :
        <<s, key>> \in objects =>
            /\ status[s] # "absent"
            /\ pc[s] \in {"original", "transcode", "transcoded", "finish", "cleanup"}
                  => key \in uploaded[s] \/ <<s, key>> \in logged

\* While it has counted no failure, the reindex command has left no song out.
NoneLeftOut == ~failures => covered \subseteq indexed \cup batch

\* What the seed command has done so far, and that the tone its songs share is stored.
SeedKnown ==
    /\ seeding = "runs" \/ seeded # {} => Tone \in objects
    /\ seeding = "reported" => left = {} /\ sown = None
    /\ seeding # "no" => \A t \in Track \ left : \E s \in Song : track[s] = t
    /\ \A s \in Song : track[s] # None => status[s] # "absent"
    /\ ~unindexed => made \subseteq indexed \cup {sown}
    /\ \A s, x \in seeded : track[s] = track[x] => s = x

IInv ==
    /\ TypeOK
    /\ StepsKnown
    /\ Tracked
    /\ ReadyMeansStored
    /\ IndexedAreReady
    /\ NoSilentOrphan
    /\ NoneLeftOut
    /\ SeedKnown

\* Initially there are no songs.
LEMMA InitIInv == Init => IInv
BY DEF Init, IInv, TypeOK, StepsKnown, Tracked, ReadyMeansStored, IndexedAreReady,
    NoSilentOrphan, NoneLeftOut, SeedKnown, Running, Status

----------------------------------------------------------------------------
(* Every action preserves it *)

LEMMA CreateRowIInv == ASSUME IInv, NEW s \in Song, CreateRow(s) PROVE IInv'
<1> USE DEF IInv, CreateRow, Goto, storeVars, othersVars, indexVars, reindexVars, seedVars,
        observerVars
<1>1. (TypeOK /\ IndexedAreReady /\ NoneLeftOut)'
    BY DEF TypeOK, Running, Status, IndexedAreReady, NoneLeftOut
<1>2. (StepsKnown /\ Tracked)'
    BY DEF TypeOK, StepsKnown, Tracked
<1>3. (ReadyMeansStored /\ NoSilentOrphan)'
    BY DEF TypeOK, ReadyMeansStored, NoSilentOrphan, Keys
<1>4. SeedKnown'
    <2>1. s \notin seeded /\ track[s] = None
        BY DEF TypeOK, SeedKnown
    <2>2. \A x \in Song : x # s => track'[x] = track[x] /\ status'[x] = status[x]
        BY DEF TypeOK
    <2>3. seeding # "no" => \A t \in Track \ left : \E x \in Song : track'[x] = t
        BY <2>1, <2>2, CatalogAssumption DEF TypeOK, SeedKnown
    <2>4. \A x \in Song : track'[x] # None => status'[x] # "absent"
        BY <2>2 DEF TypeOK, SeedKnown
    <2>5. QED
        BY <2>1, <2>2, <2>3, <2>4 DEF TypeOK, SeedKnown
<1>5. QED
    BY <1>1, <1>2, <1>3, <1>4

\* The steps of a handler after the row leave alone what the seed command relies on.
LEMMA SeedKnownStays ==
    ASSUME IInv, UNCHANGED <<track, seeded, seedVars>>,
           \A s \in Song : status[s] # "absent" => status'[s] # "absent",
           Tone \in objects => Tone \in objects', indexed \subseteq indexed'
    PROVE  SeedKnown'
BY DEF IInv, SeedKnown, seedVars

LEMMA ToneIsApart == \A s \in Song, key \in Object : <<s, key>> # Tone
BY CatalogAssumption DEF Tone

LEMMA StoreIInv ==
    ASSUME IInv, NEW s \in Song, NEW key \in Object, Store(s, key) PROVE IInv'
<1> USE DEF IInv, Store, Goto, After, rowVars, othersVars, indexVars, reindexVars, seedVars,
        observerVars
<1>1. (TypeOK /\ IndexedAreReady /\ NoneLeftOut)'
    BY DEF TypeOK, Running, Status, Object, StepsKnown, IndexedAreReady, NoneLeftOut
<1>2. StepsKnown'
    BY DEF TypeOK, Object, StepsKnown
<1>3. Tracked'
    BY DEF TypeOK, Object, StepsKnown, Tracked
<1>4. (ReadyMeansStored /\ NoSilentOrphan)'
    BY DEF TypeOK, Object, StepsKnown, ReadyMeansStored, NoSilentOrphan, Keys
<1>5. SeedKnown'
    BY SeedKnownStays
<1>6. QED
    BY <1>1, <1>2, <1>3, <1>4, <1>5

LEMMA StoreFailsIInv ==
    ASSUME IInv, NEW s \in Song, NEW key \in Object, StoreFails(s, key) PROVE IInv'
<1> USE DEF IInv, StoreFails, Goto, rowVars, othersVars, indexVars, reindexVars, seedVars
<1>0. objects' \in {objects, objects \cup {<<s, key>>}}
    OBVIOUS
<1>1. (TypeOK /\ IndexedAreReady /\ NoneLeftOut)'
    BY <1>0 DEF TypeOK, Running, Status, Object, StepsKnown, IndexedAreReady, NoneLeftOut
<1>2. StepsKnown'
    BY <1>0 DEF TypeOK, Object, StepsKnown
<1>3. Tracked'
    BY <1>0 DEF TypeOK, Object, StepsKnown, Tracked
<1>4. (ReadyMeansStored /\ NoSilentOrphan)'
    BY <1>0 DEF TypeOK, Object, StepsKnown, ReadyMeansStored, NoSilentOrphan, Keys
<1>5. SeedKnown'
    BY <1>0, SeedKnownStays
<1>6. QED
    BY <1>1, <1>2, <1>3, <1>4, <1>5

LEMMA TranscodeIInv == ASSUME IInv, NEW s \in Song, Transcode(s) PROVE IInv'
<1> USE DEF IInv, Transcode, Goto, rowVars, storeVars, othersVars, indexVars, reindexVars,
        seedVars, observerVars
<1>1. (TypeOK /\ IndexedAreReady /\ NoneLeftOut)'
    BY DEF TypeOK, Running, Status, StepsKnown, IndexedAreReady, NoneLeftOut
<1>2. (StepsKnown /\ Tracked)'
    BY DEF TypeOK, StepsKnown, Tracked
<1>3. (ReadyMeansStored /\ NoSilentOrphan)'
    BY DEF ReadyMeansStored, NoSilentOrphan, Keys
<1>4. SeedKnown'
    BY SeedKnownStays
<1>5. QED
    BY <1>1, <1>2, <1>3, <1>4

\* The song becomes ready or not, with both its objects stored.
LEMMA FinishIInv ==
    ASSUME IInv, NEW s \in Song, Finish(s) \/ FinishFails(s) PROVE IInv'
<1>1. /\ pc[s] = "finish" /\ status[s] = "processing"
      /\ <<s, "original">> \in objects /\ <<s, "transcoded">> \in objects
      /\ s \notin seeded
    BY DEF IInv, TypeOK, StepsKnown, Finish, FinishFails
<1>2. /\ status' \in {status, [status EXCEPT ![s] = "ready"]}
      /\ inDoubt \subseteq inDoubt'
      /\ \/ pc' = [pc EXCEPT ![s] = "index"] /\ status' = [status EXCEPT ![s] = "ready"]
         \/ pc' = [pc EXCEPT ![s] = "ended"]
         \/ pc' = [pc EXCEPT ![s] = "doubt"] /\ s \in inDoubt'
      /\ UNCHANGED <<track, seeded, storeVars, uploaded, othersVars, logged>>
    BY DEF Finish, FinishFails, Goto, observerVars
<1>3. (TypeOK /\ IndexedAreReady /\ NoneLeftOut)'
    BY <1>1, <1>2 DEF IInv, TypeOK, Running, Status, IndexedAreReady, NoneLeftOut, storeVars,
        othersVars, indexVars, reindexVars, seedVars
<1>4. StepsKnown'
    <2>1. ASSUME NEW t \in Song, t # s PROVE pc'[t] = pc[t] /\ status'[t] = status[t]
        BY <1>2, <2>1 DEF IInv, TypeOK
    <2>2. /\ status'[s] # "absent"
          /\ \/ pc'[s] = "index" /\ status'[s] = "ready"
             \/ pc'[s] = "ended"
             \/ pc'[s] = "doubt" /\ s \in inDoubt'
        BY <1>1, <1>2 DEF IInv, TypeOK
    <2>3. QED
        BY <1>2, <2>1, <2>2 DEF IInv, StepsKnown, storeVars
<1>5. Tracked'
    BY <1>1, <1>2 DEF IInv, TypeOK, Tracked, storeVars
<1>6. (ReadyMeansStored /\ NoSilentOrphan)'
    BY <1>1, <1>2 DEF IInv, TypeOK, ReadyMeansStored, NoSilentOrphan, Object, Keys, storeVars
<1>7. SeedKnown'
    BY <1>1, <1>2, SeedKnownStays DEF IInv, TypeOK, storeVars, othersVars, indexVars
<1>8. QED
    BY <1>3, <1>4, <1>5, <1>6, <1>7 DEF IInv

\* A deletion, whatever its outcome: only songs that are not ready, or in doubt.
LEMMA DeleteIInv ==
    ASSUME IInv, NEW s \in Song, NEW key \in Object, Delete(s, key) \/ DeleteEscapes(s, key)
    PROVE  IInv'
<1>1. /\ pc[s] \in {"cleanup", "doubt"}
      /\ status[s] = "processing" \/ s \in inDoubt
      /\ s \notin seeded
    BY DEF IInv, TypeOK, StepsKnown, Delete, DeleteEscapes
<1>2. /\ objects' \in {objects, objects \ {<<s, key>>}} /\ logged \subseteq logged'
      /\ UNCHANGED <<status, track, seeded, bucket, othersVars, inDoubt>>
    BY DEF Delete, DeleteEscapes, rowVars
<1>3. (TypeOK /\ IndexedAreReady /\ NoneLeftOut)'
    BY <1>1, <1>2 DEF IInv, TypeOK, Running, IndexedAreReady, NoneLeftOut,
        othersVars, indexVars, reindexVars, seedVars, Delete, DeleteEscapes, Goto
<1>4. StepsKnown'
    <2>1. /\ uploaded'[s] \subseteq uploaded[s]
          /\ pc'[s] \in {"cleanup", "doubt", "ended"} /\ pc'[s] \in {pc[s], "ended"}
          /\ \A t \in Song : t # s => pc'[t] = pc[t] /\ uploaded'[t] = uploaded[t]
        BY <1>1 DEF IInv, TypeOK, Delete, DeleteEscapes, Goto
    <2>2. QED
        BY <1>1, <1>2, <2>1 DEF IInv, StepsKnown
<1>5. Tracked'
    BY <1>1, <1>2 DEF IInv, TypeOK, Tracked, Delete, DeleteEscapes, NextKey, Goto
<1>6. (ReadyMeansStored /\ NoSilentOrphan)'
    BY <1>1, <1>2, ToneIsApart DEF IInv, TypeOK, ReadyMeansStored, NoSilentOrphan, Object,
        Keys
<1>7. SeedKnown'
    BY <1>2, SeedKnownStays, ToneIsApart DEF othersVars, indexVars
<1>8. QED
    BY <1>3, <1>4, <1>5, <1>6, <1>7 DEF IInv

LEMMA MarkFailedIInv == ASSUME IInv, NEW s \in Song, MarkFailed(s) PROVE IInv'
<1> USE DEF IInv, MarkFailed, Goto, storeVars, othersVars, indexVars, reindexVars, seedVars,
        observerVars
<1>1. (TypeOK /\ NoneLeftOut)'
    BY DEF TypeOK, Running, Status, NoneLeftOut
<1>2. (StepsKnown /\ Tracked /\ IndexedAreReady)'
    BY DEF TypeOK, StepsKnown, Tracked, IndexedAreReady
<1>3. (ReadyMeansStored /\ NoSilentOrphan)'
    BY DEF TypeOK, Tracked, ReadyMeansStored, NoSilentOrphan, Keys
<1>4. SeedKnown'
    BY SeedKnownStays DEF TypeOK
<1>5. QED
    BY <1>1, <1>2, <1>3, <1>4

\* The steps that end a handler, or move it to the end of its work, with nothing else
\* changed but the queue of a song that is ready.
LEMMA WindUpIInv ==
    ASSUME IInv, NEW s \in Song,
           \/ MarkFailedFails(s) \/ IndexSong(s) \/ WaitForTask(s) \/ IndexSongFails(s)
           \/ Crash(s)
    PROVE  IInv'
<1>1. /\ \/ pc' = [pc EXCEPT ![s] = "ended"]
         \/ pc[s] = "index" /\ pc' = [pc EXCEPT ![s] = "wait"]
      /\ \/ queued' = queued
         \/ pc[s] = "index" /\ queued' = queued \cup {s}
      /\ UNCHANGED <<rowVars, storeVars, uploaded, index, indexed, reindexVars, seedVars, logged,
                     inDoubt>>
    BY DEF MarkFailedFails, IndexSong, WaitForTask, IndexSongFails, Crash, Goto, othersVars,
        indexVars, observerVars
<1>2. /\ pc[s] = "index" => status[s] = "ready"
      /\ pc[s] = "index" => s \notin seeded
    BY DEF IInv, TypeOK, StepsKnown
<1>3. (TypeOK /\ IndexedAreReady /\ NoneLeftOut)'
    BY <1>1, <1>2 DEF IInv, TypeOK, Running, IndexedAreReady, NoneLeftOut, rowVars, storeVars,
        reindexVars, seedVars
<1>4. (StepsKnown /\ Tracked)'
    BY <1>1, <1>2 DEF IInv, TypeOK, StepsKnown, Tracked, rowVars, storeVars
<1>5. (ReadyMeansStored /\ NoSilentOrphan)'
    BY <1>1, <1>2 DEF IInv, ReadyMeansStored, NoSilentOrphan, Keys, rowVars, storeVars
<1>6. SeedKnown'
    BY <1>1, SeedKnownStays DEF rowVars, storeVars
<1>7. QED
    BY <1>3, <1>4, <1>5, <1>6 DEF IInv

\* The reindex command, Meilisearch and the start of the application change no song.
LEMMA IndexIInv ==
    ASSUME IInv,
           \/ ReindexBegin \/ LoseIndex \/ Start \/ UNCHANGED vars
           \/ \E s \in Song : Reindex(s) \/ RunTask(s)
    PROVE  IInv'
<1>1. /\ UNCHANGED <<rowVars, objects, handlerVars, observerVars>>
      /\ UNCHANGED <<seeding, left, sown, unindexed>>
      /\ bucket' \in {bucket, TRUE} /\ index' \in {index, TRUE, FALSE}
    BY DEF ReindexBegin, LoseIndex, Start, vars, Reindex, RunTask, storeVars, othersVars,
        indexVars, seedVars
<1>2. \/ indexed \subseteq indexed' /\ made' = made
      \/ made' = {}
    BY DEF ReindexBegin, LoseIndex, Start, vars, Reindex, RunTask, Indexes, IndexFails,
        othersVars, indexVars, seedVars
<1>3. TypeOK'
    BY <1>1, <1>2 DEF IInv, TypeOK, rowVars, handlerVars, ReindexBegin, LoseIndex, Start, vars,
        Reindex, RunTask, Indexes, IndexFails, othersVars, indexVars, reindexVars
<1>4. (IndexedAreReady /\ NoneLeftOut)'
    BY <1>1 DEF IInv, TypeOK, IndexedAreReady, NoneLeftOut, rowVars, ReindexBegin, LoseIndex,
        Start, vars, Reindex, RunTask, Indexes, IndexFails, othersVars, indexVars, reindexVars
<1>5. (StepsKnown /\ Tracked /\ ReadyMeansStored /\ NoSilentOrphan)'
    BY <1>1 DEF IInv, StepsKnown, Tracked, ReadyMeansStored, NoSilentOrphan, Keys, rowVars,
        handlerVars, observerVars
<1>6. SeedKnown'
    BY <1>1, <1>2 DEF IInv, SeedKnown, rowVars
<1>7. QED
    BY <1>3, <1>4, <1>5, <1>6 DEF IInv

----------------------------------------------------------------------------
(* The seed command *)

\* A song made ready in one step has its object already, and a track of its own.
LEMMA SeedCreateIInv ==
    ASSUME IInv, NEW t \in Track, NEW s \in Song, SeedCreate(t, s) PROVE IInv'
<1> USE DEF IInv, SeedCreate, storeVars, handlerVars, indexVars, reindexVars, observerVars
<1>1. /\ s \notin seeded /\ pc[s] = "ended" /\ track[s] = None /\ Tone \in objects
      /\ \A x \in Song : x # s => track'[x] = track[x] /\ status'[x] = status[x]
      /\ track'[s] = t /\ status'[s] = "ready"
    BY DEF TypeOK, StepsKnown, SeedKnown
<1>2. TypeOK'
    BY <1>1, CatalogAssumption DEF TypeOK, Running, Status
<1>3. (IndexedAreReady /\ NoneLeftOut /\ StepsKnown /\ Tracked)'
    BY <1>1 DEF TypeOK, IndexedAreReady, NoneLeftOut, StepsKnown, Tracked
<1>4. (ReadyMeansStored /\ NoSilentOrphan)'
    BY <1>1 DEF TypeOK, ReadyMeansStored, NoSilentOrphan, Keys
<1>5. SeedKnown'
    <2>1. ASSUME NEW y \in Track \ left' PROVE \E x \in Song : track'[x] = y
        <3>1. CASE y = t
            BY <1>1, <3>1
        <3>2. CASE y # t
            <4>1. PICK x \in Song : track[x] = y
                BY <3>2 DEF SeedKnown
            <4>2. x # s
                BY <1>1, <4>1, CatalogAssumption DEF TypeOK
            <4>3. QED
                BY <1>1, <4>1, <4>2
        <3>3. QED
            BY <3>1, <3>2
    <2>2. \A x, y \in seeded' : track'[x] = track'[y] => x = y
        BY <1>1 DEF TypeOK, SeedKnown
    <2>3. \A x \in Song : track'[x] # None => status'[x] # "absent"
        BY <1>1 DEF SeedKnown
    <2>4. ~unindexed' => made' \subseteq indexed' \cup {sown'}
        BY CatalogAssumption DEF TypeOK, SeedKnown
    <2>5. QED
        BY <1>1, <2>1, <2>2, <2>3, <2>4 DEF SeedKnown
<1>6. QED
    BY <1>2, <1>3, <1>4, <1>5

\* Its other steps change no song.
LEMMA SeedIInv ==
    ASSUME IInv,
           \/ SeedBegin \/ SeedBeginFails \/ SeedIndex \/ SeedReport \/ SeedDies
           \/ \E t \in Track : SeedSkip(t)
    PROVE  IInv'
<1>1. /\ UNCHANGED <<rowVars, handlerVars, index, reindexVars, observerVars>>
      /\ objects' \in {objects, objects \cup {Tone}} /\ bucket' \in {bucket, TRUE}
      /\ \/ UNCHANGED <<queued, indexed>>
         \/ /\ sown # None /\ indexed \subseteq indexed'
            /\ queued' \subseteq queued \cup {sown} /\ indexed' \subseteq indexed \cup {sown}
    BY DEF SeedBegin, SeedBeginFails, SeedIndex, SeedReport, SeedDies, SeedSkip, Indexes,
        IndexFails, storeVars, othersVars, indexVars
<1>2. sown # None => sown \in Song /\ status[sown] = "ready"
    BY DEF IInv, TypeOK
<1>3. TypeOK'
    <2>1. /\ seeding' \in {"no", "runs", "reported"}
          /\ left' \subseteq Track /\ unindexed' \in BOOLEAN
          /\ sown' \in seeded \cup {None} /\ made' \subseteq seeded
          /\ sown' # None => seeding' = "runs"
        BY DEF IInv, TypeOK, SeedKnown, SeedBegin, SeedBeginFails, SeedIndex, SeedReport,
            SeedDies, SeedSkip, othersVars, seedVars
    <2>2. QED
        BY <1>1, <1>2, <2>1 DEF IInv, TypeOK, rowVars, handlerVars, reindexVars
<1>4. (IndexedAreReady /\ NoneLeftOut)'
    BY <1>1, <1>2 DEF IInv, IndexedAreReady, NoneLeftOut, rowVars, reindexVars
<1>5. (StepsKnown /\ Tracked /\ ReadyMeansStored /\ NoSilentOrphan)'
    BY <1>1, ToneIsApart DEF IInv, StepsKnown, Tracked, ReadyMeansStored, NoSilentOrphan, Keys,
        rowVars, handlerVars, observerVars
<1>6. SeedKnown'
    BY <1>1 DEF IInv, TypeOK, SeedKnown, rowVars, SeedBegin, SeedBeginFails, SeedIndex,
        SeedReport, SeedDies, SeedSkip, Indexes, IndexFails, othersVars, seedVars, indexVars
<1>7. QED
    BY <1>3, <1>4, <1>5, <1>6 DEF IInv

LEMMA NextIInv == IInv /\ [Next]_vars => IInv'
BY CreateRowIInv, StoreIInv, StoreFailsIInv, TranscodeIInv, FinishIInv, DeleteIInv,
   MarkFailedIInv, WindUpIInv, IndexIInv, SeedCreateIInv, SeedIInv
   DEF Next, Handler

LEMMA SpecIInv == Spec => []IInv
BY InitIInv, NextIInv, PTL DEF Spec

----------------------------------------------------------------------------
(* The theorems *)

\* Every variable keeps its type: a handler that runs has a song that is not failed.
THEOREM TypeCorrect == Spec => []TypeOK
<1>1. IInv => TypeOK
    BY DEF IInv
<1>2. QED
    BY <1>1, SpecIInv, PTL

\* Apart from a COMMIT whose outcome was lost, a song that is ready has its objects.
THEOREM StoredSafe == Spec => []ReadyMeansStored
<1>1. IInv => ReadyMeansStored
    BY DEF IInv
<1>2. QED
    BY <1>1, SpecIInv, PTL

\* Uploads, reindexing and late tasks of Meilisearch together index only songs that
\* are ready.
THEOREM IndexSafe == Spec => []IndexedAreReady
<1>1. IInv => IndexedAreReady
    BY DEF IInv
<1>2. QED
    BY <1>1, SpecIInv, PTL

\* The objects a failed upload leaves behind are all in the log.
THEOREM OrphanSafe == Spec => []NoSilentOrphan
<1>1. IInv => NoSilentOrphan
    BY DEF IInv
<1>2. QED
    BY <1>1, SpecIInv, PTL

\* A reindexing that counts no failure has indexed every song that was ready.
THEOREM ReindexSafe == Spec => []ReindexRestores
<1>1. IInv => ReindexRestores
    BY DEF IInv, NoneLeftOut, ReindexRestores
<1>2. QED
    BY <1>1, SpecIInv, PTL

\* The summary of the seed command is true, and no track is made twice.
THEOREM SeedingSafe == Spec => []SeedingReportsTruly
<1>1. IInv => SeedingReportsTruly
    <2> SUFFICES ASSUME IInv PROVE SeedingReportsTruly
        OBVIOUS
    <2>1. ASSUME seeding = "reported", NEW t \in Track
          PROVE  \E s \in Song : track[s] = t /\ status[s] # "absent"
        BY <2>1, CatalogAssumption DEF IInv, TypeOK, SeedKnown
    <2>2. seeding = "reported" /\ ~unindexed => made \subseteq indexed
        BY CatalogAssumption DEF IInv, TypeOK, SeedKnown
    <2>3. QED
        BY <2>1, <2>2 DEF IInv, SeedKnown, SeedingReportsTruly
<1>2. QED
    BY <1>1, SpecIInv, PTL

\* No step takes a song out of "ready" or "failed".
THEOREM StatusSafe == Spec => StatusIsFinal
<1>1. ASSUME IInv, [Next]_vars, NEW s \in Song, status[s] \in {"ready", "failed"}
      PROVE  status'[s] = status[s]
    <2>1. ASSUME NEW x \in Song,
                 \/ CreateRow(x) \/ Finish(x) \/ FinishFails(x) \/ MarkFailed(x)
                 \/ \E t \in Track : SeedCreate(t, x)
          PROVE  status'[s] = status[s]
        <3>1. status[x] \in {"absent", "processing"}
            BY <1>1, <2>1 DEF IInv, StepsKnown, CreateRow, Finish, FinishFails, MarkFailed,
                SeedCreate
        <3>2. status' = status \/ \E v \in Status : status' = [status EXCEPT ![x] = v]
            BY <2>1 DEF CreateRow, Finish, FinishFails, MarkFailed, SeedCreate, Status
        <3>3. QED
            BY <1>1, <3>1, <3>2 DEF IInv, TypeOK
    <2>2. ASSUME NEW x \in Song,
                 \/ Transcode(x) \/ MarkFailedFails(x) \/ IndexSong(x) \/ WaitForTask(x)
                 \/ IndexSongFails(x) \/ Crash(x) \/ Reindex(x) \/ RunTask(x)
                 \/ \E key \in Object : \/ Store(x, key) \/ StoreFails(x, key)
                                        \/ Delete(x, key) \/ DeleteEscapes(x, key)
          PROVE  status' = status
        BY <2>2 DEF Transcode, MarkFailedFails, IndexSong, WaitForTask, IndexSongFails, Crash,
            Reindex, RunTask, Store, StoreFails, Delete, DeleteEscapes, rowVars
    <2>3. ASSUME \/ ReindexBegin \/ LoseIndex \/ Start \/ SeedBegin \/ SeedBeginFails
                 \/ SeedIndex \/ SeedReport \/ SeedDies \/ UNCHANGED vars
                 \/ \E t \in Track : SeedSkip(t)
          PROVE  status' = status
        BY <2>3 DEF ReindexBegin, LoseIndex, Start, SeedBegin, SeedBeginFails, SeedIndex,
            SeedReport, SeedDies, SeedSkip, vars, rowVars
    <2>4. QED
        BY <1>1, <2>1, <2>2, <2>3 DEF Next, Handler
<1>2. IInv /\ [Next]_vars
        => \A s \in Song : status[s] \in {"ready", "failed"} => status'[s] = status[s]
    BY <1>1
<1>3. QED
    BY <1>2, SpecIInv, PTL DEF Spec, StatusIsFinal
=============================================================================
