# A verification project for the CIDI Spotify clone

TLA+ models of the back end (`src/app`) and of its front-end
(`src/app/static`), checked with TLC on small instances; every safety property
that a passing run checks is also proved with TLAPS for every value of the
constants.

Paths below are relative to the repository; `auth.py:226` is line 226 of
`src/app/api/auth.py`, and so on.

## 1. The system and its hard parts

The program is a FastAPI application. Its endpoints are synchronous functions
that run in a thread pool, so every handler may interleave with every other
one, between any two statements it sends to a server outside the process:

| Server | Holds | What matters to the models |
| --- | --- | --- |
| Postgres | users, refresh tokens, songs, playlists, plays | READ COMMITTED: every statement has its own snapshot; `SELECT ... FOR UPDATE` and `UPDATE` wait for row locks and look at the row again. The SQLAlchemy session has `autoflush=False`, keeps what it has read (identity map) and writes only the columns that were changed |
| Redis | token buckets, recommendations, the recompute lock, the popular list, the playback pointer | Every command, and every Lua script, is atomic. Keys expire. No volume: a restart forgets everything |
| MinIO | audio files | Calls succeed, fail, or fail after having been carried out |
| Meilisearch | the search index | Tasks are accepted first and run later |
| SMTP (Mailhog) | verification mails | A mail may be lost without anybody being told |

A Celery worker (prefork, so several processes) recomputes recommendations
when Beat says so. The browser runs vanilla JavaScript modules: handlers run
to their first `await`, and answers arrive in any order.

### 1.1 Inventory

For every component: its state, its operations, whom it meets, what is hard
about it, and what makes it correct.

**Rate limiter** (`core/rate_limiter.py`). State: a hash `tokens`,
`last_refill` with a TTL per `ratelimit:<tier>:<identity>`. Operation: the
middleware stamps a request with the time, waits for a thread, runs a Lua
token bucket, and passes or refuses; a Redis error lets the request pass.
Every other endpoint runs behind it. Hard: stamps reach Redis out of order;
keys expire and Redis restarts; levels are fractional; identity may come from
a header that is not trustworthy on `/auth/login`. Correct: no key is charged
more than a burst and the refill of the time, in any window; insisting while
blocked costs nothing.

**Sessions** (`api/auth.py:152-267`, `models/user.py`). State: the table
`refresh_tokens` with `revoked_at`, `replaced_by_id`, `family_id`,
`expires_at`. Operations: login starts a family; refresh locks its token and
rotates it, or on reuse revokes the family; logout revokes one token. Hard:
refreshes, reuse and logout of one family at once. Correct: one working token
per session, one chain of replacements, no closed session that comes back, no
deadlock.

**Registration and email verification** (`api/auth.py:84-149, 289-348`,
`services/email.py`). State: `email_verified`, the hash and expiry of the
current token, the mailbox. Operations: register, resend (in a background
task, after the answer), open a link; login refuses unverified addresses.
Hard: no row is locked, so reads and writes of different requests interleave;
the process may die between the commit and the mail; mails get lost.
Correct: verification is final, needs the mailbox, and always stays possible.

**Access tokens** (`get_current_user`, `core/security.py`). No state: a
signature, an expiry and a lookup.

**Two-factor authentication and premium** (`api/totp.py`, `api/users.py`).
State: secret, confirmation, the counter and the time of the lockout,
`is_premium`, on the row of the user. Operations: setup, verify, activate,
deactivate. Hard: `get_current_user` has read the row before the handler takes
its lock; setup and deactivate take none; verify and activate commit twice.
Correct: a bounded number of wrong codes per period, whichever endpoints they
go to; 2FA stays on; premium only with 2FA.

**Songs** (`api/songs.py`, `services/{storage,transcode,search}.py`,
`cli/reindex_catalog.py`, `cli/seed_catalog.py`, `main.py`). State: the row
with its status, two objects in MinIO, a document in Meilisearch; the bucket
and the index themselves. Operations: upload, a sequence of calls to four
servers any of which may fail; the reindex command; the seed command, which
makes ready songs out of a dataset; the start of the application, which makes
the bucket and the index; reads. Hard: every place of failure, the cleanup
that fails itself, a COMMIT whose outcome is lost, tasks that run late,
commands that die and are run again, a bucket or an index that is not there.
Correct: ready songs have their objects, only ready songs are indexed, nothing
is orphaned in silence, a status that is final, reports of the commands that
are true.

**Playlists** (`api/playlists.py`, `models/playlist.py`). State: playlists and
rows (song, position). Operations: create, rename, delete, add, remove,
reorder. Hard: positions are computed from what was read and there is no
unique constraint on them. Correct: positions 0..n-1, each request at one
instant, a limit exceeded by no more than the requests at hand.

**Plays and recommendations** (`services/recommendations.py`, `worker.py`,
the play recorded at `songs.py:361`). State: `song_plays`, the lock
`recompute:lock`, one list per user in Redis. Operations: the Celery task, the
stream endpoint that records a play. Hard: the lock has a TTL and a pass may
take longer; two snapshots; a ranking with three stages and ties. Correct: one
pass at a time unless its lock ran out, lists that do not go back, the best
list for the data.

**Popular songs** (`services/popular.py`). State: one list in Redis for all,
with a TTL. Operations: a request that misses the key computes the list and
stores it. Hard: slow requests store older lists over newer ones; requests ask
for different lengths. Correct: a list of bounded age that serves every
length. **Playback pointer** (`api/playback.py`, `services/playback.py`).
State: one JSON value per user; last write wins.

**Shell, login and gate screens** (`static/app.js`, `app-state.js`,
`screen1-auth.js`, `screen2-gate.js`). State: the view, the access token, the
fetches in flight. Operations: silent refresh, login, logout, routing by what
`/auth/me` says, the buttons of the gate. Hard: an answer that arrives after a
logout or on another screen. Correct: who has lost the session ends up at the
login; leaving the music screen stops the music.

**Music screen** (`static/js/screen3/*`). State: the selected playlist and its
detail, the player and its audio element, two sequence numbers. Operations:
the clicks, and the continuations of every fetch. Hard: answers in any order,
after a logout or a change of view; two copies of what is selected and of what
sounds. Correct: the panel shows what is selected, as it is; the bar says what
sounds; the panel does not go back in time.

**Rendering** (`shared.js`, `discovery.js`, `playlist-panel.js`),
**configuration, schemas, migrations, deployment, CI**: see section 7.

### 1.2 How they interact

Requests cross the rate limiter first, then `get_current_user`. Sessions,
verification and 2FA share the row of the user, but not its columns: each
module has its own columns, and no handler of one writes those of another
(SQLAlchemy writes only what changed). Recommendations and playlists read the
catalogue, from which songs never leave "ready" (proved: `StatusIsFinal`).
So do the popular songs, which share nothing else with the passes. The music screen calls playlists and songs, and relies on
each change of a playlist acting at one instant (checked:
`ImplementsPlaylistSpec`); its view depends on premium and 2FA. The uploads,
both commands and the start of the application meet in MinIO and Meilisearch,
so they are one module.

## 2. Modules

| Component | Module | Checked by | Proofs |
| --- | --- | --- | --- |
| Rate limiter | `RateLimiter` | `MCRateLimiter` | `RateLimiterProofs` |
| Sessions | `RefreshTokens`, which implements `SessionSpec` | `MCRefreshTokens` | `RefreshTokensProofs` |
| Email verification | `EmailVerification` | `MCEmailVerification` | `EmailVerificationProofs` |
| 2FA and premium | `TotpLockout` | `MCTotpLockout` | `TotpLockoutProofs` |
| Songs, index, commands, start | `SongCatalog` | `MCSongCatalog` | `SongCatalogProofs` |
| Recommendations | `Recommendations` | `MCRecommendations` | `ListeningProofs` |
| Popular songs | `PopularSongs`, composed with `Recommendations` | `MCRecommendations` | `ListeningProofs` |
| Playlists | `Playlists`, which implements `PlaylistSpec` | `MCPlaylists` | `PlaylistsProofs` |
| Shell, login and gate screens | `App` | `MCScreen3` | `Screen3Proofs` |
| Music screen | `Screen3`, composed with `App` | `MCScreen3` | `Screen3Proofs` |

All follow one pattern. A **request** (a transaction, a pass, a fetch) is a
place `pc` and the little it carries; an **action** is what happens between
two calls to a server, that is, one statement, one script or one call with its
outcome. What a transaction has not committed is in the request; what is
committed is in the variables of the tables. A request may end without a
trace at any step, as a process that dies or a connection that breaks does.
Definitions whose name has a suffix and whose comment begins with `Fault:`
(`Lockable_Ignored`, `Ttl_OneFill`) are not part of any specification: each
stands for a plausible mistake in the code, and shows that the property it is
listed with in `PROJECT.json` would notice it.

### 2.1 Module by module

**`RateLimiter`.** `Arrive` is `dispatch` up to `run_in_threadpool`: it stamps.
`RunScript` is the whole Lua script (level, decision, HMSET, EXPIRE) and the
answer. `FailOpen` is the `except`. `RedisRestarts` and `Tick` are the world.
Levels are measured in the time a token takes to refill, so no fractions are
needed. An observer, which no action reads, watches one arbitrary key over a
window it opens at an arbitrary moment and adds up what is charged.

**`RefreshTokens`.** `SelectForUpdate`, `Rotate`, `ReuseScan`, `ReuseRow`,
`ReuseCommit`, `Logout`, `LogoutCommit` are the statements of the handlers;
`lockedBy` are the row locks. The UPDATE of reuse detection is three actions
because that is what Postgres does: it fixes its rows with its snapshot, takes
the lock of each in turn, skips those that no longer match, and commits.
`SessionSpec` says what a session is to its owner: one token that works, which
a request exchanges or revokes at one instant, and none once it is closed. The
mapping is the only active token of each family.

**`EmailVerification`.** `Register`/`RegisterCommit`, `Resend`/`ResendCommit`,
`VerifyEmail`/`VerifyCommit` are the read and the write of each handler;
`Send`/`SendFails` follow the commit. A token is named after the request that
made it. Login is the gate at `auth.py:179`.

**`TotpLockout`.** `*Load` is `get_current_user` and what is decided on its
copy; `LockRow` is `lock_user_for_totp_check` and the check of the lockout;
`WrongCode`, `RightCode`, `Confirm`, `Grant`, `SetupCommit`, `DeactivateCommit`
are the commits. `seen` is the copy. A code is right or wrong for the secret
the row holds when it is evaluated.

**`SongCatalog`.** One step per call: `CreateRow`, `Store` or `StoreFails` for
each object, `Transcode`, `Finish` or `FinishFails` (the COMMIT, whose outcome
may be lost), `Delete` or `DeleteEscapes`, `MarkFailed` or `MarkFailedFails`,
`IndexSong`, `WaitForTask`, `IndexSongFails`, `Crash`. `ReindexBegin` and
`Reindex` are one command, `SeedBegin`, `SeedSkip`, `SeedCreate`, `SeedIndex`,
`SeedReport` and `SeedDies` the other; `index_song` to its end is
`Indexes`/`IndexFails` for both. `Start` is `lifespan`; `RunTask` and
`LoseIndex` are Meilisearch. Titles and artists are abstracted to the track
they are equal to, if any, which is what the seed command looks for.

**`Recommendations`.** `Acquire`, `FetchReadySongs`, `FetchPlays`, `Store` (one
user), `Release`, `Fail` are the task; `Rank` is the pure function
`rank_recommendations_for_user`, whose sorts are `SortedBy`: the one list of
the candidates in the order of their keys, ties by the order they came in;
`LockExpires`, `Die`, `RecExpires`,
`SongReady`, `Play` are the rest of the system. `basis` and `overrun` observe.

**`PopularSongs`** extends it by the requests that do not find `songs:popular`:
`Miss`, `Query` (`fetch_popular_song_ids`; Postgres may order ties in any way),
`StorePopular`, `GiveUp` (a Redis error on writing, which is only logged, or a
death). `Tick` is time in units of which the key lives `TTL`; a request takes
at most `MaxDelay` of them from its query to its write. The age of a list and
the plays it was ranked by are carried with it as observers.

**`Playlists` and `PlaylistSpec`.** `Begin`, `Lock` (`_get_owned_playlist`),
`Read`, `Write` for add, remove and reorder; `CreateCount`/`CreateCommit`;
`Find` with
`RenameCommit` or `DeleteCommit`. `PlaylistSpec` says what a playlist is to its
owner: a list of distinct songs on which a request acts at one instant. The
refinement mapping reads the list off the positions.

**`App` and `Screen3`.** A fetch is sent, answered by the server at one
instant, and received later. In `App`, `Login`, `Logout`, `BackToApp`,
`Update`, `BackToGate` are handlers up to their `await`, `Receive*` the
continuations, and `Show` and `Route` the functions they share; `Refuses` is
the 401 of `get_current_user`, and an answer that is lost. `Screen3` adds
`Change`, `Create`, `Select`, `Press`, `PlayPause`, the end of a song, and
their continuations. A playlist is the number of changes made to it, its
creation included, so an answer shows how old it is. `play()` and `pause()` are
taken together with the events they fire; `sounding` is the audio element,
`playing` what the button goes by, and a click may start an element that has no
source. `loaded`, `astray` and `trouble` observe: whether the last song pressed
has loaded, whether what sounds began on another screen, and whether a fetch
went without a good answer or two that fill the panel overlapped.

## 3. Runs

`tlc -workers 2 -config <cfg> <module>` inside this directory. States are
distinct states, times those of two workers.

| Run | Configuration | States | Shows |
| --- | --- | --- | --- |
| `rate_limiter` | `RateLimiter.cfg` | 468,065 (45 s) | `BudgetBound`, `HostLoginBudget`, `RejectionIsFree` |
| `sessions` | `RefreshTokens.cfg` | 116,149 (50 s) | `OneActivePerFamily`, `SingleLineage`, `ImplementsSessionSpec`, `EveryRequestAnswered` |
| `session_reuse` | `RefreshTokensReuse.cfg` | violation | `ReuseKillsSession` is not what the code does |
| `email` | `EmailVerification.cfg` | 40,964 (14 s) | `LoginNeedsMailbox`, `NoDeadEnd`, `VerifiedIsFinal` |
| `totp` | `TotpLockout.cfg` | 1,445,346 (46 s) | `WrongCodesBounded`, `TotpStaysEnabled`, `PremiumNeedsTotp` |
| `totp_setup` | `TotpSetup.cfg` | violation | `EnabledMeansConfirmed` is not what the code does |
| `playlists` | `Playlists.cfg` | 134,723 (57 s) | `PositionsContiguous`, `PlaylistLimitSoft`, `ImplementsPlaylistSpec` |
| `songs` | `SongCatalog.cfg` | 1,387,222 (82 s) | `ReadyMeansStored`, `IndexedAreReady`, `NoSilentOrphan`, `ReindexRestores`, `SeedingReportsTruly`, `StatusIsFinal` |
| `song_stuck` | `SongCatalogStuck.cfg` | violation | `NoStuckSong` is not what the code does |
| `recommendations` | `Recommendations.cfg` | 661,152 (121 s) | `OnePassUnlessOverrun`, `NeverOlderData`, `StoresBestRanking`, `OneListServesAll`, `StalenessBounded` |
| `screen3` | `Screen3.cfg` | 2,505,596 (106 s) | `PanelIsTrue`, `BarIsRight`, `MusicStaysOnItsScreen`, `SignedOutLeaves`, `ShownAnswersAdvance` |
| `screen3_discard` | `Screen3Discard.cfg` | violation | `DiscardedAnswersAreOlder` is not what the code does |

Every passing run also checks the type invariant of its module. Properties
that only the proofs establish (section 5) are in no run: `ExpiryInvisible`,
`DeadSessionStaysDead`, `ReuseRevokesAllSeen`, `NoDeadlock`, `MailedIsStored`.

### 3.1 Bounds, and why they are enough

* `rate_limiter`: two requests in flight are what it takes for stamps to be
  out of order. One address and one user, because keys do not influence each
  other; login is the endpoint whose identity is contested. A bucket of two
  tokens of two ticks has fractions and is filled, emptied and refilled
  several times before `Horizon` 9; its key expires after 8 ticks. `MaxDelay`
  2 is half of what its tier fills in, the most the assumption allows for the
  other tier.
* `sessions`: two requests at a time, again and again. Three tokens and two
  families give a chain of two rotations with a reuse of the first token, or
  two sessions side by side. The proofs of the same invariants have no bound.
  No symmetry: the run checks liveness.
* `email`: five requests are a registration, two resends and two openings of
  links, on one of two addresses or spread over both. Requests are finite, so
  the system may stop and deadlock is not checked. An account registered over
  and over adds nothing: `users` never loses an address.
* `totp`: three requests, because the second commit of a verification, a setup
  and an activation meet only when there are three; two wrong codes lock for
  two ticks, and `Horizon` 4 has a whole lockout, its end and more wrong codes.
* `playlists`: two requests are enough for every pair of statements of every
  pair of operations. Three ids with a limit of one playlist reach the soft
  excess and a deleted playlist; three songs of four reach the limit, a
  duplicate and a removal from the middle. The constraint `OneLong` leaves out
  the states in which two playlists have more than one song: no request acts on
  two, and the theorems of `PlaylistsProofs` are about any number of each.
* `songs`: two songs, each uploaded with every failure or made by the seed
  command, and either command at any moment; two tracks, so that one may be
  there already and the other not, or be made by a command that died before.
  The handlers share nothing but the bucket and the index.
* `recommendations`: two workers, the least that can overrun each other. Three
  songs of two artists, the newest of them not ready at first, with `Limit` 2
  and two plays by two users: every stage of the ranking runs, alone or with
  another, a tie is broken by plays and by age, and the limit is reached in
  each stage. Two requests for popular songs, the least that can store one over
  the other, of one or two songs out of three; the key lives two units, so a
  list may be stored over another one in the middle of its life, and a request
  takes up to one. The constraint `OneOrTheOther` leaves out the states in
  which a pass has begun or left lists and the popular songs have too: the two
  share only the songs and the plays, which both only read, and neither has an
  action that reads what the other writes. The theorems about both have no such
  constraint.
* `screen3`: two fetches in flight, two playlists, two songs, three changes
  (creations count): the least for answers in another order than the requests.
  A third fetch could only be a third of the same kinds; a number compared with
  the last one given out distinguishes only the last and the others. The
  constraint `PlaysOrEdits` leaves out the states in which there is a playlist
  and a current song: the player reads nothing of the panel and the panel
  nothing of the player; what both meet in (the view, the token, the fetches in
  flight, which they take from each other) is reached with either.

In the code the limits are larger (500 songs, 100 playlists, 5 attempts,
20 recommendations) but nothing depends on their value other than through the
comparisons that the small ones also make true and false.

Symmetry sets are used in the runs that check no liveness. No definition
orders their elements or chooses among those that are alike: `Catalog`, `Host`
and the tiers are not in any of them.

### 3.2 Fairness

Only `RefreshTokens` states liveness (`EveryRequestAnswered`), so only it has a
fair specification. `SF_vars(Step(p))` for each transaction: the server goes on
with a request it has begun, and Postgres queues those that wait for a row, so
a statement whose lock is free again and again gets it. Nothing is assumed of
the arrival of requests, of aborts or of expiry. The second conjunct is about
the bound only: with a finite set of tokens a rotation may find none left, and
is then rolled back.

The interesting part is that the locks never go round in a circle: reuse
detection asks for a lock while it holds one. Its UPDATE asks only for rows
that were unrevoked when it began, of which a family has at most one, and what
it holds, the token it was sent, is an older token of the same chain. So every
wait is for a younger token than any the waiting handler holds, and there is no
way back: `DeadlockFree` (section 5) proves it for any number of handlers.
Rows that were revoked while the UPDATE waited are let go.

## 4. What the code does otherwise

Four runs are expected to find a violation. Each checks one sentence of a
comment or of `docs/architecture.md` that the code does not keep:

1. **Reuse detection may spare a token** (`session_reuse`, `auth.py:226`). The
   UPDATE waits for the row that a concurrent rotation has locked; when that
   commits, the old row is skipped and the new one was not in the snapshot. The
   comment says the whole chain is revoked. What does hold, and is proved:
   every token that was committed when the UPDATE started is revoked
   (`ReuseRevokesAllSeen`).
2. **2FA may be on for a secret nobody confirmed** (`totp_setup`,
   `totp.py:114`). Setup decides on its copy without the row lock and, since
   the confirmation was null in its copy, does not write it. 2FA still never
   turns off (`TotpStaysEnabled`, proved).
3. **A song may stay in "processing" although its process lives**
   (`song_stuck`, `storage.py:108`). `delete_object` catches `ClientError`;
   boto3 raises others when MinIO is out of reach.
4. **A successful change may not be shown** (`screen3_discard`,
   `index.js:165`). An answer is dropped when a later change has been sent,
   even if that one fails or was handled before. What does hold: the panel
   never goes back (`ShownAnswersAdvance`).

Observed while modelling, without a run of their own:

* The seed command looks for the title and artist of a track in rows of any
  status (`seed_catalog.py:140`): the failed upload of a song makes it skip the
  track, which is then in no list. `SeedingReportsTruly` says what the code
  ensures: there is a row.
* `main.py:49-52` says that `/songs` fails "hasta que MinIO esté disponible"
  when the bucket could not be made at the start. Uploads go on failing when
  MinIO is back, until the next start or a seed command makes the bucket; the
  same goes for the index. That is `Start`.
* `reindex_catalog` does not make a lost index: without one every document is
  refused. It counts these as failures, as `ReindexRestores` says.
* A song that is still loading when the user leaves the music screen starts to
  sound on the next one (`player.js:61-76`: nothing discards it).
  `MusicStaysOnItsScreen` says that no other music does.
* `togglePlayPause` goes by `isPlaying`, which a song that fails to load sets to
  false while the one before it may still sound: the button then offers to play
  what plays. `BarIsRight` says that it is right once the song pressed last has
  loaded, and never wrong in the other direction.

## 5. Proofs

`tlapm <Module>Proofs.tla`. The theorems are about `Spec` (`ListeningSpec` for
the popular songs; `PassesSafe` carries the results on the passes over to it,
which is what the run checks), for every value of the constants that satisfies the named
assumptions, which TLC evaluates in the runs.

| Module | Theorems |
| --- | --- |
| `RateLimiterProofs` | `TypeCorrect`, `BudgetSafe`, `HostLoginSafe`, `ExpirySafe`, `RejectionSafe` |
| `RefreshTokensProofs` | `TypeCorrect`, `OneActiveSafe`, `LineageSafe`, `DeadSessionSafe`, `ReuseSafe`, `SessionsImplemented`, `DeadlockFree` |
| `EmailVerificationProofs` | `TypeCorrect`, `VerifiedSafe`, `LoginSafe`, `WayOutSafe`, `MailSafe` |
| `TotpLockoutProofs` | `TypeCorrect`, `LockoutSafe`, `StaysEnabled`, `PremiumSafe` |
| `SongCatalogProofs` | `TypeCorrect`, `StoredSafe`, `IndexSafe`, `OrphanSafe`, `ReindexSafe`, `SeedingSafe`, `StatusSafe` |
| `PlaylistsProofs` | `PlaylistsInvariant`, `TypeSafe`, `PositionsSafe`, `LimitSafe`, `PlaylistsImplement` |
| `ListeningProofs` | `OnePassSafe`, `NeverOlderSafe`, `BestSafe`, `StalenessSafe`, `OneListSafe`, `ListeningTypeSafe` |
| `Screen3Proofs` | `ScreenInvariant`, `TypeSafe`, `PanelIsSafe`, `BarIsSafe`, `MusicIsSafe`, `SignedOutSafe`, `AnswersAdvance` |

What is assumed of the constants is what the code justifies: requests,
fetches and users are finitely many at a time (`RequestAssumption`,
`ScreenAssumption`, `RecommendationsAssumption`: cardinalities and sums are
taken of them), a catalogue is a list without repetitions, limits are numbers,
at least one playlist is allowed, and `None` is none of the things it is told
apart from. Tokens, addresses, playlists and songs may be of any number,
finite or not, but for the songs of the catalogue.

In each module `IInv` is the inductive invariant; `Init => IInv` and
`IInv /\ [Next]_vars => IInv'` have one lemma or step per action, and action
properties follow from `IInv` and the step. Why the properties alone are not
inductive, and what is added:

* **RateLimiter.** `BudgetBound` says that level plus charge is at most a burst
  plus the time that has passed. An expired key jumps to full, which would
  break it; `TtlCovers` (a key outlives its last write by two fills) and
  `StampsRecent` (a stamp is at most `MaxDelay` old, which is at most one fill)
  show that it was full anyway. `FreshWindow` covers keys never written.
  Assumption: `DelayAssumption`, that a request waits less for a thread than a
  bucket takes to fill (60 s in the code).
* **RefreshTokens.** `OneActivePerFamily` needs that a rotation still has an
  active token when it commits: `RotationHolds`, the row lock. `FreshTokens`
  keeps new tokens out of the chain. `RevocationHolds` is what reuse detection
  knows of the rows it has been through. The refinement `SessionsImplemented`
  takes from the invariant that a session has at most one active token, which
  makes the mapping a function of the rows; `OneSession` adds that an UPDATE
  goes through rows of one family, so that its commit closes one session. The
  commit of a handler is then one step of `SessionSpec` and all its other
  statements are stutters. `DeadlockFree` needs an order the code does not
  keep: `Ages` says that tokens can be given ages in which the active token of a
  session is the youngest and what an UPDATE asks for is younger than the token
  it was sent. Each rotation gives a new assignment of ages. `WaitingOK` says
  which rows a handler holds at each of its statements. Whoever waits, as
  reuse detection, for a handler that waits itself was sent an older token than
  that one (`WaitsForYounger`), and in a finite set of handlers this cannot go
  on: whoever the last of them waits for waits for nobody.
* **EmailVerification.** Nothing is locked, so the facts are about which
  columns a write touches: `Proven` (verified, or about to be, means a link was
  opened in time), `SendsStored`, `SessionsVerified`, `AboutOK`.
* **TotpLockout.** `CopyFresh`: whoever evaluates a code holds the row and its
  copy is the row. Then `CounterFollows`: the counter is at least the wrong
  codes of the window, or the lockout came and outlasts it. `GateHolds` carries
  the check of `totp_enabled` to the commit of premium.
* **SongCatalog.** `StepsKnown` (what is stored at each step of the handler),
  `Tracked` (an object is either in `uploaded_keys` or in the log),
  `NoneLeftOut` (reindexing), and `SeedKnown`: in the seed command every track is yet
  to be looked at or has a row, and every song it made is indexed, about to be,
  or counted.
* **Playlists.** `PositionsContiguous` is about sets of numbers, and a request
  writes what it planned from rows it read earlier. `RowsOK` says that the
  positions of a playlist *number* its songs (`Numbers`: a function into
  `0..n-1`, no value twice), `RequestOK` that who holds the row of a playlist
  read it as it still is. The lemmas `NumbersIsBijection`, `SongsBelow` and
  those on appending, removing and reordering carry a numbering over each
  write; the refinement mapping reads the list off it, so the commit of a
  handler is one step of `PlaylistSpec` and its other statements are stutters.
  `LimitSafe`: whoever has counted saw room, and there are finitely many.
* **Recommendations.** `HoldsLock`: a pass inside that has not overrun is the
  one whose token is in the lock. `FreshInv`: what it has read is not behind
  what is stored, because songs and plays only grow; that a sum grows with its
  terms (`SumGrows`) is proved through the smallest set for which it would not.
  `BestSafe` is about the ranking: `CanBeListed` shows that a finite set under a
  strict total order has a list in that order (each element has the place that
  the number of those before it tells), so that `SortedBy` returns one;
  `KeysCompare` that the keys compare as keys do; `RankingLists` that no song of
  the three parts put together deserves to precede one before it; and the limit
  cuts off an end (`Beginning`).
* **Popular songs.** `AgesOK`: the age of the list in the key and the life the
  key has left are together at most `TTL + MaxDelay`; storing makes it so
  whatever was there, and time adds to the one what it takes from the other.
  `ServesInv`: every list computed or stored has as many of the songs of its
  query as the cache holds, most played first; an answer is its beginning.
* **Screen3.** `PanelIsTrue` speaks of moments at which nothing is in flight;
  between them the panel may show an older playlist or none. `PanelInv` says
  what must then be on its way: `OnlyOne` fetch fills the panel unless the user
  has overlapped two, what it was answered is what the server has (`Expected`),
  and whenever nobody waits the panel is `Settled`. `LatestInv` and `BarInv` say
  what the two sequence numbers stand for: the fetch they name is still the one
  that was sent with them, so an answer that is not stale is newer than what is
  shown, and the song it loads is the one pressed last. `SignedOutLeaves`,
  `MusicStaysOnItsScreen` and `WaitInv` are inductive with the types.
  `UserSteps`, `ServerSteps`, `ReceiveSteps` and `AppSteps` take the actions in
  groups, with what a group leaves alone said once.

The lemmas about `End` (`EndFacts`, `EndLocks`) are shared by the actions that
end a request.

## 6. Only model-checked

* `EveryRequestAnswered`: liveness is beyond TLAPS. It is the only property of
  a passing run without a theorem. What can be proved of it is its safe half,
  that no wait is circular: `DeadlockFree`.
* The four disagreements of section 4: they are false.

## 7. Not modelled, and why

* Passwords, hashes, signatures, TOTP arithmetic, encryption, cookies: a
  credential is right or wrong, a token is the one that was sent.
* `get_current_user` on its own: it reads and has no state. It is the `Load`
  step where what it read matters, and `Refuses` in `App`.
* Reads that change nothing: lists, search, get a song, recommendations, a
  request that finds the popular songs in Redis. The name of a playlist, which
  nothing depends on (its rename is in `Playlists`, and writes nothing else).
* A song whose COMMIT to ready took effect although it was reported as failed:
  the handler deletes its objects, and the row stays ready. `ReadyMeansStored`
  exempts it (`inDoubt`); the model has the case, no property asks more of it
  than `StatusIsFinal`.
* The summary of a second seed command counts a song that an earlier one left
  unindexed as skipped: `SeedingReportsTruly` is about the songs a run creates,
  `ReindexRestores` about how the others come back.
* An index that is lost while the reindex command walks its list: `LoseIndex`
  waits for the end of the command.
* Requests that pass while Redis does not answer, uncharged, are in no budget,
  and a restart of Redis begins a new one.
* Uploads refused before there is a row (size, ffprobe), temporary files.
* Time in `Recommendations`: locks and lists expire at any moment, which
  includes every schedule of Beat and every duration of a pass.
* The playback pointer: one SET of one key per user. The one thing that can
  happen (a stamp taken before the one it overwrites) is the order of two calls
  restated; `docs/architecture.md:508-512` takes the order of arrival.
* The rate limiter in front of every other endpoint: a refused request does not
  reach its handler, as one that is never sent; the sentence of
  `rate_limiter.py:74-78` that the lockout always acts first is not decided.
* `catalog_server.py` serves files to the seed command and keeps no state. Two
  seed commands at once: that they may duplicate tracks is documented there.
* Rendering, drag and drop, keyboard focus, seeking and volume: state of the
  DOM. The forms for registration, mails and the first step of TOTP only show
  texts. In `Screen3` the queue is abstracted (any song may be the next) and
  the summaries in the selector are left out.
* Schemas, settings, migrations, docker, CI: no logic that runs concurrently;
  what they fix is assumed where it matters.

## 8. Plan

Order of work, the most important behaviour first:

1. *Done.* Rate limiter, sessions, 2FA: the protection of accounts, all about
   interleaving. Then playlists and songs: shared data. Then recommendations,
   email verification and the music screen. Then the rest of the front-end,
   seeding and start-up, popular songs, and the sessions as an abstract
   specification with the proof that they are implemented.
2. *Done, proofs.* Every safety property of a passing run, action properties and
   both refinements included, and that the row locks of sessions do not deadlock.
3. *Later, modelling.* `Gateway`: the rate limiter in front of the lockout. A
   clock for Beat, to decide `worker.py:33`.
