------------------------------ MODULE Screen3 ------------------------------
(***************************************************************************)
(* The music screen of the front-end, in the tab of App:                   *)
(* src/app/static/js/screen3/index.js, player.js and topbar.js.            *)
(*                                                                         *)
(* The sequence numbers of index.js and player.js are only compared with   *)
(* the last one given out, so "latest" keeps the request that has it.  A   *)
(* playlist is the number of changes made to it, its creation included;    *)
(* the server handles a change at one instant, as Playlists shows.  The    *)
(* queue is abstracted: a song pressed, or next, is any song.              *)
(***************************************************************************)
EXTENDS App, FiniteSetsExt

CONSTANTS
    Playlist,   \* the user's playlists, none of which is ever deleted from here
    Song,
    MaxChanges  \* bound on the changes made to the playlists

ASSUME ScreenAssumption ==
    /\ None \notin Request \cup Playlist \cup Song
    /\ None \notin [list : Playlist, version : Nat, from : {"change", "select", "open"}]
    /\ IsFiniteSet(Request)

VARIABLES
    content,    \* server: playlist -> the changes made to it, 0 before it exists
    sel,        \* selectedPlaylistId
    detail,     \* selectedPlaylistDetail
    latest,     \* the fetch whose number is mutationSequence, while it is in flight
    latestPlay, \* the fetch whose number is playRequestId, while it is in flight
    current,    \* currentSongId
    src,        \* the song the audio element has as its source
    \* Observers:
    loaded,     \* the last song pressed has loaded
    astray,     \* the song that sounds began to do so on another screen
    trouble     \* a fetch got no good answer, or two that fill the panel overlapped

sequenceVars == <<latest, latestPlay>>
panelVars == <<sel, detail>>
songVars == <<current, src, loaded>>
screenVars == <<content, sequenceVars, panelVars, songVars>>
vars == <<appVars, screenVars, astray, trouble>>

Init ==
    /\ AppInit
    /\ content \in [Playlist -> {0, 1}]
    /\ sel = None
    /\ detail = None
    /\ latest = None
    /\ latestPlay = None
    /\ current = None
    /\ src = None
    /\ loaded = FALSE
    /\ astray = FALSE
    /\ trouble = "none"

Exists(p) == content[p] > 0

\* The continuation of r ends, or goes on; its number, if it had the last, is used up.
Become(r, fetch) ==
    /\ Becomes(r, fetch)
    /\ latest' = IF latest = r THEN None ELSE latest
    /\ latestPlay' = IF latestPlay = r THEN None ELSE latestPlay

Finish(r) == Become(r, Free)

\* player.stop()
Stop ==
    /\ Pause
    /\ src' = None
    /\ current' = None
    /\ loaded' = FALSE

----------------------------------------------------------------------------
(* The user *)

\* handleAddSong, handleRemoveSong, submitReorder
Change(r) ==
    /\ view = "app"
    /\ sel # None
    /\ Sends(r, Signed("change", sel))
    /\ latest' = r
    /\ UNCHANGED <<gate, view, token, audioVars, content, latestPlay, panelVars, songVars>>

\* handleCreatePlaylist, to its first await
Create(r) ==
    /\ view = "app"
    /\ Sends(r, Signed("create", None))
    /\ UNCHANGED <<gate, view, token, audioVars, screenVars>>

\* selectPlaylist
Select(r, p) ==
    /\ view = "app"
    /\ Exists(p)
    /\ Sends(r, Signed("select", p))
    /\ UNCHANGED <<gate, view, token, audioVars, screenVars>>

\* loadAndPlay up to its await.
Load(r, s) ==
    /\ Sends(r, Signed("play", s))
    /\ latestPlay' = r
    /\ current' = s
    /\ loaded' = FALSE
    /\ UNCHANGED <<gate, view, token, content, latest, panelVars, src>>

\* A song, or "previous" or "next", is pressed.
Press(r, s) == view = "app" /\ Load(r, s) /\ UNCHANGED audioVars

\* The song ends, which pauses the element; the queue goes on ...
PlaysNext(r, s) == sounding /\ current # None /\ Load(r, s) /\ Pause

\* ... or is at its end.
Ends ==
    /\ sounding
    /\ Pause
    /\ UNCHANGED <<gate, flight, view, token, screenVars>>

\* The button of the player, which goes by isPlaying.  play() starts even an element
\* without a source, and does nothing, not even fire an event, to one that plays.
PlayPause ==
    /\ view = "app"
    /\ current # None
    /\ IF playing
       THEN Pause
       ELSE ~sounding /\ sounding' = TRUE /\ playing' = TRUE
    /\ UNCHANGED <<gate, flight, view, token, screenVars>>

----------------------------------------------------------------------------
(* The server; these answers need the token and the gate *)

AnswerOk(r, version, lists) ==
    /\ flight[r].status = "sent" /\ flight[r].signed
    /\ flight' = [flight EXCEPT ![r] =
                    [@ EXCEPT !.status = "ok", !.version = version, !.lists = lists]]

ServesLists(r) ==
    /\ flight[r].kind = "lists" /\ gate
    /\ AnswerOk(r, 0, {p \in Playlist : Exists(p)})
    /\ UNCHANGED <<gate, view, token, audioVars, screenVars>>

ServesDetail(r) ==
    /\ flight[r].kind \in {"select", "open"} /\ gate
    /\ AnswerOk(r, content[flight[r].on], {})
    /\ UNCHANGED <<gate, view, token, audioVars, screenVars>>

\* GET /songs/{id}/stream, which needs the token only
ServesStream(r) ==
    /\ flight[r].kind = "play"
    /\ AnswerOk(r, 0, {})
    /\ UNCHANGED <<gate, view, token, audioVars, screenVars>>

\* A change, or a creation, is made, whether or not its answer arrives.
Makes(r, p) ==
    /\ gate /\ flight[r].status = "sent" /\ flight[r].signed
    /\ \/ flight[r].kind = "change" /\ p = flight[r].on
       \/ flight[r].kind = "create" /\ ~Exists(p)
    /\ MapThenSumSet(LAMBDA q : content[q], Playlist) < MaxChanges
    /\ content' = [content EXCEPT ![p] = @ + 1]
    /\ \/ AnswerOk(r, content[p] + 1, {p})
       \/ flight' = [flight EXCEPT ![r].status = "error"]
    /\ UNCHANGED <<gate, view, token, audioVars, sequenceVars, panelVars, songVars>>

Forbids(r) ==
    /\ flight[r].kind \in {"lists", "select", "open", "change"} /\ flight[r].signed /\ ~gate
    /\ Answer(r, "403")
    /\ UNCHANGED <<gate, screenVars>>

----------------------------------------------------------------------------
(* The continuations *)

\* The fetches whose answers fill playlists, selectedPlaylistId and selectedPlaylistDetail.
Panel == {"lists", "open", "select", "create", "change"}
Guarded == {"lists", "open", "select", "change", "play"}  \* 401 and 403 are handled

\* Fault: every answer is shown.
Stale_Never(r) == FALSE

\* A newer change has been sent, or a newer song pressed, since r was.
Stale(r) ==
    \/ flight[r].kind = "change" /\ latest # r
    \/ flight[r].kind = "play" /\ latestPlay # r

\* "if (sequence !== mutationSequence) return", and that of playRequestId.
Discard(r) ==
    /\ flight[r].status \in {"ok", "401", "403", "error"}
    /\ Stale(r)
    /\ Finish(r)
    /\ UNCHANGED <<gate, view, token, audioVars, content, panelVars, songVars>>

ShowDetail(r) ==
    detail' = [list |-> flight[r].on, version |-> flight[r].version, from |-> flight[r].kind]

ReceiveChange(r) ==
    /\ flight[r].kind = "change" /\ flight[r].status = "ok"
    /\ ~Stale(r)
    /\ ShowDetail(r)
    /\ Finish(r)
    /\ UNCHANGED <<gate, view, token, audioVars, content, sel, songVars>>

\* Fault: the panel is filled, the selection stays.
ReceiveSelect_NoSelection(r) ==
    /\ flight[r].kind = "select" /\ flight[r].status = "ok"
    /\ ShowDetail(r)
    /\ Finish(r)
    /\ UNCHANGED <<gate, view, token, audioVars, content, sel, songVars>>

ReceiveSelect(r) ==
    /\ flight[r].kind = "select" /\ flight[r].status = "ok"
    /\ sel' = flight[r].on
    /\ ShowDetail(r)
    /\ Finish(r)
    /\ UNCHANGED <<gate, view, token, audioVars, content, songVars>>

\* The new playlist is selected; any error is shown in the dialog.
ReceiveCreate(r) ==
    /\ flight[r].kind = "create"
    /\ \/ /\ flight[r].status = "ok"
          /\ \E p \in flight[r].lists : Become(r, Signed("select", p))
       \/ flight[r].status \in {"401", "error"} /\ Finish(r)
    /\ UNCHANGED <<gate, view, token, audioVars, content, panelVars, songVars>>

\* enter(): the lists are there; the selected playlist, or the first, is fetched, or
\* there is none.
ReceiveLists(r) ==
    /\ flight[r].kind = "lists" /\ flight[r].status = "ok"
    /\ \/ /\ flight[r].lists = {}
          /\ sel' = None /\ detail' = None
          /\ Finish(r)
       \/ /\ sel' \in IF sel \in flight[r].lists THEN {sel} ELSE flight[r].lists
          /\ Become(r, Signed("open", sel'))
          /\ UNCHANGED detail
    /\ UNCHANGED <<gate, view, token, audioVars, content, songVars>>

\* ... and shown.
ReceiveOpen(r) ==
    /\ flight[r].kind = "open" /\ flight[r].status = "ok"
    /\ ShowDetail(r)
    /\ Finish(r)
    /\ UNCHANGED <<gate, view, token, audioVars, content, sel, songVars>>

\* audio.play() may be refused; then, as for any error, isPlaying is FALSE.
ReceivePlay(r) ==
    /\ flight[r].kind = "play" /\ flight[r].status = "ok"
    /\ ~Stale(r)
    /\ src' = flight[r].on
    /\ sounding' \in BOOLEAN
    /\ playing' = sounding'
    /\ loaded' = TRUE
    /\ Finish(r)
    /\ UNCHANGED <<gate, view, token, content, panelVars, current>>

\* Fault: on entering, a 401 is only shown.
ReceiveExpired_NotOnEntering(r) ==
    /\ flight[r].kind \in Guarded /\ flight[r].status = "401"
    /\ ~Stale(r)
    /\ IF flight[r].kind \in {"lists", "open"}
       THEN UNCHANGED <<view, token, audioVars, songVars>>
       ELSE Stop /\ token' = FALSE /\ view' = "auth"
    /\ Finish(r)
    /\ UNCHANGED <<gate, content, panelVars>>

\* onSessionExpired: the player stops, handleSessionExpired.
ReceiveExpired(r) ==
    /\ flight[r].kind \in Guarded /\ flight[r].status = "401"
    /\ ~Stale(r)
    /\ Stop
    /\ token' = FALSE
    /\ view' = "auth"
    /\ Finish(r)
    /\ UNCHANGED <<gate, content, panelVars>>

\* onGateLost, which is refreshUserAndRoute.
ReceiveForbidden(r) ==
    /\ flight[r].status = "403"
    /\ ~Stale(r)
    /\ Become(r, Signed("me", None))
    /\ UNCHANGED <<gate, view, token, audioVars, content, panelVars, songVars>>

\* Any other error is shown.  When it is a song that does not load, isPlaying turns
\* false, but the audio element goes on with what it has.
ReceiveError(r) ==
    /\ flight[r].kind \in Guarded /\ flight[r].status = "error"
    /\ ~Stale(r)
    /\ playing' = (playing /\ flight[r].kind # "play")
    /\ Finish(r)
    /\ UNCHANGED <<gate, view, token, sounding, content, panelVars, songVars>>

----------------------------------------------------------------------------

InPanel(fetches) == {r \in Request : fetches[r].kind \in Panel}

\* What the observers of a step record.
Observe ==
    /\ astray' = /\ sounding'
                 /\ IF sounding /\ src' = src THEN astray ELSE view' # "app"
    /\ trouble' =
        IF \E r \in Request : flight'[r].status = "error" THEN "unanswered"
        ELSE IF trouble = "none" /\ Cardinality(InPanel(flight')) > 1 THEN "overlap"
        ELSE trouble

ScreenNext ==
    \/ Ends \/ PlayPause
    \/ \E r \in Request :
        \/ Change(r) \/ Create(r)
        \/ \E p \in Playlist : Select(r, p) \/ Makes(r, p)
        \/ \E s \in Song : Press(r, s) \/ PlaysNext(r, s)
        \/ ServesLists(r) \/ ServesDetail(r) \/ ServesStream(r) \/ Forbids(r)
        \/ Discard(r) \/ ReceiveChange(r) \/ ReceiveSelect(r) \/ ReceiveCreate(r)
        \/ ReceiveLists(r) \/ ReceiveOpen(r) \/ ReceivePlay(r)
        \/ ReceiveExpired(r) \/ ReceiveForbidden(r) \/ ReceiveError(r)

Next ==
    /\ ScreenNext \/ (AppNext /\ UNCHANGED screenVars)
    /\ Observe

Spec == Init /\ [][Next]_vars

----------------------------------------------------------------------------
(* Properties *)

TypeOK ==
    /\ gate \in BOOLEAN /\ token \in BOOLEAN
    /\ content \in [Playlist -> Nat]
    /\ \A r \in Request :
        /\ flight[r].status \in {"free", "sent", "ok", "gated", "401", "403", "error"}
        /\ flight[r].kind \in {"change", "select", "open"} =>
             flight[r].on \in Playlist /\ flight[r].version <= content[flight[r].on]
        /\ flight[r].kind = "play" => flight[r].on \in Song
        /\ flight[r].lists \subseteq Playlist
    /\ view \in {"loading", "auth", "gate", "app"}
    /\ sel \in Playlist \cup {None}
    /\ detail # None => detail.list \in Playlist /\ detail.version <= content[detail.list]
    /\ {latest, latestPlay} \subseteq Request \cup {None}
    /\ {current, src} \subseteq Song \cup {None}
    /\ {sounding, playing, loaded, astray} \subseteq BOOLEAN
    /\ view = "loading" => \E r \in Request : flight[r].kind \in {"refresh", "me"}
    /\ trouble \in {"none", "overlap", "unanswered"}

\* index.js, lines 38-46: the answer of a change never takes the panel back to
\* before the answer of another change that it shows.
ShownAnswersAdvance ==
    [][/\ detail # None /\ detail' \notin {None, detail}
       /\ detail.from = "change" /\ detail'.from = "change"
       /\ detail.list = detail'.list
       => detail.version <= detail'.version]_vars

\* A user who waits for the answer of what fills the panel before asking for more,
\* and gets it, has before him the playlist he has selected, as the server has it,
\* however often he signs out, loses the gate and comes back (index.js, lines
\* 252-269 and 307-337).
PanelIsTrue ==
    /\ trouble = "none" /\ view = "app"
    /\ InPanel(flight) = {} /\ \A r \in Request : flight[r].kind # "me"
    => IF sel = None
       THEN detail = None /\ \A p \in Playlist : ~Exists(p)
       ELSE detail # None /\ detail.list = sel /\ detail.version = content[sel]

\* The player's button never offers to pause what is paused; and when the last song
\* pressed has loaded, it is the one that sounds, whatever was pressed before it and
\* answered after it, and the button says so (player.js, lines 19-22 and 51-77).
BarIsRight ==
    /\ playing => sounding
    /\ loaded /\ current # None => src = current /\ playing = sounding

\* No music is taken to another screen: what sounds there began there, by a song that
\* was loading when the music screen was left (app.js, lines 17-25).
MusicStaysOnItsScreen == sounding /\ view # "app" => astray

\* A tab that has lost its session does not stay on the music screen: an answer of
\* /auth/me that arrives after the logout may take it there, but what the screen then
\* asks for takes it back to the login, if the server answers (app.js, lines 33-71).
SignedOutLeaves ==
    view = "app" /\ ~token =>
        \/ \E r \in Request : flight[r].kind \in {"lists", "open"} /\ ~flight[r].signed
        \/ trouble = "unanswered"

\* "Descarta respuestas de mutación ... que lleguen fuera de orden" so that the panel
\* is not left with "un estado más viejo" (index.js, lines 38-46): when the answer of
\* a change arrives and no newer change is waiting for its own, the panel, if it has
\* that playlist, then shows it at least as new as that answer.
DiscardedAnswersAreOlder ==
    [][\A r \in Request :
         /\ flight[r].kind = "change" /\ flight[r].status = "ok" /\ flight'[r] = Free
         /\ latest \in {None, r}
         /\ detail' # None /\ detail'.list = flight[r].on
         => detail'.version >= flight[r].version]_vars
=============================================================================
