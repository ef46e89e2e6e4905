---------------------------- MODULE Screen3Proofs ----------------------------
(***************************************************************************)
(* The tab, with its music screen, for any number of fetches in flight, of *)
(* playlists and of songs.                                                 *)
(***************************************************************************)
EXTENDS Screen3, FiniteSetTheorems, TLAPS

----------------------------------------------------------------------------
(* The fetches: what each kind is about, and how it may be answered *)

Account == {"login", "refresh", "logout"}
Asking == {"first", "me"}
Detail == {"change", "select", "open"}
Kinds == Account \cup Asking \cup Detail \cup {"free", "update", "lists", "create", "play"}

FetchType ==
    [kind : Kinds, on : Playlist \cup Song \cup {None}, signed : BOOLEAN,
     status : {"free", "sent", "ok", "gated", "401", "403", "error"},
     version : Nat, lists : SUBSET Playlist]

\* No answer but a refusal comes without a token, and a version is one the playlist has.
FetchOK(f, made) ==
    /\ f \in FetchType
    /\ f.status = "free" => f = Free
    /\ f.kind = "free" => f = Free
    /\ f.kind \in Account => f.status \in {"sent", "ok", "error"}
    /\ f.kind \notin Asking => f.status # "gated"
    /\ f.status = "403" => f.kind \in Detail \cup {"lists"}
    /\ f.kind \notin Account /\ f.status \in {"ok", "gated", "403"} => f.signed
    /\ f.kind \in Detail => f.on \in Playlist /\ f.version <= made[f.on]
    /\ f.kind = "play" => f.on \in Song
    /\ f.kind = "create" /\ f.status = "ok" => \E p \in Playlist : f.lists = {p}

FetchesOK ==
    /\ Request # {}
    /\ flight \in [Request -> FetchType]
    /\ \A r \in Request : FetchOK(flight[r], content)

OthersOK ==
    /\ gate \in BOOLEAN /\ token \in BOOLEAN
    /\ view \in {"loading", "auth", "gate", "app"}
    /\ content \in [Playlist -> Nat]
    /\ sel \in Playlist \cup {None}
    /\ detail # None => detail.list \in Playlist /\ detail.version <= content[detail.list]
                        /\ detail.version \in Nat
    /\ current \in Song \cup {None} /\ src \in Song \cup {None}
    /\ sounding \in BOOLEAN /\ playing \in BOOLEAN /\ loaded \in BOOLEAN /\ astray \in BOOLEAN
    /\ latest \in Request \cup {None} /\ latestPlay \in Request \cup {None}
    /\ trouble \in {"none", "overlap", "unanswered"}

TypeInv == FetchesOK /\ OthersOK

\* The tab waits for what tells where to go.
WaitInv == view = "loading" => \E r \in Request : flight[r].kind \in {"refresh", "me"}

\* The fetch that has the last number is still the one that was sent with it: a change of
\* a playlist whose answer is newer than the answer of a change that is shown; ...
LatestInv ==
    latest # None =>
        /\ flight[latest].kind = "change"
        /\ /\ flight[latest].status = "ok"
           /\ detail # None
           /\ detail.from = "change" /\ detail.list = flight[latest].on
           => detail.version <= flight[latest].version

\* ... or the song pressed last, which has not loaded.
BarInv ==
    /\ BarIsRight
    /\ latestPlay # None =>
        /\ flight[latestPlay].kind = "play"
        /\ current # None => flight[latestPlay].on = current
        /\ ~loaded

\* A fetch that was not answered is not forgotten.
TroubleInv == (\E r \in Request : flight[r].status = "error") => trouble = "unanswered"

\* The panel shows what is selected, as the server has it.
Settled ==
    IF sel = None
    THEN detail = None /\ \A p \in Playlist : ~Exists(p)
    ELSE detail # None /\ detail.list = sel /\ detail.version = content[sel]

\* What is known of the one fetch that fills the panel.
Expected(r) ==
    /\ flight[r].kind = "lists" /\ flight[r].status = "ok" =>
         flight[r].lists = {p \in Playlist : Exists(p)}
    /\ flight[r].kind \in Detail /\ flight[r].status = "ok" =>
         flight[r].version = content[flight[r].on]
    /\ flight[r].kind \in {"open", "change"} => flight[r].on = sel
    /\ flight[r].kind = "change" => latest = r

\* A creation that has not been made leaves the panel right.
Unmade(r) == flight[r].kind = "create" /\ flight[r].status \in {"sent", "401"}

OnlyOne == \A r, q \in InPanel(flight) : r = q

\* Nobody waits for what fills the panel.
Quiet ==
    /\ view = "app"
    /\ \A r \in Request : flight[r].kind # "me"
    /\ \A r \in InPanel(flight) : Unmade(r)

PanelRight == (\A r \in InPanel(flight) : Expected(r)) /\ (Quiet => Settled)

PanelInv == trouble = "none" => OnlyOne /\ PanelRight

IInv ==
    /\ TypeInv /\ WaitInv /\ LatestInv /\ BarInv /\ TroubleInv
    /\ MusicStaysOnItsScreen /\ SignedOutLeaves /\ PanelInv

----------------------------------------------------------------------------
(* The groups of actions that the proofs go by *)

UserStep(r) ==
    \/ Ends \/ PlayPause \/ Change(r) \/ Create(r)
    \/ \E p \in Playlist : Select(r, p)
    \/ \E s \in Song : Press(r, s) \/ PlaysNext(r, s)

ServerStep(r) ==
    \/ ServesLists(r) \/ ServesDetail(r) \/ ServesStream(r) \/ Forbids(r)
    \/ \E p \in Playlist : Makes(r, p)

ReceiveStep(r) ==
    \/ Discard(r) \/ ReceiveChange(r) \/ ReceiveSelect(r) \/ ReceiveCreate(r)
    \/ ReceiveLists(r) \/ ReceiveOpen(r) \/ ReceivePlay(r)
    \/ ReceiveExpired(r) \/ ReceiveForbidden(r) \/ ReceiveError(r)

AppSends(r) == Login(r) \/ Logout(r) \/ BackToApp(r) \/ Update(r)

AppServes(r) == ServesAccount(r) \/ ServesUpdate(r) \/ Refuses(r)

AppReceives(r) ==
    \/ ReceiveLogin(r) \/ ReceiveFirst(r) \/ ReceiveRefresh(r)
    \/ ReceiveMe(r) \/ ReceiveLogout(r) \/ ReceiveUpdate(r)

AppStep(r) == AppSends(r) \/ AppServes(r) \/ AppReceives(r)

\* Only the fetch r changes.
Elsewhere(r) == \A q \in Request \ {r} : flight'[q] = flight[q]

\* It is answered.
IsAnswered(r) ==
    /\ flight[r].status = "sent" /\ flight'[r].status \in {"ok", "gated", "401", "403", "error"}
    /\ flight'[r].kind = flight[r].kind
    /\ flight'[r].on = flight[r].on
    /\ flight'[r].signed = flight[r].signed
    /\ Elsewhere(r)

LEMMA Steps ==
    ASSUME TypeInv, Next
    PROVE  /\ Observe
           /\ \/ \E r \in Request : UserStep(r) \/ ServerStep(r) \/ ReceiveStep(r)
              \/ UNCHANGED screenVars /\ (BackToGate \/ ToggleGate)
              \/ UNCHANGED screenVars /\ \E r \in Request : AppStep(r)
BY DEF Next, ScreenNext, AppNext, UserStep, ServerStep, ReceiveStep, AppStep, AppSends,
       AppServes, AppReceives, TypeInv, FetchesOK

----------------------------------------------------------------------------
(* Types *)

\* A fetch that is in order is put in the place of another.
LEMMA PutsFetch ==
    ASSUME TypeInv, NEW r \in Request, NEW f, NEW made \in [Playlist -> Nat],
           FetchOK(f, made), \A p \in Playlist : content[p] <= made[p],
           flight' = [flight EXCEPT ![r] = f]
    PROVE  /\ flight' \in [Request -> FetchType]
           /\ \A q \in Request : FetchOK(flight'[q], made)
           /\ flight'[r] = f
           /\ \A q \in Request \ {r} : flight'[q] = flight[q]
<1>1. f \in FetchType
  BY DEF FetchOK
<1>2. flight' \in [Request -> FetchType] /\ flight'[r] = f
      /\ \A q \in Request \ {r} : flight'[q] = flight[q]
  BY <1>1 DEF TypeInv, FetchesOK
<1>3. ASSUME NEW q \in Request \ {r} PROVE FetchOK(flight[q], made)
  <2>1. FetchOK(flight[q], content)
    BY DEF TypeInv, FetchesOK, OthersOK
  <2>2. flight[q].kind \in Detail => flight[q].version <= made[flight[q].on]
    <3>1. flight[q].kind \in Detail =>
            /\ flight[q].on \in Playlist /\ flight[q].version \in Nat
            /\ flight[q].version <= content[flight[q].on]
      BY <2>1 DEF FetchOK, FetchType
    <3> QED
      BY <3>1 DEF TypeInv, OthersOK
  <2> QED
    BY <2>1, <2>2 DEF FetchOK
<1> QED
  BY <1>2, <1>3

\* A fetch that is sent is in order.
LEMMA SentIsOK ==
    ASSUME NEW kind \in Kinds, NEW on \in Playlist \cup Song \cup {None}, NEW signed \in BOOLEAN,
           NEW made \in [Playlist -> Nat],
           kind # "free", kind \in Detail => on \in Playlist, kind = "play" => on \in Song
    PROVE  FetchOK(Fetch(kind, on, signed), made)
<1> DEFINE f == Fetch(kind, on, signed)
<1>1. f \in FetchType /\ f.kind = kind /\ f.on = on /\ f.status = "sent" /\ f.version = 0
  BY DEF Fetch, FetchType
<1> QED
  BY <1>1 DEF FetchOK

LEMMA FreeIsOK == ASSUME NEW made PROVE FetchOK(Free, made)
<1>1. Free \in FetchType /\ Free.kind = "free" /\ Free.status = "free"
  BY DEF Free, Fetch, FetchType, Kinds
<1> QED
  BY <1>1 DEF FetchOK, Account, Asking, Detail

\* A fetch that is answered is in order.
LEMMA AnsweredIsOK ==
    ASSUME TypeInv, NEW r \in Request, flight[r].status = "sent",
           NEW status \in {"ok", "gated", "401", "403", "error"},
           flight[r].kind \in Account => status \in {"ok", "error"},
           flight[r].kind \notin Asking => status # "gated",
           status = "403" => flight[r].kind \in Detail \cup {"lists"},
           flight[r].kind \notin Account /\ status \in {"ok", "gated", "403"} => flight[r].signed,
           flight[r].kind = "create" => status # "ok",
           NEW made \in [Playlist -> Nat], \A p \in Playlist : content[p] <= made[p],
           flight' = [flight EXCEPT ![r].status = status]
    PROVE  FetchOK([flight[r] EXCEPT !.status = status], made)
           /\ flight' = [flight EXCEPT ![r] = [flight[r] EXCEPT !.status = status]]
<1> DEFINE g == flight[r]
           f == [g EXCEPT !.status = status]
<1>1. FetchOK(g, content) /\ g \in FetchType
  BY DEF TypeInv, FetchesOK, FetchOK
<1>2. /\ f \in FetchType /\ f.status = status /\ f.kind = g.kind /\ f.on = g.on
      /\ f.signed = g.signed /\ f.version = g.version /\ f.lists = g.lists
  BY <1>1 DEF FetchType
<1>3. g.kind # "free"
  BY <1>1 DEF FetchOK, Free, Fetch
<1>4. g.kind \in Detail => g.on \in Playlist /\ g.version <= made[g.on]
  <2>1. g.kind \in Detail =>
          g.on \in Playlist /\ g.version \in Nat /\ g.version <= content[g.on]
    BY <1>1 DEF FetchOK, FetchType
  <2> QED
    BY <2>1 DEF TypeInv, OthersOK
<1>5. flight' = [flight EXCEPT ![r] = f]
  BY DEF TypeInv, FetchesOK, OthersOK
<1> HIDE DEF f
<1>6. FetchOK(f, made)
  BY <1>1, <1>2, <1>3, <1>4 DEF FetchOK
<1> QED
  BY <1>5, <1>6 DEF f

LEMMA ServedIsOK ==
    ASSUME TypeInv, NEW r \in Request, flight[r].status = "sent", flight[r].signed,
           NEW version \in Nat, NEW lists \in SUBSET Playlist,
           NEW made \in [Playlist -> Nat],
           flight[r].kind \in Detail => version <= made[flight[r].on],
           flight[r].kind = "create" => \E p \in Playlist : lists = {p}
    PROVE  FetchOK([flight[r] EXCEPT !.status = "ok", !.version = version, !.lists = lists], made)
<1> DEFINE g == flight[r]
           f == [g EXCEPT !.status = "ok", !.version = version, !.lists = lists]
<1>1. FetchOK(g, content) /\ g \in FetchType
  BY DEF TypeInv, FetchesOK, FetchOK
<1>2. /\ f \in FetchType /\ f.status = "ok" /\ f.kind = g.kind /\ f.on = g.on
      /\ f.signed = g.signed /\ f.version = version /\ f.lists = lists
  BY <1>1 DEF FetchType
<1>3. g.kind # "free"
  BY <1>1 DEF FetchOK, Free, Fetch
<1> HIDE DEF f
<1>6. FetchOK(f, made)
  BY <1>1, <1>2, <1>3 DEF FetchOK
<1> QED
  BY <1>6 DEF f

LEMMA FetchesFollow ==
    ASSUME TypeInv, NEW r \in Request, NEW f, content' \in [Playlist -> Nat],
           FetchOK(f, content'), \A p \in Playlist : content[p] <= content'[p],
           flight' = [flight EXCEPT ![r] = f]
    PROVE  FetchesOK'
BY PutsFetch DEF FetchesOK

LEMMA Observed ==
    ASSUME TypeInv, Observe, sounding' \in BOOLEAN
    PROVE  astray' \in BOOLEAN /\ trouble' \in {"none", "overlap", "unanswered"}
BY DEF TypeInv, OthersOK, Observe

\* What a user does.
LEMMA UserTypes ==
    ASSUME TypeInv, Observe, NEW r \in Request, UserStep(r)
    PROVE  TypeInv'
<1> USE DEF UserStep, Load, Sends, Signed, Pause, screenVars, sequenceVars, panelVars, songVars, audioVars
<1>1. content' = content /\ content \in [Playlist -> Nat]
      /\ \A q \in Playlist : content[q] <= content[q]
  BY DEF TypeInv, OthersOK, Ends, PlayPause, Change, Create, Select, Press, PlaysNext
<1>2. FetchesOK'
  <2> {"change", "create", "select", "play"} \subseteq Kinds /\ "create" \notin Detail
      /\ "play" \notin Detail /\ token \in BOOLEAN
    BY DEF TypeInv, OthersOK, Kinds, Detail
  <2>1. CASE UNCHANGED flight
    BY <1>1, <2>1 DEF TypeInv, FetchesOK
  <2>2. CASE Change(r)
    <3>1. FetchOK(Signed("change", sel), content)
      BY <1>1, <2>2, SentIsOK DEF Change, TypeInv, OthersOK, Kinds, Detail
    <3> QED
      BY <1>1, <2>2, <3>1, FetchesFollow DEF Change
  <2>3. CASE Create(r)
    <3>1. FetchOK(Signed("create", None), content)
      BY <1>1, SentIsOK
    <3> QED
      BY <1>1, <2>3, <3>1, FetchesFollow DEF Create
  <2>4. ASSUME NEW p \in Playlist, Select(r, p) PROVE FetchesOK'
    <3>1. FetchOK(Signed("select", p), content)
      BY <1>1, <2>4, SentIsOK
    <3> QED
      BY <1>1, <2>4, <3>1, FetchesFollow DEF Select
  <2>5. ASSUME NEW s \in Song, Load(r, s) PROVE FetchesOK'
    <3>1. FetchOK(Signed("play", s), content)
      BY <1>1, <2>5, SentIsOK
    <3> QED
      BY <1>1, <2>5, <3>1, FetchesFollow
  <2> QED
    BY <2>1, <2>2, <2>3, <2>4, <2>5 DEF Ends, PlayPause, Press, PlaysNext
<1>3. OthersOK'
  <2>1. sounding' \in BOOLEAN
    BY DEF TypeInv, OthersOK, Ends, PlayPause, Change, Create, Select, Press, PlaysNext
  <2> QED
    BY <2>1, Observed DEF TypeInv, OthersOK, Ends, PlayPause, Change, Create, Select, Press, PlaysNext
<1> QED
  BY <1>2, <1>3 DEF TypeInv

\* What the server does about what the music screen asks.
LEMMA ServerTypes ==
    ASSUME TypeInv, Observe, NEW r \in Request, ServerStep(r)
    PROVE  TypeInv'
<1> USE DEF AnswerOk, screenVars, sequenceVars, panelVars, songVars, audioVars
<1>1. content' \in [Playlist -> Nat] /\ \A q \in Playlist : content[q] <= content'[q]
  <2>1. content' = content \/ \E p \in Playlist : content' = [content EXCEPT ![p] = @ + 1]
    BY DEF ServerStep, ServesLists, ServesDetail, ServesStream, Makes, Forbids
  <2> QED
    BY <2>1 DEF TypeInv, OthersOK
<1>2. FetchOK(flight[r], content) /\ flight[r] \in FetchType
  BY DEF TypeInv, FetchesOK, FetchOK
<1>3. FetchesOK'
  <2>1. CASE ServesLists(r)
    <3> DEFINE lists == {q \in Playlist : Exists(q)}
    <3>1. flight[r].status = "sent" /\ flight[r].signed /\ lists \in SUBSET Playlist
          /\ flight[r].kind \notin Detail \cup {"create"}
      BY <2>1 DEF ServesLists, Detail
    <3>2. flight' = [flight EXCEPT ![r] =
                      [flight[r] EXCEPT !.status = "ok", !.version = 0, !.lists = lists]]
      BY <2>1 DEF ServesLists
    <3> HIDE DEF lists
    <3>3. FetchOK([flight[r] EXCEPT !.status = "ok", !.version = 0, !.lists = lists], content')
      BY <1>1, <3>1, ServedIsOK
    <3> QED
      BY <1>1, <3>2, <3>3, FetchesFollow
  <2>2. CASE ServesDetail(r)
    <3>1. flight[r].status = "sent" /\ flight[r].signed /\ flight[r].kind # "create"
          /\ flight[r].kind \in Detail /\ content' = content
      BY <2>2 DEF ServesDetail, Detail
    <3>2. flight[r].on \in Playlist /\ content[flight[r].on] \in Nat
      BY <1>2, <3>1 DEF FetchOK, TypeInv, OthersOK
    <3>3. FetchOK([flight[r] EXCEPT !.status = "ok", !.version = content[flight[r].on], !.lists = {}],
                  content')
      BY <1>1, <3>1, <3>2, ServedIsOK
    <3> QED
      BY <1>1, <2>2, <3>3, FetchesFollow DEF ServesDetail
  <2>3. CASE ServesStream(r)
    <3>1. flight[r].status = "sent" /\ flight[r].signed /\ flight[r].kind # "create"
          /\ flight[r].kind \notin Detail
      BY <2>3 DEF ServesStream, Detail
    <3>2. FetchOK([flight[r] EXCEPT !.status = "ok", !.version = 0, !.lists = {}], content')
      BY <1>1, <3>1, ServedIsOK
    <3> QED
      BY <1>1, <2>3, <3>2, FetchesFollow DEF ServesStream
  <2>4. ASSUME NEW p \in Playlist, Makes(r, p) PROVE FetchesOK'
    <3>1. /\ flight[r].status = "sent" /\ flight[r].signed /\ content[p] + 1 \in Nat
          /\ content'[p] = content[p] + 1
          /\ flight[r].kind \in {"change", "create"}
          /\ flight[r].kind = "change" => flight[r].on = p
      BY <2>4 DEF Makes, TypeInv, OthersOK
    <3>2. CASE AnswerOk(r, content[p] + 1, {p})
      <4> DEFINE version == content[p] + 1
                 lists == {p}
      <4>1. version \in Nat /\ lists \in SUBSET Playlist /\ version <= content'[p] /\ lists = {p}
        BY <3>1
      <4>2. flight' = [flight EXCEPT ![r] =
                        [flight[r] EXCEPT !.status = "ok", !.version = version, !.lists = lists]]
        BY <3>2
      <4> HIDE DEF version, lists
      <4>3. FetchOK([flight[r] EXCEPT !.status = "ok", !.version = version, !.lists = lists], content')
        <5>1. flight[r].kind \in Detail => version <= content'[flight[r].on]
          BY <3>1, <4>1 DEF Detail
        <5>2. flight[r].kind = "create" => \E q \in Playlist : lists = {q}
          BY <4>1
        <5> QED
          BY <1>1, <3>1, <4>1, <5>1, <5>2, ServedIsOK
      <4> QED
        BY <1>1, <4>2, <4>3, FetchesFollow
    <3>3. CASE flight' = [flight EXCEPT ![r].status = "error"]
      <4>1. flight[r].kind \notin Account
        BY <3>1 DEF Account
      <4>2. FetchOK([flight[r] EXCEPT !.status = "error"], content')
            /\ flight' = [flight EXCEPT ![r] = [flight[r] EXCEPT !.status = "error"]]
        BY <1>1, <3>1, <3>3, <4>1, AnsweredIsOK
      <4> QED
        BY <1>1, <4>2, FetchesFollow
    <3> QED
      BY <2>4, <3>2, <3>3 DEF Makes
  <2>5. CASE Forbids(r)
    <3>1. /\ flight[r].kind \notin Account /\ flight[r].kind \in Detail \cup {"lists"}
          /\ flight[r].kind # "create" /\ flight[r].status = "sent" /\ flight[r].signed
          /\ flight' = [flight EXCEPT ![r].status = "403"]
      BY <2>5 DEF Forbids, Answer, Account, Detail
    <3>2. FetchOK([flight[r] EXCEPT !.status = "403"], content')
          /\ flight' = [flight EXCEPT ![r] = [flight[r] EXCEPT !.status = "403"]]
      BY <1>1, <3>1, AnsweredIsOK
    <3> QED
      BY <1>1, <3>2, FetchesFollow
  <2> QED
    BY <2>1, <2>2, <2>3, <2>4, <2>5 DEF ServerStep
<1>4. OthersOK'
  <2>1. sounding' \in BOOLEAN /\ sounding' = sounding /\ playing' = playing
    BY DEF TypeInv, OthersOK, ServerStep, ServesLists, ServesDetail, ServesStream, Makes, Forbids, Answer
  <2>2. detail' # None => detail'.list \in Playlist /\ detail'.version <= content'[detail'.list]
                          /\ detail'.version \in Nat
    <3>1. detail' = detail
      BY DEF ServerStep, ServesLists, ServesDetail, ServesStream, Makes, Forbids
    <3> QED
      BY <1>1, <3>1 DEF TypeInv, OthersOK
  <2> QED
    BY <1>1, <2>1, <2>2, Observed
      DEF TypeInv, OthersOK, ServerStep, ServesLists, ServesDetail, ServesStream, Makes, Forbids, Answer
<1> QED
  BY <1>3, <1>4 DEF TypeInv

\* What the music screen does with the answers.
LEMMA ReceiveTypes ==
    ASSUME TypeInv, Observe, NEW r \in Request, ReceiveStep(r)
    PROVE  TypeInv'
<1> USE DEF ReceiveStep, Finish, Become, Becomes, panelVars, songVars, audioVars
<1>1. content' = content /\ content \in [Playlist -> Nat]
      /\ \A q \in Playlist : content[q] <= content[q]
  BY DEF TypeInv, OthersOK, Discard, ReceiveChange, ReceiveSelect, ReceiveCreate, ReceiveLists,
         ReceiveOpen, ReceivePlay, ReceiveExpired, ReceiveForbidden, ReceiveError
<1>2. FetchOK(flight[r], content) /\ flight[r] \in FetchType /\ token \in BOOLEAN
  BY DEF TypeInv, FetchesOK, FetchOK, OthersOK
<1>3. FetchesOK'
  <2>1. CASE Finish(r)
    BY <1>1, <2>1, FreeIsOK, FetchesFollow
  <2>2. CASE ReceiveForbidden(r)
    <3>1. "me" \in Kinds /\ "me" \notin Detail /\ FetchOK(Signed("me", None), content)
      BY <1>1, <1>2, SentIsOK DEF Kinds, Asking, Detail, Signed
    <3> QED
      BY <1>1, <2>2, <3>1, FetchesFollow DEF ReceiveForbidden
  <2>3. ASSUME NEW p \in flight[r].lists, Become(r, Signed("select", p)) PROVE FetchesOK'
    <3>1. p \in Playlist /\ "select" \in Kinds
      BY <1>2 DEF FetchType, Kinds, Detail
    <3>2. FetchOK(Signed("select", p), content)
      BY <1>1, <1>2, <3>1, SentIsOK DEF Signed
    <3> QED
      BY <1>1, <2>3, <3>2, FetchesFollow
  <2>4. CASE ReceiveLists(r) /\ ~Finish(r)
    <3>1. sel' \in Playlist /\ "open" \in Kinds /\ flight' = [flight EXCEPT ![r] = Signed("open", sel')]
      BY <1>2, <2>4 DEF ReceiveLists, FetchType, Kinds, Detail
    <3>2. FetchOK(Signed("open", sel'), content)
      BY <1>1, <1>2, <3>1, SentIsOK DEF Signed
    <3> QED
      BY <1>1, <3>1, <3>2, FetchesFollow
  <2> QED
    BY <2>1, <2>2, <2>3, <2>4
      DEF Discard, ReceiveChange, ReceiveSelect, ReceiveCreate, ReceiveLists,
          ReceiveOpen, ReceivePlay, ReceiveExpired, ReceiveError
<1>4. OthersOK'
  <2> USE DEF Stop, Pause, ShowDetail
  <2>1. sounding' \in BOOLEAN /\ playing' \in BOOLEAN
    BY DEF TypeInv, OthersOK, Discard, ReceiveChange, ReceiveSelect, ReceiveCreate, ReceiveLists,
           ReceiveOpen, ReceivePlay, ReceiveExpired, ReceiveForbidden, ReceiveError
  <2>2. sel' \in Playlist \cup {None} /\
        (detail' # None => detail'.list \in Playlist /\ detail'.version <= content'[detail'.list]
                           /\ detail'.version \in Nat)
    BY <1>1, <1>2
      DEF TypeInv, OthersOK, Discard, ReceiveChange, ReceiveSelect, ReceiveCreate, ReceiveLists,
          ReceiveOpen, ReceivePlay, ReceiveExpired, ReceiveForbidden, ReceiveError, FetchOK,
          FetchType, Detail
  <2>3. current' \in Song \cup {None} /\ src' \in Song \cup {None} /\ loaded' \in BOOLEAN
    BY <1>2
      DEF TypeInv, OthersOK, Discard, ReceiveChange, ReceiveSelect, ReceiveCreate, ReceiveLists,
          ReceiveOpen, ReceivePlay, ReceiveExpired, ReceiveForbidden, ReceiveError, FetchOK
  <2>4. latest' \in Request \cup {None} /\ latestPlay' \in Request \cup {None}
        /\ gate' \in BOOLEAN /\ token' \in BOOLEAN
        /\ view' \in {"loading", "auth", "gate", "app"}
    BY DEF TypeInv, OthersOK, Discard, ReceiveChange, ReceiveSelect, ReceiveCreate, ReceiveLists,
           ReceiveOpen, ReceivePlay, ReceiveExpired, ReceiveForbidden, ReceiveError
  <2> QED
    BY <1>1, <2>1, <2>2, <2>3, <2>4, Observed DEF OthersOK
<1> QED
  BY <1>3, <1>4 DEF TypeInv

\* What the rest of the tab does.
LEMMA AppTypes ==
    ASSUME TypeInv, Observe, UNCHANGED screenVars,
           BackToGate \/ ToggleGate \/ \E r \in Request : AppStep(r)
    PROVE  TypeInv'
<1> USE DEF screenVars, sequenceVars, panelVars, songVars, audioVars,
            Done, Becomes, Sends, Show, Pause, Route, handleSessionExpired
<1>1. content' = content /\ content \in [Playlist -> Nat] /\ token \in BOOLEAN
      /\ \A q \in Playlist : content[q] <= content[q]
  BY DEF TypeInv, OthersOK
<1>2. ASSUME NEW r \in Request, NEW kind \in Kinds, NEW signed \in BOOLEAN,
             kind \notin Detail \cup {"free", "play"},
             flight' = [flight EXCEPT ![r] = Fetch(kind, None, signed)]
      PROVE  FetchesOK'
  <2>1. FetchOK(Fetch(kind, None, signed), content)
    BY <1>1, <1>2, SentIsOK
  <2> QED
    BY <1>1, <1>2, <2>1, FetchesFollow
<1>3. ASSUME NEW r \in Request, flight' = [flight EXCEPT ![r] = Free]
      PROVE  FetchesOK'
  BY <1>1, <1>3, FreeIsOK, FetchesFollow
<1>4. ASSUME NEW r \in Request, flight[r].status = "sent",
             NEW status \in {"ok", "gated", "401", "error"},
             flight[r].kind \in Account => status \in {"ok", "error"},
             flight[r].kind \notin Asking => status # "gated",
             flight[r].kind \notin Account /\ status \in {"ok", "gated"} => flight[r].signed,
             flight[r].kind = "create" => status # "ok",
             flight' = [flight EXCEPT ![r].status = status]
      PROVE  FetchesOK'
  <2>1. FetchOK([flight[r] EXCEPT !.status = status], content)
        /\ flight' = [flight EXCEPT ![r] = [flight[r] EXCEPT !.status = status]]
    BY <1>1, <1>4, AnsweredIsOK
  <2> QED
    BY <1>1, <2>1, FetchesFollow
<1>5. FetchesOK'
  <2> {"login", "refresh", "logout", "first", "me", "update", "lists"}
      \subseteq Kinds \ (Detail \cup {"free", "play"})
    BY DEF Kinds, Account, Asking, Detail
  <2>1. CASE BackToGate \/ ToggleGate
    BY <1>1, <2>1 DEF BackToGate, ToggleGate, TypeInv, FetchesOK
  <2>2. ASSUME NEW r \in Request, Login(r) \/ Logout(r) \/ BackToApp(r) \/ Update(r)
        PROVE  FetchesOK'
    BY <1>1, <1>2, <2>2 DEF Login, Logout, BackToApp, Update, Signed
  <2>3. ASSUME NEW r \in Request, ServesAccount(r) PROVE FetchesOK'
    <3>1. CASE flight[r].kind \in Account /\ Answer(r, "ok")
      BY <1>4, <3>1 DEF Answer, Account
    <3>2. CASE flight[r].kind \in Asking /\ flight[r].signed /\ Answer(r, IF gate THEN "ok" ELSE "gated")
      <4>1. flight[r].kind \notin Account \cup {"create"}
        BY <3>2 DEF Asking, Account
      <4>2. CASE gate
        BY <1>4, <3>2, <4>1, <4>2 DEF Answer
      <4>3. CASE ~gate
        BY <1>4, <3>2, <4>1, <4>3 DEF Answer
      <4> QED
        BY <4>2, <4>3
    <3> QED
      BY <2>3, <3>1, <3>2 DEF ServesAccount, Account, Asking
  <2>4. ASSUME NEW r \in Request, ServesUpdate(r) PROVE FetchesOK'
    BY <1>4, <2>4 DEF ServesUpdate, Answer, Account, Asking
  <2>5. ASSUME NEW r \in Request, Refuses(r) PROVE FetchesOK'
    <3>1. CASE Answer(r, "error")
      BY <1>4, <3>1 DEF Answer
    <3>2. CASE flight[r].kind \notin Account /\ Answer(r, "401")
      BY <1>4, <3>2 DEF Answer
    <3> QED
      BY <2>5, <3>1, <3>2 DEF Refuses, Account
  <2>6. ASSUME NEW r \in Request,
               ReceiveLogin(r) \/ ReceiveFirst(r) \/ ReceiveRefresh(r)
                 \/ ReceiveMe(r) \/ ReceiveLogout(r) \/ ReceiveUpdate(r)
        PROVE  FetchesOK'
    BY <1>1, <1>2, <1>3, <2>6
      DEF ReceiveLogin, ReceiveFirst, ReceiveRefresh, ReceiveMe, ReceiveLogout, ReceiveUpdate, Signed
  <2> QED
    BY <2>1, <2>2, <2>3, <2>4, <2>5, <2>6 DEF AppStep, AppSends, AppServes, AppReceives
<1>6. OthersOK'
  <2>1. gate' \in BOOLEAN
    BY DEF TypeInv, OthersOK, AppStep, AppSends, AppServes, AppReceives, BackToGate, ToggleGate, Login, Logout, BackToApp, Update,
           ServesAccount, ServesUpdate, Refuses,
           ReceiveLogin, ReceiveFirst, ReceiveRefresh, ReceiveMe, ReceiveLogout, ReceiveUpdate
  <2>2. /\ token' \in BOOLEAN /\ sounding' \in BOOLEAN /\ playing' \in BOOLEAN
        /\ view' \in {"loading", "auth", "gate", "app"}
    <3> USE DEF TypeInv, OthersOK
    <3>1. CASE BackToGate \/ ToggleGate
      BY <3>1 DEF BackToGate, ToggleGate
    <3>2. ASSUME NEW r \in Request, Login(r) \/ Logout(r) \/ BackToApp(r) \/ Update(r)
          PROVE  token' = token /\ view' = view /\ UNCHANGED audioVars
      BY <3>2 DEF Login, Logout, BackToApp, Update
    <3>3. ASSUME NEW r \in Request, ServesAccount(r) \/ ServesUpdate(r) \/ Refuses(r)
          PROVE  token' = token /\ view' = view /\ UNCHANGED audioVars
      BY <3>3 DEF ServesAccount, ServesUpdate, Refuses, Answer
    <3>4. ASSUME NEW r \in Request, ReceiveLogin(r) \/ ReceiveUpdate(r)
          PROVE  token' \in BOOLEAN /\ view' = view /\ UNCHANGED audioVars
      BY <3>4 DEF ReceiveLogin, ReceiveUpdate
    <3>5. ASSUME NEW r \in Request, ReceiveFirst(r) \/ ReceiveMe(r)
          PROVE  /\ token' \in BOOLEAN /\ sounding' \in BOOLEAN /\ playing' \in BOOLEAN
                 /\ view' \in {"loading", "auth", "gate", "app"}
      BY <3>5 DEF ReceiveFirst, ReceiveMe
    <3>6. ASSUME NEW r \in Request, ReceiveRefresh(r) \/ ReceiveLogout(r)
          PROVE  /\ token' \in BOOLEAN /\ sounding' \in BOOLEAN /\ playing' \in BOOLEAN
                 /\ view' \in {"loading", "auth", "gate", "app"}
      BY <3>6 DEF ReceiveRefresh, ReceiveLogout
    <3> QED
      BY <3>1, <3>2, <3>3, <3>4, <3>5, <3>6 DEF AppStep, AppSends, AppServes, AppReceives
  <2> QED
    BY <2>1, <2>2, Observed DEF TypeInv, OthersOK
<1> QED
  BY <1>5, <1>6 DEF TypeInv

LEMMA TypesKept ==
    ASSUME TypeInv, Next
    PROVE  TypeInv'
BY Steps, UserTypes, ServerTypes, ReceiveTypes, AppTypes

----------------------------------------------------------------------------
(* What each group of actions does *)

LEMMA UserSteps ==
    ASSUME TypeInv, NEW r \in Request, UserStep(r)
    PROVE  /\ UNCHANGED <<gate, view, token, content, panelVars, src>>
           /\ Elsewhere(r)
           /\ \/ UNCHANGED flight
              \/ /\ flight[r] = Free /\ flight'[r].status = "sent" /\ flight'[r].signed = token
                 /\ flight'[r].kind \in {"change", "create", "select", "play"}
                 /\ flight'[r].kind # "play" => view = "app"
                 /\ flight'[r].kind = "change" => sel # None /\ flight'[r].on = sel /\ latest' = r
           /\ latest' # latest => latest' = r /\ flight[r] = Free /\ flight'[r].kind = "change"
           /\ latestPlay' # latestPlay =>
                /\ latestPlay' = r /\ flight[r] = Free /\ flight'[r].kind = "play"
                /\ flight'[r].on = current' /\ ~loaded'
           /\ current' # current \/ loaded' # loaded => latestPlay' = r
<1> USE DEF UserStep, Elsewhere, Sends, Signed, Fetch, Load, screenVars, sequenceVars, panelVars, songVars
<1>1. flight \in [Request -> FetchType]
  BY DEF TypeInv, FetchesOK
<1>2. CASE Ends \/ PlayPause
  BY <1>1, <1>2 DEF Ends, PlayPause
<1>3. CASE Change(r)
  BY <1>1, <1>3 DEF Change
<1>4. CASE Create(r)
  BY <1>1, <1>4 DEF Create
<1>5. CASE \E p \in Playlist : Select(r, p)
  BY <1>1, <1>5 DEF Select
<1>6. CASE \E s \in Song : Press(r, s) \/ PlaysNext(r, s)
  <2>1. PICK s \in Song : Load(r, s)
    BY <1>6 DEF Press, PlaysNext
  <2> QED
    BY <1>1, <2>1
<1> QED
  BY <1>2, <1>3, <1>4, <1>5, <1>6

LEMMA ServerSteps ==
    ASSUME TypeInv, NEW r \in Request, ServerStep(r)
    PROVE  /\ UNCHANGED <<gate, view, token, audioVars, sequenceVars, panelVars, songVars>>
           /\ IsAnswered(r)
           /\ flight[r].kind \in {"lists", "select", "open", "change", "create", "play"}
           /\ flight[r].signed
<1>1. flight \in [Request -> FetchType] /\ flight[r] \in FetchType
  BY DEF TypeInv, FetchesOK
<1> USE DEF ServerStep, Elsewhere, IsAnswered, Answer, AnswerOk, screenVars
<1>2. CASE ServesLists(r)
  BY <1>1, <1>2 DEF ServesLists, FetchType
<1>3. CASE ServesDetail(r)
  BY <1>1, <1>3 DEF ServesDetail, FetchType
<1>4. CASE ServesStream(r)
  BY <1>1, <1>4 DEF ServesStream, FetchType
<1>5. CASE Forbids(r)
  BY <1>1, <1>5 DEF Forbids, FetchType
<1>6. CASE \E p \in Playlist : Makes(r, p)
  <2>1. PICK p \in Playlist : Makes(r, p)
    BY <1>6
  <2>2. CASE AnswerOk(r, content[p] + 1, {p})
    BY <1>1, <2>1, <2>2 DEF Makes, FetchType
  <2>3. CASE flight' = [flight EXCEPT ![r].status = "error"]
    BY <1>1, <2>1, <2>3 DEF Makes, FetchType
  <2> QED
    BY <2>1, <2>2, <2>3 DEF Makes
<1> QED
  BY <1>2, <1>3, <1>4, <1>5, <1>6

LEMMA ReceiveSteps ==
    ASSUME TypeInv, NEW r \in Request, ReceiveStep(r)
    PROVE  /\ UNCHANGED <<gate, content>>
           /\ flight[r].status \in {"ok", "401", "403", "error"}
           /\ flight[r].kind \in Detail \cup {"lists", "create", "play"}
           /\ Elsewhere(r)
           /\ \/ flight'[r] = Free
              \/ /\ flight'[r].status = "sent" /\ flight'[r].signed = token
                 /\ flight'[r].kind \in {"select", "open", "me"}
           /\ latest' = IF latest = r THEN None ELSE latest
           /\ latestPlay' = IF latestPlay = r THEN None ELSE latestPlay
<1>1. flight \in [Request -> FetchType] /\ flight[r] \in FetchType /\ FetchOK(flight[r], content)
  BY DEF TypeInv, FetchesOK
<1> USE DEF ReceiveStep, Elsewhere, Finish, Become, Becomes, Signed, Fetch, Detail
<1>2. CASE Discard(r)
  BY <1>1, <1>2 DEF Discard, Stale
<1>3. CASE ReceiveChange(r) \/ ReceiveSelect(r) \/ ReceiveOpen(r) \/ ReceivePlay(r)
  BY <1>1, <1>3 DEF ReceiveChange, ReceiveSelect, ReceiveOpen, ReceivePlay
<1>4. CASE ReceiveCreate(r)
  BY <1>1, <1>4 DEF ReceiveCreate
<1>5. CASE ReceiveLists(r)
  BY <1>1, <1>5 DEF ReceiveLists
<1>6. CASE ReceiveExpired(r) \/ ReceiveError(r)
  BY <1>1, <1>6 DEF ReceiveExpired, ReceiveError, Guarded
<1>7. CASE ReceiveForbidden(r)
  BY <1>1, <1>7 DEF ReceiveForbidden, FetchOK
<1> QED
  BY <1>2, <1>3, <1>4, <1>5, <1>6, <1>7

LEMMA AppSteps ==
    ASSUME TypeInv, NEW r \in Request
    PROVE  /\ AppSends(r) =>
                /\ UNCHANGED <<gate, view, token, audioVars>> /\ Elsewhere(r)
                /\ flight[r] = Free /\ flight'[r].status = "sent"
                /\ flight'[r].kind \in {"login", "logout", "me", "update"}
           /\ AppServes(r) => UNCHANGED <<view, token, audioVars>> /\ IsAnswered(r)
           /\ AppReceives(r) =>
                /\ gate' = gate /\ Elsewhere(r)
                /\ flight[r].kind \in Account \cup Asking \cup {"update"}
                /\ flight[r].status \in {"ok", "gated", "401", "error"}
                /\ \/ flight'[r] = Free
                   \/ flight'[r].kind \in {"first", "me"} /\ flight'[r].status = "sent"
                   \/ /\ flight'[r] = Fetch("lists", None, token)
                      /\ view' = "app" /\ token' = token /\ UNCHANGED audioVars
                      /\ flight[r].kind \in Asking
<1>1. flight \in [Request -> FetchType] /\ flight[r] \in FetchType
  BY DEF TypeInv, FetchesOK
<1>2. AppSends(r) => /\ UNCHANGED <<gate, view, token, audioVars>> /\ Elsewhere(r)
                     /\ flight[r] = Free /\ flight'[r].status = "sent"
                     /\ flight'[r].kind \in {"login", "logout", "me", "update"}
  BY <1>1 DEF AppSends, Login, Logout, BackToApp, Update, Sends, Elsewhere, Signed, Fetch
<1>3. AppServes(r) => UNCHANGED <<view, token, audioVars>> /\ IsAnswered(r)
  BY <1>1 DEF AppServes, ServesAccount, ServesUpdate, Refuses, Answer, IsAnswered, Elsewhere, FetchType
<1>4. AppReceives(r) =>
        /\ gate' = gate /\ Elsewhere(r)
        /\ flight[r].kind \in Account \cup Asking \cup {"update"}
        /\ flight[r].status \in {"ok", "gated", "401", "error"}
        /\ \/ flight'[r] = Free
           \/ flight'[r].kind \in {"first", "me"} /\ flight'[r].status = "sent"
           \/ /\ flight'[r] = Fetch("lists", None, token)
              /\ view' = "app" /\ token' = token /\ UNCHANGED audioVars
              /\ flight[r].kind \in Asking
  <2> USE DEF Account, Asking, Done, Becomes, Elsewhere, Signed
  <2>1. Fetch("first", None, TRUE).kind = "first" /\ Fetch("first", None, TRUE).status = "sent"
        /\ \A signed : Fetch("me", None, signed).kind = "me" /\ Fetch("me", None, signed).status = "sent"
    BY DEF Fetch
  <2>2. CASE ReceiveLogin(r) \/ ReceiveUpdate(r)
    BY <1>1, <2>1, <2>2 DEF ReceiveLogin, ReceiveUpdate
  <2>3. CASE ReceiveFirst(r) \/ ReceiveMe(r)
    BY <1>1, <2>1, <2>3 DEF ReceiveFirst, ReceiveMe, Route, Show
  <2>4. CASE ReceiveRefresh(r) \/ ReceiveLogout(r)
    BY <1>1, <2>1, <2>4 DEF ReceiveRefresh, ReceiveLogout
  <2> QED
    BY <2>2, <2>3, <2>4 DEF AppReceives
<1> QED
  BY <1>2, <1>3, <1>4

----------------------------------------------------------------------------
(* The tab waits for what tells where to go *)

LEMMA WaitKept ==
    ASSUME TypeInv, WaitInv, Next
    PROVE  WaitInv'
<1> DEFINE Waits(q) == flight[q].kind \in {"refresh", "me"}
<1> SUFFICES ASSUME view' = "loading" PROVE \E q \in Request : Waits(q)'
  BY DEF WaitInv
<1>1. view = "loading" => \E q \in Request : Waits(q)
  BY DEF WaitInv
<1>2. \A q \in Request : Waits(q) => flight[q] # Free
  BY DEF Free, Fetch
<1>3. ASSUME NEW r \in Request, UserStep(r) PROVE \E q \in Request : Waits(q)'
  BY <1>1, <1>2, <1>3, UserSteps DEF Elsewhere
<1>4. ASSUME NEW r \in Request, ServerStep(r) PROVE \E q \in Request : Waits(q)'
  BY <1>1, <1>4, ServerSteps DEF Elsewhere, IsAnswered
<1>5. ASSUME NEW r \in Request, ReceiveStep(r) PROVE \E q \in Request : Waits(q)'
  <2>1. view' = view
    BY <1>5 DEF ReceiveStep, Discard, ReceiveChange, ReceiveSelect, ReceiveCreate, ReceiveLists,
                ReceiveOpen, ReceivePlay, ReceiveExpired, ReceiveForbidden, ReceiveError
  <2> QED
    BY <1>1, <1>5, <2>1, ReceiveSteps DEF Elsewhere, Detail
<1>6. ASSUME NEW r \in Request, AppSends(r) \/ AppServes(r) PROVE \E q \in Request : Waits(q)'
  BY <1>1, <1>2, <1>6, AppSteps DEF Elsewhere, IsAnswered
<1>7. ASSUME NEW r \in Request, AppReceives(r) PROVE \E q \in Request : Waits(q)'
  <2>1. flight \in [Request -> FetchType]
    BY DEF TypeInv, FetchesOK
  <2>2. view' = view /\ (Waits(r) => Waits(r)')
    BY <1>7, <2>1
      DEF AppReceives, ReceiveLogin, ReceiveFirst, ReceiveRefresh, ReceiveMe, ReceiveLogout,
          ReceiveUpdate, Route, Show, handleSessionExpired, Becomes, Signed, Fetch
  <2> QED
    BY <1>1, <1>7, <2>2, AppSteps DEF Elsewhere
<1>8. CASE BackToGate \/ ToggleGate
  BY <1>1, <1>8 DEF BackToGate, ToggleGate, Show
<1> QED
  BY <1>3, <1>4, <1>5, <1>6, <1>7, <1>8, Steps DEF AppStep

----------------------------------------------------------------------------
(* What was not answered *)

LEMMA TroubleKept ==
    ASSUME TypeInv, TroubleInv, Next
    PROVE  TroubleInv'
BY DEF Next, Observe, TroubleInv

----------------------------------------------------------------------------
(* The panel and the last change *)

\* The panel shows a change only when the answer of the change that has the last number
\* is there.
LEMMA ChangeIsShown ==
    ASSUME TypeInv, Next, detail' \notin {None, detail}, detail'.from = "change"
    PROVE  /\ latest \in Request /\ flight[latest].status = "ok"
           /\ detail'.list = flight[latest].on /\ detail'.version = flight[latest].version
<1>1. PICK r \in Request : ReceiveStep(r)
  <2>1. ASSUME NEW r \in Request, UserStep(r) \/ ServerStep(r) PROVE detail' = detail
    BY <2>1, UserSteps, ServerSteps DEF panelVars
  <2> QED
    BY <2>1, Steps DEF screenVars, panelVars
<1>2. ReceiveChange(r)
  BY <1>1 DEF ReceiveStep, panelVars, ShowDetail, Discard, ReceiveSelect, ReceiveCreate, ReceiveLists,
              ReceiveOpen, ReceivePlay, ReceiveExpired, ReceiveForbidden, ReceiveError
<1> QED
  BY <1>2 DEF ReceiveChange, ShowDetail, Stale

LEMMA LatestKept ==
    ASSUME TypeInv, LatestInv, Next
    PROVE  LatestInv'
<1> SUFFICES ASSUME latest' # None
             PROVE  /\ flight'[latest'].kind = "change"
                    /\ /\ flight'[latest'].status = "ok"
                       /\ detail' # None
                       /\ detail'.from = "change" /\ detail'.list = flight'[latest'].on
                       => detail'.version <= flight'[latest'].version
  BY DEF LatestInv
<1>1. TypeInv'
  BY TypesKept
<1>2. latest \in Request \cup {None} /\ latest' \in Request /\ None \notin Request
  BY <1>1, ScreenAssumption DEF TypeInv, OthersOK
<1>3. flight[latest'] # Free \/ flight[latest'].kind # "change"
  BY DEF Free, Fetch
<1>4. ASSUME latest' = latest, flight'[latest] = flight[latest], detail' = detail PROVE LatestInv'
  BY <1>4 DEF LatestInv
<1>5. ASSUME NEW r \in Request, UserStep(r) PROVE LatestInv'
  <2>1. CASE latest' = latest
    <3>1. flight[latest].kind = "change" /\ flight[latest] # Free
      BY <2>1 DEF LatestInv, Free, Fetch
    <3>2. flight'[latest] = flight[latest]
      BY <1>2, <1>5, <2>1, <3>1, UserSteps DEF Elsewhere
    <3> QED
      BY <1>4, <1>5, <2>1, <3>2, UserSteps DEF panelVars
  <2>2. CASE latest' # latest
    BY <1>5, <2>2, UserSteps DEF LatestInv, Free, Fetch
  <2> QED
    BY <2>1, <2>2
<1>6. ASSUME NEW r \in Request, ServerStep(r) PROVE LatestInv'
  <2>1. latest' = latest /\ detail' = detail /\ IsAnswered(r)
    BY <1>6, ServerSteps DEF sequenceVars, panelVars
  <2>2. CASE latest # r
    BY <1>2, <1>4, <2>1, <2>2 DEF IsAnswered, Elsewhere
  <2>3. CASE latest = r /\ flight'[r].status = "ok"
    <3>1. flight[r].kind = "change"
      BY <1>2, <2>1, <2>3 DEF LatestInv
    <3>2. flight \in [Request -> FetchType] /\ flight[r] \in FetchType
      BY DEF TypeInv, FetchesOK
    <3>3. PICK p \in Playlist : Makes(r, p)
      BY <1>6, <2>3, <3>1, <3>2
        DEF ServerStep, ServesLists, ServesDetail, ServesStream, Forbids, Answer, FetchType
    <3>4. flight'[r].version = content[p] + 1 /\ flight[r].on = p
      BY <2>3, <3>1, <3>2, <3>3 DEF Makes, AnswerOk, FetchType
    <3>5. detail # None => detail.version \in Nat /\ detail.version <= content[detail.list]
                           /\ content[p] \in Nat
      BY DEF TypeInv, OthersOK
    <3> QED
      BY <2>1, <2>3, <3>1, <3>4, <3>5 DEF IsAnswered, LatestInv
  <2>4. CASE latest = r /\ flight'[r].status # "ok"
    BY <1>2, <2>1, <2>4 DEF IsAnswered, LatestInv
  <2> QED
    BY <2>2, <2>3, <2>4
<1>7. ASSUME NEW r \in Request, ReceiveStep(r) PROVE LatestInv'
  <2>1. latest' = latest /\ latest # r /\ flight'[latest] = flight[latest]
    BY <1>2, <1>7, ReceiveSteps DEF Elsewhere
  <2>2. detail' # None /\ detail'.from = "change" => detail' = detail
    BY <1>7, <2>1
      DEF ReceiveStep, panelVars, ShowDetail, Discard, ReceiveChange, ReceiveSelect, ReceiveCreate,
          ReceiveLists, ReceiveOpen, ReceivePlay, ReceiveExpired, ReceiveForbidden, ReceiveError, Stale
  <2> QED
    BY <2>1, <2>2 DEF LatestInv
<1>8. ASSUME NEW r \in Request, AppStep(r), UNCHANGED screenVars PROVE LatestInv'
  <2>1. latest' = latest /\ detail' = detail /\ flight[latest].kind = "change"
    BY <1>8 DEF screenVars, sequenceVars, panelVars, LatestInv
  <2>2. flight'[latest] = flight[latest] \/ (AppServes(r) /\ latest = r)
    BY <1>2, <1>8, <2>1, AppSteps
      DEF AppStep, Elsewhere, IsAnswered, Free, Fetch, Account, Asking
  <2>3. CASE AppServes(r) /\ latest = r
    <3>1. flight'[r].status # "ok" /\ flight'[r].kind = "change"
      BY <2>1, <2>3 DEF TypeInv, FetchesOK, FetchType, AppServes, ServesAccount, ServesUpdate, Refuses, Answer
    <3> QED
      BY <2>1, <2>3, <3>1 DEF LatestInv
  <2> QED
    BY <1>4, <2>1, <2>2, <2>3
<1>9. CASE UNCHANGED screenVars /\ (BackToGate \/ ToggleGate)
  <2>1. flight' = flight /\ latest' = latest /\ detail' = detail
    BY <1>9 DEF BackToGate, ToggleGate, screenVars, sequenceVars, panelVars
  <2>2. LatestInv'
    BY <1>4, <2>1
  <2> QED
    BY <2>2 DEF LatestInv
<1> QED
  BY <1>5, <1>6, <1>7, <1>8, <1>9, Steps DEF LatestInv

----------------------------------------------------------------------------
(* The bar of the player *)

LEMMA PausedOrNot ==
    ASSUME BarInv, UNCHANGED audioVars \/ Pause
    PROVE  (playing' => sounding') /\ (playing = sounding => playing' = sounding')
<1>1. playing => sounding
  BY DEF BarInv, BarIsRight
<1>2. CASE UNCHANGED audioVars
  <2>1. sounding' = sounding /\ playing' = playing
    BY <1>2 DEF audioVars
  <2> QED
    BY <1>1, <2>1, Zenon
<1>3. CASE Pause
  BY <1>3, Zenon DEF Pause
<1> QED
  BY <1>2, <1>3

LEMMA BarKept ==
    ASSUME TypeInv, BarInv, Next
    PROVE  BarInv'
<1> DEFINE Last(q) == /\ flight[q].kind = "play"
                      /\ current # None => flight[q].on = current
                      /\ ~loaded
<1>1. flight \in [Request -> FetchType] /\ sounding \in BOOLEAN /\ playing \in BOOLEAN
      /\ loaded \in BOOLEAN
  BY DEF TypeInv, FetchesOK, OthersOK
<1>2. latestPlay \in Request \cup {None} /\ None \notin Request
      /\ (latestPlay # None => Last(latestPlay))
  BY ScreenAssumption DEF TypeInv, OthersOK, BarInv
<1>3. BarIsRight
  BY DEF BarInv
<1>4. ASSUME NEW r \in Request, UserStep(r) PROVE BarInv'
  <2>1. CASE Ends \/ PlayPause
    <3>1. UNCHANGED <<songVars, latestPlay, flight>>
      BY <2>1 DEF Ends, PlayPause, screenVars, sequenceVars
    <3>2. playing' = sounding'
      <4>1. Pause \/ (sounding' = TRUE /\ playing' = TRUE)
        BY <2>1 DEF Ends, PlayPause
      <4>2. CASE Pause
        BY <4>2, Zenon DEF Pause
      <4>3. CASE sounding' = TRUE /\ playing' = TRUE
        BY <4>3, Zenon
      <4> QED
        BY <4>1, <4>2, <4>3
    <3> QED
      BY <1>1, <1>2, <1>3, <3>1, <3>2 DEF songVars, BarInv, BarIsRight
  <2>2. CASE \E s \in Song : Press(r, s) \/ PlaysNext(r, s)
    <3>1. PICK s \in Song : Load(r, s) /\ (Pause \/ UNCHANGED audioVars)
      BY <2>2 DEF Press, PlaysNext
    <3>2. latestPlay' = r /\ flight'[r].kind = "play" /\ flight'[r].on = s /\ current' = s /\ ~loaded'
      BY <1>1, <3>1 DEF Load, Sends, Signed, Fetch
    <3>3. playing' => sounding'
      BY <3>1, PausedOrNot
    <3> QED
      BY <3>2, <3>3 DEF BarInv, BarIsRight
  <2>3. CASE Change(r) \/ Create(r) \/ \E p \in Playlist : Select(r, p)
    <3>1. UNCHANGED <<audioVars, songVars, latestPlay>>
      BY <2>3 DEF Change, Create, Select, screenVars, sequenceVars
    <3>2. latestPlay # None => flight'[latestPlay] = flight[latestPlay]
      BY <1>2, <1>4, UserSteps DEF Elsewhere, Free, Fetch
    <3> QED
      BY <1>2, <1>3, <3>1, <3>2 DEF audioVars, songVars, BarInv, BarIsRight
  <2> QED
    BY <1>4, <2>1, <2>2, <2>3 DEF UserStep
<1>5. ASSUME NEW r \in Request, ServerStep(r) PROVE BarInv'
  BY <1>2, <1>3, <1>5, ServerSteps
    DEF IsAnswered, Elsewhere, audioVars, songVars, sequenceVars, BarInv, BarIsRight
<1>6. ASSUME NEW r \in Request, ReceiveStep(r) PROVE BarInv'
  <2>1. latestPlay' = IF latestPlay = r THEN None ELSE latestPlay
    BY <1>6, ReceiveSteps
  <2>2. latestPlay' # None => flight'[latestPlay'] = flight[latestPlay'] /\ latestPlay' = latestPlay
    BY <1>2, <1>6, <2>1, ReceiveSteps DEF Elsewhere
  <2>3. CASE UNCHANGED <<audioVars, songVars>>
    BY <1>2, <1>3, <2>2, <2>3 DEF audioVars, songVars, BarInv, BarIsRight
  <2>4. CASE ReceivePlay(r)
    <3>1. latestPlay = r
      BY <2>4 DEF ReceivePlay, Stale
    <3>2. latestPlay' = None
      BY <2>1, <3>1
    <3>3. current # None => flight[r].on = current
      BY <1>2, <3>1
    <3> QED
      BY <2>4, <3>2, <3>3 DEF ReceivePlay, panelVars, BarInv, BarIsRight
  <2>5. CASE ReceiveExpired(r)
    BY <1>2, <2>2, <2>5 DEF ReceiveExpired, Stop, Pause, BarInv, BarIsRight
  <2>6. CASE ReceiveError(r)
    <3>1. flight[r].kind = "play" => latestPlay = r
      BY <2>6 DEF ReceiveError, Stale
    <3>2. flight[r].kind = "play" => ~loaded
      BY <1>2, <3>1
    <3> QED
      BY <1>1, <1>2, <1>3, <2>2, <2>6, <3>2 DEF ReceiveError, songVars, BarInv, BarIsRight
  <2> QED
    BY <1>6, <2>3, <2>4, <2>5, <2>6
      DEF ReceiveStep, Discard, ReceiveChange, ReceiveSelect, ReceiveCreate, ReceiveLists,
          ReceiveOpen, ReceiveForbidden
<1>7. ASSUME NEW r \in Request, AppStep(r), UNCHANGED screenVars PROVE BarInv'
  <2>1. UNCHANGED <<songVars, latestPlay>>
    BY <1>7 DEF screenVars, sequenceVars
  <2>2. latestPlay # None => /\ flight'[latestPlay].kind = flight[latestPlay].kind
                             /\ flight'[latestPlay].on = flight[latestPlay].on
    BY <1>2, <1>7, AppSteps DEF AppStep, Elsewhere, IsAnswered, Free, Fetch, Account, Asking
  <2>3. UNCHANGED audioVars \/ Pause
    BY <1>7, AppSteps
      DEF AppStep, AppReceives, ReceiveLogin, ReceiveFirst, ReceiveRefresh, ReceiveMe, ReceiveLogout,
          ReceiveUpdate, Route, Show, handleSessionExpired
  <2> QED
    <3>1. (playing' => sounding') /\ (playing = sounding => playing' = sounding')
      BY <2>3, PausedOrNot
    <3> QED
      BY <1>1, <1>2, <1>3, <2>1, <2>2, <3>1 DEF songVars, BarInv, BarIsRight
<1>8. CASE UNCHANGED screenVars /\ (BackToGate \/ ToggleGate)
  <2>1. UNCHANGED <<songVars, latestPlay, flight>>
    BY <1>8 DEF BackToGate, ToggleGate, screenVars, sequenceVars
  <2>2. UNCHANGED audioVars \/ Pause
    BY <1>8 DEF BackToGate, ToggleGate, Show
  <2>3. (playing' => sounding') /\ (playing = sounding => playing' = sounding')
    BY <2>2, PausedOrNot
  <2> QED
    BY <1>1, <1>2, <1>3, <2>1, <2>3 DEF songVars, BarInv, BarIsRight
<1> QED
  BY <1>4, <1>5, <1>6, <1>7, <1>8, Steps

----------------------------------------------------------------------------
(* The music and the other screens *)

\* Whoever leaves the music screen leaves silence.
LEMMA LeavesSilence ==
    ASSUME TypeInv, Next, view = "app", view' # "app"
    PROVE  ~sounding'
<1>1. ASSUME NEW r \in Request, ReceiveStep(r) PROVE Pause
  BY <1>1 DEF ReceiveStep, Discard, ReceiveChange, ReceiveSelect, ReceiveCreate, ReceiveLists,
              ReceiveOpen, ReceivePlay, ReceiveExpired, ReceiveForbidden, ReceiveError, Stop
<1>2. ASSUME NEW r \in Request, AppReceives(r) PROVE Pause
  BY <1>2 DEF AppReceives, ReceiveLogin, ReceiveFirst, ReceiveRefresh, ReceiveMe, ReceiveLogout,
              ReceiveUpdate, Route, Show, handleSessionExpired
<1>3. CASE BackToGate \/ ToggleGate
  BY <1>3 DEF BackToGate, ToggleGate, Show, Pause
<1>4. ASSUME NEW r \in Request, UserStep(r) \/ ServerStep(r) \/ AppSends(r) \/ AppServes(r)
      PROVE  FALSE
  BY <1>4, UserSteps, ServerSteps, AppSteps
<1> QED
  BY <1>1, <1>2, <1>3, <1>4, Steps DEF AppStep, Pause

LEMMA MusicKept ==
    ASSUME TypeInv, MusicStaysOnItsScreen, Next
    PROVE  MusicStaysOnItsScreen'
<1> SUFFICES ASSUME sounding', view' # "app" PROVE astray'
  BY DEF MusicStaysOnItsScreen
<1>1. astray' = (sounding' /\ IF sounding /\ src' = src THEN astray ELSE view' # "app")
  BY DEF Next, Observe
<1>2. view # "app"
  BY LeavesSilence
<1>3. sounding => astray
  BY <1>2 DEF MusicStaysOnItsScreen
<1> QED
  BY <1>1, <1>3

----------------------------------------------------------------------------
(* A tab that has lost its session *)

\* What the music screen asks for without a token.
LEMMA SignedOutKept ==
    ASSUME TypeInv, TroubleInv, SignedOutLeaves, Next
    PROVE  SignedOutLeaves'
<1> DEFINE Leaving(q) == flight[q].kind \in {"lists", "open"} /\ ~flight[q].signed
<1> SUFFICES ASSUME view' = "app", ~token', trouble' # "unanswered"
             PROVE  \E q \in Request : Leaving(q)'
  BY DEF SignedOutLeaves
<1>1. trouble # "unanswered" /\ \A q \in Request : flight[q].status # "error" /\ flight'[q].status # "error"
  BY DEF Next, Observe, TroubleInv
<1>2. view = "app" /\ ~token => \E q \in Request : Leaving(q)
  BY <1>1 DEF SignedOutLeaves
<1>3. \A q \in Request :
        /\ Leaving(q) => flight[q] # Free /\ flight[q].status \in {"sent", "401"}
        /\ flight[q].kind \in {"lists", "open"} => flight[q].kind \in Guarded \ {"play"}
  BY <1>1 DEF TypeInv, FetchesOK, FetchOK, FetchType, Account, Asking, Detail, Free, Fetch, Guarded
<1>4. ASSUME NEW r \in Request, UserStep(r) PROVE \E q \in Request : Leaving(q)'
  BY <1>2, <1>3, <1>4, UserSteps DEF Elsewhere
<1>5. ASSUME NEW r \in Request, ServerStep(r) PROVE \E q \in Request : Leaving(q)'
  BY <1>2, <1>3, <1>5, ServerSteps DEF Elsewhere, IsAnswered
<1>6. ASSUME NEW r \in Request, ReceiveStep(r) PROVE \E q \in Request : Leaving(q)'
  <2>1. view' = view /\ token' = token /\ ~ReceiveExpired(r)
    BY <1>6 DEF ReceiveStep, Discard, ReceiveChange, ReceiveSelect, ReceiveCreate, ReceiveLists,
                ReceiveOpen, ReceivePlay, ReceiveExpired, ReceiveForbidden, ReceiveError
  <2>2. PICK q \in Request : Leaving(q)
    BY <1>2, <2>1
  <2>3. q # r
    <3>1. SUFFICES ASSUME q = r PROVE FALSE
      OBVIOUS
    <3>2. flight[r].kind \in {"lists", "open"} /\ flight[r].status = "401"
      BY <1>3, <1>6, <2>2, <3>1, ReceiveSteps
    <3> QED
      BY <1>6, <2>1, <3>2
        DEF ReceiveStep, Discard, ReceiveChange, ReceiveSelect, ReceiveCreate, ReceiveLists,
            ReceiveOpen, ReceivePlay, ReceiveForbidden, ReceiveError, Stale
  <2> QED
    BY <1>6, <2>2, <2>3, ReceiveSteps DEF Elsewhere
<1>7. ASSUME NEW r \in Request, AppStep(r) PROVE \E q \in Request : Leaving(q)'
  <2>1. CASE AppSends(r) \/ AppServes(r)
    BY <1>2, <1>3, <2>1, AppSteps DEF Elsewhere, IsAnswered
  <2>2. CASE AppReceives(r)
    <3>1. CASE flight'[r] = Fetch("lists", None, token)
      <4>1. flight'[r].kind = "lists" /\ flight'[r].signed = token /\ Free.kind = "free"
        BY <3>1 DEF Fetch, Free
      <4>2. token' = token
        BY <2>2, <4>1, AppSteps
      <4> QED
        BY <4>1, <4>2
    <3>2. CASE flight'[r] # Fetch("lists", None, token)
      <4>1. flight \in [Request -> FetchType]
        BY DEF TypeInv, FetchesOK
      <4>2. view' = view /\ token' = token
        BY <2>2, <3>2, <4>1
          DEF AppReceives, ReceiveLogin, ReceiveFirst, ReceiveRefresh, ReceiveMe, ReceiveLogout,
              ReceiveUpdate, Route, Show, handleSessionExpired, Becomes
      <4> QED
        BY <1>2, <2>2, <4>2, AppSteps DEF Elsewhere, Account, Asking
    <3> QED
      BY <3>1, <3>2
  <2> QED
    BY <1>7, <2>1, <2>2 DEF AppStep
<1>8. CASE BackToGate \/ ToggleGate
  BY <1>2, <1>8 DEF BackToGate, ToggleGate, Show
<1> QED
  BY <1>4, <1>5, <1>6, <1>7, <1>8, Steps

----------------------------------------------------------------------------
(* The panel *)

\* Where nothing was lost and nothing overlaps, nothing did before.
LEMMA NoTrouble ==
    ASSUME TypeInv, TroubleInv, Next, trouble' = "none"
    PROVE  /\ trouble = "none" /\ OnlyOne'
           /\ \A r \in Request : flight[r].status # "error" /\ flight'[r].status # "error"
<1>1. trouble = "none" /\ \A r \in Request : flight'[r].status # "error"
  BY DEF Next, Observe, TypeInv, OthersOK
<1>2. \A r \in Request : flight[r].status # "error"
  BY <1>1 DEF TroubleInv
<1> DEFINE S == InPanel(flight')
<1>3. IsFiniteSet(S)
  BY ScreenAssumption, FS_Subset DEF InPanel
<1>4. ~(Cardinality(S) > 1)
  BY <1>1 DEF Next, Observe
<1>5. \A r, q \in S : r = q
  <2> SUFFICES ASSUME NEW r \in S, NEW q \in S, r # q PROVE FALSE
    OBVIOUS
  <2> HIDE DEF S
  <2>1. Cardinality(S) \in Nat /\ Cardinality({}) = 0
    BY <1>3, FS_CardinalityType, FS_EmptySet
  <2>2. IsFiniteSet(S \ {r}) /\ Cardinality(S \ {r}) = Cardinality(S) - 1
    BY <1>3, FS_RemoveElement
  <2>3. Cardinality(S \ {r}) = 0
    BY <1>4, <2>1, <2>2, FS_CardinalityType
  <2>4. S \ {r} = {}
    BY <2>2, <2>3, FS_EmptySet
  <2> QED
    BY <2>4
<1> QED
  BY <1>1, <1>2, <1>5 DEF OnlyOne, InPanel

\* A step that fills nothing: what it leaves in the panel it has not answered.
LEMMA PanelStays ==
    ASSUME PanelRight, UNCHANGED <<content, sel, detail>>,
           \A q \in InPanel(flight') :
              /\ q \in InPanel(flight)
              /\ flight'[q].kind = flight[q].kind /\ flight'[q].on = flight[q].on
              /\ flight'[q].status = "ok" => flight'[q] = flight[q]
              /\ flight[q].kind = "change" => latest' = latest,
           Quiet' => Quiet
    PROVE  PanelRight'
<1>1. ASSUME NEW q \in InPanel(flight') PROVE Expected(q)'
  <2>1. Expected(q)
    BY <1>1 DEF PanelRight
  <2> QED
    BY <1>1, <2>1 DEF Expected, Exists
<1>2. Settled = Settled'
  BY DEF Settled, Exists
<1> QED
  BY <1>1, <1>2 DEF PanelRight

\* A step after which r is on its way to fill the panel.
LEMMA PanelWaits ==
    ASSUME OnlyOne', NEW r \in InPanel(flight'), Expected(r)', ~Unmade(r)'
    PROVE  PanelRight'
BY DEF OnlyOne, PanelRight, Quiet, InPanel

\* A step that fills it.
LEMMA PanelFills ==
    ASSUME TypeInv, NEW r \in InPanel(flight), OnlyOne, Elsewhere(r), flight'[r] = Free, Settled'
    PROVE  PanelRight'
<1>1. InPanel(flight') = {}
  BY DEF InPanel, OnlyOne, Elsewhere, Free, Fetch, Panel
<1> QED
  BY <1>1 DEF PanelRight

LEMMA UserPanel ==
    ASSUME TypeInv, PanelRight, OnlyOne', NEW r \in Request, UserStep(r)
    PROVE  PanelRight'
<1>1. /\ UNCHANGED <<content, sel, detail>> /\ view' = view /\ Elsewhere(r)
      /\ Free.kind \notin Panel /\ Free.kind # "me" /\ flight \in [Request -> FetchType]
  BY UserSteps DEF panelVars, Free, Fetch, Panel, TypeInv, FetchesOK
<1>2. CASE Ends \/ PlayPause \/ \E s \in Song : Press(r, s) \/ PlaysNext(r, s)
  <2>1. UNCHANGED flight \/ (flight[r] = Free /\ flight'[r].kind = "play")
    BY <1>1, <1>2 DEF Ends, PlayPause, Press, PlaysNext, Load, Sends, Signed, Fetch
  <2>2. latest' = latest
    BY <1>2 DEF Ends, PlayPause, Press, PlaysNext, Load, screenVars, sequenceVars
  <2>3. \A q \in InPanel(flight') : q \in InPanel(flight) /\ flight'[q] = flight[q]
    BY <1>1, <2>1 DEF InPanel, Elsewhere, Panel
  <2>4. \A q \in InPanel(flight) : q \in InPanel(flight') /\ flight'[q] = flight[q]
    BY <1>1, <2>1 DEF InPanel, Elsewhere, Panel
  <2>5. Quiet' => Quiet
    BY <1>1, <2>1, <2>4 DEF Quiet, Unmade, Elsewhere
  <2> QED
    BY <1>1, <2>2, <2>3, <2>5, PanelStays
<1>3. CASE Change(r)
  <2>1. /\ flight'[r].kind = "change" /\ flight'[r].on = sel /\ flight'[r].status = "sent"
        /\ latest' = r /\ sel' = sel
    BY <1>1, <1>3 DEF Change, Sends, Signed, Fetch
  <2> QED
    BY <2>1, PanelWaits DEF Expected, Unmade, InPanel, Panel, Detail
<1>4. CASE Create(r)
  <2>1. flight[r] = Free /\ flight'[r].kind = "create" /\ flight'[r].status = "sent"
    BY <1>1, <1>4 DEF Create, Sends, Signed, Fetch
  <2>2. InPanel(flight') = {r} /\ InPanel(flight) = {}
    BY <1>1, <2>1 DEF OnlyOne, InPanel, Elsewhere, Panel
  <2>3. Quiet' => Quiet
    BY <1>1, <2>1, <2>2 DEF Quiet, Elsewhere
  <2>4. Expected(r)'
    BY <2>1 DEF Expected, Detail
  <2>5. Settled' = Settled
    BY <1>1 DEF Settled, Exists
  <2> QED
    BY <2>2, <2>3, <2>4, <2>5 DEF PanelRight
<1>5. CASE \E p \in Playlist : Select(r, p)
  <2>1. flight'[r].kind = "select" /\ flight'[r].status = "sent"
    BY <1>1, <1>5 DEF Select, Sends, Signed, Fetch
  <2> QED
    BY <2>1, PanelWaits DEF Expected, Unmade, InPanel, Panel, Detail
<1> QED
  BY <1>2, <1>3, <1>4, <1>5 DEF UserStep

LEMMA ServerPanel ==
    ASSUME TypeInv, PanelRight, OnlyOne', NEW r \in Request, ServerStep(r),
           flight'[r].status # "error"
    PROVE  PanelRight'
<1>1. /\ UNCHANGED <<sel, detail, latest, view>> /\ IsAnswered(r)
      /\ flight[r].kind \in {"lists", "select", "open", "change", "create", "play"}
      /\ flight \in [Request -> FetchType] /\ flight[r] \in FetchType
  BY ServerSteps DEF panelVars, sequenceVars, TypeInv, FetchesOK
<1>2. flight[r].kind # "play" => r \in InPanel(flight) /\ r \in InPanel(flight') /\ Expected(r)
  BY <1>1 DEF InPanel, IsAnswered, Panel, PanelRight
<1>3. CASE ServesLists(r)
  <2>1. /\ flight[r].kind = "lists" /\ flight'[r].lists = {p \in Playlist : Exists(p)}
        /\ content' = content
    BY <1>1, <1>3 DEF ServesLists, AnswerOk, screenVars, FetchType
  <2> QED
    BY <1>1, <1>2, <2>1, PanelWaits DEF Expected, Exists, IsAnswered, Unmade, Detail
<1>4. CASE ServesDetail(r)
  <2>1. /\ flight[r].kind \in {"select", "open"} /\ flight'[r].version = content[flight[r].on]
        /\ content' = content
    BY <1>1, <1>4 DEF ServesDetail, AnswerOk, screenVars, FetchType
  <2> QED
    BY <1>1, <1>2, <2>1, PanelWaits DEF Expected, IsAnswered, Unmade, Detail
<1>5. CASE ServesStream(r)
  <2>1. flight[r].kind = "play" /\ content' = content
    BY <1>5 DEF ServesStream, screenVars
  <2>2. \A q \in InPanel(flight') : q \in InPanel(flight) /\ flight'[q] = flight[q]
    BY <1>1, <2>1 DEF InPanel, IsAnswered, Elsewhere, Panel
  <2>3. \A q \in InPanel(flight) : q \in InPanel(flight') /\ flight'[q] = flight[q]
    BY <1>1, <2>1 DEF InPanel, IsAnswered, Elsewhere, Panel
  <2>4. Quiet' => Quiet
    BY <1>1, <2>3 DEF Quiet, Unmade, IsAnswered, Elsewhere
  <2> QED
    BY <1>1, <2>1, <2>2, <2>4, PanelStays
<1>6. CASE Forbids(r)
  <2>1. /\ flight[r].kind \in {"lists", "select", "open", "change"} /\ flight'[r].status = "403"
        /\ content' = content
    BY <1>1, <1>6 DEF Forbids, Answer, screenVars, FetchType
  <2> QED
    BY <1>1, <1>2, <2>1, PanelWaits DEF Expected, IsAnswered, Unmade, Detail
<1>7. CASE \E p \in Playlist : Makes(r, p)
  <2>1. PICK p \in Playlist : Makes(r, p)
    BY <1>7
  <2>2. flight'[r].status = "ok" /\ flight'[r].version = content[p] + 1
    <3>1. flight' # [flight EXCEPT ![r].status = "error"]
      BY <1>1 DEF FetchType
    <3>2. AnswerOk(r, content[p] + 1, {p})
      BY <2>1, <3>1 DEF Makes
    <3> QED
      BY <1>1, <3>2 DEF AnswerOk, FetchType
  <2>3. /\ flight[r].kind \in {"change", "create"} /\ (flight[r].kind = "change" => flight[r].on = p)
        /\ content'[p] = content[p] + 1
    BY <2>1 DEF Makes, TypeInv, OthersOK
  <2> QED
    BY <1>1, <1>2, <2>2, <2>3, PanelWaits DEF Expected, IsAnswered, Unmade, Detail
<1> QED
  BY <1>3, <1>4, <1>5, <1>6, <1>7 DEF ServerStep

LEMMA ReceivePanel ==
    ASSUME TypeInv, LatestInv, OnlyOne, PanelRight, OnlyOne', NEW r \in Request, ReceiveStep(r),
           flight[r].status # "error"
    PROVE  PanelRight'
<1>1. /\ content' = content /\ Elsewhere(r) /\ FetchOK(flight[r], content)
      /\ flight[r].kind \in Detail \cup {"lists", "create", "play"}
      /\ latest' = IF latest = r THEN None ELSE latest
      /\ flight \in [Request -> FetchType] /\ flight[r] \in FetchType
      /\ None \notin Playlist /\ Free.kind \notin Panel \cup {"me"}
      /\ latest \in Request \cup {None} /\ None \notin Request
  BY ReceiveSteps, ScreenAssumption DEF TypeInv, FetchesOK, OthersOK, Free, Fetch, Panel
<1>2. flight[r].kind # "play" =>
        r \in InPanel(flight) /\ Expected(r) /\ \A q \in InPanel(flight) : q = r
  BY <1>1 DEF InPanel, Panel, Detail, PanelRight, OnlyOne
<1>3. latest = r => flight[r].kind = "change"
  BY <1>1 DEF LatestInv
<1>4. \A q \in InPanel(flight') \ {r} :
        /\ q \in InPanel(flight) /\ flight'[q] = flight[q]
        /\ flight[r].kind = "play" /\ latest' = latest
  BY <1>1, <1>2, <1>3 DEF InPanel, Elsewhere
<1>5. ASSUME flight[r].kind = "play", flight'[r] = Free, view' = view, UNCHANGED panelVars
      PROVE  PanelRight'
  <2>1. \A q \in InPanel(flight) : q \in InPanel(flight') /\ flight'[q] = flight[q]
    BY <1>1, <1>5 DEF InPanel, Elsewhere, Panel
  <2>2. r \notin InPanel(flight')
    BY <1>1, <1>5 DEF InPanel
  <2>3. Quiet' => Quiet
    BY <1>1, <1>5, <2>1 DEF Quiet, Unmade, Elsewhere
  <2> QED
    BY <1>1, <1>4, <1>5, <2>2, <2>3, PanelStays DEF panelVars
<1>6. CASE Discard(r)
  <2>1. flight[r].kind = "play"
    BY <1>2, <1>6 DEF Discard, Stale, Expected
  <2> QED
    BY <1>1, <1>5, <1>6, <2>1 DEF Discard, Finish, Become, Becomes
<1>7. ASSUME flight[r].kind \in Detail, flight[r].status = "ok", ShowDetail(r), Finish(r),
             sel' = flight[r].on
      PROVE  PanelRight'
  <2>1. flight[r].on \in Playlist /\ flight[r].version = content[flight[r].on]
        /\ flight[r].kind # "play"
    BY <1>1, <1>2, <1>7 DEF FetchOK, Expected, Detail
  <2>2. /\ detail' = [list |-> flight[r].on, version |-> flight[r].version, from |-> flight[r].kind]
        /\ detail'.list = flight[r].on /\ detail'.version = flight[r].version
    BY <1>7 DEF ShowDetail
  <2>3. detail' # None
    BY <1>1, <1>7, <2>1, <2>2, ScreenAssumption DEF Detail, FetchType
  <2>4. Settled'
    BY <1>1, <1>7, <2>1, <2>2, <2>3 DEF Settled
  <2> QED
    BY <1>1, <1>2, <1>7, <2>1, <2>4, PanelFills DEF Finish, Become, Becomes
<1>8. CASE ReceiveChange(r) \/ ReceiveOpen(r)
  <2>1. /\ flight[r].kind \in {"open", "change"} /\ flight[r].status = "ok"
        /\ ShowDetail(r) /\ Finish(r) /\ sel' = sel
    BY <1>8 DEF ReceiveChange, ReceiveOpen
  <2>2. flight[r].on = sel
    BY <1>2, <2>1 DEF Expected
  <2> QED
    BY <1>7, <2>1, <2>2 DEF Detail
<1>9. CASE ReceiveSelect(r)
  BY <1>7, <1>9 DEF ReceiveSelect, Detail
<1>10. CASE ReceiveCreate(r)
  <2>1. UNCHANGED <<sel, detail, view, content>> /\ flight[r].kind = "create"
    BY <1>10 DEF ReceiveCreate, panelVars
  <2>2. CASE flight[r].status = "ok"
    <3>1. flight'[r].kind = "select" /\ flight'[r].status = "sent"
      BY <1>1, <1>10, <2>2 DEF ReceiveCreate, Become, Becomes, Signed, Fetch
    <3> QED
      BY <3>1, PanelWaits DEF Expected, Unmade, InPanel, Panel, Detail
  <2>3. CASE flight[r].status = "401"
    <3>1. flight'[r] = Free
      BY <1>1, <1>10, <2>3 DEF ReceiveCreate, Finish, Become, Becomes
    <3>2. InPanel(flight') = {}
      BY <1>1, <1>4, <2>1, <3>1 DEF InPanel
    <3>3. Quiet' => Quiet
      BY <1>1, <1>2, <2>1, <2>3, <3>1 DEF Quiet, Unmade, Elsewhere
    <3> QED
      BY <2>1, <3>2, <3>3, PanelStays
  <2> QED
    BY <1>10, <2>2, <2>3 DEF ReceiveCreate
<1>11. CASE ReceiveLists(r)
  <2>1. /\ flight[r].kind = "lists" /\ flight[r].status = "ok"
        /\ flight[r].lists = {p \in Playlist : Exists(p)}
    BY <1>2, <1>11 DEF ReceiveLists, Expected
  <2>2. CASE flight[r].lists = {} /\ sel' = None /\ detail' = None /\ Finish(r)
    <3>1. Settled'
      BY <1>1, <2>1, <2>2 DEF Settled, Exists
    <3> QED
      BY <1>1, <1>2, <2>1, <2>2, <3>1, PanelFills DEF Finish, Become, Becomes
  <2>3. CASE Become(r, Signed("open", sel'))
    <3>1. flight'[r].kind = "open" /\ flight'[r].status = "sent" /\ flight'[r].on = sel'
      BY <1>1, <2>3 DEF Become, Becomes, Signed, Fetch
    <3> QED
      BY <3>1, PanelWaits DEF Expected, Unmade, InPanel, Panel, Detail
  <2> QED
    BY <1>11, <2>2, <2>3 DEF ReceiveLists
<1>12. CASE ReceivePlay(r)
  BY <1>1, <1>5, <1>12 DEF ReceivePlay, Finish, Become, Becomes
<1>13. CASE ReceiveExpired(r) \/ ReceiveForbidden(r)
  <2>1. /\ UNCHANGED panelVars
        /\ \/ view' = "auth" /\ flight'[r] = Free
           \/ flight'[r].kind = "me"
    BY <1>1, <1>13
      DEF ReceiveExpired, ReceiveForbidden, Finish, Become, Becomes, Signed, Fetch
  <2>2. ~Quiet' /\ r \notin InPanel(flight')
    BY <1>1, <2>1 DEF Quiet, InPanel, Panel
  <2> QED
    BY <1>1, <1>4, <2>1, <2>2, PanelStays DEF panelVars
<1> QED
  BY <1>6, <1>8, <1>9, <1>10, <1>11, <1>12, <1>13 DEF ReceiveStep, ReceiveError

LEMMA AppPanel ==
    ASSUME TypeInv, PanelRight, OnlyOne', NEW r \in Request, AppStep(r), UNCHANGED screenVars,
           flight'[r].status # "error"
    PROVE  PanelRight'
<1>1. /\ UNCHANGED <<content, sel, detail, latest>>
      /\ flight \in [Request -> FetchType] /\ flight[r] \in FetchType
      /\ Free.kind \notin Panel \cup {"me"}
  BY DEF TypeInv, FetchesOK, screenVars, sequenceVars, panelVars, Free, Fetch, Panel
<1>2. ASSUME Elsewhere(r), flight[r].kind \notin Panel, flight'[r].kind \notin Panel,
             Quiet' => view = "app" /\ flight[r].kind # "me"
      PROVE  PanelRight'
  <2>1. \A q \in InPanel(flight') : q \in InPanel(flight) /\ flight'[q] = flight[q]
    BY <1>2 DEF InPanel, Elsewhere
  <2>2. \A q \in InPanel(flight) : q \in InPanel(flight') /\ flight'[q] = flight[q]
    BY <1>2 DEF InPanel, Elsewhere
  <2>3. Quiet' => Quiet
    BY <1>2, <2>2 DEF Quiet, Unmade, Elsewhere
  <2> QED
    BY <1>1, <2>1, <2>3, PanelStays
<1>3. CASE AppSends(r)
  BY <1>1, <1>2, <1>3, AppSteps DEF Quiet, Panel
<1>4. CASE AppServes(r)
  <2>1. IsAnswered(r) /\ view' = view
    BY <1>4, AppSteps
  <2>2. r \in InPanel(flight) => flight'[r].status = "401"
    BY <1>1, <1>4
      DEF AppServes, ServesAccount, ServesUpdate, Refuses, Answer, InPanel, Panel, FetchType
  <2>3. \A q \in InPanel(flight') :
          /\ q \in InPanel(flight)
          /\ flight'[q].kind = flight[q].kind /\ flight'[q].on = flight[q].on
          /\ flight'[q].status = "ok" => flight'[q] = flight[q]
    BY <2>1, <2>2 DEF InPanel, IsAnswered, Elsewhere
  <2>4. Quiet' => Quiet
    BY <2>1, <2>2 DEF Quiet, Unmade, InPanel, IsAnswered, Elsewhere
  <2> QED
    BY <1>1, <2>3, <2>4, PanelStays
<1>5. CASE AppReceives(r)
  <2>1. Elsewhere(r) /\ flight[r].kind \notin Panel
    BY <1>5, AppSteps DEF Account, Asking, Panel
  <2>2. CASE flight'[r] = Fetch("lists", None, token)
    <3>1. flight'[r].kind = "lists" /\ flight'[r].status = "sent"
      BY <2>2 DEF Fetch
    <3> QED
      BY <3>1, PanelWaits DEF Expected, Unmade, InPanel, Panel, Detail
  <2>3. CASE flight'[r] # Fetch("lists", None, token)
    <3>1. flight'[r].kind \notin Panel /\ (view' # view => view' # "app")
          /\ (flight[r].kind = "me" => view' # "app" \/ flight'[r].kind = "me")
      BY <1>1, <1>5, <2>3
        DEF AppReceives, ReceiveLogin, ReceiveFirst, ReceiveRefresh, ReceiveMe, ReceiveLogout,
            ReceiveUpdate, Route, Show, handleSessionExpired, Done, Becomes, Signed, Fetch, Panel
    <3> QED
      BY <1>2, <2>1, <3>1 DEF Quiet
  <2> QED
    BY <2>2, <2>3
<1> QED
  BY <1>3, <1>4, <1>5 DEF AppStep

LEMMA PanelKept ==
    ASSUME TypeInv, TroubleInv, LatestInv, PanelInv, Next
    PROVE  PanelInv'
<1> SUFFICES ASSUME trouble' = "none" PROVE OnlyOne' /\ PanelRight'
  BY DEF PanelInv
<1>1. /\ OnlyOne' /\ OnlyOne /\ PanelRight
      /\ \A r \in Request : flight[r].status # "error" /\ flight'[r].status # "error"
  BY NoTrouble DEF PanelInv
<1>2. CASE UNCHANGED screenVars /\ (BackToGate \/ ToggleGate)
  <2>1. UNCHANGED <<content, sel, detail, latest, flight>>
    BY <1>2 DEF BackToGate, ToggleGate, screenVars, sequenceVars, panelVars
  <2>2. Quiet' => Quiet
    BY <1>2, <2>1 DEF Quiet, Unmade, BackToGate, ToggleGate, Show
  <2> QED
    BY <1>1, <2>1, <2>2, PanelStays
<1> QED
  BY <1>1, <1>2, UserPanel, ServerPanel, ReceivePanel, AppPanel, Steps

----------------------------------------------------------------------------
(* The invariant, and what follows from it *)

LEMMA Starts ==
    ASSUME Init
    PROVE  IInv
<1>1. PICK r0 \in Request :
        flight = [q \in Request |-> IF q = r0 THEN Fetch("refresh", None, FALSE) ELSE Free]
  BY DEF Init, AppInit
<1> DEFINE f == Fetch("refresh", None, FALSE)
<1>2. /\ view = "loading" /\ token = FALSE /\ sounding = FALSE /\ playing = FALSE
      /\ sel = None /\ detail = None /\ latest = None /\ latestPlay = None
      /\ current = None /\ src = None /\ loaded = FALSE /\ astray = FALSE /\ trouble = "none"
      /\ content \in [Playlist -> Nat] /\ gate \in BOOLEAN
  BY DEF Init, AppInit
<1>3. FetchOK(f, content) /\ FetchOK(Free, content)
  <2>1. "refresh" \in Kinds \ (Detail \cup {"free", "play"})
    BY DEF Kinds, Account, Detail
  <2>2. FetchOK(f, content)
    BY <1>2, <2>1, SentIsOK
  <2> QED
    BY <2>2, FreeIsOK
<1>4. /\ f.kind = "refresh" /\ f.status = "sent" /\ Free.kind = "free" /\ Free.status = "free"
      /\ f \in FetchType /\ Free \in FetchType
  BY <1>3 DEF FetchOK, Fetch, Free
<1> HIDE DEF f
<1>5. /\ flight \in [Request -> FetchType] /\ flight[r0] = f
      /\ \A q \in Request : flight[q] = f \/ flight[q] = Free
  BY <1>1, <1>4 DEF f
<1>6. TypeInv
  BY <1>2, <1>3, <1>5 DEF TypeInv, FetchesOK, OthersOK
<1>7. WaitInv /\ TroubleInv
  BY <1>4, <1>5 DEF WaitInv, TroubleInv
<1>8. LatestInv /\ BarInv /\ MusicStaysOnItsScreen /\ SignedOutLeaves
  BY <1>2 DEF LatestInv, BarInv, BarIsRight, MusicStaysOnItsScreen, SignedOutLeaves
<1>9. PanelInv
  <2>1. InPanel(flight) = {}
    BY <1>4, <1>5 DEF InPanel, Panel
  <2> QED
    BY <1>2, <2>1 DEF PanelInv, OnlyOne, PanelRight, Quiet
<1> QED
  BY <1>6, <1>7, <1>8, <1>9 DEF IInv

LEMMA Stutters ==
    ASSUME IInv, UNCHANGED vars
    PROVE  IInv'
<1>1. UNCHANGED <<gate, flight, view, token, audioVars, content, latest, latestPlay, sel, detail,
                  songVars, astray, trouble>>
  BY DEF vars, appVars, screenVars, sequenceVars, panelVars
<1>2. TypeInv' /\ WaitInv' /\ LatestInv' /\ TroubleInv' /\ MusicStaysOnItsScreen' /\ SignedOutLeaves'
  BY <1>1
    DEF IInv, TypeInv, FetchesOK, OthersOK, WaitInv, LatestInv, TroubleInv, MusicStaysOnItsScreen,
        SignedOutLeaves, audioVars, songVars
<1>3. BarInv'
  BY <1>1 DEF IInv, BarInv, BarIsRight, audioVars, songVars
<1>4. PanelInv'
  BY <1>1
    DEF IInv, PanelInv, OnlyOne, PanelRight, Expected, Quiet, Unmade, Settled, Exists, InPanel
<1> QED
  BY <1>2, <1>3, <1>4 DEF IInv

LEMMA Inductive ==
    ASSUME IInv, [Next]_vars
    PROVE  IInv'
<1>1. CASE Next
  BY <1>1, TypesKept, WaitKept, LatestKept, BarKept, TroubleKept, MusicKept, SignedOutKept, PanelKept
    DEF IInv
<1> QED
  BY <1>1, Stutters

\* Whatever the order in which the answers arrive, the tab is in order: each fetch in
\* flight is one the code sends, with what its continuation needs.
THEOREM ScreenInvariant == Spec => []IInv
<1>1. Init => IInv
  BY Starts
<1>2. IInv /\ [Next]_vars => IInv'
  BY Inductive
<1> QED
  BY <1>1, <1>2, PTL DEF Spec

\* The types: and a tab that is loading waits for the answer that tells where to go.
THEOREM TypeSafe == Spec => []TypeOK
<1>1. IInv => TypeOK
  <2> SUFFICES ASSUME IInv PROVE TypeOK
    OBVIOUS
  <2>1. TypeInv /\ WaitInv
    BY DEF IInv
  <2>2. ASSUME NEW r \in Request
        PROVE  /\ flight[r].status \in {"free", "sent", "ok", "gated", "401", "403", "error"}
               /\ flight[r].kind \in {"change", "select", "open"} =>
                    flight[r].on \in Playlist /\ flight[r].version <= content[flight[r].on]
               /\ flight[r].kind = "play" => flight[r].on \in Song
               /\ flight[r].lists \subseteq Playlist
    BY <2>1 DEF TypeInv, FetchesOK, FetchOK, FetchType, Detail
  <2> QED
    BY <2>1, <2>2 DEF TypeOK, TypeInv, OthersOK, WaitInv
<1> QED
  BY <1>1, ScreenInvariant, PTL

\* A user who waits for the answer before asking for more has before him the playlist he
\* has selected, as the server has it.
THEOREM PanelIsSafe == Spec => []PanelIsTrue
<1>1. IInv => PanelIsTrue
  BY DEF IInv, PanelInv, PanelRight, Quiet, Settled, PanelIsTrue
<1> QED
  BY <1>1, ScreenInvariant, PTL

\* The button never offers to pause what is paused, and the song that sounds is the one
\* pressed last, once it has loaded.
THEOREM BarIsSafe == Spec => []BarIsRight
<1>1. IInv => BarIsRight
  BY DEF IInv, BarInv
<1> QED
  BY <1>1, ScreenInvariant, PTL

\* No music is taken to another screen.
THEOREM MusicIsSafe == Spec => []MusicStaysOnItsScreen
<1>1. IInv => MusicStaysOnItsScreen
  BY DEF IInv
<1> QED
  BY <1>1, ScreenInvariant, PTL

\* A tab without a session is on its way out of the music screen.
THEOREM SignedOutSafe == Spec => []SignedOutLeaves
<1>1. IInv => SignedOutLeaves
  BY DEF IInv
<1> QED
  BY <1>1, ScreenInvariant, PTL

\* The answers of changes that the panel shows one after the other never go back.
THEOREM AnswersAdvance == Spec => ShownAnswersAdvance
<1>1. ASSUME IInv, [Next]_vars
      PROVE  [/\ detail # None /\ detail' \notin {None, detail}
              /\ detail.from = "change" /\ detail'.from = "change"
              /\ detail.list = detail'.list
              => detail.version <= detail'.version]_vars
  <2> SUFFICES ASSUME Next, detail # None, detail' \notin {None, detail},
                      detail.from = "change", detail'.from = "change", detail.list = detail'.list
               PROVE  detail.version <= detail'.version
    BY <1>1
  <2>1. /\ latest \in Request /\ flight[latest].status = "ok"
        /\ detail'.list = flight[latest].on /\ detail'.version = flight[latest].version
    BY <1>1, ChangeIsShown DEF IInv
  <2>2. latest # None
    BY <2>1, ScreenAssumption
  <2> QED
    BY <1>1, <2>1, <2>2 DEF IInv, LatestInv
<1> QED
  BY <1>1, ScreenInvariant, PTL DEF Spec, ShownAnswersAdvance

=============================================================================
