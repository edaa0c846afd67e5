-------------------------------- MODULE WebApp --------------------------------
(* One tab of the web client: its pages, what people do on them, the answers  *)
(* to its requests in any order, and what the hub tells it of the rounds that *)
(* others start, play and delete meanwhile. The scores of a round are one     *)
(* number that every change raises; `LiveClient` has them hole by hole.       *)
EXTENDS WebStore

CONSTANTS NumItems,     \* items of the feed; a page of the feed has one
          NumCourses,
          Visits,       \* the visits looked at: where they start and whether as
                        \* somebody, the pages gone to, the number of moves, how
                        \* many of them before all answers are in, the number of
                        \* failures, whether the tab is loaded again, whether
                        \* others play, whether another tab changes who is
                        \* logged in
          MaxRounds, MaxLayouts, MaxCups

ASSUME NumItemsAssumption == NumItems \in Nat

VARIABLES app,          \* the tab
          db,           \* the server
          visit,        \* the visit, one of Visits
          moves, rush, failures,
          calm,         \* nothing was done early since the tab was loaded
          odd           \* what else happened since then that the properties except

vars == <<app, db, visit, moves, rush, failures, calm, odd>>

------------------------------------------------------------------------------
(* The server.                                                                *)

Round(id, players, creator) ==
    [id |-> id, players |-> players, creator |-> creator, changes |-> 0, signed |-> {},
     completed |-> FALSE, there |-> TRUE]
NewCup(id, admin) == [id |-> id, players |-> {}, courses |-> {}, prices |-> {}, admin |-> admin]
Active(d, u) == {id \in DOMAIN d.rounds : /\ d.rounds[id].there /\ ~d.rounds[id].completed
                                          /\ u \in d.rounds[id].players}
InRound(d, id, u) == d.rounds[id].there /\ u \in d.rounds[id].players
Owns(d, id, u)    == d.rounds[id].there /\ u = d.rounds[id].creator

Signed(r, u) == LET signed == r.signed \cup {u}
                IN  [r EXCEPT !.signed = signed, !.completed = r.players \subseteq signed]

Refuses(d, r) ==
    CASE r.op = "login"    -> ~r.arg[2] \/ r.arg[1] \notin d.members
      [] r.op = "register" -> r.arg[1] \in d.members
      [] r.op = "score"    -> ~InRound(d, r.arg[1], r.who) \/ r.arg[2] # r.who
      [] r.op = "complete" -> ~InRound(d, r.arg[1], r.who)
      [] r.op \in {"delete", "skip"} -> ~Owns(d, r.arg[1], r.who)
      [] r.op \in {"leave", "round", "activeRound"} -> ~d.rounds[r.arg[1]].there
      [] r.op = "addCourse" -> d.cups[r.arg[1]].admin # r.who
      [] OTHER             -> FALSE

Changed(r, q) ==
    CASE q.op \in {"score", "skip"} -> [r EXCEPT !.changes = @ + 1]
      [] q.op = "complete" -> IF r.completed \/ q.who \in r.signed THEN r ELSE Signed(r, q.who)
      [] q.op = "leave"    -> [r EXCEPT !.players = @ \ {q.who}, !.changes = @ + 1]
      [] q.op = "delete"   -> [r EXCEPT !.there = FALSE]

\* What a request does to the round it names.
RoundOps == {"score", "skip", "complete", "leave", "delete"}

After(d, q) ==
    CASE q.op = "register"    -> [d EXCEPT !.members = @ \cup {q.arg[1]}]
      [] q.op \in RoundOps    -> [d EXCEPT !.rounds[q.arg[1]] = Changed(@, q)]
      [] q.op = "createRound" ->
           [d EXCEPT !.rounds = Append(@, Round(Len(@) + 1,
                IF q.arg[2] = {} THEN {q.who} ELSE q.arg[2], q.who))]
      [] q.op = "like"        -> [d EXCEPT !.likes[q.arg[1]] = Toggled(@, q.who)]
      [] q.op = "createCourse" -> [d EXCEPT !.layouts = Append(@, q.arg[1])]
      [] q.op = "createTournament" -> [d EXCEPT !.cups = Append(@, NewCup(Len(@) + 1, q.who))]
      [] q.op = "join"        -> [d EXCEPT !.cups[q.arg[1]].players = @ \cup {q.who}]
      [] q.op = "addCourse"   -> [d EXCEPT !.cups[q.arg[1]].courses = @ \cup {q.arg[2]}]
      [] q.op = "calculatePrices" ->
           [d EXCEPT !.cups[q.arg[1]].prices = d.cups[q.arg[1]].players]
      [] OTHER -> d

\* The layouts whose course fits a filter; 0 is the empty one.
Fitting(d, filter) == {l \in DOMAIN d.layouts : filter \in {0, d.layouts[l]}}

\* The answers to a request; which of the rounds somebody plays is the active
\* one is up to the database.
Answers(d, q) ==
    CASE q.op = "details"  ->
           {[who |-> q.who, active |-> a] :
               a \in IF Active(d, q.who) = {} THEN {0} ELSE Active(d, q.who)}
      [] q.op \in {"round", "activeRound", "score"} -> {d.rounds[q.arg[1]]}
      [] q.op = "createRound" -> {Len(d.rounds)}
      [] q.op = "feed"     ->
           {[items |-> IF q.arg[1] > NumItems THEN <<>>
                       ELSE <<[id |-> q.arg[1], likes |-> d.likes[q.arg[1]]]>>,
             last  |-> q.arg[1] >= NumItems]}
      [] q.op = "courses"  -> {Fitting(d, q.arg[1])}
      [] q.op = "createCourse" -> {Len(d.layouts)}
      [] q.op = "tournaments"  -> {DOMAIN d.cups}
      [] q.op = "tournament"   -> {d.cups[q.arg[1]]}
      [] q.op = "createTournament" -> {Len(d.cups)}
      [] q.op = "calculatePrices"  -> {d.cups[q.arg[1]].prices}
      [] OTHER -> {q.arg}

\* Whoever plays a round is told of its start and its changes, but not whoever
\* made them; of its deletion everybody is.
Told(c, by, kind, r) ==
    IF c.hub \in (IF kind = "deleted" THEN r.players ELSE r.players \ {by})
    THEN [c EXCEPT !.inbox = Append(@, [kind |-> kind, round |-> r])] ELSE c
ToldOf(c, d, q) ==
    IF q.op \in RoundOps /\ d.rounds[q.arg[1]] # Changed(d.rounds[q.arg[1]], q)
    THEN Told(c, q.who, IF q.op = "delete" THEN "deleted" ELSE "updated",
              Changed(d.rounds[q.arg[1]], q))
    ELSE c

------------------------------------------------------------------------------
(* Answers.                                                                   *)

Done(c, store) == [c EXCEPT !.busy = @ \ {store}]
Failing(c, store) == [Done(c, store) EXCEPT !.err = @ \cup {store}]
HasCup(c) == c.cup.id # 0

LoggedIn(c, u) ==
    Dispatch(c, fetchUserDetails([c EXCEPT !.saved = u, !.user = u], <<"home">>))
\* The login waits for the details, and so does the way to the front page.
Homewards(c, q) == IF q.arg = <<"home">> /\ c.user # NoOne THEN Push(c, "/", <<>>) ELSE c
Shown(c, q) == [c EXCEPT !.view.got = q.arg[1], !.view.busy = FALSE]
CourseAdded(c, l) == IF HasCup(c) THEN [c EXCEPT !.cup.courses = @ \cup {l}] ELSE c
PageShown(c, q) ==
    [c EXCEPT !.view.items = IF q.arg[1] = 1 THEN q.data.items ELSE @ \o q.data.items,
              !.view.last = q.data.last, !.view.busy = FALSE]

\* What is for the page that asked.
OnPage(q, ops) == q.to = "page" /\ q.op \in ops

Succeeded(c, q) ==
    CASE q.op \in {"login", "register"} -> LoggedIn(c, q.arg[1])
      [] q.op = "details"     -> Homewards(Dispatch(c, [c EXCEPT !.details = q.data]), q)
      [] q.op = "recent"      -> [c EXCEPT !.recent = q.arg[1]]
      [] q.op = "round"       -> Dispatch(c, Done([c EXCEPT !.round = q.data], "round"))
      [] q.op = "activeRound" -> IF q.data.completed THEN c
                                 ELSE fetchPaceData(Dispatch(c, [c EXCEPT !.round = q.data]), q.arg[1])
      [] q.op = "pace"        -> [c EXCEPT !.pace = q.arg[1]]
      [] q.op = "courseStats" -> [c EXCEPT !.courseStats = q.arg[1]]
      [] q.op = "roundStats"  -> [c EXCEPT !.roundStats = q.arg[1]]
      [] q.op = "score"       -> Dispatch(c, [c EXCEPT !.round = q.data])
      [] q.op = "complete"    -> IF c.round = NoRound THEN c
                                 ELSE Dispatch(c, [c EXCEPT !.round.completed = TRUE])
      [] q.op = "delete"      -> Push(Dispatch(c, clearActiveRound([c EXCEPT !.round = NoRound])), "/", <<>>)
      [] q.op = "leave"       -> Push(Dispatch(c, [c EXCEPT !.round = NoRound]), "/", <<>>)
      [] q.op = "createRound" -> Push(c, "/rounds", <<q.data>>)
      [] q.op = "courses"     -> Done([c EXCEPT !.courses = q.data], "courses")
      [] q.op = "createCourse" -> Push([c EXCEPT !.courses = @ \cup {q.data}], "/course", q.arg)
      [] q.op = "tournaments" -> Done([c EXCEPT !.cups = q.data], "cups")
      [] q.op = "tournament"  -> Done([c EXCEPT !.cup = q.data], "cups")
      [] q.op = "createTournament" -> Push(c, "/tournament", <<q.data>>)
      [] q.op = "join"        -> IF HasCup(c) THEN [c EXCEPT !.cup.players = @ \cup {q.arg[2]}] ELSE c
      [] q.op = "addCourse"   -> CourseAdded(IF q.to = "page" THEN [c EXCEPT !.view.ask = 0] ELSE c, q.arg[2])
      [] q.op = "calculatePrices" -> IF HasCup(c) THEN [c EXCEPT !.cup.prices = q.data] ELSE c
      [] q.op = "profile"     -> Done([c EXCEPT !.profile.who = q.arg[1]], "profile")
      [] q.op = "achievements" -> [c EXCEPT !.profile.achievements = q.arg[1]]
      [] q.op = "rounds"      -> [c EXCEPT !.profile.rounds = q.arg]
      [] OnPage(q, {"feed"})  -> PageShown(c, q)
      [] OnPage(q, Lists)     -> Shown(c, q)
      [] OTHER                -> c

StoreOf(op) == CASE op = "courses" -> "courses" [] op = "profile" -> "profile" [] OTHER -> "cups"

Failed(c, q) ==
    CASE q.op \in {"login", "register"} -> Homewards([c EXCEPT !.loginError = TRUE], [q EXCEPT !.arg = <<"home">>])
      [] q.op = "details"     -> Homewards(c, q)
      [] q.op = "round"       -> Done(c, "round")
      [] q.op \in {"courses", "profile", "tournaments", "tournament"} -> Failing(c, StoreOf(q.op))
      [] q.op = "achievements" -> [c EXCEPT !.profile.achievements = NoOne]
      [] OnPage(q, {"feed"})  -> [c EXCEPT !.view.busy = FALSE, !.view.failed = TRUE,
                                           !.view.loaded = @ \ {q.arg[1]}]
      [] OnPage(q, {"like"})  -> Liked(c, q.arg[1], q.arg[2])
      [] OnPage(q, Lists)     -> [c EXCEPT !.view.busy = FALSE, !.view.failed = TRUE]
      [] OnPage(q, {"createRound", "createCourse", "createTournament"}) ->
                                 [c EXCEPT !.view.starting = FALSE]
      [] OTHER                -> c

\* An answer 401 forgets the user and loads the login page.
Unauthorized == Load(NoOne, "/login", <<>>)

InFlight == app.net # <<>> \/ app.inbox # <<>>
Still    == UNCHANGED <<visit, moves, rush, failures, calm>>

Serve(i) ==
    LET q == app.net[i]
    IN  /\ q.phase = "sent"
        /\ IF q.who = NoOne /\ q.op \notin {"login", "register"}
           THEN app' = [app EXCEPT !.net[i].phase = "denied"] /\ UNCHANGED db
           ELSE IF Refuses(db, q)
           THEN app' = [app EXCEPT !.net[i].phase = "error"] /\ UNCHANGED db
           ELSE /\ db' = After(db, q)
                /\ \E data \in Answers(db', q) :
                     app' = ToldOf([app EXCEPT !.net[i].phase = "ok", !.net[i].data = data], db, q)
        /\ UNCHANGED odd
        /\ Still

Fails(what) ==
    /\ failures < visit.failures
    /\ failures' = failures + 1
    /\ odd' = odd \cup {"failed", what}
    /\ UNCHANGED <<db, visit, moves, rush, calm>>
\* A request that fails on the server, one whose token is no longer valid, and
\* an answer that is lost.
Fail(i, phase) ==
    LET q == app.net[i]
    IN  /\ IF phase = "lost" THEN q.phase \in {"sent", "ok"} ELSE q.phase = "sent"
        /\ phase = "denied" => q.who # NoOne
        /\ app' = [app EXCEPT !.net[i].phase = phase]
        /\ Fails(phase)
\* A call of the hub that the tab misses, while it connects for example.
LosePush == app.inbox # <<>> /\ app' = [app EXCEPT !.inbox = Tail(@)] /\ Fails("lost")

\* What the server has yet to take when a tab is loaded again.
Left(c) ==
    LET sent   == {i \in DOMAIN c.net : c.net[i].phase = "sent"}
        Nth(n) == c.net[CHOOSE i \in sent : Cardinality({j \in sent : j <= i}) = n]
    IN  [n \in 1..Cardinality(sent) |->
            [Request(Nth(n).op, Nth(n).arg, Nth(n).who) EXCEPT !.to = "nobody"]]

Answer(i) ==
    LET q == app.net[i]
        c == [app EXCEPT !.net = RemoveAt(@, i)]
        denied == q.phase = "denied" /\ q.to # "nobody"
    IN  /\ q.phase # "sent"
        /\ app' = IF q.to = "nobody" THEN c
                  ELSE IF q.phase = "ok" THEN Succeeded(c, q)
                  ELSE IF denied THEN [Unauthorized EXCEPT !.net = Left(c)] ELSE Failed(c, q)
        /\ calm' = IF denied THEN Left(c) = <<>> ELSE calm
        /\ odd' = IF denied THEN {}
                  ELSE odd \cup (IF q.op = "skip" /\ q.phase # "error" THEN {"skip"} ELSE {})
        /\ UNCHANGED <<db, visit, moves, rush, failures>>

\* The hub calls. A call about another round than the one shown, or than the
\* active one, is stray.
Hear ==
    /\ app.inbox # <<>>
    /\ LET m == Head(app.inbox)
           c == [app EXCEPT !.inbox = Tail(@)]
           stray == \/ /\ m.kind = "updated" /\ m.round.id # app.round.id
                       /\ app.round # NoRound \/ app.at = "/rounds"
                    \/ app.details.active \in Active(db, app.user) \ {m.round.id}
       IN  /\ app' = Dispatch(c, IF m.kind = "deleted" THEN onRoundDeleted(c, m.round.id)
                                 ELSE onRoundUpdated(c, m.round))
           /\ odd' = odd \cup (IF stray THEN {"stray"} ELSE {})
    /\ UNCHANGED db
    /\ Still

------------------------------------------------------------------------------
(* What the person does. Whoever does not wait for the answers is in a rush.  *)

Moves ==
    /\ moves < visit.moves
    /\ moves' = moves + 1
    /\ InFlight => rush < visit.rush
    /\ rush' = IF InFlight THEN rush + 1 ELSE rush
    /\ UNCHANGED <<visit, failures>>
Sending(c, op) == \E i \in DOMAIN c.net : c.net[i].op = op
\* A like and a page of the feed are under way together.
Mixed(c) == IF Sending(c, "like") /\ Sending(c, "feed") THEN {"mix"} ELSE {}
Does(c, what) ==
    /\ Moves
    /\ app' = c
    /\ calm' = (calm /\ ~InFlight)
    /\ odd' = odd \cup what \cup Mixed(c)
    /\ UNCHANGED db
Acts(c) == Does(c, {})
Go(at, arg) == at \in visit.pages /\ Acts(Push(app, at, arg))
At(pages) == app.user # NoOne /\ app.at \in pages

Addresses(at) ==
    CASE at = "/rounds"     -> {<<id>> : id \in DOMAIN db.rounds}
      [] at = "/users"      -> {<<u>> : u \in Users}
      [] at = "/course"     -> {<<n>> : n \in 1..NumCourses}
      [] at = "/tournament" -> {<<id>> : id \in DOMAIN db.cups}
      [] OTHER              -> {<<>>}
\* An address that is typed, or the page loaded again.
LoadPage ==
    /\ visit.reload /\ Moves
    /\ \E at \in visit.pages : \E arg \in Addresses(at) :
         LET c == [Load(app.saved, at, arg) EXCEPT !.net = Left(app) \o @]
         IN  app' = c /\ odd' = Mixed(c)
    /\ calm' = (Left(app) = <<>>)
    /\ UNCHANGED db

\* The bars of every page but those of a round and of the login.
Dashboard == {"/", "/feed", "/leaders", "/profile", "/users", "/courses", "/course",
              "/new-course", "/tournaments", "/tournament", "/new-tournament"}
BottomNav == /\ At(Dashboard)
             /\ \E at \in {"/", "/feed", "/leaders", "/courses", "/tournaments"} : Go(at, <<>>)
AppHeader ==
    /\ At(Dashboard)
    /\ \/ Go("/profile", <<>>)
       \/ "/login" \in visit.pages
          /\ Does(Dispatch(app, logout(app)), IF app.round = NoRound THEN {} ELSE {"logout"})

LoggedOutLanding == app.user = NoOne /\ app.at = "/" /\ \E at \in {"/login", "/register"} : Go(at, <<>>)
\* A second login while the first is under way is odd.
LoggingIn(q) == q.op \in {"login", "register"} /\ q.to # "nobody"
Twice == IF \E i \in DOMAIN app.net : LoggingIn(app.net[i]) THEN {"twice"} ELSE {}
Login ==
    /\ app.at = "/login" /\ "/login" \in visit.pages
    /\ \/ \E u \in Users, right \in BOOLEAN : Does(login(app, u, right), Twice)
       \/ Go("/register", <<>>)
Register ==
    /\ app.at = "/register"
    /\ \/ \E u \in Users : Does(register(app, u), Twice)
       \/ Go("/login", <<>>)

RoundsOf(u) == {id \in DOMAIN db.rounds : db.rounds[id].there /\ u \in db.rounds[id].players}
HasCard == app.round # NoRound /\ ~app.round.completed
LoggedInLanding ==
    /\ At({"/"})
    /\ \/ HasCard /\ Go("/rounds", <<app.round.id>>)
       \/ app.recent # NoOne /\ \E id \in RoundsOf(app.recent) : Go("/rounds", <<id>>)
       \/ Go("/new-round", <<>>)

RoundIsShown == At({"/rounds"}) /\ "round" \notin app.busy /\ app.round # NoRound
RoundPage ==
    /\ RoundIsShown /\ ~app.round.completed
    /\ Acts(setScore(app, app.arg[1])) \/ Acts(fetchRoundStats(app, app.arg[1]))
RoundMenu ==
    /\ RoundIsShown /\ ~app.round.completed
    /\ \/ Acts(completeRound(app, app.arg[1]))
       \/ Acts(skipHole(app, app.arg[1]))
       \/ Does(leaveRound(app, app.arg[1]), {"leave"})
       \/ Acts(deleteRound(app, app.arg[1]))
RoundSummary == RoundIsShown /\ app.round.completed /\ Go("/", <<>>)

FeedPage ==
    /\ At({"/feed"})
    /\ \/ \E i \in DOMAIN app.view.items : Acts(handleLike(app, app.view.items[i].id))
       \/ app.view.items # <<>> /\ \E id \in DOMAIN db.rounds : Go("/rounds", <<id>>)
\* After a page that failed the button asks for the page that follows it.
LoadMore ==
    /\ At({"/feed"}) /\ app.view.items # <<>> /\ ~app.view.last /\ ~app.view.busy
    /\ Does(Local(app, [app.view EXCEPT !.page = @ + 1]),
            IF app.view.failed THEN {"gap"} ELSE {})
RetryFeed ==
    /\ At({"/feed"}) /\ app.view.failed
    /\ Acts(Dispatch(app, fetchPage([app EXCEPT !.view.loaded = {}, !.view.page = 1], 1)))

Choose(ask) == Acts(Local(app, [app.view EXCEPT !.ask = ask]))
LeadersPage ==
    /\ At({"/leaders"})
    /\ \/ \E ask \in 0..2 : Choose(ask)
       \/ app.view.failed /\ Acts(Local(app, [app.view EXCEPT !.page = 3 - @]))

Whose == IF app.at = "/users" THEN app.arg[1] ELSE app.user
ProfilePage ==
    /\ At({"/profile", "/users"})
    /\ IF "profile" \in app.err THEN Acts(ProfileOf(app, Whose))
       ELSE \/ app.profile.rounds # <<>> /\ Acts(fetchRounds(app, Whose, 3 - app.profile.rounds[2]))
            \/ app.profile.rounds # <<>> /\ \E id \in RoundsOf(app.profile.rounds[1]) : Go("/rounds", <<id>>)

CoursesPage ==
    /\ At({"/courses"})
    /\ \/ \E n \in 0..NumCourses : Choose(n)
       \/ \E l \in app.courses : Go("/course", <<db.layouts[l]>>)
       \/ Go("/new-course", <<>>)
CourseDetailPage == At({"/course"}) /\ (Go("/courses", <<>>) \/ Go("/new-course", app.arg))
CreateCoursePage ==
    /\ At({"/new-course"}) /\ ~app.view.starting /\ Len(db.layouts) + Len(app.net) < MaxLayouts
    /\ \E n \in IF app.arg = <<>> THEN 1..NumCourses ELSE {app.arg[1]} : Acts(createCourse(app, n))

TournamentsPage ==
    /\ At({"/tournaments"})
    /\ (\E id \in app.cups : Go("/tournament", <<id>>)) \/ Go("/new-tournament", <<>>)
CreateTournamentPage ==
    /\ At({"/new-tournament"}) /\ ~app.view.starting /\ Len(db.cups) + Len(app.net) < MaxCups
    /\ Acts(createTournament(app))
CupIsShown == At({"/tournament"}) /\ HasCup(app) /\ "cups" \notin app.busy \cup app.err
TournamentDetailPage ==
    /\ CupIsShown
    /\ \/ app.user \notin app.cup.players /\ Acts(joinTournament(app, app.arg[1]))
       \/ \E u \in app.cup.players : Go("/users", <<u>>)
       \/ \E l \in app.cup.courses : Go("/course", <<db.layouts[l]>>)
AdminOfTournament ==
    /\ CupIsShown /\ app.user = app.cup.admin
    /\ \/ app.cup.courses = {} /\ \E n \in 1..NumCourses : Choose(n)
       \/ app.view.ask # 0 /\ \E l \in app.courses \ app.cup.courses : Acts(addCourse(app, app.arg[1], l))
       \/ Acts(calculatePrices(app, app.arg[1]))

\* The three steps of a new round. The lists start again with every step.
Step(step) == Local(app, [app.view EXCEPT !.step = step, !.ask = 0, !.got = -1, !.busy = FALSE, !.failed = FALSE])
CourseStep ==
    /\ At({"/new-round"}) /\ app.view.step = "course"
    /\ \/ \E n \in 0..NumCourses : Choose(n)
       \/ /\ app.view.got >= 0 /\ ~app.view.busy
          /\ \E l \in Fitting(db, app.view.got) : Acts(Local(app, [app.view EXCEPT !.layout = l]))
       \/ app.view.layout # 0 /\ Acts(Step("players"))
       \/ Go("/", <<>>)
PlayersStep ==
    /\ At({"/new-round"}) /\ app.view.step = "players"
    /\ \/ \E n \in 0..1 : Choose(n)
       \/ \E u \in Users : Acts(Local(app, [app.view EXCEPT !.players = Toggled(@, u)]))
       \/ app.view.players # {} /\ Acts(Step("confirm"))
       \/ Acts(Step("course"))
ConfirmStep ==
    /\ At({"/new-round"}) /\ app.view.step = "confirm"
    /\ \/ /\ ~app.view.starting /\ Len(db.rounds) + Len(app.net) < MaxRounds
          /\ Acts(Starts(app, "createRound", <<app.view.layout, app.view.players>>))
       \/ Acts(Step("players"))

------------------------------------------------------------------------------
(* The world around.                                                          *)

\* Another player starts, plays, signs or deletes a round. What happens to the
\* round of the card while its page is gone is missed.
Others(v) ==
    /\ visit.others /\ v # app.user /\ v # app.saved
    /\ Moves
    /\ calm' = (calm /\ ~InFlight)
    /\ \/ /\ Len(db.rounds) < MaxRounds
          /\ LET r == Round(Len(db.rounds) + 1, Users, v)
             IN  db' = [db EXCEPT !.rounds = Append(@, r)] /\ app' = Told(app, v, "updated", r)
          /\ UNCHANGED odd
       \/ \E id \in RoundsOf(v), op \in {"score", "complete", "delete"} :
             LET q == Request(op, <<id, v>>, v)
             IN  /\ ~Refuses(db, q) /\ ~db.rounds[id].completed
                 /\ db' = After(db, q)
                 /\ app' = ToldOf(app, db, q)
                 /\ odd' = odd \cup (IF app.hub = NoOne /\ app.round.id = id THEN {"missed"} ELSE {})
\* Another tab of the browser logs in as somebody, or logs out.
OtherTab ==
    /\ visit.tabs
    /\ \E u \in (Users \cup {NoOne}) \ {app.saved} :
          Does([app EXCEPT !.saved = u], {"swap"})

------------------------------------------------------------------------------
Init ==
    /\ visit \in Visits
    /\ \E u \in Users, newcomers \in SUBSET Users, done \in BOOLEAN :
         /\ Cardinality(newcomers) <= 1 /\ u \notin newcomers
         /\ newcomers # {} => "/register" \in visit.pages
         /\ done => visit.others
         /\ db = [rounds |-> <<Round(1, Users, u),
                              [Round(2, {u}, u) EXCEPT !.completed = done, !.signed = IF done THEN {u} ELSE {}]>>,
                  likes |-> [i \in 1..NumItems |-> {}], layouts |-> [n \in 1..NumCourses |-> n],
                  cups |-> <<NewCup(1, u)>>, members |-> Users \ newcomers]
    /\ \E who \in IF visit.known THEN db.members ELSE {NoOne}, arg \in Addresses(visit.from) :
         app = Load(who, visit.from, arg)
    /\ moves = 0 /\ rush = 0 /\ failures = 0
    /\ calm = TRUE /\ odd = {}

Network == \E i \in DOMAIN app.net :
               Serve(i) \/ Answer(i) \/ \E phase \in {"error", "denied", "lost"} : Fail(i, phase)
Person ==
    \/ BottomNav \/ AppHeader \/ LoggedOutLanding \/ Login \/ Register \/ LoggedInLanding
    \/ RoundPage \/ RoundMenu \/ RoundSummary \/ FeedPage \/ LoadMore \/ RetryFeed
    \/ LeadersPage \/ ProfilePage \/ CoursesPage \/ CourseDetailPage \/ CreateCoursePage
    \/ TournamentsPage \/ CreateTournamentPage \/ TournamentDetailPage \/ AdminOfTournament
    \/ CourseStep \/ PlayersStep \/ ConfirmStep \/ LoadPage
Next == Network \/ Hear \/ LosePush \/ Person \/ (\E v \in Users : Others(v)) \/ OtherTab

Spec == Init /\ [][Next]_vars

------------------------------------------------------------------------------
(* Properties. All answers are in, and nobody was in a rush: what a page      *)
(* shows then must be what its address and the server say.                    *)

Settled == calm /\ ~InFlight
Clean   == Settled /\ "failed" \notin odd

\* The page of a round shows the round of its address as the server has it,
\* with the pace and the statistics of that round, and says "completed" only
\* to somebody who has signed (roundStore.ts, RoundPage.tsx, hub.ts). Except:
\* a round that others start takes the page over, whoever skips a hole is not
\* told, and the hub is asked in the name of another tab's user. The page of a
\* deleted round may go on showing the card of the front page, and shows nothing
\* of its round unless that card missed the deletion.
RoundPageShowsItsRound ==
    Clean /\ At({"/rounds"}) /\ odd \cap {"stray", "skip", "swap"} = {} =>
        LET r == db.rounds[app.arg[1]]
        IN  app.user \in r.players =>
              IF ~r.there THEN odd \cap {"missed", "logout"} = {} => app.round.id # r.id
              ELSE /\ app.round.id = r.id /\ app.round.players = r.players
                   /\ app.round.changes = r.changes
                   /\ r.completed => app.round.completed
                   /\ app.round.completed => app.user \in r.signed \/ r.completed
                   /\ app.pace = r.id /\ app.courseStats = r.id

\* The card of the front page is of a round its user still plays, as the server
\* has it, and it is there while the round of the details is active
\* (Landing.tsx, authStore.ts clearActiveRound). Except after leaving a round,
\* after a logout with a round in the store or a change of user in another tab,
\* and after calls of the hub that were missed or were about two rounds.
HomeShowsActiveRound ==
    Clean /\ At({"/"}) /\ odd \cap {"stray", "missed", "skip", "leave", "logout", "swap"} = {} =>
        /\ HasCard => /\ app.round.id \in Active(db, app.user)
                      /\ app.round.changes = db.rounds[app.round.id].changes
        /\ app.details.active \in Active(db, app.user) => HasCard

\* The feed has the items of its pages once and in order, whatever is answered
\* or fails when, and between requests its likes are the stored ones
\* (FeedPage.tsx: loadedPages, handleLike). Except: "Load More" after a page
\* failed skips that page; a lost answer, and a like while a page is under way.
FeedStaysWhole ==
    At({"/feed"}) =>
        /\ "gap" \notin odd => \A n \in DOMAIN app.view.items : app.view.items[n].id = n
        /\ ~Sending(app, "like") /\ ~Sending(app, "feed") /\ odd \cap {"lost", "mix", "swap"} = {} =>
              \A n \in DOMAIN app.view.items :
                 app.view.items[n].likes = db.likes[app.view.items[n].id]

\* The leader board, the courses and the people to choose from are those of the
\* last choice, in whatever order the answers come (LeadersPage.tsx,
\* NewRound.tsx: the cancelled flags).
LatestChoiceIsShown ==
    /\ At({"/leaders"}) \/ (At({"/new-round"}) /\ app.view.step # "confirm")
    /\ ~app.view.busy /\ ~app.view.failed
    => app.view.got = app.view.ask

\* Nobody sees the profile of somebody else, even when requests fail; the
\* other pages show what their address says, and what the server has unless a
\* request failed, or another tab changed in whose name this one asks: the page
\* adds its own user to a tournament (userProfileStore.ts clear,
\* tournamentStore.ts, courseStore.ts).
PagesShowTheirOwn ==
    Settled =>
      /\ At({"/profile", "/users"}) =>
           /\ {app.profile.who, app.profile.achievements} \subseteq {NoOne, Whose}
           /\ app.profile.rounds # <<>> => app.profile.rounds[1] = Whose
      /\ At({"/tournament"}) /\ "cups" \notin app.err => app.cup.id = app.arg[1]
      /\ odd \cap {"failed", "swap"} = {} =>
           /\ At({"/tournament"})  => app.cup = db.cups[app.arg[1]]
           /\ At({"/tournaments"}) => app.cups = DOMAIN db.cups
           /\ At({"/courses"})     => app.courses = Fitting(db, app.view.ask)
           /\ At({"/course"})      => app.courses = Fitting(db, app.arg[1])
           /\ At({"/"})            => app.recent = app.user /\ app.details.who = app.user

\* Unless another tab changes it, the user of the tab is the one localStorage
\* will log in again, and the hub connection is that user's and open on its
\* two pages only (authStore.ts, hub.ts, the cleanups of Landing and RoundPage).
SessionIsOne ==
    odd \cap {"swap", "twice"} = {} =>
        /\ app.user = app.saved
        /\ app.hub \in {NoOne, app.user}
        /\ app.hub # NoOne => app.at \in {"/", "/rounds"}
=============================================================================
