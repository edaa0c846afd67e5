------------------------------ MODULE ClassicApp ------------------------------
(* One browser with the classic web client, everything but the playing of a   *)
(* round: the pages, the requests their components make when they appear or   *)
(* change, the answers in any order, the timers, the hub, logging out and     *)
(* loading the page again; and the server the requests reach.                 *)
EXTENDS ClassicStore

CONSTANTS NumItems,     \* items of the feed; a page of the feed has one
          Courses,      \* names of courses
          Oak,          \* the course that exists, with two layouts
          NumYears,     \* years with a summary
          Visits,       \* the visits looked at: the pages somebody goes to, the
                        \* number of moves, how many of them before all answers
                        \* are in (failures counted), and whether rounds start
          MaxLayouts, MaxCups

ASSUME ClassicAppAssumption == NoOne \notin Users /\ NumItems \in Nat

VARIABLES app,          \* the client
          db,           \* the server
          visit,        \* the visit, one of Visits
          moves, rush,
          calm,         \* nothing failed or was done early since the page was loaded
          plainSave     \* a hole was saved from an address that names no layout

vars == <<app, db, visit, moves, rush, calm, plainSave>>

------------------------------------------------------------------------------
(* The server.                                                                *)

NewAccount == [set |-> Blank, friends |-> {}, active |-> FALSE]
OldAccount == [NewAccount EXCEPT !.set.newsSeen = 1, !.set.settingsInitialized = 1]
NewLayout(id, course, admin) ==
    [id |-> id, course |-> course, admin |-> admin,
     holes |-> [h \in 1..2 |-> [of |-> id, edited |-> FALSE]]]
NewCup(id, admin) == [id |-> id, players |-> {}, courses |-> {}, prices |-> {}, admin |-> admin]

Refuses(d, r) ==
    CASE r.op = "login"        -> ~r.arg[2] \/ r.arg[1] \notin d.members
      [] r.op = "createUser"   -> r.arg[1] \in d.members
      [] r.op = "updateCourse" -> \E l \in Range(d.layouts) :
                                     l.id = r.arg[1] /\ l.admin # r.who
      [] r.op = "addCourse"    -> d.cups[r.arg[1]].admin # r.who
      [] OTHER                 -> FALSE

Befriends(d, u, v) == [d EXCEPT !.account[u].friends = @ \cup {v},
                                !.account[v].friends = @ \cup {u}]

After(d, r) ==
    CASE r.op = "createUser" -> [d EXCEPT !.members = @ \cup {r.arg[1]}]
      [] r.op \in {"set", "changeEmail"} -> [d EXCEPT !.account[r.who].set[r.arg[1]] = r.arg[2]]
      [] r.op = "addFriend"  -> Befriends(d, r.who, r.arg[1])
      [] r.op = "toggleLike" ->
           [d EXCEPT !.likes[r.arg[1]] = IF r.who \in @ THEN @ \ {r.who} ELSE @ \cup {r.who}]
      [] r.op = "createCourse" ->
           [d EXCEPT !.layouts = <<NewLayout(Len(@) + 1, r.arg[1], r.who)>> \o @]
      [] r.op = "updateCourse" ->
           [d EXCEPT !.layouts = [i \in DOMAIN @ |->
              IF @[i].id = r.arg[1] THEN [@[i] EXCEPT !.holes = r.arg[2]] ELSE @[i]]]
      [] r.op = "createTournament" -> [d EXCEPT !.cups = Append(@, NewCup(Len(@) + 1, r.who))]
      [] r.op = "addPlayer"  -> [d EXCEPT !.cups[r.arg[1]].players = @ \cup {r.who}]
      [] r.op = "addCourse"  -> [d EXCEPT !.cups[r.arg[1]].courses = @ \cup {r.arg[2]}]
      [] r.op = "calculatePrices" ->
           [d EXCEPT !.cups[r.arg[1]].prices = d.cups[r.arg[1]].players]
      [] OTHER -> d

LayoutOf(d, id) == CHOOSE l \in Range(d.layouts) : l.id = id

PageOfFeed(d, p) ==
    [items |-> IF p > NumItems THEN <<>> ELSE <<[id |-> p, likes |-> d.likes[p]]>>,
     last  |-> p >= NumItems]

Data(d, r) ==
    CASE r.op = "details"     -> d.account[r.who]
      [] r.op = "moreDetails" -> d.account[r.arg[1]].set.country
      [] r.op = "searchUsers" -> d.members
      [] r.op = "feed"        -> PageOfFeed(d, r.arg[1])
      [] r.op = "courses"     ->
           Picked(d.layouts, {i \in DOMAIN d.layouts : r.arg[1] \in {"", d.layouts[i].course}})
      [] r.op = "createCourse" -> d.layouts[1]
      [] r.op = "updateCourse" -> LayoutOf(d, r.arg[1])
      [] r.op = "tournament"  -> d.cups[r.arg[1]]
      [] r.op = "createTournament" -> Len(d.cups)
      [] r.op = "addCourse"   -> r.arg[2]
      [] r.op = "calculatePrices" -> d.cups[r.arg[1]].prices
      [] OTHER                -> r.arg

------------------------------------------------------------------------------
(* Pages. `Fetches` is what the components on the page ask for when they      *)
(* appear, and again when what they ask for changes.                          *)

Owner(c) == IF c.arg = <<>> THEN NoOne ELSE c.arg[1]
Fetch(op, arg) == [op |-> op, arg |-> arg]

UserTabs(c) ==
    CASE c.view.tab = 1 -> <<Fetch("rounds", <<c.view.rounds, Whose(c, Owner(c))>>)>>
      [] c.view.tab = 2 -> <<>>
      [] c.view.tab = 3 -> <<Fetch("stats", <<c.view.months, Whose(c, Owner(c))>>)>>
      [] c.view.tab = 4 -> <<Fetch("achievements", <<Whose(c, Owner(c))>>)>>
      [] c.view.tab = 5 -> <<Fetch("tournaments", <<Whose(c, Owner(c))>>)>>
YearPage(c) ==
    <<Fetch("yearSummary", c.arg),
      Fetch("previousYear", IF c.arg[2] = 1 THEN <<>> ELSE <<c.arg[1], c.arg[2] - 1>>)>>

Fetches(c) ==
    CASE c.at = "/" /\ c.loggedIn       -> <<Fetch("feed", <<c.view.feed>>)>>
      [] c.at \in {"/user", "/users"}   -> UserTabs(c)
      [] c.at = "/year"                 -> YearPage(c)
      [] c.at = "/leaders" /\ c.loggedIn -> <<Fetch("leaderboard", <<c.view.month>>)>>
      [] c.at = "/courses"              -> <<Fetch("courses", <<"">>)>>
      [] c.at = "/tournaments"          -> <<Fetch("tournaments", <<NoOne>>)>>
      [] c.at = "/tournament"           -> <<Fetch("tournament", c.arg)>>
      [] OTHER                          -> <<>>

fetchPreviousYear(c, arg) ==
    IF arg = <<>> \/ c.user = NoOne THEN Shows(c, "previousYear", <<>>)
    ELSE [c EXCEPT !.net = Append(@, Request("previousYear", arg, c.user))]

Effect(c, f) ==
    CASE f.op = "feed"         -> fetchFeed(c, f.arg[1])
      [] f.op = "rounds"       -> fetchUserRounds(c, f.arg[1], f.arg[2])
      [] f.op = "stats"        -> fetchUserStats(c, f.arg[1], f.arg[2])
      [] f.op = "achievements" -> fetchUserAchievements(c, f.arg[1])
      [] f.op = "tournaments"  -> fetchTournaments(c, f.arg[1])
      [] f.op = "yearSummary"  -> fetchUserYearSummary(c, f.arg[1], f.arg[2])
      [] f.op = "previousYear" -> fetchPreviousYear(c, f.arg)
      [] f.op = "leaderboard"  -> fetchLeaderboard(c, f.arg[1])
      [] f.op = "courses"      -> fetchCourses(c, f.arg[1])
      [] f.op = "tournament"   -> fetchTournament(c, f.arg[1])

\* After a change the App asks for the user's details when the address or
\* loggedIn is new; then the effects of the components whose inputs are new.
AppUpdated(c0, c1, moved) ==
    IF c1.loggedIn /\ (moved \/ ~c0.loggedIn) THEN fetchUserDetails(c1, FALSE) ELSE c1
\* A mutant: effects without their inputs.
EffectsOfMount(c0, c1) == {f \in Range(Fetches(c1)) : c0.at # c1.at}
EffectsOf(c0, c1) ==
    {f \in Range(Fetches(c1)) :
        c0.at # c1.at \/ \A g \in Range(Fetches(c0)) : g.op = f.op => g.arg # f.arg}
\* A page has at most two effects; those that are new run, in their order.
Runs(c, effects, n, new) ==
    IF n \in DOMAIN effects /\ effects[n] \in new THEN Effect(c, effects[n]) ELSE c
Started(c, effects, new) == Runs(Runs(c, effects, 1, new), effects, 2, new)
UserPageShown(c) ==
    IF c.at \in {"/user", "/users"} /\ Whose(c, Owner(c)) # NoOne
    THEN fetchMoreUserDetails(c, Whose(c, Owner(c))) ELSE c
Render(c0, c1, moved) ==
    UserPageShown(Started(AppUpdated(c0, c1, moved), Fetches(c1), EffectsOf(c0, c1)))

\* The feed and the leader board are there only for somebody who is logged in.
Dispatch(c, c1) ==
    Render(c, IF c.loggedIn = c1.loggedIn THEN c1
              ELSE [c1 EXCEPT !.view.feed = 1, !.view.month = 0], FALSE)
Push(c, at, arg) ==
    Render(c, [c EXCEPT !.at = at, !.arg = arg,
                        !.view = IF c.at = at THEN @ ELSE Fresh,
                        !.shown.previousYear = IF c.at = at THEN @ ELSE <<>>], TRUE)
Local(c, view) == Render(c, [c EXCEPT !.view = view], FALSE)
\* The App asks for the details of whoever is logged in, then logs in the
\* person of the link, if there is one; the components' effects come after.
Load(saved, at, link) ==
    LET c == StartStore(saved, at)
        mounted == AppUpdated([c EXCEPT !.loggedIn = FALSE], c, FALSE)
        linked  == IF link = NoOne THEN mounted
                   ELSE [LoginSucceed(mounted, link) EXCEPT !.saved = link]
    IN  UserPageShown(Started(AppUpdated(c, linked, FALSE), Fetches(linked), Range(Fetches(linked))))

logout(c) == Push(Dispatch(c, [LogUserOut(c) EXCEPT !.saved = NoOne]), "/", <<>>)

------------------------------------------------------------------------------
(* Answers.                                                                   *)

LoggedIn(c, u) == [Dispatch(c, LoginSucceed(c, u)) EXCEPT !.saved = u]

\* newsSeen, friends and the search read a list of the details: without
\* details the reducer throws, and the thunk reports a failure.
NeedsDetails(r) == r.op \in {"addFriend", "searchUsers"} \/ (r.op = "set" /\ r.arg[1] = "newsSeen")

Succeeded(c, r, n) ==
    IF NeedsDetails(r) /\ ~c.details.fetched THEN showNotification(c, n) ELSE
    CASE r.op = "login"         -> Push(LoggedIn(c, r.arg[1]), "/", <<>>)
      [] r.op = "createUser"    -> Push(fetchUserDetails(LoggedIn(c, r.arg[1]), FALSE), "/", <<>>)
      [] r.op = "setPassword"   -> Push(showNotification(c, n), "/", <<>>)
      [] r.op \in {"set", "changeEmail"} -> Dispatch(c, SetDetail(c, r.arg[1], r.arg[2]))
      [] r.op = "addFriend"     -> Dispatch(c, FriendAdded(c, r.arg[1]))
      [] r.op = "searchUsers"   -> Dispatch(c, UsersFound(c, r.data))
      [] r.op = "toggleLike"    -> Dispatch(c, LikeToggled(c, r.arg[1]))
      [] r.op = "feed"          -> Dispatch(c, FeedFetched(c, r.data))
      [] r.op = "details"       -> Dispatch(c, DetailsFetched(c, r.who, r.data))
      [] r.op = "moreDetails"   -> Dispatch(c, WithProfile(c, r.arg[1], r.data))
      [] r.op \in DOMAIN NothingShown -> Dispatch(c, Shows(c, r.op, r.arg))
      [] r.op = "courses"       -> [c EXCEPT !.courses = Grouped(r.data)]
      [] r.op = "createCourse"  -> [c EXCEPT !.courses = CourseCreated(@, r.data)]
      [] r.op = "updateCourse"  -> [c EXCEPT !.courses = CourseUpdated(@, r.data)]
      [] r.op = "createTournament" -> Push(c, "/tournament", <<r.data>>)
      [] r.op \in {"forgotPassword", "changePassword"} -> c
      [] OTHER                  -> TournamentReduced(c, r)

LogoutSoon(c) == [c EXCEPT !.logouts = @ + 1]

Failed(c, r, n) ==
    CASE r.op \in {"login", "createUser"} -> LogoutSoon(Dispatch(c, LoginFailed(c)))
      [] r.op \in {"forgotPassword", "setPassword"}  -> LogoutSoon(c)
      [] r.op \in {"changePassword", "changeEmail"}  -> c
      [] r.op = "previousYear" -> Shows(c, "previousYear", <<>>)
      [] r.op = "yearSummary"  -> showNotification(Dispatch(c, Shows(c, "yearSummary", <<>>)), n)
      [] r.op \in {"courses", "createCourse", "updateCourse"} /\ r.phase = "denied"
                               -> showNotification(logout(c), n)
      [] r.op = "addPlayer" /\ r.phase # "lost" -> TournamentReduced(c, r)
      [] r.op = "addCourse" /\ r.phase = "error" -> TournamentReduced(c, [r EXCEPT !.data = 0])
      [] OTHER                 -> showNotification(c, n)

InFlight == app.net # <<>>

\* The server takes a request: it refuses it, or does what it asks.
Serve(i) ==
    LET r == app.net[i]
    IN  /\ r.phase = "sent"
        /\ IF Refuses(db, r)
           THEN /\ app' = [app EXCEPT !.net[i].phase = "error"]
                /\ UNCHANGED db
           ELSE /\ db' = After(db, r)
                /\ app' = [app EXCEPT !.net[i].phase = "ok", !.net[i].data = Data(db', r)]
        /\ UNCHANGED <<visit, moves, rush, calm, plainSave>>

\* These thunks read the body of an answer whatever its status says; the text
\* of an error as their data is left out.
ReadsAnyBody == {"tournaments", "tournament", "createTournament", "addCourse", "calculatePrices"}

\* A request that fails on the server, one whose token is no longer valid, and
\* an answer that is lost.
Fail(i, phase) ==
    LET r == app.net[i]
    IN  /\ rush < visit.rush
        /\ IF phase = "lost" THEN r.phase \in {"sent", "ok"} ELSE r.phase = "sent"
        /\ phase = "denied" => r.who # NoOne
        /\ phase = "error" => r.op \notin ReadsAnyBody
        /\ app' = [app EXCEPT !.net[i].phase = phase]
        /\ rush' = rush + 1
        /\ calm' = FALSE
        /\ UNCHANGED <<db, visit, moves, plainSave>>

\* An answer that reaches the page that asked; the page may be gone.
Answer(i, n) ==
    LET r == app.net[i]
        c == [app EXCEPT !.net = RemoveAt(@, i)]
    IN  /\ r.phase # "sent"
        /\ app' = IF ~r.page THEN c
                  ELSE IF r.phase = "ok" THEN Succeeded(c, r, n) ELSE Failed(c, r, n)
        /\ UNCHANGED <<db, visit, moves, rush, calm, plainSave>>

LogoutTimer ==
    /\ app.logouts > 0
    /\ app' = Dispatch(app, [LogUserOut(app) EXCEPT !.logouts = @ - 1])
    /\ UNCHANGED <<db, visit, moves, rush, calm, plainSave>>

ExpireNotification(n) ==
    /\ app.alarms[n] > 0
    /\ app' = [hideNotification(app, n) EXCEPT !.alarms[n] = @ - 1]
    /\ UNCHANGED <<db, visit, moves, rush, calm, plainSave>>

------------------------------------------------------------------------------
(* What the person does, and the world around. Whoever does not wait for the  *)
(* answers is in a rush.                                                      *)

Moves ==
    /\ moves < visit.moves
    /\ moves' = moves + 1
    /\ InFlight => rush < visit.rush
    /\ rush' = IF InFlight THEN rush + 1 ELSE rush
    /\ UNCHANGED visit
Acts(c) ==
    /\ Moves
    /\ app' = c
    /\ calm' = (calm /\ ~InFlight)
    /\ UNCHANGED <<db, plainSave>>

\* Dialogues that cover the page until they are answered.
NewsIsShown  == app.at = "/" /\ app.details.fetched /\ app.details.set.newsSeen = 0
InitIsShown  == app.at = "/" /\ app.details.set.settingsInitialized = 0
Covered      == NewsIsShown \/ InitIsShown \/ app.view.hole # <<>>

GoTo(at, arg) == at \in visit.pages /\ Acts(Push(app, at, arg))

\* The bar at the foot of the page and its menu, for somebody who is logged in.
NavBar == app.loggedIn /\ \E at \in {"/", "/leaders"} : GoTo(at, <<>>)
NavMenu ==
    /\ app.loggedIn
    /\ \/ \E at \in {"/courses", "/tournaments", "/friends", "/user", "/settings"} : GoTo(at, <<>>)
       \/ GoTo("/year", <<app.user, NumYears>>)
       \/ Acts(logout(app))

Home == app.at = "/" /\ ~app.loggedIn /\ \E at \in {"/login", "/signup"} : GoTo(at, <<>>)
\* The feed: a like, scrolling to its end, pulling it down.
Feed ==
    /\ app.at = "/" /\ app.loggedIn /\ app.feed.items # <<>>
    /\ \/ \E i \in DOMAIN app.feed.items : Acts(toggleLike(app, app.feed.items[i].id))
       \/ ~app.feed.last /\ Acts(Local(app, [app.view EXCEPT !.feed = @ + 1]))
       \/ app.view.feed > 1 /\ Acts(Local(app, [app.view EXCEPT !.feed = 1]))

NewsMessages ==
    /\ NewsIsShown
    /\ Acts(setNewsSeen(app))
CountryPicker == \E v \in 0..1 : Acts(setCountry(app, v))
EmojiPicker   == \E v \in 0..1 : Acts(setEmoji(app, v))
InitSettings ==
    /\ InitIsShown
    /\ CountryPicker \/ EmojiPicker \/ Acts(setSettingsInitialized(app))

AddFriends ==
    /\ \/ app.at = "/friends"
       \/ app.at = "/" /\ app.details.fetched /\ Cardinality(app.details.friends) < 2
    /\ \/ Acts(searchUsers(app, 3))
       \/ \E u \in app.searched : Acts(searchUsers(addFriend(app, u), 0))
Friends == /\ app.at = "/friends"
           /\ \E u \in app.details.friends : GoTo("/users", <<u>>)

Login ==
    /\ app.at = "/login" \/ (app.at = "/leaders" /\ ~app.loggedIn)
    /\ ~app.failed
    /\ \/ \E u \in Users, right \in BOOLEAN : Acts(requestLogin(app, u, right))
       \/ Acts(forgotPassword(app))
Signup ==
    /\ app.at = "/signup" /\ ~app.failed
    /\ \E u \in Users : Acts(createUser(app, u))
\* The page a link of a mail opens.
ResetPassword == app.at = "/resetpassword" /\ Acts(setPassword(app))

UserSettings ==
    /\ app.at = "/settings"
    /\ \/ Acts(setSimpleScoring(app, 1 - app.details.set.simpleScoring))
       \/ CountryPicker \/ EmojiPicker
       \/ Acts(changePassword(app))
UpdateEmailForm == app.at = "/settings" /\ \E v \in 0..1 : Acts(changeEmail(app, v))

User ==
    /\ app.at \in {"/user", "/users"}
    /\ \/ \E tab \in 1..5 : Acts(Local(app, [app.view EXCEPT !.tab = tab, !.rounds = 1, !.months = 1]))
       \/ app.user # NoOne /\ GoTo("/year", <<Whose(app, Owner(app)), NumYears>>)
UserRounds == /\ app.at \in {"/user", "/users"} /\ app.view.tab = 1
              /\ Acts(Local(app, [app.view EXCEPT !.rounds = 3 - @]))
UserStats == /\ app.at \in {"/user", "/users"} /\ app.view.tab = 3
             /\ Acts(Local(app, [app.view EXCEPT !.months = 3 - @]))
UserYearSummary ==
    /\ app.at = "/year"
    /\ \E y \in 1..NumYears : y # app.arg[2] /\ GoTo("/year", <<app.arg[1], y>>)
LeaderBoard == /\ app.at = "/leaders" /\ app.loggedIn
               /\ Acts(Local(app, [app.view EXCEPT !.month = 1 - @]))

\* The layouts of the course in the address, and the one that is shown.
LayoutsShown ==
    IF app.at = "/courses" /\ app.arg # <<>>
    THEN UNION {Range(g.layouts) : g \in {g \in Range(app.courses) : g.name = app.arg[1]}} ELSE {}
\* A mutant: always the first layout.
FirstLayout == (CHOOSE g \in Range(app.courses) : g.name = app.arg[1]).layouts[1]
ShownLayout ==
    IF Len(app.arg) = 2 THEN CHOOSE l \in LayoutsShown : l.id = app.arg[2]
    ELSE (CHOOSE g \in Range(app.courses) : g.name = app.arg[1]).layouts[1]
CourseIsShown ==
    /\ LayoutsShown # {}
    /\ Len(app.arg) = 2 => \E l \in LayoutsShown : l.id = app.arg[2]

CoursesPage ==
    /\ app.at = "/courses" /\ app.arg = <<>>
    /\ \/ \E f \in Courses \cup {""} : Acts(fetchCourses(app, f))
       \/ \E g \in Range(app.courses) : GoTo("/courses", <<g.name>>)
CourseComponent ==
    /\ CourseIsShown
    /\ \E l \in LayoutsShown : GoTo("/courses", <<app.arg[1], l.id>>)
NewCourse ==
    /\ app.at = "/courses" /\ Len(db.layouts) + Len(app.net) < MaxLayouts
    /\ \/ app.arg = <<>> /\ \E name \in Courses : Acts(createCourse(app, name))
       \/ CourseIsShown /\ Acts(createCourse(app, app.arg[1]))
EditHole(h) ==
    /\ CourseIsShown /\ app.view.hole = <<>>
    /\ Acts([app EXCEPT !.view.hole = <<h, ShownLayout.holes[h]>>])
\* "Save and next": the hole in the dialogue replaces the hole with its number
\* in the layout that is shown; the next hole of that layout is opened.
SaveAndNext ==
    /\ CourseIsShown /\ app.view.hole # <<>>
    /\ LET h == app.view.hole[1]
           holes == [ShownLayout.holes EXCEPT ![h] = [app.view.hole[2] EXCEPT !.edited = TRUE]]
           next == IF h = 2 THEN app.view.hole ELSE <<h + 1, ShownLayout.holes[h + 1]>>
       IN  app' = updateCourse([app EXCEPT !.view.hole = next], ShownLayout.id, holes)
    /\ Moves
    /\ calm' = (calm /\ ~InFlight)
    /\ plainSave' = (plainSave \/ Len(app.arg) = 1)
    /\ UNCHANGED db
CloseHole == app.view.hole # <<>> /\ Acts([app EXCEPT !.view.hole = <<>>])

Tournaments ==
    /\ app.at = "/tournaments" \/ (app.at \in {"/user", "/users"} /\ app.view.tab = 5)
    /\ \E id \in DOMAIN db.cups : GoTo("/tournament", <<id>>)
NewTournament ==
    /\ app.at = "/tournaments" \/ (app.at \in {"/user", "/users"} /\ app.view.tab = 5)
    /\ Len(db.cups) + Len(app.net) < MaxCups
    /\ Acts(createTournament(app))
Tournament ==
    /\ app.at = "/tournament" /\ app.cup # NoCup
    /\ \/ app.user \notin app.cup.players /\ Acts(addPlayerToTournament(app, app.arg[1]))
       \/ app.user = app.cup.admin /\ Acts(calculatePrices(app, app.arg[1]))
AddCourse ==
    /\ app.at = "/tournament" /\ app.cup # NoCup /\ app.user = app.cup.admin
    /\ \/ \E f \in Courses : Acts(fetchCourses(app, f))
       \/ \E g \in Range(app.courses) : \E l \in Range(g.layouts) :
             Acts(addCourseToTournament(app, app.arg[1], l.id))

Notifications == \E n \in Ids : app.notes[n] > 0 /\ Acts(hideNotification(app, n))

\* The window gets the focus back.
Focus == Acts(connectToHub(fetchUserDetails(app, TRUE)))

\* The page is loaded again, or through a link that carries somebody's token;
\* what the old page had asked is still served, and answered to nobody.
Sent == Picked(app.net, {i \in DOMAIN app.net : app.net[i].phase = "sent"})
LoadPage(at, link) ==
    LET old == [i \in DOMAIN Sent |-> [Sent[i] EXCEPT !.page = FALSE]]
    IN  /\ Moves
        /\ at \in visit.pages \ {"/year", "/users", "/tournament"}
        /\ app' = [Load(app.saved, at, link) EXCEPT !.net = old \o @]
        /\ calm' = (Sent = <<>> /\ (link \in {NoOne, app.saved} \/ app.saved = NoOne))
        /\ UNCHANGED <<db, plainSave>>

RoundStarts(u) ==
    /\ Moves
    /\ visit.rounds /\ ~db.account[u].active
    /\ db' = [db EXCEPT !.account[u].active = TRUE]
    /\ IF app.hub = u
       THEN \E n \in Ids : app' = showNotification(Dispatch(app, NewRoundCreated(app)), n)
       ELSE UNCHANGED app
    /\ calm' = (calm /\ ~InFlight)
    /\ UNCHANGED plainSave
RoundDeleted(u) ==
    /\ Moves
    /\ db.account[u].active
    /\ db' = [db EXCEPT !.account[u].active = FALSE]
    /\ app' = IF app.hub = u THEN Push(Dispatch(app, RoundWasDeleted(app)), "/", <<>>) ELSE app
    /\ calm' = (calm /\ ~InFlight)
    /\ UNCHANGED plainSave
HubLost == app.hub # NoOne /\ Acts([app EXCEPT !.hub = NoOne])

------------------------------------------------------------------------------
Init ==
    /\ visit \in Visits
    /\ \E saved \in Users \cup {NoOne}, at \in visit.pages \ {"/year", "/users", "/tournament"} :
          app = Load(saved, at, NoOne)
    /\ \E admin \in Users, members \in {Users} \cup {Users \ {u} : u \in Users} :
          db = [account |-> [u \in Users |-> IF u \in members THEN OldAccount ELSE NewAccount],
               members |-> members,
                likes |-> [i \in 1..NumItems |-> {}],
                layouts |-> <<NewLayout(2, Oak, admin), NewLayout(1, Oak, admin)>>,
                cups |-> <<NewCup(1, admin)>>]
    /\ app.saved \in db.members \cup {NoOne}
    /\ moves = 0 /\ rush = 0 /\ calm = TRUE /\ plainSave = FALSE

Pages ==
    \/ NavBar \/ NavMenu \/ Home \/ Feed \/ AddFriends \/ Friends
    \/ Login \/ Signup \/ ResetPassword \/ UserSettings \/ UpdateEmailForm
    \/ User \/ UserRounds \/ UserStats \/ UserYearSummary \/ LeaderBoard
    \/ CoursesPage \/ CourseComponent \/ NewCourse \/ (\E h \in 1..2 : EditHole(h))
    \/ Tournaments \/ NewTournament \/ Tournament \/ AddCourse
Person ==
    \/ ~Covered /\ Pages
    \/ NewsMessages \/ InitSettings \/ SaveAndNext \/ CloseHole
    \/ Notifications \/ Focus
    \/ \E at \in visit.pages, link \in Users \cup {NoOne} : LoadPage(at, link)

Next ==
    \/ \E i \in DOMAIN app.net :
          \/ Serve(i)
          \/ \E phase \in {"error", "denied", "lost"} : Fail(i, phase)
          \/ \E n \in Ids : Answer(i, n)
    \/ LogoutTimer
    \/ \E n \in Ids : ExpireNotification(n)
    \/ Person
    \/ \E u \in Users : RoundStarts(u) \/ RoundDeleted(u)
    \/ HubLost

Spec == Init /\ [][Next]_vars

------------------------------------------------------------------------------
(* Properties.                                                                *)

\* Everything asked has been answered, one thing at a time, to a person who is
\* logged in.
Settled == calm /\ ~InFlight /\ app.loggedIn

\* What the person reads of their own account is what is stored, whoever used
\* the browser before: settings, friends, and, while the hub is connected in
\* their name, whether a round is going on.
DetailsAgree ==
    Settled =>
      LET mine == db.account[app.user]
      IN  /\ app.details.fetched
          /\ app.details.set = mine.set
          /\ app.details.friends = mine.friends
          /\ app.hub = app.user => app.details.active = mine.active

\* The feed on the front page is its pages from the first to the one reached,
\* each item once and in order, with everybody's likes, and it knows its end.
FeedAgrees ==
    Settled /\ app.at = "/" =>
      /\ app.feed.items = [n \in 1..app.view.feed \cap 1..NumItems |->
                             [id |-> n, likes |-> db.likes[n]]]
      /\ app.feed.last = (app.view.feed >= NumItems)

\* Every component of the page shows the answer to what it asked for last, and
\* not that to an earlier question or to a question of another page.
PagesShowWhatTheyAsk ==
    Settled => \A f \in Range(Fetches(app)) :
                  f.op \in DOMAIN NothingShown => app.shown[f.op] = f.arg

\* A tournament is shown as it is stored, and so is every layout of a course,
\* once and under its course.
CatalogAgrees ==
    Settled =>
      /\ app.at = "/tournament" => app.cup = db.cups[app.arg[1]]
      /\ app.at = "/courses" => \A g \in Range(app.courses) :
            /\ Range(g.layouts) \subseteq {l \in Range(db.layouts) : l.course = g.name}
            /\ IsInjective(g.layouts)

\* A hole that is edited is a hole of the layout that is saved, as long as the
\* address names the layout. (It need not be otherwise: the layout that was
\* saved goes to the end, and the page shows the first.)
EditsStayInTheirLayout ==
    ~plainSave =>
      \A l \in Range(db.layouts), h \in 1..2 : l.holes[h].of = l.id
=============================================================================
