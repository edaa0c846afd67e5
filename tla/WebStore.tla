------------------------------- MODULE WebStore -------------------------------
(* The stores of the web client, the requests their functions make, its hub   *)
(* connection and the state of the page that is open. A client c is a record; *)
(* a function of a store is an operator from a client to a client. What       *)
(* follows an await is an answer: to the page that asked ("page"), to the tab *)
(* after that page has gone ("tab"), to nobody once it has been cancelled or  *)
(* the tab was loaded again.                                                  *)
EXTENDS Integers, Sequences, FiniteSets, SequencesExt

CONSTANTS Users, NoOne

ASSUME NoOneAssumption == NoOne \notin Users

NoDetails == [who |-> NoOne, active |-> 0]
NoRound   == [id |-> 0, completed |-> FALSE]
NoCup     == [id |-> 0, players |-> {}, courses |-> {}, prices |-> {}, admin |-> NoOne]
NoProfile == [who |-> NoOne, achievements |-> NoOne, rounds |-> <<>>]

\* The local state of a page. `ask` is what the person has chosen to look at
\* and `got` what the list under it is a list of.
Fresh(u) == [page |-> 1, loaded |-> {}, items |-> <<>>, last |-> FALSE, busy |-> FALSE,
             failed |-> FALSE, ask |-> 0, got |-> -1, step |-> "course", layout |-> 0,
             players |-> {u}, starting |-> FALSE]

StartStore(saved, at, arg) ==
    [saved |-> saved, user |-> saved, details |-> NoDetails, loginError |-> FALSE,
     round |-> NoRound, recent |-> NoOne, pace |-> 0, courseStats |-> 0, roundStats |-> 0,
     courses |-> {}, cups |-> {}, cup |-> NoCup, profile |-> NoProfile,
     busy |-> {}, err |-> {}, hub |-> NoOne, inbox |-> <<>>, net |-> <<>>,
     at |-> at, arg |-> arg, view |-> Fresh(saved)]

------------------------------------------------------------------------------
(* Requests carry the token localStorage holds when they are made.            *)

Request(op, arg, who) ==
    [op |-> op, arg |-> arg, who |-> who, phase |-> "sent", data |-> <<>>, to |-> "page"]
Asks(c, op, arg) == [c EXCEPT !.net = Append(@, Request(op, arg, c.saved))]
\* A store that says it is loading, and forgets its last error.
Loads(c, store, op, arg) ==
    Asks([c EXCEPT !.busy = @ \cup {store}, !.err = @ \ {store}], op, arg)
\* A page that does.
Waits(c, op, arg) == Asks([c EXCEPT !.view.busy = TRUE, !.view.failed = FALSE], op, arg)
\* A page whose button is disabled until the answer.
Starts(c, op, arg) == Asks([c EXCEPT !.view.starting = TRUE], op, arg)

login(c, u, right)        == Asks([c EXCEPT !.loginError = FALSE], "login", <<u, right>>)
register(c, u)            == Asks([c EXCEPT !.loginError = FALSE], "register", <<u>>)
\* After a login the details are awaited, and then the front page is opened.
fetchUserDetails(c, then) == Asks(c, "details", then)
\* A mutant: localStorage keeps the user.
logoutHere(c) == [c EXCEPT !.user = NoOne, !.details = NoDetails, !.loginError = FALSE]
logout(c) ==
    [c EXCEPT !.saved = NoOne, !.user = NoOne, !.details = NoDetails, !.loginError = FALSE]
clearActiveRound(c)       == [c EXCEPT !.details.active = 0]

fetchRound(c, id)         == Loads(c, "round", "round", <<id>>)
fetchActiveRound(c, id)   == Asks(c, "activeRound", <<id>>)
fetchRecentRounds(c, u)   == Asks(c, "recent", <<u>>)
fetchPaceData(c, id)      == Asks(c, "pace", <<id>>)
fetchCourseStats(c, id)   == Asks(c, "courseStats", <<id>>)
fetchRoundStats(c, id)    == Asks(c, "roundStats", <<id>>)
setScore(c, id)           == Asks(c, "score", <<id, c.user>>)
completeRound(c, id)      == Asks(c, "complete", <<id>>)
deleteRound(c, id)        == Asks(c, "delete", <<id>>)
skipHole(c, id)           == Asks(c, "skip", <<id>>)
leaveRound(c, id)         == Asks(c, "leave", <<id>>)
clearRound(c) ==
    [c EXCEPT !.round = NoRound, !.pace = 0, !.courseStats = 0, !.roundStats = 0]

fetchCourses(c, filter)   == Loads(c, "courses", "courses", <<filter>>)
createCourse(c, name)     == Starts(c, "createCourse", <<name>>)
fetchTournaments(c)       == Loads(c, "cups", "tournaments", <<>>)
fetchTournament(c, id)    == Loads(c, "cups", "tournament", <<id>>)
createTournament(c)       == Starts(c, "createTournament", <<>>)
joinTournament(c, id)     == Asks(c, "join", <<id, c.user>>)
addCourse(c, id, l)       == Asks(c, "addCourse", <<id, l>>)
calculatePrices(c, id)    == Asks(c, "calculatePrices", <<id>>)
fetchProfile(c, u)        == Loads(c, "profile", "profile", <<u>>)
fetchAchievements(c, u)   == Asks(c, "achievements", <<u>>)
fetchRounds(c, u, page)   == Asks(c, "rounds", <<u, page>>)
\* A mutant: the next profile finds that of the last one.
keepProfile(c) == c
clearProfile(c) ==
    [c EXCEPT !.profile = NoProfile, !.busy = @ \ {"profile"}, !.err = @ \ {"profile"}]

\* A mutant: a page that was asked for may be asked for again.
fetchPageAgain(c, page) ==
    Waits([c EXCEPT !.view.loaded = @ \cup {page}], "feed", <<page>>)
\* The feed page asks for a page once, until asking has failed.
fetchPage(c, page) ==
    IF page \in c.view.loaded THEN c
    ELSE Waits([c EXCEPT !.view.loaded = @ \cup {page}], "feed", <<page>>)
Toggled(set, u) == IF u \in set THEN set \ {u} ELSE set \cup {u}
Reacted(item, u) == [item EXCEPT !.likes = Toggled(@, u)]
Liked(c, id, u) ==
    [c EXCEPT !.view.items = [n \in DOMAIN @ |->
        IF @[n].id = id THEN Reacted(@[n], u) ELSE @[n]]]
\* A like is shown before it is sent. If it fails it is taken back, for whoever
\* was the user then.
handleLike(c, id) == Asks(Liked(c, id, c.user), "like", <<id, c.user>>)

\* The hub connection is made with the token localStorage holds.
connectHub(c)    == IF c.hub = NoOne THEN [c EXCEPT !.hub = c.saved, !.inbox = <<>>] ELSE c
\* A mutant: the connection outlives its page.
keepHub(c)       == c
disconnectHub(c) == [c EXCEPT !.hub = NoOne, !.inbox = <<>>]

\* What the hub says about any round is about the round shown, unless it is the
\* deletion of another one.
\* A mutant: only the page of a round takes it.
onRoundUpdatedOnPage(c, r) == IF c.at = "/rounds" THEN [c EXCEPT !.round = r] ELSE c
onRoundUpdated(c, r)  == [c EXCEPT !.round = r]
\* A mutant: a round that is shown stays.
onRoundDeletedElsewhere(c, id) == c
onRoundDeleted(c, id) == IF c.round.id = id THEN [c EXCEPT !.round = NoRound] ELSE c

------------------------------------------------------------------------------
(* What the effects of a page ask for, in their order; an effect runs again   *)
(* when its inputs change, after the cleanup of its last run.                 *)

Fetch(op, arg) == [op |-> op, arg |-> arg]
Wizard(c) == IF c.view.step = "course"  THEN <<Fetch("layouts", <<c.view.ask>>)>>
        ELSE IF c.view.step = "players" THEN <<Fetch("people", <<c.view.ask>>)>> ELSE <<>>
Maybe(f, test, g) == IF test THEN <<f, g>> ELSE <<f>>

Landing(c) == Maybe(Fetch("home", <<c.user>>),
                    c.details.active # 0, Fetch("activeRound", <<c.details.active>>))

Fetches(c) ==
    CASE c.at = "/" /\ c.user # NoOne -> Landing(c)
      [] c.at = "/rounds"      -> Maybe(Fetch("round", c.arg),
                                        c.round.completed, Fetch("roundStats", c.arg))
      [] c.at = "/feed"        -> <<Fetch("feed", <<c.view.page>>)>>
      [] c.at = "/leaders"     -> <<Fetch("leaderboard", <<c.view.ask, c.view.page>>)>>
      [] c.at = "/profile"     -> <<Fetch("profile", <<c.user>>)>>
      [] c.at = "/users"       -> <<Fetch("profile", c.arg)>>
      [] c.at = "/courses"     -> <<Fetch("courses", <<c.view.ask>>)>>
      [] c.at = "/course"      -> <<Fetch("courses", c.arg)>>
      [] c.at = "/tournaments" -> <<Fetch("tournaments", <<>>)>>
      [] c.at = "/tournament"  -> Maybe(Fetch("tournament", c.arg),
                                        c.view.ask # 0, Fetch("courses", <<c.view.ask>>))
      [] c.at = "/new-round"   -> Wizard(c)
      [] OTHER                 -> <<>>

ProfileOf(c, u) == fetchRounds(fetchAchievements(fetchProfile(c, u), u), u, 1)

Effect(c, f) ==
    CASE f.op = "home"        -> fetchRecentRounds(fetchUserDetails(connectHub(c), <<>>), f.arg[1])
      [] f.op = "activeRound" -> fetchActiveRound(c, f.arg[1])
      [] f.op = "round"       -> LET id == f.arg[1] IN
             fetchCourseStats(fetchPaceData(fetchRound(connectHub(c), id), id), id)
      [] f.op = "roundStats"  -> fetchRoundStats(c, f.arg[1])
      [] f.op = "feed"        -> fetchPage(c, f.arg[1])
      [] f.op = "profile"     -> ProfileOf(c, f.arg[1])
      [] f.op = "courses"     -> fetchCourses(c, f.arg[1])
      [] f.op = "tournaments" -> fetchTournaments(c)
      [] f.op = "tournament"  -> fetchTournament(c, f.arg[1])
      [] f.op = "people" /\ f.arg[1] = 0 -> [c EXCEPT !.view.got = 0]
      [] OTHER                -> Waits(c, f.op, f.arg)

\* The lists a person chooses from.
Lists == {"leaderboard", "layouts", "people"}
\* A mutant: only the page that goes stops listening.
IgnoredLate(c, op) == c
\* The answers to an effect that sets a flag when it is cleaned up.
Ignored(c, op) ==
    [c EXCEPT !.net = [i \in DOMAIN @ |->
        IF @[i].op = op THEN [@[i] EXCEPT !.to = "nobody"] ELSE @[i]]]
Cleanup(c, f) ==
    CASE f.op = "home"    -> disconnectHub(c)
      [] f.op = "round"   -> clearRound(disconnectHub(c))
      [] f.op = "profile" -> clearProfile(c)
      [] f.op \in Lists   -> Ignored(c, f.op)
      [] OTHER            -> c
Gone(c) ==
    [c EXCEPT !.net = [i \in DOMAIN @ |->
        IF @[i].to = "page" THEN [@[i] EXCEPT !.to = "tab"] ELSE @[i]]]

\* A page has at most two effects. Those that are over are cleaned up, and then
\* those that are new run, in their order.
Ends(c, effects, n, over) ==
    IF n \in DOMAIN effects /\ effects[n] \in over THEN Cleanup(c, effects[n]) ELSE c
Runs(c, effects, n, new) ==
    IF n \in DOMAIN effects /\ effects[n] \in new THEN Effect(c, effects[n]) ELSE c
Cleaned(c, effects, over) == Ends(Ends(c, effects, 1, over), effects, 2, over)
Started(c, effects, new)  == Runs(Runs(c, effects, 1, new), effects, 2, new)

Render(c0, c1) ==
    LET before == Range(Fetches(c0))
        after  == Range(Fetches(c1))
    IN  IF c0.at = c1.at
        THEN Started(Cleaned(c1, Fetches(c0), before \ after), Fetches(c1), after \ before)
        ELSE Started(Cleaned(Gone(c1), Fetches(c0), before), Fetches(c1), after)

------------------------------------------------------------------------------
(* Routes: a page for people who are logged in sends the others to the login  *)
(* page, and the login page sends whoever is logged in to the front page.     *)

Open  == {"/", "/login", "/register"}
Opened(c, at, arg) == [c EXCEPT !.at = at, !.arg = arg, !.view = Fresh(c.user)]
Routed(c) ==
    IF c.user = NoOne /\ c.at \notin Open THEN Opened(c, "/login", <<>>)
    ELSE IF c.user # NoOne /\ c.at \in {"/login", "/register"} THEN Opened(c, "/", <<>>)
    ELSE c
Dispatch(c0, c1) == Render(c0, Routed(c1))
Push(c, at, arg) ==
    Dispatch(c, IF c.at = at THEN [c EXCEPT !.arg = arg] ELSE Opened(c, at, arg))
Local(c, view) == Dispatch(c, [c EXCEPT !.view = view])

\* A tab is loaded: loadFromStorage, then the page of its address.
Load(saved, at, arg) ==
    LET c == Routed(StartStore(saved, at, arg))
    IN  Started(c, Fetches(c), Range(Fetches(c)))
=============================================================================
