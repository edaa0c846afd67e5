----------------------------- MODULE ClassicStore -----------------------------
(* The Redux store of the classic web client, with the requests its thunks    *)
(* make and what its reducers do with the answers. A client c is one record:  *)
(* the slices of the store, the requests in flight, the timers, the hub, what *)
(* localStorage holds and the address shown. A thunk is an operator from a    *)
(* client to a client; the constant `Users` are the people with an account.   *)
EXTENDS Integers, Sequences, FiniteSets, SequencesExt

CONSTANTS Users, NoOne, Ids     \* Ids: the numbers a notification may draw

Settings == {"country", "emoji", "simpleScoring", "email", "newsSeen",
             "settingsInitialized"}
Blank    == [s \in Settings |-> 0]
Unknown  == [fetched |-> FALSE, friends |-> {}, active |-> FALSE,
             set |-> [Blank EXCEPT !.settingsInitialized = 1]]
NoFeed   == [loaded |-> FALSE, items |-> <<>>, last |-> FALSE]
NoCup    == [id |-> 0, players |-> {}, courses |-> {}, prices |-> {}, admin |-> NoOne]
NothingShown == [rounds |-> <<>>, stats |-> <<>>, achievements |-> <<>>,
                 tournaments |-> <<>>, leaderboard |-> <<>>,
                 yearSummary |-> <<>>, previousYear |-> <<>>]
\* The local state of the components of a page when they are mounted.
Fresh == [feed |-> 1, tab |-> 1, rounds |-> 1, months |-> 1, month |-> 0, hole |-> <<>>]

\* A page is loaded with `saved` in localStorage: the store starts from it,
\* and is asked at once to connect to the hub.
StartStore(saved, at) ==
    [loggedIn |-> saved # NoOne, user |-> saved, failed |-> FALSE,
     details |-> Unknown, profiles |-> [u \in Users |-> <<>>], searched |-> {},
     feed |-> NoFeed, shown |-> NothingShown, courses |-> <<>>, cup |-> NoCup,
     notes |-> [i \in Ids |-> 0], alarms |-> [i \in Ids |-> 0], logouts |-> 0,
     hub |-> saved, saved |-> saved, net |-> <<>>,
     at |-> at, arg |-> <<>>, view |-> Fresh]

------------------------------------------------------------------------------
(* Requests. A thunk that needs the user reads the token from the store and   *)
(* does nothing when nobody is logged in.                                     *)

Request(op, arg, who) ==
    [op |-> op, arg |-> arg, who |-> who, phase |-> "sent", data |-> <<>>, page |-> TRUE]
AsksFreely(c, op, arg) == [c EXCEPT !.net = Append(@, Request(op, arg, NoOne))]
Asks(c, op, arg) ==
    IF c.loggedIn /\ c.user # NoOne
    THEN [c EXCEPT !.net = Append(@, Request(op, arg, c.user))] ELSE c

\* The page of somebody without a name in its address is the user's own.
Whose(c, u) == IF u = NoOne THEN c.user ELSE u

createUser(c, u)               == AsksFreely(c, "createUser", <<u>>)
requestLogin(c, u, right)      == AsksFreely(c, "login", <<u, right>>)
forgotPassword(c)              == AsksFreely(c, "forgotPassword", <<>>)
setPassword(c)                 == AsksFreely(c, "setPassword", <<>>)
setSettingsInitialized(c)      == Asks(c, "set", <<"settingsInitialized", 1>>)
setSimpleScoring(c, v)         == Asks(c, "set", <<"simpleScoring", v>>)
setCountry(c, v)               == Asks(c, "set", <<"country", v>>)
setEmoji(c, v)                 == Asks(c, "set", <<"emoji", v>>)
setNewsSeen(c)                 == Asks(c, "set", <<"newsSeen", 1>>)
changePassword(c)              == Asks(c, "changePassword", <<>>)
changeEmail(c, v)              == Asks(c, "changeEmail", <<"email", v>>)
toggleLike(c, item)            == Asks(c, "toggleLike", <<item>>)
addFriend(c, u)                == Asks(c, "addFriend", <<u>>)
searchUsers(c, length)         == IF length < 3 THEN c ELSE Asks(c, "searchUsers", <<>>)
fetchUserRounds(c, page, u)    == Asks(c, "rounds", <<page, Whose(c, u)>>)
fetchUserStats(c, months, u)   == Asks(c, "stats", <<months, Whose(c, u)>>)
fetchUserAchievements(c, u)    == Asks(c, "achievements", <<Whose(c, u)>>)
fetchUserYearSummary(c, u, y)  == Asks(c, "yearSummary", <<u, y>>)
fetchLeaderboard(c, month)     == Asks(c, "leaderboard", <<month>>)
fetchTournaments(c, u)         == Asks(c, "tournaments", <<u>>)
fetchTournament(c, id)         == Asks(c, "tournament", <<id>>)
createTournament(c)            == Asks(c, "createTournament", <<>>)
addCourseToTournament(c, id, l) == Asks(c, "addCourse", <<id, l>>)
addPlayerToTournament(c, id)   == Asks(c, "addPlayer", <<id>>)
calculatePrices(c, id)         == Asks(c, "calculatePrices", <<id>>)
fetchCourses(c, filter)        == Asks(c, "courses", <<filter>>)
createCourse(c, name)          == Asks(c, "createCourse", <<name>>)
updateCourse(c, l, holes)      == Asks(c, "updateCourse", <<l, holes>>)

\* A mutant: details are kept once they are there.
fetchUserDetailsOnce(c, onlyIfDisconnected) ==
    IF c.details.fetched THEN c ELSE Asks(c, "details", <<>>)
fetchUserDetails(c, onlyIfDisconnected) ==
    IF onlyIfDisconnected /\ c.hub # NoOne THEN c ELSE Asks(c, "details", <<>>)
\* Somebody's details are fetched once.
fetchMoreUserDetails(c, u) ==
    IF c.profiles[u] # <<>> THEN c ELSE Asks(c, "moreDetails", <<u>>)
\* A mutant: what is shown is never cleared.
fetchFeedOnto(c, page) == Asks(c, "feed", <<page>>)
\* The first page of the feed clears what is shown.
fetchFeed(c, page) ==
    Asks(IF c.loggedIn /\ c.feed.loaded /\ page = 1 THEN [c EXCEPT !.feed = NoFeed] ELSE c,
         "feed", <<page>>)

connectToHub(c) == IF c.hub = NoOne /\ c.loggedIn THEN [c EXCEPT !.hub = c.saved] ELSE c

showNotification(c, id) == [c EXCEPT !.notes[id] = @ + 1, !.alarms[id] = @ + 1]
hideNotification(c, id) == [c EXCEPT !.notes[id] = 0]

------------------------------------------------------------------------------
(* Reducers: what a successful answer r does to the store.                    *)

LoginSucceed(c, u) == [c EXCEPT !.loggedIn = TRUE, !.user = u, !.failed = FALSE]
LoginFailed(c)     == [c EXCEPT !.loggedIn = FALSE, !.failed = TRUE]
LogUserOut(c)      == [c EXCEPT !.loggedIn = FALSE, !.failed = FALSE]

SetDetail(c, name, value) == [c EXCEPT !.details.set[name] = value]
NewRoundCreated(c) == [c EXCEPT !.details.active = TRUE]
RoundWasDeleted(c) == [c EXCEPT !.details.active = FALSE]
FriendAdded(c, u)  == [c EXCEPT !.searched = {}, !.details.friends = @ \cup {u}]
UsersFound(c, us)  == [c EXCEPT !.searched = us \ c.details.friends]

\* usersDetails is appended to, and read from its start.
WithProfile(c, u, country) ==
    [c EXCEPT !.profiles[u] = IF @ = <<>> THEN <<country>> ELSE @]
DetailsFetched(c, u, d) ==
    WithProfile([c EXCEPT !.details = [fetched |-> TRUE, friends |-> d.friends,
                                       active |-> d.active, set |-> d.set]],
                u, d.set.country)

FeedFetched(c, page) ==
    [c EXCEPT !.feed = [loaded |-> TRUE, items |-> @.items \o page.items, last |-> page.last]]
LikeToggled(c, id) ==
    LET Toggled(i) == [i EXCEPT !.likes = IF c.user \in @ THEN @ \ {c.user} ELSE @ \cup {c.user}]
    IN  [c EXCEPT !.feed.items = [n \in DOMAIN @ |-> IF @[n].id = id THEN Toggled(@[n]) ELSE @[n]]]

\* One slot per kind of page, replaced by whatever is answered last.
Shows(c, slot, arg) == [c EXCEPT !.shown[slot] = arg]

\* The members of s at the places in S, in their order.
Picked(s, S) ==
    [n \in 1..Cardinality(S) |-> s[CHOOSE i \in S : Cardinality({j \in S : j <= i}) = n]]

\* Courses are kept by name, in the order of their first layouts, each with its
\* layouts.
Grouped(layouts) ==
    LET Of(name) == {i \in DOMAIN layouts : layouts[i].course = name}
        firsts == {i \in DOMAIN layouts : \A j \in Of(layouts[i].course) : i <= j}
        Group(l) == [name |-> l.course, layouts |-> Picked(layouts, Of(l.course))]
    IN  Picked([i \in DOMAIN layouts |-> Group(layouts[i])], firsts)
\* A mutant: the old copy of the layout stays.
CourseUpdatedTwice(groups, l) ==
    [i \in DOMAIN groups |->
        IF groups[i].name = l.course THEN [groups[i] EXCEPT !.layouts = Append(@, l)] ELSE groups[i]]
\* The layout that was saved goes to the end of its course.
CourseUpdated(groups, l) ==
    LET Others(ls) == {i \in DOMAIN ls : ls[i].id # l.id}
        Saved(ls) == IF Others(ls) = DOMAIN ls THEN ls
                     ELSE Append(Picked(ls, Others(ls)), l)
    IN  [i \in DOMAIN groups |-> [groups[i] EXCEPT !.layouts = Saved(@)]]
CourseCreated(groups, l) ==
    IF \E i \in DOMAIN groups : groups[i].name = l.course
    THEN [i \in DOMAIN groups |->
            IF groups[i].name = l.course
            THEN [groups[i] EXCEPT !.layouts = <<l>> \o @] ELSE groups[i]]
    ELSE <<[name |-> l.course, layouts |-> <<l>>]>> \o groups

TournamentReduced(c, r) ==
    IF c.cup = NoCup /\ r.op # "tournament" THEN c ELSE
    CASE r.op = "tournament"      -> [c EXCEPT !.cup = r.data]
      [] r.op = "addCourse"       -> [c EXCEPT !.cup.courses = @ \cup {r.data}]
      [] r.op = "addPlayer"       -> [c EXCEPT !.cup.players = @ \cup {r.who}]
      [] r.op = "calculatePrices" -> [c EXCEPT !.cup.prices = r.data]
      [] OTHER                    -> c
=============================================================================
