# discman.live: specifications

TLA+ models of discman.live, a disc golf score keeper: an ASP.NET Core server
(`src/src/Web`, MediatR commands, EF Core over PostgreSQL, a SignalR hub,
NServiceBus over RabbitMQ) and its two web clients. Every definition is translated
from the source; `PROJECT.json` maps each one to the lines it stands for.

Run `tlc -workers 2 -config X.cfg M` for a model, `tlapm M.tla` for a proof.

## 1. The system

| Component | State | Operations | Talks to |
|---|---|---|---|
| Rounds (`Rounds/Domain`, `Rounds/Commands`) | `rounds` with `player_scores`, `hole_scores`, `player_signatures`, ... | start, score, complete, leave, delete, add/delete hole, save course | publishes RoundWasStarted/Completed/Deleted, ScoreWasUpdated; pushes to the hub |
| Clean-up worker (`UpdateInActiveRoundsWorker`) | none of its own | every 12 h closes or soft-deletes rounds older than two days | the same rows, without publishing |
| Hub (`RoundsHub`, `HubExtensions`) | groups per round, `Spectators` of a round | spectator joined/left, pushes | rows of rounds, clients |
| Users (`Users/Commands`) | `users` (with PostgreSQL's `xmin` as concurrency token) | sign up, log in, settings, friends | publishes FriendWasAdded, NewUserWasCreated |
| Ratings (`UpdateRatingOnRoundCompleted`, `UpdateRatingsCommandHandler`) | `users.elo`, `user_ratings` | rate the players of a completed round | consumes RoundWasCompleted, sends itself a command |
| Achievements (`EvaluateAchievementsOnCompetedRound`) | achievements of a round | evaluate on completion | consumes RoundWasCompleted, publishes UserEarnedAchievement |
| Feeds (`Feeds/Handlers`) | `global_feed_items`, `user_feed_items` | one handler per event | consumes all events |
| Password reset | `reset_password_requests` | initiate, reset, hourly clean-up | e-mail |
| E-mail reminders | `users.last_email_sent` | a daily reminder | e-mail |
| Event bus | queue, delayed and error queues | deliver at least once, retry, give up | all handlers, one consumer |
| Tournaments | players, courses, prices of a tournament | create, join, add course, compute prices | rounds played on its courses |
| Courses, leaderboard, caches | courses, ratings, process-wide memory caches | edit, rate, read | rounds |
| Web client (`new-frontend`) | Zustand stores for session, round, courses, tournaments, profile; state of each page; `localStorage` | pages with effects and clean-ups, commands, responses and pushes in any order | hub, HTTP |
| Classic web client (`ClientApp`) | one Redux store, state of components, `localStorage` | thunks, reducers, timers, middleware of the hub | hub, HTTP |
| Mobile client (`src/mobile`) | a copy of the active round, in Expo | the same protocol | hub, HTTP |
| `src/next` | event-sourced rewrite, not wired in | replay, decide | - |

**Interaction.** HTTP commands, hub calls, message handlers and hosted workers
share nothing but the database; each has a DbContext of its own, so they interact
through what one loads and another saves. Events go to the bus after the commit,
without an outbox.

**What is hard here.** Statement-level interleavings of load and save; rows
written back as they were loaded (`rounds`, no token) or refused (`users`,
`xmin`); the event lost between commit and publish, or published twice; a worker
that decides on an old read; at-least-once delivery with retries into handlers
that are not all idempotent; pushes and responses that reach a client out of
order, or after the page, the choice or the person they were for has gone.

**What makes each component correct.** Rounds: a round is completed exactly when
all players have signed, announced then and not otherwise; scores, cards and
players never come apart; a deleted round stays deleted; none stays open for
ever. Users: no setting, friendship or rating is overwritten by a late save.
Feeds: one item per event, none that points nowhere. Password reset: a link works
once, for a limited time. Clients: what a page shows converges to what is stored,
is about what the page is about, and is the person's own.

## 2. Modules

| Module | What it is |
|---|---|
| `RoundStore` | one stored round under all its commands, statement by statement |
| `RoundLifecycle` | the same round when every command takes effect at once |
| `RoundStoreProofs` | theorems about RoundStore; as long as requests do not overlap, that it implements RoundLifecycle |
| `UserStore` | the users table under its commands, the consumer and the e-mail worker |
| `UserTable` | the users table when every command takes effect at once |
| `UserStoreProofs` | theorems about UserStore, the refinement of UserTable among them |
| `Accounts` | sign-up, e-mail addresses and the life of a password-reset link |
| `AccountsProofs` | theorems about the reset links and the names of Accounts |
| `Feeds` | the events of one round on the bus, and the feed items and ratings made from them |
| `FeedsProofs` | theorems about Feeds, whatever fails or overlaps |
| `FeedsOrderProofs` | theorems about Feeds in order and undisturbed |
| `LiveClient` | the web client's copy of a round, as several players play it |
| `LiveClientProofs` | theorems about LiveClient, and what its clients show when requests do not overlap and everything has arrived |
| `WebStore`, `WebApp` | one tab of the web client: its stores and effects; its pages, the server and the world |
| `WebAppProofs` | theorems about WebApp: whose tab it is, which choice its lists show, what the feed and the other pages show |
| `ClassicStore`, `ClassicApp` | the same of the classic client |
| `ClassicAppProofs` | theorems about ClassicApp: in which layout holes are saved, and what a person who waits is shown |
| `MCRoundStore`, `MCUserStore`, `MCAccounts`, `MCFeeds`, `MCLiveClient`, `MCWebApp`, `MCClassicApp` | instances for TLC (symmetry, values of functions, visits) |

### RoundStore

State: the row (`row`: completed, soft-deleted, spectators; `exists`), the owned
tables (`players`, `cards`, `scored`, `signatures`), and for each request and the
worker what it has loaded (`req[p]`). A request is `ReadRow` (the row),
`ReadSignatures` and `ReadCards` in either order (SplitQuery reads each collection
with a statement of its own), then its command from the checks to the commit in
one action, then `Publish`; `Abort` is a command whose check throws or whose
connection goes away, `Crash` a process that dies between commit and publish.

`Rounds.Update(round)` on a tracked entity writes every column of the row back
(`UpdateRow`), while child rows are written only where they changed; an UPDATE or
DELETE that meets no row fails the whole save: these are the conjuncts `exists`,
`<<user, hole>> \in cards`, `... \subseteq cards` of the commands. Two commands
with no effect on the modelled columns still write the row: `SaveCourse`, and
`EvaluateRound`, the handlers of RoundWasCompleted.

Data is abstracted to what the properties tell apart: a score is "registered" or
not, a hole is the identity of its row, names of courses and putt distances are
left out. `Fault` operators in the modules are wrong variants of an action; no
specification uses them, they only serve to show that a property notices.

### RoundLifecycle

Five variables, one action per promise; RoundStore without overlapping requests
is mapped on it (`Lifecycle` in RoundStore): `status` is computed from `exists`,
`deleted` and `isCompleted`, an event is `due` while its request is saved and not
yet published.

### UserStore and UserTable

As RoundStore, but `users` has `xmin` as concurrency token (`UserConfiguration`
lines 15-16): `SaveRows` demands that every row to be written carries the token it
was loaded with, and otherwise the command ends in `Abort`. The setters are one
action over an abstract set of columns; AddFriend loads its two users one after
the other and saves both; the feed handlers for scores and achievements add the
user to his own list of friends, which is what `Friends` being the list itself
does there; ratings are counted, not computed. UserTable is the same table
changed by atomic commands.

### Accounts

State: the tables `users` (identity, name, address, token) and
`reset_password_requests` (`links`, each with its `age`); for each request what
its look-ups have found (`req[r]`), one query to a step; the links the hourly
worker has loaded; mails sent and passwords changed, as history. CreateNewUser is
`CheckName`, `CheckEmail`, `InsertUser`; ChangeEmail `LoadUser`, `SaveEmail`;
InitiatePasswordReset `FindUser`, `SendMail`, `SaveLink`; ResetPassword
`FindLink`, `FindOwner`, `SavePassword`; the worker `WorkerLoads` and
`WorkerSaves` or `WorkerFails`. `Abort` is every way a request can end early:
SingleOrDefault that meets two rows, a stale token, a link that is gone.

Addresses are stored as typed by sign-up and looked up in lower case by the
reset, which is the function `Lower`; `NoEmail` is the address of those who gave
none. Time is counted in hours, and requests and clean-ups are taken to last less
than an hour, that is `Tick` waits for them. `Ids` and `Links` are large enough
for all that the bounded number of requests can create.

### Feeds

State: the round (`there`, `hidden` by the worker's flag, or `gone`) and its
scores; events that are committed and not yet published; the queue, the delayed
messages and the error queue; the attempt under way with the parts of its
handlers that have still to run (`left`) and what they have sent; the feed items,
an item standing for its row in `global_feed_items` with the copies in the
friends' feeds, since the code adds and removes them in one save.

The commands of the round are here only as far as they publish (RoundStore has
them statement by statement). Of the bus, which is not in the repository, the
model has what the configuration asks for: one endpoint, one message at a time,
every handler of a message in one attempt, sends that leave only when the attempt
ends, immediate and delayed retries, the error queue, and another delivery of
what was not acknowledged. The number of attempts is the constant `Attempts`. The
variable `ordered`, chosen at the start, says whether requests overlap, and so
whether events can overtake each other before they are published; in ordered
behaviours the bus fails nothing of itself either. `MaxFaults` bounds failures and
crashes together. `Overlapping` are the slots for scores used when `ordered` is
false.

### LiveClient

State: the stored round as far as clients see it (`card`, `completed`, `signed`,
`deleted`); of each player's client the copy it shows (`view`), the place in the
list of holes that is shown (`index`), the request it waits for (`req`) and the
pushes on their way to it (`inbox`); as history what its player meant
(`entered`), what was answered with success (`saved`), and whether he has looked
at another hole since (`wandered`).

A copy is what its request has loaded, with its own change; so responses and
pushes of overlapping requests may carry different copies and arrive in any order.
The holes of a copy are a list that is the course rotated by `offset`; the server
rotates it with the first score and no column keeps the order, so `Stored`, what
the next request loads, has offset 0. The commands of the server are here in two
steps, load and save, with the push as a third (RoundStore has them in full).
Entering a score is `SetScore` for a first score and for one that is edited; the
client has one request of a round at a time. `calm` is chosen at the start: either
a player acts only when all that was sent has arrived and nothing fails, or
requests overlap, fail and pushes are lost. `AnyStart` says whether the round may
start at another hole than its first.

### WebStore and WebApp

One tab of `new-frontend`. `app` is the client: the stores (`user`, `details`,
`round`, `courses`, `cup`, ...), the address (`at`, `arg`), the state of the page
that is mounted (`view`), what is under way (`net`, each request with whom it is
for and how it stands: sent, ok, error, denied or lost), the hub's user and its
calls on their way (`hub`, `inbox`), and `saved`, what `localStorage` holds. `db`
is the server. A function of a store is an operator from `app` to `app`
(`fetchRound(c, id)` sends, `Succeeded` is what comes after its `await`); React is
`Dispatch` and `Push` over `Opened` and `Cleanup`: after a change the effects whose
inputs have changed run, and what a page leaves behind is cleaned up as its
components do (no page has more than two effects: `Cleaned` and `Started` take them
one after the other). `to` says to which page a request belongs, for those whose answer
is dropped when the page has gone or has chosen again (the `cancelled` flags).

The scores of a round are one number that every change raises. The server takes
commands one at a time: its races are those of the other models. A *visit*
(`MCVisits`) bounds a behaviour: where it starts and with whom, which pages are
gone to, how many moves, how many of them in a rush, that is before all answers
are in, how many failures, and whether the page is loaded again, others play, or
another tab changes who is logged in. `calm` says that nobody was in a rush since
the page was loaded. `odd` collects what the properties except by name: failures
("failed", "lost", "denied", "error"), hub calls about another round than the one
shown ("stray"), a change missed while the hub was off ("missed"), "skip",
"leave", "logout" with a round in the store, "gap" (Load More after a page that
failed), "mix" (a like while a page is loaded), "swap" (another tab), "twice" (a
second login or sign-up while one is under way). Each of these is an observation
that TLC made: without the exception the property fails. That "twice" must count
sign-ups too came from the proof: while a registration is under way somebody logs
in, is answered, opens a round, and then the registration is answered; the tab is
the second user's and the hub connection still the first one's (`connectHub` returns
early, hub.ts:20).

### ClassicStore and ClassicApp

The same for `ClientApp`, as one Redux store with thunks: `Succeeded` and `Failed`
are what a thunk does with its answer, the reducers are the operators of
ClassicStore, `Render` runs the effects whose inputs are new (`Fetches` says what
the components of a page ask for). Timers are counters (`logouts`, the two
seconds after a failed login; `alarms`, the five of a notification) that go off
at any time. `calm` is also false after any failure and after a link with
somebody's token; `plainSave` says that a hole was saved from an address without a
layout. Some thunks read the body of any answer (`ReadsAnyBody`); what they would
make of the text of an error is left out. The playing of a round
(`store/Rounds.ts`) is not here.

## 3. Runs

| Run | Question | Bounds |
|---|---|---|
| `RoundStore_race` | what holds of a round when everything interleaves and processes die | 2 players, 2 holes, 2 requests at a time, 3 requests, worker |
| `RoundStore_serial` | does a round follow RoundLifecycle when requests do not overlap | 2 players, 2 holes, 5 requests, worker |
| `RoundStore_live` | is every round closed, every completion announced | 3 requests of the kinds that matter, fairness |
| `RoundStore_lostCompletion` | a violation: see Findings | 2 requests that sign |
| `UserStore_overlap` | does overlap lose or halve an update of users | 2 users, 2 columns, 2 requests, consumer, worker, 4 commands |
| `Accounts_race` | what look-ups without unique indexes still guarantee, and how long a link works | 3 identities, 2 names, 4 addresses (two of them one typed in two ways), 3 links, 2 requests at a time, 4 requests, 1 failed clean-up |
| `Accounts_sixtyMinutes` | a violation: see Findings | as `Accounts_race`, 2 requests |
| `Feeds_delivery` | does the feed show the card when nothing is disturbed; what still holds when events are lost, overtake, are retried and redelivered; does the consumer get through | 2 slots and 3 score requests, 1 completion, 2 attempts; when disturbed 1 slot and 1 failure or crash |
| `LiveClient_together` | are scores stored where they are shown, do clients agree and move together | 2 players, 3 holes, 8 requests one after the other, 4 that overlap |
| `LiveClient_anyStart` | a violation: see Findings | 2 players, 3 holes, up to 4 requests |
| `WebApp_visits` | does a tab show what its address and the server say, whatever was there before | 2 users, 3 rounds, 3 items, 2 courses, 19 visits of 2 to 7 moves |
| `ClassicApp_visits` | the same of the classic client | 2 users, 3 items, 2 courses with up to 3 layouts, 12 visits |

`MinStrokes` is 10 in the code and 1 or 2 in the runs, so that the worker meets
both sparse and played rounds with two holes. Two requests in flight, with the
worker beside them, give every order of two loads and two saves; the third request
makes a command observe what a race has left behind. `MaxRequests` bounds only how
many requests are sent; the server does not stop, and `CHECK_DEADLOCK FALSE` is
there because of that bound.

**What RoundStore_race shows.** In spite of last-writer-wins on the row, a round
is never shown completed without all signatures or the worker
(`CompletedIsJustified`), nobody's completion is announced early
(`AnnouncedWhenSigned`), a deleted round is announced once and stays gone
(`DeletedOnce`), the cards of all players have the same holes (`SameHolesForAll`),
and the announcements are at most as many as requests in flight
(`AnnouncedOncePerRequest`; two are possible, and ratings are then computed twice).
Three things hold only without overlap and are checked in `RoundStore_serial`: the
last signature completes, completed is for good (a part of `ImplementsLifecycle`:
RoundLifecycle has no step back), the worker deletes only sparse rounds.

**What Accounts_race shows.** However requests and the worker overlap, a link
changes one password once (`UsedAtMostOnce`), that of the account its mail was
meant for even if the address has moved to another (`ResetsOwnAccount`). It ends
(`LinksEnd`), at the latest three hours after it was made and an hour later for
each clean-up in a row that failed (`LinksExpire`): one link used while the worker
holds it fails the save for all of them. Names and pending resets can be
duplicated, but only by requests that look at the same time (`FewOfAKind`).

**What Feeds_delivery shows.** With events in order, a score that is corrected
again and again has at most one feed item, the right one (`FeedShowsScores`), and
only a round that is gone sends a message to the error queue
(`OnlyLateMessagesFail`); three scores for one hole are needed to see an item that
was left behind make the third message throw. Both are false once messages are
redelivered: a second item makes SingleOrDefault throw for good. What redelivery
cannot break is `NoRoundAfterItsEnd`, which rests on the single consumer, since the
round may be deleted between the load and the save of a handler; and
`RatedOncePerCompletion`, which rests on sends that wait for the end of the attempt.
`EventuallyDrained`: no message blocks the one consumer for ever. One fault with
two attempts reaches a retry, a redelivery and the error queue.

**What LiveClient_together shows.** In a round that starts at its first hole, a
score is stored for the hole its player saw, however old the copy he saw
(`ScoreLandsWhereShown`), and a client that shows the round as completed has signed
it, or all have (`CompletedHasReason`). When requests do not overlap, all clients
that show the round show what is stored (`SettlesOnStored`), and a player who has
not looked elsewhere is shown the first hole that is open to somebody, moved on by
the push of the last score if it was not his (`MovesWithGroup`). Eight requests
let two players score three holes and two more things happen; four that overlap
give two in flight and two that meet what they have left.

**What WebApp_visits shows.** Whoever waits for the answers sees on the page of a
round the round of its address as it is stored, with its own pace and statistics
(`RoundPageShowsItsRound`), and on the front page a card exactly of an active round
of theirs (`HomeShowsActiveRound`). In a rush and with failures too, the feed has
its items once and in order with the stored likes (`FeedStaysWhole`) and the choosers
show the last choice (`LatestChoiceIsShown`). A profile, a tournament, a list is
that of the address and of the person (`PagesShowTheirOwn`), and session,
`localStorage` and hub are of one user (`SessionIsOne`). Each property names what it
excepts. One exception was found by proving: the page of a tournament adds its own
user to the list when a request succeeds, but the request goes in the name
`localStorage` has by then, so after a login in another tab page and server differ
about who has joined; a visit of such a page with two tabs reaches this. For the
same reason the two properties about rounds except a login in another tab: the hub and
the answers are then another user's. And the page of a deleted round shows the front
page's card of it where that card missed the deletion, since nothing replaces it: the
request for the round fails. Round pages opened in a rush show the round that is
answered last
(`roundStore.ts:124`); a round that others start takes the page over
(`hub.ts:41`); whoever skips a hole keeps the old list, because the server leaves
the caller out of the push (`DeleteHole.cs:51`) and the client drops the answer
(`roundStore.ts:234`). Two users suffice for a person and another one; two rounds
and a third that others start, for a page and the round that replaces it; feeds
of three pages, for a page that fails before one that does not.

**What ClassicApp_visits shows.** For whoever waits: the person's settings, friends
and active round are the stored ones whoever used the browser before
(`DetailsAgree`), the feed is its pages so far, once and in order (`FeedAgrees`),
each component shows the answer to its last question (`PagesShowWhatTheyAsk`),
tournaments and layouts are shown as stored (`CatalogAgrees`), and an edited hole
is saved in its own layout if the address names one (`EditsStayInTheirLayout`; not
otherwise, since the saved layout moves to the end of the list,
`Courses.ts:216`, and the page shows the first). Only the last is promised to
somebody in a rush, whose answers are taken in whatever order they come.

**Fairness** (`FairSpec` of RoundStore). A request in flight is executed by a thread of the pool
(WF on its reads, its command or failure, its publish); time passes; the worker's
timer fires again every twelve hours, so it retries for ever: WF on waking, and SF
on its reads and clean-up since other requests may disturb them a finite number of
times. Commands of clients are not fair: nobody has to score or sign.
In Accounts requests end (WF on their steps or `Abort`), the clock runs and the
worker's timer fires (WF on its steps); nobody has to use a link. In Feeds the
process stays up: WF on publishing, receiving, the handlers or the failure of the
attempt, acknowledging, and the end of a delay. LiveClient, WebApp and ClassicApp
have only safety properties: what is to be seen *when all answers are in*.

## 4. Proofs

Checked by tlapm for all values of the constants, under the assumptions
`RoundStoreAssumption`, `UserStoreAssumption`, `AccountsAssumption`,
`FeedsAssumption`, `LiveClientAssumption`, `NumItemsAssumption`, `NoOneAssumption` and
`ClassicAppAssumption` (identities are distinct, sets of requests, users, slots and
players finite, the number of items of the feed natural). Type correctness is a theorem of
RoundStore, UserStore, Accounts and LiveClient and is not run again.

*RoundStoreProofs.* `TypeCorrect`; `NoOrphans` (inductive as it stands, given
types); `DeletedAtMostOnce`, by `DeleteInv`: at most one request is between a
committed delete and its publish, and none if it has been published;
`CompletionJustified`, `AnnouncementJustified` and `CardsAgree`, by one inductive
invariant `SignInv`. What a request saves depends on what it has loaded, so the
invariant speaks of the loaded copies (`SnapshotOK`): loaded signatures are a
subset of the stored ones, loaded players a superset of those that remain,
because signatures only grow and players only leave (`Monotone`); a copy that
says "completed" was justified when it was read and stays so; the cards loaded
are, restricted to the players that remain, uniform.

`FewAnnouncements`, by `CountInv`: what has been published and
the requests that still can announce the round (`Busy`) are together at most as
many as there are requests. Nobody joins them once all have signed, because
whoever loads the round from then on finds his own signature and returns early; the
step that needs care is the signature itself, after which nobody else is a
candidate but those who had loaded the round before.

In *RoundStoreProofs*, assuming `~Concurrent`, by `SerialInv`:
one request is under way at a time (`Alone`), and what it has loaded is what is
stored (`Fresh`), up to the collections it has not read yet. From it follow
`PlayedRoundsAreKept` (the strokes the worker counts are those of the round),
`SigningCompletes`, and `CommandsFollowLifecycle`: every commit is the action of
RoundLifecycle, everything else a stutter, also when the process dies and the event
is lost. RoundStore_lostCompletion shows that the assumption is needed.

*UserStoreProofs.* Optimistic concurrency as an invariant, `CopiesOK`: a copy never
has a token newer than its row, and equal tokens mean equal contents. Hence every
commit acts on the rows as they are (`Effect`), from which follow
`FriendshipIsMutual`, `RatingsAgree`, `AnnouncedFriends`, and `CommandsAreAtomic`:
UserStore implements UserTable.

*AccountsProofs.* `LinkUsedOnce` by `LinkInv`: a link that is in the table, or about
to be saved there, is the only one of its identity and has not been used; whoever
saves a password deletes the row with it, and fails if the row has gone.
`LinkResetsOwnAccount` by `OwnerInv`: a name never changes its account while the row
is there, so the account that a request has found by the name of a link is one its
mail was meant for (`MeantFor`). `LinkExpires` by `AgeInv`: a worker that is awake has
loaded every link past its lifetime, because the clock waits for it. `FewOfAName` by
`KindInv`, another counting argument: rows of a name and the requests that have
found the name free are together at most as many as requests can be in flight, since
none of the latter is added once there is a row.

*FeedsProofs.* `NoItemAfterTheEnd` by `EndInv`: a message tells of a deletion only when
the round is gone, and while a handler has the round loaded that message cannot have
been handled, because one consumer handles one message at a time.
`RatedNoMoreThanExplained` by `RateInv`: every RoundWasCompleted and every
UpdateRatings command, wherever it waits, is worth one rating (`Weight`); what has
been rated and what is waiting (`Pending`, less what the attempt under way has
spent) never exceed the completions and crashes there have been. A retried attempt
starts over with the same message, and its sends are gone with it; only a crash
between sends and acknowledgement leaves both the message and what it sent.

*FeedsOrderProofs.* `FeedFollowsScores` and `NothingElseFails`, for behaviours in
which requests do not overlap and nothing fails by itself, by `OrderOK`. Neither
property is inductive: it must be said what becomes of the events that wait.
`SlotOK` says it of the events about one score that have still to add their item
(`Turns`), in the order in which they will be handled (`Line`: the queue, then what
has been committed but not published): every one but the first says that it changed
the score, so its clean-up removes the item of the one before; the first says so too,
or there is no item; the last has the score as it is stored; and there is never more
than one item, which is why SingleOrDefault does not throw. Where an event stands
does not matter, only which comes before which (`SlotMoves`), so an acknowledgement,
which moves them up and puts what the handlers sent between the queue and the
unpublished, keeps it. The invariant is about rounds that are there, or that
UpdateRatingsCommandHandler may bring back after the worker has hidden them
(`Alive`): without that second half it is not inductive either.

*LiveClientProofs.* `CompletionHasReason` by `DoneInv`: no copy, shown, loaded,
answered or pushed, claims more signatures than are stored, and those only grow.
`ScoresLand`, for rounds that start at their first hole, by `LandInv`: no copy is
ever rotated, because whenever there is a score at all somebody has one for the
first hole, and a copy has no more scores than are stored.

`ClientsSettle` by `CalmInv`: while requests do not overlap, one
is under way at a time and nothing is pushed before it is answered; what is under way
to a client, as answer or push, has the stored scores; and a client that has not got
them still has a push or the answer to come (`Awaits`). `PlayersMoveTogether` by
`GroupInv`: whoever has not looked elsewhere is on the next hole of the copy he is
shown, and that is the first hole open to somebody (`NextIsLeast`); with more scores it
is the same or one ahead, and then everybody has scored the hole shown, so the push
moves the index (`NextIsAhead`). It assumes `~AnyStart`, and needs it: when a round
may start at any hole TLC finds `MovesWithGroup` violated, since a rotated copy has
another first hole.

*WebAppProofs.* `OneUserPerTab` by `SessionInv`. The effects and clean-ups of a page,
the answers, and what a person does keep (`Kept`) who is logged in, who is in
`localStorage`, and the hub connection or close it; a page with a connection is one of
the two that ask for it, and its clean-up closes it (`HubHeld`). Only a login changes
the user, and then there must be no connection of somebody else's: `OneLogin` says
that one login at most is under way, and that nobody is logged in meanwhile.
`LastChoiceShown` by `ListInv`: each request that may still be answered to the page
is one that the page makes as it is now (`Fits`), because the clean-up of the choice
before has silenced the others (`CleanupSilences`); and a list is the one asked for,
or on its way, or has failed (`ListShown`). Both need what every effect does to a
client, shown operator by operator (`EffectFollows`, `EffectMoves`) and put together
for `Render`, `Dispatch`, `Push` and `Load`. `FeedIsWhole` by `FeedInv`, which rests on
both. What is shown is whole because one page at most is under way to it (`Asked`), and
that is the first or the one after those shown, while nothing has failed that "Load
More" would skip (`InOrder`). That the likes are the stored ones is not inductive: a
like is shown before it is sent, may be taken before the next is sent, and is taken
back if it fails, in any order. The invariant counts instead: page and server differ
about a person's like of an item just when an odd number of that person's likes of it
has not been taken by the server (`Agrees`). Everything else leaves the feed `Aside`:
if it shows the feed afterwards, it is the same feed with the same requests under way.
It needs that a like that fails is taken back for whoever was the user when it was
clicked (the closure of `handleLike`), not for the user of the store when the answer
comes.

`PagesAreTheirOwn` by `OwnInv`, which says something of somebody who waits for the
answers to one thing before doing the next (`calm`): the answers to that one thing may
come in any order and fail. Whatever is under way is what the page that is open asks for
as it is now (`Proper`), and except on the front page, a round and the profile it is one request
(`Batch`). The profile holds nobody but the person in the address, and nothing on other
pages (`OwnProfile`), because `clear` runs when the page goes. The tournament in the
store is that of the address, or on its way, or could not be had (`OwnCup`). Unless a
request has failed or another tab has changed the user, what is shown is what is stored
or would be with the answer that is under way (`Stored`). It takes from `FeedInv` that a tab has
one user, and assumes that `NoOne` is not the name of a user (`NoOneAssumption`), since a
login in that name would be none.

*ClassicAppProofs.* `HolesStayInTheirLayout` by `EditsInv`: every copy of a layout,
stored, kept by the client, or in an answer under way, has its own holes
(`GoodLayout`), and so has every save under way; and the hole in the dialogue is one of
the layout in the address, because the dialogue closes when the address changes. The
only step that can break it is a save at an address that names no layout, and that one
sets `plainSave`. Nothing else is assumed: requests may overlap, fail, be lost, or be
answered in any order, and the page may be loaded again. As for WebApp, each effect,
reducer and answer is shown once to touch only what it touches (`Only`, `Grows`), and
the actions of the pages are then taken in groups (`Does`).

The other four are about somebody who waits for the answers. `OrderInv` says what
waiting comes to (`Orderly`): nothing but queries is under way, or one request that is
no query; all were asked since the page was loaded, for the person who uses it; and when
the timer of a failed login runs out nobody has logged in since. Under it every step
after which somebody is logged in is one of a few kinds (`CalmStep`, `Member`,
`Opens`): a request is served, an answer is reduced, refused or leads to another page
(`Answered`), the person does one thing with nothing under way (`Doing`), the hub
tells of a round (`Heard`), the page is loaded. Each property then has an invariant
of one shape: what is shown is on its way, or an answer that has been made will put
it right, or it is right.
- `AnswersReachTheirPages` by `PagesInv`: the requests of a kind are all for what
  the page asks for now (`AsAsked`). An old question cannot be answered later
  because whoever waits asks the next one with nothing under way.
- `PeopleSeeTheirAccount` by `DetailsInv`: a change that the server has made and not
  answered is the one request under way, and the details with its answer applied
  are the stored ones (`WillAgree`); going to another page asks for them again.
- `CatalogIsShown` by `CupInv` and `CoursesInv`. The tournament is treated as the
  details are, and whoever adds a course is its admin, so it is not refused. Courses
  stay in the store when the page changes, so the invariant is about every group
  the client has, logged in or not: no two layouts with one number, and each layout
  is one the server has, or the save of it is answered and on its way (`InDb`). It
  needs that the server gives a number once (`Numbered`), and that a created layout
  is not in the store before its answer (`Brings`).
- `FeedIsItsPages` by `FeedInv`: the page under way is the one the view has reached,
  and what is in the store is all pages before it (`FeedComes`). The first page
  comes to an empty feed because `fetchFeed` clears it, or because a feed that was
  never loaded has no items (`FeedNew`); the next is asked for only if the last one
  said that it is not the end. With a like under way no page is.

*Only model-checked.* Liveness and fairness (outside the prover). Of WebApp the
two properties about rounds (`RoundPageShowsItsRound`, `HomeShowsActiveRound`): others
change rounds meanwhile, so their invariants have to say of each request and each call
of the hub under way what it will make of the stores and what the server will have done
by then, as that of `PeopleSeeTheirAccount` does for one store without a hub.

## 5. Findings

`RoundStore_lostCompletion`: two players who complete at the same time each miss
the other's signature (`CompleteRound.cs:47`), both signatures are stored, and the
round stays open; calling complete again returns early. Only the worker closes it,
two days later and without announcing it.

`Accounts_sixtyMinutes`: the mail with a reset link says "It will only work for 60
minutes" (`InitiatePasswordReset.cs:68`). ResetPassword does not look at the age of
the link, and the hourly worker removes what is older than two hours, so a link
works for up to three.

`LiveClient_anyStart`: when the first score of a round is that of another hole
than the first, `CalculateNewStartingHole` (`UpdatePlayerScore.cs:174`) rotates the
lists, and response and push carry them so; but the order is in no column, so the
next request loads the order of the course and takes the client's index for one in
it. The score is stored for another hole than the one shown, over the score that
may be there already.

## 6. Plan

Next, in this order:

1. `RoundRules`: standings, tee honours, handicap, Elo as operators against
   reference definitions.
2. `Tournaments`: joins, courses and likes of feed items in columns without a
   token, statement by statement; course ratings and the memory caches.
3. The playing of a round in the classic client (`store/Rounds.ts`) and in the
   mobile one (`ActiveRound.ts`), against the server of LiveClient.
4. Theorems about what the two round pages of WebApp show when all is answered, along
   the argument used for `PagesAreTheirOwn`.
5. `src/next`.

## 7. Not modelled, and why

Figures (statistics, ratings, handicaps, prices, the leaderboard) and the choice of
achievements are abstracted: of each the models keep whose it is and when it is
computed. The admin pages, migrations and deployment files are operator tooling.
The mobile client and the round page of the classic one repeat the live client's
protocol. Torn `Strokes`/`RelativeToPar` columns of one player's own overlapping
requests are listed as a hazard; scores are only "registered or not" in RoundStore
and LiveClient. Commands of tournaments, courses and likes that overlap in the
database are left out of the client models, where the server takes one at a time.

In WebApp: the login page opened by somebody who is logged in; the double effects
of React's StrictMode in development; the delays before a search is sent; the
feed's pages shifting when somebody else's items are added; the pushes of earned
achievements. In ClassicApp: the same shift, and error texts read as data. In
Feeds: items made for sign-ups, friends and tournaments.
