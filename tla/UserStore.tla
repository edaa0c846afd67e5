------------------------------ MODULE UserStore ------------------------------
(***************************************************************************)
(* The users table.  HTTP commands, the message handlers and the e-mail    *)
(* worker load users, change them and save them, each in a DbContext of    *)
(* its own.  As with rounds, Users.Update(user) writes back every column   *)
(* as it was loaded; but `users` has a concurrency token (PostgreSQL's     *)
(* xmin, the last transaction that wrote the row), and a save that finds   *)
(* another token on one of its rows throws and saves nothing at all.       *)
(***************************************************************************)
EXTENDS Naturals, FiniteSets

CONSTANTS
    Users,        \* registered users, named as they name each other as friends
    Columns,      \* plain columns: password, email, emoji, ... each set by a command
    EmailSent,    \* the column the e-mail worker sets: LastEmailSent
    Values,       \* values of plain columns
    Requests,     \* concurrent HTTP requests
    Bus,          \* the message consumer: it handles one message at a time
    Mailer,       \* UserEmailNotificationWorker
    MaxRequests   \* bound on the number of commands ever begun

ASSUME UserStoreAssumption ==
    /\ EmailSent \in Columns /\ Values # {} /\ Users # {}
    /\ Bus \notin Requests /\ Mailer \notin Requests /\ Bus # Mailer
    /\ MaxRequests \in Nat

VARIABLES
    row,        \* rows of users, with their concurrency token
    history,    \* number of user_ratings rows of each user
    req,        \* what each request, the consumer and the worker have loaded
    sent,       \* commands begun
    announced   \* FriendWasAdded events published

vars == <<row, history, req, sent, announced>>

-----------------------------------------------------------------------------
Procs == Requests \cup {Bus, Mailer}
Row == [xmin : Nat, data : [Columns -> Values], friends : SUBSET Users, elo : Nat]

\* The user who asks, the users the command is about, and what a setter sets.
Op == [kind : {"set", "addFriend", "feed", "rate", "remind"}, user : Users,
       users : SUBSET Users, column : Columns, value : Values]
Request == [pc : {"idle", "loading", "saved"}, op : Op, loaded : SUBSET Users,
            copy : [Users -> Row]]

NoOp == [kind |-> "set", user |-> CHOOSE u \in Users : TRUE, users |-> {},
         column |-> EmailSent, value |-> CHOOSE x \in Values : TRUE]
Blank == [xmin |-> 0, data |-> [c \in Columns |-> NoOp.value], friends |-> {}, elo |-> 0]
IdleRequest == [pc |-> "idle", op |-> NoOp, loaded |-> {}, copy |-> [u \in Users |-> Blank]]

Init ==
    /\ \E x \in Values :
         row = [u \in Users |-> [Blank EXCEPT !.data = [c \in Columns |-> x]]]
    /\ history = [u \in Users |-> 0]
    /\ req = [p \in Procs |-> IdleRequest]
    /\ sent = 0
    /\ announced = {}

-----------------------------------------------------------------------------
(* Loading *)

\* One statement reads the rows of S as they are at that moment.
Fetch(r, S) ==
    [r EXCEPT !.loaded = @ \cup S,
              !.copy = [u \in Users |-> IF u \in S THEN row[u] ELSE @[u]]]

\* AddFriend reads its two users one after the other; the other commands read
\* what they need with one statement.
FirstRead(op) == IF op.kind = "addFriend" THEN {op.user} ELSE op.users

Begin(p, op) ==
    /\ req[p].pc = "idle"
    /\ sent < MaxRequests
    /\ sent' = sent + 1
    /\ req' = [req EXCEPT ![p] =
                 Fetch([IdleRequest EXCEPT !.pc = "loading", !.op = op], FirstRead(op))]
    /\ UNCHANGED <<row, history, announced>>

\* A user that is already tracked is not read again.
ReadFriend(p) ==
    LET missing == req[p].op.users \ req[p].loaded IN
    /\ req[p].pc = "loading" /\ missing # {}
    /\ req' = [req EXCEPT ![p] = Fetch(@, missing)]
    /\ UNCHANGED <<row, history, sent, announced>>

Loaded(p, kind) ==
    req[p].pc = "loading" /\ req[p].op.kind = kind /\ req[p].op.users \subseteq req[p].loaded

\* The handler throws, or SaveChanges finds another token.
Abort(p) ==
    /\ req[p].pc = "loading"
    /\ req' = [req EXCEPT ![p] = IdleRequest]
    /\ UNCHANGED <<row, history, sent, announced>>

-----------------------------------------------------------------------------
(* Saving *)

\* Fault: no row has a concurrency token.
NobodyWrote(p, S) == TRUE

\* UPDATE users ... WHERE id = @id AND xmin = @loaded, for each user of S.
Unchanged(p, S) == \A u \in S : row[u].xmin = req[p].copy[u].xmin

\* Writes new[u] for each user of S, or nothing.
SaveRows(p, S, new) ==
    /\ Unchanged(p, S)
    /\ row' = [u \in Users |-> IF u \in S THEN [new[u] EXCEPT !.xmin = row[u].xmin + 1]
                                          ELSE row[u]]

Finish(p) == req' = [req EXCEPT ![p] = IdleRequest]

\* ChangePassword, ResetPassword, ChangeEmail, SetCountry, SetEmoji, ...
SetColumn(p) ==
    LET op == req[p].op
        new == [u \in Users |-> [req[p].copy[u] EXCEPT !.data[op.column] = op.value]]
    IN  /\ Loaded(p, "set")
        /\ SaveRows(p, op.users, new)
        /\ Finish(p)
        /\ UNCHANGED <<history, sent, announced>>

\* Fault: only the caller is saved.
AddFriendOneSided(p) ==
    LET op == req[p].op
        new == [u \in Users |-> [req[p].copy[u] EXCEPT !.friends = @ \cup (op.users \ {u})]]
    IN  /\ Loaded(p, "addFriend")
        /\ SaveRows(p, {op.user}, new)
        /\ req' = [req EXCEPT ![p].pc = "saved"]
        /\ UNCHANGED <<history, sent, announced>>

\* Fault: the event is published before the save, which then fails.
PublishEarly(p) ==
    /\ Loaded(p, "addFriend")
    /\ announced' = announced \cup {req[p].op.users}
    /\ Finish(p)
    /\ UNCHANGED <<row, history, sent>>

\* Each becomes a friend of the other; who adds himself is his own friend.
NewFriends(op, u) == IF op.users = {u} THEN {u} ELSE op.users \ {u}

AddFriend(p) ==
    LET op == req[p].op
        new == [u \in Users |-> [req[p].copy[u] EXCEPT !.friends = @ \cup NewFriends(op, u)]]
    IN  /\ Loaded(p, "addFriend")
        /\ SaveRows(p, op.users, new)
        /\ req' = [req EXCEPT ![p].pc = "saved"]
        /\ UNCHANGED <<history, sent, announced>>

\* UpdateFeedsOnScoreUpdated, UpdateFeedsOnAchievementEarned: the list of
\* receivers is the user's own list of friends, to which the user is added; it is
\* tracked, and saved with the feed items.
FeedToFriends(p) ==
    LET op == req[p].op
        new == [u \in Users |-> [req[p].copy[u] EXCEPT !.friends = @ \cup {u}]]
    IN  /\ Loaded(p, "feed")
        /\ SaveRows(p, op.users, new)
        /\ Finish(p)
        /\ UNCHANGED <<history, sent, announced>>

\* A new rating of every player of the round, in one transaction.
UpdateRatings(p) ==
    LET op == req[p].op
        new == [u \in Users |-> [req[p].copy[u] EXCEPT !.elo = @ + 1]]
    IN  /\ Loaded(p, "rate")
        /\ Cardinality(op.users) > 1
        /\ SaveRows(p, op.users, new)
        /\ history' = [u \in Users |-> IF u \in op.users THEN history[u] + 1 ELSE history[u]]
        /\ Finish(p)
        /\ UNCHANGED <<sent, announced>>

\* The worker notes for all the users it will remind that it has done so.
SendReminders(p) ==
    LET op == req[p].op
        new == [u \in Users |-> [req[p].copy[u] EXCEPT !.data[EmailSent] = op.value]]
    IN  /\ Loaded(p, "remind")
        /\ SaveRows(p, op.users, new)
        /\ Finish(p)
        /\ UNCHANGED <<history, sent, announced>>

Publish(p) ==
    /\ req[p].pc = "saved"
    /\ announced' = announced \cup {req[p].op.users}
    /\ Finish(p)
    /\ UNCHANGED <<row, history, sent>>

\* The process dies between the save and the event.
Crash(p) ==
    /\ req[p].pc = "saved"
    /\ Finish(p)
    /\ UNCHANGED <<row, history, sent, announced>>

-----------------------------------------------------------------------------
SetOp(u, c, x) == [NoOp EXCEPT !.user = u, !.users = {u}, !.column = c, !.value = x]
FriendOp(u, v) == [NoOp EXCEPT !.kind = "addFriend", !.user = u, !.users = {u, v}]
FeedOp(u) == [NoOp EXCEPT !.kind = "feed", !.user = u, !.users = {u}]
RateOp(S) == [NoOp EXCEPT !.kind = "rate", !.users = S]
RemindOp(S, x) == [NoOp EXCEPT !.kind = "remind", !.users = S, !.value = x]

Next ==
    \/ \E r \in Requests, u \in Users :
         \/ \E c \in Columns \ {EmailSent}, x \in Values : Begin(r, SetOp(u, c, x))
         \/ \E v \in Users : Begin(r, FriendOp(u, v))
    \/ \E u \in Users : Begin(Bus, FeedOp(u))
    \/ \E S \in SUBSET Users : Begin(Bus, RateOp(S))
    \/ \E S \in SUBSET Users, x \in Values : Begin(Mailer, RemindOp(S, x))
    \/ \E p \in Procs :
         \/ ReadFriend(p) \/ Abort(p) \/ Publish(p) \/ Crash(p)
         \/ SetColumn(p) \/ AddFriend(p) \/ FeedToFriends(p) \/ UpdateRatings(p)
         \/ SendReminders(p)

Spec == Init /\ [][Next]_vars

-----------------------------------------------------------------------------
TypeOK ==
    /\ row \in [Users -> Row]
    /\ history \in [Users -> Nat]
    /\ req \in [Procs -> Request]
    /\ sent \in Nat
    /\ announced \subseteq SUBSET Users

\* Friendship is mutual whatever commands overlap: no save writes back a list of
\* friends that has grown meanwhile, and two lists are never half saved.
FriendsAreMutual == \A u, v \in Users : u \in row[v].friends <=> v \in row[u].friends

\* The rating of a user is the last one in the history, which lies in a table of
\* its own: neither a late save of the row nor a failed one separates the two.
EloMatchesHistory == \A u \in Users : row[u].elo = history[u]

\* FriendWasAdded is published only for users who are friends, for good.
AnnouncedAreFriends ==
    \A S \in announced : \A u, v \in S : u # v => u \in row[v].friends

\* However commands overlap, each takes effect at once or not at all: nothing
\* a command has saved is ever undone by another that had loaded the row before.
Table == INSTANCE UserTable WITH
    user <- [u \in Users |-> [data |-> row[u].data, friends |-> row[u].friends,
                              elo |-> row[u].elo]]

ImplementsUserTable == Table!Spec
=============================================================================
