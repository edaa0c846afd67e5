------------------------------- MODULE Accounts -------------------------------
(***************************************************************************)
(* Sign-up, e-mail addresses and the life of a password-reset link.        *)
(*                                                                         *)
(* The tables `users` and `reset_password_requests` have no unique index   *)
(* besides their keys: that a name, an address or a pending reset is       *)
(* unique is only looked up before the insert.  A look-up that finds two   *)
(* rows throws (SingleOrDefault).  A reset link lives until it is used or  *)
(* until ResetPasswordWorker, once an hour, finds it expired.              *)
(* Time is counted in hours.                                               *)
(***************************************************************************)
EXTENDS Naturals, FiniteSets

CONSTANTS
    Ids,          \* identities of users rows: enough for those that sign up
    Names,        \* usernames, in lower case as every command makes them
    Emails,       \* addresses as typed
    NoEmail,      \* the address of a user who gave none
    Lower,        \* Lower[e]: the address trimmed and in lower case
    Registered,   \* the users at the start
    Links,        \* identities of reset links: as many as are mailed at most
    Requests,     \* concurrent HTTP requests
    Lifetime,     \* 2: the worker removes what is more than two hours old
    Period,       \* 1: the worker runs every hour
    Promised,     \* 1: the 60 minutes the mail speaks of
    MaxRequests,  \* bound on the requests ever sent
    MaxFailures   \* bound on the clean-ups that fail for no fault of the model

User == [id : Ids, name : Names, email : Emails]
Link == [id : Links, name : Names, email : Emails]

ASSUME AccountsAssumption ==
    /\ Lower \in [Emails -> Emails] /\ \A e \in Emails : Lower[Lower[e]] = Lower[e]
    /\ NoEmail \in Emails /\ Lower[NoEmail] = NoEmail
    /\ Registered \subseteq User
    /\ \A u, v \in Registered : u.id = v.id \/ u.name = v.name => u = v
    /\ IsFiniteSet(Registered) /\ IsFiniteSet(Requests) /\ Requests # {}
    /\ Lifetime \in Nat /\ Period \in Nat \ {0} /\ Promised \in Nat
    /\ MaxRequests \in Nat /\ MaxFailures \in Nat

VARIABLES
    users,     \* rows of users
    version,   \* their concurrency tokens (xmin)
    links,     \* rows of reset_password_requests
    age,       \* age of each link, from its CreatedAt on
    mailed,    \* mails sent: the link and the account it was meant for
    changed,   \* passwords changed by a link: how often, and of which account
    req,       \* what each request has found so far
    worker,    \* the links the worker has loaded, none when it sleeps
    due,       \* time until the worker's timer fires
    late,      \* clean-ups that have failed since the last that did not
    failures,  \* clean-ups that failed without a cause in the model
    sent       \* requests begun

vars == <<users, version, links, age, mailed, changed, req, worker, due, late,
          failures, sent>>
tables == <<users, version, links, mailed, changed>>
clock == <<age, worker, due, late, failures>>

-----------------------------------------------------------------------------
None == [kind |-> "idle"]
Named(n) == {u \in users : u.name = n}
Using(e) == {u \in users : u.email = e}
Pending(e) == {l \in links : l.email = e}
Works(l) == \E k \in links : k.id = l

Init ==
    /\ users = Registered
    /\ version = [i \in Ids |-> 0]
    /\ links = {} /\ mailed = {}
    /\ age = [l \in Links |-> 0]
    /\ changed = [l \in Links |-> [i \in Ids |-> 0]]
    /\ req = [r \in Requests |-> None]
    /\ worker = [awake |-> FALSE, expired |-> {}]
    /\ due = 0 /\ late = 0 /\ failures = 0 /\ sent = 0

\* A request is received, and finds what its first query tells it.
Receive(r, found) ==
    /\ req[r] = None /\ sent < MaxRequests
    /\ sent' = sent + 1
    /\ req' = [req EXCEPT ![r] = found]
    /\ UNCHANGED <<tables, clock>>

Goes(r, next) == req' = [req EXCEPT ![r] = next]

\* A look-up finds none, or two; a check fails; the save finds another token or
\* a row gone; the client or the server goes away.  A mail that was sent is sent.
Abort(r) ==
    /\ req[r] # None
    /\ Goes(r, None)
    /\ UNCHANGED <<tables, clock, sent>>

-----------------------------------------------------------------------------
(* CreateNewUser: two look-ups of the validator, then the insert *)

\* Fault: the name is not looked up.
CheckNothing(r, n, e) == Receive(r, [kind |-> "checkEmail", name |-> n, email |-> e])

CheckName(r, n, e) ==
    Named(n) = {} /\ Receive(r, [kind |-> "checkEmail", name |-> n, email |-> e])

CheckEmail(r) ==
    /\ req[r].kind = "checkEmail"
    /\ req[r].email = NoEmail \/ Using(req[r].email) = {}
    /\ Goes(r, [req[r] EXCEPT !.kind = "insertUser"])
    /\ UNCHANGED <<tables, clock, sent>>

\* The row gets a new identity; the address is stored as it was typed.
InsertUser(r) ==
    LET new == {i \in Ids : \A u \in users : u.id # i} IN
    /\ req[r].kind = "insertUser"
    /\ new # {}
    /\ users' = users \cup {[id |-> CHOOSE i \in new : TRUE, name |-> req[r].name,
                             email |-> req[r].email]}
    /\ Goes(r, None)
    /\ UNCHANGED <<version, links, mailed, changed, clock, sent>>

-----------------------------------------------------------------------------
(* ChangeEmail: nobody asks whether the address is in use *)

LoadUser(r, u, e) ==
    /\ Named(u.name) = {u}
    /\ Receive(r, [kind |-> "saveEmail", user |-> u, email |-> Lower[e],
                   version |-> version[u.id]])

SaveEmail(r) ==
    LET u == req[r].user IN
    /\ req[r].kind = "saveEmail"
    /\ version[u.id] = req[r].version
    /\ users' = (users \ {u}) \cup {[u EXCEPT !.email = req[r].email]}
    /\ version' = [version EXCEPT ![u.id] = @ + 1]
    /\ Goes(r, None)
    /\ UNCHANGED <<links, mailed, changed, clock, sent>>

-----------------------------------------------------------------------------
(* InitiatePasswordReset *)

FindUser(r, e) ==
    \E u \in users : /\ Using(Lower[e]) = {u}
                     /\ Receive(r, [kind |-> "findPending", user |-> u])

\* Links that have not been given out.
Fresh == {l \in Links : \A m \in mailed : m.link # l}

\* The link gets its identity and its CreatedAt, and the mail is sent.
SendMail(r) ==
    LET u == req[r].user
        l == CHOOSE i \in Fresh : TRUE
    IN
    /\ req[r].kind = "findPending"
    /\ Pending(u.email) = {}
    /\ Fresh # {}
    /\ mailed' = mailed \cup {[link |-> l, account |-> u.id]}
    /\ Goes(r, [kind |-> "saveLink", link |-> [id |-> l, name |-> u.name, email |-> u.email]])
    /\ UNCHANGED <<users, version, links, changed, clock, sent>>

SaveLink(r) ==
    /\ req[r].kind = "saveLink"
    /\ links' = links \cup {req[r].link}
    /\ Goes(r, None)
    /\ UNCHANGED <<users, version, mailed, changed, clock, sent>>

-----------------------------------------------------------------------------
(* ResetPassword, with the link of a mail *)

FindLink(r, l) ==
    /\ l \in links
    /\ Receive(r, [kind |-> "findOwner", link |-> l])

\* Fault: the user is looked up by the address, which may have changed hands.
FindOwnerByEmail(r) ==
    LET l == req[r].link IN
    \E u \in users :
      /\ req[r].kind = "findOwner"
      /\ Using(l.email) = {u}
      /\ Goes(r, [kind |-> "savePassword", link |-> l, user |-> u,
                  version |-> version[u.id]])
      /\ UNCHANGED <<tables, clock, sent>>

FindOwner(r) ==
    LET l == req[r].link IN
    \E u \in users :
      /\ req[r].kind = "findOwner"
      /\ Named(l.name) = {u}
      /\ Goes(r, [kind |-> "savePassword", link |-> l, user |-> u,
                  version |-> version[u.id]])
      /\ UNCHANGED <<tables, clock, sent>>

\* Fault: the link stays.
SavePasswordOnly(r) ==
    LET l == req[r].link.id
        i == req[r].user.id
    IN  /\ req[r].kind = "savePassword"
        /\ version[i] = req[r].version
        /\ version' = [version EXCEPT ![i] = @ + 1]
        /\ changed' = [changed EXCEPT ![l][i] = @ + 1]
        /\ Goes(r, None)
        /\ UNCHANGED <<users, links, mailed, clock, sent>>

\* UPDATE users and DELETE the link, both or neither.
SavePassword(r) ==
    LET l == req[r].link.id
        i == req[r].user.id
    IN  /\ req[r].kind = "savePassword"
        /\ version[i] = req[r].version
        /\ req[r].link \in links
        /\ version' = [version EXCEPT ![i] = @ + 1]
        /\ changed' = [changed EXCEPT ![l][i] = @ + 1]
        /\ links' = links \ {req[r].link}
        /\ Goes(r, None)
        /\ UNCHANGED <<users, mailed, clock, sent>>

-----------------------------------------------------------------------------
(* ResetPasswordWorker *)

\* Faults: after a failure the timer is not set again; the age is rounded up to whole periods.
ExpiredLate(l) == age[l.id] > Lifetime + 1
Expired(l) == age[l.id] > Lifetime

WorkerLoadsUnlessFailed ==
    /\ due = 0 /\ ~worker.awake /\ late = 0
    /\ worker' = [awake |-> TRUE, expired |-> {l \in links : Expired(l)}]
    /\ UNCHANGED <<tables, req, age, due, late, failures, sent>>

WorkerLoads ==
    /\ due = 0 /\ ~worker.awake
    /\ worker' = [awake |-> TRUE, expired |-> {l \in links : Expired(l)}]
    /\ UNCHANGED <<tables, req, age, due, late, failures, sent>>

Sleep == worker' = [awake |-> FALSE, expired |-> {}] /\ due' = Period

\* All the expired links are deleted, and each must still be there.
WorkerSaves ==
    /\ worker.awake
    /\ worker.expired \subseteq links
    /\ links' = links \ worker.expired
    /\ late' = 0
    /\ Sleep
    /\ UNCHANGED <<users, version, mailed, changed, req, age, failures, sent>>

\* Otherwise none is, and the worker tries again in an hour.
WorkerFails ==
    /\ worker.awake
    /\ IF worker.expired \subseteq links
         THEN failures < MaxFailures /\ failures' = failures + 1
         ELSE UNCHANGED failures
    /\ late' = late + 1
    /\ Sleep
    /\ UNCHANGED <<tables, req, age, sent>>

\* An hour passes.  No request and no clean-up takes that long, and the
\* timer is never late.
Tick ==
    /\ due > 0 /\ ~worker.awake
    /\ \A r \in Requests : req[r] = None
    /\ due' = due - 1
    /\ age' = [l \in Links |-> IF Works(l) THEN age[l] + 1 ELSE age[l]]
    /\ UNCHANGED <<tables, req, worker, late, failures, sent>>

-----------------------------------------------------------------------------
Handles(r) ==
    \/ CheckEmail(r) \/ InsertUser(r)
    \/ SaveEmail(r)
    \/ SendMail(r) \/ SaveLink(r)
    \/ FindOwner(r) \/ SavePassword(r)

Next ==
    \/ \E r \in Requests :
         \/ \E n \in Names, e \in Emails : CheckName(r, n, e)
         \/ \E u \in users, e \in Emails \ {NoEmail} : LoadUser(r, u, e)
         \/ \E e \in Emails \ {NoEmail} : FindUser(r, e)
         \/ \E l \in links : FindLink(r, l)
         \/ Handles(r) \/ Abort(r)
    \/ WorkerLoads \/ WorkerSaves \/ WorkerFails
    \/ Tick

Spec == Init /\ [][Next]_vars

\* Requests end, time passes and the worker's timer fires.
Fairness ==
    /\ \A r \in Requests : WF_vars(Handles(r) \/ Abort(r))
    /\ WF_vars(WorkerLoads) /\ WF_vars(WorkerSaves \/ WorkerFails)
    /\ WF_vars(Tick)

FairSpec == Spec /\ Fairness

-----------------------------------------------------------------------------
Request ==
    {None}
      \cup [kind : {"checkEmail", "insertUser"}, name : Names, email : Emails]
      \cup [kind : {"saveEmail"}, user : User, email : Emails, version : Nat]
      \cup [kind : {"findPending"}, user : User]
      \cup [kind : {"saveLink", "findOwner"}, link : Link]
      \cup [kind : {"savePassword"}, link : Link, user : User, version : Nat]

TypeOK ==
    /\ users \subseteq User /\ version \in [Ids -> Nat]
    /\ links \subseteq Link /\ age \in [Links -> Nat]
    /\ mailed \subseteq [link : Links, account : Ids]
    /\ changed \in [Links -> [Ids -> Nat]]
    /\ req \in [Requests -> Request]
    /\ worker \in [awake : BOOLEAN, expired : SUBSET Link]
    /\ due \in 0..Period /\ late \in Nat /\ failures \in Nat /\ sent \in Nat

\* A link changes a password once, however often and by how many it is followed
\* at the same time, and although the worker may be removing it.
UsedAtMostOnce == \A l \in Links, i \in Ids : changed[l][i] <= 1

\* The password it changes is that of the account its mail was meant for, even
\* when the address of the account has changed or others have taken it, and even
\* when two accounts have got the same name.
ResetsOwnAccount ==
    \A l \in Links, i \in Ids :
        changed[l][i] > 0 => [link |-> l, account |-> i] \in mailed

\* How old a link can be that still works: two hours, and an hour for the timer,
\* and one more for each clean-up in a row that failed, as it does for all the
\* links when one of them is used while the worker is at it.
LinksExpire ==
    \A l \in links : age[l.id] + due <= Lifetime + Period * (late + 1)

\* Names and pending resets are only looked up before the insert: there are never
\* more of a kind than requests that can look at the same time.
FewOfAKind ==
    /\ \A n \in Names : Cardinality(Named(n)) <= Cardinality(Requests)
    /\ \A e \in Emails : Cardinality(Pending(e)) <= Cardinality(Requests)

\* Every link ends, so an address with a pending reset, or with two of them, at
\* which every new one throws, can ask again.
LinksEnd == \A l \in Links : Works(l) ~> ~Works(l)

\* "It will only work for 60 minutes", says the mail.
WorksForAnHour ==
    [][\A l \in Links : changed'[l] # changed[l] => age[l] <= Promised]_vars
=============================================================================
