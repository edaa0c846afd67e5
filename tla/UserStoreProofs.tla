--------------------------- MODULE UserStoreProofs ---------------------------
(***************************************************************************)
(* Proofs about UserStore, for any number of users, columns and requests.  *)
(* The argument is the one of optimistic concurrency: a copy that still    *)
(* carries the token of its row is equal to the row (CopiesOK), so a save  *)
(* that finds the tokens unchanged acts on the rows as they are.           *)
(***************************************************************************)
EXTENDS UserStore, FiniteSetTheorems, TLAPS

USE UserStoreAssumption

Committed(p) == \/ SetColumn(p) \/ AddFriend(p) \/ FeedToFriends(p)
                \/ UpdateRatings(p) \/ SendReminders(p)

LEMMA NoOpType == NoOp \in Op
BY DEF NoOp, Op

LEMMA IdleType == IdleRequest \in Request
<1>1. Blank \in Row
  BY NoOpType DEF Blank, Row, Op
<1> QED
  BY <1>1, NoOpType DEF IdleRequest, Request

\* The steps that begin a command begin one of the right type.
LEMMA OpsType ==
    /\ \A u \in Users, c \in Columns, x \in Values : SetOp(u, c, x) \in Op
    /\ \A u, v \in Users : FriendOp(u, v) \in Op
    /\ \A u \in Users : FeedOp(u) \in Op
    /\ \A S \in SUBSET Users : RateOp(S) \in Op
    /\ \A S \in SUBSET Users, x \in Values : RemindOp(S, x) \in Op
BY NoOpType DEF SetOp, FriendOp, FeedOp, RateOp, RemindOp, Op

LEMMA FetchType == ASSUME TypeOK, NEW r \in Request, NEW S \in SUBSET Users
                   PROVE  Fetch(r, S) \in Request
BY DEF Fetch, Request, TypeOK

\* The fields of a row after the changes the commands make.
LEMMA RowFields ==
    ASSUME NEW r \in Row
    PROVE  /\ \A n \in Nat : [r EXCEPT !.xmin = n] \in Row
           /\ \A c \in Columns, x \in Values : [r EXCEPT !.data[c] = x] \in Row
           /\ \A F \in SUBSET Users : [r EXCEPT !.friends = @ \cup F] \in Row
           /\ [r EXCEPT !.elo = @ + 1] \in Row
BY DEF Row

\* A save of rows of the right type leaves rows of the right type.
LEMMA SaveType ==
    ASSUME TypeOK, NEW p \in Procs, NEW S \in SUBSET Users, NEW new \in [Users -> Row],
           SaveRows(p, S, new)
    PROVE  row' \in [Users -> Row]
<1>1. ASSUME NEW u \in Users PROVE [new[u] EXCEPT !.xmin = row[u].xmin + 1] \in Row
  <2>1. row[u].xmin + 1 \in Nat /\ new[u] \in Row
    BY DEF TypeOK, Row
  <2> QED
    BY <2>1, RowFields
<1> QED
  BY <1>1 DEF SaveRows, TypeOK

LEMMA ReqType == ASSUME TypeOK, NEW p \in Procs
                 PROVE  /\ req[p] \in Request /\ req[p].op \in Op
                        /\ req[p].op.users \in SUBSET Users
                        /\ req[p].copy \in [Users -> Row]
BY DEF TypeOK, Request, Op

\* What each command saves, as a function of what it has loaded.
NewColumn(p) == [u \in Users |-> [req[p].copy[u] EXCEPT !.data[req[p].op.column] = req[p].op.value]]
NewFriendLists(p) == [u \in Users |-> [req[p].copy[u] EXCEPT !.friends = @ \cup NewFriends(req[p].op, u)]]
NewReceivers(p) == [u \in Users |-> [req[p].copy[u] EXCEPT !.friends = @ \cup {u}]]
NewRatings(p) == [u \in Users |-> [req[p].copy[u] EXCEPT !.elo = @ + 1]]
NewReminders(p) == [u \in Users |-> [req[p].copy[u] EXCEPT !.data[EmailSent] = req[p].op.value]]

LEMMA NewType ==
    ASSUME TypeOK, NEW p \in Procs
    PROVE  /\ NewColumn(p) \in [Users -> Row] /\ NewFriendLists(p) \in [Users -> Row]
           /\ NewReceivers(p) \in [Users -> Row] /\ NewRatings(p) \in [Users -> Row]
           /\ NewReminders(p) \in [Users -> Row]
<1>1. /\ \A u \in Users : req[p].copy[u] \in Row
      /\ req[p].op.column \in Columns /\ req[p].op.value \in Values
      /\ \A u \in Users : NewFriends(req[p].op, u) \in SUBSET Users
  BY ReqType DEF Op, NewFriends
<1>2. NewColumn(p) \in [Users -> Row]
  BY <1>1, RowFields DEF NewColumn
<1>3. NewFriendLists(p) \in [Users -> Row]
  BY <1>1, RowFields DEF NewFriendLists
<1>4. NewReceivers(p) \in [Users -> Row]
  BY <1>1, RowFields DEF NewReceivers
<1>5. NewRatings(p) \in [Users -> Row]
  BY <1>1, RowFields DEF NewRatings
<1>6. NewReminders(p) \in [Users -> Row]
  BY <1>1, RowFields DEF NewReminders
<1> QED
  BY <1>2, <1>3, <1>4, <1>5, <1>6

\* Every command that commits saves one of these for the users it is about.
LEMMA Saves ==
    ASSUME NEW p \in Procs, Committed(p)
    PROVE  \E new : /\ SaveRows(p, req[p].op.users, new)
                    /\ new \in {NewColumn(p), NewFriendLists(p), NewReceivers(p),
                                NewRatings(p), NewReminders(p)}
BY DEF Committed, SetColumn, AddFriend, FeedToFriends, UpdateRatings, SendReminders,
   NewColumn, NewFriendLists, NewReceivers, NewRatings, NewReminders

\* The kinds of steps, by what they do to the rows.
LEMMA NextCases ==
    ASSUME [Next]_vars
    PROVE  \/ \E p \in Procs, op \in Op : Begin(p, op)
           \/ \E p \in Procs : \/ ReadFriend(p) \/ Abort(p) \/ Publish(p) \/ Crash(p)
                              \/ Committed(p)
           \/ UNCHANGED vars
<1>1. Bus \in Procs /\ Mailer \in Procs /\ Requests \subseteq Procs
  BY DEF Procs
<1> QED
  BY <1>1, OpsType DEF Next, Committed

LEMMA TypeStep == ASSUME TypeOK, [Next]_vars PROVE TypeOK'
<1>1. ASSUME NEW p \in Procs, Finish(p) PROVE req' \in [Procs -> Request]
  BY <1>1, IdleType DEF Finish, TypeOK
<1>2. ASSUME NEW p \in Procs, NEW op \in Op, Begin(p, op) PROVE TypeOK'
  <2> DEFINE r == [IdleRequest EXCEPT !.pc = "loading", !.op = op]
  <2>1. r \in Request
    BY IdleType DEF Request
  <2>2. FirstRead(op) \in SUBSET Users
    BY DEF FirstRead, Op
  <2>3. Fetch(r, FirstRead(op)) \in Request
    BY <2>1, <2>2, FetchType
  <2> QED
    BY <1>2, <2>3 DEF Begin, TypeOK
<1>3. ASSUME NEW p \in Procs, ReadFriend(p) PROVE TypeOK'
  <2>1. Fetch(req[p], req[p].op.users \ req[p].loaded) \in Request
    BY ReqType, FetchType
  <2> QED
    BY <1>3, <2>1 DEF ReadFriend, TypeOK
<1>4. ASSUME NEW p \in Procs, Abort(p) \/ Crash(p) PROVE TypeOK'
  BY <1>1, <1>4, IdleType DEF Abort, Crash, TypeOK
<1>5. ASSUME NEW p \in Procs, Publish(p) PROVE TypeOK'
  BY <1>1, <1>5, ReqType DEF Publish, TypeOK
<1>6. ASSUME NEW p \in Procs, Committed(p) PROVE TypeOK'
  <2>1. row' \in [Users -> Row]
    <3>1. PICK new : /\ SaveRows(p, req[p].op.users, new)
                     /\ new \in {NewColumn(p), NewFriendLists(p), NewReceivers(p),
                                 NewRatings(p), NewReminders(p)}
      BY <1>6, Saves
    <3>2. new \in [Users -> Row]
      BY <3>1, NewType
    <3> QED
      BY <3>1, <3>2, ReqType, SaveType
  <2>2. req' \in [Procs -> Request]
    <3>1. [req[p] EXCEPT !.pc = "saved"] \in Request
      BY ReqType DEF Request
    <3>2. Finish(p) \/ req' = [req EXCEPT ![p].pc = "saved"]
      BY <1>6 DEF Committed, SetColumn, AddFriend, FeedToFriends, UpdateRatings, SendReminders
    <3>3. CASE req' = [req EXCEPT ![p].pc = "saved"]
      BY <3>1, <3>3 DEF TypeOK
    <3> QED
      BY <1>1, <3>2, <3>3
  <2>3. history' \in [Users -> Nat]
    <3>1. CASE UpdateRatings(p)
      BY <3>1 DEF UpdateRatings, TypeOK
    <3>2. CASE ~UpdateRatings(p)
      BY <1>6, <3>2 DEF Committed, SetColumn, AddFriend, FeedToFriends, SendReminders, TypeOK
    <3> QED
      BY <3>1, <3>2
  <2>4. sent' \in Nat /\ announced' \subseteq SUBSET Users
    BY <1>6 DEF Committed, SetColumn, AddFriend, FeedToFriends, UpdateRatings,
       SendReminders, TypeOK
  <2> QED
    BY <2>1, <2>2, <2>3, <2>4 DEF TypeOK
<1>11. CASE UNCHANGED vars
  BY <1>11 DEF vars, TypeOK
<1>12. ASSUME \E p \in Procs, op \in Op : Begin(p, op) PROVE TypeOK'
  BY <1>2, <1>12
<1> QED
  BY <1>3, <1>4, <1>5, <1>6, <1>11, <1>12, NextCases DEF Committed

\* The variables keep their types, whatever overlaps.
THEOREM TypeCorrect == Spec => []TypeOK
<1>1. Init => TypeOK
  <2> SUFFICES ASSUME Init PROVE TypeOK
    OBVIOUS
  <2>1. row \in [Users -> Row]
    BY DEF Init, Blank, Row
  <2> QED
    BY <2>1, IdleType DEF Init, TypeOK
<1>2. TypeOK /\ [Next]_vars => TypeOK'
  BY TypeStep
<1> QED
  BY <1>1, <1>2, PTL DEF Spec

-----------------------------------------------------------------------------
(* Optimistic concurrency: a copy whose token is still that of its row is   *)
(* equal to the row, so what a command computes from its copies is computed *)
(* from the rows it replaces.                                               *)

CopiesOK ==
    \A p \in Procs : \A u \in req[p].loaded :
        req[p].pc = "loading" =>
            /\ req[p].copy[u].xmin <= row[u].xmin
            /\ req[p].copy[u].xmin = row[u].xmin => req[p].copy[u] = row[u]

\* Whom the commands are about.
OpsOK ==
    \A p \in Procs : req[p].pc # "idle" =>
        /\ req[p].op.kind \in {"set", "feed"} => req[p].op.users = {req[p].op.user}
        /\ req[p].op.kind = "addFriend" =>
             \E v \in Users : req[p].op.users = {req[p].op.user, v}
        /\ req[p].pc = "saved" => req[p].op.kind = "addFriend"

Acquainted(S) == \A u, v \in S : u # v => u \in row[v].friends

SavedOK == \A p \in Procs : req[p].pc = "saved" => Acquainted(req[p].op.users)

StoreInv ==
    CopiesOK /\ OpsOK /\ SavedOK /\ FriendsAreMutual /\ EloMatchesHistory
    /\ AnnouncedAreFriends

\* What each kind of command adds to the friends of u.
Gained(op, u) ==
    IF op.kind = "addFriend" THEN NewFriends(op, u)
    ELSE IF op.kind = "feed" THEN {u} ELSE {}

LEMMA CopyIsRow ==
    ASSUME TypeOK, CopiesOK, NEW p \in Procs, Committed(p)
    PROVE  \A u \in req[p].op.users : req[p].copy[u] = row[u]
<1>1. req[p].pc = "loading" /\ req[p].op.users \subseteq req[p].loaded
  BY DEF Committed, SetColumn, AddFriend, FeedToFriends, UpdateRatings, SendReminders, Loaded
<1>2. Unchanged(p, req[p].op.users)
  BY Saves DEF SaveRows
<1> QED
  BY <1>1, <1>2 DEF CopiesOK, Unchanged

\* What a commit does to the rows, field by field.
LEMMA Effect ==
    ASSUME TypeOK, CopiesOK, NEW p \in Procs, Committed(p), NEW u \in Users
    PROVE  LET op == req[p].op IN
           /\ u \notin op.users => row'[u] = row[u]
           /\ u \in op.users =>
                /\ row'[u].xmin = row[u].xmin + 1
                /\ row'[u].friends = row[u].friends \cup Gained(op, u)
                /\ row'[u].elo = IF op.kind = "rate" THEN row[u].elo + 1 ELSE row[u].elo
                /\ row'[u].data = IF op.kind = "set"
                                    THEN [row[u].data EXCEPT ![op.column] = op.value]
                                  ELSE IF op.kind = "remind"
                                    THEN [row[u].data EXCEPT ![EmailSent] = op.value]
                                  ELSE row[u].data
<1> DEFINE op == req[p].op
           After(new) == IF u \in op.users THEN [new[u] EXCEPT !.xmin = row[u].xmin + 1]
                                            ELSE row[u]
<1>1. u \in op.users => req[p].copy[u] = row[u]
  BY CopyIsRow
<1>2. row[u] \in Row
  BY DEF TypeOK
<1>3. CASE SetColumn(p)
  <2>1. op.kind = "set" /\ row'[u] = After(NewColumn(p))
    BY <1>3 DEF SetColumn, Loaded, SaveRows, NewColumn
  <2> QED
    BY <1>1, <1>2, <2>1 DEF NewColumn, Row, Gained
<1>4. CASE AddFriend(p)
  <2>1. op.kind = "addFriend" /\ row'[u] = After(NewFriendLists(p))
    BY <1>4 DEF AddFriend, Loaded, SaveRows, NewFriendLists
  <2> QED
    BY <1>1, <1>2, <2>1 DEF NewFriendLists, Row, Gained
<1>5. CASE FeedToFriends(p)
  <2>1. op.kind = "feed" /\ row'[u] = After(NewReceivers(p))
    BY <1>5 DEF FeedToFriends, Loaded, SaveRows, NewReceivers
  <2> QED
    BY <1>1, <1>2, <2>1 DEF NewReceivers, Row, Gained
<1>6. CASE UpdateRatings(p)
  <2>1. op.kind = "rate" /\ row'[u] = After(NewRatings(p))
    BY <1>6 DEF UpdateRatings, Loaded, SaveRows, NewRatings
  <2> QED
    BY <1>1, <1>2, <2>1 DEF NewRatings, Row, Gained
<1>7. CASE SendReminders(p)
  <2>1. op.kind = "remind" /\ row'[u] = After(NewReminders(p))
    BY <1>7 DEF SendReminders, Loaded, SaveRows, NewReminders
  <2> QED
    BY <1>1, <1>2, <2>1 DEF NewReminders, Row, Gained
<1> QED
  BY <1>3, <1>4, <1>5, <1>6, <1>7 DEF Committed

\* A commit changes nothing but the state of its own request and the rows.
LEMMA CommitReq ==
    ASSUME TypeOK, OpsOK, NEW p \in Procs, Committed(p)
    PROVE  /\ announced' = announced
           /\ \A q \in Procs : q # p => req'[q] = req[q]
           /\ \/ req'[p].pc = "idle"
              \/ /\ req[p].op.kind = "addFriend" /\ req'[p].pc = "saved"
                 /\ req'[p].op = req[p].op
           /\ req[p].pc = "loading"
<1>1. req[p].pc = "loading" /\ announced' = announced
  BY DEF Committed, SetColumn, AddFriend, FeedToFriends, UpdateRatings, SendReminders, Loaded
<1>2. CASE Finish(p)
  BY <1>1, <1>2 DEF Finish, TypeOK, IdleRequest
<1>3. CASE AddFriend(p)
  <2>1. req[p] \in Request /\ p \in DOMAIN req
    BY DEF TypeOK
  <2>2. /\ req' = [req EXCEPT ![p] = [req[p] EXCEPT !.pc = "saved"]]
        /\ req[p].op.kind = "addFriend"
    BY <1>3 DEF AddFriend, Loaded
  <2>3. req'[p] = [req[p] EXCEPT !.pc = "saved"] /\ \A q \in Procs : q # p => req'[q] = req[q]
    BY <2>1, <2>2 DEF TypeOK
  <2>4. req'[p].pc = "saved" /\ req'[p].op = req[p].op
    BY <2>1, <2>3 DEF Request
  <2> QED
    BY <1>1, <2>2, <2>3, <2>4
<1> QED
  BY <1>2, <1>3 DEF Committed, SetColumn, AddFriend, FeedToFriends, UpdateRatings, SendReminders

LEMMA CopiesStep ==
    ASSUME TypeOK, CopiesOK, OpsOK, [Next]_vars PROVE CopiesOK'
<1>1. ASSUME row' = row, NEW p \in Procs, NEW S \in SUBSET Users, NEW r \in Request,
             req' = [req EXCEPT ![p] = Fetch(r, S)],
             \A u \in r.loaded \ S : u \in req[p].loaded /\ r.copy[u] = req[p].copy[u]
                                       /\ req[p].pc = "loading"
      PROVE  CopiesOK'
  <2> SUFFICES ASSUME NEW q \in Procs, NEW u \in req'[q].loaded, req'[q].pc = "loading"
               PROVE  /\ req'[q].copy[u].xmin <= row'[u].xmin
                      /\ req'[q].copy[u].xmin = row'[u].xmin => req'[q].copy[u] = row'[u]
    BY DEF CopiesOK
  <2>1. CASE q # p
    BY <1>1, <2>1 DEF TypeOK, CopiesOK
  <2>2. CASE q = p
    <3>1. req'[p] = Fetch(r, S)
      BY <1>1 DEF TypeOK
    <3>2. u \in r.loaded \cup S /\ req'[p].copy[u] = IF u \in S THEN row[u] ELSE r.copy[u]
      BY <2>2, <3>1 DEF Fetch, Request
    <3>3. CASE u \in S
      BY <1>1, <2>2, <3>2, <3>3 DEF TypeOK, Row
    <3>4. CASE u \notin S
      BY <1>1, <2>2, <3>2, <3>4 DEF CopiesOK
    <3> QED
      BY <3>3, <3>4
  <2> QED
    BY <2>1, <2>2
<1>2. ASSUME NEW p \in Procs, NEW op \in Op, Begin(p, op) PROVE CopiesOK'
  <2> DEFINE r == [IdleRequest EXCEPT !.pc = "loading", !.op = op]
  <2>1. r \in Request /\ r.loaded = {}
    BY IdleType DEF Request, IdleRequest
  <2>2. FirstRead(op) \in SUBSET Users
    BY DEF FirstRead, Op
  <2> QED
    BY <1>1, <1>2, <2>1, <2>2 DEF Begin
<1>3. ASSUME NEW p \in Procs, ReadFriend(p) PROVE CopiesOK'
  <2>1. req[p].op.users \ req[p].loaded \in SUBSET Users
    BY ReqType
  <2> QED
    BY <1>1, <1>3, <2>1, ReqType DEF ReadFriend
<1>4. ASSUME row' = row, NEW p \in Procs, Finish(p) PROVE CopiesOK'
  BY <1>4 DEF Finish, CopiesOK, TypeOK, IdleRequest
<1>5. ASSUME NEW p \in Procs, Committed(p) PROVE CopiesOK'
  <2> SUFFICES ASSUME NEW q \in Procs, NEW u \in req'[q].loaded, req'[q].pc = "loading"
               PROVE  /\ req'[q].copy[u].xmin <= row'[u].xmin
                      /\ req'[q].copy[u].xmin = row'[u].xmin => req'[q].copy[u] = row'[u]
    BY DEF CopiesOK
  <2>1. req'[q] = req[q]
    BY <1>5, CommitReq
  <2>2. u \in Users /\ row[u].xmin \in Nat /\ req[q].copy[u].xmin \in Nat
    BY <2>1, ReqType DEF TypeOK, Request, Row
  <2>3. row'[u] = row[u] \/ row'[u].xmin = row[u].xmin + 1
    BY <1>5, <2>2, Effect
  <2>4. req[q].copy[u].xmin <= row[u].xmin
    BY <2>1 DEF CopiesOK
  <2> QED
    BY <2>1, <2>2, <2>3, <2>4 DEF CopiesOK
<1>6. ASSUME NEW p \in Procs, Abort(p) \/ Publish(p) \/ Crash(p) PROVE CopiesOK'
  BY <1>4, <1>6 DEF Abort, Publish, Crash, Finish
<1>7. CASE UNCHANGED vars
  BY <1>7 DEF vars, CopiesOK
<1> QED
  BY <1>2, <1>3, <1>5, <1>6, <1>7, NextCases

\* The shape of the commands, as OpsOK wants it.
Shaped(op) ==
    /\ op.kind \in {"set", "feed"} => op.users = {op.user}
    /\ op.kind = "addFriend" => \E v \in Users : op.users = {op.user, v}

LEMMA OpsShaped ==
    /\ \A u \in Users, c \in Columns, x \in Values : Shaped(SetOp(u, c, x))
    /\ \A u, v \in Users : Shaped(FriendOp(u, v))
    /\ \A u \in Users : Shaped(FeedOp(u))
    /\ \A S \in SUBSET Users : Shaped(RateOp(S))
    /\ \A S \in SUBSET Users, x \in Values : Shaped(RemindOp(S, x))
BY NoOpType DEF SetOp, FriendOp, FeedOp, RateOp, RemindOp, Op, Shaped

LEMMA BegunShaped ==
    ASSUME [Next]_vars, NEW p \in Procs, req[p].pc = "idle", req'[p].pc = "loading", TypeOK
    PROVE  Shaped(req'[p].op)
<1>1. ASSUME NEW q \in Procs, NEW op \in Op, Begin(q, op), Shaped(op)
      PROVE  Shaped(req'[p].op)
  <2> DEFINE r == [IdleRequest EXCEPT !.pc = "loading", !.op = op]
  <2>1. r \in Request /\ r.op = op
    BY IdleType DEF Request, IdleRequest
  <2>2. Fetch(r, FirstRead(op)).op = op
    BY <2>1 DEF Fetch, Request
  <2>3. req' = [req EXCEPT ![q] = Fetch(r, FirstRead(op))]
    BY <1>1 DEF Begin
  <2>4. p = q
    BY <2>3 DEF TypeOK
  <2> QED
    BY <1>1, <2>2, <2>3, <2>4 DEF TypeOK
<1>2. CASE \E q \in Procs : \/ ReadFriend(q) \/ Abort(q) \/ Publish(q) \/ Crash(q)
                           \/ SetColumn(q) \/ AddFriend(q) \/ FeedToFriends(q)
                           \/ UpdateRatings(q) \/ SendReminders(q)
  BY <1>2 DEF ReadFriend, Abort, Publish, Crash, SetColumn, AddFriend, FeedToFriends,
     UpdateRatings, SendReminders, Finish, Loaded, TypeOK, IdleRequest
<1>3. CASE UNCHANGED vars
  BY <1>3 DEF vars
<1>4. Bus \in Procs /\ Mailer \in Procs /\ Requests \subseteq Procs
  BY DEF Procs
<1> QED
  BY <1>1, <1>2, <1>3, <1>4, OpsType, OpsShaped DEF Next

LEMMA OpsStep == ASSUME TypeOK, OpsOK, [Next]_vars PROVE OpsOK'
<1> SUFFICES ASSUME NEW p \in Procs, req'[p].pc # "idle"
             PROVE  Shaped(req'[p].op) /\ (req'[p].pc = "saved" => req'[p].op.kind = "addFriend")
  BY DEF OpsOK, Shaped
<1>0. req[p].pc # "idle" =>
        Shaped(req[p].op) /\ (req[p].pc = "saved" => req[p].op.kind = "addFriend")
  BY DEF OpsOK, Shaped
<1>1. ASSUME NEW q \in Procs, NEW op \in Op, Begin(q, op)
      PROVE  req'[p] = req[p] \/ (req[p].pc = "idle" /\ req'[p].pc = "loading")
  <2>1. CASE p # q
    BY <1>1, <2>1 DEF Begin, TypeOK
  <2>2. CASE p = q
    <3> DEFINE r == [IdleRequest EXCEPT !.pc = "loading", !.op = op]
    <3>1. r \in Request /\ r.pc = "loading"
      BY IdleType DEF Request, IdleRequest
    <3>2. Fetch(r, FirstRead(op)).pc = "loading"
      BY <3>1 DEF Fetch, Request
    <3> QED
      BY <1>1, <2>2, <3>2 DEF Begin, TypeOK
  <2> QED
    BY <2>1, <2>2
<1>2. ASSUME NEW q \in Procs, ReadFriend(q)
      PROVE  req'[p].op = req[p].op /\ req'[p].pc = req[p].pc
  BY <1>2, ReqType DEF ReadFriend, Fetch, TypeOK, Request
<1>3. ASSUME NEW q \in Procs, Abort(q) \/ Publish(q) \/ Crash(q) PROVE req'[p] = req[p]
  BY <1>3 DEF Abort, Publish, Crash, Finish, TypeOK, IdleRequest
<1>4. ASSUME NEW q \in Procs, Committed(q)
      PROVE  \/ req'[p] = req[p]
             \/ /\ req'[p].op = req[p].op /\ req[p].pc = "loading"
                /\ req[p].op.kind = "addFriend"
  BY <1>4, CommitReq
<1>5. req'[p] = req[p] => req[p].pc # "idle"
  OBVIOUS
<1>6. req[p].pc = "idle" /\ req'[p].pc = "loading" => Shaped(req'[p].op)
  BY BegunShaped
<1> QED
  BY <1>0, <1>1, <1>2, <1>3, <1>4, <1>5, <1>6, NextCases DEF vars

\* No step makes anybody forget a friend.
LEMMA FriendsGrow ==
    ASSUME TypeOK, CopiesOK, [Next]_vars
    PROVE  \A u \in Users : row[u].friends \subseteq row'[u].friends
<1>1. ASSUME NEW p \in Procs, Committed(p), NEW u \in Users
      PROVE  row[u].friends \subseteq row'[u].friends
  BY <1>1, Effect
<1>2. CASE row' = row
  BY <1>2
<1> QED
  BY <1>1, <1>2, NextCases DEF Begin, ReadFriend, Abort, Publish, Crash, vars

LEMMA MutualStep ==
    ASSUME TypeOK, CopiesOK, OpsOK, FriendsAreMutual, [Next]_vars PROVE FriendsAreMutual'
<1>1. ASSUME NEW p \in Procs, Committed(p), NEW u \in Users, NEW v \in Users
      PROVE  u \in row'[v].friends <=> v \in row'[u].friends
  <2> DEFINE op == req[p].op
  <2>1. u \in row[v].friends <=> v \in row[u].friends
    BY DEF FriendsAreMutual
  <2>2. /\ row'[u].friends = row[u].friends \cup (IF u \in op.users THEN Gained(op, u) ELSE {})
        /\ row'[v].friends = row[v].friends \cup (IF v \in op.users THEN Gained(op, v) ELSE {})
    BY <1>1, Effect
  <2>3. req[p].pc # "idle"
    BY <1>1, CommitReq
  <2>4. op.kind = "feed" => op.users = {op.user}
    BY <2>3 DEF OpsOK
  <2>5. (u \in op.users /\ v \in Gained(op, u)) <=> (v \in op.users /\ u \in Gained(op, v))
    BY <2>4 DEF Gained, NewFriends
  <2> QED
    BY <2>1, <2>2, <2>5
<1>2. CASE row' = row
  BY <1>2 DEF FriendsAreMutual
<1> QED
  BY <1>1, <1>2, NextCases DEF Begin, ReadFriend, Abort, Publish, Crash, vars,
     FriendsAreMutual

LEMMA EloStep == ASSUME TypeOK, CopiesOK, EloMatchesHistory, [Next]_vars
                 PROVE  EloMatchesHistory'
<1>1. ASSUME NEW p \in Procs, Committed(p), NEW u \in Users
      PROVE  row'[u].elo = history'[u]
  <2> DEFINE op == req[p].op
  <2>1. row[u].elo = history[u]
    BY DEF EloMatchesHistory
  <2>2. row'[u].elo = IF u \in op.users /\ op.kind = "rate" THEN row[u].elo + 1 ELSE row[u].elo
    BY <1>1, Effect
  <2>3. history'[u] = IF u \in op.users /\ op.kind = "rate" THEN history[u] + 1 ELSE history[u]
    <3>1. CASE UpdateRatings(p)
      BY <3>1 DEF UpdateRatings, Loaded
    <3>2. CASE ~UpdateRatings(p)
      BY <1>1, <3>2 DEF Committed, SetColumn, AddFriend, FeedToFriends, SendReminders, Loaded
    <3> QED
      BY <3>1, <3>2
  <2> QED
    BY <2>1, <2>2, <2>3
<1>2. CASE row' = row /\ history' = history
  BY <1>2 DEF EloMatchesHistory
<1> QED
  BY <1>1, <1>2, NextCases DEF Begin, ReadFriend, Abort, Publish, Crash, vars,
     EloMatchesHistory

LEMMA AcquaintedStays ==
    ASSUME TypeOK, CopiesOK, [Next]_vars, NEW S \in SUBSET Users, Acquainted(S)
    PROVE  Acquainted(S)'
BY FriendsGrow DEF Acquainted

LEMMA SavedStep ==
    ASSUME TypeOK, CopiesOK, OpsOK, SavedOK, [Next]_vars PROVE SavedOK'
<1> SUFFICES ASSUME NEW p \in Procs, req'[p].pc = "saved",
                    NEW u \in req'[p].op.users, NEW v \in req'[p].op.users, u # v
             PROVE  u \in row'[v].friends
  BY DEF SavedOK, Acquainted
<1>2. CASE req'[p] = req[p]
  <2>1. u \in row[v].friends /\ v \in Users
    BY <1>2, ReqType DEF SavedOK, Acquainted
  <2> QED
    BY <2>1, FriendsGrow
<1>3. ASSUME NEW q \in Procs, Committed(q) PROVE u \in row'[v].friends
  <2>1. CASE q # p
    BY <1>2, <1>3, <2>1, CommitReq
  <2>2. CASE q = p
    <3>1. CASE req'[p].pc = "idle"
      BY <3>1
    <3>2. CASE req[p].op.kind = "addFriend" /\ req'[p].op = req[p].op
      <4>1. u \in Gained(req[p].op, v)
        BY <3>2 DEF Gained, NewFriends
      <4>2. v \in Users /\ v \in req[p].op.users
        BY <3>2, ReqType
      <4> QED
        BY <1>3, <2>2, <4>1, <4>2, Effect
    <3> QED
      BY <1>3, <2>2, <3>1, <3>2, CommitReq
  <2> QED
    BY <2>1, <2>2
<1>4. ASSUME NEW q \in Procs, NEW op \in Op, Begin(q, op) PROVE req'[p] = req[p]
  <2> DEFINE r == [IdleRequest EXCEPT !.pc = "loading", !.op = op]
  <2>1. r \in Request /\ r.pc = "loading"
    BY IdleType DEF Request, IdleRequest
  <2>2. Fetch(r, FirstRead(op)).pc = "loading"
    BY <2>1 DEF Fetch, Request
  <2> QED
    BY <1>4, <2>2 DEF Begin, TypeOK
<1>5. ASSUME NEW q \in Procs, ReadFriend(q) PROVE req'[p] = req[p]
  BY <1>5, ReqType DEF ReadFriend, Fetch, TypeOK, Request
<1>6. ASSUME NEW q \in Procs, Abort(q) \/ Publish(q) \/ Crash(q) PROVE req'[p] = req[p]
  BY <1>6 DEF Abort, Publish, Crash, Finish, TypeOK, IdleRequest
<1> QED
  BY <1>2, <1>3, <1>4, <1>5, <1>6, NextCases DEF vars

LEMMA AnnouncedStep ==
    ASSUME TypeOK, CopiesOK, OpsOK, SavedOK, AnnouncedAreFriends, [Next]_vars
    PROVE  AnnouncedAreFriends'
<1>1. AnnouncedAreFriends <=> \A S \in announced : Acquainted(S)
  BY DEF AnnouncedAreFriends, Acquainted
<1>2. ASSUME NEW S \in announced PROVE Acquainted(S)'
  BY <1>1, AcquaintedStays DEF TypeOK
<1>3. announced' = announced \/ \E p \in Procs : Publish(p)
  BY CommitReq, NextCases DEF Begin, ReadFriend, Abort, Crash, vars
<1>4. ASSUME NEW p \in Procs, Publish(p) PROVE \A S \in announced' : Acquainted(S)'
  <2>1. req[p].pc = "saved" /\ announced' = announced \cup {req[p].op.users}
    BY <1>4 DEF Publish
  <2>2. Acquainted(req[p].op.users) /\ row' = row
    BY <1>4, <2>1 DEF SavedOK, Publish
  <2>3. \A S : Acquainted(S) => Acquainted(S)'
    BY <2>2 DEF Acquainted
  <2> QED
    BY <1>1, <2>1, <2>2, <2>3
<1>5. \A S \in announced' : Acquainted(S)'
  BY <1>2, <1>3, <1>4
<1> QED
  BY <1>5 DEF AnnouncedAreFriends, Acquainted

LEMMA StoreInvariant == Spec => []StoreInv
<1>1. Init => StoreInv
  <2> SUFFICES ASSUME Init PROVE StoreInv
    OBVIOUS
  <2>1. \A p \in Procs : req[p].pc = "idle" /\ req[p].loaded = {}
    BY DEF Init, IdleRequest
  <2>2. \A u \in Users : row[u].friends = {} /\ row[u].elo = 0 /\ history[u] = 0
    BY DEF Init, Blank
  <2>3. announced = {}
    BY DEF Init
  <2> QED
    BY <2>1, <2>2, <2>3 DEF StoreInv, CopiesOK, OpsOK, SavedOK, FriendsAreMutual,
       EloMatchesHistory, AnnouncedAreFriends
<1>2. TypeOK /\ TypeOK' /\ StoreInv /\ [Next]_vars => StoreInv'
  BY CopiesStep, OpsStep, SavedStep, MutualStep, EloStep, AnnouncedStep DEF StoreInv
<1> QED
  BY <1>1, <1>2, TypeCorrect, PTL DEF Spec

\* Friendship is mutual, whatever commands overlap and fail.
THEOREM FriendshipIsMutual == Spec => []FriendsAreMutual
<1>1. StoreInv => FriendsAreMutual
  BY DEF StoreInv
<1> QED
  BY <1>1, StoreInvariant, PTL

\* The stored rating is always the one the rating history ends with.
THEOREM RatingsAgree == Spec => []EloMatchesHistory
<1>1. StoreInv => EloMatchesHistory
  BY DEF StoreInv
<1> QED
  BY <1>1, StoreInvariant, PTL

\* FriendWasAdded is published for friends only.
THEOREM AnnouncedFriends == Spec => []AnnouncedAreFriends
<1>1. StoreInv => AnnouncedAreFriends
  BY DEF StoreInv
<1> QED
  BY <1>1, StoreInvariant, PTL

-----------------------------------------------------------------------------
(* Refinement: every commit is one step of UserTable, every other step none. *)

TableRow(u) == [data |-> row[u].data, friends |-> row[u].friends, elo |-> row[u].elo]
TableUser == [u \in Users |-> TableRow(u)]

TableRowType == [data : [Columns -> Values], friends : SUBSET Users, elo : Nat]

LEMMA TableIsUser ==
    /\ TableUser = [u \in Users |-> [data |-> row[u].data, friends |-> row[u].friends,
                                    elo |-> row[u].elo]]
    /\ TypeOK => TableUser \in [Users -> TableRowType]
BY DEF TableUser, TableRow, TableRowType, TypeOK, Row

\* A commit in the table, row by row.
LEMMA TableEffect ==
    ASSUME TypeOK, CopiesOK, NEW p \in Procs, Committed(p), NEW u \in Users
    PROVE  LET op == req[p].op
               old == TableUser[u]
           IN  /\ u \notin op.users => TableUser'[u] = old
               /\ u \in op.users =>
                    /\ op.kind = "set" =>
                         TableUser'[u] = [old EXCEPT !.data[op.column] = op.value]
                    /\ op.kind \in {"addFriend", "feed"} =>
                         TableUser'[u] = [old EXCEPT !.friends = @ \cup Gained(op, u)]
                    /\ op.kind = "rate" => TableUser'[u] = [old EXCEPT !.elo = @ + 1]
                    /\ op.kind = "remind" =>
                         TableUser'[u] = [old EXCEPT !.data[EmailSent] = op.value]
<1> DEFINE op == req[p].op
<1>1. TableUser[u] = TableRow(u) /\ TableUser'[u] = TableRow(u)'
  BY DEF TableUser, TableRow
<1>2. row[u] \in Row
  BY DEF TypeOK
<1>3. CASE u \notin op.users
  BY <1>1, <1>3, Effect DEF TableRow
<1>4. CASE u \in op.users
  <2>1. /\ row'[u].friends = row[u].friends \cup Gained(op, u)
        /\ row'[u].elo = IF op.kind = "rate" THEN row[u].elo + 1 ELSE row[u].elo
        /\ row'[u].data = IF op.kind = "set"
                            THEN [row[u].data EXCEPT ![op.column] = op.value]
                          ELSE IF op.kind = "remind"
                            THEN [row[u].data EXCEPT ![EmailSent] = op.value]
                          ELSE row[u].data
    BY <1>4, Effect
  <2>2. op.kind \notin {"addFriend", "feed"} => row'[u].friends = row[u].friends
    BY <2>1 DEF Gained
  <2>3. TableUser[u] = [data |-> row[u].data, friends |-> row[u].friends, elo |-> row[u].elo]
    BY <1>1 DEF TableRow
  <2>4. TableUser'[u] = [data |-> row'[u].data, friends |-> row'[u].friends,
                         elo |-> row'[u].elo]
    BY <1>1 DEF TableRow
  <2>5. ASSUME op.kind = "set"
        PROVE  TableUser'[u] = [TableUser[u] EXCEPT !.data[op.column] = op.value]
    <3>1. /\ row'[u].friends = row[u].friends /\ row'[u].elo = row[u].elo
          /\ row'[u].data = [row[u].data EXCEPT ![op.column] = op.value]
      BY <2>1, <2>2, <2>5
    <3> QED
      BY <2>3, <2>4, <3>1
  <2>6. ASSUME op.kind \in {"addFriend", "feed"}
        PROVE  TableUser'[u] = [TableUser[u] EXCEPT !.friends = @ \cup Gained(op, u)]
    <3>1. /\ row'[u].elo = row[u].elo /\ row'[u].data = row[u].data
          /\ row'[u].friends = row[u].friends \cup Gained(op, u)
      BY <2>1, <2>6
    <3> HIDE DEF op
    <3> QED
      BY <2>3, <2>4, <3>1
  <2>7. ASSUME op.kind = "rate"
        PROVE  TableUser'[u] = [TableUser[u] EXCEPT !.elo = @ + 1]
    <3>1. /\ row'[u].friends = row[u].friends /\ row'[u].elo = row[u].elo + 1
          /\ row'[u].data = row[u].data
      BY <2>1, <2>2, <2>7
    <3> QED
      BY <2>3, <2>4, <3>1
  <2>8. ASSUME op.kind = "remind"
        PROVE  TableUser'[u] = [TableUser[u] EXCEPT !.data[EmailSent] = op.value]
    <3>1. /\ row'[u].friends = row[u].friends /\ row'[u].elo = row[u].elo
          /\ row'[u].data = [row[u].data EXCEPT ![EmailSent] = op.value]
      BY <2>1, <2>2, <2>8
    <3> QED
      BY <2>3, <2>4, <3>1
  <2> QED
    BY <1>4, <2>5, <2>6, <2>7, <2>8
<1> QED
  BY <1>3, <1>4

\* u and v become friends, user by user.
Befriended(u, v) ==
    \A w \in Users :
        TableUser'[w] =
          IF w \notin {u, v} THEN TableUser[w]
          ELSE [TableUser[w] EXCEPT !.friends = @ \cup (IF w = u THEN {v} ELSE {u})]

LEMMA BefriendedIsBefriend ==
    ASSUME TypeOK, NEW u \in Users, NEW v \in Users, Befriended(u, v)
    PROVE  TableUser' = [TableUser EXCEPT ![u].friends = @ \cup {v},
                                          ![v].friends = @ \cup {u}]
<1> DEFINE first == [TableUser EXCEPT ![u].friends = @ \cup {v}]
           both == [first EXCEPT ![v].friends = @ \cup {u}]
<1>1. TableUser \in [Users -> TableRowType] /\ TableUser' = [w \in Users |-> TableUser'[w]]
  BY TableIsUser DEF TableUser
<1>2. first = [w \in Users |-> IF w = u THEN [TableUser[w] EXCEPT !.friends = @ \cup {v}]
                                       ELSE TableUser[w]]
  BY <1>1
<1>3. both = [w \in Users |-> IF w = v THEN [first[w] EXCEPT !.friends = @ \cup {u}]
                                      ELSE first[w]]
  <2>1. DOMAIN first = Users
    BY <1>2
  <2>2. \A f : DOMAIN f = Users =>
          [f EXCEPT ![v].friends = @ \cup {u}] =
            [w \in Users |-> IF w = v THEN [f[w] EXCEPT !.friends = @ \cup {u}] ELSE f[w]]
    OBVIOUS
  <2> QED
    BY <2>1, <2>2
<1>4. ASSUME NEW w \in Users PROVE TableUser'[w] = both[w]
  <2>1. CASE w # v
    BY <1>2, <1>3, <2>1 DEF Befriended
  <2>2. CASE w = v /\ w # u
    BY <1>2, <1>3, <2>2 DEF Befriended
  <2>3. CASE w = v /\ w = u
    <3>1. both[w] = [[TableUser[w] EXCEPT !.friends = @ \cup {v}] EXCEPT !.friends = @ \cup {u}]
      BY <1>2, <1>3, <2>3
    <3>2. TableUser[w] \in TableRowType
      BY <1>1
    <3>3. both[w] = [TableUser[w] EXCEPT !.friends = @ \cup {v}]
      BY <2>3, <3>1, <3>2 DEF TableRowType
    <3> QED
      BY <2>3, <3>3 DEF Befriended
  <2> QED
    BY <2>1, <2>2, <2>3
<1>5. TableUser' = both
  BY <1>1, <1>3, <1>4
<1> QED
  BY <1>5

\* Each command that commits does at once what UserTable says of it.
LEMMA CommitIsTableStep ==
    ASSUME TypeOK, CopiesOK, OpsOK, NEW p \in Procs, Committed(p)
    PROVE  Table!Next
<1> DEFINE op == req[p].op
<1>1. /\ op.user \in Users /\ op.users \in SUBSET Users /\ op.column \in Columns
      /\ op.value \in Values /\ req[p].pc = "loading" /\ EmailSent \in Columns
  BY ReqType, CommitReq DEF Op
<1>2. /\ TableUser \in [Users -> TableRowType] /\ DOMAIN TableUser = Users
      /\ TableUser' = [u \in Users |-> TableUser'[u]]
  BY TableIsUser DEF TableUser
<1>3. /\ TableUser = [u \in Users |-> [data |-> row[u].data, friends |-> row[u].friends,
                                      elo |-> row[u].elo]]
      /\ TableUser' = [u \in Users |-> [data |-> row[u].data, friends |-> row[u].friends,
                                       elo |-> row[u].elo]]'
  BY TableIsUser DEF TableUser, TableRow
<1>4. CASE SetColumn(p)
  <2>1. op.kind = "set" /\ op.users = {op.user}
    BY <1>1, <1>4 DEF SetColumn, Loaded, OpsOK
  <2>2. PICK u \in Users, c \in Columns, x \in Values :
          u = op.user /\ c = op.column /\ x = op.value
    BY <1>1
  <2>3. TableUser' = [TableUser EXCEPT ![u].data[c] = x]
    BY <1>1, <1>2, <2>1, <2>2, TableEffect
  <2>4. Table!Set(u, c, x)
    BY <1>3, <2>3 DEF Table!Set
  <2> QED
    BY <2>4 DEF Table!Next
<1>5. CASE AddFriend(p)
  <2>1. op.kind = "addFriend" /\ \E v \in Users : op.users = {op.user, v}
    BY <1>1, <1>5 DEF AddFriend, Loaded, OpsOK
  <2>2. PICK u \in Users, v \in Users : u = op.user /\ op.users = {u, v}
    BY <1>1, <2>1
  <2>3. Gained(op, u) = {v} /\ Gained(op, v) = {u}
    BY <2>1, <2>2 DEF Gained, NewFriends
  <2>4. Befriended(u, v)
    <3> SUFFICES ASSUME NEW w \in Users
                 PROVE  TableUser'[w] =
                          IF w \notin {u, v} THEN TableUser[w]
                          ELSE [TableUser[w] EXCEPT
                                  !.friends = @ \cup (IF w = u THEN {v} ELSE {u})]
      BY DEF Befriended
    <3>1. CASE w \notin {u, v}
      BY <2>2, <3>1, TableEffect
    <3>2. CASE w \in {u, v}
      <4>1. Gained(op, w) = IF w = u THEN {v} ELSE {u}
        BY <2>3, <3>2
      <4>2. TableUser'[w] = [TableUser[w] EXCEPT !.friends = @ \cup Gained(op, w)]
        BY <2>1, <2>2, <3>2, TableEffect
      <4> QED
        BY <3>2, <4>1, <4>2
    <3> QED
      BY <3>1, <3>2
  <2>5. Table!Befriend(u, v)
    BY <1>3, <2>4, BefriendedIsBefriend DEF Table!Befriend
  <2> QED
    BY <2>5 DEF Table!Next
<1>6. CASE FeedToFriends(p)
  <2>1. op.kind = "feed" /\ op.users = {op.user}
    BY <1>1, <1>6 DEF FeedToFriends, Loaded, OpsOK
  <2>2. PICK u \in Users : u = op.user
    BY <1>1
  <2>3. Gained(op, u) = {u} /\ op.users = {u}
    BY <2>1, <2>2 DEF Gained
  <2>4. Befriended(u, u)
    <3>1. \A w \in Users : w # u => TableUser'[w] = TableUser[w]
      BY <2>3, TableEffect
    <3>2. TableUser'[u] = [TableUser[u] EXCEPT !.friends = @ \cup Gained(op, u)]
      BY <2>1, <2>3, TableEffect
    <3>3. TableUser'[u] = [TableUser[u] EXCEPT !.friends = @ \cup {u}]
      BY <2>3, <3>2
    <3> QED
      BY <3>1, <3>3 DEF Befriended
  <2>5. Table!Befriend(u, u)
    BY <1>3, <2>4, BefriendedIsBefriend DEF Table!Befriend
  <2> QED
    BY <2>5 DEF Table!Next
<1>7. CASE UpdateRatings(p)
  <2>1. op.kind = "rate" /\ Cardinality(op.users) > 1
    BY <1>7 DEF UpdateRatings, Loaded
  <2>2. PICK S \in SUBSET Users : S = op.users
    BY <1>1
  <2>3. \E u, v \in S : u # v
    <3>1. CASE S = {}
      BY <2>1, <2>2, <3>1, FS_EmptySet
    <3>2. ASSUME NEW x \in S, S = {x} PROVE FALSE
      <4>1. Cardinality({x}) = 1
        BY FS_Singleton
      <4> QED
        BY <2>1, <2>2, <3>2, <4>1
    <3> QED
      BY <3>1, <3>2
  <2>4. TableUser' = [u \in Users |-> IF u \in S THEN [TableUser[u] EXCEPT !.elo = @ + 1]
                                               ELSE TableUser[u]]
    BY <1>1, <1>2, <2>1, <2>2, TableEffect
  <2>5. Table!Rate(S)
    BY <1>3, <2>3, <2>4 DEF Table!Rate
  <2> QED
    BY <2>5 DEF Table!Next
<1>8. CASE SendReminders(p)
  <2>1. op.kind = "remind"
    BY <1>8 DEF SendReminders, Loaded
  <2>2. PICK S \in SUBSET Users, x \in Values : S = op.users /\ x = op.value
    BY <1>1
  <2>3. TableUser' = [u \in Users |-> IF u \in S
                                       THEN [TableUser[u] EXCEPT !.data[EmailSent] = x]
                                       ELSE TableUser[u]]
    BY <1>1, <1>2, <2>1, <2>2, TableEffect
  <2>4. Table!Remind(S, x)
    BY <1>3, <2>3 DEF Table!Remind
  <2> QED
    BY <2>4 DEF Table!Next
<1> QED
  BY <1>4, <1>5, <1>6, <1>7, <1>8 DEF Committed

\* However commands overlap, the rows change as if each took effect at once.
THEOREM CommandsAreAtomic == Spec => ImplementsUserTable
<1>1. Init => Table!Init
  <2> SUFFICES ASSUME Init PROVE Table!Init
    OBVIOUS
  <2>1. PICK x \in Values :
          row = [u \in Users |-> [Blank EXCEPT !.data = [c \in Columns |-> x]]]
    BY DEF Init
  <2>2. \A u \in Users : /\ row[u].data = [c \in Columns |-> x]
                         /\ row[u].friends = {} /\ row[u].elo = 0
    BY <2>1 DEF Blank
  <2> QED
    BY <2>2 DEF Table!Init
<1>2. TypeOK /\ StoreInv /\ [Next]_vars
        => [Table!Next]_([u \in Users |-> [data |-> row[u].data, friends |-> row[u].friends,
                                          elo |-> row[u].elo]])
  <2> SUFFICES ASSUME TypeOK, StoreInv, [Next]_vars
               PROVE  Table!Next \/ row' = row
    OBVIOUS
  <2>1. ASSUME NEW p \in Procs, Committed(p) PROVE Table!Next
    BY <2>1, CommitIsTableStep DEF StoreInv
  <2> QED
    BY <2>1, NextCases DEF Begin, ReadFriend, Abort, Publish, Crash, vars
<1> QED
  BY <1>1, <1>2, TypeCorrect, StoreInvariant, PTL DEF Spec, ImplementsUserTable, Table!Spec
=============================================================================
