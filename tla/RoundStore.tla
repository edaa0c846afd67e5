------------------------------ MODULE RoundStore ------------------------------
(***************************************************************************)
(* One round of the Rounds component, stored in PostgreSQL through EF Core *)
(* and changed by HTTP commands, hub calls and the clean-up worker, each   *)
(* in a DbContext of its own.                                              *)
(*                                                                         *)
(* Every command has the same shape: load the round (the query filter      *)
(* hides deleted ones; SplitQuery reads each collection with a statement   *)
(* of its own), change the objects, Rounds.Update(round), SaveChanges in   *)
(* one transaction, then publish.  `rounds` has no concurrency token and   *)
(* Update marks the whole row as modified, so a save writes back every     *)
(* column of the row as it was loaded; of the owned tables only the rows   *)
(* that were added, removed or changed are written.  A DELETE or UPDATE    *)
(* that finds no row makes SaveChanges throw, and nothing is saved.        *)
(***************************************************************************)
EXTENDS Naturals, FiniteSets

CONSTANTS
    Users,          \* usernames
    Creator,        \* the user who started the round
    Holes,          \* identities of the hole rows a round may ever have
    InitialHoles,   \* the holes of the course it was started on
    Requests,       \* concurrent requests the web server can have in flight
    Worker,         \* UpdateInActiveRoundsWorker
    Kinds,          \* the commands clients send in this instance
    MinStrokes,     \* 10 in the code: registered strokes that save a round
    MaxRequests,    \* bound on the number of requests ever sent
    Concurrent,     \* FALSE: a request starts only when none is in flight
    Crashes         \* TRUE: the process may die after a save

AllKinds == {"score", "complete", "leave", "delete", "addHole", "deleteHole",
             "saveCourse", "spectate", "unspectate", "evaluate"}

ASSUME RoundStoreAssumption ==
    /\ Creator \in Users /\ IsFiniteSet(Users)
    /\ InitialHoles \subseteq Holes /\ IsFiniteSet(Holes) /\ Holes # {}
    /\ Worker \notin Requests /\ IsFiniteSet(Requests)
    /\ Kinds \subseteq AllKinds
    /\ MinStrokes \in Nat /\ MaxRequests \in Nat
    /\ Concurrent \in BOOLEAN /\ Crashes \in BOOLEAN

VARIABLES
    exists,      \* the row of `rounds` is there (DeleteRound removes it)
    row,         \* its columns: isCompleted, deleted, spectators
    players,     \* rows of player_scores
    cards,       \* rows of hole_scores: <<player, hole>>
    scored,      \* the hole_scores with Strokes # 0
    signatures,  \* number of player_signatures rows of each user
    taken,       \* hole identities already given out
    old,         \* StartTime lies more than two days back
    req,         \* what each request (and the worker) has loaded
    sent,        \* requests sent so far
    published,   \* RoundWasCompleted and RoundWasDeleted events published
    cleaned      \* history: the worker has completed the round

dbVars == <<exists, row, players, cards, scored, signatures>>
vars == <<exists, row, players, cards, scored, signatures, taken, old, req,
          sent, published, cleaned>>

-----------------------------------------------------------------------------
Procs == Requests \cup {Worker}
Row == [isCompleted : BOOLEAN, deleted : BOOLEAN, spectators : SUBSET Users]
Op == [kind : AllKinds \cup {"cleanUp"}, user : Users, target : Users, hole : Holes]
Collections == {"signatures", "cards"}
Request == [pc : {"idle", "loading", "saved"}, op : Op, row : Row,
            pending : SUBSET Collections, signers : SUBSET Users,
            players : SUBSET Users, cards : SUBSET (Users \X Holes),
            scored : SUBSET (Users \X Holes)]

Signers == {u \in Users : signatures[u] > 0}

\* An idle slot holds nothing: each request has a DbContext of its own.
NoOp == [kind |-> "cleanUp", user |-> Creator, target |-> Creator,
         hole |-> CHOOSE h \in Holes : TRUE]
NewRow == [isCompleted |-> FALSE, deleted |-> FALSE, spectators |-> {}]
IdleRequest == [pc |-> "idle", op |-> NoOp, row |-> NewRow, pending |-> {},
                signers |-> {}, players |-> {}, cards |-> {}, scored |-> {}]

Init ==
    /\ exists = TRUE
    /\ row = NewRow
    /\ players \in SUBSET Users
    /\ cards = players \X InitialHoles
    /\ scored = {}
    /\ signatures = [u \in Users |-> 0]
    /\ taken = InitialHoles
    /\ old = FALSE
    /\ req = [p \in Procs |-> IdleRequest]
    /\ sent = 0
    /\ published = [completed |-> 0, deleted |-> 0]
    /\ cleaned = FALSE

-----------------------------------------------------------------------------
(* Loading.  The query filter hides a deleted round: the command then       *)
(* throws (or, in the hub, returns) and changes nothing.                    *)

\* The collections whose loaded rows the command looks at.  The others are read
\* as well, but what was read is forgotten when the request ends.
LooksAt(kind) ==
    CASE kind = "complete" -> Collections
      [] kind \in {"spectate", "unspectate", "evaluate"} -> {}
      [] OTHER -> {"cards"}

\* The first statement of the split query: the row itself.
ReadRow(p, op) ==
    /\ req[p].pc = "idle"
    /\ Concurrent \/ \A q \in Procs : req[q].pc = "idle"
    /\ exists /\ ~row.deleted
    /\ req' = [req EXCEPT ![p] = [IdleRequest EXCEPT !.pc = "loading", !.op = op,
                                    !.row = row, !.pending = LooksAt(op.kind)]]
    /\ UNCHANGED <<exists, row, players, cards, scored, signatures, old,
                   published, cleaned>>

\* A client sends a command, or the message consumer handles RoundWasCompleted.
\* A hole is added with a fresh row identity.
Send(r, op) ==
    /\ op.kind \in Kinds
    /\ op.kind = "evaluate" => published.completed > 0
    /\ sent < MaxRequests
    /\ sent' = sent + 1
    /\ IF op.kind = "addHole"
         THEN op.hole \notin taken /\ taken' = taken \cup {op.hole}
         ELSE UNCHANGED taken
    /\ ReadRow(r, op)

\* Fault: the worker forgets to leave completed rounds alone.
WorkerWakesForAll ==
    old /\ ReadRow(Worker, NoOp) /\ UNCHANGED <<sent, taken>>

\* The timer of the worker fires; it selects only old, open rounds.
WorkerWakes ==
    /\ old /\ ~row.isCompleted
    /\ ReadRow(Worker, NoOp)
    /\ UNCHANGED <<sent, taken>>

ReadSignatures(p) ==
    /\ "signatures" \in req[p].pending
    /\ req' = [req EXCEPT ![p].pending = @ \ {"signatures"}, ![p].signers = Signers]
    /\ UNCHANGED <<exists, row, players, cards, scored, signatures, taken, old,
                   sent, published, cleaned>>

\* player_scores and the hole_scores below them; only the worker counts strokes.
ReadCards(p) ==
    /\ "cards" \in req[p].pending
    /\ req' = [req EXCEPT ![p].pending = @ \ {"cards"}, ![p].players = players,
                          ![p].cards = cards,
                          ![p].scored = IF p = Worker THEN scored ELSE {}]
    /\ UNCHANGED <<exists, row, players, cards, scored, signatures, taken, old,
                   sent, published, cleaned>>

Loaded(p, kind) ==
    /\ req[p].pc = "loading" /\ req[p].pending = {}
    /\ req[p].op.kind = kind

\* The request ends without a save: the command's own check threw, SaveChanges
\* found a row missing, or the process died.
Abort(p) ==
    /\ req[p].pc = "loading"
    /\ req' = [req EXCEPT ![p] = IdleRequest]
    /\ UNCHANGED <<exists, row, players, cards, scored, signatures, taken, old,
                   sent, published, cleaned>>

-----------------------------------------------------------------------------
(* The commands, each from its checks to its commit.                        *)

\* Fault: a save that does not notice that the row is gone.
UpdateRowBlindly(newRow) == row' = newRow /\ UNCHANGED exists

\* Rounds.Update(round): the row as the request holds it replaces the stored
\* one; without a stored one SaveChanges throws.
UpdateRow(newRow) == exists /\ row' = newRow /\ UNCHANGED exists

Finish(p) == req' = [req EXCEPT ![p] = IdleRequest]

UpdatePlayerScore(p) ==
    LET op == req[p].op IN
    /\ Loaded(p, "score")
    /\ op.user \in req[p].players
    /\ op.target = op.user
    /\ <<op.user, op.hole>> \in req[p].cards      \* Scores[HoleIndex]
    /\ <<op.user, op.hole>> \in cards             \* UPDATE hole_scores
    /\ UpdateRow(req[p].row)
    /\ scored' = scored \cup {<<op.user, op.hole>>}
    /\ Finish(p)
    /\ UNCHANGED <<players, cards, signatures, taken, old, sent, published, cleaned>>

\* Faults: one signature is enough; the new signature is not counted.
SignRoundAny(p) == req[p].players \cap (req[p].signers \cup {req[p].op.user}) # {}
SignRoundStale(p) == req[p].players \subseteq req[p].signers

\* SignRound: all players of the loaded round are among the loaded signatures
\* and the new one.
SignRound(p) == req[p].players \subseteq req[p].signers \cup {req[p].op.user}

Signing(p) ==
    signatures' = [signatures EXCEPT ![req[p].op.user] = @ + 1]

\* Faults: every signature is announced; none is; nobody looks whether the
\* round is already completed or signed by the caller.
CompleteAnnouncesAll(p) ==
    /\ Loaded(p, "complete")
    /\ req[p].op.user \in req[p].players \ req[p].signers
    /\ ~req[p].row.isCompleted
    /\ Signing(p)
    /\ UpdateRow([req[p].row EXCEPT !.isCompleted = SignRound(p)])
    /\ req' = [req EXCEPT ![p].pc = "saved"]
    /\ UNCHANGED <<players, cards, scored, taken, old, sent, published, cleaned>>

CompleteSilently(p) ==
    /\ Loaded(p, "complete")
    /\ req[p].op.user \in req[p].players \ req[p].signers
    /\ ~req[p].row.isCompleted
    /\ Signing(p)
    /\ UpdateRow([req[p].row EXCEPT !.isCompleted = SignRound(p)])
    /\ Finish(p)
    /\ UNCHANGED <<players, cards, scored, taken, old, sent, published, cleaned>>

CompleteUnchecked(p) ==
    /\ Loaded(p, "complete")
    /\ req[p].op.user \in req[p].players
    /\ Signing(p)
    /\ UpdateRow([req[p].row EXCEPT !.isCompleted = SignRound(p)])
    /\ req' = [req EXCEPT ![p].pc = IF SignRound(p) THEN "saved" ELSE "idle"]
    /\ UNCHANGED <<players, cards, scored, taken, old, sent, published, cleaned>>

CompleteRound(p) ==
    LET user == req[p].op.user IN
    /\ Loaded(p, "complete")
    /\ user \in req[p].players
    /\ ~req[p].row.isCompleted
    /\ user \notin req[p].signers
    /\ Signing(p)
    /\ IF SignRound(p)
         THEN /\ UpdateRow([req[p].row EXCEPT !.isCompleted = TRUE])
              /\ req' = [req EXCEPT ![p].pc = "saved"]
         ELSE UpdateRow(req[p].row) /\ Finish(p)
    /\ UNCHANGED <<players, cards, scored, taken, old, sent, published, cleaned>>

RowsOf(rows, u) == {c \in rows : c[1] = u}

\* Removes the caller's player_scores row and the hole_scores it loaded; the
\* foreign key cascades to any added since.
LeaveRound(p) ==
    LET user == req[p].op.user IN
    /\ Loaded(p, "leave")
    /\ user \in req[p].players => user \in players
    /\ RowsOf(req[p].cards, user) \subseteq cards
    /\ UpdateRow(req[p].row)
    /\ IF user \in req[p].players
         THEN /\ players' = players \ {user}
              /\ cards' = cards \ RowsOf(cards, user)
              /\ scored' = scored \ RowsOf(scored, user)
         ELSE UNCHANGED <<players, cards, scored>>
    /\ Finish(p)
    /\ UNCHANGED <<signatures, taken, old, sent, published, cleaned>>

\* Fault: deletes without asking how many rows it deleted.
DeleteRoundBlindly(p) ==
    /\ Loaded(p, "delete") /\ req[p].op.user = Creator
    /\ exists' = FALSE
    /\ players' = {} /\ cards' = {} /\ scored' = {}
    /\ signatures' = [u \in Users |-> 0]
    /\ req' = [req EXCEPT ![p].pc = "saved"]
    /\ UNCHANGED <<row, taken, old, sent, published, cleaned>>

\* Rounds.Remove(round): a hard delete of the row and of all owned rows.
DeleteRound(p) ==
    /\ Loaded(p, "delete")
    /\ req[p].op.user = Creator
    /\ exists
    /\ req[p].players \subseteq players /\ req[p].cards \subseteq cards
    /\ exists' = FALSE
    /\ players' = {} /\ cards' = {} /\ scored' = {}
    /\ signatures' = [u \in Users |-> 0]
    /\ req' = [req EXCEPT ![p].pc = "saved"]
    /\ UNCHANGED <<row, taken, old, sent, published, cleaned>>

\* One new hole_scores row for each player that was loaded.
AddHole(p) ==
    /\ Loaded(p, "addHole")
    /\ req[p].op.user \in req[p].players
    /\ req[p].players \subseteq players           \* foreign key
    /\ UpdateRow(req[p].row)
    /\ cards' = cards \cup (req[p].players \X {req[p].op.hole})
    /\ Finish(p)
    /\ UNCHANGED <<players, scored, signatures, taken, old, sent, published, cleaned>>

\* Fault: the hole is taken off the caller's own card only.
DeleteOwnHole(p) ==
    LET gone == {<<req[p].op.user, req[p].op.hole>>} IN
    /\ Loaded(p, "deleteHole") /\ req[p].op.user = Creator
    /\ gone \subseteq cards
    /\ UpdateRow(req[p].row)
    /\ cards' = cards \ gone /\ scored' = scored \ gone
    /\ Finish(p)
    /\ UNCHANGED <<players, signatures, taken, old, sent, published, cleaned>>

DeleteHole(p) ==
    LET gone == {c \in req[p].cards : c[2] = req[p].op.hole} IN
    /\ Loaded(p, "deleteHole")
    /\ req[p].op.user = Creator
    /\ gone \subseteq cards
    /\ UpdateRow(req[p].row)
    /\ cards' = cards \ gone
    /\ scored' = scored \ gone
    /\ Finish(p)
    /\ UNCHANGED <<players, signatures, taken, old, sent, published, cleaned>>

\* Names the course of the round (left out of Row) and saves a copy of it.
SaveCourse(p) ==
    /\ Loaded(p, "saveCourse")
    /\ req[p].op.user \in req[p].players
    /\ UpdateRow(req[p].row)
    /\ Finish(p)
    /\ UNCHANGED <<players, cards, scored, signatures, taken, old, sent,
                   published, cleaned>>

\* The handlers of RoundWasCompleted add achievements and rating changes, which
\* lie in tables of their own, and write the row back with them.
EvaluateRound(p) ==
    /\ Loaded(p, "evaluate")
    /\ UpdateRow(req[p].row)
    /\ Finish(p)
    /\ UNCHANGED <<players, cards, scored, signatures, taken, old, sent,
                   published, cleaned>>

SpectatorJoined(p) ==
    LET user == req[p].op.user IN
    /\ Loaded(p, "spectate")
    /\ user \notin req[p].row.spectators
    /\ UpdateRow([req[p].row EXCEPT !.spectators = @ \cup {user}])
    /\ Finish(p)
    /\ UNCHANGED <<players, cards, scored, signatures, taken, old, sent,
                   published, cleaned>>

SpectatorLeft(p) ==
    LET user == req[p].op.user IN
    /\ Loaded(p, "unspectate")
    /\ user \in req[p].row.spectators
    /\ UpdateRow([req[p].row EXCEPT !.spectators = @ \ {user}])
    /\ Finish(p)
    /\ UNCHANGED <<players, cards, scored, signatures, taken, old, sent,
                   published, cleaned>>

\* Fault: off by one.
SparseOrEqual(strokes) == Cardinality(strokes) <= MinStrokes
Sparse(strokes) == Cardinality(strokes) < MinStrokes

\* Fault: rounds that were hardly played are left as they are.
CleanUpPlayedOnly ==
    /\ Loaded(Worker, "cleanUp") /\ ~Sparse(req[Worker].scored)
    /\ UpdateRow([req[Worker].row EXCEPT !.isCompleted = TRUE])
    /\ cleaned' = TRUE
    /\ Finish(Worker)
    /\ UNCHANGED <<players, cards, scored, signatures, taken, old, sent, published>>

\* DoWork: delete a round that was hardly played, complete the others.
CleanUp ==
    LET sparse == Sparse(req[Worker].scored) IN
    /\ Loaded(Worker, "cleanUp")
    /\ UpdateRow(IF sparse THEN [req[Worker].row EXCEPT !.deleted = TRUE]
                           ELSE [req[Worker].row EXCEPT !.isCompleted = TRUE])
    /\ cleaned' = (cleaned \/ ~sparse)
    /\ Finish(Worker)
    /\ UNCHANGED <<players, cards, scored, signatures, taken, old, sent, published>>

-----------------------------------------------------------------------------
\* After the commit the command publishes its event; there is no outbox.
Publish(p) ==
    /\ req[p].pc = "saved"
    /\ published' = IF req[p].op.kind = "complete"
                      THEN [published EXCEPT !.completed = @ + 1]
                      ELSE [published EXCEPT !.deleted = @ + 1]
    /\ Finish(p)
    /\ UNCHANGED <<exists, row, players, cards, scored, signatures, taken, old,
                   sent, cleaned>>

\* The process dies between SaveChanges and Publish: the event is lost.
Crash(p) ==
    /\ Crashes
    /\ req[p].pc = "saved"
    /\ Finish(p)
    /\ UNCHANGED <<exists, row, players, cards, scored, signatures, taken, old,
                   sent, published, cleaned>>

TwoDaysPass ==
    /\ ~old /\ old' = TRUE
    /\ UNCHANGED <<exists, row, players, cards, scored, signatures, taken, req,
                   sent, published, cleaned>>

Command(p) ==
    \/ UpdatePlayerScore(p) \/ CompleteRound(p) \/ LeaveRound(p) \/ DeleteRound(p)
    \/ AddHole(p) \/ DeleteHole(p) \/ SaveCourse(p) \/ EvaluateRound(p)
    \/ SpectatorJoined(p) \/ SpectatorLeft(p)

Read(p) == ReadSignatures(p) \/ ReadCards(p)

\* Only the score, addHole and deleteHole commands name a hole, and only the
\* score command names the player it is for.
ClientOps == {op \in [kind : Kinds, user : Users, target : Users, hole : Holes] :
                /\ op.kind \in {"score", "addHole", "deleteHole"} \/ op.hole = NoOp.hole
                /\ op.kind = "score" \/ op.target = op.user
                /\ op.kind = "evaluate" => op.user = Creator}

Next ==
    \/ \E r \in Requests, op \in ClientOps : Send(r, op)
    \/ \E p \in Procs : Read(p) \/ Abort(p) \/ Publish(p) \/ Crash(p)
    \/ \E r \in Requests : Command(r)
    \/ WorkerWakes
    \/ CleanUp
    \/ TwoDaysPass

Spec == Init /\ [][Next]_vars

\* A request that was sent is carried on by its thread, time passes, and the
\* worker's timer keeps firing: a clean-up that fails is tried again twelve hours
\* later, and one that can be carried out again and again is in the end.
Fairness ==
    /\ \A p \in Procs : WF_vars(Read(p)) /\ WF_vars(Publish(p))
    /\ \A r \in Requests : WF_vars(Command(r) \/ Abort(r))
    /\ WF_vars(TwoDaysPass)
    /\ WF_vars(WorkerWakes)
    /\ SF_vars(Read(Worker)) /\ SF_vars(CleanUp)

FairSpec == Spec /\ Fairness

-----------------------------------------------------------------------------
TypeOK ==
    /\ exists \in BOOLEAN
    /\ row \in Row
    /\ players \subseteq Users
    /\ cards \subseteq Users \X Holes
    /\ scored \subseteq Users \X Holes
    /\ signatures \in [Users -> Nat]
    /\ taken \subseteq Holes
    /\ old \in BOOLEAN
    /\ req \in [Procs -> Request]
    /\ sent \in Nat
    /\ published \in [completed : Nat, deleted : Nat]
    /\ cleaned \in BOOLEAN

AllSigned == players \subseteq Signers

\* IsCompleted is only ever shown for a round that every remaining player has
\* signed or that the worker has closed, whatever stale rows are written back
\* and whoever leaves meanwhile.
CompletedIsJustified == exists /\ row.isCompleted => AllSigned \/ cleaned

\* RoundWasCompleted, on which ratings, achievements and feeds are computed, is
\* published only once every player still in the round has signed.
AnnouncedWhenSigned == published.completed > 0 /\ exists => AllSigned

\* RoundWasCompleted is published at most once per request that can be in
\* flight: exactly once when requests do not overlap, and a last signature
\* submitted twice at the same time announces the round twice, but never more.
AnnouncedOncePerRequest == published.completed <= Cardinality(Requests)

\* RoundWasDeleted is published at most once, and only for a round that is gone
\* for good: a second delete and every stale save find no row and throw.
DeletedOnce == published.deleted <= 1 /\ (published.deleted = 1 => ~exists)

\* Every child row hangs under a row that exists: no score without its hole row,
\* no hole row without its player, no signature or player without the round.
NoOrphanRows ==
    /\ scored \subseteq cards
    /\ \A c \in cards : c[1] \in players
    /\ ~exists => players = {} /\ Signers = {}

\* All players of a round have the same holes on their cards (the clients take
\* the course from the first player's card), although AddHole, DeleteHole and
\* LeaveRound touch the cards they happened to load.
SameHolesForAll ==
    \A p, q \in players, h \in Holes : <<p, h>> \in cards <=> <<q, h>> \in cards

\* Without overlapping requests: the worker deletes only rounds with fewer
\* than MinStrokes registered strokes.
OnlySparseRoundsDeleted ==
    exists /\ row.deleted => Cardinality(scored) < MinStrokes

\* The signature that makes all players of a round have signed completes it.
\* (A player who leaves can also be the one nobody else was waiting for; that
\* completes nothing, see LeaveRound.)
LastSignatureCompletes ==
    [][exists' /\ players' = players /\ ~AllSigned /\ AllSigned'
         => row'.isCompleted]_vars

\* Without overlapping requests the round follows its abstract life cycle: every
\* step of every command is one step of RoundLifecycle or changes nothing there.
Lifecycle == INSTANCE RoundLifecycle WITH
    Slots <- Requests,
    signers <- Signers,
    status <- IF ~exists THEN "gone" ELSE IF row.deleted THEN "hidden"
              ELSE IF row.isCompleted THEN "completed" ELSE "open",
    due <- {<<r, IF req[r].op.kind = "complete" THEN "completed" ELSE "deleted">> :
              r \in {s \in Requests : req[s].pc = "saved"}}

ImplementsLifecycle == Lifecycle!Spec

\* However requests race, once they have ended the worker closes or deletes
\* every round: no round stays open for ever.
EventuallyClosed == <>[](~exists \/ row.deleted \/ row.isCompleted)

\* If no process dies, a completion by signing is announced.
CompletionIsAnnounced ==
    row.isCompleted /\ ~cleaned ~> (published.completed > 0 \/ cleaned)
=============================================================================
