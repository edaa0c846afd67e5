--------------------------- MODULE RoundStoreProofs ---------------------------
(***************************************************************************)
(* Proofs about RoundStore, for every number of users, holes and requests  *)
(* and whether or not requests overlap and processes crash.                *)
(***************************************************************************)
EXTENDS RoundStore, FiniteSetTheorems, TLAPS

USE RoundStoreAssumption

LEMMA IdleIsRequest == IdleRequest \in Request /\ NoOp \in Op /\ NewRow \in Row
<1>1. NoOp \in Op
  BY DEF NoOp, Op, AllKinds
<1>2. NewRow \in Row
  BY DEF NewRow, Row
<1> QED
  BY <1>1, <1>2 DEF IdleRequest, Request, Collections

\* The state that no command writes except through its save.
LEMMA UpdateRowType == ASSUME TypeOK, NEW newRow \in Row, UpdateRow(newRow)
                       PROVE  row' \in Row /\ exists' \in BOOLEAN
BY DEF TypeOK, UpdateRow

LEMMA FinishType == ASSUME TypeOK, NEW p \in Procs, Finish(p)
                    PROVE  req' \in [Procs -> Request]
BY IdleIsRequest DEF TypeOK, Finish

LEMMA ReqType == ASSUME TypeOK, NEW p \in Procs
                 PROVE  /\ req[p] \in Request /\ req[p].op \in Op
                        /\ req[p].row \in Row /\ req[p].pending \subseteq Collections
                        /\ req[p].signers \subseteq Users /\ req[p].players \subseteq Users
                        /\ req[p].cards \subseteq Users \X Holes
                        /\ req[p].scored \subseteq Users \X Holes
                        /\ req[p].op.user \in Users /\ req[p].op.hole \in Holes
BY DEF TypeOK, Request, Op

LEMMA ReadRowType == ASSUME TypeOK, NEW p \in Procs, NEW op \in Op, ReadRow(p, op)
                     PROVE  req' \in [Procs -> Request]
<1>1. LooksAt(op.kind) \subseteq Collections
  BY DEF LooksAt, Collections
<1>2. [IdleRequest EXCEPT !.pc = "loading", !.op = op, !.row = row,
                          !.pending = LooksAt(op.kind)] \in Request
  BY <1>1 DEF IdleRequest, Request, TypeOK
<1> QED
  BY <1>2 DEF ReadRow, TypeOK

\* Every step keeps the type invariant.
LEMMA TypeStep == ASSUME TypeOK, [Next]_vars PROVE TypeOK'
<1>0. \A p \in Requests : p \in Procs
  BY DEF Procs
<1>1. ASSUME NEW r \in Requests, NEW op \in ClientOps, Send(r, op) PROVE TypeOK'
  <2>1. op \in Op
    BY <1>1 DEF ClientOps, Op
  <2>2. req' \in [Procs -> Request]
    BY <1>0, <1>1, <2>1, ReadRowType DEF Send
  <2>3. taken' \subseteq Holes /\ sent' \in Nat
    BY <1>1, <2>1 DEF Send, TypeOK, Op
  <2> QED
    BY <1>1, <2>2, <2>3 DEF Send, ReadRow, TypeOK
<1>2. ASSUME NEW p \in Procs, ReadSignatures(p) PROVE TypeOK'
  <2>1. Signers \subseteq Users
    BY DEF Signers
  <2>2. [req[p] EXCEPT !.pending = @ \ {"signatures"}, !.signers = Signers] \in Request
    BY <1>2, <2>1, ReqType DEF Request
  <2> QED
    BY <1>2, <2>2 DEF ReadSignatures, TypeOK
<1>3. ASSUME NEW p \in Procs, ReadCards(p) PROVE TypeOK'
  <2>2. [req[p] EXCEPT !.pending = @ \ {"cards"}, !.players = players,
                       !.cards = cards,
                       !.scored = IF p = Worker THEN scored ELSE {}] \in Request
    BY <1>3, ReqType DEF Request, TypeOK
  <2> QED
    BY <1>3, <2>2 DEF ReadCards, TypeOK
<1>4. ASSUME NEW p \in Procs, Abort(p) PROVE TypeOK'
  BY <1>4, IdleIsRequest DEF Abort, TypeOK
<1>5. ASSUME NEW p \in Procs, Publish(p) PROVE TypeOK'
  BY <1>5, FinishType DEF Publish, TypeOK
<1>6. ASSUME NEW p \in Procs, Crash(p) PROVE TypeOK'
  BY <1>6, FinishType DEF Crash, TypeOK
<1>7. ASSUME NEW p \in Procs, UpdatePlayerScore(p) PROVE TypeOK'
  BY <1>7, FinishType, ReqType, UpdateRowType DEF UpdatePlayerScore, TypeOK
<1>8. ASSUME NEW p \in Procs, CompleteRound(p) PROVE TypeOK'
  <2>1. signatures' \in [Users -> Nat]
    BY <1>8, ReqType DEF CompleteRound, Signing, TypeOK
  <2>2. CASE SignRound(p)
    <3>1. [req[p].row EXCEPT !.isCompleted = TRUE] \in Row
      BY ReqType DEF Row
    <3>2. [req[p] EXCEPT !.pc = "saved"] \in Request
      BY ReqType DEF Request
    <3>3. req' \in [Procs -> Request]
      BY <1>8, <2>2, <3>2 DEF CompleteRound, TypeOK
    <3> QED
      BY <1>8, <2>1, <2>2, <3>1, <3>3, UpdateRowType DEF CompleteRound, TypeOK
  <2>3. CASE ~SignRound(p)
    BY <1>8, <2>1, <2>3, FinishType, ReqType, UpdateRowType DEF CompleteRound, TypeOK
  <2> QED
    BY <2>2, <2>3
<1>9. ASSUME NEW p \in Procs, LeaveRound(p) PROVE TypeOK'
  BY <1>9, FinishType, ReqType, UpdateRowType DEF LeaveRound, TypeOK
<1>10. ASSUME NEW p \in Procs, DeleteRound(p) PROVE TypeOK'
  <2>1. [req[p] EXCEPT !.pc = "saved"] \in Request
    BY ReqType DEF Request
  <2> QED
    BY <1>10, <2>1 DEF DeleteRound, TypeOK
<1>11. ASSUME NEW p \in Procs, AddHole(p) PROVE TypeOK'
  <2>1. req[p].players \X {req[p].op.hole} \subseteq Users \X Holes
    BY ReqType
  <2> QED
    BY <1>11, <2>1, FinishType, ReqType, UpdateRowType DEF AddHole, TypeOK
<1>12. ASSUME NEW p \in Procs, DeleteHole(p) PROVE TypeOK'
  BY <1>12, FinishType, ReqType, UpdateRowType DEF DeleteHole, TypeOK
<1>13. ASSUME NEW p \in Procs, SaveCourse(p) \/ EvaluateRound(p) PROVE TypeOK'
  BY <1>13, FinishType, ReqType, UpdateRowType DEF SaveCourse, EvaluateRound, TypeOK
<1>14. ASSUME NEW p \in Procs, SpectatorJoined(p) PROVE TypeOK'
  <2>1. [req[p].row EXCEPT !.spectators = @ \cup {req[p].op.user}] \in Row
    BY ReqType DEF Row
  <2> QED
    BY <1>14, <2>1, FinishType, UpdateRowType DEF SpectatorJoined, TypeOK
<1>15. ASSUME NEW p \in Procs, SpectatorLeft(p) PROVE TypeOK'
  <2>1. [req[p].row EXCEPT !.spectators = @ \ {req[p].op.user}] \in Row
    BY ReqType DEF Row
  <2> QED
    BY <1>15, <2>1, FinishType, UpdateRowType DEF SpectatorLeft, TypeOK
<1>16. ASSUME WorkerWakes PROVE TypeOK'
  <2>1. req' \in [Procs -> Request]
    BY <1>16, ReadRowType, IdleIsRequest DEF WorkerWakes, Procs
  <2> QED
    BY <1>16, <2>1 DEF WorkerWakes, ReadRow, TypeOK
<1>17. ASSUME CleanUp PROVE TypeOK'
  <2>1. Worker \in Procs
    BY DEF Procs
  <2>2. /\ [req[Worker].row EXCEPT !.deleted = TRUE] \in Row
        /\ [req[Worker].row EXCEPT !.isCompleted = TRUE] \in Row
    BY <2>1, ReqType DEF Row
  <2>3. row' \in Row /\ exists' \in BOOLEAN
    BY <1>17, <2>2, UpdateRowType DEF CleanUp
  <2>4. cleaned' \in BOOLEAN
    BY <1>17 DEF CleanUp, TypeOK, Sparse
  <2> QED
    BY <1>17, <2>1, <2>3, <2>4, FinishType DEF CleanUp, TypeOK
<1>18. CASE TwoDaysPass
  BY <1>18 DEF TwoDaysPass, TypeOK
<1>19. CASE UNCHANGED vars
  BY <1>19 DEF vars, TypeOK
<1> QED
  BY <1>0, <1>1, <1>2, <1>3, <1>4, <1>5, <1>6, <1>7, <1>8, <1>9, <1>10, <1>11, <1>12,
     <1>13, <1>14, <1>15, <1>16, <1>17, <1>18, <1>19 DEF Next, Command, Read

\* Every variable of the round, of the requests and of the events published
\* keeps its type in every reachable state.
THEOREM TypeCorrect == Spec => []TypeOK
<1>1. ASSUME Init PROVE TypeOK
  <2>1. players \subseteq Users /\ players \X InitialHoles \subseteq Users \X Holes
    BY <1>1 DEF Init
  <2>2. req \in [Procs -> Request] /\ row \in Row
    BY <1>1, IdleIsRequest DEF Init
  <2>3. published \in [completed : Nat, deleted : Nat] /\ signatures \in [Users -> Nat]
    BY <1>1 DEF Init
  <2> QED
    BY <1>1, <2>1, <2>2, <2>3 DEF Init, TypeOK
<1> QED
  BY <1>1, TypeStep, PTL DEF Spec

-----------------------------------------------------------------------------
(* Child rows never dangle.  The invariant is inductive together with the    *)
(* type invariant: every save that could disturb it first finds the rows it  *)
(* hangs its own under.                                                      *)

LEMMA NoOrphanStep == ASSUME TypeOK, TypeOK', NoOrphanRows, [Next]_vars
                      PROVE  NoOrphanRows'
<1>0. \A p \in Requests : p \in Procs
  BY DEF Procs
<1> USE DEF NoOrphanRows
<1>1. ASSUME UNCHANGED <<exists, players, cards, scored, signatures>>
      PROVE  NoOrphanRows'
  BY <1>1 DEF Signers
<1>2. ASSUME NEW p \in Procs, UpdatePlayerScore(p) PROVE NoOrphanRows'
  BY <1>2 DEF UpdatePlayerScore, UpdateRow, Signers
<1>3. ASSUME NEW p \in Procs, CompleteRound(p) PROVE NoOrphanRows'
  BY <1>3 DEF CompleteRound, UpdateRow
<1>4. ASSUME NEW p \in Procs, LeaveRound(p) PROVE NoOrphanRows'
  BY <1>4, ReqType DEF LeaveRound, UpdateRow, RowsOf, Signers
<1>5. ASSUME NEW p \in Procs, DeleteRound(p) PROVE NoOrphanRows'
  BY <1>5 DEF DeleteRound, Signers
<1>6. ASSUME NEW p \in Procs, AddHole(p) PROVE NoOrphanRows'
  BY <1>6 DEF AddHole, UpdateRow, Signers
<1>7. ASSUME NEW p \in Procs, DeleteHole(p) PROVE NoOrphanRows'
  BY <1>7 DEF DeleteHole, UpdateRow, Signers
<1>8. ASSUME NEW p \in Procs, SaveCourse(p) \/ EvaluateRound(p) \/ SpectatorJoined(p) \/ SpectatorLeft(p)
      PROVE  NoOrphanRows'
  BY <1>1, <1>8 DEF SaveCourse, EvaluateRound, SpectatorJoined, SpectatorLeft, UpdateRow
<1>9. ASSUME CleanUp PROVE NoOrphanRows'
  BY <1>1, <1>9 DEF CleanUp, UpdateRow
<1>10. ASSUME NEW r \in Requests, NEW op \in ClientOps, Send(r, op) PROVE NoOrphanRows'
  BY <1>1, <1>10 DEF Send, ReadRow
<1>11. ASSUME WorkerWakes PROVE NoOrphanRows'
  BY <1>1, <1>11 DEF WorkerWakes, ReadRow
<1>12. ASSUME NEW p \in Procs, Read(p) \/ Abort(p) \/ Publish(p) \/ Crash(p)
       PROVE  NoOrphanRows'
  BY <1>1, <1>12 DEF Read, ReadSignatures, ReadCards, Abort, Publish, Crash
<1>13. CASE TwoDaysPass
  BY <1>1, <1>13 DEF TwoDaysPass
<1>14. CASE UNCHANGED vars
  BY <1>1, <1>14 DEF vars
<1> QED
  BY <1>0, <1>2, <1>3, <1>4, <1>5, <1>6, <1>7, <1>8, <1>9, <1>10, <1>11, <1>12,
     <1>13, <1>14 DEF Next, Command

\* No score without its hole row, no hole row without its player, and nothing at
\* all under a round that was deleted, however deletes and saves overlap.
THEOREM NoOrphans == Spec => []NoOrphanRows
<1>1. Init => NoOrphanRows
  BY DEF Init, NoOrphanRows, Signers
<1>2. TypeOK /\ TypeOK' /\ NoOrphanRows /\ [Next]_vars => NoOrphanRows'
  BY NoOrphanStep
<1> QED
  BY <1>1, <1>2, TypeCorrect, PTL DEF Spec

-----------------------------------------------------------------------------
(* Deletion.  To see that RoundWasDeleted is published once, count the       *)
(* publication that is still to come: only the request whose DELETE found    *)
(* the row gets that far.                                                    *)

AboutToDelete(p) == req[p].pc = "saved" /\ req[p].op.kind = "delete"

DeleteInv ==
    /\ published.deleted <= 1
    /\ exists => published.deleted = 0 /\ \A p \in Procs : ~AboutToDelete(p)
    /\ published.deleted = 1 => \A p \in Procs : ~AboutToDelete(p)
    /\ \A p, q \in Procs : AboutToDelete(p) /\ AboutToDelete(q) => p = q
    /\ \A p \in Procs : req[p].pc = "saved" => req[p].op.kind \in {"complete", "delete"}

LEMMA DeleteStep == ASSUME TypeOK, TypeOK', DeleteInv, [Next]_vars PROVE DeleteInv'
<1>0. \A p \in Requests : p \in Procs
  BY DEF Procs
<1> USE DEF DeleteInv, AboutToDelete
<1>1. ASSUME NEW p \in Procs, exists' = exists, published' = published,
             NEW x, x.pc # "saved", req' = [req EXCEPT ![p] = x]
      PROVE  DeleteInv'
  BY <1>1 DEF TypeOK
<1>2. IdleRequest.pc = "idle"
  BY DEF IdleRequest
<1>3. ASSUME NEW p \in Procs, Finish(p), exists' = exists, published' = published
      PROVE  DeleteInv'
  BY <1>1, <1>2, <1>3 DEF Finish
<1>4. ASSUME NEW p \in Procs, NEW op, ReadRow(p, op) PROVE DeleteInv'
  <2>1. [IdleRequest EXCEPT !.pc = "loading", !.op = op, !.row = row,
                            !.pending = LooksAt(op.kind)].pc = "loading"
    BY DEF IdleRequest
  <2> QED
    BY <1>1, <1>4, <2>1 DEF ReadRow
<1>5. ASSUME NEW p \in Procs, Read(p) PROVE DeleteInv'
  <2>1. \A q \in Procs : req'[q].pc = req[q].pc /\ req'[q].op = req[q].op
    <3>1. CASE ReadSignatures(p)
      BY <3>1 DEF ReadSignatures, TypeOK, Request
    <3>2. CASE ReadCards(p)
      BY <3>2 DEF ReadCards, TypeOK, Request
    <3> QED
      BY <1>5, <3>1, <3>2 DEF Read
  <2>2. exists' = exists /\ published' = published
    BY <1>5 DEF Read, ReadSignatures, ReadCards
  <2> QED
    BY <2>1, <2>2
<1>6. ASSUME NEW p \in Procs, Publish(p) PROVE DeleteInv'
  <2>1. CASE req[p].op.kind = "complete"
    BY <1>6, <2>1, <1>2 DEF Publish, Finish, TypeOK
  <2>2. CASE req[p].op.kind = "delete"
    <3>1. AboutToDelete(p)
      BY <1>6, <2>2 DEF Publish
    <3>2. ~exists /\ published.deleted = 0
      BY <3>1 DEF TypeOK
    <3>3. published'.deleted = 1 /\ exists' = exists
      BY <1>6, <2>2, <3>2 DEF Publish, TypeOK
    <3>4. \A q \in Procs : ~AboutToDelete(q)'
      BY <1>6, <1>2, <3>1 DEF Publish, Finish, TypeOK
    <3>5. \A q \in Procs : req[q]'.pc = "saved" => req[q]'.op.kind \in {"complete", "delete"}
      BY <1>6, <1>2 DEF Publish, Finish, TypeOK
    <3> QED
      BY <3>2, <3>3, <3>4, <3>5
  <2> QED
    BY <1>6, <2>1, <2>2 DEF Publish
<1>7. ASSUME NEW p \in Procs, Abort(p) \/ Crash(p) PROVE DeleteInv'
  BY <1>1, <1>2, <1>3, <1>7 DEF Abort, Crash
<1>8. ASSUME NEW p \in Procs, DeleteRound(p) PROVE DeleteInv'
  <2>1. /\ exists /\ ~exists' /\ published' = published
        /\ req' = [req EXCEPT ![p].pc = "saved"] /\ req[p].op.kind = "delete"
    BY <1>8 DEF DeleteRound, Loaded
  <2> QED
    BY <2>1 DEF TypeOK, Request
<1>9. ASSUME NEW p \in Procs, CompleteRound(p) PROVE DeleteInv'
  <2>1. exists' = exists /\ published' = published /\ req[p].op.kind = "complete"
    BY <1>9 DEF CompleteRound, Loaded, UpdateRow
  <2>2. CASE SignRound(p)
    <3>1. req' = [req EXCEPT ![p].pc = "saved"]
      BY <1>9, <2>2 DEF CompleteRound
    <3> QED
      BY <2>1, <3>1 DEF TypeOK, Request
  <2>3. CASE ~SignRound(p)
    BY <1>3, <1>9, <2>1, <2>3 DEF CompleteRound
  <2> QED
    BY <2>2, <2>3
<1>10. ASSUME NEW p \in Procs,
              \/ UpdatePlayerScore(p) \/ LeaveRound(p) \/ AddHole(p) \/ DeleteHole(p)
              \/ SaveCourse(p) \/ EvaluateRound(p) \/ SpectatorJoined(p) \/ SpectatorLeft(p)
       PROVE  DeleteInv'
  BY <1>3, <1>10 DEF UpdatePlayerScore, LeaveRound, AddHole, DeleteHole, SaveCourse, EvaluateRound,
     SpectatorJoined, SpectatorLeft, UpdateRow
<1>11. ASSUME CleanUp PROVE DeleteInv'
  BY <1>3, <1>11 DEF CleanUp, UpdateRow, Procs
<1>12. ASSUME NEW r \in Requests, NEW op \in ClientOps, Send(r, op) PROVE DeleteInv'
  BY <1>0, <1>4, <1>12 DEF Send
<1>13. ASSUME WorkerWakes PROVE DeleteInv'
  BY <1>4, <1>13 DEF WorkerWakes, Procs
<1>14. CASE TwoDaysPass
  BY <1>14 DEF TwoDaysPass
<1>15. CASE UNCHANGED vars
  BY <1>15 DEF vars
<1> QED
  BY <1>0, <1>5, <1>6, <1>7, <1>8, <1>9, <1>10, <1>11, <1>12, <1>13, <1>14, <1>15
  DEF Next, Command

\* RoundWasDeleted is published at most once, and only for a round that is gone:
\* of two creators' deletes racing each other one finds no row and throws.
THEOREM DeletedAtMostOnce == Spec => []DeletedOnce
<1>1. Init => DeleteInv
  BY DEF Init, DeleteInv, AboutToDelete, IdleRequest
<1>2. TypeOK /\ TypeOK' /\ DeleteInv /\ [Next]_vars => DeleteInv'
  BY DeleteStep
<1>3. TypeOK /\ DeleteInv => DeletedOnce
  BY DEF DeleteInv, DeletedOnce, TypeOK
<1> QED
  BY <1>1, <1>2, <1>3, TypeCorrect, PTL DEF Spec

-----------------------------------------------------------------------------
(* Completion and the score cards.  What a request has loaded lags behind    *)
(* the database, but only in a direction that does no harm here: players     *)
(* only ever leave and signatures are only ever added, so a request that     *)
(* finds everybody signed is right however late it saves, and a row that     *)
(* says "completed" may be written back at any time.                         *)

Uniform(ps, cs) == \A p, q \in ps, h \in Holes : <<p, h>> \in cs <=> <<q, h>> \in cs

HasCards(p) ==
    /\ req[p].pc = "loading" /\ "cards" \notin req[p].pending
    /\ req[p].op.kind \notin {"spectate", "unspectate", "evaluate"}

Justified == AllSigned \/ cleaned

SnapshotOK(p) ==
    /\ req[p].pc = "loading" =>
         /\ req[p].row.isCompleted => Justified
         /\ req[p].signers \subseteq Signers
    /\ HasCards(p) =>
         players \subseteq req[p].players /\ Uniform(req[p].players, req[p].cards)
    /\ req[p].pc = "saved" /\ req[p].op.kind = "complete" => AllSigned

RoundOK ==
    /\ row.isCompleted => Justified
    /\ published.completed > 0 => AllSigned
    /\ Uniform(players, cards)

SignInv == exists => RoundOK /\ \A p \in Procs : SnapshotOK(p)

\* What no step undoes while the round exists.
Monotone ==
    exists' => /\ exists
               /\ players' \subseteq players
               /\ Signers \subseteq Signers'
               /\ cleaned => cleaned'

LEMMA SigningAdds == ASSUME TypeOK, NEW p \in Procs, Signing(p)
                     PROVE  Signers' = Signers \cup {req[p].op.user}
<1>1. req[p].op.user \in Users /\ signatures \in [Users -> Nat]
  BY ReqType DEF TypeOK
<1> QED
  BY <1>1 DEF Signing, Signers

LEMMA MonotoneStep == ASSUME TypeOK, [Next]_vars PROVE Monotone
<1>0. \A p \in Requests : p \in Procs
  BY DEF Procs
<1> USE DEF Monotone
<1>1. ASSUME exists' = exists, players' = players, signatures' = signatures,
             cleaned' = cleaned
      PROVE  Monotone
  BY <1>1 DEF Signers
<1>2. ASSUME NEW p \in Procs, CompleteRound(p) PROVE Monotone
  <2>1. Signers \subseteq Signers'
    BY <1>2, SigningAdds DEF CompleteRound
  <2> QED
    BY <1>2, <2>1 DEF CompleteRound, UpdateRow
<1>3. ASSUME NEW p \in Procs, LeaveRound(p) PROVE Monotone
  BY <1>3 DEF LeaveRound, UpdateRow, Signers
<1>4. ASSUME NEW p \in Procs, DeleteRound(p) PROVE Monotone
  BY <1>4 DEF DeleteRound
<1>5. ASSUME CleanUp PROVE Monotone
  BY <1>5 DEF CleanUp, UpdateRow, Signers
<1>6. ASSUME NEW p \in Procs,
             \/ UpdatePlayerScore(p) \/ AddHole(p) \/ DeleteHole(p)
             \/ SaveCourse(p) \/ EvaluateRound(p) \/ SpectatorJoined(p) \/ SpectatorLeft(p)
      PROVE  Monotone
  BY <1>1, <1>6 DEF UpdatePlayerScore, AddHole, DeleteHole, SaveCourse, EvaluateRound,
     SpectatorJoined, SpectatorLeft, UpdateRow
<1>7. ASSUME NEW p \in Procs, Read(p) \/ Abort(p) \/ Publish(p) \/ Crash(p)
      PROVE  Monotone
  BY <1>1, <1>7 DEF Read, ReadSignatures, ReadCards, Abort, Publish, Crash
<1>8. ASSUME NEW r \in Requests, NEW op \in ClientOps, Send(r, op) PROVE Monotone
  BY <1>1, <1>8 DEF Send, ReadRow
<1>9. ASSUME WorkerWakes PROVE Monotone
  BY <1>1, <1>9 DEF WorkerWakes, ReadRow
<1>10. CASE TwoDaysPass
  BY <1>1, <1>10 DEF TwoDaysPass
<1>11. CASE UNCHANGED vars
  BY <1>1, <1>11 DEF vars
<1> QED
  BY <1>0, <1>2, <1>3, <1>4, <1>5, <1>6, <1>7, <1>8, <1>9, <1>10, <1>11
  DEF Next, Command

LEMMA Stable == ASSUME Monotone, exists'
                PROVE  (AllSigned => AllSigned') /\ (Justified => Justified')
BY DEF Monotone, AllSigned, Justified

\* A snapshot stays good while its request does nothing.
LEMMA SnapshotStable ==
    ASSUME Monotone, exists', NEW p \in Procs, SnapshotOK(p), req'[p] = req[p]
    PROVE  SnapshotOK(p)'
<1>1. Signers \subseteq Signers' /\ players' \subseteq players
  BY DEF Monotone
<1> QED
  BY <1>1, Stable DEF SnapshotOK, HasCards, Uniform

\* It is enough to look at the round and at the request that takes the step.
LEMMA StepOfOne ==
    ASSUME TypeOK, SignInv, Monotone, NEW p \in Procs, NEW x,
           req' = [req EXCEPT ![p] = x],
           exists' => RoundOK' /\ SnapshotOK(p)'
    PROVE  SignInv'
<1> SUFFICES ASSUME exists' PROVE SignInv'
  BY DEF SignInv
<1>1. ASSUME NEW q \in Procs, q # p PROVE SnapshotOK(q)'
  <2>1. req'[q] = req[q]
    BY <1>1 DEF TypeOK
  <2>2. SnapshotOK(q)
    BY DEF SignInv, Monotone
  <2> QED
    BY <2>1, <2>2, SnapshotStable
<1> QED
  BY <1>1 DEF SignInv

LEMMA FinishOK == ASSUME TypeOK, NEW p \in Procs, Finish(p) PROVE SnapshotOK(p)'
<1>1. req'[p].pc = "idle"
  BY DEF Finish, TypeOK, IdleRequest
<1> QED
  BY <1>1 DEF SnapshotOK, HasCards

\* A save of the row as it was loaded, with the cards changed alike for all.
LEMMA SaveAndFinish ==
    ASSUME TypeOK, SignInv, Monotone, NEW p \in Procs, req[p].pc = "loading",
           NEW newRow, newRow.isCompleted = req[p].row.isCompleted,
           UpdateRow(newRow), Finish(p), published' = published,
           Uniform(players, cards) => Uniform(players', cards')
    PROVE  SignInv'
<1> SUFFICES ASSUME exists' PROVE RoundOK' /\ SnapshotOK(p)'
  BY StepOfOne DEF Finish
<1>1. exists /\ RoundOK /\ SnapshotOK(p)
  BY DEF SignInv, Monotone
<1>2. row' = newRow
  BY DEF UpdateRow
<1>3. row'.isCompleted => Justified'
  BY <1>1, <1>2, Stable DEF SnapshotOK
<1> QED
  BY <1>1, <1>3, Stable, FinishOK DEF RoundOK

LEMMA SignStep == ASSUME TypeOK, TypeOK', NoOrphanRows, SignInv, [Next]_vars
                  PROVE  SignInv'
<1>0. Monotone /\ \A p \in Requests : p \in Procs
  BY MonotoneStep DEF Procs
<1>1. ASSUME NEW p \in Procs, NEW op, ReadRow(p, op) PROVE SignInv'
  <2> DEFINE x == [IdleRequest EXCEPT !.pc = "loading", !.op = op, !.row = row,
                                      !.pending = LooksAt(op.kind)]
  <2>1. /\ x.pc = "loading" /\ x.row = row /\ x.signers = {}
        /\ x.op = op /\ x.pending = LooksAt(op.kind)
    BY DEF IdleRequest
  <2>2. req' = [req EXCEPT ![p] = x] /\ req'[p] = x
    BY <1>1 DEF ReadRow, TypeOK
  <2>3. exists => RoundOK /\ SnapshotOK(p)
    BY DEF SignInv
  <2>4. exists' = exists /\ (RoundOK => RoundOK')
    BY <1>1 DEF ReadRow, RoundOK, Justified, AllSigned, Signers, Uniform
  <2>5. ~HasCards(p)'
    <3>1. op.kind \notin {"spectate", "unspectate", "evaluate"} => "cards" \in LooksAt(op.kind)
      BY DEF LooksAt, Collections
    <3> HIDE DEF x
    <3> QED
      BY <2>1, <2>2, <3>1 DEF HasCards
  <2>6. exists /\ row.isCompleted => Justified'
    BY <1>1, <2>3 DEF ReadRow, RoundOK, Justified, AllSigned, Signers
  <2>7. exists => SnapshotOK(p)'
    BY <2>1, <2>2, <2>5, <2>6 DEF SnapshotOK
  <2> QED
    BY <1>0, <2>2, <2>3, <2>4, <2>7, StepOfOne
<1>2. ASSUME NEW p \in Procs, ReadSignatures(p) PROVE SignInv'
  <2> DEFINE x == [req[p] EXCEPT !.pending = @ \ {"signatures"}, !.signers = Signers]
  <2>1. req' = [req EXCEPT ![p] = x] /\ req'[p] = x
    BY <1>2 DEF ReadSignatures, TypeOK
  <2>2. /\ x.pc = req[p].pc /\ x.row = req[p].row /\ x.signers = Signers /\ x.op = req[p].op
        /\ x.players = req[p].players /\ x.cards = req[p].cards
        /\ "cards" \notin x.pending => "cards" \notin req[p].pending
    BY ReqType DEF Request
  <2>3. /\ exists' = exists /\ row' = row /\ players' = players /\ cards' = cards
        /\ Signers' = Signers /\ cleaned' = cleaned /\ published' = published
    BY <1>2 DEF ReadSignatures, Signers
  <2>4. exists => RoundOK /\ SnapshotOK(p)
    BY DEF SignInv
  <2>5. exists => RoundOK'
    BY <2>3, <2>4 DEF RoundOK, Justified, AllSigned, Uniform
  <2>6. exists => SnapshotOK(p)'
    BY <2>1, <2>2, <2>3, <2>4 DEF SnapshotOK, HasCards, Justified, AllSigned, Uniform
  <2> QED
    BY <1>0, <2>1, <2>3, <2>5, <2>6, StepOfOne
<1>3. ASSUME NEW p \in Procs, ReadCards(p) PROVE SignInv'
  <2> DEFINE x == [req[p] EXCEPT !.pending = @ \ {"cards"}, !.players = players,
                                 !.cards = cards,
                                 !.scored = IF p = Worker THEN scored ELSE {}]
  <2>1. req' = [req EXCEPT ![p] = x] /\ req'[p] = x
    BY <1>3 DEF ReadCards, TypeOK
  <2>2. /\ x.pc = req[p].pc /\ x.row = req[p].row /\ x.signers = req[p].signers
        /\ x.op = req[p].op /\ x.players = players /\ x.cards = cards
    BY ReqType DEF Request
  <2>3. /\ exists' = exists /\ row' = row /\ players' = players /\ cards' = cards
        /\ Signers' = Signers /\ cleaned' = cleaned /\ published' = published
    BY <1>3 DEF ReadCards, Signers
  <2>4. exists => RoundOK /\ SnapshotOK(p)
    BY DEF SignInv
  <2>5. exists => RoundOK'
    BY <2>3, <2>4 DEF RoundOK, Justified, AllSigned, Uniform
  <2>6. exists => SnapshotOK(p)'
    BY <2>1, <2>2, <2>3, <2>4 DEF SnapshotOK, HasCards, Justified, AllSigned, Uniform, RoundOK
  <2> QED
    BY <1>0, <2>1, <2>3, <2>5, <2>6, StepOfOne
<1>4. ASSUME NEW p \in Procs, CompleteRound(p) PROVE SignInv'
  <2>1. /\ req[p].pc = "loading" /\ HasCards(p) /\ UNCHANGED <<players, cards, published>>
    BY <1>4 DEF CompleteRound, Loaded, HasCards
  <2>2. CASE ~SignRound(p)
    BY <1>0, <1>4, <2>1, <2>2, SaveAndFinish DEF CompleteRound
  <2>3. CASE SignRound(p)
    <3> DEFINE x == [req[p] EXCEPT !.pc = "saved"]
    <3>1. req' = [req EXCEPT ![p] = x] /\ req'[p].pc = "saved"
      BY <1>4, <2>3, ReqType DEF CompleteRound, TypeOK, Request
    <3>2. exists /\ SnapshotOK(p) /\ RoundOK
      BY <1>4, <2>3 DEF CompleteRound, UpdateRow, SignInv
    <3>3. Signers' = Signers \cup {req[p].op.user}
      BY <1>4, SigningAdds DEF CompleteRound
    <3>4. players \subseteq req[p].players /\ req[p].signers \subseteq Signers
      BY <2>1, <3>2 DEF SnapshotOK
    <3>5. AllSigned'
      BY <2>1, <2>3, <3>3, <3>4 DEF SignRound, AllSigned
    <3>6. RoundOK'
      BY <2>1, <3>2, <3>5 DEF RoundOK, Justified, Uniform
    <3>7. SnapshotOK(p)'
      BY <3>1, <3>5 DEF SnapshotOK, HasCards
    <3> QED
      BY <1>0, <3>1, <3>6, <3>7, StepOfOne
  <2> QED
    BY <2>2, <2>3
<1>5. ASSUME NEW p \in Procs, LeaveRound(p) PROVE SignInv'
  <2>1. Uniform(players, cards) => Uniform(players', cards')
    BY <1>5 DEF LeaveRound, RowsOf, Uniform
  <2> QED
    BY <1>0, <1>5, <2>1, SaveAndFinish DEF LeaveRound, Loaded
<1>6. ASSUME NEW p \in Procs, DeleteRound(p) PROVE SignInv'
  BY <1>6 DEF DeleteRound, SignInv
<1>7. ASSUME NEW p \in Procs, AddHole(p) PROVE SignInv'
  <2>1. exists /\ HasCards(p)
    BY <1>7 DEF AddHole, Loaded, HasCards, UpdateRow
  <2>2. players \subseteq req[p].players
    BY <2>1 DEF SignInv, SnapshotOK
  <2>3. Uniform(players, cards) => Uniform(players', cards')
    BY <1>7, <2>2 DEF AddHole, Uniform
  <2> QED
    BY <1>0, <1>7, <2>3, SaveAndFinish DEF AddHole, Loaded
<1>8. ASSUME NEW p \in Procs, DeleteHole(p) PROVE SignInv'
  <2>1. exists /\ HasCards(p)
    BY <1>8 DEF DeleteHole, Loaded, HasCards, UpdateRow
  <2>2. players \subseteq req[p].players /\ Uniform(req[p].players, req[p].cards)
    BY <2>1 DEF SignInv, SnapshotOK
  <2>3. Uniform(players, cards) => Uniform(players', cards')
    BY <1>8, <2>2 DEF DeleteHole, Uniform
  <2> QED
    BY <1>0, <1>8, <2>3, SaveAndFinish DEF DeleteHole, Loaded
<1>9. ASSUME NEW p \in Procs, UpdatePlayerScore(p) \/ SaveCourse(p) \/ EvaluateRound(p) PROVE SignInv'
  <2>1. /\ req[p].pc = "loading" /\ UpdateRow(req[p].row) /\ Finish(p)
        /\ UNCHANGED <<players, cards, published>>
    BY <1>9 DEF UpdatePlayerScore, SaveCourse, EvaluateRound, Loaded
  <2> QED
    BY <1>0, <2>1, SaveAndFinish
<1>10. ASSUME NEW p \in Procs, SpectatorJoined(p) PROVE SignInv'
  <2> DEFINE newRow == [req[p].row EXCEPT !.spectators = @ \cup {req[p].op.user}]
  <2>1. /\ req[p].pc = "loading" /\ UpdateRow(newRow) /\ Finish(p)
        /\ UNCHANGED <<players, cards, published>>
    BY <1>10 DEF SpectatorJoined, Loaded
  <2>2. newRow.isCompleted = req[p].row.isCompleted
    BY ReqType DEF Row
  <2> HIDE DEF newRow
  <2> QED
    BY <1>0, <2>1, <2>2, SaveAndFinish
<1>11. ASSUME NEW p \in Procs, SpectatorLeft(p) PROVE SignInv'
  <2> DEFINE newRow == [req[p].row EXCEPT !.spectators = @ \ {req[p].op.user}]
  <2>1. /\ req[p].pc = "loading" /\ UpdateRow(newRow) /\ Finish(p)
        /\ UNCHANGED <<players, cards, published>>
    BY <1>11 DEF SpectatorLeft, Loaded
  <2>2. newRow.isCompleted = req[p].row.isCompleted
    BY ReqType DEF Row
  <2> HIDE DEF newRow
  <2> QED
    BY <1>0, <2>1, <2>2, SaveAndFinish
<1>12. ASSUME CleanUp PROVE SignInv'
  <2>1. Worker \in Procs
    BY DEF Procs
  <2>2. /\ req[Worker].pc = "loading" /\ Finish(Worker)
        /\ UNCHANGED <<players, cards, published>> /\ exists' = exists
    BY <1>12 DEF CleanUp, Loaded, UpdateRow
  <2>3. CASE Sparse(req[Worker].scored)
    <3> DEFINE newRow == [req[Worker].row EXCEPT !.deleted = TRUE]
    <3>1. UpdateRow(newRow)
      BY <1>12, <2>3 DEF CleanUp
    <3>2. newRow.isCompleted = req[Worker].row.isCompleted
      BY <2>1, ReqType DEF Row
    <3> HIDE DEF newRow
    <3> QED
      BY <1>0, <2>1, <2>2, <3>1, <3>2, SaveAndFinish
  <2>4. CASE ~Sparse(req[Worker].scored)
    <3>1. cleaned'
      BY <1>12, <2>4 DEF CleanUp
    <3>2. exists => RoundOK'
      BY <1>0, <2>2, <3>1, Stable DEF SignInv, RoundOK, Justified, Uniform
    <3> QED
      BY <1>0, <2>1, <2>2, <3>2, FinishOK, StepOfOne DEF Finish
  <2> QED
    BY <2>3, <2>4
<1>13. ASSUME NEW p \in Procs, Abort(p) \/ Crash(p) PROVE SignInv'
  <2>1. /\ Finish(p) /\ exists' = exists /\ row' = row /\ players' = players
        /\ cards' = cards /\ Signers' = Signers /\ cleaned' = cleaned
        /\ published' = published
    BY <1>13 DEF Abort, Crash, Finish, Signers
  <2>2. exists => RoundOK'
    BY <2>1 DEF SignInv, RoundOK, Justified, AllSigned, Uniform
  <2> QED
    BY <1>0, <2>1, <2>2, FinishOK, StepOfOne DEF Finish
<1>14. ASSUME NEW p \in Procs, Publish(p) PROVE SignInv'
  <2>1. /\ Finish(p) /\ exists' = exists /\ row' = row /\ players' = players
        /\ cards' = cards /\ Signers' = Signers /\ cleaned' = cleaned
    BY <1>14 DEF Publish, Signers
  <2>2. exists => RoundOK /\ SnapshotOK(p)
    BY DEF SignInv
  <2>3. CASE req[p].op.kind = "complete"
    <3>1. exists => AllSigned'
      BY <1>14, <2>1, <2>2, <2>3 DEF Publish, SnapshotOK, AllSigned
    <3>2. exists => RoundOK'
      BY <2>1, <2>2, <3>1 DEF RoundOK, Justified, AllSigned, Uniform
    <3> QED
      BY <1>0, <2>1, <3>2, FinishOK, StepOfOne DEF Finish
  <2>4. CASE req[p].op.kind # "complete"
    <3>1. published'.completed = published.completed
      BY <1>14, <2>4 DEF Publish, TypeOK
    <3>2. exists => RoundOK'
      BY <2>1, <2>2, <3>1 DEF RoundOK, Justified, AllSigned, Uniform
    <3> QED
      BY <1>0, <2>1, <3>2, FinishOK, StepOfOne DEF Finish
  <2> QED
    BY <2>3, <2>4
<1>15. ASSUME UNCHANGED <<exists, row, players, cards, signatures, req, published, cleaned>>
       PROVE  SignInv'
  BY <1>15 DEF SignInv, RoundOK, SnapshotOK, HasCards, Justified, AllSigned, Signers, Uniform
<1>16. CASE TwoDaysPass
  BY <1>15, <1>16 DEF TwoDaysPass
<1>17. CASE UNCHANGED vars
  BY <1>15, <1>17 DEF vars
<1>18. ASSUME NEW r \in Requests, NEW op \in ClientOps, Send(r, op) PROVE SignInv'
  BY <1>0, <1>1, <1>18 DEF Send
<1>19. ASSUME WorkerWakes PROVE SignInv'
  BY <1>1, <1>19 DEF WorkerWakes, Procs
<1> QED
  BY <1>0, <1>2, <1>3, <1>4, <1>5, <1>6, <1>7, <1>8, <1>9, <1>10, <1>11, <1>12,
     <1>13, <1>14, <1>16, <1>17, <1>18, <1>19 DEF Next, Command, Read

LEMMA SignInvariant == Spec => []SignInv
<1>1. Init => SignInv
  <2> SUFFICES ASSUME Init PROVE SignInv
    OBVIOUS
  <2>1. \A p \in Procs : req[p].pc = "idle"
    BY DEF Init, IdleRequest
  <2>2. Uniform(players, cards) /\ ~row.isCompleted /\ published.completed = 0
    BY DEF Init, Uniform, NewRow
  <2> QED
    BY <2>1, <2>2 DEF SignInv, RoundOK, SnapshotOK, HasCards
<1>2. TypeOK /\ TypeOK' /\ NoOrphanRows /\ SignInv /\ [Next]_vars => SignInv'
  BY SignStep
<1> QED
  BY <1>1, <1>2, TypeCorrect, NoOrphans, PTL DEF Spec

\* A round is only ever shown as completed when every player left in it has
\* signed or the worker has closed it, whatever stale rows are written back.
THEOREM CompletionJustified == Spec => []CompletedIsJustified
<1>1. SignInv => CompletedIsJustified
  BY DEF SignInv, RoundOK, CompletedIsJustified, Justified
<1> QED
  BY <1>1, SignInvariant, PTL

\* RoundWasCompleted is published only when every player left has signed.
THEOREM AnnouncementJustified == Spec => []AnnouncedWhenSigned
<1>1. SignInv => AnnouncedWhenSigned
  BY DEF SignInv, RoundOK, AnnouncedWhenSigned
<1> QED
  BY <1>1, SignInvariant, PTL

\* All players have the same holes on their cards in every reachable state.
THEOREM CardsAgree == Spec => []SameHolesForAll
<1>1. SignInv /\ NoOrphanRows => SameHolesForAll
  BY DEF SignInv, RoundOK, Uniform, SameHolesForAll, NoOrphanRows
<1> QED
  BY <1>1, SignInvariant, NoOrphans, PTL

-----------------------------------------------------------------------------
(* How often RoundWasCompleted is published when the last signature is     *)
(* submitted several times at once: the requests that can still announce   *)
(* the round are counted.                                                  *)

\* The worker never signs, and never reaches Publish.
WorkerOK == req[Worker].op.kind = "cleanUp" /\ req[Worker].pc # "saved"

\* A request that may still complete the round: as far as it has read, its
\* caller plays in the round and has not signed it.
Candidate(r) ==
    LET op == req[r].op IN
    /\ exists /\ req[r].pc = "loading" /\ op.kind = "complete"
    /\ op.user \in IF "cards" \in req[r].pending THEN players ELSE req[r].players
    /\ op.user \notin IF "signatures" \in req[r].pending THEN Signers ELSE req[r].signers

Announcing(r) == req[r].pc = "saved" /\ req[r].op.kind = "complete"

Busy == {r \in Requests : Candidate(r) \/ Announcing(r)}

CountInv == WorkerOK /\ published.completed + Cardinality(Busy) <= Cardinality(Requests)

-----------------------------------------------------------------------------
LEMMA Distinct == Worker \in Procs /\ \A r \in Requests : r \in Procs /\ r # Worker
BY DEF Procs

\* A step of another process, or one that ends the worker's turn, leaves it as it was.
LEMMA WorkerStep == ASSUME TypeOK, WorkerOK, [Next]_vars PROVE WorkerOK'
<1> USE DEF WorkerOK
<1>1. ASSUME req'[Worker] = req[Worker] PROVE WorkerOK'
  BY <1>1
<1>2. ASSUME NEW p \in Procs, Finish(p) PROVE WorkerOK'
  <2>1. req'[p] = IdleRequest \/ req'[p] = req[p]
    BY <1>2 DEF Finish, TypeOK
  <2> QED
    BY <1>2, Distinct DEF Finish, TypeOK, IdleRequest, NoOp
<1>3. ASSUME NEW r \in Requests, NEW x, req' = [req EXCEPT ![r] = x] PROVE WorkerOK'
  BY <1>3, Distinct DEF TypeOK
<1>4. ASSUME NEW r \in Requests, Command(r) PROVE WorkerOK'
  <2>1. CASE CompleteRound(r) /\ SignRound(r)
    BY <1>3, <2>1 DEF CompleteRound
  <2>2. CASE DeleteRound(r)
    BY <1>3, <2>2 DEF DeleteRound
  <2> QED
    BY <1>2, <1>4, <2>1, <2>2, Distinct DEF Command, CompleteRound, UpdatePlayerScore,
       LeaveRound, AddHole, DeleteHole, SaveCourse, EvaluateRound, SpectatorJoined,
       SpectatorLeft
<1>5. ASSUME NEW p \in Procs, Read(p) PROVE WorkerOK'
  <2>1. CASE p = Worker
    BY <1>5, <2>1, ReqType DEF Read, ReadSignatures, ReadCards, TypeOK, Request
  <2>2. CASE p # Worker
    BY <1>5, <2>2, Distinct DEF Read, ReadSignatures, ReadCards, TypeOK
  <2> QED
    BY <2>1, <2>2
<1>6. ASSUME NEW p \in Procs, Abort(p) \/ Publish(p) \/ Crash(p) PROVE WorkerOK'
  BY <1>2, <1>6 DEF Abort, Publish, Crash, Finish
<1>7. ASSUME NEW r \in Requests, NEW op, Send(r, op) PROVE WorkerOK'
  BY <1>3, <1>7 DEF Send, ReadRow
<1>8. CASE WorkerWakes
  BY <1>8, Distinct DEF WorkerWakes, ReadRow, TypeOK, IdleRequest, NoOp
<1>9. CASE CleanUp
  BY <1>2, <1>9, Distinct DEF CleanUp
<1>10. CASE TwoDaysPass \/ UNCHANGED vars
  BY <1>10 DEF TwoDaysPass, vars
<1> QED
  BY <1>4, <1>5, <1>6, <1>7, <1>8, <1>9, <1>10 DEF Next

\* A request that does nothing becomes no candidate: players only ever leave
\* and signatures are only ever added.
LEMMA QuietNotBusier ==
    ASSUME Monotone, NEW q \in Requests, req'[q] = req[q],
           Candidate(q)' \/ Announcing(q)'
    PROVE  Candidate(q) \/ Announcing(q)
BY DEF Monotone, Candidate, Announcing

LEMMA OneNotBusier ==
    ASSUME TypeOK, Monotone, NEW p \in Procs, NEW x, req' = [req EXCEPT ![p] = x],
           (Candidate(p)' \/ Announcing(p)') => (Candidate(p) \/ Announcing(p))
    PROVE  Busy' \subseteq Busy
<1>1. ASSUME NEW q \in Requests, Candidate(q)' \/ Announcing(q)'
      PROVE  Candidate(q) \/ Announcing(q)
  <2>1. CASE q = p
    BY <1>1, <2>1
  <2>2. CASE q # p
    <3>1. req'[q] = req[q]
      BY <2>2, Distinct DEF TypeOK
    <3> QED
      BY <1>1, <3>1, QuietNotBusier
  <2> QED
    BY <2>1, <2>2
<1> QED
  BY <1>1 DEF Busy

LEMMA FinishNotBusier ==
    ASSUME TypeOK, Monotone, NEW p \in Procs, Finish(p)
    PROVE  Busy' \subseteq Busy \ {p}
<1>1. req'[p].pc = "idle"
  BY DEF Finish, TypeOK, IdleRequest
<1>2. ~Candidate(p)' /\ ~Announcing(p)'
  BY <1>1 DEF Candidate, Announcing
<1>3. Busy' \subseteq Busy
  BY <1>2, OneNotBusier DEF Finish
<1> QED
  BY <1>2, <1>3 DEF Busy

\* Once the round has been announced everybody in it has signed, so that no
\* step makes a request a candidate.
LEMMA ReadNotBusier ==
    ASSUME TypeOK, Monotone, NEW p \in Procs, NEW op \in Op, ReadRow(p, op), AllSigned
    PROVE  Busy' \subseteq Busy
<1> DEFINE x == [IdleRequest EXCEPT !.pc = "loading", !.op = op, !.row = row,
                                    !.pending = LooksAt(op.kind)]
<1>1. x.pc = "loading" /\ x.op = op /\ x.pending = LooksAt(op.kind)
  BY DEF IdleRequest
<1>2. req' = [req EXCEPT ![p] = x] /\ req'[p] = x
  BY DEF ReadRow, TypeOK
<1>3. players' = players /\ Signers' = Signers
  BY DEF ReadRow, Signers
<1> HIDE DEF x
<1>4. ~Announcing(p)'
  BY <1>1, <1>2 DEF Announcing
<1>5. ~Candidate(p)'
  <2> SUFFICES ASSUME Candidate(p)' PROVE FALSE
    OBVIOUS
  <2>1. op.kind = "complete"
    BY <1>1, <1>2 DEF Candidate
  <2>2. "cards" \in x.pending /\ "signatures" \in x.pending
    BY <1>1, <2>1 DEF LooksAt, Collections
  <2>3. op.user \in players /\ op.user \notin Signers
    BY <1>1, <1>2, <1>3, <2>2 DEF Candidate
  <2> QED
    BY <2>3 DEF AllSigned
<1> QED
  BY <1>2, <1>4, <1>5, OneNotBusier

\* What a request reads makes it no candidate if it was none before.
LEMMA SplitReadNotBusier ==
    ASSUME TypeOK, Monotone, NEW p \in Procs, Read(p)
    PROVE  Busy' \subseteq Busy
<1>1. /\ players' = players /\ Signers' = Signers /\ exists' = exists
  BY DEF Read, ReadSignatures, ReadCards, Signers
<1>2. CASE ReadSignatures(p)
  <2> DEFINE x == [req[p] EXCEPT !.pending = @ \ {"signatures"}, !.signers = Signers]
  <2>1. req' = [req EXCEPT ![p] = x] /\ req'[p] = x
    BY <1>2 DEF ReadSignatures, TypeOK
  <2>2. /\ x.pc = req[p].pc /\ x.op = req[p].op /\ x.players = req[p].players
        /\ x.signers = Signers /\ x.pending = req[p].pending \ {"signatures"}
    BY ReqType DEF Request
  <2>3. "signatures" \in req[p].pending
    BY <1>2 DEF ReadSignatures
  <2> HIDE DEF x
  <2>4. (Candidate(p)' \/ Announcing(p)') => (Candidate(p) \/ Announcing(p))
    BY <1>1, <2>1, <2>2, <2>3 DEF Candidate, Announcing
  <2> QED
    BY <2>1, <2>4, OneNotBusier
<1>3. CASE ReadCards(p)
  <2> DEFINE x == [req[p] EXCEPT !.pending = @ \ {"cards"}, !.players = players,
                                 !.cards = cards,
                                 !.scored = IF p = Worker THEN scored ELSE {}]
  <2>1. req' = [req EXCEPT ![p] = x] /\ req'[p] = x
    BY <1>3 DEF ReadCards, TypeOK
  <2>2. /\ x.pc = req[p].pc /\ x.op = req[p].op /\ x.players = players
        /\ x.signers = req[p].signers /\ x.pending = req[p].pending \ {"cards"}
    BY ReqType DEF Request
  <2>3. "cards" \in req[p].pending
    BY <1>3 DEF ReadCards
  <2> HIDE DEF x
  <2>4. (Candidate(p)' \/ Announcing(p)') => (Candidate(p) \/ Announcing(p))
    BY <1>1, <2>1, <2>2, <2>3 DEF Candidate, Announcing
  <2> QED
    BY <2>1, <2>4, OneNotBusier
<1> QED
  BY <1>2, <1>3 DEF Read

\* The request that completes the round was a candidate until then.
LEMMA CompleteNotBusier ==
    ASSUME TypeOK, Monotone, NEW p \in Procs, CompleteRound(p)
    PROVE  Busy' \subseteq Busy
<1>1. CASE ~SignRound(p)
  BY <1>1, FinishNotBusier DEF CompleteRound
<1>2. CASE SignRound(p)
  <2>1. exists /\ Candidate(p)
    BY <1>2 DEF CompleteRound, Candidate, Loaded, UpdateRow
  <2>2. req' = [req EXCEPT ![p] = [req[p] EXCEPT !.pc = "saved"]]
    BY <1>2 DEF CompleteRound
  <2> QED
    BY <2>1, <2>2, OneNotBusier
<1> QED
  BY <1>1, <1>2

LEMMA DeleteNotBusier ==
    ASSUME TypeOK, Monotone, NEW p \in Procs, DeleteRound(p)
    PROVE  Busy' \subseteq Busy
<1> DEFINE x == [req[p] EXCEPT !.pc = "saved"]
<1>1. req' = [req EXCEPT ![p] = x] /\ req'[p] = x /\ ~exists'
  BY DEF DeleteRound, TypeOK
<1>2. x.op.kind = "delete"
  BY ReqType DEF DeleteRound, Loaded, Request
<1> HIDE DEF x
<1>3. ~Candidate(p)' /\ ~Announcing(p)'
  BY <1>1, <1>2 DEF Candidate, Announcing
<1> QED
  BY <1>1, <1>3, OneNotBusier

-----------------------------------------------------------------------------
\* Every step keeps the number of announcements made and still possible, except
\* that before the first one everybody in the round may become a candidate.
LEMMA BusyStep ==
    ASSUME TypeOK, WorkerOK, AnnouncedWhenSigned, [Next]_vars
    PROVE  \/ published' = published /\ published.completed = 0
           \/ published'.completed = published.completed /\ Busy' \subseteq Busy
           \/ /\ published'.completed = published.completed + 1
              /\ \E p \in Busy : Busy' \subseteq Busy \ {p}
<1>0. Monotone
  BY MonotoneStep
<1> DEFINE Goal == \/ published' = published /\ published.completed = 0
                   \/ published'.completed = published.completed /\ Busy' \subseteq Busy
                   \/ /\ published'.completed = published.completed + 1
                      /\ \E p \in Busy : Busy' \subseteq Busy \ {p}
<1>1. ASSUME NEW p \in Procs, NEW op \in Op, ReadRow(p, op) PROVE Goal
  <2>1. published' = published /\ exists
    BY <1>1 DEF ReadRow
  <2>2. CASE published.completed = 0
    BY <2>1, <2>2
  <2>3. CASE published.completed # 0
    <3>1. AllSigned
      BY <2>1, <2>3 DEF AnnouncedWhenSigned, TypeOK
    <3> QED
      BY <1>0, <1>1, <2>1, <3>1, ReadNotBusier
  <2> QED
    BY <2>2, <2>3
<1>2. ASSUME NEW p \in Procs, Finish(p), published' = published PROVE Goal
  BY <1>0, <1>2, FinishNotBusier
<1>3. ASSUME NEW p \in Procs, Read(p) PROVE Goal
  BY <1>0, <1>3, SplitReadNotBusier DEF Read, ReadSignatures, ReadCards
<1>4. ASSUME NEW r \in Requests, Command(r) PROVE Goal
  <2>1. r \in Procs
    BY Distinct
  <2>2. CASE CompleteRound(r)
    BY <1>0, <2>1, <2>2, CompleteNotBusier DEF CompleteRound
  <2>3. CASE DeleteRound(r)
    BY <1>0, <2>1, <2>3, DeleteNotBusier DEF DeleteRound
  <2> QED
    BY <1>2, <1>4, <2>1, <2>2, <2>3 DEF Command, UpdatePlayerScore, LeaveRound, AddHole,
       DeleteHole, SaveCourse, EvaluateRound, SpectatorJoined, SpectatorLeft
<1>5. ASSUME NEW p \in Procs, Publish(p) PROVE Goal
  <2>1. Finish(p) /\ req[p].pc = "saved"
    BY <1>5 DEF Publish
  <2>2. Busy' \subseteq Busy \ {p}
    BY <1>0, <2>1, FinishNotBusier
  <2>3. p \in Requests
    BY <2>1 DEF Procs, WorkerOK
  <2>4. CASE req[p].op.kind = "complete"
    <3>1. p \in Busy
      BY <2>1, <2>3, <2>4 DEF Busy, Announcing
    <3>2. published'.completed = published.completed + 1
      BY <1>5, <2>4 DEF Publish, TypeOK
    <3> QED
      BY <2>2, <3>1, <3>2
  <2>5. CASE req[p].op.kind # "complete"
    <3>1. published'.completed = published.completed
      BY <1>5, <2>5 DEF Publish, TypeOK
    <3> QED
      BY <2>2, <3>1
  <2> QED
    BY <2>4, <2>5
<1>6. ASSUME NEW p \in Procs, Abort(p) \/ Crash(p) PROVE Goal
  BY <1>2, <1>6 DEF Abort, Crash, Finish
<1>7. ASSUME NEW r \in Requests, NEW op \in ClientOps, Send(r, op) PROVE Goal
  <2>1. op \in Op
    BY DEF ClientOps, Op
  <2> QED
    BY <1>1, <1>7, <2>1, Distinct DEF Send
<1>8. CASE WorkerWakes
  BY <1>1, <1>8, Distinct, IdleIsRequest DEF WorkerWakes
<1>9. CASE CleanUp
  BY <1>2, <1>9, Distinct DEF CleanUp
<1>10. CASE TwoDaysPass \/ UNCHANGED vars
  <2>1. UNCHANGED <<exists, players, signatures, req, published>>
    BY <1>10 DEF TwoDaysPass, vars
  <2> QED
    BY <2>1 DEF Busy, Candidate, Announcing, Signers
<1> QED
  BY <1>3, <1>4, <1>5, <1>6, <1>7, <1>8, <1>9, <1>10 DEF Next

LEMMA CountStep ==
    ASSUME TypeOK, CountInv, AnnouncedWhenSigned, [Next]_vars
    PROVE  CountInv'
<1>1. WorkerOK'
  BY WorkerStep DEF CountInv
<1>2. /\ Cardinality(Requests) \in Nat /\ published.completed \in Nat
      /\ Busy \in SUBSET Requests /\ Busy' \in SUBSET Requests
  BY FS_CardinalityType DEF TypeOK, Busy
<1>3. /\ IsFiniteSet(Busy) /\ Cardinality(Busy) \in Nat
      /\ IsFiniteSet(Busy') /\ Cardinality(Busy') \in Nat
      /\ Cardinality(Busy') <= Cardinality(Requests)
  BY <1>2, FS_Subset, FS_CardinalityType
<1>4. CASE published' = published /\ published.completed = 0
  BY <1>1, <1>2, <1>3, <1>4 DEF CountInv
<1>5. CASE published'.completed = published.completed /\ Busy' \subseteq Busy
  <2>1. Cardinality(Busy') <= Cardinality(Busy)
    BY <1>3, <1>5, FS_Subset
  <2> QED
    BY <1>1, <1>2, <1>3, <1>5, <2>1 DEF CountInv
<1>6. CASE /\ published'.completed = published.completed + 1
           /\ \E p \in Busy : Busy' \subseteq Busy \ {p}
  <2>1. PICK p \in Busy : Busy' \in SUBSET (Busy \ {p})
    BY <1>6
  <2>2. IsFiniteSet(Busy \ {p}) /\ Cardinality(Busy \ {p}) = Cardinality(Busy) - 1
    BY <1>3, FS_RemoveElement
  <2>3. Cardinality(Busy') <= Cardinality(Busy \ {p})
    BY <2>1, <2>2, FS_Subset
  <2> QED
    BY <1>1, <1>2, <1>3, <1>6, <2>2, <2>3 DEF CountInv
<1> QED
  BY <1>4, <1>5, <1>6, BusyStep DEF CountInv

\* However many requests submit the last signature at the same time, each of
\* them announces the completed round at most once, and no later one does.
THEOREM FewAnnouncements == Spec => []AnnouncedOncePerRequest
<1>1. Init => CountInv
  <2> SUFFICES ASSUME Init PROVE CountInv
    OBVIOUS
  <2>1. \A p \in Procs : req[p].pc = "idle" /\ req[p].op = NoOp
    BY DEF Init, IdleRequest
  <2>2. Busy = {} /\ published.completed = 0
    BY <2>1, Distinct DEF Busy, Candidate, Announcing, Init
  <2>3. WorkerOK
    <3>1. NoOp.kind = "cleanUp"
      BY DEF NoOp
    <3> QED
      BY <2>1, <3>1, Distinct DEF WorkerOK
  <2>4. Cardinality(Busy) = 0 /\ Cardinality(Requests) \in Nat
    BY <2>2, FS_EmptySet, FS_CardinalityType
  <2> QED
    BY <2>2, <2>3, <2>4 DEF CountInv
<1>2. TypeOK /\ CountInv /\ AnnouncedWhenSigned /\ [Next]_vars => CountInv'
  BY CountStep
<1>3. TypeOK /\ CountInv => AnnouncedOncePerRequest
  <2> SUFFICES ASSUME TypeOK, CountInv PROVE AnnouncedOncePerRequest
    OBVIOUS
  <2>1. IsFiniteSet(Busy) /\ Cardinality(Busy) \in Nat /\ Cardinality(Requests) \in Nat
    BY FS_Subset, FS_CardinalityType DEF Busy
  <2> QED
    BY <2>1 DEF CountInv, AnnouncedOncePerRequest, TypeOK
<1> QED
  BY <1>1, <1>2, <1>3, TypeCorrect, AnnouncementJustified, PTL DEF Spec
-----------------------------------------------------------------------------
(***************************************************************************)
(* What RoundStore promises as long as requests do not overlap: proofs for *)
(* every number of users, holes and request slots, and whether or not      *)
(* processes die after a save.                                             *)
(***************************************************************************)

\* At most one request is under way ...
Alone == \A p, q \in Procs : req[p].pc # "idle" /\ req[q].pc # "idle" => p = q

\* ... and what it has loaded is what is stored.
Fresh(p) ==
    req[p].pc = "loading" =>
      /\ exists /\ req[p].row = row /\ ~row.deleted
      /\ req[p].op.kind = "complete" /\ "signatures" \notin req[p].pending
           => req[p].signers = Signers
      /\ HasCards(p) => req[p].players = players /\ req[p].cards = cards
      /\ p = Worker => ~row.isCompleted
      /\ p = Worker /\ HasCards(p) => req[p].scored = scored

SerialInv == WorkerOK /\ Alone /\ \A p \in Procs : Fresh(p)

-----------------------------------------------------------------------------

\* It is enough to look at the one request that takes the step.
LEMMA SerialOne ==
    ASSUME TypeOK, WorkerOK', NEW p \in Procs, NEW x, req' = [req EXCEPT ![p] = x],
           \A q \in Procs : q # p => req[q].pc = "idle", Fresh(p)'
    PROVE  SerialInv'
<1>1. \A q \in Procs : q # p => req'[q].pc = "idle"
  BY DEF TypeOK
<1>2. Alone'
  BY <1>1 DEF Alone
<1>3. \A q \in Procs : Fresh(q)'
  BY <1>1 DEF Fresh
<1> QED
  BY <1>2, <1>3 DEF SerialInv

LEMMA OthersIdle ==
    ASSUME Alone, NEW p \in Procs, req[p].pc # "idle"
    PROVE  \A q \in Procs : q # p => req[q].pc = "idle"
BY DEF Alone

\* A request that has ended, or has only to publish, holds nothing stale.
LEMMA SerialEnds ==
    ASSUME TypeOK, WorkerOK', Alone, NEW p \in Procs, req[p].pc # "idle", NEW x,
           req' = [req EXCEPT ![p] = x], x.pc # "loading"
    PROVE  SerialInv'
<1>1. Fresh(p)'
  BY DEF Fresh, TypeOK
<1> QED
  BY <1>1, OthersIdle, SerialOne

LEMMA SerialFinish ==
    ASSUME TypeOK, WorkerOK', Alone, NEW p \in Procs, req[p].pc # "idle", Finish(p)
    PROVE  SerialInv'
<1>1. IdleRequest.pc # "loading"
  BY DEF IdleRequest
<1> QED
  BY <1>1, SerialEnds DEF Finish

LEMMA SerialReadRow ==
    ASSUME ~Concurrent, TypeOK, WorkerOK', NEW p \in Procs, NEW op \in Op, ReadRow(p, op),
           p = Worker => ~row.isCompleted
    PROVE  SerialInv'
<1> DEFINE x == [IdleRequest EXCEPT !.pc = "loading", !.op = op, !.row = row,
                                    !.pending = LooksAt(op.kind)]
<1>1. x.op = op /\ x.row = row /\ x.pending = LooksAt(op.kind)
  BY DEF IdleRequest
<1>2. req' = [req EXCEPT ![p] = x] /\ req'[p] = x
  BY DEF ReadRow, TypeOK
<1>3. exists' /\ row' = row /\ ~row.deleted /\ \A q \in Procs : req[q].pc = "idle"
  BY DEF ReadRow
<1>4. op.kind = "complete" => "signatures" \in LooksAt(op.kind)
  BY DEF LooksAt, Collections
<1>5. op.kind \notin {"spectate", "unspectate", "evaluate"} => "cards" \in LooksAt(op.kind)
  BY DEF LooksAt, Collections
<1> HIDE DEF x
<1>6. ~HasCards(p)'
  BY <1>1, <1>2, <1>5 DEF HasCards
<1>7. Fresh(p)'
  BY <1>1, <1>2, <1>3, <1>4, <1>6 DEF Fresh
<1> QED
  BY <1>2, <1>3, <1>7, SerialOne

LEMMA SerialRead ==
    ASSUME TypeOK, WorkerOK', SerialInv, NEW p \in Procs, Read(p)
    PROVE  SerialInv'
<1>1. /\ exists' = exists /\ row' = row /\ players' = players /\ cards' = cards
      /\ scored' = scored /\ Signers' = Signers
  BY DEF Read, ReadSignatures, ReadCards, Signers
<1>2. CASE ReadSignatures(p)
  <2> DEFINE x == [req[p] EXCEPT !.pending = @ \ {"signatures"}, !.signers = Signers]
  <2>1. req' = [req EXCEPT ![p] = x] /\ req'[p] = x
    BY <1>2 DEF ReadSignatures, TypeOK
  <2>2. /\ x.pc = req[p].pc /\ x.op = req[p].op /\ x.row = req[p].row
        /\ x.players = req[p].players /\ x.cards = req[p].cards
        /\ x.scored = req[p].scored /\ x.signers = Signers
        /\ "cards" \in x.pending <=> "cards" \in req[p].pending
    BY ReqType DEF Request
  <2>3. HasCards(p)' <=> HasCards(p)
    BY <2>1, <2>2 DEF HasCards
  <2> HIDE DEF x
  <2>4. Fresh(p)'
    BY <1>1, <2>1, <2>2, <2>3 DEF SerialInv, Fresh
  <2>5. CASE req[p].pc = "idle"
    <3>1. req'[p].pc = "idle" /\ \A q \in Procs : q # p => req'[q] = req[q]
      BY <2>1, <2>2, <2>5 DEF TypeOK
    <3>2. Alone'
      BY <2>5, <3>1 DEF SerialInv, Alone
    <3>3. \A q \in Procs : Fresh(q)'
      BY <1>1, <2>4, <3>1 DEF SerialInv, Fresh, HasCards
    <3> QED
      BY <3>2, <3>3 DEF SerialInv
  <2> QED
    BY <2>1, <2>4, <2>5, OthersIdle, SerialOne DEF SerialInv
<1>3. CASE ReadCards(p)
  <2> DEFINE x == [req[p] EXCEPT !.pending = @ \ {"cards"}, !.players = players,
                                 !.cards = cards,
                                 !.scored = IF p = Worker THEN scored ELSE {}]
  <2>1. req' = [req EXCEPT ![p] = x] /\ req'[p] = x
    BY <1>3 DEF ReadCards, TypeOK
  <2>2. /\ x.pc = req[p].pc /\ x.op = req[p].op /\ x.row = req[p].row
        /\ x.players = players /\ x.cards = cards /\ x.signers = req[p].signers
        /\ p = Worker => x.scored = scored
        /\ "signatures" \in x.pending <=> "signatures" \in req[p].pending
    BY ReqType DEF Request
  <2> HIDE DEF x
  <2>4. Fresh(p)'
    BY <1>1, <2>1, <2>2 DEF SerialInv, Fresh
  <2>5. CASE req[p].pc = "idle"
    <3>1. req'[p].pc = "idle" /\ \A q \in Procs : q # p => req'[q] = req[q]
      BY <2>1, <2>2, <2>5 DEF TypeOK
    <3>2. Alone'
      BY <2>5, <3>1 DEF SerialInv, Alone
    <3>3. \A q \in Procs : Fresh(q)'
      BY <1>1, <2>4, <3>1 DEF SerialInv, Fresh, HasCards
    <3> QED
      BY <3>2, <3>3 DEF SerialInv
  <2> QED
    BY <2>1, <2>4, <2>5, OthersIdle, SerialOne DEF SerialInv
<1> QED
  BY <1>2, <1>3 DEF Read

LEMMA SerialStep ==
    ASSUME ~Concurrent, TypeOK, SerialInv, [Next]_vars
    PROVE  SerialInv'
<1>0. WorkerOK' /\ Alone
  BY WorkerStep DEF SerialInv
<1>1. ASSUME NEW r \in Requests, NEW op \in ClientOps, Send(r, op) PROVE SerialInv'
  <2>1. op \in Op
    BY DEF ClientOps, Op
  <2> QED
    BY <1>0, <1>1, <2>1, Distinct, SerialReadRow DEF Send
<1>2. CASE WorkerWakes
  BY <1>0, <1>2, Distinct, IdleIsRequest, SerialReadRow DEF WorkerWakes
<1>3. ASSUME NEW p \in Procs, Read(p) PROVE SerialInv'
  BY <1>0, <1>3, SerialRead
<1>4. ASSUME NEW r \in Requests, Command(r) PROVE SerialInv'
  <2>1. r \in Procs /\ req[r].pc = "loading"
    BY <1>4, Distinct DEF Command, UpdatePlayerScore, CompleteRound, LeaveRound, DeleteRound,
       AddHole, DeleteHole, SaveCourse, EvaluateRound, SpectatorJoined, SpectatorLeft, Loaded
  <2> DEFINE x == [req[r] EXCEPT !.pc = "saved"]
  <2>2. CASE req' = [req EXCEPT ![r] = x]
    <3>1. x.pc = "saved"
      BY <2>1, ReqType DEF Request
    <3> HIDE DEF x
    <3> QED
      BY <1>0, <2>1, <2>2, <3>1, SerialEnds
  <2>3. CASE Finish(r)
    BY <1>0, <2>1, <2>3, SerialFinish
  <2> QED
    BY <1>4, <2>2, <2>3 DEF Command, UpdatePlayerScore, CompleteRound, LeaveRound,
       DeleteRound, AddHole, DeleteHole, SaveCourse, EvaluateRound, SpectatorJoined,
       SpectatorLeft
<1>5. CASE CleanUp
  BY <1>0, <1>5, Distinct, SerialFinish DEF CleanUp, Loaded
<1>6. ASSUME NEW p \in Procs, Abort(p) \/ Publish(p) \/ Crash(p) PROVE SerialInv'
  <2>1. req[p].pc # "idle" /\ Finish(p)
    BY <1>6 DEF Abort, Publish, Crash, Finish
  <2> QED
    BY <1>0, <2>1, SerialFinish
<1>7. CASE TwoDaysPass \/ UNCHANGED vars
  <2>1. UNCHANGED <<exists, row, players, cards, scored, signatures, req>>
    BY <1>7 DEF TwoDaysPass, vars
  <2> QED
    BY <2>1 DEF SerialInv, WorkerOK, Alone, Fresh, HasCards, Signers
<1> QED
  BY <1>1, <1>2, <1>3, <1>4, <1>5, <1>6, <1>7 DEF Next

LEMMA SerialInvariant == ASSUME ~Concurrent PROVE Spec => []SerialInv
<1>1. Init => SerialInv
  <2> SUFFICES ASSUME Init PROVE SerialInv
    OBVIOUS
  <2>1. \A p \in Procs : req[p].pc = "idle" /\ req[p].op = NoOp
    BY DEF Init, IdleRequest
  <2>2. NoOp.kind = "cleanUp"
    BY DEF NoOp
  <2> QED
    BY <2>1, <2>2, Distinct DEF SerialInv, WorkerOK, Alone, Fresh
<1>2. TypeOK /\ SerialInv /\ [Next]_vars => SerialInv'
  BY SerialStep
<1> QED
  BY <1>1, <1>2, TypeCorrect, PTL DEF Spec

-----------------------------------------------------------------------------
\* What a command saves is the row that is stored, except for its own column.
LEMMA FreshRow ==
    ASSUME SerialInv, NEW p \in Procs, req[p].pc = "loading"
    PROVE  exists /\ req[p].row = row /\ ~row.deleted
BY DEF SerialInv, Fresh

LEMMA CommandsKeepDeleted ==
    ASSUME TypeOK, SerialInv, NEW r \in Requests, Command(r), exists'
    PROVE  ~row'.deleted
<1>1. r \in Procs /\ req[r].pc = "loading"
  BY Distinct DEF Command, UpdatePlayerScore, CompleteRound, LeaveRound, DeleteRound,
     AddHole, DeleteHole, SaveCourse, EvaluateRound, SpectatorJoined, SpectatorLeft, Loaded
<1>2. req[r].row = row /\ ~row.deleted /\ row \in Row
  BY <1>1, FreshRow DEF TypeOK
<1>3. CASE CompleteRound(r)
  <2>1. CASE SignRound(r)
    <3>1. row' = [row EXCEPT !.isCompleted = TRUE]
      BY <1>2, <1>3, <2>1 DEF CompleteRound, UpdateRow
    <3> QED
      BY <1>2, <3>1 DEF Row
  <2>2. CASE ~SignRound(r)
    BY <1>2, <1>3, <2>2 DEF CompleteRound, UpdateRow
  <2> QED
    BY <2>1, <2>2
<1>4. CASE SpectatorJoined(r)
  <2>1. row' = [row EXCEPT !.spectators = @ \cup {req[r].op.user}]
    BY <1>2, <1>4 DEF SpectatorJoined, UpdateRow
  <2> QED
    BY <1>2, <2>1 DEF Row
<1>5. CASE SpectatorLeft(r)
  <2>1. row' = [row EXCEPT !.spectators = @ \ {req[r].op.user}]
    BY <1>2, <1>5 DEF SpectatorLeft, UpdateRow
  <2> QED
    BY <1>2, <2>1 DEF Row
<1>6. CASE DeleteRound(r)
  BY <1>6 DEF DeleteRound
<1>7. CASE \/ UpdatePlayerScore(r) \/ LeaveRound(r) \/ AddHole(r) \/ DeleteHole(r)
           \/ SaveCourse(r) \/ EvaluateRound(r)
  BY <1>2, <1>7 DEF UpdatePlayerScore, LeaveRound, AddHole, DeleteHole, SaveCourse,
     EvaluateRound, UpdateRow
<1> QED
  BY <1>3, <1>4, <1>5, <1>6, <1>7 DEF Command

LEMMA SparseStep ==
    ASSUME TypeOK, SerialInv, OnlySparseRoundsDeleted, [Next]_vars
    PROVE  OnlySparseRoundsDeleted'
<1> USE DEF OnlySparseRoundsDeleted
<1>1. ASSUME UNCHANGED <<exists, row, scored>> PROVE OnlySparseRoundsDeleted'
  BY <1>1
<1>2. ASSUME NEW r \in Requests, Command(r) PROVE OnlySparseRoundsDeleted'
  BY <1>2, CommandsKeepDeleted
<1>3. CASE CleanUp
  <2>1. req[Worker].pc = "loading" /\ HasCards(Worker)
    BY <1>3 DEF CleanUp, Loaded, HasCards
  <2>2. req[Worker].row = row /\ ~row.deleted /\ req[Worker].scored = scored /\ row \in Row
    BY <2>1, Distinct DEF SerialInv, Fresh, TypeOK
  <2>3. CASE Sparse(scored)
    BY <1>3, <2>3 DEF CleanUp, Sparse
  <2>4. CASE ~Sparse(scored)
    <3>1. row' = [row EXCEPT !.isCompleted = TRUE]
      BY <1>3, <2>2, <2>4 DEF CleanUp, UpdateRow
    <3> QED
      BY <2>2, <3>1 DEF Row
  <2> QED
    BY <2>3, <2>4
<1>4. ASSUME NEW r \in Requests, NEW op, Send(r, op) PROVE OnlySparseRoundsDeleted'
  BY <1>1, <1>4 DEF Send, ReadRow
<1>5. CASE WorkerWakes
  BY <1>1, <1>5 DEF WorkerWakes, ReadRow
<1>6. ASSUME NEW p \in Procs, Read(p) \/ Abort(p) \/ Publish(p) \/ Crash(p)
      PROVE  OnlySparseRoundsDeleted'
  BY <1>1, <1>6 DEF Read, ReadSignatures, ReadCards, Abort, Publish, Crash
<1>7. CASE TwoDaysPass \/ UNCHANGED vars
  BY <1>1, <1>7 DEF TwoDaysPass, vars
<1> QED
  BY <1>2, <1>3, <1>4, <1>5, <1>6, <1>7 DEF Next

\* The worker deletes only rounds that were hardly played, because the strokes
\* it counted are those of the stored round.
THEOREM PlayedRoundsAreKept ==
    ASSUME ~Concurrent PROVE Spec => []OnlySparseRoundsDeleted
<1>1. Init => OnlySparseRoundsDeleted
  BY DEF Init, OnlySparseRoundsDeleted, NewRow
<1>2. TypeOK /\ SerialInv /\ OnlySparseRoundsDeleted /\ [Next]_vars => OnlySparseRoundsDeleted'
  BY SparseStep
<1> QED
  BY <1>1, <1>2, TypeCorrect, SerialInvariant, PTL DEF Spec

-----------------------------------------------------------------------------
\* Only a new signature makes a round signed by all who play in it, and its
\* command has seen all the others.
LEMMA LastSignatureStep ==
    ASSUME TypeOK, SerialInv, [Next]_vars,
           exists', players' = players, ~AllSigned, AllSigned'
    PROVE  row'.isCompleted
<1>1. signatures' # signatures
  BY DEF AllSigned, Signers
<1>2. \E r \in Requests : CompleteRound(r)
  BY <1>1 DEF Next, Command, UpdatePlayerScore, LeaveRound, DeleteRound, AddHole, DeleteHole,
     SaveCourse, EvaluateRound, SpectatorJoined, SpectatorLeft, CleanUp, TwoDaysPass, Send,
     ReadRow, WorkerWakes, Read, ReadSignatures, ReadCards, Abort, Publish, Crash, vars
<1>3. PICK r \in Requests : CompleteRound(r)
  BY <1>2
<1>4. r \in Procs /\ req[r].pc = "loading" /\ HasCards(r)
  BY <1>3, Distinct DEF CompleteRound, Loaded, HasCards
<1>5. req[r].players = players /\ req[r].signers = Signers
  BY <1>3, <1>4 DEF SerialInv, Fresh, CompleteRound, Loaded
<1>6. Signers' = Signers \cup {req[r].op.user}
  BY <1>3, <1>4, SigningAdds DEF CompleteRound
<1>7. SignRound(r)
  BY <1>5, <1>6 DEF AllSigned, SignRound
<1>8. row' = [req[r].row EXCEPT !.isCompleted = TRUE]
  BY <1>3, <1>7 DEF CompleteRound, UpdateRow
<1> QED
  BY <1>4, <1>8, ReqType DEF Row

\* The signature that makes all players have signed completes the round.
THEOREM SigningCompletes ==
    ASSUME ~Concurrent PROVE Spec => LastSignatureCompletes
<1>1. TypeOK /\ SerialInv /\ [Next]_vars
        => [exists' /\ players' = players /\ ~AllSigned /\ AllSigned' => row'.isCompleted]_vars
  BY LastSignatureStep
<1> QED
  BY <1>1, TypeCorrect, SerialInvariant, PTL DEF Spec, LastSignatureCompletes

-----------------------------------------------------------------------------
(* As long as requests do not overlap, RoundStore implements               *)
(* RoundLifecycle: each command takes effect at once, in its commit.       *)

\* The refinement mapping of RoundStore, by name.
Status == IF ~exists THEN "gone" ELSE IF row.deleted THEN "hidden"
          ELSE IF row.isCompleted THEN "completed" ELSE "open"

Event(r) == IF req[r].op.kind = "complete" THEN "completed" ELSE "deleted"

Due == {<<r, Event(r)>> : r \in {s \in Requests : req[s].pc = "saved"}}

LEMMA Mapping ==
    /\ Status = IF ~exists THEN "gone" ELSE IF row.deleted THEN "hidden"
                ELSE IF row.isCompleted THEN "completed" ELSE "open"
    /\ Due = {<<r, IF req[r].op.kind = "complete" THEN "completed" ELSE "deleted">> :
                r \in {s \in Requests : req[s].pc = "saved"}}
BY DEF Status, Due, Event

\* A step of RoundLifecycle, or one that changes nothing there.
Abstract == Lifecycle!Next \/ UNCHANGED <<Status, players, Signers, scored, Due>>

-----------------------------------------------------------------------------
(* The events that are due. *)

LEMMA DueStays ==
    ASSUME \A r \in Requests : /\ (req[r].pc = "saved") <=> (req'[r].pc = "saved")
                               /\ req[r].pc = "saved" => req'[r].op = req[r].op
    PROVE  Due' = Due
<1>1. {s \in Requests : req[s].pc = "saved"} = {s \in Requests : req'[s].pc = "saved"}
  OBVIOUS
<1>2. \A r \in {s \in Requests : req[s].pc = "saved"} : Event(r)' = Event(r)
  BY DEF Event
<1> QED
  BY <1>1, <1>2 DEF Due

LEMMA FinishKeepsDue ==
    ASSUME TypeOK, NEW p \in Procs, req[p].pc = "loading", Finish(p)
    PROVE  Due' = Due
<1>1. IdleRequest.pc = "idle"
  BY DEF IdleRequest
<1>2. req'[p].pc = "idle" /\ \A q \in Procs : q # p => req'[q] = req[q]
  BY <1>1 DEF Finish, TypeOK
<1> QED
  BY <1>2, Distinct, DueStays

LEMMA SaveAddsDue ==
    ASSUME TypeOK, NEW r \in Requests, req[r].pc = "loading",
           req' = [req EXCEPT ![r].pc = "saved"]
    PROVE  Due' = Due \cup {<<r, Event(r)>>}
<1>1. /\ req'[r].pc = "saved" /\ req'[r].op = req[r].op
      /\ \A q \in Requests : q # r => req'[q] = req[q]
  BY Distinct, ReqType DEF TypeOK, Request
<1>2. {s \in Requests : req'[s].pc = "saved"} = {s \in Requests : req[s].pc = "saved"} \cup {r}
  BY <1>1
<1>3. \A q \in Requests : req'[q].pc = "saved" => Event(q)' = Event(q)
  BY <1>1 DEF Event
<1> QED
  BY <1>2, <1>3 DEF Due

LEMMA PublishSettles ==
    ASSUME TypeOK, NEW r \in Requests, req[r].pc = "saved", Finish(r)
    PROVE  <<r, Event(r)>> \in Due /\ Due' = Due \ {<<r, Event(r)>>}
<1>1. IdleRequest.pc = "idle"
  BY DEF IdleRequest
<1>2. req'[r].pc = "idle" /\ \A q \in Requests : q # r => req'[q] = req[q]
  BY <1>1, Distinct DEF Finish, TypeOK
<1>3. \A q \in Requests : q # r => Event(q)' = Event(q)
  BY <1>2 DEF Event
<1> QED
  BY <1>2, <1>3 DEF Due

-----------------------------------------------------------------------------
(* The commands. *)

\* What a command finds when it commits: a visible round, as it is stored.
LEMMA Visible ==
    ASSUME TypeOK, SerialInv, NEW p \in Procs, req[p].pc = "loading"
    PROVE  /\ exists /\ req[p].row = row /\ ~row.deleted /\ row \in Row
           /\ Status = IF row.isCompleted THEN "completed" ELSE "open"
BY FreshRow DEF TypeOK, Status

LEMMA SameStatus ==
    ASSUME exists' = exists, row'.deleted = row.deleted, row'.isCompleted = row.isCompleted
    PROVE  Status' = Status
BY DEF Status

LEMMA ScoreIsAbstract ==
    ASSUME TypeOK, SerialInv, NEW r \in Requests, UpdatePlayerScore(r)
    PROVE  Abstract
<1> DEFINE u == req[r].op.user
           h == req[r].op.hole
<1>1. r \in Procs /\ req[r].pc = "loading" /\ HasCards(r)
  BY Distinct DEF UpdatePlayerScore, Loaded, HasCards
<1>2. u \in players
  BY <1>1 DEF UpdatePlayerScore, SerialInv, Fresh
<1>3. /\ Status \in {"open", "completed"} /\ Status' = Status
      /\ Signers' = Signers /\ players' = players /\ Due' = Due
  BY <1>1, Visible, SameStatus, FinishKeepsDue DEF UpdatePlayerScore, UpdateRow, Signers
<1>4. scored' = scored \cup {<<u, h>>}
  BY DEF UpdatePlayerScore
<1>5. Lifecycle!Score(u, h)
  BY <1>2, <1>3, <1>4, Mapping DEF Lifecycle!Score, Lifecycle!Visible, Status, Due, Event
<1>6. <<u, h>> \in scored' /\ <<u, h>>[2] = h
  BY <1>4
<1> QED
  BY <1>2, <1>5, <1>6 DEF Abstract, Lifecycle!Next

LEMMA CompleteIsAbstract ==
    ASSUME TypeOK, SerialInv, NEW r \in Requests, CompleteRound(r)
    PROVE  Abstract
<1> DEFINE u == req[r].op.user
<1>1. r \in Procs /\ req[r].pc = "loading" /\ HasCards(r)
  BY Distinct DEF CompleteRound, Loaded, HasCards
<1>2. /\ req[r].players = players /\ req[r].signers = Signers
      /\ req[r].op.kind = "complete" /\ u \in Users
  BY <1>1, ReqType DEF CompleteRound, Loaded, SerialInv, Fresh
<1>3. /\ exists /\ ~row.deleted /\ ~row.isCompleted /\ req[r].row = row /\ row \in Row
      /\ Status = "open"
  BY <1>1, Visible DEF CompleteRound
<1>4. u \in players \ Signers /\ players' = players /\ scored' = scored
  BY <1>2 DEF CompleteRound
<1>5. Signers' = Signers \cup {u}
  BY <1>1, SigningAdds DEF CompleteRound
<1>6. CASE SignRound(r)
  <2>1. players \subseteq Signers'
    BY <1>2, <1>5, <1>6 DEF SignRound
  <2>2. row' = [row EXCEPT !.isCompleted = TRUE] /\ exists'
    BY <1>3, <1>6 DEF CompleteRound, UpdateRow
  <2>3. row'.isCompleted /\ ~row'.deleted
    BY <1>3, <2>2 DEF Row
  <2>4. Status' = "completed"
    BY <2>2, <2>3 DEF Status
  <2>5. Due' = Due \cup {<<r, "completed">>}
    BY <1>1, <1>2, <1>6, SaveAddsDue DEF CompleteRound, Event
  <2>6. Lifecycle!Sign(u, r)
    BY <1>3, <1>4, <1>5, <2>1, <2>4, <2>5, Mapping DEF Lifecycle!Sign, Status, Due, Event
  <2> QED
    BY <1>2, <2>6 DEF Abstract, Lifecycle!Next
<1>7. CASE ~SignRound(r)
  <2>1. ~(players \subseteq Signers')
    BY <1>2, <1>5, <1>7 DEF SignRound
  <2>2. Status' = Status /\ Due' = Due
    BY <1>1, <1>3, <1>7, SameStatus, FinishKeepsDue DEF CompleteRound, UpdateRow
  <2>3. Lifecycle!Sign(u, r)
    BY <1>3, <1>4, <1>5, <2>1, <2>2, Mapping DEF Lifecycle!Sign, Status, Due, Event
  <2> QED
    BY <1>2, <2>3 DEF Abstract, Lifecycle!Next
<1> QED
  BY <1>6, <1>7

LEMMA LeaveIsAbstract ==
    ASSUME TypeOK, SerialInv, NEW r \in Requests, LeaveRound(r)
    PROVE  Abstract
<1> DEFINE u == req[r].op.user
<1>1. r \in Procs /\ req[r].pc = "loading" /\ HasCards(r)
  BY Distinct DEF LeaveRound, Loaded, HasCards
<1>2. req[r].players = players
  BY <1>1 DEF SerialInv, Fresh
<1>3. /\ Status \in {"open", "completed"} /\ Status' = Status
      /\ Signers' = Signers /\ Due' = Due
  BY <1>1, Visible, SameStatus, FinishKeepsDue DEF LeaveRound, UpdateRow, Signers
<1>4. CASE u \in players
  <2>1. players' = players \ {u} /\ scored' = {c \in scored : c[1] # u}
    BY <1>2, <1>4 DEF LeaveRound, RowsOf
  <2>2. Lifecycle!Leave(u)
    BY <1>3, <1>4, <2>1, Mapping DEF Lifecycle!Leave, Lifecycle!Visible, Status, Due, Event
  <2> QED
    BY <1>4, <2>2 DEF Abstract, Lifecycle!Next
<1>5. CASE u \notin players
  BY <1>2, <1>3, <1>5 DEF LeaveRound, Abstract
<1> QED
  BY <1>4, <1>5

LEMMA DeleteHoleIsAbstract ==
    ASSUME TypeOK, NoOrphanRows, SerialInv, NEW r \in Requests, DeleteHole(r)
    PROVE  Abstract
<1> DEFINE h == req[r].op.hole
<1>1. r \in Procs /\ req[r].pc = "loading" /\ HasCards(r)
  BY Distinct DEF DeleteHole, Loaded, HasCards
<1>2. req[r].cards = cards
  BY <1>1 DEF SerialInv, Fresh
<1>3. /\ Status \in {"open", "completed"} /\ Status' = Status
      /\ Signers' = Signers /\ players' = players /\ Due' = Due
  BY <1>1, Visible, SameStatus, FinishKeepsDue DEF DeleteHole, UpdateRow, Signers
<1>4. scored' = {c \in scored : c[2] # h}
  BY <1>2 DEF DeleteHole, NoOrphanRows
<1>5. CASE \E c \in scored : c[2] = h
  <2>1. PICK c \in scored : c[2] = h
    BY <1>5
  <2>2. Lifecycle!DropHole(c[2])
    BY <1>3, <1>4, <2>1, Mapping DEF Lifecycle!DropHole, Lifecycle!Visible, Status, Due, Event
  <2> QED
    BY <2>2 DEF Abstract, Lifecycle!Next
<1>6. CASE \A c \in scored : c[2] # h
  BY <1>3, <1>4, <1>6 DEF Abstract
<1> QED
  BY <1>5, <1>6

LEMMA DeleteIsAbstract ==
    ASSUME TypeOK, SerialInv, NEW r \in Requests, DeleteRound(r)
    PROVE  Abstract
<1>1. r \in Procs /\ req[r].pc = "loading" /\ req[r].op.kind = "delete"
  BY Distinct DEF DeleteRound, Loaded
<1>2. Status \in {"open", "completed"} /\ Status' = "gone"
  BY <1>1, Visible DEF DeleteRound, Status
<1>3. players' = {} /\ scored' = {} /\ Signers' = {}
  BY DEF DeleteRound, Signers
<1>4. Due' = Due \cup {<<r, "deleted">>}
  BY <1>1, SaveAddsDue DEF DeleteRound, Event
<1>5. Lifecycle!Delete(r)
  BY <1>2, <1>3, <1>4, Mapping DEF Lifecycle!Delete, Lifecycle!Visible, Status, Due, Event
<1> QED
  BY <1>5 DEF Abstract, Lifecycle!Next

\* Commands RoundLifecycle does not know: they leave its state alone.
LEMMA OtherIsAbstract ==
    ASSUME TypeOK, SerialInv, NEW r \in Requests,
           \/ AddHole(r) \/ SaveCourse(r) \/ EvaluateRound(r)
           \/ SpectatorJoined(r) \/ SpectatorLeft(r)
    PROVE  Abstract
<1>1. r \in Procs /\ req[r].pc = "loading" /\ Finish(r)
  BY Distinct DEF AddHole, SaveCourse, EvaluateRound, SpectatorJoined, SpectatorLeft, Loaded
<1>2. req[r].row = row /\ row \in Row /\ Due' = Due
  BY <1>1, Visible, FinishKeepsDue
<1>3. UNCHANGED <<exists, players, signatures, scored>>
  BY DEF AddHole, SaveCourse, EvaluateRound, SpectatorJoined, SpectatorLeft, UpdateRow
<1>4. row'.deleted = row.deleted /\ row'.isCompleted = row.isCompleted
  <2>1. CASE SpectatorJoined(r)
    <3>1. row' = [row EXCEPT !.spectators = @ \cup {req[r].op.user}]
      BY <1>2, <2>1 DEF SpectatorJoined, UpdateRow
    <3> QED
      BY <1>2, <3>1 DEF Row
  <2>2. CASE SpectatorLeft(r)
    <3>1. row' = [row EXCEPT !.spectators = @ \ {req[r].op.user}]
      BY <1>2, <2>2 DEF SpectatorLeft, UpdateRow
    <3> QED
      BY <1>2, <3>1 DEF Row
  <2>3. CASE AddHole(r) \/ SaveCourse(r) \/ EvaluateRound(r)
    BY <1>2, <2>3 DEF AddHole, SaveCourse, EvaluateRound, UpdateRow
  <2> QED
    BY <2>1, <2>2, <2>3
<1> QED
  BY <1>2, <1>3, <1>4, SameStatus DEF Abstract, Signers

LEMMA CleanUpIsAbstract ==
    ASSUME TypeOK, SerialInv, CleanUp
    PROVE  Abstract
<1>1. Worker \in Procs /\ req[Worker].pc = "loading" /\ Finish(Worker)
  BY Distinct DEF CleanUp, Loaded
<1>2. /\ exists /\ req[Worker].row = row /\ row \in Row
      /\ ~row.deleted /\ ~row.isCompleted /\ Status = "open"
  BY <1>1, Visible DEF SerialInv, Fresh
<1>3. exists' /\ Due' = Due /\ UNCHANGED <<players, signatures, scored>>
  BY <1>1, FinishKeepsDue DEF CleanUp, UpdateRow
<1>4. \/ row' = [row EXCEPT !.deleted = TRUE]
      \/ row' = [row EXCEPT !.isCompleted = TRUE]
  BY <1>2 DEF CleanUp, UpdateRow
<1>5. row'.deleted \/ row'.isCompleted
  BY <1>2, <1>4 DEF Row
<1>6. Status' \in {"completed", "hidden"}
  BY <1>3, <1>5 DEF Status
<1>7. Lifecycle!Expire
  BY <1>2, <1>3, <1>6, Mapping DEF Lifecycle!Expire, Status, Due, Event, Signers
<1> QED
  BY <1>7 DEF Abstract, Lifecycle!Next

LEMMA PublishIsAbstract ==
    ASSUME TypeOK, SerialInv, NEW p \in Procs, Publish(p) \/ Crash(p)
    PROVE  Abstract
<1>1. /\ req[p].pc = "saved" /\ Finish(p)
      /\ UNCHANGED <<exists, row, players, signatures, scored>>
  BY DEF Publish, Crash
<1>2. p \in Requests
  BY <1>1 DEF SerialInv, WorkerOK, Procs
<1>3. PICK d \in Due : Due' = Due \ {d}
  BY <1>1, <1>2, PublishSettles
<1>4. Status' = Status /\ Signers' = Signers
  BY <1>1 DEF Status, Signers
<1>5. Lifecycle!Settle(d)
  BY <1>1, <1>3, <1>4, Mapping DEF Lifecycle!Settle, Status, Due, Event
<1>6. \E e \in Due : Lifecycle!Settle(e)
  BY <1>3, <1>5
<1> QED
  BY <1>6, Mapping DEF Abstract, Lifecycle!Next, Due, Event

-----------------------------------------------------------------------------
\* Reading, waiting and giving up change nothing RoundLifecycle knows of.
LEMMA QuietIsAbstract ==
    ASSUME TypeOK, NEW p \in Procs, NEW x, req' = [req EXCEPT ![p] = x],
           req[p].pc # "saved", x.pc # "saved",
           UNCHANGED <<exists, row, players, signatures, scored>>
    PROVE  Abstract
<1>1. req'[p] = x /\ \A q \in Procs : q # p => req'[q] = req[q]
  BY DEF TypeOK
<1>2. Due' = Due
  BY <1>1, Distinct, DueStays
<1> QED
  BY <1>2 DEF Abstract, Status, Signers

LEMMA StepIsAbstract ==
    ASSUME TypeOK, NoOrphanRows, SerialInv, [Next]_vars
    PROVE  Abstract
<1>1. ASSUME NEW p \in Procs, NEW op, ReadRow(p, op) PROVE Abstract
  <2> DEFINE x == [IdleRequest EXCEPT !.pc = "loading", !.op = op, !.row = row,
                                      !.pending = LooksAt(op.kind)]
  <2>1. x.pc = "loading"
    BY DEF IdleRequest
  <2>2. /\ req' = [req EXCEPT ![p] = x] /\ req[p].pc = "idle"
        /\ UNCHANGED <<exists, row, players, signatures, scored>>
    BY <1>1 DEF ReadRow
  <2> HIDE DEF x
  <2> QED
    BY <2>1, <2>2, QuietIsAbstract
<1>2. ASSUME NEW p \in Procs, ReadSignatures(p) PROVE Abstract
  <2> DEFINE x == [req[p] EXCEPT !.pending = @ \ {"signatures"}, !.signers = Signers]
  <2>1. /\ req' = [req EXCEPT ![p] = x]
        /\ UNCHANGED <<exists, row, players, signatures, scored>>
    BY <1>2 DEF ReadSignatures
  <2>2. x.pc = req[p].pc /\ x.op = req[p].op
    BY ReqType DEF Request
  <2>3. req'[p] = x /\ \A q \in Procs : q # p => req'[q] = req[q]
    BY <2>1 DEF TypeOK
  <2> HIDE DEF x
  <2>4. Due' = Due
    BY <2>2, <2>3, Distinct, DueStays
  <2> QED
    BY <2>1, <2>4 DEF Abstract, Status, Signers
<1>3. ASSUME NEW p \in Procs, ReadCards(p) PROVE Abstract
  <2> DEFINE x == [req[p] EXCEPT !.pending = @ \ {"cards"}, !.players = players,
                                 !.cards = cards,
                                 !.scored = IF p = Worker THEN scored ELSE {}]
  <2>1. /\ req' = [req EXCEPT ![p] = x]
        /\ UNCHANGED <<exists, row, players, signatures, scored>>
    BY <1>3 DEF ReadCards
  <2>2. x.pc = req[p].pc /\ x.op = req[p].op
    BY ReqType DEF Request
  <2>3. req'[p] = x /\ \A q \in Procs : q # p => req'[q] = req[q]
    BY <2>1 DEF TypeOK
  <2> HIDE DEF x
  <2>4. Due' = Due
    BY <2>2, <2>3, Distinct, DueStays
  <2> QED
    BY <2>1, <2>4 DEF Abstract, Status, Signers
<1>4. ASSUME NEW p \in Procs, Abort(p) PROVE Abstract
  <2>1. IdleRequest.pc = "idle"
    BY DEF IdleRequest
  <2> QED
    BY <1>4, <2>1, QuietIsAbstract DEF Abort
<1>5. ASSUME NEW r \in Requests, Command(r) PROVE Abstract
  BY <1>5, ScoreIsAbstract, CompleteIsAbstract, LeaveIsAbstract, DeleteIsAbstract,
     DeleteHoleIsAbstract, OtherIsAbstract DEF Command
<1>6. ASSUME NEW p \in Procs, Publish(p) \/ Crash(p) PROVE Abstract
  BY <1>6, PublishIsAbstract
<1>7. ASSUME NEW r \in Requests, NEW op, Send(r, op) PROVE Abstract
  BY <1>1, <1>7, Distinct DEF Send
<1>8. CASE WorkerWakes
  BY <1>1, <1>8, Distinct DEF WorkerWakes
<1>9. CASE TwoDaysPass \/ UNCHANGED vars
  <2>1. UNCHANGED <<exists, row, players, signatures, scored, req>>
    BY <1>9 DEF TwoDaysPass, vars
  <2> QED
    BY <2>1 DEF Abstract, Status, Signers, Due, Event
<1> QED
  BY <1>2, <1>3, <1>4, <1>5, <1>6, <1>7, <1>8, <1>9, CleanUpIsAbstract DEF Next, Read

LEMMA InitIsAbstract == Init => Lifecycle!Init
<1> SUFFICES ASSUME Init PROVE Lifecycle!Init
  OBVIOUS
<1>1. \A p \in Procs : req[p].pc = "idle"
  BY DEF Init, IdleRequest
<1>2. Due = {} /\ Signers = {}
  BY <1>1, Distinct DEF Due, Signers, Init
<1>3. Status = "open" /\ players \subseteq Users /\ scored = {}
  BY DEF Init, Status, NewRow
<1> QED
  BY <1>2, <1>3, Mapping DEF Lifecycle!Init, Status, Due, Event

\* As long as requests do not overlap, every command of the Rounds component
\* takes effect at once, whatever it loads, writes back or fails to publish.
THEOREM CommandsFollowLifecycle ==
    ASSUME ~Concurrent PROVE Spec => ImplementsLifecycle
<1>1. TypeOK /\ NoOrphanRows /\ SerialInv /\ [Next]_vars => [Lifecycle!Next]_(Lifecycle!vars)
  BY StepIsAbstract, Mapping DEF Abstract, Lifecycle!vars, Status, Due, Event
<1> QED
  BY <1>1, InitIsAbstract, TypeCorrect, NoOrphans, SerialInvariant, PTL
  DEF Spec, ImplementsLifecycle, Lifecycle!Spec
=============================================================================
