--------------------------- MODULE LiveClientProofs ---------------------------
(***************************************************************************)
(* Proofs about LiveClient, for any number of players and holes, any       *)
(* number of requests, and whatever overlaps or is lost.                   *)
(***************************************************************************)
EXTENDS LiveClient, FiniteSetTheorems, SequenceTheorems, WellFoundedInduction, TLAPS

USE LiveClientAssumption

-----------------------------------------------------------------------------
(* Holes and places in the list *)

LEMMA MinIsLeast ==
    ASSUME NEW T \in SUBSET Nat, T # {}
    PROVE  Min(T) \in T /\ \A y \in T : Min(T) <= y
<1>1. IsWellFoundedOn(OpToRel(<, Nat), Nat)
  BY NatLessThanWellFounded
<1>2. PICK x \in T : \A y \in T : <<y, x>> \notin OpToRel(<, Nat)
  BY <1>1, WFMin
<1>3. ASSUME NEW y \in T PROVE x <= y
  <2>1. <<y, x>> \in OpToRel(<, Nat) <=> y < x
    BY DEF OpToRel
  <2>2. x \in Nat /\ y \in Nat /\ ~(y < x)
    BY <1>2, <2>1
  <2> QED
    BY <2>2
<1>4. \E z \in T : \A y \in T : z <= y
  BY <1>3
<1> QED
  BY <1>4 DEF Min

LEMMA HoleAtType ==
    ASSUME NEW r \in Round, NEW i \in Holes
    PROVE  HoleAt(r, i) \in Holes /\ (r.offset = 0 => HoleAt(r, i) = i)
<1>1. r.offset \in 0..(NumHoles - 1) /\ i \in 0..(NumHoles - 1)
  BY DEF Round, Holes
<1> QED
  BY <1>1 DEF HoleAt, Holes

LEMMA IndexOfType ==
    ASSUME NEW r \in Round, NEW h \in Holes
    PROVE  IndexOf(r, h) \in Holes /\ HoleAt(r, IndexOf(r, h)) = h
<1>1. r.offset \in 0..(NumHoles - 1) /\ h \in 0..(NumHoles - 1)
  BY DEF Round, Holes
<1>2. CASE h < r.offset
  <2>1. IndexOf(r, h) = h + NumHoles - r.offset
    BY <1>1, <1>2 DEF IndexOf
  <2>2. r.offset + IndexOf(r, h) = h + NumHoles
    BY <1>1, <2>1
  <2>3. (h + NumHoles) % NumHoles = h
    BY <1>1
  <2> QED
    BY <1>1, <1>2, <2>1, <2>2, <2>3 DEF HoleAt, Holes
<1>3. CASE h >= r.offset
  <2>1. IndexOf(r, h) = h - r.offset
    BY <1>1, <1>3 DEF IndexOf
  <2>2. r.offset + IndexOf(r, h) = h /\ IndexOf(r, h) \in Holes
    BY <1>1, <1>3, <2>1 DEF Holes
  <2>3. h % NumHoles = h
    BY <1>1
  <2> QED
    BY <2>2, <2>3 DEF HoleAt
<1> QED
  BY <1>1, <1>2, <1>3

LEMMA FirstOpenType ==
    ASSUME NEW r \in Round, NEW p \in Players, r.card[p] # Holes
    PROVE  FirstOpen(r, p) \in Holes
<1> DEFINE T == {i \in Holes : HoleAt(r, i) \notin r.card[p]}
<1>1. PICK h \in Holes : h \notin r.card[p]
  BY DEF Round
<1>2. IndexOf(r, h) \in T
  BY <1>1, IndexOfType
<1>3. T \in SUBSET Nat /\ T # {}
  BY <1>2 DEF Holes
<1>4. Min(T) \in Holes
  BY <1>3, MinIsLeast
<1> QED
  BY <1>4, HoleAtType DEF FirstOpen

LEMMA NextType ==
    ASSUME NEW r \in Round
    PROVE  /\ NextUncompleted(r) \in Holes
           /\ \A p \in Players : NextPersonal(r, p) \in Holes
<1>1. NumHoles - 1 \in Holes
  BY DEF Holes
<1>2. ASSUME NEW p \in Players PROVE NextPersonal(r, p) \in Holes
  BY <1>1, FirstOpenType, IndexOfType DEF NextPersonal
<1>3. NextUncompleted(r) \in Holes
  <2> DEFINE open == {p \in Players : r.card[p] # Holes}
             firsts == {FirstOpen(r, p) : p \in open}
  <2>1. CASE open = {}
    BY <1>1, <2>1 DEF NextUncompleted
  <2>2. CASE open # {}
    <3>1. firsts # {} /\ firsts \subseteq Holes
      BY <2>2, FirstOpenType
    <3>2. firsts \in SUBSET Nat
      BY <3>1 DEF Holes
    <3>3. Min(firsts) \in Holes
      BY <3>1, <3>2, MinIsLeast
    <3> QED
      BY <2>2, <3>3, IndexOfType DEF NextUncompleted
  <2> QED
    BY <2>1, <2>2
<1> QED
  BY <1>2, <1>3

-----------------------------------------------------------------------------
(* Types *)

Live == [kind : Kinds, phase : Phases, index : Holes, hole : Holes, copy : Copy]

\* What a request carries: the round it has loaded, or that there is none.
CarriesCopy(q) ==
    /\ q.phase = "loaded" => q.copy \in Round
    /\ q.phase \in {"saved", "answered"} =>
         IF q.kind = "delete" THEN q.copy = Gone ELSE q.copy \in Round

ReqOK(q) == q = Idle \/ (q \in Live /\ CarriesCopy(q))

LiveType ==
    /\ card \in [Players -> SUBSET Holes] /\ signed \subseteq Players
    /\ completed \in BOOLEAN /\ deleted \in BOOLEAN /\ calm \in BOOLEAN
    /\ view \in [Players -> Round \cup {NoRound}] /\ index \in [Players -> Holes]
    /\ req \in [Players -> {Idle} \cup Live]
    /\ \A p \in Players : ReqOK(req[p])
    /\ inbox \in [Players -> Seq(Round \cup {Gone})]
    /\ sent \in Nat
    /\ entered \in [Players -> SUBSET Holes] /\ saved \in [Players -> SUBSET Holes]
    /\ wandered \in [Players -> BOOLEAN]

LEMMA ZeroIsHole == 0 \in Holes
BY DEF Holes

LEMMA IdleIsNotLive == Idle \notin Live /\ Idle.kind = "idle" /\ \A q \in Live : q.kind # "idle"
BY DEF Idle, Live, Kinds

LEMMA NoRoundFacts ==
    /\ ~NoRound.there /\ NoRound \notin Round /\ Gone \notin Round
    /\ \A r \in Round : r.there
BY DEF NoRound, Gone, Round

LEMMA StoredIsRound == ASSUME LiveType PROVE Stored \in Round
BY ZeroIsHole DEF LiveType, Stored, Round

LEMMA Fields ==
    ASSUME NEW q \in Live
    PROVE  /\ q.kind \in Kinds /\ q.phase \in Phases /\ q.index \in Holes
           /\ q.hole \in Holes /\ q.copy \in Copy
BY DEF Live

LEMMA AtFacts ==
    ASSUME LiveType, NEW p \in Players, NEW phase, NEW kinds, At(p, phase, kinds)
    PROVE  /\ req[p] \in Live /\ CarriesCopy(req[p])
           /\ req[p].phase = phase /\ req[p].kind \in kinds
BY DEF LiveType, At, ReqOK

\* The request of one player changes.
LEMMA ReqChanges ==
    ASSUME LiveType, NEW p \in Players, NEW x, ReqOK(x), req' = [req EXCEPT ![p] = x]
    PROVE  /\ req' \in [Players -> {Idle} \cup Live]
           /\ \A q \in Players : ReqOK(req'[q])
           /\ req'[p] = x /\ \A q \in Players : q # p => req'[q] = req[q]
<1>1. x \in {Idle} \cup Live
  BY DEF ReqOK
<1> QED
  BY <1>1 DEF LiveType

LEMMA AskOK ==
    ASSUME NEW kind \in Kinds, NEW i \in Holes, NEW h \in Holes
    PROVE  /\ Request(kind, i, h) \in Live /\ ReqOK(Request(kind, i, h))
           /\ Request(kind, i, h).kind = kind /\ Request(kind, i, h).phase = "sent"
           /\ Request(kind, i, h).index = i /\ Request(kind, i, h).hole = h
           /\ Request(kind, i, h).copy = NoRound
BY DEF Request, Live, ReqOK, CarriesCopy, Phases, Copy

\* A request gets on by a phase.
LEMMA ProceedOK ==
    ASSUME LiveType, NEW p \in Players, req[p] \in Live, NEW phase \in Phases, NEW copy \in Copy,
           Proceed(p, phase, copy),
           phase \in {"loaded", "answered", "saved"},
           IF phase # "loaded" /\ req[p].kind = "delete" THEN copy = Gone ELSE copy \in Round
    PROVE  /\ req' \in [Players -> {Idle} \cup Live]
           /\ \A q \in Players : ReqOK(req'[q])
           /\ \A q \in Players : q # p => req'[q] = req[q]
           /\ req'[p] \in Live /\ req'[p].kind = req[p].kind
           /\ req'[p].phase = phase /\ req'[p].copy = copy
           /\ req'[p].index = req[p].index /\ req'[p].hole = req[p].hole
<1> DEFINE x == [req[p] EXCEPT !.phase = phase, !.copy = copy]
<1>1. req' = [req EXCEPT ![p] = x]
  BY DEF Proceed, LiveType
<1>2. /\ x \in Live /\ x.kind = req[p].kind /\ x.phase = phase /\ x.copy = copy
      /\ x.index = req[p].index /\ x.hole = req[p].hole
  BY DEF Live
<1> HIDE DEF x
<1>3. ReqOK(x)
  BY <1>2 DEF ReqOK, CarriesCopy
<1> QED
  BY <1>1, <1>2, <1>3, ReqChanges

LEMMA ReceivedOK ==
    ASSUME LiveType, NEW p \in Players, inbox[p] # <<>>, inbox' = [inbox EXCEPT ![p] = Tail(@)]
    PROVE  /\ Head(inbox[p]) \in Round \cup {Gone}
           /\ inbox' \in [Players -> Seq(Round \cup {Gone})]
<1>1. inbox[p] \in Seq(Round \cup {Gone})
  BY DEF LiveType
<1>2. Head(inbox[p]) \in Round \cup {Gone} /\ Tail(inbox[p]) \in Seq(Round \cup {Gone})
  BY <1>1, HeadTailProperties
<1> QED
  BY <1>2 DEF LiveType

\* Every step keeps the types.
LEMMA TypeStep == ASSUME LiveType, [Next]_vars PROVE LiveType'
<1> USE DEF stored, client, history
<1>1. ASSUME NEW p \in Players, OpenPage(p) PROVE LiveType'
  <2>1. ReqOK(Request("fetch", 0, 0))
    BY AskOK, ZeroIsHole DEF Kinds
  <2>2. /\ req' = [req EXCEPT ![p] = Request("fetch", 0, 0)] /\ sent' = sent + 1
        /\ view' = [view EXCEPT ![p] = NoRound] /\ index' = [index EXCEPT ![p] = 0]
        /\ wandered' = [wandered EXCEPT ![p] = FALSE]
        /\ UNCHANGED <<stored, inbox, calm, history>>
    BY <1>1 DEF OpenPage, Ask, Shows, GoesTo
  <2>3. req' \in [Players -> {Idle} \cup Live] /\ \A q \in Players : ReqOK(req'[q])
    BY <2>1, <2>2, ReqChanges
  <2>4. /\ view' \in [Players -> Round \cup {NoRound}] /\ index' \in [Players -> Holes]
        /\ wandered' \in [Players -> BOOLEAN] /\ sent' \in Nat
    BY <2>2, ZeroIsHole DEF LiveType
  <2> QED
    BY <2>2, <2>3, <2>4 DEF LiveType
<1>2. ASSUME NEW p \in Players, SetScore(p) PROVE LiveType'
  <2> DEFINE h == HoleAt(view[p], index[p])
  <2>1. view[p] \in Round /\ index[p] \in Holes
    BY <1>2, NoRoundFacts DEF SetScore, LiveType
  <2>2. h \in Holes
    BY <2>1, HoleAtType
  <2> HIDE DEF h
  <2>3. ReqOK(Request("score", index[p], h))
    BY <2>1, <2>2, AskOK DEF Kinds
  <2>4. /\ req' = [req EXCEPT ![p] = Request("score", index[p], h)] /\ sent' = sent + 1
        /\ entered' = [entered EXCEPT ![p] = @ \cup {h}]
        /\ UNCHANGED <<stored, client, inbox, calm, saved>>
    BY <1>2 DEF SetScore, Ask, h
  <2>5. entered' \in [Players -> SUBSET Holes]
    BY <2>2, <2>4 DEF LiveType
  <2>6. req' \in [Players -> {Idle} \cup Live] /\ \A q \in Players : ReqOK(req'[q])
    BY <2>3, <2>4, ReqChanges
  <2> QED
    BY <2>4, <2>5, <2>6 DEF LiveType
<1>3. ASSUME NEW p \in Players, CompleteRound(p) PROVE LiveType'
  <2>1. ReqOK(Request("complete", 0, 0))
    BY AskOK, ZeroIsHole DEF Kinds
  <2>2. /\ req' = [req EXCEPT ![p] = Request("complete", 0, 0)] /\ sent' = sent + 1
        /\ UNCHANGED <<stored, client, inbox, calm, history>>
    BY <1>3 DEF CompleteRound, Ask
  <2>3. req' \in [Players -> {Idle} \cup Live] /\ \A q \in Players : ReqOK(req'[q])
    BY <2>1, <2>2, ReqChanges
  <2> QED
    BY <2>2, <2>3 DEF LiveType
<1>4. ASSUME NEW p \in Players, DeleteRound(p) PROVE LiveType'
  <2>1. ReqOK(Request("delete", 0, 0))
    BY AskOK, ZeroIsHole DEF Kinds
  <2>2. /\ req' = [req EXCEPT ![p] = Request("delete", 0, 0)] /\ sent' = sent + 1
        /\ UNCHANGED <<stored, client, inbox, calm, history>>
    BY <1>4 DEF DeleteRound, Ask
  <2>3. req' \in [Players -> {Idle} \cup Live] /\ \A q \in Players : ReqOK(req'[q])
    BY <2>1, <2>2, ReqChanges
  <2> QED
    BY <2>2, <2>3 DEF LiveType
<1>5. ASSUME NEW p \in Players, SetActiveHole(p) PROVE LiveType'
  <2>1. PICK i \in Holes : index' = [index EXCEPT ![p] = i]
    BY <1>5 DEF SetActiveHole, GoesTo
  <2>2. /\ wandered' = [wandered EXCEPT ![p] = TRUE]
        /\ UNCHANGED <<stored, view, req, inbox, sent, calm, history>>
    BY <1>5 DEF SetActiveHole
  <2>3. index' \in [Players -> Holes] /\ wandered' \in [Players -> BOOLEAN]
    BY <2>1, <2>2 DEF LiveType
  <2> QED
    BY <2>2, <2>3 DEF LiveType
<1>6. ASSUME NEW p \in Players, Load(p) PROVE LiveType'
  <2> DEFINE phase == IF req[p].kind = "fetch" THEN "answered" ELSE "loaded"
  <2>1. req[p] \in Live
    BY <1>6, AtFacts DEF Load
  <2>2. Stored \in Round /\ Stored \in Copy
    BY StoredIsRound DEF Copy
  <2>3. /\ phase \in {"loaded", "answered", "saved"} /\ phase \in Phases
        /\ phase # "loaded" => req[p].kind # "delete"
    BY DEF Phases
  <2>4. Proceed(p, phase, Stored) /\ UNCHANGED <<stored, client, inbox, sent, calm, history>>
    BY <1>6 DEF Load
  <2> HIDE DEF phase
  <2> QED
    BY <2>1, <2>2, <2>3, <2>4, ProceedOK DEF LiveType
<1>7. ASSUME NEW p \in Players, SaveScore(p) PROVE LiveType'
  <2> DEFINE h == HoleAt(req[p].copy, req[p].index)
             new == [req[p].copy EXCEPT !.card[p] = @ \cup {h}]
             next == IF Rotates(new) THEN [new EXCEPT !.offset = req[p].index] ELSE new
  <2>1. /\ req[p] \in Live /\ req[p].copy \in Round /\ req[p].index \in Holes
        /\ req[p].kind = "score"
    BY <1>7, AtFacts, Fields DEF SaveScore, CarriesCopy
  <2>2. h \in Holes
    BY <2>1, HoleAtType
  <2>3. /\ card' = [card EXCEPT ![p] = @ \cup {h}] /\ completed' = req[p].copy.completed
        /\ Proceed(p, "saved", next)
        /\ UNCHANGED <<signed, deleted, client, inbox, sent, calm, history>>
    BY <1>7 DEF SaveScore
  <2> HIDE DEF h
  <2>4. new \in Round
    BY <2>1, <2>2 DEF Round
  <2> HIDE DEF new
  <2>5. next \in Round
    BY <2>1, <2>4 DEF Round
  <2> HIDE DEF next
  <2>6. next \in Copy
    BY <2>5 DEF Copy
  <2>7. card' \in [Players -> SUBSET Holes] /\ completed' \in BOOLEAN
    BY <2>1, <2>2, <2>3 DEF LiveType, Round
  <2>8. req' \in [Players -> {Idle} \cup Live] /\ \A q \in Players : ReqOK(req'[q])
    BY <2>1, <2>3, <2>5, <2>6, ProceedOK DEF Phases
  <2> QED
    BY <2>3, <2>7, <2>8 DEF LiveType
<1>8. ASSUME NEW p \in Players, SaveSignature(p) PROVE LiveType'
  <2> DEFINE copy == req[p].copy
             new == [copy EXCEPT !.signed = @ \cup {p},
                                 !.completed = Players \subseteq copy.signed \cup {p}]
  <2>1. /\ req[p] \in Live /\ copy \in Round /\ req[p].kind = "complete"
        /\ UNCHANGED <<client, inbox, sent, calm, history>>
    BY <1>8, AtFacts DEF SaveSignature, CarriesCopy
  <2>2. new \in Round /\ new.completed \in BOOLEAN
    BY <2>1 DEF Round
  <2>3. new \in Copy /\ copy \in Copy
    BY <2>1, <2>2 DEF Copy
  <2>4. CASE Proceed(p, "answered", copy) /\ UNCHANGED stored
    <3>1. req' \in [Players -> {Idle} \cup Live] /\ \A q \in Players : ReqOK(req'[q])
      BY <2>1, <2>3, <2>4, ProceedOK DEF Phases
    <3> QED
      BY <2>1, <2>4, <3>1 DEF LiveType
  <2>5. CASE /\ signed' = signed \cup {p} /\ completed' = new.completed
             /\ Proceed(p, "saved", new) /\ UNCHANGED <<card, deleted>>
    <3> HIDE DEF new
    <3>1. req' \in [Players -> {Idle} \cup Live] /\ \A q \in Players : ReqOK(req'[q])
      BY <2>1, <2>2, <2>3, <2>5, ProceedOK DEF Phases
    <3> QED
      BY <2>1, <2>2, <2>5, <3>1 DEF LiveType
  <2> QED
    BY <1>8, <2>4, <2>5 DEF SaveSignature
<1>9. ASSUME NEW p \in Players, SaveDelete(p) PROVE LiveType'
  <2>1. req[p] \in Live /\ req[p].kind = "delete"
    BY <1>9, AtFacts DEF SaveDelete
  <2>2. Gone \in Copy
    BY DEF Copy
  <2>3. req' \in [Players -> {Idle} \cup Live] /\ \A q \in Players : ReqOK(req'[q])
    BY <1>9, <2>1, <2>2, ProceedOK DEF SaveDelete, Phases
  <2> QED
    BY <1>9, <2>3 DEF SaveDelete, LiveType
<1>10. ASSUME NEW p \in Players, Push(p) PROVE LiveType'
  <2>1. req[p] \in Live /\ CarriesCopy(req[p]) /\ req[p].phase = "saved"
    BY <1>10, AtFacts DEF Push
  <2>2. req[p].copy \in Copy /\ req[p].copy \in Round \cup {Gone}
    BY <2>1, Fields DEF CarriesCopy
  <2>3. IF req[p].kind = "delete" THEN req[p].copy = Gone ELSE req[p].copy \in Round
    BY <2>1 DEF CarriesCopy
  <2>4. Proceed(p, "answered", req[p].copy) /\ UNCHANGED <<stored, client, sent, calm, history>>
    BY <1>10 DEF Push
  <2>5. req' \in [Players -> {Idle} \cup Live] /\ \A q \in Players : ReqOK(req'[q])
    BY <2>1, <2>2, <2>3, <2>4, ProceedOK DEF Phases
  <2>6. ASSUME NEW q \in Players
        PROVE  Append(inbox[q], req[p].copy) \in Seq(Round \cup {Gone})
    BY <2>2 DEF LiveType
  <2>7. inbox' \in [Players -> Seq(Round \cup {Gone})]
    BY <1>10, <2>6 DEF Push, LiveType
  <2> QED
    BY <2>4, <2>5, <2>7 DEF LiveType
<1>11. ASSUME NEW p \in Players, Fail(p) PROVE LiveType'
  BY <1>11, ReqChanges DEF Fail, ReqOK, LiveType
<1>12. ASSUME NEW p \in Players, ShowAnswer(p) PROVE LiveType'
  <2>1. req[p] \in Live /\ req[p].copy \in Round /\ req[p].hole \in Holes
    BY <1>12, AtFacts, Fields DEF ShowAnswer, CarriesCopy
  <2>2. NextUncompleted(req[p].copy) \in Holes
    BY <2>1, NextType
  <2>3. req' \in [Players -> {Idle} \cup Live] /\ \A q \in Players : ReqOK(req'[q])
    BY <1>12, ReqChanges DEF ShowAnswer, Answered, ReqOK
  <2>4. saved' \in [Players -> SUBSET Holes]
    BY <1>12, <2>1 DEF ShowAnswer, LiveType
  <2> QED
    BY <1>12, <2>1, <2>2, <2>3, <2>4 DEF ShowAnswer, Answered, Shows, GoesTo, LiveType
<1>13. ASSUME NEW p \in Players, ShowCompleted(p) PROVE LiveType'
  <2>1. req' \in [Players -> {Idle} \cup Live] /\ \A q \in Players : ReqOK(req'[q])
    BY <1>13, ReqChanges DEF ShowCompleted, Answered, ReqOK
  <2>2. ASSUME view[p].there
        PROVE  view[p] \in Round /\ [view[p] EXCEPT !.completed = TRUE] \in Round
    <3>1. view[p] \in Round
      BY <2>2, NoRoundFacts DEF LiveType
    <3> QED
      BY <3>1 DEF Round
  <2>3. view' \in [Players -> Round \cup {NoRound}]
    BY <1>13, <2>2 DEF ShowCompleted, Shows, LiveType
  <2> QED
    BY <1>13, <2>1, <2>3 DEF ShowCompleted, Answered, LiveType
<1>14. ASSUME NEW p \in Players, ShowNone(p) PROVE LiveType'
  BY <1>14, ReqChanges DEF ShowNone, Answered, Shows, ReqOK, LiveType
<1>15. ASSUME NEW p \in Players, RoundUpdated(p) PROVE LiveType'
  <2>1. /\ inbox[p] # <<>> /\ Head(inbox[p]) # Gone
        /\ inbox' = [inbox EXCEPT ![p] = Tail(@)]
    BY <1>15 DEF RoundUpdated, Received
  <2>2. Head(inbox[p]) \in Round /\ inbox' \in [Players -> Seq(Round \cup {Gone})]
    BY <2>1, ReceivedOK
  <2>3. NextUncompleted(Head(inbox[p])) \in Holes
    BY <2>2, NextType
  <2> QED
    BY <1>15, <2>2, <2>3 DEF RoundUpdated, Received, Shows, GoesTo, LiveType
<1>16. ASSUME NEW p \in Players, RoundDeleted(p) PROVE LiveType'
  BY <1>16, ReceivedOK DEF RoundDeleted, Received, Shows, LiveType
<1>17. ASSUME NEW p \in Players, LosePush(p) PROVE LiveType'
  BY <1>17, ReceivedOK DEF LosePush, LiveType
<1>18. CASE UNCHANGED vars
  BY <1>18 DEF vars, LiveType
<1> QED
  BY <1>1, <1>2, <1>3, <1>4, <1>5, <1>6, <1>7, <1>8, <1>9, <1>10, <1>11, <1>12, <1>13,
     <1>14, <1>15, <1>16, <1>17, <1>18 DEF Next

LEMMA LiveTypeInvariant == Spec => []LiveType
<1>1. ASSUME Init PROVE LiveType
  <2>1. <<>> \in Seq(Round \cup {Gone})
    BY EmptySeq
  <2>2. inbox \in [Players -> Seq(Round \cup {Gone})]
    BY <1>1, <2>1 DEF Init
  <2>3. /\ req \in [Players -> {Idle} \cup Live]
        /\ \A p \in Players : ReqOK(req[p])
    BY <1>1 DEF Init, ReqOK
  <2>4. view \in [Players -> Round \cup {NoRound}] /\ index \in [Players -> Holes]
    BY <1>1, ZeroIsHole DEF Init
  <2> QED
    BY <1>1, <2>2, <2>3, <2>4 DEF Init, LiveType
<1> QED
  BY <1>1, TypeStep, PTL DEF Spec

\* The types of LiveClient, for any number of players and holes.
THEOREM TypeCorrect == Spec => []TypeOK
<1>1. LiveType => TypeOK
  <2> SUFFICES ASSUME LiveType PROVE TypeOK
    OBVIOUS
  <2>1. ASSUME NEW p \in Players, NEW i \in DOMAIN inbox[p] PROVE inbox[p][i] \in Copy
    <3>1. inbox[p] \in Seq(Round \cup {Gone})
      BY DEF LiveType
    <3>2. inbox[p][i] \in Round \cup {Gone}
      BY <2>1, <3>1, ElementOfSeq, LenProperties
    <3> QED
      BY <3>2 DEF Copy
  <2> QED
    BY <2>1 DEF LiveType, TypeOK, Live
<1> QED
  BY <1>1, LiveTypeInvariant, PTL

-----------------------------------------------------------------------------
(* What the pushes on their way hold *)

LEMMA SeqOfMore ==
    ASSUME NEW C, NEW D, C \subseteq D, NEW s \in Seq(C)
    PROVE  s \in Seq(D)
<1>1. /\ Len(s) \in Nat /\ DOMAIN s = 1..Len(s)
      /\ \A i \in 1..Len(s) : s[i] \in C
  BY LenProperties, ElementOfSeq
<1>2. s = [i \in 1..Len(s) |-> s[i]]
  BY <1>1, SeqDef
<1>3. s \in [1..Len(s) -> D]
  BY <1>1, <1>2
<1> QED
  BY <1>1, <1>3, SeqDef

\* Nothing but the copy of a request gets into the pushes, so that they hold what
\* all these copies have in common.
LEMMA InboxStep ==
    ASSUME LiveType, [Next]_vars, NEW C, NEW D, C \subseteq D,
           inbox \in [Players -> Seq(C)],
           \A p \in Players : Push(p) => req[p].copy \in C
    PROVE  inbox' \in [Players -> Seq(D)]
<1> USE DEF stored, client, history
<1>1. \A s \in Seq(C) : s \in Seq(D)
  BY SeqOfMore
<1>2. CASE inbox' = inbox
  BY <1>1, <1>2
<1>3. ASSUME NEW p \in Players, Push(p) PROVE inbox' \in [Players -> Seq(D)]
  <2>1. req[p].copy \in C
    BY <1>3
  <2>2. \A q \in Players : Append(inbox[q], req[p].copy) \in Seq(C) /\ inbox[q] \in Seq(C)
    BY <2>1
  <2>3. inbox' \in [Players -> Seq(C)]
    BY <1>3, <2>2 DEF Push
  <2> QED
    BY <1>1, <2>3
<1>4. ASSUME NEW p \in Players, inbox[p] # <<>>, inbox' = [inbox EXCEPT ![p] = Tail(@)]
      PROVE  inbox' \in [Players -> Seq(D)]
  <2>1. inbox[p] \in Seq(C)
    OBVIOUS
  <2>2. Tail(inbox[p]) \in Seq(C)
    BY <1>4, <2>1, HeadTailProperties
  <2>3. inbox' \in [Players -> Seq(C)]
    BY <1>4, <2>2
  <2> QED
    BY <1>1, <2>3
<1>5. CASE UNCHANGED vars
  BY <1>2, <1>5 DEF vars
<1>6. ASSUME NEW p \in Players,
             \/ OpenPage(p) \/ SetScore(p) \/ CompleteRound(p) \/ DeleteRound(p)
             \/ SetActiveHole(p) \/ Load(p) \/ SaveScore(p) \/ SaveSignature(p)
             \/ SaveDelete(p) \/ Fail(p) \/ ShowAnswer(p) \/ ShowCompleted(p) \/ ShowNone(p)
      PROVE  inbox' = inbox
  BY <1>6 DEF OpenPage, SetScore, CompleteRound, DeleteRound, SetActiveHole, Load, SaveScore,
              SaveSignature, SaveDelete, Fail, ShowAnswer, ShowCompleted, ShowNone, Answered
<1>7. ASSUME NEW p \in Players, RoundUpdated(p) \/ RoundDeleted(p) \/ LosePush(p)
      PROVE  inbox[p] # <<>> /\ inbox' = [inbox EXCEPT ![p] = Tail(@)]
  BY <1>7 DEF RoundUpdated, RoundDeleted, Received, LosePush
<1> QED
  BY <1>2, <1>3, <1>4, <1>5, <1>6, <1>7 DEF Next

LEMMA ProceedFields ==
    ASSUME LiveType, NEW p \in Players, req[p] \in Live, NEW phase, NEW copy,
           Proceed(p, phase, copy)
    PROVE  /\ \A q \in Players : q # p => req'[q] = req[q]
           /\ req'[p] # Idle /\ req'[p].kind = req[p].kind
           /\ req'[p].phase = phase /\ req'[p].copy = copy
           /\ req'[p].index = req[p].index /\ req'[p].hole = req[p].hole
<1> DEFINE x == [req[p] EXCEPT !.phase = phase, !.copy = copy]
<1>1. req' = [req EXCEPT ![p] = x]
  BY DEF Proceed, LiveType
<1>2. /\ x.kind = req[p].kind /\ x.phase = phase /\ x.copy = copy
      /\ x.index = req[p].index /\ x.hole = req[p].hole
  BY DEF Live
<1>3. x.kind # "idle"
  BY <1>2, IdleIsNotLive
<1> HIDE DEF x
<1>4. x # Idle
  BY <1>3, IdleIsNotLive
<1>5. req'[p] = x /\ \A q \in Players : q # p => req'[q] = req[q]
  BY <1>1 DEF LiveType
<1> QED
  BY <1>2, <1>4, <1>5

-----------------------------------------------------------------------------
(* A round shown as completed is, or its player has signed it *)

\* Copies that claim no more signatures than are stored.
DoneCopies(s) ==
    {Gone} \cup {r \in Round : r.signed \subseteq s /\ (r.completed => Players \subseteq s)}

ReqDone(p, q, s) ==
    q # Idle =>
      /\ q.phase # "sent" => q.copy \in DoneCopies(s)
      /\ q.kind = "complete" /\ q.phase \in {"saved", "answered"} =>
           p \in s \/ Players \subseteq s

ViewDone(p, v, s) == v.there /\ v.completed => p \in s \/ Players \subseteq s

DoneInv ==
    /\ completed => Players \subseteq signed
    /\ \A p \in Players : ReqDone(p, req[p], signed) /\ ViewDone(p, view[p], signed)
    /\ inbox \in [Players -> Seq(DoneCopies(signed))]

LEMMA DoneCopiesGrow ==
    ASSUME NEW s, NEW t, s \subseteq t
    PROVE  /\ DoneCopies(s) \subseteq DoneCopies(t)
           /\ \A p, q : ReqDone(p, q, s) => ReqDone(p, q, t)
           /\ \A p, v : ViewDone(p, v, s) => ViewDone(p, v, t)
<1>1. DoneCopies(s) \subseteq DoneCopies(t)
  BY DEF DoneCopies
<1>2. \A p, q : ReqDone(p, q, s) => ReqDone(p, q, t)
  BY <1>1 DEF ReqDone
<1>3. \A p, v : ViewDone(p, v, s) => ViewDone(p, v, t)
  BY DEF ViewDone
<1> QED
  BY <1>1, <1>2, <1>3

\* A signature is never taken back.
LEMMA SignedGrows == ASSUME [Next]_vars PROVE signed \subseteq signed'
<1> USE DEF stored, client, history
<1>1. ASSUME NEW p \in Players,
             \/ OpenPage(p) \/ SetScore(p) \/ CompleteRound(p) \/ DeleteRound(p)
             \/ SetActiveHole(p) \/ Load(p) \/ SaveScore(p) \/ SaveDelete(p) \/ Push(p)
             \/ Fail(p) \/ ShowAnswer(p) \/ ShowCompleted(p) \/ ShowNone(p)
      PROVE  signed' = signed
  BY <1>1 DEF OpenPage, SetScore, CompleteRound, DeleteRound, SetActiveHole, Load, SaveScore,
              SaveDelete, Push, Fail, ShowAnswer, ShowCompleted, ShowNone, Answered
<1>2. ASSUME NEW p \in Players, RoundUpdated(p) \/ RoundDeleted(p) \/ LosePush(p)
      PROVE  signed' = signed
  BY <1>2 DEF RoundUpdated, RoundDeleted, Received, LosePush
<1>3. ASSUME NEW p \in Players, SaveSignature(p) PROVE signed \subseteq signed'
  BY <1>3 DEF SaveSignature
<1>4. CASE UNCHANGED vars
  BY <1>4 DEF vars
<1> QED
  BY <1>1, <1>2, <1>3, <1>4 DEF Next

\* One player's request and page change.
LEMMA DoneKept ==
    ASSUME DoneInv, signed \subseteq signed', completed' => Players \subseteq signed',
           inbox' \in [Players -> Seq(DoneCopies(signed'))],
           NEW p \in Players,
           \A q \in Players : q # p => req'[q] = req[q] /\ view'[q] = view[q],
           ReqDone(p, req'[p], signed'), ViewDone(p, view'[p], signed')
    PROVE  DoneInv'
<1>1. ASSUME NEW q \in Players
      PROVE  ReqDone(q, req'[q], signed') /\ ViewDone(q, view'[q], signed')
  <2>1. CASE q = p
    BY <2>1
  <2>2. CASE q # p
    BY <2>2, DoneCopiesGrow DEF DoneInv
  <2> QED
    BY <2>1, <2>2
<1> QED
  BY <1>1 DEF DoneInv

LEMMA DoneStep == ASSUME LiveType, DoneInv, [Next]_vars PROVE DoneInv'
<1> USE DEF stored, client, history
<1> DEFINE All == Players \subseteq signed
<1>0. signed \subseteq signed'
  BY SignedGrows
<1>1. ASSUME NEW p \in Players, req[p] # Idle, req[p].phase # "sent"
      PROVE  req[p].copy \in DoneCopies(signed)
  BY <1>1 DEF DoneInv, ReqDone
<1>2. inbox' \in [Players -> Seq(DoneCopies(signed'))]
  <2>1. DoneCopies(signed) \subseteq DoneCopies(signed')
    BY <1>0, DoneCopiesGrow
  <2>2. \A p \in Players : Push(p) => req[p].copy \in DoneCopies(signed)
    BY <1>1 DEF Push, At
  <2>3. inbox \in [Players -> Seq(DoneCopies(signed))]
    BY DEF DoneInv
  <2> QED
    BY <2>1, <2>2, <2>3, InboxStep
<1>3. ASSUME NEW p \in Players, NEW kind \in Kinds, NEW i, NEW h,
             req' = [req EXCEPT ![p] = Request(kind, i, h)],
             UNCHANGED stored,
             \A q \in Players : q # p => view'[q] = view[q],
             view'[p] \in {view[p], NoRound}
      PROVE  DoneInv'
  <2>1. req'[p] = Request(kind, i, h) /\ \A q \in Players : q # p => req'[q] = req[q]
    BY <1>3 DEF LiveType
  <2>2. ReqDone(p, req'[p], signed')
    BY <2>1 DEF ReqDone, Request
  <2>3. ViewDone(p, view'[p], signed')
    BY <1>3 DEF DoneInv, ViewDone, NoRound
  <2>4. completed' => Players \subseteq signed'
    BY <1>3 DEF DoneInv
  <2> QED
    BY <1>0, <1>2, <1>3, <2>1, <2>2, <2>3, <2>4, DoneKept
<1>4. ASSUME NEW p \in Players,
             OpenPage(p) \/ SetScore(p) \/ CompleteRound(p) \/ DeleteRound(p)
      PROVE  DoneInv'
  <2>1. CASE OpenPage(p)
    <3>1. /\ req' = [req EXCEPT ![p] = Request("fetch", 0, 0)] /\ UNCHANGED stored
          /\ view' = [view EXCEPT ![p] = NoRound]
      BY <2>1 DEF OpenPage, Ask, Shows
    <3>2. view'[p] = NoRound /\ \A q \in Players : q # p => view'[q] = view[q]
      BY <3>1 DEF LiveType
    <3> QED
      BY <1>3, <3>1, <3>2 DEF Kinds
  <2>2. CASE SetScore(p)
    <3>1. /\ req' = [req EXCEPT ![p] = Request("score", index[p], HoleAt(view[p], index[p]))]
          /\ UNCHANGED <<stored, view>>
      BY <2>2 DEF SetScore, Ask
    <3> QED
      BY <1>3, <3>1 DEF Kinds
  <2>3. CASE CompleteRound(p)
    <3>1. /\ req' = [req EXCEPT ![p] = Request("complete", 0, 0)]
          /\ UNCHANGED <<stored, view>>
      BY <2>3 DEF CompleteRound, Ask
    <3> QED
      BY <1>3, <3>1 DEF Kinds
  <2>4. CASE DeleteRound(p)
    <3>1. /\ req' = [req EXCEPT ![p] = Request("delete", 0, 0)]
          /\ UNCHANGED <<stored, view>>
      BY <2>4 DEF DeleteRound, Ask
    <3> QED
      BY <1>3, <3>1 DEF Kinds
  <2> QED
    BY <1>4, <2>1, <2>2, <2>3, <2>4
<1>5. ASSUME NEW p \in Players, SetActiveHole(p) \/ LosePush(p) PROVE DoneInv'
  <2>1. UNCHANGED <<stored, view, req>>
    BY <1>5 DEF SetActiveHole, LosePush
  <2> QED
    BY <1>2, <2>1 DEF DoneInv
<1>6. ASSUME NEW p \in Players, Load(p) PROVE DoneInv'
  <2> DEFINE phase == IF req[p].kind = "fetch" THEN "answered" ELSE "loaded"
  <2>1. req[p] \in Live /\ Proceed(p, phase, Stored) /\ UNCHANGED <<stored, view>>
    BY <1>6, AtFacts DEF Load
  <2>2. phase \in {"answered", "loaded"} /\ (phase = "answered" => req[p].kind = "fetch")
    OBVIOUS
  <2> HIDE DEF phase
  <2>3. /\ \A q \in Players : q # p => req'[q] = req[q]
        /\ req'[p].kind = req[p].kind /\ req'[p].phase = phase /\ req'[p].copy = Stored
    BY <2>1, ProceedFields
  <2>4. Stored \in DoneCopies(signed)
    <3>1. Stored.signed = signed /\ Stored.completed = completed
      BY DEF Stored
    <3> QED
      BY <3>1, StoredIsRound DEF DoneInv, DoneCopies
  <2>5. ReqDone(p, req'[p], signed')
    BY <2>1, <2>2, <2>3, <2>4 DEF ReqDone
  <2>6. ViewDone(p, view'[p], signed') /\ (completed' => Players \subseteq signed')
    BY <2>1 DEF DoneInv
  <2> QED
    BY <1>0, <1>2, <2>1, <2>3, <2>5, <2>6, DoneKept
<1>7. ASSUME NEW p \in Players, SaveScore(p) PROVE DoneInv'
  <2> DEFINE new == [req[p].copy EXCEPT !.card[p] = @ \cup {HoleAt(req[p].copy, req[p].index)}]
             next == IF Rotates(new) THEN [new EXCEPT !.offset = req[p].index] ELSE new
  <2>1. /\ req[p] \in Live /\ req[p].copy \in Round /\ req[p].index \in Holes
        /\ req[p].kind = "score" /\ req[p] # Idle /\ req[p].phase = "loaded"
    BY <1>7, AtFacts, Fields DEF SaveScore, CarriesCopy, At
  <2>2. /\ completed' = req[p].copy.completed /\ Proceed(p, "saved", next)
        /\ UNCHANGED <<signed, view>>
    BY <1>7 DEF SaveScore
  <2>3. HoleAt(req[p].copy, req[p].index) \in Holes
    BY <2>1, HoleAtType
  <2>4. /\ new \in Round /\ new.signed = req[p].copy.signed
        /\ new.completed = req[p].copy.completed
    BY <2>1, <2>3 DEF Round
  <2> HIDE DEF new
  <2>5. /\ next \in Round /\ next.signed = req[p].copy.signed
        /\ next.completed = req[p].copy.completed
    BY <2>1, <2>4 DEF Round
  <2> HIDE DEF next
  <2>6. req[p].copy \in DoneCopies(signed) /\ req[p].copy # Gone
    BY <1>1, <2>1, NoRoundFacts
  <2>7. next \in DoneCopies(signed) /\ (completed' => All)
    BY <2>2, <2>5, <2>6 DEF DoneCopies
  <2>8. /\ \A q \in Players : q # p => req'[q] = req[q]
        /\ req'[p].kind = "score" /\ req'[p].copy = next
    BY <2>1, <2>2, ProceedFields
  <2>9. ReqDone(p, req'[p], signed') /\ ViewDone(p, view'[p], signed')
    BY <2>2, <2>7, <2>8 DEF ReqDone, DoneInv
  <2> QED
    BY <1>0, <1>2, <2>2, <2>7, <2>8, <2>9, DoneKept
<1>8. ASSUME NEW p \in Players, SaveSignature(p) PROVE DoneInv'
  <2> DEFINE copy == req[p].copy
             new == [copy EXCEPT !.signed = @ \cup {p},
                                 !.completed = Players \subseteq copy.signed \cup {p}]
  <2>1. /\ req[p] \in Live /\ copy \in Round /\ req[p].kind = "complete"
        /\ req[p] # Idle /\ req[p].phase = "loaded" /\ UNCHANGED view
    BY <1>8, AtFacts DEF SaveSignature, CarriesCopy, At
  <2>2. copy \in DoneCopies(signed) /\ copy # Gone
    BY <1>1, <2>1, NoRoundFacts
  <2>3. copy.signed \subseteq signed /\ (copy.completed => All)
    BY <2>2 DEF DoneCopies
  <2>4. CASE /\ copy.completed \/ p \in copy.signed
             /\ Proceed(p, "answered", copy) /\ UNCHANGED stored
    <3>1. /\ \A q \in Players : q # p => req'[q] = req[q]
          /\ req'[p].copy = copy
      BY <2>1, <2>4, ProceedFields
    <3>2. p \in signed \/ All
      BY <2>3, <2>4
    <3>3. ReqDone(p, req'[p], signed') /\ ViewDone(p, view'[p], signed')
      BY <2>1, <2>2, <2>4, <3>1, <3>2 DEF ReqDone, DoneInv
    <3>4. completed' => Players \subseteq signed'
      BY <2>4 DEF DoneInv
    <3> QED
      BY <1>0, <1>2, <2>1, <3>1, <3>3, <3>4, DoneKept
  <2>5. CASE /\ signed' = signed \cup {p} /\ completed' = new.completed
             /\ Proceed(p, "saved", new)
    <3>1. /\ new \in Round /\ new.signed = copy.signed \cup {p}
          /\ new.completed = (Players \subseteq copy.signed \cup {p})
      BY <2>1 DEF Round
    <3> HIDE DEF new
    <3>2. new \in DoneCopies(signed') /\ (completed' => Players \subseteq signed')
      BY <2>3, <2>5, <3>1 DEF DoneCopies
    <3>3. /\ \A q \in Players : q # p => req'[q] = req[q]
          /\ req'[p].copy = new
      BY <2>1, <2>5, ProceedFields
    <3>4. p \in signed'
      BY <2>5
    <3>5. ReqDone(p, req'[p], signed')
      BY <3>2, <3>3, <3>4 DEF ReqDone
    <3>6. ViewDone(p, view'[p], signed')
      BY <3>4 DEF ViewDone
    <3> QED
      BY <1>0, <1>2, <2>1, <3>2, <3>3, <3>5, <3>6, DoneKept
  <2> QED
    BY <1>8, <2>4, <2>5 DEF SaveSignature
<1>9. ASSUME NEW p \in Players, SaveDelete(p) PROVE DoneInv'
  <2>1. /\ req[p] \in Live /\ req[p].kind = "delete"
        /\ Proceed(p, "saved", Gone) /\ UNCHANGED <<completed, signed, view>>
    BY <1>9, AtFacts DEF SaveDelete
  <2>2. /\ \A q \in Players : q # p => req'[q] = req[q]
        /\ req'[p].kind = "delete" /\ req'[p].copy = Gone
    BY <2>1, ProceedFields
  <2>3. ReqDone(p, req'[p], signed')
    BY <2>2 DEF ReqDone, DoneCopies
  <2>4. ViewDone(p, view'[p], signed') /\ (completed' => Players \subseteq signed')
    BY <2>1 DEF DoneInv
  <2> QED
    BY <1>0, <1>2, <2>1, <2>2, <2>3, <2>4, DoneKept
<1>10. ASSUME NEW p \in Players, Push(p) PROVE DoneInv'
  <2>1. /\ req[p] \in Live /\ req[p] # Idle /\ req[p].phase = "saved"
        /\ Proceed(p, "answered", req[p].copy) /\ UNCHANGED <<stored, view>>
    BY <1>10, AtFacts DEF Push, At
  <2>2. /\ \A q \in Players : q # p => req'[q] = req[q]
        /\ req'[p].kind = req[p].kind /\ req'[p].copy = req[p].copy
    BY <2>1, ProceedFields
  <2>3. ReqDone(p, req'[p], signed') /\ ViewDone(p, view'[p], signed')
    BY <2>1, <2>2 DEF ReqDone, DoneInv
  <2>4. completed' => Players \subseteq signed'
    BY <2>1 DEF DoneInv
  <2> QED
    BY <1>0, <1>2, <2>1, <2>2, <2>3, <2>4, DoneKept
<1>11. ASSUME NEW p \in Players, req' = [req EXCEPT ![p] = Idle], UNCHANGED stored,
              \A q \in Players : q # p => view'[q] = view[q], ViewDone(p, view'[p], signed)
       PROVE  DoneInv'
  <2>1. req'[p] = Idle /\ \A q \in Players : q # p => req'[q] = req[q]
    BY <1>11 DEF LiveType
  <2>2. ReqDone(p, req'[p], signed') /\ ViewDone(p, view'[p], signed')
    BY <1>11, <2>1 DEF ReqDone
  <2>3. completed' => Players \subseteq signed'
    BY <1>11 DEF DoneInv
  <2> QED
    BY <1>0, <1>2, <1>11, <2>1, <2>2, <2>3, DoneKept
<1>12. ASSUME NEW p \in Players, Fail(p) PROVE DoneInv'
  <2>1. req' = [req EXCEPT ![p] = Idle] /\ UNCHANGED <<stored, view>>
    BY <1>12 DEF Fail
  <2>2. ViewDone(p, view'[p], signed)
    BY <2>1 DEF DoneInv
  <2> QED
    BY <1>11, <2>1, <2>2
<1>13. ASSUME NEW p \in Players, ShowAnswer(p) PROVE DoneInv'
  <2>1. /\ req[p] # Idle /\ req[p].phase = "answered" /\ req[p].copy \in Round
        /\ req' = [req EXCEPT ![p] = Idle] /\ UNCHANGED stored
        /\ view' = [view EXCEPT ![p] = req[p].copy]
    BY <1>13, AtFacts DEF ShowAnswer, CarriesCopy, Answered, Shows, At
  <2>2. view'[p] = req[p].copy /\ \A q \in Players : q # p => view'[q] = view[q]
    BY <2>1 DEF LiveType
  <2>3. req[p].copy \in DoneCopies(signed) /\ req[p].copy # Gone
    BY <1>1, <2>1, NoRoundFacts
  <2>4. ViewDone(p, view'[p], signed)
    BY <2>2, <2>3 DEF DoneCopies, ViewDone
  <2> QED
    BY <1>11, <2>1, <2>2, <2>4
<1>14. ASSUME NEW p \in Players, ShowCompleted(p) PROVE DoneInv'
  <2>1. /\ req[p] # Idle /\ req[p].phase = "answered" /\ req[p].kind = "complete"
        /\ req' = [req EXCEPT ![p] = Idle] /\ UNCHANGED stored
        /\ \A q \in Players : q # p => view'[q] = view[q]
    BY <1>14 DEF ShowCompleted, Answered, Shows, At, LiveType
  <2>2. p \in signed \/ All
    BY <2>1 DEF DoneInv, ReqDone
  <2>3. ViewDone(p, view'[p], signed)
    BY <2>2 DEF ViewDone
  <2> QED
    BY <1>11, <2>1, <2>3
<1>15. ASSUME NEW p \in Players, ShowNone(p) PROVE DoneInv'
  <2>1. /\ req' = [req EXCEPT ![p] = Idle] /\ UNCHANGED stored
        /\ view' = [view EXCEPT ![p] = NoRound]
    BY <1>15 DEF ShowNone, Answered, Shows
  <2>2. view'[p] = NoRound /\ \A q \in Players : q # p => view'[q] = view[q]
    BY <2>1 DEF LiveType
  <2>3. ViewDone(p, view'[p], signed)
    BY <2>2, NoRoundFacts DEF ViewDone
  <2> QED
    BY <1>11, <2>1, <2>2, <2>3
<1>16. ASSUME NEW p \in Players, RoundUpdated(p) PROVE DoneInv'
  <2>1. /\ inbox[p] # <<>> /\ Head(inbox[p]) # Gone /\ UNCHANGED <<stored, req>>
        /\ view' = [view EXCEPT ![p] = Head(inbox[p])]
    BY <1>16 DEF RoundUpdated, Received, Shows
  <2>2. inbox[p] \in Seq(DoneCopies(signed))
    BY DEF DoneInv
  <2>3. Head(inbox[p]) \in DoneCopies(signed)
    BY <2>1, <2>2, HeadTailProperties
  <2>4. view'[p] = Head(inbox[p]) /\ \A q \in Players : q # p => view'[q] = view[q]
    BY <2>1 DEF LiveType
  <2>5. ViewDone(p, view'[p], signed')
    BY <2>1, <2>3, <2>4 DEF DoneCopies, ViewDone
  <2>6. ReqDone(p, req'[p], signed') /\ (completed' => Players \subseteq signed')
    BY <2>1 DEF DoneInv
  <2> QED
    BY <1>0, <1>2, <2>1, <2>4, <2>5, <2>6, DoneKept
<1>17. ASSUME NEW p \in Players, RoundDeleted(p) PROVE DoneInv'
  <2>1. /\ UNCHANGED <<stored, req>> /\ view' = [view EXCEPT ![p] = NoRound]
    BY <1>17 DEF RoundDeleted, Received, Shows
  <2>2. view'[p] = NoRound /\ \A q \in Players : q # p => view'[q] = view[q]
    BY <2>1 DEF LiveType
  <2>3. ViewDone(p, view'[p], signed')
    BY <2>2, NoRoundFacts DEF ViewDone
  <2>4. ReqDone(p, req'[p], signed') /\ (completed' => Players \subseteq signed')
    BY <2>1 DEF DoneInv
  <2> QED
    BY <1>0, <1>2, <2>1, <2>2, <2>3, <2>4, DoneKept
<1>18. CASE UNCHANGED vars
  BY <1>2, <1>18 DEF vars, DoneInv
<1> QED
  BY <1>4, <1>5, <1>6, <1>7, <1>8, <1>9, <1>10, <1>12, <1>13, <1>14, <1>15, <1>16, <1>17,
     <1>18 DEF Next

\* CompletedHasReason for any number of players and requests: neither a failed or late
\* completion nor a push of an older copy makes a client show a round as completed
\* that neither its player nor all players have signed.
THEOREM CompletionHasReason == Spec => []CompletedHasReason
<1>1. ASSUME Init PROVE DoneInv
  <2>1. <<>> \in Seq(DoneCopies(signed))
    BY EmptySeq
  <2>2. inbox \in [Players -> Seq(DoneCopies(signed))]
    BY <1>1, <2>1 DEF Init
  <2>3. ASSUME NEW p \in Players
        PROVE  ReqDone(p, req[p], signed) /\ ViewDone(p, view[p], signed)
    BY <1>1 DEF Init, ReqDone, ViewDone, NoRound
  <2> QED
    BY <1>1, <2>2, <2>3 DEF Init, DoneInv
<1>2. LiveType /\ DoneInv /\ [Next]_vars => DoneInv'
  BY DoneStep
<1>3. DoneInv => CompletedHasReason
  BY DEF DoneInv, ViewDone, CompletedHasReason
<1> QED
  BY <1>1, <1>2, <1>3, LiveTypeInvariant, PTL DEF Spec

-----------------------------------------------------------------------------
(* Scores land where they were shown, if the round starts on its first hole *)

Empty(c) == \A q \in Players : c[q] = {}
OfZero(c) == Empty(c) \/ \E q \in Players : 0 \in c[q]

\* Copies in the order of the course, with no more scores than are stored.
LandCopies(c) ==
    {Gone} \cup {r \in Round : /\ r.offset = 0 /\ OfZero(r.card)
                             /\ \A q \in Players : r.card[q] \subseteq c[q]}

\* The request q of player p, against the stored scores c and the entered holes e.
ReqLand(p, q, c, e) ==
    q # Idle =>
      /\ q.phase # "sent" => q.copy \in LandCopies(c)
      /\ q.kind = "score" =>
           /\ q.hole = q.index /\ q.hole \in e[p]
           /\ q.index = 0 \/ ~Empty(c)
           /\ q.phase = "loaded" => q.index = 0 \/ ~Empty(q.copy.card)
           /\ q.phase \in {"saved", "answered"} => q.hole \in c[p]

LandInv ==
    /\ OfZero(card)
    /\ ScoreLandsWhereShown
    /\ \A p \in Players : ReqLand(p, req[p], card, entered)
    /\ \A p \in Players : view[p] \in LandCopies(card) \cup {NoRound}
    /\ inbox \in [Players -> Seq(LandCopies(card))]

More(c, d) == \A q \in Players : c[q] \subseteq d[q]

LEMMA LandCopiesGrow ==
    ASSUME NEW c, NEW d, More(c, d), NEW e, NEW f, More(e, f)
    PROVE  /\ LandCopies(c) \subseteq LandCopies(d)
           /\ \A p \in Players : \A q : ReqLand(p, q, c, e) => ReqLand(p, q, d, f)
<1>1. LandCopies(c) \subseteq LandCopies(d)
  BY DEF LandCopies, More
<1>2. ~Empty(c) => ~Empty(d)
  BY DEF Empty, More
<1>3. ASSUME NEW p \in Players, NEW q, ReqLand(p, q, c, e) PROVE ReqLand(p, q, d, f)
  <2>1. c[p] \subseteq d[p] /\ e[p] \subseteq f[p]
    BY DEF More
  <2> QED
    BY <1>1, <1>2, <1>3, <2>1 DEF ReqLand
<1> QED
  BY <1>1, <1>3

\* Only SaveScore writes scores, and only SetScore enters some.
LEMMA CardKept ==
    ASSUME [Next]_vars, ~(\E p \in Players : SaveScore(p)) PROVE card' = card
<1> USE DEF stored, client, history
<1>1. ASSUME NEW p \in Players,
             \/ OpenPage(p) \/ SetScore(p) \/ CompleteRound(p) \/ DeleteRound(p)
             \/ SetActiveHole(p) \/ Load(p) \/ SaveSignature(p) \/ SaveDelete(p) \/ Push(p)
             \/ Fail(p) \/ ShowAnswer(p) \/ ShowCompleted(p) \/ ShowNone(p)
      PROVE  card' = card
  BY <1>1 DEF OpenPage, SetScore, CompleteRound, DeleteRound, SetActiveHole, Load, SaveSignature,
              SaveDelete, Push, Fail, ShowAnswer, ShowCompleted, ShowNone, Answered
<1>2. ASSUME NEW p \in Players, RoundUpdated(p) \/ RoundDeleted(p) \/ LosePush(p)
      PROVE  card' = card
  BY <1>2 DEF RoundUpdated, RoundDeleted, Received, LosePush
<1>3. CASE UNCHANGED vars
  BY <1>3 DEF vars
<1> QED
  BY <1>1, <1>2, <1>3 DEF Next

LEMMA CardGrows == ASSUME LiveType, [Next]_vars PROVE More(card, card')
<1>1. CASE card' = card
  BY <1>1 DEF More
<1>2. ASSUME NEW p \in Players, SaveScore(p) PROVE More(card, card')
  BY <1>2 DEF SaveScore, LiveType, More
<1> QED
  BY <1>1, <1>2, CardKept

LEMMA EnteredGrows == ASSUME LiveType, [Next]_vars PROVE More(entered, entered')
<1> USE DEF stored, client, history
<1>1. ASSUME NEW p \in Players,
             \/ OpenPage(p) \/ CompleteRound(p) \/ DeleteRound(p)
             \/ SetActiveHole(p) \/ Load(p) \/ SaveScore(p) \/ SaveSignature(p) \/ SaveDelete(p)
             \/ Push(p) \/ Fail(p) \/ ShowAnswer(p) \/ ShowCompleted(p) \/ ShowNone(p)
      PROVE  entered' = entered
  BY <1>1 DEF OpenPage, CompleteRound, DeleteRound, SetActiveHole, Load, SaveScore, SaveSignature,
              SaveDelete, Push, Fail, ShowAnswer, ShowCompleted, ShowNone, Answered
<1>2. ASSUME NEW p \in Players, RoundUpdated(p) \/ RoundDeleted(p) \/ LosePush(p)
      PROVE  entered' = entered
  BY <1>2 DEF RoundUpdated, RoundDeleted, Received, LosePush
<1>3. ASSUME NEW p \in Players, SetScore(p) PROVE More(entered, entered')
  BY <1>3 DEF SetScore, LiveType, More
<1>4. ASSUME UNCHANGED vars PROVE entered' = entered
  BY <1>4 DEF vars
<1>5. entered' = entered => More(entered, entered')
  BY DEF More
<1> QED
  BY <1>1, <1>2, <1>3, <1>4, <1>5 DEF Next

\* The list stays as it is if the only score is that of the first hole.
LEMMA RotatesToZero ==
    ASSUME NEW r \in Round, NEW p \in Players, NEW h \in r.card[p], OfZero(r.card), Rotates(r)
    PROVE  h = 0
<1> DEFINE S == {c \in Players \X Holes : c[2] \in r.card[c[1]]}
<1>1. \A q \in Players : r.card[q] \subseteq Holes
  BY DEF Round
<1>2. IsFiniteSet(Holes)
  BY FS_Interval DEF Holes
<1>3. IsFiniteSet(S)
  BY <1>2, FS_Product, FS_Subset
<1>4. PICK x : S = {x}
  BY <1>3, FS_Singleton DEF Rotates
<1>5. <<p, h>> \in S
  BY <1>1
<1>6. PICK q \in Players : 0 \in r.card[q]
  BY DEF OfZero, Empty
<1>7. <<q, 0>> \in S
  BY <1>1, <1>6
<1>8. <<p, h>> = <<q, 0>>
  BY <1>4, <1>5, <1>7
<1> QED
  BY <1>8

\* One player's request and page change, and no score is stored.
LEMMA LandKept ==
    ASSUME LandInv, More(entered, entered'), card' = card, ScoreLandsWhereShown',
           inbox' \in [Players -> Seq(LandCopies(card'))],
           NEW p \in Players,
           \A q \in Players : q # p => req'[q] = req[q] /\ view'[q] = view[q],
           ReqLand(p, req'[p], card', entered'), view'[p] \in LandCopies(card) \cup {NoRound}
    PROVE  LandInv'
<1>1. More(card, card')
  BY DEF More
<1>2. ASSUME NEW q \in Players PROVE ReqLand(q, req'[q], card', entered')
  <2>1. CASE q = p
    BY <2>1
  <2>2. CASE q # p
    <3>1. ReqLand(q, req[q], card, entered)
      BY DEF LandInv
    <3> QED
      BY <1>1, <2>2, <3>1, LandCopiesGrow
  <2> QED
    BY <2>1, <2>2
<1>3. ASSUME NEW q \in Players PROVE view'[q] \in LandCopies(card') \cup {NoRound}
  <2>1. view[q] \in LandCopies(card) \cup {NoRound}
    BY DEF LandInv
  <2>2. LandCopies(card') = LandCopies(card)
    OBVIOUS
  <2> QED
    BY <2>1, <2>2
<1> QED
  BY <1>2, <1>3 DEF LandInv

\* Nothing is stored, entered or answered.
LEMMA ShownKept ==
    ASSUME LandInv, More(entered, entered'), UNCHANGED <<card, saved>>
    PROVE  ScoreLandsWhereShown'
BY DEF LandInv, ScoreLandsWhereShown, More

LEMMA LandStep == ASSUME ~AnyStart, LiveType, LandInv, [Next]_vars PROVE LandInv'
<1> USE DEF stored, client, history
<1>1. More(card, card') /\ More(entered, entered')
  BY CardGrows, EnteredGrows
<1>2. ASSUME NEW p \in Players, req[p] # Idle, req[p].phase # "sent"
      PROVE  req[p].copy \in LandCopies(card)
  BY <1>2 DEF LandInv, ReqLand
<1>3. inbox' \in [Players -> Seq(LandCopies(card'))]
  <2>1. LandCopies(card) \subseteq LandCopies(card')
    BY <1>1, LandCopiesGrow
  <2>2. \A p \in Players : Push(p) => req[p].copy \in LandCopies(card)
    BY <1>2 DEF Push, At
  <2>3. inbox \in [Players -> Seq(LandCopies(card))]
    BY DEF LandInv
  <2> QED
    BY <2>1, <2>2, <2>3, InboxStep
<1>4. ASSUME NEW p \in Players, NEW kind \in Kinds \ {"score"}, NEW i, NEW h,
             req' = [req EXCEPT ![p] = Request(kind, i, h)],
             UNCHANGED <<card, saved>>,
             \A q \in Players : q # p => view'[q] = view[q],
             view'[p] \in {view[p], NoRound}
      PROVE  LandInv'
  <2>1. req'[p] = Request(kind, i, h) /\ \A q \in Players : q # p => req'[q] = req[q]
    BY <1>4 DEF LiveType
  <2>2. ReqLand(p, req'[p], card', entered')
    BY <2>1 DEF ReqLand, Request
  <2>3. view'[p] \in LandCopies(card) \cup {NoRound}
    BY <1>4 DEF LandInv
  <2>4. ScoreLandsWhereShown'
    BY <1>1, <1>4, ShownKept
  <2> QED
    BY <1>1, <1>3, <1>4, <2>1, <2>2, <2>3, <2>4, LandKept
<1>5. ASSUME NEW p \in Players, OpenPage(p) \/ CompleteRound(p) \/ DeleteRound(p)
      PROVE  LandInv'
  <2>1. CASE OpenPage(p)
    <3>1. /\ req' = [req EXCEPT ![p] = Request("fetch", 0, 0)] /\ UNCHANGED <<card, saved>>
          /\ view' = [view EXCEPT ![p] = NoRound]
      BY <2>1 DEF OpenPage, Ask, Shows
    <3>2. view'[p] = NoRound /\ \A q \in Players : q # p => view'[q] = view[q]
      BY <3>1 DEF LiveType
    <3> QED
      BY <1>4, <3>1, <3>2 DEF Kinds
  <2>2. CASE CompleteRound(p)
    <3>1. /\ req' = [req EXCEPT ![p] = Request("complete", 0, 0)]
          /\ UNCHANGED <<card, saved, view>>
      BY <2>2 DEF CompleteRound, Ask
    <3> QED
      BY <1>4, <3>1 DEF Kinds
  <2>3. CASE DeleteRound(p)
    <3>1. /\ req' = [req EXCEPT ![p] = Request("delete", 0, 0)]
          /\ UNCHANGED <<card, saved, view>>
      BY <2>3 DEF DeleteRound, Ask
    <3> QED
      BY <1>4, <3>1 DEF Kinds
  <2> QED
    BY <1>5, <2>1, <2>2, <2>3
<1>6. ASSUME NEW p \in Players, SetScore(p) PROVE LandInv'
  <2> DEFINE h == HoleAt(view[p], index[p])
  <2>1. /\ view[p].there /\ (h = 0 \/ \E q \in Players : view[p].card[q] # {})
        /\ req' = [req EXCEPT ![p] = Request("score", index[p], h)]
        /\ entered' = [entered EXCEPT ![p] = @ \cup {h}]
        /\ UNCHANGED <<card, saved, view>>
    BY <1>6 DEF SetScore, Ask
  <2>2. view[p] \in Round /\ view[p] \in LandCopies(card) /\ index[p] \in Holes
    BY <2>1, NoRoundFacts DEF LiveType, LandInv
  <2>3. /\ view[p].offset = 0
        /\ \A q \in Players : view[p].card[q] \subseteq card[q]
    BY <2>2, NoRoundFacts DEF LandCopies
  <2>4. h = index[p]
    BY <2>2, <2>3, HoleAtType
  <2>5. h = 0 \/ ~Empty(card)
    BY <2>1, <2>3 DEF Empty
  <2>6. h \in entered'[p]
    BY <2>1 DEF LiveType
  <2>7. req'[p] = Request("score", index[p], h) /\ \A q \in Players : q # p => req'[q] = req[q]
    BY <2>1 DEF LiveType
  <2> HIDE DEF h
  <2>8. ReqLand(p, req'[p], card', entered')
    BY <2>1, <2>4, <2>5, <2>6, <2>7 DEF ReqLand, Request
  <2>9. ScoreLandsWhereShown'
    BY <1>1, <2>1, ShownKept
  <2> QED
    BY <1>1, <1>3, <2>1, <2>2, <2>7, <2>8, <2>9, LandKept
<1>7. ASSUME NEW p \in Players, SetActiveHole(p) \/ LosePush(p) PROVE LandInv'
  <2>1. UNCHANGED <<card, view, req, entered, saved>>
    BY <1>7 DEF SetActiveHole, LosePush
  <2> QED
    BY <1>3, <2>1 DEF LandInv, ScoreLandsWhereShown
<1>8. ASSUME NEW p \in Players, Load(p) PROVE LandInv'
  <2> DEFINE phase == IF req[p].kind = "fetch" THEN "answered" ELSE "loaded"
  <2>1. /\ req[p] \in Live /\ req[p] # Idle /\ Proceed(p, phase, Stored)
        /\ UNCHANGED <<card, view, entered, saved>>
    BY <1>8, AtFacts, IdleIsNotLive DEF Load
  <2>2. phase \in {"answered", "loaded"} /\ (phase = "answered" => req[p].kind = "fetch")
    OBVIOUS
  <2> HIDE DEF phase
  <2>3. /\ \A q \in Players : q # p => req'[q] = req[q]
        /\ req'[p].kind = req[p].kind /\ req'[p].phase = phase /\ req'[p].copy = Stored
        /\ req'[p].index = req[p].index /\ req'[p].hole = req[p].hole
    BY <2>1, ProceedFields
  <2>4. Stored.card = card /\ Stored.offset = 0
    BY DEF Stored
  <2>5. Stored \in LandCopies(card)
    BY <2>4, StoredIsRound DEF LandInv, LandCopies
  <2>6. ReqLand(p, req[p], card, entered)
    BY DEF LandInv
  <2>7. ReqLand(p, req'[p], card', entered')
    BY <2>1, <2>2, <2>3, <2>4, <2>5, <2>6 DEF ReqLand
  <2>8. ScoreLandsWhereShown' /\ view'[p] \in LandCopies(card) \cup {NoRound}
    BY <1>1, <2>1, ShownKept DEF LandInv
  <2> QED
    BY <1>1, <1>3, <2>1, <2>3, <2>7, <2>8, LandKept
<1>9. ASSUME NEW p \in Players, SaveScore(p) PROVE LandInv'
  <2> DEFINE copy == req[p].copy
             i == req[p].index
             new == [copy EXCEPT !.card[p] = @ \cup {i}]
             next == IF Rotates(new) THEN [new EXCEPT !.offset = i] ELSE new
  <2>1. /\ req[p] \in Live /\ copy \in Round /\ i \in Holes
        /\ req[p].kind = "score" /\ req[p] # Idle /\ req[p].phase = "loaded"
    BY <1>9, AtFacts, Fields DEF SaveScore, CarriesCopy, At
  <2>2. copy \in LandCopies(card)
    BY <1>2, <2>1
  <2>3. /\ copy.offset = 0 /\ OfZero(copy.card)
        /\ \A q \in Players : copy.card[q] \subseteq card[q]
    BY <2>1, <2>2, NoRoundFacts DEF LandCopies
  <2>4. /\ req[p].hole = i /\ i \in entered[p]
        /\ i = 0 \/ ~Empty(card)
        /\ i = 0 \/ ~Empty(copy.card)
    BY <2>1 DEF LandInv, ReqLand
  <2>5. HoleAt(copy, i) = i
    BY <2>1, <2>3, HoleAtType
  <2>6. /\ card' = [card EXCEPT ![p] = @ \cup {i}]
        /\ Proceed(p, "saved", next)
        /\ UNCHANGED <<view, entered, saved>>
    BY <1>9, <2>5 DEF SaveScore
  <2>7. /\ new \in Round /\ new.offset = 0
        /\ new.card = [copy.card EXCEPT ![p] = @ \cup {i}]
    BY <2>1, <2>3 DEF Round
  <2> HIDE DEF new
  <2>8. copy.card \in [Players -> SUBSET Holes] /\ card \in [Players -> SUBSET Holes]
    BY <2>1 DEF Round, LiveType
  <2>9. /\ i \in new.card[p]
        /\ \A q \in Players : copy.card[q] \subseteq new.card[q]
        /\ \A q \in Players : new.card[q] \subseteq card'[q]
        /\ \A q \in Players : card[q] \subseteq card'[q]
        /\ i \in card'[p]
    BY <2>3, <2>6, <2>7, <2>8
  <2>10. OfZero(new.card)
    BY <2>3, <2>4, <2>9 DEF OfZero, Empty
  <2>11. OfZero(card')
    BY <2>4, <2>9 DEF LandInv, OfZero, Empty
  <2>12. Rotates(new) => i = 0
    BY <2>7, <2>9, <2>10, RotatesToZero
  <2>13. next \in Round /\ next.offset = 0 /\ next.card = new.card
    BY <2>1, <2>7, <2>12 DEF Round
  <2> HIDE DEF next
  <2>14. next \in LandCopies(card')
    BY <2>9, <2>10, <2>13 DEF LandCopies
  <2>15. /\ \A q \in Players : q # p => req'[q] = req[q]
         /\ req'[p].kind = "score" /\ req'[p].phase = "saved" /\ req'[p].copy = next
         /\ req'[p].index = i /\ req'[p].hole = i
    BY <2>1, <2>4, <2>6, ProceedFields
  <2>16. i = 0 \/ ~Empty(card')
    BY <2>9 DEF Empty
  <2>17. ReqLand(p, req'[p], card', entered')
    BY <2>4, <2>6, <2>9, <2>14, <2>15, <2>16 DEF ReqLand
  <2>18. ASSUME NEW q \in Players PROVE ReqLand(q, req'[q], card', entered')
    <3>1. CASE q = p
      BY <2>17, <3>1
    <3>2. CASE q # p
      <4>1. ReqLand(q, req[q], card, entered) /\ req'[q] = req[q]
        BY <2>15, <3>2 DEF LandInv
      <4> QED
        BY <1>1, <4>1, LandCopiesGrow
    <3> QED
      BY <3>1, <3>2
  <2>19. ASSUME NEW q \in Players PROVE view'[q] \in LandCopies(card') \cup {NoRound}
    <3>1. view[q] \in LandCopies(card) \cup {NoRound} /\ LandCopies(card) \subseteq LandCopies(card')
      BY <1>1, LandCopiesGrow DEF LandInv
    <3> QED
      BY <2>6, <3>1
  <2>20. ScoreLandsWhereShown'
    <3>1. ASSUME NEW q \in Players PROVE saved'[q] \subseteq card'[q] /\ card'[q] \subseteq entered'[q]
      <4>1. saved[q] \subseteq card[q] /\ card[q] \subseteq entered[q]
        BY DEF LandInv, ScoreLandsWhereShown
      <4> QED
        BY <2>4, <2>6, <2>8, <2>9, <4>1
    <3> QED
      BY <3>1 DEF ScoreLandsWhereShown
  <2> QED
    BY <1>3, <2>11, <2>18, <2>19, <2>20 DEF LandInv
\* The server is done with a request that is no score, and stores no score.
<1>10. ASSUME NEW p \in Players, NEW phase, NEW copy, req[p] \in Live, req[p].kind # "score",
              Proceed(p, phase, copy), copy \in LandCopies(card),
              UNCHANGED <<card, view, entered, saved>>
       PROVE  LandInv'
  <2>1. /\ \A q \in Players : q # p => req'[q] = req[q]
        /\ req'[p].kind = req[p].kind /\ req'[p].copy = copy
    BY <1>10, ProceedFields
  <2>2. ReqLand(p, req'[p], card', entered')
    BY <1>10, <2>1 DEF ReqLand
  <2>3. ScoreLandsWhereShown' /\ view'[p] \in LandCopies(card) \cup {NoRound}
    BY <1>1, <1>10, ShownKept DEF LandInv
  <2> QED
    BY <1>1, <1>3, <1>10, <2>1, <2>2, <2>3, LandKept
<1>11. ASSUME NEW p \in Players, SaveSignature(p) PROVE LandInv'
  <2> DEFINE copy == req[p].copy
             new == [copy EXCEPT !.signed = @ \cup {p},
                                 !.completed = Players \subseteq copy.signed \cup {p}]
  <2>1. /\ req[p] \in Live /\ copy \in Round /\ req[p].kind = "complete"
        /\ req[p] # Idle /\ req[p].phase = "loaded"
        /\ UNCHANGED <<card, view, entered, saved>>
    BY <1>11, AtFacts DEF SaveSignature, CarriesCopy, At
  <2>2. copy \in LandCopies(card)
    BY <1>2, <2>1
  <2>3. new \in Round /\ new.offset = copy.offset /\ new.card = copy.card
    BY <2>1 DEF Round
  <2>4. Proceed(p, "answered", copy) \/ Proceed(p, "saved", new)
    BY <1>11 DEF SaveSignature
  <2> HIDE DEF new
  <2>5. new \in LandCopies(card)
    BY <2>1, <2>2, <2>3, NoRoundFacts DEF LandCopies
  <2> QED
    BY <1>10, <2>1, <2>2, <2>4, <2>5
<1>12. ASSUME NEW p \in Players, SaveDelete(p) PROVE LandInv'
  <2>1. /\ req[p] \in Live /\ req[p].kind = "delete" /\ Proceed(p, "saved", Gone)
        /\ UNCHANGED <<card, view, entered, saved>>
    BY <1>12, AtFacts DEF SaveDelete
  <2>2. Gone \in LandCopies(card)
    BY DEF LandCopies
  <2> QED
    BY <1>10, <2>1, <2>2
<1>13. ASSUME NEW p \in Players, Push(p) PROVE LandInv'
  <2>1. /\ req[p] \in Live /\ req[p] # Idle /\ req[p].phase = "saved"
        /\ Proceed(p, "answered", req[p].copy)
        /\ UNCHANGED <<card, view, entered, saved>>
    BY <1>13, AtFacts DEF Push, At
  <2>2. req[p].copy \in LandCopies(card)
    BY <1>2, <2>1
  <2>3. CASE req[p].kind # "score"
    BY <1>10, <2>1, <2>2, <2>3
  <2>4. CASE req[p].kind = "score"
    <3>1. /\ \A q \in Players : q # p => req'[q] = req[q]
          /\ req'[p].kind = req[p].kind /\ req'[p].copy = req[p].copy
          /\ req'[p].phase = "answered"
          /\ req'[p].index = req[p].index /\ req'[p].hole = req[p].hole
      BY <2>1, ProceedFields
    <3>2. ReqLand(p, req[p], card, entered)
      BY DEF LandInv
    <3>3. ReqLand(p, req'[p], card', entered')
      BY <2>1, <2>2, <3>1, <3>2 DEF ReqLand
    <3>4. ScoreLandsWhereShown' /\ view'[p] \in LandCopies(card) \cup {NoRound}
      BY <1>1, <2>1, ShownKept DEF LandInv
    <3> QED
      BY <1>1, <1>3, <2>1, <3>1, <3>3, <3>4, LandKept
  <2> QED
    BY <2>3, <2>4
\* The request is over, and the page shows a sound copy.
<1>14. ASSUME NEW p \in Players, req' = [req EXCEPT ![p] = Idle], UNCHANGED card,
              ScoreLandsWhereShown',
              \A q \in Players : q # p => view'[q] = view[q],
              view'[p] \in LandCopies(card) \cup {NoRound}
       PROVE  LandInv'
  <2>1. req'[p] = Idle /\ \A q \in Players : q # p => req'[q] = req[q]
    BY <1>14 DEF LiveType
  <2>2. ReqLand(p, req'[p], card', entered')
    BY <2>1 DEF ReqLand
  <2> QED
    BY <1>1, <1>3, <1>14, <2>1, <2>2, LandKept
<1>15. ASSUME NEW p \in Players, Fail(p) PROVE LandInv'
  <2>1. req' = [req EXCEPT ![p] = Idle] /\ UNCHANGED <<card, view, saved>>
    BY <1>15 DEF Fail
  <2>2. ScoreLandsWhereShown' /\ view'[p] \in LandCopies(card) \cup {NoRound}
    BY <1>1, <2>1, ShownKept DEF LandInv
  <2> QED
    BY <1>14, <2>1, <2>2
<1>16. ASSUME NEW p \in Players, ShowAnswer(p) PROVE LandInv'
  <2>1. /\ req[p] \in Live /\ req[p] # Idle /\ req[p].phase = "answered"
        /\ req' = [req EXCEPT ![p] = Idle] /\ UNCHANGED <<card, entered>>
        /\ view' = [view EXCEPT ![p] = req[p].copy]
        /\ saved' = [saved EXCEPT ![p] = IF req[p].kind = "score" THEN @ \cup {req[p].hole} ELSE @]
    BY <1>16, AtFacts DEF ShowAnswer, Answered, Shows, At
  <2>2. view'[p] = req[p].copy /\ \A q \in Players : q # p => view'[q] = view[q]
    BY <2>1 DEF LiveType
  <2>3. req[p].copy \in LandCopies(card)
    BY <1>2, <2>1
  <2>4. req[p].kind = "score" => req[p].hole \in card[p]
    BY <2>1 DEF LandInv, ReqLand
  <2>5. ASSUME NEW q \in Players PROVE saved'[q] \subseteq card'[q] /\ card'[q] \subseteq entered'[q]
    <3>1. saved[q] \subseteq card[q] /\ card[q] \subseteq entered[q]
      BY DEF LandInv, ScoreLandsWhereShown
    <3> QED
      BY <2>1, <2>4, <3>1 DEF LiveType
  <2>6. ScoreLandsWhereShown'
    BY <2>5 DEF ScoreLandsWhereShown
  <2> QED
    BY <1>14, <2>1, <2>2, <2>3, <2>6
<1>17. ASSUME NEW p \in Players, ShowCompleted(p) PROVE LandInv'
  <2>1. /\ req' = [req EXCEPT ![p] = Idle] /\ UNCHANGED <<card, saved>>
        /\ \A q \in Players : q # p => view'[q] = view[q]
        /\ view'[p] = IF view[p].there THEN [view[p] EXCEPT !.completed = TRUE] ELSE view[p]
    BY <1>17 DEF ShowCompleted, Answered, Shows, LiveType
  <2>2. view[p] \in LandCopies(card) \cup {NoRound}
    BY DEF LandInv
  <2>3. ASSUME view[p].there
        PROVE  [view[p] EXCEPT !.completed = TRUE] \in LandCopies(card)
    <3> DEFINE x == [view[p] EXCEPT !.completed = TRUE]
    <3>1. view[p] \in Round
      BY <2>3, NoRoundFacts DEF LiveType
    <3>2. x \in Round /\ x.offset = view[p].offset /\ x.card = view[p].card
      BY <3>1 DEF Round
    <3> HIDE DEF x
    <3>3. x \in LandCopies(card)
      BY <2>2, <3>1, <3>2, NoRoundFacts DEF LandCopies
    <3> QED
      BY <3>3 DEF x
  <2>4. view'[p] \in LandCopies(card) \cup {NoRound}
    BY <2>1, <2>2, <2>3
  <2>5. ScoreLandsWhereShown'
    BY <1>1, <2>1, ShownKept
  <2> QED
    BY <1>14, <2>1, <2>4, <2>5
<1>18. ASSUME NEW p \in Players, ShowNone(p) PROVE LandInv'
  <2>1. /\ req' = [req EXCEPT ![p] = Idle] /\ UNCHANGED <<card, saved>>
        /\ view' = [view EXCEPT ![p] = NoRound]
    BY <1>18 DEF ShowNone, Answered, Shows
  <2>2. view'[p] = NoRound /\ \A q \in Players : q # p => view'[q] = view[q]
    BY <2>1 DEF LiveType
  <2>3. ScoreLandsWhereShown'
    BY <1>1, <2>1, ShownKept
  <2> QED
    BY <1>14, <2>1, <2>2, <2>3
\* A push is shown.
<1>19. ASSUME NEW p \in Players, UNCHANGED <<card, saved, req, entered>>,
              \A q \in Players : q # p => view'[q] = view[q],
              view'[p] \in LandCopies(card) \cup {NoRound}
       PROVE  LandInv'
  <2>1. ReqLand(p, req'[p], card', entered')
    BY <1>19 DEF LandInv
  <2>2. ScoreLandsWhereShown'
    BY <1>1, <1>19, ShownKept
  <2> QED
    BY <1>1, <1>3, <1>19, <2>1, <2>2, LandKept
<1>20. ASSUME NEW p \in Players, RoundUpdated(p) PROVE LandInv'
  <2>1. /\ inbox[p] # <<>> /\ UNCHANGED <<card, saved, req, entered>>
        /\ view' = [view EXCEPT ![p] = Head(inbox[p])]
    BY <1>20 DEF RoundUpdated, Received, Shows
  <2>2. inbox[p] \in Seq(LandCopies(card))
    BY DEF LandInv
  <2>3. Head(inbox[p]) \in LandCopies(card)
    BY <2>1, <2>2, HeadTailProperties
  <2>4. view'[p] = Head(inbox[p]) /\ \A q \in Players : q # p => view'[q] = view[q]
    BY <2>1 DEF LiveType
  <2> QED
    BY <1>19, <2>1, <2>3, <2>4
<1>21. ASSUME NEW p \in Players, RoundDeleted(p) PROVE LandInv'
  <2>1. /\ UNCHANGED <<card, saved, req, entered>> /\ view' = [view EXCEPT ![p] = NoRound]
    BY <1>21 DEF RoundDeleted, Received, Shows
  <2>2. view'[p] = NoRound /\ \A q \in Players : q # p => view'[q] = view[q]
    BY <2>1 DEF LiveType
  <2> QED
    BY <1>19, <2>1, <2>2
<1>22. CASE UNCHANGED vars
  BY <1>3, <1>22 DEF vars, LandInv, ScoreLandsWhereShown
<1> QED
  BY <1>5, <1>6, <1>7, <1>8, <1>9, <1>11, <1>12, <1>13, <1>15, <1>16, <1>17, <1>18, <1>20,
     <1>21, <1>22 DEF Next

\* No copy is ever rotated.
LEMMA LandInvariant == ASSUME ~AnyStart PROVE Spec => []LandInv
<1>1. ASSUME Init PROVE LandInv
  <2>1. <<>> \in Seq(LandCopies(card))
    BY EmptySeq
  <2>2. inbox \in [Players -> Seq(LandCopies(card))]
    BY <1>1, <2>1 DEF Init
  <2>3. OfZero(card) /\ ScoreLandsWhereShown
    BY <1>1 DEF Init, OfZero, Empty, ScoreLandsWhereShown
  <2>4. ASSUME NEW p \in Players
        PROVE  /\ ReqLand(p, req[p], card, entered)
               /\ view[p] \in LandCopies(card) \cup {NoRound}
    BY <1>1 DEF Init, ReqLand
  <2> QED
    BY <2>2, <2>3, <2>4 DEF LandInv
<1>2. LiveType /\ LandInv /\ [Next]_vars => LandInv'
  BY LandStep
<1> QED
  BY <1>1, <1>2, LiveTypeInvariant, PTL DEF Spec

\* ScoreLandsWhereShown for any number of players, holes and requests, overlapping, lost
\* or out of order, provided the round starts on its first hole: then no copy is ever
\* rotated, and the index a client sends means the hole it has shown.
THEOREM ScoresLand ==
    ASSUME ~AnyStart
    PROVE  Spec => []ScoreLandsWhereShown
<1>1. LandInv => ScoreLandsWhereShown
  BY DEF LandInv
<1> QED
  BY <1>1, LandInvariant, PTL

------------------------------------------------------------------------------
(***************************************************************************)
(* What the clients of a round agree on when its requests do not overlap   *)
(* and nothing is lost.                                                    *)
(***************************************************************************)


-----------------------------------------------------------------------------
(* One request at a time, and everybody up to date when it is over *)

\* A copy of the stored scores, or the news that the round is gone.
Agrees(c) == IF c.there THEN ~deleted /\ c.card = card ELSE deleted

\* There is one request, and pushes only once it has been answered.
OneAtATime ==
    /\ \A p, q \in Players : req[p] # Idle /\ req[q] # Idle => p = q
    /\ \A p, q \in Players : req[p] # Idle /\ req[p].phase # "answered" => inbox[q] = <<>>

Pushed(q) == \E c \in Round \cup {Gone} : inbox[q] = <<c>> /\ Agrees(c)

UpToDate(q) == view[q].there => ~deleted /\ view[q].card = card

\* Something has changed that client q has still to be told.
Awaits(q) ==
    \/ inbox[q] # <<>>
    \/ \E p \in Players : /\ req[p] # Idle /\ req[p].kind \in {"score", "delete"}
                          /\ req[p].phase = "saved" \/ (p = q /\ req[p].phase = "answered")

CalmInv ==
    calm =>
      /\ OneAtATime
      /\ \A p \in Players : req[p] # Idle /\ req[p].phase # "sent" => Agrees(req[p].copy)
      /\ \A q \in Players : inbox[q] = <<>> \/ Pushed(q)
      /\ \A q \in Players : Awaits(q) \/ UpToDate(q)

\* Before the answer to the only request: nobody else has one, and nothing is pushed.
LEMMA Alone ==
    ASSUME calm, CalmInv, NEW p \in Players, req[p] # Idle, req[p].phase # "answered"
    PROVE  /\ \A q \in Players : q # p => req[q] = Idle
           /\ \A q \in Players : inbox[q] = <<>>
BY DEF CalmInv, OneAtATime

\* As long as nothing is saved but signatures, all are up to date.
LEMMA AllUpToDate ==
    ASSUME calm, CalmInv, NEW p \in Players, req[p] # Idle, req[p].phase # "answered",
           req[p].phase # "saved" \/ req[p].kind \notin {"score", "delete"}
    PROVE  \A q \in Players : UpToDate(q)
<1>1. \A q \in Players : ~Awaits(q)
  BY Alone DEF Awaits
<1> QED
  BY <1>1 DEF CalmInv

\* A request begins: nobody waits for anything.
LEMMA CalmAsk ==
    ASSUME CalmInv, NEW p \in Players, NEW r, r # Idle, r.phase = "sent", Ask(p, r),
           req \in [Players -> {Idle} \cup Live], view \in [Players -> Round \cup {NoRound}],
           UNCHANGED <<stored, inbox, calm>>,
           view' = view \/ view' = [view EXCEPT ![p] = NoRound]
    PROVE  CalmInv'
<1> SUFFICES ASSUME calm PROVE CalmInv'
  BY DEF CalmInv
<1>1. /\ \A q \in Players : req[q] = Idle /\ inbox[q] = <<>>
      /\ req'[p] = r /\ \A q \in Players : q # p => req'[q] = req[q]
      /\ UNCHANGED <<card, deleted, inbox>>
  BY DEF Ask, Quiet, stored
<1>2. OneAtATime'
  BY <1>1 DEF OneAtATime
<1>3. \A q \in Players : ~Awaits(q)
  BY <1>1 DEF Awaits
<1>4. \A q \in Players : UpToDate(q)
  BY <1>3 DEF CalmInv
<1>5. ASSUME NEW q \in Players PROVE UpToDate(q)'
  <2>1. view'[q] = view[q] \/ view'[q] = NoRound
    OBVIOUS
  <2> QED
    BY <1>1, <1>4, <2>1, NoRoundFacts DEF UpToDate
<1> QED
  BY <1>1, <1>2, <1>5 DEF CalmInv

\* The server gets on with the only request, and tells nobody yet.
LEMMA CalmServes ==
    ASSUME LiveType, calm, CalmInv, NEW p \in Players, req[p] \in Live,
           req[p].phase # "answered", NEW phase, NEW copy, Proceed(p, phase, copy),
           phase # "sent", Agrees(copy)', UNCHANGED <<inbox, view, calm>>,
           \/ UNCHANGED <<card, deleted>> /\ \A q \in Players : UpToDate(q)
           \/ phase = "saved" /\ req[p].kind \in {"score", "delete"}
    PROVE  CalmInv'
<1>0. req[p] # Idle
  BY IdleIsNotLive
<1>1. /\ \A q \in Players : q # p => req'[q] = Idle
      /\ req'[p] # Idle /\ req'[p].kind = req[p].kind
      /\ req'[p].phase = phase /\ req'[p].copy = copy
  BY <1>0, Alone, ProceedFields
<1>2. \A q \in Players : inbox'[q] = <<>>
  BY <1>0, Alone
<1>3. OneAtATime'
  BY <1>1, <1>2 DEF OneAtATime
<1>4. ASSUME NEW q \in Players PROVE (Awaits(q) \/ UpToDate(q))'
  BY <1>1 DEF Awaits, UpToDate
<1> QED
  BY <1>1, <1>2, <1>3, <1>4 DEF CalmInv

\* A request ends; what its client shows then is up to date unless more is pushed.
LEMMA CalmEnds ==
    ASSUME LiveType, CalmInv, NEW p \in Players, req' = [req EXCEPT ![p] = Idle],
           UNCHANGED <<card, deleted, inbox, calm>>,
           \A q \in Players : q # p => view'[q] = view[q],
           calm => inbox[p] # <<>> \/ UpToDate(p)',
           calm => req[p].kind \notin {"score", "delete"} \/ req[p].phase # "saved"
    PROVE  CalmInv'
<1> SUFFICES ASSUME calm PROVE CalmInv'
  BY DEF CalmInv
<1>1. req'[p] = Idle /\ \A q \in Players : q # p => req'[q] = req[q]
  BY DEF LiveType
<1>2. OneAtATime'
  BY <1>1 DEF CalmInv, OneAtATime
<1>3. (\A q \in Players : req[q] # Idle /\ req[q].phase # "sent" => Agrees(req[q].copy))'
  BY <1>1 DEF CalmInv, Agrees
<1>4. \A q \in Players : inbox'[q] = <<>> \/ Pushed(q)'
  BY DEF CalmInv, Pushed, Agrees
<1>5. ASSUME NEW q \in Players PROVE (Awaits(q) \/ UpToDate(q))'
  <2>1. CASE q = p
    BY <2>1 DEF Awaits
  <2>2. CASE q # p
    <3>1. Awaits(q) \/ UpToDate(q)
      BY DEF CalmInv
    <3>2. Awaits(q) => Awaits(q)'
      BY <1>1, <2>2 DEF Awaits
    <3>3. UpToDate(q) => UpToDate(q)'
      BY <2>2 DEF UpToDate
    <3> QED
      BY <3>1, <3>2, <3>3
  <2> QED
    BY <2>1, <2>2
<1> QED
  BY <1>2, <1>3, <1>4, <1>5 DEF CalmInv

\* A push is shown.
LEMMA CalmShows ==
    ASSUME LiveType, CalmInv, NEW p \in Players, inbox[p] # <<>>,
           inbox' = [inbox EXCEPT ![p] = Tail(@)], UNCHANGED <<card, deleted, req, calm>>,
           \A q \in Players : q # p => view'[q] = view[q],
           view'[p] = Head(inbox[p]) \/ ~view'[p].there
    PROVE  CalmInv'
<1> SUFFICES ASSUME calm PROVE CalmInv'
  BY DEF CalmInv
<1>1. PICK c \in Round \cup {Gone} : inbox[p] = <<c>> /\ Agrees(c)
  BY DEF CalmInv, Pushed
<1>2. Head(inbox[p]) = c /\ Tail(inbox[p]) = <<>>
  BY <1>1
<1>3. inbox'[p] = <<>> /\ \A q \in Players : q # p => inbox'[q] = inbox[q]
  BY <1>2 DEF LiveType
<1>4. OneAtATime'
  BY <1>3 DEF CalmInv, OneAtATime
<1>5. (\A q \in Players : req[q] # Idle /\ req[q].phase # "sent" => Agrees(req[q].copy))'
  BY DEF CalmInv, Agrees
<1>6. \A q \in Players : inbox'[q] = <<>> \/ Pushed(q)'
  BY <1>3 DEF CalmInv, Pushed, Agrees
<1>7. UpToDate(p)'
  BY <1>1, <1>2 DEF UpToDate, Agrees
<1>8. ASSUME NEW q \in Players, q # p PROVE (Awaits(q) \/ UpToDate(q))'
  BY <1>3, <1>8 DEF CalmInv, Awaits, UpToDate
<1> QED
  BY <1>4, <1>5, <1>6, <1>7, <1>8 DEF CalmInv

LEMMA CalmStep == ASSUME LiveType, CalmInv, [Next]_vars PROVE CalmInv'
<1> USE DEF stored, client, history
<1>0. /\ req \in [Players -> {Idle} \cup Live] /\ view \in [Players -> Round \cup {NoRound}]
      /\ \A q \in Players : inbox[q] \in Seq(Round \cup {Gone})
  BY DEF LiveType
\* What a request carries agrees with what is stored.
<1>1. ASSUME calm, NEW p \in Players, req[p] # Idle, req[p].phase # "sent"
      PROVE  Agrees(req[p].copy)
  BY <1>1 DEF CalmInv
<1>2. ASSUME NEW p \in Players, OpenPage(p) PROVE CalmInv'
  <2>1. /\ Ask(p, Request("fetch", 0, 0)) /\ view' = [view EXCEPT ![p] = NoRound]
        /\ UNCHANGED <<stored, inbox, calm>>
    BY <1>2 DEF OpenPage, Shows
  <2>2. Request("fetch", 0, 0) # Idle /\ Request("fetch", 0, 0).phase = "sent"
    BY AskOK, ZeroIsHole, IdleIsNotLive DEF Kinds
  <2> QED
    BY <1>0, <2>1, <2>2, CalmAsk
<1>3. ASSUME NEW p \in Players, SetScore(p) PROVE CalmInv'
  <2> DEFINE h == HoleAt(view[p], index[p])
  <2>1. view[p] \in Round /\ index[p] \in Holes
    BY <1>3, NoRoundFacts DEF SetScore, LiveType
  <2>2. h \in Holes
    BY <2>1, HoleAtType
  <2>3. Ask(p, Request("score", index[p], h)) /\ UNCHANGED <<stored, view, inbox, calm>>
    BY <1>3 DEF SetScore
  <2> HIDE DEF h
  <2> QED
    BY <1>0, <2>1, <2>2, <2>3, AskOK, IdleIsNotLive, CalmAsk DEF Kinds
<1>4. ASSUME NEW p \in Players, CompleteRound(p) \/ DeleteRound(p) PROVE CalmInv'
  <2>1. PICK k \in Kinds : Ask(p, Request(k, 0, 0)) /\ UNCHANGED <<stored, view, inbox, calm>>
    BY <1>4 DEF CompleteRound, DeleteRound, Kinds
  <2> QED
    BY <1>0, <2>1, AskOK, ZeroIsHole, IdleIsNotLive, CalmAsk
<1>5. ASSUME NEW p \in Players, SetActiveHole(p) PROVE CalmInv'
  <2>1. UNCHANGED <<card, deleted, view, req, inbox, calm>>
    BY <1>5 DEF SetActiveHole
  <2> QED
    BY <2>1 DEF CalmInv, OneAtATime, Pushed, UpToDate, Awaits, Agrees
<1>6. ASSUME NEW p \in Players, Load(p), calm PROVE CalmInv'
  <2> DEFINE phase == IF req[p].kind = "fetch" THEN "answered" ELSE "loaded"
  <2>1. /\ req[p] \in Live /\ req[p] # Idle /\ req[p].phase = "sent" /\ ~deleted
        /\ Proceed(p, phase, Stored) /\ UNCHANGED <<card, deleted, view, inbox, calm>>
    BY <1>6, AtFacts DEF Load, At
  <2>2. PICK c : c = Stored
    OBVIOUS
  <2>3. Agrees(c)'
    BY <2>1, <2>2 DEF Agrees, Stored
  <2>4. \A q \in Players : UpToDate(q)
    BY <1>6, <2>1, AllUpToDate
  <2>5. phase # "sent"
    OBVIOUS
  <2> HIDE DEF phase
  <2> QED
    BY <1>6, <2>1, <2>2, <2>3, <2>4, <2>5, CalmServes
<1>7. ASSUME NEW p \in Players, SaveScore(p), calm PROVE CalmInv'
  <2> DEFINE copy == req[p].copy
             new == [copy EXCEPT !.card[p] = @ \cup {HoleAt(copy, req[p].index)}]
  <2>1. /\ req[p] \in Live /\ req[p] # Idle /\ req[p].phase = "loaded" /\ req[p].kind = "score"
        /\ copy \in Round /\ ~deleted
        /\ card' = [card EXCEPT ![p] = @ \cup {HoleAt(copy, req[p].index)}]
        /\ Proceed(p, "saved", IF Rotates(new) THEN [new EXCEPT !.offset = req[p].index] ELSE new)
        /\ UNCHANGED <<deleted, view, inbox, calm>>
    BY <1>7, AtFacts DEF SaveScore, At, CarriesCopy
  <2>2. copy.there /\ copy.card = card
    BY <1>1, <1>7, <2>1, NoRoundFacts DEF Agrees
  <2>3. new.there /\ new.card = card'
    BY <2>1, <2>2 DEF Round
  <2>4. [new EXCEPT !.offset = req[p].index].there /\ [new EXCEPT !.offset = req[p].index].card = card'
    BY <2>1, <2>3 DEF Round
  <2>5. PICK c : /\ c = IF Rotates(new) THEN [new EXCEPT !.offset = req[p].index] ELSE new
                 /\ c.there /\ c.card = card'
    BY <2>3, <2>4
  <2>6. Agrees(c)'
    BY <2>1, <2>5 DEF Agrees
  <2> HIDE DEF new, copy
  <2> QED
    BY <1>7, <2>1, <2>5, <2>6, CalmServes
<1>8. ASSUME NEW p \in Players, SaveSignature(p), calm PROVE CalmInv'
  <2> DEFINE copy == req[p].copy
             new == [copy EXCEPT !.signed = @ \cup {p},
                                 !.completed = Players \subseteq copy.signed \cup {p}]
  <2>1. /\ req[p] \in Live /\ req[p] # Idle /\ req[p].phase = "loaded"
        /\ req[p].kind = "complete" /\ copy \in Round
        /\ UNCHANGED <<card, deleted, view, inbox, calm>>
        /\ Proceed(p, "answered", copy) \/ Proceed(p, "saved", new)
    BY <1>8, AtFacts DEF SaveSignature, At, CarriesCopy
  <2>2. new.there = copy.there /\ new.card = copy.card
    BY <2>1 DEF Round
  <2>3. PICK c, d : c = copy /\ d = new
    OBVIOUS
  <2>4. Agrees(c)' /\ Agrees(d)'
    BY <1>1, <1>8, <2>1, <2>2, <2>3 DEF Agrees
  <2>5. \A q \in Players : UpToDate(q)
    BY <1>8, <2>1, AllUpToDate
  <2>6. Proceed(p, "answered", c) \/ Proceed(p, "saved", d)
    BY <2>1, <2>3
  <2> HIDE DEF new, copy
  <2> QED
    BY <1>8, <2>1, <2>4, <2>5, <2>6, CalmServes
<1>9. ASSUME NEW p \in Players, SaveDelete(p), calm PROVE CalmInv'
  <2>1. /\ req[p] \in Live /\ req[p].phase = "loaded" /\ req[p].kind = "delete"
        /\ deleted' = TRUE /\ Proceed(p, "saved", Gone) /\ UNCHANGED <<view, inbox, calm>>
    BY <1>9, AtFacts DEF SaveDelete
  <2>2. Agrees(Gone)'
    BY <2>1 DEF Agrees, Gone
  <2> QED
    BY <1>9, <2>1, <2>2, CalmServes
<1>10. ASSUME NEW p \in Players, Push(p), calm PROVE CalmInv'
  <2>1. /\ req[p] \in Live /\ req[p] # Idle /\ req[p].phase = "saved" /\ CarriesCopy(req[p])
        /\ Proceed(p, "answered", req[p].copy)
        /\ inbox' = [q \in Players |-> IF q = p /\ req[p].kind # "delete" THEN inbox[q]
                                        ELSE Append(inbox[q], req[p].copy)]
        /\ UNCHANGED <<card, deleted, view, calm>>
    BY <1>10, AtFacts DEF Push, At
  <2>2. /\ \A q \in Players : q # p => req[q] = Idle
        /\ \A q \in Players : inbox[q] = <<>>
    BY <1>10, <2>1, Alone
  <2>3. /\ \A q \in Players : q # p => req'[q] = Idle
        /\ req'[p] # Idle /\ req'[p].kind = req[p].kind
        /\ req'[p].phase = "answered" /\ req'[p].copy = req[p].copy
    BY <2>1, <2>2, ProceedFields
  <2>4. PICK c \in Round \cup {Gone} : c = req[p].copy
    BY <2>1 DEF CarriesCopy
  <2>5. Agrees(c)'
    BY <1>1, <1>10, <2>1, <2>4 DEF Agrees
  <2>6. ASSUME NEW q \in Players
        PROVE  inbox'[q] = IF q = p /\ req[p].kind # "delete" THEN <<>> ELSE <<c>>
    <3>1. Append(<<>>, c) = <<c>>
      OBVIOUS
    <3>2. inbox'[q] = IF q = p /\ req[p].kind # "delete" THEN inbox[q] ELSE Append(inbox[q], c)
      BY <2>1, <2>4
    <3>3. inbox[q] = <<>>
      BY <2>2
    <3> QED
      BY <3>1, <3>2, <3>3
  <2>7. OneAtATime'
    BY <2>3 DEF OneAtATime
  <2>8. ASSUME NEW q \in Players PROVE inbox'[q] = <<>> \/ Pushed(q)'
    BY <2>5, <2>6 DEF Pushed
  <2>9. ASSUME NEW q \in Players PROVE (Awaits(q) \/ UpToDate(q))'
    <3>1. CASE q # p \/ req[p].kind \in {"score", "delete"}
      BY <2>3, <2>6, <3>1 DEF Awaits
    <3>2. CASE req[p].kind \notin {"score", "delete"}
      <4>1. UpToDate(q)
        BY <1>10, <2>1, <3>2, AllUpToDate
      <4> QED
        BY <2>1, <4>1 DEF UpToDate
    <3> QED
      BY <3>1, <3>2
  <2>10. (\A q \in Players : req[q] # Idle /\ req[q].phase # "sent" => Agrees(req[q].copy))'
    BY <2>3, <2>4, <2>5
  <2> QED
    BY <2>7, <2>8, <2>9, <2>10 DEF CalmInv
<1>11. ASSUME NEW p \in Players, Fail(p) PROVE CalmInv'
  <2>1. /\ req[p] # Idle /\ (calm => req[p].phase \in {"sent", "loaded"})
        /\ req' = [req EXCEPT ![p] = Idle] /\ UNCHANGED <<card, deleted, inbox, view, calm>>
    BY <1>11 DEF Fail
  <2>2. calm => UpToDate(p)
    BY <2>1, AllUpToDate
  <2>3. calm => UpToDate(p)'
    BY <2>1, <2>2 DEF UpToDate
  <2> QED
    BY <2>1, <2>3, CalmEnds
<1>12. ASSUME NEW p \in Players, ShowAnswer(p) PROVE CalmInv'
  <2>1. /\ req[p] # Idle /\ req[p].phase = "answered" /\ req[p].kind \in {"fetch", "score"}
        /\ req' = [req EXCEPT ![p] = Idle] /\ view' = [view EXCEPT ![p] = req[p].copy]
        /\ UNCHANGED <<card, deleted, inbox, calm>>
    BY <1>12 DEF ShowAnswer, At, Shows, Answered
  <2>2. view'[p] = req[p].copy /\ \A q \in Players : q # p => view'[q] = view[q]
    BY <1>0, <2>1
  <2>3. calm => UpToDate(p)'
    BY <1>1, <2>1, <2>2 DEF UpToDate, Agrees
  <2> QED
    BY <2>1, <2>2, <2>3, CalmEnds
<1>13. ASSUME NEW p \in Players, ShowCompleted(p) PROVE CalmInv'
  <2>1. /\ req[p] # Idle /\ req[p].phase = "answered" /\ req[p].kind = "complete"
        /\ req' = [req EXCEPT ![p] = Idle]
        /\ view' = [view EXCEPT ![p] = IF view[p].there THEN [view[p] EXCEPT !.completed = TRUE]
                                                       ELSE view[p]]
        /\ UNCHANGED <<card, deleted, inbox, calm>>
    BY <1>13 DEF ShowCompleted, At, Shows, Answered
  <2>2. \A q \in Players : q # p => view'[q] = view[q]
    BY <1>0, <2>1
  <2>3. view[p].there => view[p] \in Round
    BY <1>0, NoRoundFacts
  <2>4. view'[p].there = view[p].there /\ (view[p].there => view'[p].card = view[p].card)
    BY <1>0, <2>1, <2>3 DEF Round
  <2>5. calm => inbox[p] # <<>> \/ UpToDate(p)
    <3>1. SUFFICES ASSUME calm, inbox[p] = <<>> PROVE ~Awaits(p)
      BY DEF CalmInv
    <3>2. \A q \in Players : q # p => req[q] = Idle
      BY <2>1, <3>1 DEF CalmInv, OneAtATime
    <3> QED
      BY <2>1, <3>1, <3>2 DEF Awaits
  <2>6. calm => inbox[p] # <<>> \/ UpToDate(p)'
    BY <2>1, <2>4, <2>5 DEF UpToDate
  <2> QED
    BY <2>1, <2>2, <2>6, CalmEnds
<1>14. ASSUME NEW p \in Players, ShowNone(p) PROVE CalmInv'
  <2>1. /\ req[p].phase = "answered"
        /\ req' = [req EXCEPT ![p] = Idle] /\ view' = [view EXCEPT ![p] = NoRound]
        /\ UNCHANGED <<card, deleted, inbox, calm>>
    BY <1>14 DEF ShowNone, At, Shows, Answered
  <2>2. view'[p] = NoRound /\ \A q \in Players : q # p => view'[q] = view[q]
    BY <1>0, <2>1
  <2>3. UpToDate(p)'
    BY <2>2, NoRoundFacts DEF UpToDate
  <2> QED
    BY <2>1, <2>2, <2>3, CalmEnds
<1>15. ASSUME NEW p \in Players, RoundUpdated(p) \/ RoundDeleted(p) PROVE CalmInv'
  <2>1. /\ inbox[p] # <<>> /\ inbox' = [inbox EXCEPT ![p] = Tail(@)]
        /\ UNCHANGED <<card, deleted, req, calm>>
        /\ \/ view' = [view EXCEPT ![p] = Head(inbox[p])]
           \/ view' = [view EXCEPT ![p] = NoRound]
    BY <1>15 DEF RoundUpdated, RoundDeleted, Received, Shows
  <2>2. /\ \A q \in Players : q # p => view'[q] = view[q]
        /\ view'[p] = Head(inbox[p]) \/ view'[p] = NoRound
    BY <1>0, <2>1
  <2> QED
    BY <2>1, <2>2, NoRoundFacts, CalmShows
<1>16. ASSUME UNCHANGED vars \/ ~calm, calm' = calm PROVE CalmInv'
  <2>1. CASE UNCHANGED vars
    BY <2>1 DEF vars, CalmInv, OneAtATime, Pushed, UpToDate, Awaits, Agrees
  <2> QED
    BY <1>16, <2>1 DEF CalmInv
<1>17. calm' = calm
  BY DEF Next, OpenPage, SetScore, CompleteRound, DeleteRound, SetActiveHole, Load, SaveScore,
         SaveSignature, SaveDelete, Push, Fail, ShowAnswer, ShowCompleted, ShowNone, RoundUpdated,
         RoundDeleted, LosePush, Answered, Received, vars
<1>18. ASSUME NEW p \in Players, LosePush(p) PROVE ~calm
  BY <1>18 DEF LosePush
<1> QED
  BY <1>2, <1>3, <1>4, <1>5, <1>6, <1>7, <1>8, <1>9, <1>10, <1>11, <1>12, <1>13, <1>14, <1>15,
     <1>16, <1>17, <1>18 DEF Next

\* As long as requests do not overlap, everybody has been told of all that is stored,
\* or is about to be.
LEMMA CalmInvariant == Spec => []CalmInv
<1>1. ASSUME Init PROVE CalmInv
  <2>1. \A p \in Players : req[p] = Idle /\ inbox[p] = <<>> /\ ~view[p].there
    BY <1>1, NoRoundFacts DEF Init
  <2> QED
    BY <2>1 DEF CalmInv, OneAtATime, UpToDate
<1>2. LiveType /\ CalmInv /\ [Next]_vars => CalmInv'
  BY CalmStep
<1> QED
  BY <1>1, <1>2, LiveTypeInvariant, PTL DEF Spec

\* SettlesOnStored for any number of players and holes, wherever the round starts:
\* an answer or a push reaches every client before the next request is sent.
THEOREM ClientsSettle == Spec => []SettlesOnStored
<1>1. CalmInv => SettlesOnStored
  <2> SUFFICES ASSUME CalmInv, calm, Quiet, NEW p \in Players, view[p].there
               PROVE  ~deleted /\ view[p].card = card
    BY DEF SettlesOnStored
  <2>1. ~Awaits(p)
    BY DEF Quiet, Awaits
  <2> QED
    BY <2>1 DEF CalmInv, UpToDate
<1> QED
  BY <1>1, CalmInvariant, PTL

-----------------------------------------------------------------------------
(* The hole that is shown, in a round that starts at its first hole *)

\* In the order of the course the next hole is the first one open to anybody, or the last.
LEMMA NextIsLeast ==
    ASSUME NEW r \in Round, r.offset = 0
    PROVE  /\ NextUncompleted(r) \in Holes
           /\ \A h \in Holes : h < NextUncompleted(r) => \A q \in Players : h \in r.card[q]
           /\ \/ \E q \in Players : NextUncompleted(r) \notin r.card[q]
              \/ NextUncompleted(r) = NumHoles - 1
<1> DEFINE open == {q \in Players : r.card[q] # Holes}
<1>1. \A q \in Players : r.card[q] \subseteq Holes
  BY DEF Round
<1>2. \A i \in Holes : HoleAt(r, i) = i
  BY HoleAtType
<1>3. \A h \in Holes : IndexOf(r, h) = h
  BY <1>2, IndexOfType
<1>4. CASE open = {}
  <2>1. NextUncompleted(r) = NumHoles - 1
    BY <1>4 DEF NextUncompleted
  <2> QED
    BY <1>4, <2>1 DEF Holes
<1>5. CASE open # {}
  <2> DEFINE first == {FirstOpen(r, q) : q \in open}
  <2>1. ASSUME NEW q \in open
        PROVE  /\ FirstOpen(r, q) \in Holes /\ FirstOpen(r, q) \notin r.card[q]
               /\ \A h \in Holes : h < FirstOpen(r, q) => h \in r.card[q]
    <3> DEFINE T == {i \in Holes : HoleAt(r, i) \notin r.card[q]}
    <3>1. T = {i \in Holes : i \notin r.card[q]}
      BY <1>2
    <3>2. Holes \subseteq Nat /\ r.card[q] \subseteq Holes /\ r.card[q] # Holes
      BY <1>1, <2>1 DEF Holes
    <3> HIDE DEF T
    <3>3. T \in SUBSET Nat
      BY <3>1, <3>2
    <3>4. T # {}
      BY <3>1, <3>2
    <3>5. Min(T) \in T /\ \A y \in T : Min(T) <= y
      BY <3>3, <3>4, MinIsLeast
    <3>6. FirstOpen(r, q) = Min(T)
      <4>1. HoleAt(r, Min(T)) = Min(T)
        BY <1>2, <3>1, <3>5
      <4> QED
        BY <4>1 DEF FirstOpen, T
    <3>7. ASSUME NEW h \in Holes, h < Min(T) PROVE h \in r.card[q]
      <4>1. h \in Nat /\ Min(T) \in Nat
        BY <3>2, <3>3, <3>5
      <4>2. ~(Min(T) <= h)
        BY <3>7, <4>1
      <4>3. h \notin T
        BY <3>5, <4>2
      <4> QED
        BY <3>1, <4>3
    <3> QED
      BY <3>1, <3>5, <3>6, <3>7
  <2>2. first \in SUBSET Nat /\ first # {} /\ first \subseteq Holes
    BY <1>5, <2>1 DEF Holes
  <2>3. Min(first) \in first /\ \A y \in first : Min(first) <= y
    BY <2>2, MinIsLeast
  <2>4. NextUncompleted(r) = Min(first)
    BY <1>3, <1>5, <2>2, <2>3 DEF NextUncompleted
  <2>5. PICK q \in open : Min(first) = FirstOpen(r, q)
    BY <2>3
  <2>6. ASSUME NEW h \in Holes, h < Min(first), NEW p \in Players PROVE h \in r.card[p]
    <3>1. CASE p \notin open
      BY <3>1, <2>6
    <3>2. CASE p \in open
      <4>1. FirstOpen(r, p) \in first /\ FirstOpen(r, p) \in Holes
        BY <2>1, <3>2
      <4>2. Min(first) <= FirstOpen(r, p) /\ Min(first) \in Nat
        BY <2>2, <2>3, <4>1
      <4>3. h \in Nat /\ FirstOpen(r, p) \in Nat
        BY <4>1 DEF Holes
      <4>4. h < FirstOpen(r, p)
        BY <2>6, <4>2, <4>3
      <4> QED
        BY <2>1, <3>2, <4>4
    <3> QED
      BY <3>1, <3>2
  <2> QED
    BY <2>1, <2>2, <2>3, <2>4, <2>5, <2>6
<1> QED
  BY <1>4, <1>5

\* More scores lead to the same hole or to one that lies ahead, and then all have
\* scored the one shown before.
LEMMA NextIsAhead ==
    ASSUME NEW r \in Round, NEW s \in Round, r.offset = 0, s.offset = 0, More(r.card, s.card)
    PROVE  \/ NextUncompleted(s) = NextUncompleted(r)
           \/ /\ NextUncompleted(s) > NextUncompleted(r)
              /\ \A q \in Players : HoleAt(s, NextUncompleted(r)) \in s.card[q]
<1> DEFINE m == NextUncompleted(r)
           n == NextUncompleted(s)
<1>1. /\ m \in Holes /\ n \in Holes /\ HoleAt(s, m) = m
      /\ \A h \in Holes : h < m => \A q \in Players : h \in r.card[q]
      /\ \A h \in Holes : h < n => \A q \in Players : h \in s.card[q]
      /\ n = NumHoles - 1 \/ \E q \in Players : n \notin s.card[q]
  BY NextIsLeast, HoleAtType
<1> HIDE DEF m, n
<1>2. m \in Nat /\ n \in Nat /\ m <= NumHoles - 1
  BY <1>1 DEF Holes
<1>3. ~(n < m)
  <2> SUFFICES ASSUME n < m PROVE FALSE
    OBVIOUS
  <2>1. \A q \in Players : n \in s.card[q]
    BY <1>1 DEF More
  <2> QED
    BY <1>1, <1>2, <2>1
<1>4. n > m => \A q \in Players : HoleAt(s, m) \in s.card[q]
  BY <1>1, <1>2
<1>5. n = m \/ n > m
  BY <1>2, <1>3
<1> QED
  BY <1>4, <1>5 DEF m, n

\* Whoever has not looked elsewhere is shown the next hole of his copy.
OnNext(p) == view[p].there /\ ~wandered[p] => index[p] = NextUncompleted(view[p])

\* Nobody is told of what he does himself, except that the round is gone.
OwnInbox(p) == req[p] # Idle /\ req[p].kind # "delete" => inbox[p] = <<>>

Playing(p) == req[p].kind = "score" => view[p].there

\* Who shows no round has not played yet, or waits for the round to be shown again.
Unopened(p) == ~view[p].there /\ ~deleted =>
                   req[p].kind = "fetch" \/ (index[p] = 0 /\ card[p] = {})

Moves(p) == OnNext(p) /\ OwnInbox(p) /\ Playing(p) /\ Unopened(p)

GroupInv == calm => \A p \in Players : Moves(p)

\* What one player or his request does leaves the others where they are.
LEMMA OneMoves ==
    ASSUME GroupInv, calm' = calm, deleted => deleted', NEW p \in Players,
           \A q \in Players : q # p =>
               /\ UNCHANGED <<view[q], index[q], wandered[q], req[q], card[q]>>
               /\ calm => inbox'[q] = inbox[q] \/ req[q] = Idle,
           calm => Moves(p)'
    PROVE  GroupInv'
<1>1. ASSUME calm, NEW q \in Players, q # p PROVE Moves(q)'
  BY <1>1 DEF GroupInv, Moves, OnNext, OwnInbox, Playing, Unopened
<1> QED
  BY <1>1 DEF GroupInv

\* A request begins.
LEMMA GroupAsks ==
    ASSUME LiveType, GroupInv, NEW p \in Players, NEW r \in Live, Ask(p, r),
           r.kind = "score" => view[p].there,
           UNCHANGED <<view, index, wandered, card, deleted, inbox, calm>>
    PROVE  GroupInv'
<1>1. /\ req[p] = Idle /\ req'[p] = r /\ \A q \in Players : q # p => req'[q] = req[q]
      /\ calm => inbox[p] = <<>>
  BY DEF Ask, LiveType, Quiet
<1>2. ASSUME calm PROVE Moves(p)'
  <2>1. Moves(p) /\ req[p].kind = "idle"
    BY <1>1, <1>2, IdleIsNotLive DEF GroupInv
  <2> QED
    BY <1>1, <1>2, <2>1 DEF Moves, OnNext, OwnInbox, Playing, Unopened
<1> QED
  BY <1>1, <1>2, OneMoves

\* A request gets on, in the server.
LEMMA GroupServes ==
    ASSUME LiveType, GroupInv, NEW p \in Players, req[p] \in Live, NEW phase, NEW copy,
           Proceed(p, phase, copy), UNCHANGED <<view, index, wandered, calm>>,
           deleted => deleted', calm => inbox'[p] = inbox[p] \/ req[p].kind = "delete",
           \A q \in Players : q # p =>
               card'[q] = card[q] /\ (calm => inbox'[q] = inbox[q] \/ req[q] = Idle),
           card'[p] = card[p] \/ req[p].kind = "score"
    PROVE  GroupInv'
<1>1. /\ req[p] # Idle /\ req'[p].kind = req[p].kind
      /\ \A q \in Players : q # p => req'[q] = req[q]
  BY IdleIsNotLive, ProceedFields
<1>2. ASSUME calm PROVE Moves(p)'
  <2>1. Moves(p)
    BY <1>2 DEF GroupInv
  <2> QED
    BY <1>1, <1>2, <2>1 DEF Moves, OnNext, OwnInbox, Playing, Unopened
<1> QED
  BY <1>1, <1>2, OneMoves

\* A request ends, or a push is shown to somebody who has not asked for anything
\* or for the end of the round.
LEMMA GroupShows ==
    ASSUME LiveType, GroupInv, NEW p \in Players,
           \A q \in Players : q # p =>
               UNCHANGED <<view[q], index[q], wandered[q], req[q], inbox[q]>>,
           calm => \/ req'[p] = Idle
                   \/ req'[p] = req[p] /\ (req[p] = Idle \/ req[p].kind = "delete"),
           calm => inbox'[p] = inbox[p] \/ req[p] = Idle \/ req[p].kind = "delete",
           UNCHANGED <<card, deleted, calm>>,
           calm => OnNext(p)' /\ Unopened(p)'
    PROVE  GroupInv'
<1>1. ASSUME calm PROVE Moves(p)'
  <2>1. Moves(p) /\ Idle.kind = "idle"
    BY <1>1, IdleIsNotLive DEF GroupInv
  <2>2. OwnInbox(p)' /\ Playing(p)'
    BY <1>1, <2>1 DEF Moves, OwnInbox, Playing
  <2> QED
    BY <1>1, <2>2 DEF Moves
<1> QED
  BY <1>1, OneMoves

\* An update of the round is pushed to a player: the hole he is shown, or one that
\* lies ahead, is the first one open.
LEMMA GroupFollows ==
    ASSUME ~AnyStart, LiveType, LandInv, CalmInv, GroupInv, calm, NEW p \in Players,
           NEW c \in Round, inbox[p] = <<c>>, Agrees(c), ~wandered[p]
    PROVE  (IF Advances(p, c) THEN NextUncompleted(c) ELSE index[p]) = NextUncompleted(c)
<1>1. c.there /\ ~deleted /\ c.card = card /\ c.card[p] \subseteq Holes
  BY NoRoundFacts DEF Agrees, Round
<1>2. c.offset = 0
  <2>1. inbox[p] \in Seq(LandCopies(card))
    BY DEF LandInv
  <2>2. Head(inbox[p]) \in LandCopies(card) /\ Head(inbox[p]) = c
    BY <2>1, HeadTailProperties
  <2> QED
    BY <2>2, NoRoundFacts DEF LandCopies
<1>3. CASE view[p].there
  <2>1. view[p] \in LandCopies(card) \cup {NoRound}
    BY DEF LandInv
  <2>2. view[p] \in Round /\ view[p].offset = 0 /\ More(view[p].card, c.card)
    BY <1>1, <1>3, <2>1, NoRoundFacts DEF LandCopies, More, Gone
  <2>3. index[p] = NextUncompleted(view[p])
    BY <1>3 DEF GroupInv, Moves, OnNext
  <2> QED
    BY <1>2, <2>2, <2>3, NextIsAhead DEF Advances
<1>4. CASE ~view[p].there
  <2>1. Moves(p) /\ inbox[p] # <<>>
    BY DEF GroupInv
  <2>2. index[p] = 0 /\ card[p] = {}
    BY <1>1, <1>4, <2>1, IdleIsNotLive DEF Moves, OwnInbox, Unopened, LiveType, ReqOK, Idle
  <2>3. NextUncompleted(c) = 0
    <3>1. NextUncompleted(c) \in Nat /\ 0 \in Holes /\ 0 \notin c.card[p]
      BY <1>1, <1>2, <2>2, NextIsLeast, ZeroIsHole DEF Holes
    <3>2. ~(0 < NextUncompleted(c))
      BY <1>2, <3>1, NextIsLeast
    <3> QED
      BY <3>1, <3>2
  <2> QED
    BY <2>2, <2>3
<1> QED
  BY <1>3, <1>4

LEMMA GroupStep ==
    ASSUME ~AnyStart, LiveType, LandInv, CalmInv, GroupInv, [Next]_vars
    PROVE  GroupInv'
<1> USE DEF stored, client, history
<1>0. /\ view \in [Players -> Round \cup {NoRound}] /\ index \in [Players -> Holes]
      /\ wandered \in [Players -> BOOLEAN] /\ card \in [Players -> SUBSET Holes]
  BY DEF LiveType
<1>1. ASSUME NEW p \in Players, OpenPage(p) PROVE GroupInv'
  <2>1. /\ view' = [view EXCEPT ![p] = NoRound] /\ index' = [index EXCEPT ![p] = 0]
        /\ wandered' = [wandered EXCEPT ![p] = FALSE]
        /\ req[p] = Idle /\ req' = [req EXCEPT ![p] = Request("fetch", 0, 0)] /\ (calm => Quiet)
        /\ UNCHANGED <<card, deleted, inbox, calm>>
    BY <1>1 DEF OpenPage, Ask, Shows, GoesTo
  <2>2. /\ ~view'[p].there /\ req'[p].kind = "fetch" /\ (calm => inbox'[p] = <<>>)
        /\ \A q \in Players : q # p => UNCHANGED <<view[q], index[q], wandered[q], req[q]>>
    BY <1>0, <2>1, NoRoundFacts, AskOK, ZeroIsHole DEF Kinds, LiveType, Quiet
  <2>3. calm => Moves(p)'
    BY <2>2 DEF Moves, OnNext, OwnInbox, Playing, Unopened
  <2> QED
    BY <2>1, <2>2, <2>3, OneMoves
<1>2. ASSUME NEW p \in Players, SetScore(p) PROVE GroupInv'
  <2> DEFINE h == HoleAt(view[p], index[p])
  <2>1. view[p] \in Round /\ index[p] \in Holes
    BY <1>2, NoRoundFacts DEF SetScore, LiveType
  <2>2. h \in Holes
    BY <2>1, HoleAtType
  <2>3. /\ Ask(p, Request("score", index[p], h)) /\ view[p].there
        /\ UNCHANGED <<view, index, wandered, card, deleted, inbox, calm>>
    BY <1>2 DEF SetScore
  <2> HIDE DEF h
  <2>4. Request("score", index[p], h) \in Live
    BY <2>1, <2>2, AskOK DEF Kinds
  <2> QED
    BY <2>3, <2>4, GroupAsks
<1>3. ASSUME NEW p \in Players, CompleteRound(p) \/ DeleteRound(p) PROVE GroupInv'
  <2>1. PICK k \in Kinds : /\ Ask(p, Request(k, 0, 0)) /\ view[p].there
                           /\ UNCHANGED <<view, index, wandered, card, deleted, inbox, calm>>
    BY <1>3 DEF CompleteRound, DeleteRound, Kinds
  <2> QED
    BY <2>1, AskOK, ZeroIsHole, GroupAsks
<1>4. ASSUME NEW p \in Players, SetActiveHole(p) PROVE GroupInv'
  <2>1. PICK i : /\ index' = [index EXCEPT ![p] = i] /\ view[p].there
                 /\ UNCHANGED <<view, req, inbox, card, deleted, calm>>
                 /\ wandered' = [wandered EXCEPT ![p] = TRUE]
    BY <1>4 DEF SetActiveHole, GoesTo
  <2>2. /\ wandered'[p] = TRUE
        /\ \A q \in Players : q # p => UNCHANGED <<view[q], index[q], wandered[q]>>
    BY <1>0, <2>1
  <2>3. calm => Moves(p)'
    BY <2>1, <2>2 DEF GroupInv, Moves, OnNext, OwnInbox, Playing, Unopened
  <2> QED
    BY <2>1, <2>2, <2>3, OneMoves
<1>5. ASSUME NEW p \in Players, Load(p) \/ SaveSignature(p) \/ SaveDelete(p) PROVE GroupInv'
  <2>1. PICK phase, copy : Proceed(p, phase, copy)
    BY <1>5 DEF Load, SaveSignature, SaveDelete
  <2>2. /\ req[p] \in Live /\ (deleted => deleted')
        /\ UNCHANGED <<view, index, wandered, card, inbox, calm>>
    BY <1>5, AtFacts DEF Load, SaveSignature, SaveDelete
  <2> QED
    BY <2>1, <2>2, GroupServes
<1>6. ASSUME NEW p \in Players, SaveScore(p) PROVE GroupInv'
  <2>1. PICK phase, copy : Proceed(p, phase, copy)
    BY <1>6 DEF SaveScore
  <2> DEFINE x == card[p] \cup {HoleAt(req[p].copy, req[p].index)}
  <2>2. /\ card' = [card EXCEPT ![p] = x]
        /\ req[p] \in Live /\ req[p].kind = "score"
        /\ UNCHANGED <<view, index, wandered, deleted, inbox, calm>>
    BY <1>6, AtFacts DEF SaveScore
  <2>3. \A q \in Players : q # p => card'[q] = card[q]
    BY <1>0, <2>2
  <2> QED
    BY <2>1, <2>2, <2>3, GroupServes
<1>7. ASSUME NEW p \in Players, Push(p) PROVE GroupInv'
  <2>1. PICK phase, copy : Proceed(p, phase, copy)
    BY <1>7 DEF Push
  <2>2. /\ req[p] \in Live /\ req[p].phase = "saved"
        /\ UNCHANGED <<view, index, wandered, card, deleted, calm>>
        /\ inbox'[p] = inbox[p] \/ req[p].kind = "delete"
    BY <1>7, AtFacts DEF Push
  <2>3. calm => \A q \in Players : q # p => req[q] = Idle
    BY <2>2, IdleIsNotLive DEF CalmInv, OneAtATime
  <2> QED
    BY <2>1, <2>2, <2>3, GroupServes
<1>8. ASSUME NEW p \in Players, Fail(p) PROVE GroupInv'
  <2>1. /\ req' = [req EXCEPT ![p] = Idle] /\ (calm => deleted)
        /\ UNCHANGED <<view, index, wandered, card, deleted, inbox, calm>>
    BY <1>8 DEF Fail
  <2>2. req'[p] = Idle /\ \A q \in Players : q # p => req'[q] = req[q]
    BY <2>1 DEF LiveType
  <2>3. calm => OnNext(p)' /\ Unopened(p)'
    BY <2>1 DEF GroupInv, Moves, OnNext, Unopened
  <2> QED
    BY <2>1, <2>2, <2>3, GroupShows
<1>9. ASSUME NEW p \in Players, ShowAnswer(p) PROVE GroupInv'
  <2>1. /\ view' = [view EXCEPT ![p] = req[p].copy] /\ req' = [req EXCEPT ![p] = Idle]
        /\ index' = [index EXCEPT ![p] = NextUncompleted(req[p].copy)]
        /\ wandered' = [wandered EXCEPT ![p] = FALSE]
        /\ req[p].copy \in Round /\ UNCHANGED <<card, deleted, inbox, calm>>
    BY <1>9, AtFacts DEF ShowAnswer, Shows, GoesTo, Answered, CarriesCopy
  <2>2. /\ view'[p] = req[p].copy /\ index'[p] = NextUncompleted(req[p].copy) /\ req'[p] = Idle
        /\ \A q \in Players : q # p => UNCHANGED <<view[q], index[q], wandered[q], req[q]>>
    BY <1>0, <2>1 DEF LiveType
  <2>3. PICK c \in Round : c = req[p].copy
    BY <2>1
  <2>4. c.there /\ view'[p] = c /\ index'[p] = NextUncompleted(c)
    BY <2>2, <2>3, NoRoundFacts
  <2>5. NextUncompleted(view[p])' = NextUncompleted(c)
    BY <2>4 DEF NextUncompleted, FirstOpen, IndexOf, HoleAt
  <2>6. OnNext(p)' /\ Unopened(p)'
    BY <2>4, <2>5 DEF OnNext, Unopened
  <2> QED
    BY <2>1, <2>2, <2>6, GroupShows
<1>10. ASSUME NEW p \in Players, ShowCompleted(p) PROVE GroupInv'
  <2> DEFINE done == [view[p] EXCEPT !.completed = TRUE]
  <2>1. /\ view' = [view EXCEPT ![p] = IF view[p].there THEN done ELSE view[p]]
        /\ req' = [req EXCEPT ![p] = Idle] /\ req[p].kind = "complete"
        /\ UNCHANGED <<index, wandered, card, deleted, inbox, calm>>
    BY <1>10 DEF ShowCompleted, At, Shows, Answered
  <2>2. /\ view'[p] = IF view[p].there THEN done ELSE view[p]
        /\ req'[p] = Idle
        /\ \A q \in Players : q # p => UNCHANGED <<view[q], index[q], wandered[q], req[q]>>
    BY <1>0, <2>1 DEF LiveType
  <2>3. ASSUME view[p].there
        PROVE done.there /\ done.card = view[p].card /\ done.offset = view[p].offset
    BY <1>0, <2>3, NoRoundFacts DEF Round
  <2> HIDE DEF done
  <2>4. ASSUME calm, view[p].there PROVE OnNext(p)' /\ Unopened(p)'
    <3>1. NextUncompleted(done) = NextUncompleted(view[p])
      BY <2>3, <2>4 DEF NextUncompleted, FirstOpen, IndexOf, HoleAt
    <3>2. view'[p] = done /\ done.there
      BY <2>2, <2>3, <2>4
    <3>3. NextUncompleted(view[p])' = NextUncompleted(done)
      BY <3>2 DEF NextUncompleted, FirstOpen, IndexOf, HoleAt
    <3>4. OnNext(p)
      BY <2>4 DEF GroupInv, Moves
    <3> QED
      BY <2>1, <2>4, <3>1, <3>2, <3>3, <3>4 DEF OnNext, Unopened
  <2>5. ASSUME calm, ~view[p].there PROVE OnNext(p)' /\ Unopened(p)'
    BY <2>1, <2>2, <2>5 DEF GroupInv, Moves, OnNext, Unopened
  <2> QED
    BY <2>1, <2>2, <2>4, <2>5, GroupShows
<1>11. ASSUME NEW p \in Players, ShowNone(p) PROVE GroupInv'
  <2>1. /\ view' = [view EXCEPT ![p] = NoRound] /\ req' = [req EXCEPT ![p] = Idle]
        /\ req[p] # Idle /\ req[p].phase = "answered" /\ req[p].copy = Gone
        /\ UNCHANGED <<index, wandered, card, deleted, inbox, calm>>
    BY <1>11, AtFacts DEF ShowNone, At, Shows, Answered, CarriesCopy
  <2>2. calm => deleted
    BY <2>1 DEF CalmInv, Agrees, Gone
  <2>3. /\ view'[p] = NoRound /\ req'[p] = Idle
        /\ \A q \in Players : q # p => UNCHANGED <<view[q], index[q], wandered[q], req[q]>>
    BY <1>0, <2>1 DEF LiveType
  <2>4. calm => OnNext(p)' /\ Unopened(p)'
    BY <2>1, <2>2, <2>3, NoRoundFacts DEF OnNext, Unopened
  <2> QED
    BY <2>1, <2>3, <2>4, GroupShows
<1>12. ASSUME NEW p \in Players, RoundUpdated(p) PROVE GroupInv'
  <2>1. /\ inbox[p] # <<>> /\ inbox' = [inbox EXCEPT ![p] = Tail(@)]
        /\ UNCHANGED <<wandered, req, card, deleted, calm>> /\ Head(inbox[p]) # Gone
        /\ view' = [view EXCEPT ![p] = Head(inbox[p])]
        /\ index' = [index EXCEPT ![p] = IF Advances(p, Head(inbox[p]))
                                         THEN NextUncompleted(Head(inbox[p])) ELSE index[p]]
    BY <1>12 DEF RoundUpdated, Received, Shows, GoesTo
  <2>2. /\ view'[p] = Head(inbox[p])
        /\ index'[p] = IF Advances(p, Head(inbox[p]))
                       THEN NextUncompleted(Head(inbox[p])) ELSE index[p]
        /\ \A q \in Players : q # p => UNCHANGED <<view[q], index[q], inbox[q]>>
    BY <1>0, <2>1 DEF LiveType
  <2>3. calm => req[p] = Idle \/ req[p].kind = "delete"
    BY <2>1 DEF GroupInv, Moves, OwnInbox
  <2>4. ASSUME calm PROVE OnNext(p)' /\ Unopened(p)'
    <3>1. PICK c \in Round \cup {Gone} : inbox[p] = <<c>> /\ Agrees(c)
      BY <2>1, <2>4 DEF CalmInv, Pushed
    <3>2. c \in Round /\ Head(inbox[p]) = c /\ c.there
      BY <2>1, <3>1, NoRoundFacts
    <3>3. ~wandered[p] => index'[p] = NextUncompleted(c)
      BY <2>2, <2>4, <3>1, <3>2, GroupFollows
    <3>4. NextUncompleted(view[p])' = NextUncompleted(c)
      <4>1. view'[p] = c
        BY <2>2, <3>2
      <4> QED
        BY <4>1 DEF NextUncompleted, FirstOpen, IndexOf, HoleAt
    <3> QED
      BY <2>1, <2>2, <3>2, <3>3, <3>4 DEF OnNext, Unopened
  <2> QED
    BY <2>1, <2>2, <2>3, <2>4, GroupShows
<1>13. ASSUME NEW p \in Players, RoundDeleted(p) PROVE GroupInv'
  <2>1. /\ inbox[p] # <<>> /\ inbox' = [inbox EXCEPT ![p] = Tail(@)]
        /\ UNCHANGED <<index, wandered, req, card, deleted, calm>> /\ Head(inbox[p]) = Gone
        /\ view' = [view EXCEPT ![p] = NoRound]
    BY <1>13 DEF RoundDeleted, Received, Shows
  <2>2. /\ view'[p] = NoRound
        /\ \A q \in Players : q # p => UNCHANGED <<view[q], inbox[q]>>
    BY <1>0, <2>1 DEF LiveType
  <2>3. calm => req[p] = Idle \/ req[p].kind = "delete"
    BY <2>1 DEF GroupInv, Moves, OwnInbox
  <2>4. ASSUME calm PROVE deleted
    <3>1. PICK c \in Round \cup {Gone} : inbox[p] = <<c>> /\ Agrees(c)
      BY <2>1, <2>4 DEF CalmInv, Pushed
    <3> QED
      BY <2>1, <3>1 DEF Agrees, Gone
  <2>5. calm => OnNext(p)' /\ Unopened(p)'
    BY <2>1, <2>2, <2>4, NoRoundFacts DEF OnNext, Unopened
  <2> QED
    BY <2>1, <2>2, <2>3, <2>5, GroupShows
<1>14. ASSUME NEW p \in Players, LosePush(p) PROVE GroupInv'
  BY <1>14 DEF LosePush, GroupInv
<1>15. CASE UNCHANGED vars
  BY <1>15 DEF vars, GroupInv, Moves, OnNext, OwnInbox, Playing, Unopened
<1> QED
  BY <1>1, <1>2, <1>3, <1>4, <1>5, <1>6, <1>7, <1>8, <1>9, <1>10, <1>11, <1>12, <1>13, <1>14,
     <1>15 DEF Next

\* MovesWithGroup for any number of players and holes, in a round that starts on its
\* first hole: the push of a score moves the others on exactly when it was the last
\* one missing for the hole they are shown.
THEOREM PlayersMoveTogether ==
    ASSUME ~AnyStart
    PROVE  Spec => []MovesWithGroup
<1>1. ASSUME Init PROVE GroupInv
  <2>1. \A p \in Players : /\ req[p] = Idle /\ inbox[p] = <<>> /\ view[p] = NoRound
                           /\ index[p] = 0 /\ card[p] = {}
    BY <1>1 DEF Init
  <2> QED
    BY <2>1, NoRoundFacts, IdleIsNotLive DEF GroupInv, Moves, OnNext, OwnInbox, Playing, Unopened
<1>2. LiveType /\ LandInv /\ CalmInv /\ GroupInv /\ [Next]_vars => GroupInv'
  BY GroupStep
<1>3. GroupInv => MovesWithGroup
  BY DEF GroupInv, Moves, OnNext, MovesWithGroup
<1> QED
  BY <1>1, <1>2, <1>3, LiveTypeInvariant, LandInvariant, CalmInvariant, PTL DEF Spec
=============================================================================
