--------------------------- MODULE FeedsOrderProofs ---------------------------
(***************************************************************************)
(* Theorems about Feeds when requests do not overlap and nothing fails by  *)
(* itself, for any number of scores and completions: the feed shows the    *)
(* score of every hole once the events about it are handled, and no        *)
(* message fails for good while its round is there.                        *)
(***************************************************************************)
EXTENDS FeedsProofs

-----------------------------------------------------------------------------
(* The invariant *)

\* The round is there, or UpdateRatingsCommandHandler may still bring it back.
Alive ==
    \/ exists
    \/ round # "gone" /\ Running("updateRatings", "feed") /\ "load" \notin left

\* The events in the order in which they will be handled.
Line == queue \o unpublished

\* The places of those that will still add the item of the score.
Turns(s) ==
    {i \in DOMAIN Line : /\ Line[i].kind = "score" /\ Line[i].slot = s
                         /\ ~(i = 1 /\ busy /\ "add" \notin left)}

Cleaned == busy /\ "clean" \notin left

\* Of the events T about one score in the line L, with the items H and the score
\* stored: only the first need not say that it changed the score, and then there
\* is no item; the last tells of the score as it is stored; without an event the
\* item is there or not as the score asks for.
FirstFinds(T, L, H, cleaned) ==
    \A i \in T : (\A j \in T : i <= j) => H = {} \/ (L[i].changed /\ ~(i = 1 /\ cleaned))
LastSays(T, L, stored) ==
    \A i \in T : (\A j \in T : j <= i) => (L[i].low <=> stored = "low")
SlotOK(T, L, stored, H, cleaned) ==
    /\ \A i, j \in T : i < j => L[j].changed
    /\ FirstFinds(T, L, H, cleaned)
    /\ LastSays(T, L, stored)
    /\ T = {} => (H # {} <=> stored = "low")
    /\ \A x, y \in H : x = y
    /\ stored = "none" => T = {}

SlotsOK == \A s \in Slots : SlotOK(Turns(s), Line, score[s], HoleItems(s), Cleaned)

ScoresOnLine == \A i \in DOMAIN Line : Line[i].kind = "score" => Line[i].slot \in Slots

InOrder ==
    /\ delayed = <<>> /\ errors = <<>>
    /\ Running("score", "clean") => "add" \in left
    /\ \A i \in DOMAIN sends : sends[i].kind # "score"
    /\ ScoresOnLine
    /\ SlotsOK

OrderOK ==
    /\ score \in [Slots -> {"none", "low", "other"}]
    /\ used \in [Steps -> Nat]
    /\ ordered => Len(unpublished) <= 1
    /\ ordered /\ Alive => InOrder

-----------------------------------------------------------------------------
(* The events about one score *)

\* The events T of the line L have moved: that at place j of M was at from[j].
Moved(from, T, L, U, M) ==
    /\ T \in SUBSET Nat /\ U \in SUBSET Nat /\ from \in [U -> T]
    /\ \A i \in T : \E j \in U : from[j] = i
    /\ \A j, k \in U : j < k <=> from[j] < from[k]
    /\ \A j \in U : M[j] = L[from[j]]

\* The place of an event does not matter, only which comes before which.
LEMMA SlotMoves ==
    ASSUME NEW from, NEW T, NEW L, NEW U, NEW M, NEW stored, NEW H, NEW cleaned,
           Moved(from, T, L, U, M), SlotOK(T, L, stored, H, cleaned)
    PROVE  SlotOK(U, M, stored, H, FALSE)
<1> USE DEF Moved
<1>1. \A i, j \in T : i < j => L[j].changed
  BY DEF SlotOK
<1>2. \A i, j \in U : i < j => M[j].changed
  <2> TAKE i, j \in U
  <2> HAVE i < j
  <2>1. from[i] \in T /\ from[j] \in T /\ from[i] < from[j]
    OBVIOUS
  <2>2. L[from[j]].changed
    BY <1>1, <2>1
  <2> QED
    BY <2>2
<1>3. \A j, k \in U : j <= k <=> from[j] <= from[k]
  <2> TAKE j, k \in U
  <2>1. from[j] \in Nat /\ from[k] \in Nat /\ j \in Nat /\ k \in Nat
    OBVIOUS
  <2>2. k < j <=> from[k] < from[j]
    OBVIOUS
  <2> QED
    BY <2>1, <2>2
<1>4. FirstFinds(U, M, H, FALSE)
  <2> SUFFICES ASSUME NEW j \in U, \A k \in U : j <= k
               PROVE  H = {} \/ M[j].changed
    BY DEF FirstFinds
  <2>1. \A i \in T : from[j] <= i
    BY <1>3
  <2>2. H = {} \/ L[from[j]].changed
    BY <2>1 DEF SlotOK, FirstFinds
  <2> QED
    BY <2>2
<1>5. LastSays(U, M, stored)
  <2> SUFFICES ASSUME NEW j \in U, \A k \in U : k <= j
               PROVE  M[j].low <=> stored = "low"
    BY DEF LastSays
  <2>1. \A i \in T : i <= from[j]
    BY <1>3
  <2> QED
    BY <2>1 DEF SlotOK, LastSays
<1>6. U = {} <=> T = {}
  OBVIOUS
<1> QED
  BY <1>2, <1>4, <1>5, <1>6 DEF SlotOK

\* The same events at the same places.
LEMMA SlotStays ==
    ASSUME NEW T, NEW L, NEW M, NEW stored, NEW H, NEW cleaned \in BOOLEAN,
           NEW later \in BOOLEAN, 1 \in T => (later => cleaned),
           \A j \in T : M[j] = L[j],
           SlotOK(T, L, stored, H, cleaned)
    PROVE  SlotOK(T, M, stored, H, later)
<1>1. FirstFinds(T, M, H, later)
  BY DEF SlotOK, FirstFinds
<1>2. LastSays(T, M, stored)
  BY DEF SlotOK, LastSays
<1>3. \A i, j \in T : i < j => M[j].changed
  BY DEF SlotOK
<1> QED
  BY <1>1, <1>2, <1>3 DEF SlotOK

\* The line M goes on from the events T of the line L to place n.
GoesOn(T, L, n, M) ==
    /\ T \in SUBSET Nat /\ n \in Nat
    /\ \A i \in T : i < n /\ M[i] = L[i]

\* A score is registered: its event comes last.
LEMMA SlotScored ==
    ASSUME NEW T, NEW L, NEW n, NEW M, NEW stored, NEW registered, NEW H, NEW cleaned,
           GoesOn(T, L, n, M), SlotOK(T, L, stored, H, cleaned),
           M[n].low <=> registered = "low",
           M[n].changed \/ stored = "none", registered # "none",
           n = 1 => ~cleaned
    PROVE  SlotOK(T \cup {n}, M, registered, H, cleaned)
<1> USE DEF GoesOn
<1>1. stored = "none" => T = {} /\ H = {}
  BY DEF SlotOK
<1>2. \A i, j \in T \cup {n} : i < j => M[j].changed
  <2>1. \A i, j \in T : i < j => M[j].changed
    BY DEF SlotOK
  <2>2. \A i \in T : M[n].changed
    BY <1>1
  <2>3. ASSUME NEW i \in T \cup {n}, NEW j \in T, i < j PROVE M[j].changed
    <3>1. i \in T
      BY <2>3
    <3> QED
      BY <2>1, <2>3, <3>1
  <2>4. ASSUME NEW i \in T \cup {n}, i < n PROVE M[n].changed
    <3>1. i \in T
      BY <2>4
    <3> QED
      BY <2>2, <3>1
  <2> QED
    BY <2>3, <2>4
<1>3. FirstFinds(T \cup {n}, M, H, cleaned)
  <2> SUFFICES ASSUME NEW i \in T \cup {n}, \A j \in T \cup {n} : i <= j
               PROVE  H = {} \/ (M[i].changed /\ ~(i = 1 /\ cleaned))
    BY DEF FirstFinds
  <2>1. CASE i \in T
    BY <2>1 DEF SlotOK, FirstFinds
  <2>2. CASE i = n
    BY <2>2, <1>1
  <2> QED
    BY <2>1, <2>2
<1>4. LastSays(T \cup {n}, M, registered)
  <2> SUFFICES ASSUME NEW i \in T \cup {n}, \A j \in T \cup {n} : j <= i
               PROVE  M[i].low <=> registered = "low"
    BY DEF LastSays
  <2>1. i = n
    OBVIOUS
  <2> QED
    BY <2>1
<1> QED
  BY <1>2, <1>3, <1>4 DEF SlotOK

\* The first event is about the score: the item of the older score is removed, ...
LEMMA SlotCleaned ==
    ASSUME NEW T \in SUBSET (Nat \ {0}), 1 \in T, NEW L, NEW stored, NEW H,
           SlotOK(T, L, stored, H, FALSE)
    PROVE  SlotOK(T, L, stored, IF L[1].changed THEN {} ELSE H, TRUE)
<1>1. \A j \in T : 1 <= j
  OBVIOUS
<1>2. H = {} \/ L[1].changed
  BY <1>1 DEF SlotOK, FirstFinds
<1>3. (IF L[1].changed THEN {} ELSE H) = {}
  BY <1>2
<1>4. FirstFinds(T, L, {}, TRUE)
  BY DEF FirstFinds
<1> QED
  BY <1>3, <1>4 DEF SlotOK

\* ... and that of the new score is added.
LEMMA SlotAdded ==
    ASSUME NEW T \in SUBSET (Nat \ {0}), 1 \in T, NEW L, NEW stored, NEW H, NEW x,
           SlotOK(T, L, stored, H, TRUE)
    PROVE  SlotOK(T \ {1}, L, stored, IF L[1].low THEN H \cup {x} ELSE H, TRUE)
<1>1. \A j \in T : 1 <= j
  OBVIOUS
<1>2. H = {}
  BY <1>1 DEF SlotOK, FirstFinds
<1>3. \A j \in T \ {1} : L[j].changed
  BY <1>1 DEF SlotOK
<1> DEFINE G == IF L[1].low THEN H \cup {x} ELSE H
<1>4. FirstFinds(T \ {1}, L, G, TRUE)
  BY <1>3 DEF FirstFinds
<1>5. LastSays(T \ {1}, L, stored)
  <2> SUFFICES ASSUME NEW i \in T \ {1}, \A j \in T \ {1} : j <= i
               PROVE  L[i].low <=> stored = "low"
    BY DEF LastSays
  <2>1. \A j \in T : j <= i
    BY <1>1
  <2> QED
    BY <2>1 DEF SlotOK, LastSays
<1>6. T \ {1} = {} => (G # {} <=> stored = "low")
  <2> HAVE T \ {1} = {}
  <2>1. \A j \in T : j <= 1
    OBVIOUS
  <2>2. L[1].low <=> stored = "low"
    BY <2>1 DEF SlotOK, LastSays
  <2> QED
    BY <1>2, <2>2
<1>7. \A y, z \in G : y = z
  BY <1>2
<1>8. stored = "none" => T \ {1} = {}
  BY DEF SlotOK
<1>9. \A i, j \in T \ {1} : i < j => L[j].changed
  BY <1>3
<1> QED
  BY <1>4, <1>5, <1>6, <1>7, <1>8, <1>9 DEF SlotOK

-----------------------------------------------------------------------------
(* The line of events *)

LEMMA SlotsNext ==
    ASSUME \A s \in Slots : SlotOK(Turns(s)', Line', score'[s], HoleItems(s)', Cleaned')
    PROVE  SlotsOK'
BY DEF SlotsOK, SlotOK, FirstFinds, LastSays

LEMMA LineType ==
    ASSUME MessagesOK
    PROVE  /\ Len(queue) \in Nat /\ Len(unpublished) \in Nat
           /\ DOMAIN queue = 1..Len(queue) /\ DOMAIN unpublished = 1..Len(unpublished)
           /\ DOMAIN Line = 1..(Len(queue) + Len(unpublished))
           /\ \A i \in 1..Len(queue) : Line[i] = queue[i]
           /\ \A i \in (Len(queue) + 1)..(Len(queue) + Len(unpublished)) :
                 Line[i] = unpublished[i - Len(queue)]
           /\ \A i \in DOMAIN Line : Line[i] \in Message
           /\ busy => 1 \in DOMAIN queue /\ 1 \in DOMAIN Line /\ Line[1] = Current
           /\ \A s : Turns(s) \in SUBSET (Nat \ {0})
<1>1. queue \in Seq(Allowed) /\ unpublished \in Seq(Allowed) /\ (busy => queue # <<>>)
  BY DEF MessagesOK
<1>2. /\ Len(queue) \in Nat /\ DOMAIN queue = 1..Len(queue)
      /\ Len(unpublished) \in Nat /\ DOMAIN unpublished = 1..Len(unpublished)
  BY <1>1, LenProperties
<1>3. /\ Line \in Seq(Allowed)
      /\ DOMAIN Line = 1..(Len(queue) + Len(unpublished))
      /\ \A i \in 1..(Len(queue) + Len(unpublished)) :
            Line[i] = IF i <= Len(queue) THEN queue[i] ELSE unpublished[i - Len(queue)]
  <2> HIDE DEF Allowed
  <2>1. /\ Line \in Seq(Allowed) /\ Len(Line) = Len(queue) + Len(unpublished)
        /\ \A i \in 1..(Len(queue) + Len(unpublished)) :
              Line[i] = IF i <= Len(queue) THEN queue[i] ELSE unpublished[i - Len(queue)]
    BY <1>1, ConcatProperties DEF Line
  <2> QED
    BY <2>1, LenProperties
<1>4. \A i \in DOMAIN Line : Line[i] \in Message
  BY <1>3, ElementOfSeq, LenProperties DEF Allowed
<1>5. busy => 1 \in DOMAIN queue /\ 1 \in DOMAIN Line /\ Line[1] = Current
  <2> HAVE busy
  <2>1. Len(queue) > 0
    BY <1>1, <1>2, EmptySeq
  <2>2. Head(queue) = queue[1]
    BY <1>1
  <2> QED
    BY <1>2, <1>3, <2>1, <2>2 DEF Current
<1>6. \A s : Turns(s) \in SUBSET (Nat \ {0})
  BY <1>2, <1>3 DEF Turns
<1> QED
  BY <1>2, <1>3, <1>4, <1>5, <1>6

\* What a handler does that is not about the scores, and a step that is none.
LEMMA OrderKept ==
    ASSUME EndInv, InOrder,
           UNCHANGED <<score, delayed, errors, busy>>,
           Line' = Line, busy => Current' = Current,
           \A i \in DOMAIN sends' : sends'[i].kind # "score",
           busy /\ Current.kind = "score" =>
              ("add" \in left' <=> "add" \in left) /\ ("clean" \in left' <=> "clean" \in left),
           \A s \in Slots : HoleItems(s)' = HoleItems(s)
    PROVE  InOrder'
<1>1. ASSUME NEW s \in Slots
      PROVE  SlotOK(Turns(s)', Line', score'[s], HoleItems(s)', Cleaned')
  <2>1. busy => Line[1] = Current
    BY LineType DEF EndInv
  <2>2. Turns(s)' = Turns(s)
    BY <2>1 DEF Turns
  <2>3. 1 \in Turns(s) => (Cleaned' => Cleaned)
    BY <2>1 DEF Turns, Cleaned
  <2>4. Cleaned \in BOOLEAN /\ Cleaned' \in BOOLEAN
    BY DEF Cleaned
  <2>5. SlotOK(Turns(s), Line, score[s], HoleItems(s), Cleaned)
    BY DEF InOrder, SlotsOK
  <2>6. SlotOK(Turns(s), Line, score[s], HoleItems(s), Cleaned')
    BY <2>3, <2>4, <2>5, SlotStays
  <2> QED
    BY <2>2, <2>6
<1>2. SlotsOK'
  BY <1>1, SlotsNext
<1>3. ScoresOnLine'
  BY DEF InOrder, ScoresOnLine
<1>4. (Running("score", "clean"))' => "add" \in left'
  BY DEF InOrder, Running
<1> QED
  BY <1>2, <1>3, <1>4 DEF InOrder

-----------------------------------------------------------------------------
(* A round that nothing brings back stays away *)

\* A handler that is not the one that loads the round for the ratings.
LEMMA ReturnsAlive ==
    ASSUME NEW h, h # "load", Returns(h), UNCHANGED <<round, queue, busy>>, Alive'
    PROVE  Alive
<1>1. exists' => exists
  BY DEF exists
<1>2. left' \subseteq left /\ ("load" \in left => "load" \in left')
  BY DEF Returns
<1>3. (Running("updateRatings", "feed"))' => Running("updateRatings", "feed")
  BY <1>2 DEF Running, Current
<1> QED
  BY <1>1, <1>2, <1>3 DEF Alive

LEMMA HandleAlive == ASSUME Handle, Alive' PROVE Alive
<1>1. CASE \E kind \in {"started", "completed"} : LoadRound(kind)
  BY <1>1 DEF LoadRound, Alive
<1>2. CASE \E kind \in {"started", "completed"} : FeedRound(kind)
  BY <1>2, ReturnsAlive DEF FeedRound, Around, roundVars
<1>3. CASE Notify
  BY <1>3, ReturnsAlive DEF Notify, Around, roundVars
<1>4. CASE CleanScore
  BY <1>4, ReturnsAlive DEF CleanScore, Around, roundVars
<1>5. CASE AddScore
  BY <1>5, ReturnsAlive DEF AddScore, Around, roundVars
<1>6. CASE RateLater
  BY <1>6, ReturnsAlive DEF RateLater, Around, roundVars
<1>7. CASE \E earned \in BOOLEAN : EvaluateAchievements(earned)
  BY <1>7 DEF EvaluateAchievements, Alive
<1>8. CASE FeedAchievement
  BY <1>8, ReturnsAlive DEF FeedAchievement, Around, roundVars
<1>9. CASE EraseRound
  BY <1>9, ReturnsAlive DEF EraseRound, Around, roundVars
<1>10. CASE LoadForRatings
  <2>1. exists' => exists
    BY <1>10 DEF LoadForRatings, Around, roundVars, exists
  <2>2. ~exists => left' = {}
    BY <1>10 DEF LoadForRatings
  <2> QED
    BY <2>1, <2>2 DEF Alive, Running
<1>11. CASE UpdateRatings
  BY <1>11 DEF UpdateRatings, Alive
<1> QED
  BY <1>1, <1>2, <1>3, <1>4, <1>5, <1>6, <1>7, <1>8, <1>9, <1>10, <1>11 DEF Handle

LEMMA GrownQueueAlive ==
    ASSUME EndInv, NEW m, m \in Allowed, queue' = Append(queue, m),
           UNCHANGED <<round, busy, left>>, Alive'
    PROVE  Alive
<1>1. busy => Head(Append(queue, m)) = Head(queue)
  BY HeadStays DEF EndInv, MessagesOK
<1>2. exists' => exists
  BY DEF exists
<1>3. (Running("updateRatings", "feed"))' => Running("updateRatings", "feed")
  BY <1>1 DEF Running, Current
<1> QED
  BY <1>2, <1>3 DEF Alive

LEMMA AliveBefore == ASSUME EndInv, [Next]_vars, Alive' PROVE Alive
<1>1. CASE \/ \E s \in Slots, low, changed \in BOOLEAN : UpdatePlayerScore(s, low, changed)
           \/ CompleteRound \/ DeleteRound \/ CleanUp
  BY <1>1 DEF UpdatePlayerScore, CompleteRound, DeleteRound, CleanUp, MayCommit, Alive
<1>2. CASE Publish
  <2>1. PICK i \in DOMAIN unpublished : /\ queue' = Append(queue, unpublished[i])
                                        /\ UNCHANGED <<round, busy, left>>
    BY <1>2 DEF Publish, roundVars, attempt
  <2>2. unpublished[i] \in Allowed
    BY <2>1 DEF EndInv, MessagesOK
  <2> QED
    BY <2>1, <2>2, GrownQueueAlive
<1>3. CASE DelayIsOver
  <2>1. PICK i \in DOMAIN delayed : /\ queue' = Append(queue, delayed[i])
                                    /\ UNCHANGED <<round, busy, left>>
    BY <1>3 DEF DelayIsOver, roundVars, attempt
  <2>2. delayed[i] \in Allowed
    BY <2>1 DEF EndInv, MessagesOK
  <2> QED
    BY <2>1, <2>2, GrownQueueAlive
<1>4. CASE Receive
  <2>1. (Running("updateRatings", "feed"))' => "load" \in left'
    BY <1>4 DEF Receive, Running, Current, HandlersOf
  <2>2. exists' => exists
    BY <1>4 DEF Receive, roundVars, exists
  <2> QED
    BY <2>1, <2>2 DEF Alive
<1>5. CASE Acknowledge \/ GiveUp \/ Crash
  <2>1. ~busy' /\ round' = round
    BY <1>5 DEF Acknowledge, GiveUp, Crash, roundVars
  <2> QED
    BY <2>1 DEF Alive, Running, exists
<1>6. CASE LosePublish \/ UNCHANGED vars
  <2>1. UNCHANGED <<round, queue, busy, left>>
    BY <1>6 DEF LosePublish, vars, roundVars, bus, attempt
  <2> QED
    BY <2>1 DEF Alive, Running, Current, exists
<1> QED
  BY <1>1, <1>2, <1>3, <1>4, <1>5, <1>6, HandleAlive DEF Next

-----------------------------------------------------------------------------
(* What an ordered run excludes *)

LEMMA NoFaults ==
    ASSUME OrderOK, ordered
    PROVE  ~LosePublish /\ ~Crash /\ ~Count("fail")
<1>1. used["fail"] \in Nat /\ used["crash"] \in Nat
  BY DEF OrderOK, Steps
<1>2. ~Count("crash")
  <2> SUFFICES ASSUME Count("crash") PROVE FALSE
    OBVIOUS
  <2>1. used'["fail"] = used["fail"] /\ used'["crash"] = used["crash"] + 1
    BY DEF Count, OrderOK, Steps
  <2>2. used'["fail"] + used'["crash"] <= 0
    BY DEF Count, Within
  <2> QED
    BY <1>1, <2>1, <2>2
<1>3. ~Count("fail")
  <2> SUFFICES ASSUME Count("fail") PROVE FALSE
    OBVIOUS
  <2>1. used'["fail"] = used["fail"] + 1 /\ used'["crash"] = used["crash"]
    BY DEF Count, OrderOK, Steps
  <2>2. used'["fail"] + used'["crash"] <= 0
    BY DEF Count, Within
  <2> QED
    BY <1>1, <2>1, <2>2
<1> QED
  BY <1>2, <1>3 DEF LosePublish, Crash

\* Nothing of what is there twice, or of what is gone, meets a handler.
LEMMA NoThrow == ASSUME EndInv, InOrder, Alive, busy PROVE ~Throws
<1>1. Line[1] = Current /\ 1 \in DOMAIN Line
  BY LineType DEF EndInv
<1>2. ~(/\ ~exists /\ Current.kind \in {"started", "completed"}
        /\ left \cap {"load", "notify", "evaluate"} # {})
  BY DEF Alive, Running
<1>3. ~(round = "gone" /\ Running("updateRatings", "feed") /\ "load" \notin left)
  BY DEF Alive, exists
<1>4. ASSUME Current.kind = "score" PROVE ~(Cardinality(HoleItems(Current.slot)) > 1)
  <2>1. Current.slot \in Slots
    BY <1>1, <1>4 DEF InOrder, ScoresOnLine
  <2>2. \A x, y \in HoleItems(Current.slot) : x = y
    BY <2>1 DEF InOrder, SlotsOK, SlotOK
  <2>3. CASE HoleItems(Current.slot) = {}
    BY <2>3, FS_EmptySet
  <2>4. CASE HoleItems(Current.slot) # {}
    <3>1. PICK x : x \in HoleItems(Current.slot)
      BY <2>4
    <3>2. HoleItems(Current.slot) = {x}
      BY <2>2, <3>1
    <3>3. Cardinality({x}) = 1
      BY FS_Singleton
    <3> QED
      BY <3>2, <3>3
  <2> QED
    BY <2>3, <2>4
<1> QED
  BY <1>2, <1>3, <1>4 DEF Throws, Running

LEMMA NoGiveUp == ASSUME EndInv, OrderOK, InOrder, ordered, Alive PROVE ~GiveUp
BY NoFaults, NoThrow DEF GiveUp

-----------------------------------------------------------------------------
(* The commands *)

LEMMA LineGrows ==
    ASSUME MessagesOK, NEW e \in Message, queue' = queue,
           unpublished' = Append(unpublished, e)
    PROVE  /\ DOMAIN Line' = DOMAIN Line \cup {Len(queue) + Len(unpublished) + 1}
           /\ \A i \in DOMAIN Line : Line'[i] = Line[i]
           /\ Line'[Len(queue) + Len(unpublished) + 1] = e
<1>1. queue \in Seq(Message) /\ unpublished \in Seq(Message)
  BY SeqGrows DEF MessagesOK, Allowed
<1>2. /\ Append(unpublished, e) \in Seq(Message)
      /\ Len(Append(unpublished, e)) = Len(unpublished) + 1
      /\ \A i \in 1..Len(unpublished) : Append(unpublished, e)[i] = unpublished[i]
      /\ Append(unpublished, e)[Len(unpublished) + 1] = e
  BY <1>1, AppendProperties
<1>3. /\ DOMAIN Line' = 1..(Len(queue) + Len(unpublished) + 1)
      /\ \A i \in 1..(Len(queue) + Len(unpublished) + 1) :
            Line'[i] = IF i <= Len(queue) THEN queue[i] ELSE unpublished'[i - Len(queue)]
  <2>1. /\ Line' \in Seq(Message)
        /\ Len(Line') = Len(queue) + Len(Append(unpublished, e))
        /\ \A i \in 1..(Len(queue) + Len(Append(unpublished, e))) :
              Line'[i] = IF i <= Len(queue) THEN queue[i]
                         ELSE Append(unpublished, e)[i - Len(queue)]
    BY <1>1, <1>2, ConcatProperties DEF Line
  <2>2. Len(queue) + Len(Append(unpublished, e)) = Len(queue) + Len(unpublished) + 1
    BY <1>1, <1>2, LenProperties
  <2> QED
    BY <2>1, <2>2, LenProperties
<1>4. /\ Len(queue) \in Nat /\ Len(unpublished) \in Nat
      /\ DOMAIN Line = 1..(Len(queue) + Len(unpublished))
  BY LineType
<1>5. \A i \in DOMAIN Line : Line'[i] = Line[i]
  <2> TAKE i \in DOMAIN Line
  <2>1. CASE i <= Len(queue)
    BY <1>3, <1>4, <2>1, LineType
  <2>2. CASE i > Len(queue)
    <3>1. i - Len(queue) \in 1..Len(unpublished)
      BY <1>4, <2>2
    <3>2. Line'[i] = unpublished[i - Len(queue)]
      BY <1>2, <1>3, <1>4, <2>2, <3>1
    <3>3. Line[i] = unpublished[i - Len(queue)]
      BY <1>4, <2>2, LineType
    <3> QED
      BY <3>2, <3>3
  <2> QED
    BY <1>4, <2>1, <2>2
<1>6. Line'[Len(queue) + Len(unpublished) + 1] = e
  BY <1>2, <1>3, <1>4
<1> QED
  BY <1>3, <1>4, <1>5, <1>6

\* What a command does to the events about a score that is not the one it is about.
LEMMA OtherCommit ==
    ASSUME EndInv, InOrder, NEW e \in Message, Commit(e), NEW s \in Slots,
           ~(e.kind = "score" /\ e.slot = s), score'[s] = score[s]
    PROVE  SlotOK(Turns(s)', Line', score'[s], HoleItems(s)', Cleaned')
<1>1. /\ UNCHANGED <<queue, busy, left, items>> /\ unpublished' = Append(unpublished, e)
  BY DEF Commit, bus, attempt, made
<1>2. /\ DOMAIN Line' = DOMAIN Line \cup {Len(queue) + Len(unpublished) + 1}
      /\ \A i \in DOMAIN Line : Line'[i] = Line[i]
      /\ Line'[Len(queue) + Len(unpublished) + 1] = e
  BY <1>1, LineGrows DEF EndInv
<1>3. Turns(s)' = Turns(s)
  BY <1>1, <1>2 DEF Turns
<1>4. HoleItems(s)' = HoleItems(s) /\ Cleaned' = Cleaned /\ Cleaned \in BOOLEAN
  BY <1>1 DEF HoleItems, Cleaned
<1>5. \A i \in Turns(s) : Line'[i] = Line[i]
  BY <1>2 DEF Turns
<1>6. SlotOK(Turns(s), Line, score[s], HoleItems(s), Cleaned)
  BY DEF InOrder, SlotsOK
<1> QED
  BY <1>3, <1>4, <1>5, <1>6, SlotStays

\* The rest of the invariant.
LEMMA CommitKeeps ==
    ASSUME EndInv, InOrder, NEW e \in Message, e.kind = "score" => e.slot \in Slots,
           Commit(e), SlotsOK'
    PROVE  InOrder'
<1>1. /\ UNCHANGED <<queue, busy, left, items, sends, delayed, errors>>
      /\ unpublished' = Append(unpublished, e)
  BY DEF Commit, bus, attempt, made
<1>2. /\ DOMAIN Line' = DOMAIN Line \cup {Len(queue) + Len(unpublished) + 1}
      /\ \A i \in DOMAIN Line : Line'[i] = Line[i]
      /\ Line'[Len(queue) + Len(unpublished) + 1] = e
  BY <1>1, LineGrows DEF EndInv
<1>3. ScoresOnLine'
  BY <1>2 DEF InOrder, ScoresOnLine
<1> QED
  BY <1>1, <1>3 DEF InOrder, Running, Current

LEMMA EventIsMessage ==
    ASSUME NEW kind \in Kinds PROVE Event(kind) \in Message /\ Event(kind).kind = kind
BY FeedsAssumption DEF Event, Message

LEMMA ScoreIsMessage ==
    ASSUME NEW s \in Slots, NEW low \in BOOLEAN, NEW changed \in BOOLEAN
    PROVE  ScoreEvent(s, low, changed) \in Message
<1>1. 0 \in 0..(Attempts - 1) /\ s \in Slots \cup {NoSlot} /\ "score" \in Kinds
  BY FeedsAssumption DEF Kinds
<1>2. \A k \in Kinds, l, c \in BOOLEAN, t \in 0..(Attempts - 1), x \in Slots \cup {NoSlot} :
         [kind |-> k, slot |-> x, low |-> l, changed |-> c, tries |-> t] \in Message
  BY Zenon DEF Message
<1> QED
  BY <1>1, <1>2, Zenon DEF ScoreEvent

LEMMA CompleteOrder == ASSUME EndInv, InOrder, CompleteRound PROVE InOrder'
<1>1. Event("completed") \in Message /\ Event("completed").kind = "completed"
  BY EventIsMessage DEF Kinds
<1>2. Commit(Event("completed")) /\ score' = score
  BY DEF CompleteRound, roundVars
<1>3. \A s \in Slots : SlotOK(Turns(s)', Line', score'[s], HoleItems(s)', Cleaned')
  BY <1>1, <1>2, OtherCommit
<1> QED
  BY <1>1, <1>2, <1>3, SlotsNext, CommitKeeps

LEMMA ScoreOrder ==
    ASSUME EndInv, OrderOK, ordered, InOrder,
           NEW s \in Slots, NEW low \in BOOLEAN, NEW changed \in BOOLEAN,
           UpdatePlayerScore(s, low, changed)
    PROVE  InOrder'
<1> DEFINE n == Len(queue) + Len(unpublished) + 1
<1>0. PICK e : e = ScoreEvent(s, low, changed)
  OBVIOUS
<1>1. e \in Message
  BY <1>0, ScoreIsMessage
<1>2. e.kind = "score" /\ e.slot = s /\ e.low = low /\ e.changed = changed
  BY <1>0 DEF ScoreEvent
<1>3. /\ Commit(e)
      /\ score[s] # "none" => changed
      /\ score' = [score EXCEPT ![s] = IF low THEN "low" ELSE "other"]
  BY <1>0 DEF UpdatePlayerScore
<1>4. /\ UNCHANGED <<queue, busy, left, items>> /\ unpublished' = Append(unpublished, e)
  BY <1>3 DEF Commit, bus, attempt, made
<1>5. /\ DOMAIN Line' = DOMAIN Line \cup {n}
      /\ \A i \in DOMAIN Line : Line'[i] = Line[i]
      /\ Line'[n] = e
  BY <1>1, <1>4, LineGrows DEF EndInv
<1>6. n \in Nat /\ \A i \in DOMAIN Line : i < n
  BY LineType DEF EndInv
<1>7. n = 1 => ~busy
  BY LineType DEF EndInv
<1>8. Turns(s)' = Turns(s) \cup {n}
  BY <1>2, <1>4, <1>5, <1>6, <1>7 DEF Turns
<1>9. HoleItems(s)' = HoleItems(s) /\ Cleaned' = Cleaned /\ Cleaned \in BOOLEAN
  BY <1>4 DEF HoleItems, Cleaned
<1>10. SlotOK(Turns(s), Line, score[s], HoleItems(s), Cleaned)
  BY DEF InOrder, SlotsOK
<1>11. score'[s] = IF low THEN "low" ELSE "other"
  BY <1>3 DEF OrderOK
<1>12. SlotOK(Turns(s) \cup {n}, Line', score'[s], HoleItems(s), Cleaned)
  <2>1. GoesOn(Turns(s), Line, n, Line')
    BY <1>5, <1>6, LineType DEF Turns, EndInv, GoesOn
  <2>2. n = 1 => ~Cleaned
    BY <1>7 DEF Cleaned
  <2>3. Line'[n].low <=> score'[s] = "low"
    BY <1>2, <1>5, <1>11
  <2>4. (Line'[n].changed \/ score[s] = "none") /\ score'[s] # "none"
    BY <1>2, <1>3, <1>5, <1>11
  <2> HIDE DEF n
  <2> QED
    BY <1>6, <1>9, <1>10, <2>1, <2>2, <2>3, <2>4, SlotScored
<1>13. ASSUME NEW t \in Slots
       PROVE  SlotOK(Turns(t)', Line', score'[t], HoleItems(t)', Cleaned')
  <2>1. CASE t = s
    BY <1>8, <1>9, <1>12, <2>1
  <2>2. CASE t # s
    <3>1. score'[t] = score[t]
      BY <1>3, <2>2 DEF OrderOK
    <3> QED
      BY <1>1, <1>2, <1>3, <2>2, <3>1, OtherCommit
  <2> QED
    BY <2>1, <2>2
<1> QED
  BY <1>1, <1>2, <1>3, <1>13, SlotsNext, CommitKeeps

-----------------------------------------------------------------------------
(* The events on their way to the handlers *)

LEMMA PublishOrder == ASSUME EndInv, OrderOK, ordered, InOrder, Publish PROVE InOrder'
<1>1. PICK i \in DOMAIN unpublished :
        /\ queue' = Append(queue, unpublished[i])
        /\ unpublished' = RemoveAt(unpublished, i)
        /\ UNCHANGED <<score, delayed, errors, busy, left, sends, items>>
  BY DEF Publish, roundVars, attempt, made
<1>2. PICK m : m = unpublished[1]
  OBVIOUS
<1>3. /\ queue \in Seq(Allowed) /\ unpublished \in Seq(Allowed) /\ unpublished \in Seq(Message)
      /\ Len(unpublished) \in Nat /\ DOMAIN unpublished = 1..Len(unpublished)
      /\ Len(unpublished) <= 1
      /\ busy => queue # <<>>
  <2>1. \A x \in Allowed : x \in Message
    BY DEF Allowed
  <2> QED
    BY <2>1, SeqGrows, LineType DEF EndInv, MessagesOK, OrderOK
<1>4. i = 1 /\ Len(unpublished) = 1
  BY <1>1, <1>3
<1> HIDE DEF Allowed
<1>5. m \in Allowed /\ unpublished = <<m>>
  <2>1. m \in Allowed
    BY <1>2, <1>3, <1>4, ElementOfSeq
  <2>2. <<m>> \in Seq(Allowed) /\ Len(<<m>>) = 1 /\ <<m>>[1] = m
    BY <2>1
  <2>3. \A j \in 1..Len(unpublished) : unpublished[j] = <<m>>[j]
    BY <1>2, <1>4, <2>2
  <2> QED
    BY <1>3, <1>4, <2>2, <2>3, SeqEqual
<1>6. unpublished' = <<>>
  <2>1. SubSeq(unpublished, 1, 0) = <<>> /\ SubSeq(unpublished, 2, 1) = <<>>
    BY SubSeqEmpty
  <2> QED
    BY <1>1, <1>4, <2>1 DEF RemoveAt
<1>7. queue' = Append(queue, m) /\ queue' \in Seq(Allowed)
  BY <1>1, <1>2, <1>3, <1>4, <1>5, AppendProperties
<1>8. Line' = Line
  <2>1. Line' = queue'
    BY <1>6, <1>7, ConcatEmptySeq DEF Line
  <2>2. Append(queue, m) = queue \o <<m>>
    BY <1>3, <1>5, AppendIsConcat
  <2> QED
    BY <1>5, <1>7, <2>1, <2>2 DEF Line
<1>9. busy => Current' = Current
  BY <1>3, <1>5, <1>7, HeadStays DEF Current
<1>10. \A s \in Slots : HoleItems(s)' = HoleItems(s)
  BY <1>1 DEF HoleItems
<1> QED
  BY <1>1, <1>8, <1>9, <1>10, OrderKept DEF InOrder

LEMMA ReceiveOrder == ASSUME EndInv, InOrder, Receive PROVE InOrder'
<1>1. /\ ~busy /\ queue # <<>> /\ busy' /\ left' = HandlersOf(Current.kind) /\ sends' = <<>>
      /\ UNCHANGED <<score, unpublished, queue, delayed, errors, items>>
  BY DEF Receive, roundVars, made
<1>2. Line' = Line /\ Current' = Current
  BY <1>1 DEF Line, Current
<1>3. Line[1] = Current
  <2>1. queue \in Seq(Allowed)
    BY DEF EndInv, MessagesOK
  <2>2. Len(queue) \in Nat \ {0} /\ Head(queue) = queue[1]
    BY <1>1, <2>1, EmptySeq
  <2> QED
    BY <2>2, LineType DEF EndInv, Current
<1>4. Current.kind = "score" => left' = {"clean", "add"}
  BY <1>1 DEF HandlersOf
<1>5. ASSUME NEW s \in Slots
      PROVE  SlotOK(Turns(s)', Line', score'[s], HoleItems(s)', Cleaned')
  <2>1. Turns(s)' = Turns(s)
    BY <1>1, <1>2, <1>3, <1>4 DEF Turns
  <2>2. 1 \in Turns(s) => (Cleaned' => Cleaned)
    BY <1>3, <1>4 DEF Turns, Cleaned
  <2>3. Cleaned \in BOOLEAN /\ Cleaned' \in BOOLEAN
    BY DEF Cleaned
  <2>4. SlotOK(Turns(s), Line, score[s], HoleItems(s), Cleaned)
    BY DEF InOrder, SlotsOK
  <2>5. SlotOK(Turns(s), Line, score[s], HoleItems(s), Cleaned')
    BY <2>2, <2>3, <2>4, SlotStays
  <2>6. HoleItems(s)' = HoleItems(s)
    BY <1>1 DEF HoleItems
  <2> QED
    BY <1>1, <1>2, <2>1, <2>5, <2>6
<1>6. SlotsOK'
  BY <1>5, SlotsNext
<1>7. ScoresOnLine'
  BY <1>2 DEF InOrder, ScoresOnLine
<1>8. (Running("score", "clean"))' => "add" \in left'
  BY <1>2, <1>4 DEF Running
<1> QED
  BY <1>1, <1>6, <1>7, <1>8 DEF InOrder

\* The message is acknowledged: the others move up, and what was sent, which is
\* not about a score, comes between those of the queue and the events to be published.
LEMMA AcknowledgeOrder == ASSUME EndInv, InOrder, Acknowledge PROVE InOrder'
<1> DEFINE q == Len(queue)
           u == Len(unpublished)
           k == Len(sends)
           From(j) == IF j < q THEN j + 1 ELSE j + 1 - k
<1>1. /\ busy /\ left = {} /\ ~busy' /\ queue' = Tail(queue) \o sends /\ sends' = <<>>
      /\ UNCHANGED <<score, unpublished, delayed, errors, items>>
  BY DEF Acknowledge, roundVars, made
<1>2. /\ queue \in Seq(Message) /\ unpublished \in Seq(Message) /\ sends \in Seq(Message)
      /\ queue # <<>>
  BY <1>1, SeqGrows DEF EndInv, MessagesOK, Allowed
<1>3. /\ q \in Nat \ {0} /\ u \in Nat /\ k \in Nat
      /\ DOMAIN sends = 1..k /\ DOMAIN Line = 1..(q + u)
      /\ \A i \in 1..q : Line[i] = queue[i]
      /\ \A i \in (q + 1)..(q + u) : Line[i] = unpublished[i - q]
      /\ Line[1] = Current
  BY <1>1, <1>2, LineType, EmptySeq, LenProperties DEF EndInv
<1>4. /\ Tail(queue) \in Seq(Message) /\ Len(Tail(queue)) = q - 1
      /\ \A i \in 1..(q - 1) : Tail(queue)[i] = queue[i + 1]
  BY <1>2, HeadTailProperties
<1>5. /\ queue' \in Seq(Message) /\ Len(queue') = q - 1 + k
      /\ \A i \in 1..(q - 1 + k) :
            queue'[i] = IF i <= q - 1 THEN queue[i + 1] ELSE sends[i - (q - 1)]
  BY <1>1, <1>2, <1>4, ConcatProperties
<1>6. /\ DOMAIN Line' = 1..(q - 1 + k + u)
      /\ \A i \in 1..(q - 1 + k + u) :
            Line'[i] = IF i <= q - 1 + k THEN queue'[i] ELSE unpublished[i - (q - 1 + k)]
  <2>1. /\ Line' \in Seq(Message) /\ Len(Line') = q - 1 + k + u
        /\ \A i \in 1..(q - 1 + k + u) :
              Line'[i] = IF i <= q - 1 + k THEN queue'[i] ELSE unpublished[i - (q - 1 + k)]
    BY <1>1, <1>2, <1>5, ConcatProperties DEF Line
  <2> QED
    BY <2>1, LenProperties
<1> HIDE DEF q, u, k
<1>7. \A i \in 1..(q - 1) : Line'[i] = Line[i + 1]
  <2> TAKE i \in 1..(q - 1)
  <2>1. Line'[i] = queue'[i]
    BY <1>3, <1>6
  <2>2. queue'[i] = queue[i + 1]
    BY <1>3, <1>5
  <2>3. Line[i + 1] = queue[i + 1]
    BY <1>3
  <2> QED
    BY <2>1, <2>2, <2>3
<1>8. \A i \in q..(q - 1 + k) : Line'[i].kind # "score"
  <2> TAKE i \in q..(q - 1 + k)
  <2>1. Line'[i] = queue'[i]
    BY <1>3, <1>6
  <2>2. queue'[i] = sends[i - (q - 1)]
    BY <1>3, <1>5
  <2>3. i - (q - 1) \in DOMAIN sends
    BY <1>3
  <2> QED
    BY <2>1, <2>2, <2>3 DEF InOrder
<1>9. \A i \in (q + k)..(q - 1 + k + u) : Line'[i] = Line[i + 1 - k]
  <2> TAKE i \in (q + k)..(q - 1 + k + u)
  <2>1. Line'[i] = unpublished[i - (q - 1 + k)]
    BY <1>3, <1>6
  <2>2. Line[i + 1 - k] = unpublished[(i + 1 - k) - q]
    BY <1>3
  <2>3. i - (q - 1 + k) = (i + 1 - k) - q
    BY <1>3
  <2> QED
    BY <2>1, <2>2, <2>3
\* From where a message about a score has come, and where it has gone.
<1>10. \A j \in DOMAIN Line' :
         Line'[j].kind = "score" =>
           /\ j \in Nat /\ (j < q \/ j >= q + k)
           /\ From(j) \in DOMAIN Line /\ From(j) > 1 /\ Line'[j] = Line[From(j)]
  BY <1>3, <1>6, <1>7, <1>8, <1>9
<1>11. \A i \in DOMAIN Line : i > 1 => \E j \in DOMAIN Line' : From(j) = i /\ Line'[j] = Line[i]
  <2> TAKE i \in DOMAIN Line
  <2> HAVE i > 1
  <2>1. CASE i <= q
    <3>1. i - 1 \in 1..(q - 1) /\ From(i - 1) = i
      BY <1>3, <2>1
    <3> QED
      BY <1>3, <1>6, <1>7, <3>1
  <2>2. CASE i > q
    <3>1. i - 1 + k \in (q + k)..(q - 1 + k + u) /\ From(i - 1 + k) = i
      BY <1>3, <2>2
    <3>2. Line'[i - 1 + k] = Line[(i - 1 + k) + 1 - k] /\ (i - 1 + k) + 1 - k = i
      BY <1>3, <1>9, <3>1
    <3>3. i - 1 + k \in DOMAIN Line'
      BY <1>3, <1>6, <3>1
    <3> QED
      BY <3>1, <3>2, <3>3
  <2> QED
    BY <1>3, <2>1, <2>2
<1>12. \A j, l \in Nat : (j < q \/ j >= q + k) /\ (l < q \/ l >= q + k) =>
                          (j < l <=> From(j) < From(l))
  BY <1>3
<1>13. ASSUME NEW s \in Slots
       PROVE  SlotOK(Turns(s)', Line', score'[s], HoleItems(s)', Cleaned')
  <2> DEFINE T == Turns(s)
             U == Turns(s)'
             from == [j \in U |-> From(j)]
  <2>1. /\ \A i \in T : i \in DOMAIN Line /\ i > 1 /\ Line[i].kind = "score" /\ Line[i].slot = s
        /\ \A i \in DOMAIN Line : i > 1 /\ Line[i].kind = "score" /\ Line[i].slot = s => i \in T
    BY <1>1, <1>3 DEF Turns
  <2>2. U = {j \in DOMAIN Line' : Line'[j].kind = "score" /\ Line'[j].slot = s}
    BY <1>1 DEF Turns
  <2>3. T \in SUBSET Nat /\ U \in SUBSET Nat
    BY <1>3, <1>6, <2>1, <2>2
  <2>4. \A j \in U : From(j) \in T /\ Line'[j] = Line[From(j)]
    BY <1>10, <2>1, <2>2
  <2>5. \A i \in T : \E j \in U : From(j) = i
    BY <1>11, <2>1, <2>2
  <2>6. \A j, l \in U : j < l <=> From(j) < From(l)
    BY <1>10, <1>12, <2>2, <2>3
  <2>7. SlotOK(T, Line, score[s], HoleItems(s), Cleaned)
    BY DEF InOrder, SlotsOK
  <2>8. Cleaned \in BOOLEAN /\ ~Cleaned'
    BY <1>1 DEF Cleaned
  <2>9. HoleItems(s)' = HoleItems(s) /\ score'[s] = score[s]
    BY <1>1 DEF HoleItems
  <2> HIDE DEF T, U, From
  <2>10. from \in [U -> T]
    BY <2>4
  <2>11. Moved(from, T, Line, U, Line')
    BY <2>3, <2>4, <2>5, <2>6, <2>10 DEF Moved
  <2> HIDE DEF from
  <2>12. SlotOK(U, Line', score[s], HoleItems(s), FALSE)
    BY <2>7, <2>11, SlotMoves
  <2>13. Cleaned' = FALSE
    BY <2>8 DEF Cleaned
  <2> QED
    BY <2>9, <2>12, <2>13 DEF U
<1>14. SlotsOK'
  BY <1>13, SlotsNext
<1>15. ScoresOnLine'
  BY <1>10 DEF InOrder, ScoresOnLine
<1> QED
  BY <1>1, <1>14, <1>15, EmptySeq DEF InOrder, Running

-----------------------------------------------------------------------------
(* The handlers *)

\* A handler that does not touch the items of the scores.
LEMMA OtherOrder ==
    ASSUME EndInv, InOrder, UNCHANGED <<score, unpublished, queue, delayed, errors, busy>>,
           \A i \in DOMAIN sends' : sends'[i].kind # "score",
           Current.kind = "score" =>
              ("add" \in left' <=> "add" \in left) /\ ("clean" \in left' <=> "clean" \in left),
           \A i \in items' : i.kind = "hole" => i \in items,
           \A i \in items : i.kind = "hole" => i \in items'
    PROVE  InOrder'
<1>1. Line' = Line /\ Current' = Current
  BY DEF Line, Current
<1>2. \A s \in Slots : HoleItems(s)' = HoleItems(s)
  BY DEF HoleItems
<1> QED
  BY <1>1, <1>2, OrderKept

\* The item of a round or of an achievement is none of a score.
LEMMA OtherItem ==
    ASSUME NEW kind, kind # "hole", NEW s, items' = items \cup {NewItem(kind, s)}
    PROVE  /\ \A i \in items' : i.kind = "hole" => i \in items
           /\ \A i \in items : i.kind = "hole" => i \in items'
<1>1. NewItem(kind, s).kind = kind
  BY DEF NewItem
<1> QED
  BY <1>1

\* What is sent is not about a score.
LEMMA SentKept ==
    ASSUME EndInv, InOrder, NEW e \in Message, e.kind # "score", sends' = Append(sends, e)
    PROVE  \A i \in DOMAIN sends' : sends'[i].kind # "score"
<1>1. sends \in Seq(Message)
  BY SeqGrows DEF EndInv, MessagesOK, Allowed
<1>2. /\ Len(sends) \in Nat /\ DOMAIN sends = 1..Len(sends)
      /\ DOMAIN sends' = 1..(Len(sends) + 1)
      /\ \A i \in 1..Len(sends) : sends'[i] = sends[i]
      /\ sends'[Len(sends) + 1] = e
  BY <1>1, AppendProperties, LenProperties
<1>3. \A i \in 1..(Len(sends) + 1) : i \in 1..Len(sends) \/ i = Len(sends) + 1
  BY <1>2
<1> QED
  BY <1>2, <1>3 DEF InOrder

\* The score whose message is being handled.
LEMMA CurrentScore ==
    ASSUME EndInv, InOrder, busy, Current.kind = "score"
    PROVE  /\ Current.slot \in Slots /\ Line[1] = Current
           /\ \A s \in Slots : 1 \in Turns(s) <=> s = Current.slot /\ "add" \in left
<1>1. 1 \in DOMAIN Line /\ Line[1] = Current
  BY LineType DEF EndInv
<1> QED
  BY <1>1 DEF InOrder, ScoresOnLine, Turns

LEMMA CleanOrder == ASSUME EndInv, InOrder, CleanScore PROVE InOrder'
<1>1. /\ busy /\ Current.kind = "score" /\ "clean" \in left /\ left' = left \ {"clean"}
      /\ items' = IF Current.changed THEN items \ HoleItems(Current.slot) ELSE items
      /\ UNCHANGED <<score, unpublished, queue, delayed, errors, busy, sends>>
  BY DEF CleanScore, Running, Returns, Around, roundVars
<1>2. Line' = Line /\ Current' = Current
  BY <1>1 DEF Line, Current
<1>3. "add" \in left
  BY <1>1 DEF InOrder, Running
<1>4. /\ Current.slot \in Slots /\ Line[1] = Current
      /\ \A s \in Slots : 1 \in Turns(s) <=> s = Current.slot
  BY <1>1, <1>3, CurrentScore
<1>5. ASSUME NEW s \in Slots
      PROVE  SlotOK(Turns(s)', Line', score'[s], HoleItems(s)', Cleaned')
  <2>1. Turns(s)' = Turns(s)
    BY <1>1, <1>2 DEF Turns
  <2>2. Cleaned = FALSE /\ Cleaned' = TRUE
    BY <1>1 DEF Cleaned
  <2>3. SlotOK(Turns(s), Line, score[s], HoleItems(s), FALSE)
    BY <2>2 DEF InOrder, SlotsOK
  <2>4. CASE s = Current.slot
    <3>1. HoleItems(s)' = IF Line[1].changed THEN {} ELSE HoleItems(s)
      BY <1>1, <1>4, <2>4 DEF HoleItems
    <3>2. Turns(s) \in SUBSET (Nat \ {0}) /\ 1 \in Turns(s)
      BY <1>4, <2>4, LineType DEF EndInv
    <3>3. SlotOK(Turns(s), Line, score[s],
                 IF Line[1].changed THEN {} ELSE HoleItems(s), TRUE)
      BY <2>3, <3>2, SlotCleaned
    <3> QED
      BY <1>1, <1>2, <2>1, <2>2, <3>1, <3>3
  <2>5. CASE s # Current.slot
    <3>1. HoleItems(s)' = HoleItems(s)
      BY <1>1, <2>5 DEF HoleItems
    <3>2. 1 \notin Turns(s)
      BY <1>4, <2>5
    <3>3. SlotOK(Turns(s), Line, score[s], HoleItems(s), TRUE)
      BY <2>3, <3>2, SlotStays
    <3> QED
      BY <1>1, <1>2, <2>1, <2>2, <3>1, <3>3
  <2> QED
    BY <2>4, <2>5
<1>6. SlotsOK'
  BY <1>5, SlotsNext
<1> QED
  BY <1>1, <1>2, <1>6 DEF InOrder, ScoresOnLine, Running

LEMMA AddOrder == ASSUME EndInv, InOrder, AddScore PROVE InOrder'
<1>1. /\ busy /\ Current.kind = "score" /\ "add" \in left /\ "clean" \notin left
      /\ left' = left \ {"add"}
      /\ items' = IF Current.low THEN items \cup {NewItem("hole", Current.slot)} ELSE items
      /\ UNCHANGED <<score, unpublished, queue, delayed, errors, busy, sends>>
  BY DEF AddScore, Running, Returns, Around, roundVars
<1>2. Line' = Line /\ Current' = Current
  BY <1>1 DEF Line, Current
<1>3. /\ Current.slot \in Slots /\ Line[1] = Current
      /\ \A s \in Slots : 1 \in Turns(s) <=> s = Current.slot
  BY <1>1, CurrentScore
<1>4. PICK x : x = NewItem("hole", Current.slot)
  OBVIOUS
<1>5. x.kind = "hole" /\ x.slot = Current.slot
  BY <1>4 DEF NewItem
<1>6. ASSUME NEW s \in Slots
      PROVE  SlotOK(Turns(s)', Line', score'[s], HoleItems(s)', Cleaned')
  <2>1. Turns(s)' = Turns(s) \ {1}
    BY <1>1, <1>2 DEF Turns
  <2>2. Cleaned = TRUE /\ Cleaned' = TRUE
    BY <1>1 DEF Cleaned
  <2>3. SlotOK(Turns(s), Line, score[s], HoleItems(s), TRUE)
    BY <2>2 DEF InOrder, SlotsOK
  <2>4. CASE s = Current.slot
    <3>1. HoleItems(s)' = IF Line[1].low THEN HoleItems(s) \cup {x} ELSE HoleItems(s)
      BY <1>1, <1>3, <1>4, <1>5, <2>4 DEF HoleItems
    <3>2. Turns(s) \in SUBSET (Nat \ {0}) /\ 1 \in Turns(s)
      BY <1>3, <2>4, LineType DEF EndInv
    <3>3. SlotOK(Turns(s) \ {1}, Line, score[s],
                 IF Line[1].low THEN HoleItems(s) \cup {x} ELSE HoleItems(s), TRUE)
      BY <2>3, <3>2, SlotAdded
    <3> QED
      BY <1>1, <1>2, <2>1, <2>2, <3>1, <3>3
  <2>5. CASE s # Current.slot
    <3>1. HoleItems(s)' = HoleItems(s)
      BY <1>1, <1>4, <1>5, <2>5 DEF HoleItems
    <3>2. Turns(s) \ {1} = Turns(s)
      BY <1>3, <2>5
    <3> QED
      BY <1>1, <1>2, <2>1, <2>2, <2>3, <3>1, <3>2
  <2> QED
    BY <2>4, <2>5
<1>7. SlotsOK'
  BY <1>6, SlotsNext
<1> QED
  BY <1>1, <1>2, <1>7 DEF InOrder, ScoresOnLine, Running

LEMMA HandleOrder == ASSUME EndInv, InOrder, Alive, Handle PROVE InOrder'
<1> USE DEF Returns, Around, roundVars, made
<1>0. \A i \in DOMAIN sends : sends[i].kind # "score"
  BY DEF InOrder
<1>1. CASE \E kind \in {"started", "completed"} : LoadRound(kind)
  BY <1>0, <1>1, OtherOrder DEF LoadRound
<1>2. ASSUME NEW kind, FeedRound(kind) PROVE InOrder'
  <2>1. /\ \A i \in items' : i.kind = "hole" => i \in items
        /\ \A i \in items : i.kind = "hole" => i \in items'
    BY <1>2, OtherItem DEF FeedRound
  <2> QED
    BY <1>0, <1>2, <2>1, OtherOrder DEF FeedRound
<1>3. CASE Notify
  BY <1>0, <1>3, OtherOrder DEF Notify
<1>4. CASE RateLater
  <2>1. Event("updateRatings") \in Message /\ Event("updateRatings").kind # "score"
    BY EventIsMessage DEF Kinds
  <2>2. \A i \in DOMAIN sends' : sends'[i].kind # "score"
    BY <1>4, <2>1, SentKept DEF RateLater
  <2> QED
    BY <1>4, <2>2, OtherOrder DEF RateLater
<1>5. ASSUME NEW earned, EvaluateAchievements(earned) PROVE InOrder'
  <2>1. Event("achievement") \in Message /\ Event("achievement").kind # "score"
    BY EventIsMessage DEF Kinds
  <2>2. \A i \in DOMAIN sends' : sends'[i].kind # "score"
    BY <1>0, <1>5, <2>1, SentKept DEF EvaluateAchievements
  <2> QED
    BY <1>5, <2>2, OtherOrder DEF EvaluateAchievements
<1>6. CASE FeedAchievement
  <2>1. /\ \A i \in items' : i.kind = "hole" => i \in items
        /\ \A i \in items : i.kind = "hole" => i \in items'
    BY <1>6, OtherItem DEF FeedAchievement
  <2> QED
    BY <1>0, <1>6, <2>1, OtherOrder DEF FeedAchievement
<1>7. ~EraseRound
  <2>1. busy /\ Current.kind = "deleted" => round = "gone"
    BY CurrentAllowed DEF EndInv
  <2> QED
    BY <2>1 DEF EraseRound, Running, Alive, exists
<1>8. CASE LoadForRatings
  BY <1>0, <1>8, OtherOrder DEF LoadForRatings, Running
<1>9. CASE UpdateRatings
  BY <1>0, <1>9, OtherOrder DEF UpdateRatings, Running
<1> QED
  BY <1>1, <1>2, <1>3, <1>4, <1>5, <1>6, <1>7, <1>8, <1>9, CleanOrder, AddOrder DEF Handle

-----------------------------------------------------------------------------
(* Every step *)

LEMMA HandleFrame ==
    ASSUME Handle PROVE UNCHANGED <<ordered, score, used, unpublished>>
BY DEF Handle, LoadRound, FeedRound, Notify, CleanScore, AddScore, RateLater,
       EvaluateAchievements, FeedAchievement, EraseRound, LoadForRatings, UpdateRatings,
       Around, roundVars

\* What holds of every run: in order, no more than one event waits to be published.
LEMMA TypesStep ==
    ASSUME EndInv, OrderOK, [Next]_vars
    PROVE  /\ ordered' = ordered
           /\ score' \in [Slots -> {"none", "low", "other"}]
           /\ used' \in [Steps -> Nat]
           /\ ordered => Len(unpublished') <= 1
<1>1. /\ ordered' = ordered
      /\ score' = score \/ \E s \in Slots, low \in BOOLEAN :
            score' = [score EXCEPT ![s] = IF low THEN "low" ELSE "other"]
      /\ used' = used \/ \E k \in Steps : used' = [used EXCEPT ![k] = @ + 1]
  <2>1. CASE Handle
    BY <2>1, HandleFrame
  <2>2. CASE UNCHANGED vars
    BY <2>2 DEF vars, roundVars
  <2>3. CASE GiveUp \/ Crash \/ LosePublish
    BY <2>3 DEF GiveUp, Crash, LosePublish, Count, Steps, roundVars
  <2>4. CASE Publish \/ Receive \/ Acknowledge \/ DelayIsOver
    BY <2>4 DEF Publish, Receive, Acknowledge, DelayIsOver, roundVars
  <2>5. CASE CompleteRound \/ DeleteRound \/ CleanUp
    BY <2>5 DEF CompleteRound, DeleteRound, CleanUp, Count, Steps, roundVars
  <2>6. ASSUME NEW s \in Slots, NEW low \in BOOLEAN, NEW changed \in BOOLEAN,
               UpdatePlayerScore(s, low, changed)
        PROVE  /\ ordered' = ordered
               /\ \E t \in Slots, l \in BOOLEAN :
                     score' = [score EXCEPT ![t] = IF l THEN "low" ELSE "other"]
               /\ \E k \in Steps : used' = [used EXCEPT ![k] = @ + 1]
    BY <2>6 DEF UpdatePlayerScore, Count, Steps
  <2> QED
    BY <2>1, <2>2, <2>3, <2>4, <2>5, <2>6 DEF Next
<1>2. score' \in [Slots -> {"none", "low", "other"}]
  BY <1>1 DEF OrderOK
<1>3. used' \in [Steps -> Nat]
  BY <1>1 DEF OrderOK
<1>4. ASSUME ordered PROVE Len(unpublished') <= 1
  <2>1. unpublished \in Seq(Allowed) /\ Len(unpublished) \in Nat /\ Len(unpublished) <= 1
    BY <1>4, LineType DEF EndInv, MessagesOK, OrderOK
  <2>2. ASSUME NEW e, MayCommit, Commit(e) PROVE Len(unpublished') <= 1
    <3>1. unpublished = <<>> /\ unpublished' = Append(<<>>, e)
      BY <1>4, <2>2 DEF MayCommit, Commit
    <3> QED
      BY <3>1
  <2>3. CASE \/ \E s \in Slots, low, changed \in BOOLEAN : UpdatePlayerScore(s, low, changed)
             \/ CompleteRound \/ DeleteRound
    BY <2>2, <2>3 DEF UpdatePlayerScore, CompleteRound, DeleteRound
  <2>4. CASE Publish
    <3>1. PICK i \in DOMAIN unpublished : unpublished' = RemoveAt(unpublished, i)
      BY <2>4 DEF Publish
    <3>2. Len(unpublished) = 1 /\ i = 1
      BY <2>1, <3>1, LineType DEF EndInv
    <3>3. SubSeq(unpublished, 1, 0) = <<>> /\ SubSeq(unpublished, 2, 1) = <<>>
      BY SubSeqEmpty
    <3> QED
      BY <3>1, <3>2, <3>3 DEF RemoveAt
  <2>5. CASE CleanUp \/ Receive \/ Handle \/ Acknowledge \/ GiveUp \/ DelayIsOver \/ UNCHANGED vars
    <3>1. unpublished' = unpublished
      BY <2>5, HandleFrame
         DEF CleanUp, Receive, Acknowledge, GiveUp, DelayIsOver, vars, roundVars, bus, made
    <3> QED
      BY <2>1, <3>1
  <2> QED
    BY <1>4, <2>3, <2>4, <2>5, NoFaults DEF Next
<1> QED
  BY <1>1, <1>2, <1>3, <1>4

LEMMA OrderStep == ASSUME EndInv, OrderOK, [Next]_vars PROVE OrderOK'
<1> SUFFICES ASSUME ordered', Alive' PROVE InOrder'
  BY TypesStep DEF OrderOK
<1>1. ordered /\ Alive /\ InOrder
  BY TypesStep, AliveBefore DEF OrderOK
<1>2. CASE \E s \in Slots, low, changed \in BOOLEAN : UpdatePlayerScore(s, low, changed)
  BY <1>1, <1>2, ScoreOrder
<1>3. CASE CompleteRound
  BY <1>1, <1>3, CompleteOrder
<1>4. ~DeleteRound
  BY DEF DeleteRound, Alive, exists
<1>5. CASE CleanUp \/ UNCHANGED vars
  <2>1. UNCHANGED <<score, unpublished, queue, delayed, errors, busy, left, sends, items>>
    BY <1>5 DEF CleanUp, vars, roundVars, bus, attempt, made
  <2>2. \A i \in DOMAIN sends : sends[i].kind # "score"
    BY <1>1 DEF InOrder
  <2> QED
    BY <1>1, <2>1, <2>2, OtherOrder
<1>6. ~DelayIsOver
  BY <1>1 DEF DelayIsOver, InOrder
<1> QED
  BY <1>1, <1>2, <1>3, <1>4, <1>5, <1>6, NoFaults, NoGiveUp, PublishOrder, ReceiveOrder,
     AcknowledgeOrder, HandleOrder DEF Next

LEMMA OrderInvariant == Spec => []OrderOK
<1>1. Init => OrderOK
  <2> SUFFICES ASSUME Init PROVE OrderOK
    OBVIOUS
  <2>1. /\ score = [s \in Slots |-> "none"] /\ used = [k \in Steps |-> 0]
        /\ unpublished = <<Event("started")>> /\ queue = <<>>
        /\ delayed = <<>> /\ errors = <<>> /\ sends = <<>>
        /\ ~busy /\ items = {}
    BY DEF Init
  <2>2. Event("started") \in Message /\ Event("started").kind = "started"
    BY EventIsMessage DEF Kinds
  <2>3. Line = <<Event("started")>>
    BY <2>1, <2>2, ConcatEmptySeq DEF Line
  <2>4. Line \in Seq(Message) /\ Len(Line) = 1 /\ Line[1].kind = "started"
    BY <2>2, <2>3
  <2>5. \A i \in DOMAIN Line : Line[i].kind # "score"
    BY <2>4
  <2>6. ASSUME NEW s \in Slots
        PROVE  SlotOK(Turns(s), Line, score[s], HoleItems(s), Cleaned)
    <3>1. Turns(s) = {} /\ HoleItems(s) = {} /\ score[s] = "none"
      BY <2>1, <2>5 DEF Turns, HoleItems
    <3> QED
      BY <3>1 DEF SlotOK, FirstFinds, LastSays
  <2>7. InOrder
    BY <2>1, <2>5, <2>6 DEF InOrder, SlotsOK, ScoresOnLine, Running
  <2>8. Len(unpublished) = 1
    BY <2>1
  <2> QED
    BY <2>1, <2>7, <2>8 DEF OrderOK
<1>2. EndInv /\ OrderOK /\ [Next]_vars => OrderOK'
  BY OrderStep
<1> QED
  BY <1>1, <1>2, EndInvariant, PTL DEF Spec

-----------------------------------------------------------------------------
(* The theorems *)

\* Once the events about a score are handled, the feed has one item for it if it is
\* better than par and none otherwise, for any number of scores and corrections:
\* CleanupFeedsIfScoreWasChanged and UpdateFeedsOnScoreUpdated handle each event
\* one after the other, and only the first event about a score does not say that
\* it changes one.
THEOREM FeedFollowsScores == Spec => []FeedShowsScores
<1>1. EndInv /\ OrderOK => FeedShowsScores
  <2> SUFFICES ASSUME EndInv, OrderOK, NEW s \in Slots, ordered, exists, ~Underway(s)
               PROVE  Cardinality(HoleItems(s)) = IF score[s] = "low" THEN 1 ELSE 0
    BY DEF FeedShowsScores
  <2>1. SlotOK(Turns(s), Line, score[s], HoleItems(s), Cleaned)
    BY DEF OrderOK, InOrder, SlotsOK, Alive
  <2>2. \A i \in DOMAIN Line : Line[i].slot # s
    <3>1. TAKE i \in DOMAIN Line
    <3>2. CASE i <= Len(queue)
      <4>1. i \in DOMAIN queue /\ Line[i] = queue[i]
        BY <3>2, LineType DEF EndInv
      <4> QED
        BY <4>1 DEF Underway
    <3>3. CASE i > Len(queue)
      <4>1. i - Len(queue) \in DOMAIN unpublished /\ Line[i] = unpublished[i - Len(queue)]
        BY <3>3, LineType DEF EndInv
      <4> QED
        BY <4>1 DEF Underway
    <3> QED
      BY <3>2, <3>3, LineType DEF EndInv
  <2>3. Turns(s) = {}
    BY <2>2 DEF Turns
  <2>4. HoleItems(s) # {} <=> score[s] = "low"
    BY <2>1, <2>3 DEF SlotOK
  <2>5. \A x, y \in HoleItems(s) : x = y
    BY <2>1 DEF SlotOK
  <2>6. CASE HoleItems(s) = {}
    BY <2>4, <2>6, FS_EmptySet
  <2>7. CASE HoleItems(s) # {}
    <3>1. PICK x : HoleItems(s) = {x}
      BY <2>5, <2>7
    <3>2. Cardinality({x}) = 1
      BY FS_Singleton
    <3> QED
      BY <2>4, <2>7, <3>1, <3>2
  <2> QED
    BY <2>6, <2>7
<1> QED
  BY <1>1, EndInvariant, OrderInvariant, PTL

\* While the round is there every handler returns, so no message is put on the error
\* queue: what the handlers throw for (a round that is gone, two items where
\* SingleOrDefault expects one) does not come about in order.
THEOREM NothingElseFails == Spec => []OnlyLateMessagesFail
<1>1. OrderOK => OnlyLateMessagesFail
  BY DEF OrderOK, InOrder, OnlyLateMessagesFail, Alive
<1> QED
  BY <1>1, OrderInvariant, PTL
=============================================================================
