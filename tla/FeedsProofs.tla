----------------------------- MODULE FeedsProofs -----------------------------
(***************************************************************************)
(* Theorems about Feeds, for any number of scores, completions, failures,  *)
(* crashes and attempts: no item of a round comes after its end, and the   *)
(* ratings are updated no more often than completions and crashes explain. *)
(***************************************************************************)
EXTENDS Feeds, SequenceTheorems, FiniteSetTheorems, TLAPS

USE FeedsAssumption

-----------------------------------------------------------------------------
(* Sequences of messages *)

LEMMA RemoveAtType ==
    ASSUME NEW S, NEW q \in Seq(S), NEW i \in DOMAIN q PROVE RemoveAt(q, i) \in Seq(S)
<1>1. i \in 1..Len(q) /\ Len(q) \in Nat
  OBVIOUS
<1>2. \A j \in 1..(i - 1) : q[j] \in S
  BY <1>1, ElementOfSeq
<1>3. \A j \in (i + 1)..Len(q) : q[j] \in S
  BY <1>1, ElementOfSeq
<1>4. SubSeq(q, 1, i - 1) \in Seq(S)
  BY <1>1, <1>2, SubSeqProperties
<1>5. SubSeq(q, i + 1, Len(q)) \in Seq(S)
  BY <1>1, <1>3, SubSeqProperties
<1> QED
  BY <1>4, <1>5, ConcatProperties DEF RemoveAt

LEMMA SeqGrows ==
    ASSUME NEW S, NEW T, S \subseteq T, NEW q \in Seq(S) PROVE q \in Seq(T)
OBVIOUS

\* Another message behind the others leaves the head as it is.
LEMMA HeadStays ==
    ASSUME NEW S, NEW q \in Seq(S), q # <<>>, NEW e \in S
    PROVE  Append(q, e) # <<>> /\ Head(Append(q, e)) = Head(q)
BY HeadTailAppend, AppendProperties

-----------------------------------------------------------------------------
(* The invariant *)

\* A message tells of a deletion only when the round is gone.
Allowed == {m \in Message : m.kind = "deleted" => round = "gone"}

MessagesOK ==
    /\ unpublished \in Seq(Allowed) /\ queue \in Seq(Allowed) /\ delayed \in Seq(Allowed)
    /\ sends \in Seq(Allowed)
    /\ busy => queue # <<>>

\* The consumer handles one message at a time: while a handler has the round
\* loaded, that of the deletion cannot have run.
EndOK ==
    /\ erased => round = "gone"
    /\ busy /\ Current.kind \in {"started", "completed"} /\ "load" \notin left => ~erased
    /\ NoRoundAfterItsEnd

EndInv == MessagesOK /\ EndOK

\* A round that is gone stays gone.
LEMMA AllowedGrows == ASSUME round = "gone" => round' = "gone" PROVE Allowed \subseteq Allowed'
BY DEF Allowed

LEMMA EventAllowed ==
    ASSUME NEW kind \in Kinds, kind = "deleted" => round = "gone"
    PROVE  Event(kind) \in Allowed
<1>1. Event(kind) \in Message
  BY DEF Event, Message
<1>2. Event(kind).kind = kind
  BY DEF Event
<1> QED
  BY <1>1, <1>2 DEF Allowed

LEMMA CurrentAllowed ==
    ASSUME MessagesOK, busy
    PROVE  /\ Current \in Allowed /\ Current \in Message
           /\ Current.kind = "deleted" => round = "gone"
<1>1. Current \in Allowed
  BY HeadTailProperties DEF MessagesOK, Current
<1> QED
  BY <1>1 DEF Allowed

\* Nothing of the attempt changes but what its handlers have left and sent.
LEMMA MessagesKept ==
    ASSUME MessagesOK, round = "gone" => round' = "gone",
           UNCHANGED <<unpublished, queue, delayed, sends, busy>>
    PROVE  MessagesOK'
BY AllowedGrows, SeqGrows DEF MessagesOK

\* A command commits: an event is appended to those to be published.
LEMMA CommitStep ==
    ASSUME EndInv, NEW e, e \in Allowed', round = "gone" => round' = "gone", Commit(e)
    PROVE  EndInv'
<1>1. UNCHANGED <<queue, delayed, sends, busy, left, items, erased>>
  BY DEF Commit, bus, attempt, made
<1>2. unpublished' \in Seq(Allowed')
  BY AllowedGrows, SeqGrows, AppendProperties DEF Commit, EndInv, MessagesOK
<1>3. MessagesOK'
  BY <1>1, <1>2, AllowedGrows, SeqGrows DEF EndInv, MessagesOK
<1>4. EndOK'
  BY <1>1 DEF EndInv, EndOK, Current, NoRoundAfterItsEnd
<1> QED
  BY <1>3, <1>4 DEF EndInv

\* A handler saves or sends, and returns; it does not load the round of the message.
LEMMA ReturnStep ==
    ASSUME EndInv, busy, sends' \in Seq(Allowed),
           "load" \notin left' /\ Current.kind \in {"started", "completed"} => "load" \notin left,
           UNCHANGED <<round, unpublished, queue, delayed, busy, erased>>,
           erased => \A i \in items' : i.kind = "round" => i \in items
    PROVE  EndInv'
<1>1. MessagesOK'
  BY DEF EndInv, MessagesOK, Allowed
<1>2. EndOK'
  BY DEF EndInv, EndOK, Current, NoRoundAfterItsEnd
<1> QED
  BY <1>1, <1>2 DEF EndInv

\* An attempt ends.
LEMMA AttemptEnds ==
    ASSUME EndInv, ~busy', UNCHANGED <<round, unpublished, items, erased>>,
           queue' \in Seq(Allowed), delayed' \in Seq(Allowed), sends' \in Seq(Allowed)
    PROVE  EndInv'
<1>1. Allowed' = Allowed
  BY DEF Allowed
<1> QED
  BY <1>1 DEF EndInv, MessagesOK, EndOK, NoRoundAfterItsEnd

\* Messages are added to the queue, or events taken from those to be published.
LEMMA QueueGrows ==
    ASSUME EndInv, UNCHANGED <<round, busy, left, sends, items, erased>>,
           unpublished' \in Seq(Allowed), delayed' \in Seq(Allowed),
           queue' = queue \/ \E m \in Allowed : queue' = Append(queue, m)
    PROVE  EndInv'
<1>1. Allowed' = Allowed
  BY DEF Allowed
<1>2. queue \in Seq(Allowed) /\ (busy => queue # <<>>)
  BY DEF EndInv, MessagesOK
<1>3. queue' \in Seq(Allowed) /\ (busy => queue' # <<>> /\ Head(queue') = Head(queue))
  <2>1. CASE queue' = queue
    BY <1>2, <2>1
  <2>2. ASSUME NEW m \in Allowed, queue' = Append(queue, m)
        PROVE  /\ queue' \in Seq(Allowed)
               /\ busy => queue' # <<>> /\ Head(queue') = Head(queue)
    <3> HIDE DEF Allowed
    <3>1. Append(queue, m) \in Seq(Allowed)
      BY <1>2, AppendProperties
    <3>2. busy => Append(queue, m) # <<>> /\ Head(Append(queue, m)) = Head(queue)
      BY <1>2, HeadStays
    <3> QED
      BY <2>2, <3>1, <3>2
  <2> QED
    BY <2>1, <2>2
<1>5. MessagesOK'
  BY <1>1, <1>3 DEF EndInv, MessagesOK
<1>6. EndOK'
  BY <1>3 DEF EndInv, EndOK, Current, NoRoundAfterItsEnd
<1> QED
  BY <1>5, <1>6 DEF EndInv

LEMMA AgainAllowed ==
    ASSUME NEW m \in Allowed, ~LastTry(m) PROVE Again(m) \in Allowed
<1>1. m \in Message /\ m.tries + 1 # Attempts
  BY DEF Allowed, LastTry
<1>2. m.tries + 1 \in 0..(Attempts - 1)
  BY <1>1 DEF Message
<1>3. Again(m) \in Message /\ Again(m).kind = m.kind
  BY <1>1, <1>2 DEF Again, Message
<1> QED
  BY <1>3 DEF Allowed

LEMMA HandleStep == ASSUME EndInv, Handle PROVE EndInv'
<1>0. busy /\ sends \in Seq(Allowed) /\ "feed" # "load"
  BY DEF EndInv, MessagesOK, Handle, LoadRound, FeedRound, Notify, CleanScore, AddScore,
         RateLater, EvaluateAchievements, FeedAchievement, EraseRound, LoadForRatings,
         UpdateRatings, Running
<1>1. ASSUME NEW kind \in {"started", "completed"}, LoadRound(kind) PROVE EndInv'
  <2>1. /\ round = "there" /\ UNCHANGED <<round, unpublished, queue, delayed, busy, sends>>
        /\ UNCHANGED <<items, erased>>
    BY <1>1 DEF LoadRound, exists, Around, made, roundVars
  <2>2. ~erased
    BY <2>1 DEF EndInv, EndOK
  <2>3. MessagesOK'
    BY <2>1, MessagesKept DEF EndInv
  <2> QED
    BY <2>1, <2>2, <2>3 DEF EndInv, EndOK, NoRoundAfterItsEnd
<1>2. ASSUME NEW kind \in {"started", "completed"}, FeedRound(kind) PROVE EndInv'
  <2>1. /\ Current.kind = kind /\ "load" \notin left
        /\ UNCHANGED <<round, unpublished, queue, delayed, busy, sends, erased>>
    BY <1>2 DEF FeedRound, Running, Around, roundVars
  <2>2. ~erased
    BY <1>0, <2>1 DEF EndInv, EndOK
  <2> QED
    BY <1>0, <2>1, <2>2, ReturnStep
<1>3. CASE Notify
  <2>1. UNCHANGED <<round, unpublished, queue, delayed, busy, sends, items, erased>>
    BY <1>3 DEF Notify, Around, made, roundVars
  <2>2. left' = left \ {"notify"}
    BY <1>3 DEF Notify, Returns
  <2> QED
    BY <1>0, <2>1, <2>2, ReturnStep
<1>4. CASE CleanScore
  <2>1. UNCHANGED <<round, unpublished, queue, delayed, busy, sends, erased>>
    BY <1>4 DEF CleanScore, Around, roundVars
  <2>2. left' = left \ {"clean"} /\ items' \subseteq items
    BY <1>4 DEF CleanScore, Returns
  <2> QED
    BY <1>0, <2>1, <2>2, ReturnStep
<1>5. CASE AddScore
  <2>1. UNCHANGED <<round, unpublished, queue, delayed, busy, sends, erased>>
    BY <1>5 DEF AddScore, Around, roundVars
  <2>2. left' = left \ {"add"}
    BY <1>5 DEF AddScore, Returns
  <2>3. NewItem("hole", Current.slot).kind = "hole"
    BY DEF NewItem
  <2>4. \A i \in items' : i.kind = "round" => i \in items
    BY <1>5, <2>3 DEF AddScore
  <2> QED
    BY <1>0, <2>1, <2>2, <2>4, ReturnStep
<1>6. CASE RateLater
  <2>1. UNCHANGED <<round, unpublished, queue, delayed, busy, items, erased>>
    BY <1>6 DEF RateLater, Around, made, roundVars
  <2>2. left' = left \ {"rate"} /\ sends' = Append(sends, Event("updateRatings"))
    BY <1>6 DEF RateLater, Returns
  <2>3. Event("updateRatings") \in Allowed
    BY EventAllowed DEF Kinds
  <2>4. sends' \in Seq(Allowed)
    BY <1>0, <2>2, <2>3, AppendProperties
  <2> QED
    BY <1>0, <2>1, <2>2, <2>4, ReturnStep
<1>7. ASSUME NEW earned \in BOOLEAN, EvaluateAchievements(earned) PROVE EndInv'
  <2>1. UNCHANGED <<round, unpublished, queue, delayed, busy, items, erased>>
    BY <1>7 DEF EvaluateAchievements, Around, made, roundVars
  <2>2. /\ left' = left \ {"evaluate"}
        /\ sends' = sends \/ sends' = Append(sends, Event("achievement"))
    BY <1>7 DEF EvaluateAchievements, Returns
  <2>3. Event("achievement") \in Allowed
    BY EventAllowed DEF Kinds
  <2>4. sends' \in Seq(Allowed)
    BY <1>0, <2>2, <2>3, AppendProperties
  <2> QED
    BY <1>0, <2>1, <2>2, <2>4, ReturnStep
<1>8. CASE FeedAchievement
  <2>1. UNCHANGED <<round, unpublished, queue, delayed, busy, sends, erased>>
    BY <1>8 DEF FeedAchievement, Around, roundVars
  <2>2. left' = left \ {"feed"}
    BY <1>8 DEF FeedAchievement, Returns
  <2>3. NewItem("achievement", NoSlot).kind = "achievement"
    BY DEF NewItem
  <2>4. \A i \in items' : i.kind = "round" => i \in items
    BY <1>8, <2>3 DEF FeedAchievement
  <2> QED
    BY <1>0, <2>1, <2>2, <2>4, ReturnStep
<1>9. CASE EraseRound
  <2>1. /\ UNCHANGED <<round, unpublished, queue, delayed, busy, sends>>
        /\ items' = {} /\ erased' /\ Current.kind = "deleted"
    BY <1>9 DEF EraseRound, Running, Around, roundVars
  <2>2. round = "gone"
    BY <1>0, <2>1, CurrentAllowed DEF EndInv
  <2>3. MessagesOK'
    BY <2>1, MessagesKept DEF EndInv
  <2> QED
    BY <2>1, <2>2, <2>3 DEF EndInv, EndOK, NoRoundAfterItsEnd, Current
<1>10. CASE LoadForRatings
  <2>1. /\ UNCHANGED <<round, unpublished, queue, delayed, busy, sends, items, erased>>
        /\ Current.kind = "updateRatings"
    BY <1>10 DEF LoadForRatings, Running, Around, made, roundVars
  <2> QED
    BY <1>0, <2>1, ReturnStep
<1>11. CASE UpdateRatings
  <2>1. /\ round # "gone" /\ round' = "there" /\ Current.kind = "updateRatings"
        /\ UNCHANGED <<unpublished, queue, delayed, busy, sends, items, erased>>
    BY <1>11 DEF UpdateRatings, Running
  <2>2. ~erased
    BY <2>1 DEF EndInv, EndOK
  <2>3. MessagesOK'
    BY <2>1, MessagesKept DEF EndInv
  <2> QED
    BY <2>1, <2>2, <2>3 DEF EndInv, EndOK, NoRoundAfterItsEnd, Current
<1> QED
  BY <1>1, <1>2, <1>3, <1>4, <1>5, <1>6, <1>7, <1>8, <1>9, <1>10, <1>11 DEF Handle

LEMMA CrashStep == ASSUME EndInv, Crash PROVE EndInv'
<1>1. /\ ~busy' /\ sends' = <<>> /\ UNCHANGED <<round, unpublished, delayed, items, erased>>
      /\ queue' = queue \/ queue' = queue \o sends
  BY DEF Crash, roundVars, made
<1>2. /\ queue \in Seq(Allowed) /\ sends \in Seq(Allowed)
      /\ unpublished \in Seq(Allowed) /\ delayed \in Seq(Allowed)
  BY DEF EndInv, MessagesOK
<1>3. queue' \in Seq(Allowed)
  BY <1>1, <1>2, ConcatProperties
<1>4. sends' \in Seq(Allowed)
  BY <1>1, EmptySeq
<1> QED
  BY <1>1, <1>2, <1>3, <1>4, AttemptEnds

LEMMA GiveUpStep == ASSUME EndInv, GiveUp PROVE EndInv'
<1>1. /\ busy /\ ~busy' /\ sends' = <<>> /\ UNCHANGED <<round, unpublished, items, erased>>
      /\ \/ queue' = Tail(queue) /\ delayed' = delayed
         \/ ~LastTry(Current) /\ queue' = <<Again(Current)>> \o Tail(queue) /\ delayed' = delayed
         \/ ~LastTry(Current) /\ queue' = Tail(queue) /\ delayed' = Append(delayed, Again(Current))
  BY DEF GiveUp, roundVars, made
<1>2. queue \in Seq(Allowed) /\ queue # <<>> /\ delayed \in Seq(Allowed)
  BY <1>1 DEF EndInv, MessagesOK
<1>3. Tail(queue) \in Seq(Allowed) /\ Current \in Allowed
  BY <1>2, HeadTailProperties DEF Current
<1>4. ~LastTry(Current) => Again(Current) \in Allowed /\ <<Again(Current)>> \in Seq(Allowed)
  BY <1>3, AgainAllowed
<1>5. queue' \in Seq(Allowed) /\ delayed' \in Seq(Allowed)
  <2>1. CASE queue' = Tail(queue) /\ delayed' = delayed
    BY <1>2, <1>3, <2>1
  <2>2. CASE ~LastTry(Current) /\ queue' = <<Again(Current)>> \o Tail(queue) /\ delayed' = delayed
    BY <1>2, <1>3, <1>4, <2>2, ConcatProperties
  <2>3. CASE ~LastTry(Current) /\ queue' = Tail(queue) /\ delayed' = Append(delayed, Again(Current))
    BY <1>2, <1>3, <1>4, <2>3, AppendProperties
  <2> QED
    BY <1>1, <2>1, <2>2, <2>3
<1>6. sends' \in Seq(Allowed)
  BY <1>1, EmptySeq
<1> QED
  BY <1>1, <1>5, <1>6, AttemptEnds

LEMMA AcknowledgeStep == ASSUME EndInv, Acknowledge PROVE EndInv'
<1>1. /\ busy /\ ~busy' /\ sends' = <<>> /\ queue' = Tail(queue) \o sends
      /\ UNCHANGED <<round, unpublished, delayed, items, erased>>
  BY DEF Acknowledge, roundVars, made
<1>2. /\ queue \in Seq(Allowed) /\ queue # <<>> /\ sends \in Seq(Allowed)
      /\ delayed \in Seq(Allowed)
  BY <1>1 DEF EndInv, MessagesOK
<1>3. queue' \in Seq(Allowed)
  BY <1>1, <1>2, HeadTailProperties, ConcatProperties
<1>4. sends' \in Seq(Allowed)
  BY <1>1, EmptySeq
<1> QED
  BY <1>1, <1>2, <1>3, <1>4, AttemptEnds

LEMMA ReceiveStep == ASSUME EndInv, Receive PROVE EndInv'
<1>1. /\ queue # <<>> /\ left' = HandlersOf(Current.kind) /\ sends' = <<>>
      /\ UNCHANGED <<round, unpublished, queue, delayed, items, erased>>
  BY DEF Receive, roundVars, made
<1>2. sends' \in Seq(Allowed)
  BY <1>1, EmptySeq
<1>3. MessagesOK'
  BY <1>1, <1>2 DEF EndInv, MessagesOK, Allowed
<1>4. Current.kind \in {"started", "completed"} => "load" \in HandlersOf(Current.kind)
  BY DEF HandlersOf
<1>5. EndOK'
  BY <1>1, <1>4 DEF EndInv, EndOK, Current, NoRoundAfterItsEnd
<1> QED
  BY <1>3, <1>5 DEF EndInv

LEMMA CommandStep ==
    ASSUME EndInv,
           \/ \E s \in Slots, low, changed \in BOOLEAN : UpdatePlayerScore(s, low, changed)
           \/ CompleteRound \/ DeleteRound \/ CleanUp
    PROVE  EndInv'
<1>1. ASSUME NEW s \in Slots, NEW low \in BOOLEAN, NEW changed \in BOOLEAN,
             UpdatePlayerScore(s, low, changed)
      PROVE  EndInv'
  <2>1. ScoreEvent(s, low, changed) \in Message /\ ScoreEvent(s, low, changed).kind = "score"
    <3>1. 0 \in 0..(Attempts - 1) /\ s \in Slots \cup {NoSlot} /\ "score" \in Kinds
      BY DEF Kinds
    <3>2. \A k \in Kinds, l, c \in BOOLEAN, t \in 0..(Attempts - 1), x \in Slots \cup {NoSlot} :
             [kind |-> k, slot |-> x, low |-> l, changed |-> c, tries |-> t] \in Message
      BY Zenon DEF Message
    <3> QED
      BY <3>1, <3>2, Zenon DEF ScoreEvent
  <2>2. ScoreEvent(s, low, changed) \in Allowed'
    BY <2>1 DEF Allowed
  <2>3. Commit(ScoreEvent(s, low, changed)) /\ round' = round
    BY <1>1 DEF UpdatePlayerScore
  <2> QED
    BY <2>2, <2>3, CommitStep
<1>2. CASE CompleteRound
  <2>1. Commit(Event("completed")) /\ round' = round
    BY <1>2 DEF CompleteRound, roundVars
  <2>2. Event("completed") \in Allowed
    BY EventAllowed DEF Kinds
  <2>3. Event("completed") \in Allowed'
    BY <2>1, <2>2 DEF Allowed
  <2> QED
    BY <2>1, <2>3, CommitStep
<1>3. CASE DeleteRound
  <2>1. Commit(Event("deleted")) /\ round' = "gone"
    BY <1>3 DEF DeleteRound
  <2>2. Event("deleted") \in Message
    BY DEF Event, Message, Kinds
  <2>3. Event("deleted") \in Allowed'
    BY <2>1, <2>2 DEF Allowed
  <2> QED
    BY <2>1, <2>3, CommitStep
<1>4. CASE CleanUp
  <2>1. /\ round = "there"
        /\ UNCHANGED <<unpublished, queue, delayed, sends, busy, left, items, erased>>
    BY <1>4 DEF CleanUp, exists, bus, attempt, made
  <2>2. MessagesOK'
    BY <2>1, MessagesKept DEF EndInv
  <2> QED
    BY <2>1, <2>2 DEF EndInv, EndOK, Current, NoRoundAfterItsEnd
<1> QED
  BY <1>1, <1>2, <1>3, <1>4

LEMMA EndStep == ASSUME EndInv, [Next]_vars PROVE EndInv'
<1>0. /\ unpublished \in Seq(Allowed) /\ queue \in Seq(Allowed) /\ delayed \in Seq(Allowed)
  BY DEF EndInv, MessagesOK
<1>1. CASE Publish
  <2>1. PICK i \in DOMAIN unpublished :
          /\ queue' = Append(queue, unpublished[i])
          /\ unpublished' = RemoveAt(unpublished, i)
          /\ UNCHANGED <<round, delayed, busy, left, sends, items, erased>>
    BY <1>1 DEF Publish, roundVars, attempt, made
  <2>2. unpublished[i] \in Allowed /\ unpublished' \in Seq(Allowed)
    BY <1>0, <2>1, RemoveAtType
  <2> QED
    BY <1>0, <2>1, <2>2, QueueGrows
<1>2. CASE LosePublish
  <2>1. PICK i \in DOMAIN unpublished :
          /\ unpublished' = RemoveAt(unpublished, i)
          /\ UNCHANGED <<round, queue, delayed, busy, left, sends, items, erased>>
    BY <1>2 DEF LosePublish, roundVars, bus, attempt, made
  <2>2. unpublished' \in Seq(Allowed)
    BY <1>0, <2>1, RemoveAtType
  <2> QED
    BY <1>0, <2>1, <2>2, QueueGrows
<1>3. CASE DelayIsOver
  <2>1. PICK i \in DOMAIN delayed :
          /\ queue' = Append(queue, delayed[i])
          /\ delayed' = RemoveAt(delayed, i)
          /\ UNCHANGED <<round, unpublished, busy, left, sends, items, erased>>
    BY <1>3 DEF DelayIsOver, roundVars, attempt, made
  <2>2. delayed[i] \in Allowed /\ delayed' \in Seq(Allowed)
    BY <1>0, <2>1, RemoveAtType
  <2> QED
    BY <1>0, <2>1, <2>2, QueueGrows
<1>4. CASE UNCHANGED vars
  <2>1. UNCHANGED <<round, unpublished, queue, delayed, busy, left, sends, items, erased>>
    BY <1>4 DEF vars, roundVars, bus, attempt, made
  <2> QED
    BY <1>0, <2>1, QueueGrows
<1> QED
  BY <1>1, <1>2, <1>3, <1>4, CommandStep, HandleStep, ReceiveStep, AcknowledgeStep,
     GiveUpStep, CrashStep DEF Next

LEMMA EndInvariant == Spec => []EndInv
<1>1. Init => EndInv
  <2> SUFFICES ASSUME Init PROVE EndInv
    OBVIOUS
  <2>1. Event("started") \in Allowed
    BY EventAllowed DEF Kinds
  <2>2. /\ unpublished = <<Event("started")>> /\ queue = <<>> /\ delayed = <<>> /\ sends = <<>>
        /\ ~busy /\ ~erased
    BY DEF Init
  <2>3. MessagesOK
    BY <2>1, <2>2, EmptySeq DEF MessagesOK
  <2> QED
    BY <2>2, <2>3 DEF EndInv, EndOK, NoRoundAfterItsEnd
<1>2. EndInv /\ [Next]_vars => EndInv'
  BY EndStep
<1> QED
  BY <1>1, <1>2, PTL DEF Spec

\* Whatever is lost, repeated or overtaken, once the handler of RoundWasDeleted
\* has run no item of the round's start or completion comes back: nothing but the
\* one consumer, one message at a time, is needed for it
\* (UpdateFeedsOnRoundDeleted.cs 23-37).
THEOREM NoItemAfterTheEnd == Spec => []NoRoundAfterItsEnd
<1>1. EndInv => NoRoundAfterItsEnd
  BY DEF EndInv, EndOK
<1> QED
  BY <1>1, EndInvariant, PTL

-----------------------------------------------------------------------------
(* How many messages of a sequence still lead to an update of the ratings *)

Rates == {"completed", "updateRatings"}
Places(q) == {i \in DOMAIN q : q[i].kind \in Rates}
Weight(q) == Cardinality(Places(q))
One(m) == IF m.kind \in Rates THEN 1 ELSE 0

LEMMA PlacesFinite ==
    ASSUME NEW S, NEW q \in Seq(S)
    PROVE  IsFiniteSet(Places(q)) /\ Weight(q) \in Nat
<1>1. Places(q) \in SUBSET (1..Len(q)) /\ Len(q) \in Nat
  BY LenProperties DEF Places
<1>2. IsFiniteSet(1..Len(q))
  BY <1>1, FS_Interval
<1>3. IsFiniteSet(Places(q))
  BY <1>1, <1>2, FS_Subset
<1> QED
  BY <1>3, FS_CardinalityType DEF Weight

LEMMA WeightOfFew ==
    /\ Weight(<<>>) = 0
    /\ \A m : Weight(<<m>>) = One(m)
<1>1. Places(<<>>) = {}
  BY DEF Places
<1>2. ASSUME NEW m PROVE Places(<<m>>) = IF m.kind \in Rates THEN {1} ELSE {}
  BY DEF Places
<1> QED
  BY <1>1, <1>2, FS_EmptySet, FS_Singleton DEF Weight, One

LEMMA WeightOfConcat ==
    ASSUME NEW S, NEW s \in Seq(S), NEW t \in Seq(S)
    PROVE  Weight(s \o t) = Weight(s) + Weight(t)
<1> DEFINE n == Len(s)
           shifted == {i + n : i \in Places(t)}
           shift == [i \in Places(t) |-> i + n]
<1>1. /\ n \in Nat /\ DOMAIN s = 1..n /\ Len(t) \in Nat /\ DOMAIN t = 1..Len(t)
  BY LenProperties
<1>2. /\ s \o t \in Seq(S) /\ DOMAIN (s \o t) = 1..(n + Len(t))
      /\ \A i \in 1..(n + Len(t)) : (s \o t)[i] = IF i <= n THEN s[i] ELSE t[i - n]
  BY <1>1, ConcatProperties, LenProperties
<1>3. Places(s) \subseteq 1..n /\ Places(t) \subseteq 1..Len(t)
  BY <1>1 DEF Places
<1>4. Places(s \o t) = Places(s) \cup shifted
  <2>1. ASSUME NEW i \in Places(s \o t) PROVE i \in Places(s) \cup shifted
    <3>1. i \in 1..(n + Len(t)) /\ (s \o t)[i].kind \in Rates
      BY <1>2 DEF Places
    <3>2. CASE i <= n
      BY <1>1, <1>2, <3>1, <3>2 DEF Places
    <3>3. CASE i > n
      <4>1. i - n \in Places(t) /\ i = (i - n) + n
        BY <1>1, <1>2, <3>1, <3>3 DEF Places
      <4> QED
        BY <4>1
    <3> QED
      BY <1>1, <3>1, <3>2, <3>3
  <2>2. ASSUME NEW i \in Places(s) PROVE i \in Places(s \o t)
    BY <1>1, <1>2 DEF Places
  <2>3. ASSUME NEW j \in Places(t) PROVE j + n \in Places(s \o t)
    <3>1. j \in 1..Len(t) /\ t[j].kind \in Rates
      BY <1>1 DEF Places
    <3>2. j + n \in 1..(n + Len(t)) /\ ~(j + n <= n) /\ (j + n) - n = j
      BY <1>1, <3>1
    <3>3. (s \o t)[j + n] = t[j]
      BY <1>2, <3>2
    <3> QED
      BY <1>2, <3>1, <3>2, <3>3 DEF Places
  <2> QED
    BY <2>1, <2>2, <2>3
<1>5. IsFiniteSet(Places(s)) /\ IsFiniteSet(Places(t))
  BY PlacesFinite
<1>6. IsFiniteSet(shifted) /\ Cardinality(shifted) = Cardinality(Places(t))
  <2>1. shift \in Bijection(Places(t), shifted)
    BY <1>1, <1>3 DEF Bijection, Injection, Surjection, IsInjective
  <2> QED
    BY <1>5, <2>1, FS_Bijection DEF ExistsBijection
<1>7. Places(s) \cap shifted = {}
  BY <1>1, <1>3
<1>8. Cardinality(Places(s) \cup shifted) = Cardinality(Places(s)) + Cardinality(shifted) - 0
  BY <1>5, <1>6, <1>7, FS_Union, FS_EmptySet
<1> QED
  BY <1>4, <1>5, <1>6, <1>8, FS_CardinalityType DEF Weight
LEMMA WeightOfAppend ==
    ASSUME NEW S, NEW q \in Seq(S), NEW m \in S
    PROVE  Weight(Append(q, m)) = Weight(q) + One(m)
<1>1. Append(q, m) = q \o <<m>> /\ <<m>> \in Seq(S)
  BY AppendIsConcat
<1> QED
  BY <1>1, WeightOfConcat, WeightOfFew

LEMMA WeightOfTail ==
    ASSUME NEW S, NEW q \in Seq(S), q # <<>>
    PROVE  Weight(q) = One(Head(q)) + Weight(Tail(q))
<1>1. Head(q) \in S /\ Tail(q) \in Seq(S) /\ <<Head(q)>> \in Seq(S)
  BY HeadTailProperties
<1>2. Len(q) \in Nat /\ Len(q) # 0
  BY EmptySeq
<1>3. SubSeq(q, 1, Len(q)) = <<q[1]>> \o SubSeq(q, 2, Len(q))
  BY <1>2, SubSeqRecursiveFirst
<1>4. q = <<Head(q)>> \o Tail(q)
  BY <1>3, SubSeqFull, TailIsSubSeq
<1> QED
  BY <1>1, <1>4, WeightOfConcat, WeightOfFew

LEMMA WeightOfRemoveAt ==
    ASSUME NEW S, NEW q \in Seq(S), NEW i \in DOMAIN q
    PROVE  Weight(q) = Weight(RemoveAt(q, i)) + One(q[i])
<1> DEFINE before == SubSeq(q, 1, i - 1)
           after == SubSeq(q, i + 1, Len(q))
<1>1. /\ i \in 1..Len(q) /\ Len(q) \in Nat /\ q[i] \in S
      /\ \A j \in 1..Len(q) : q[j] \in S
  BY LenProperties, ElementOfSeq
<1>2. before \in Seq(S) /\ after \in Seq(S)
  BY <1>1, SubSeqProperties
<1>3. before \o SubSeq(q, i, Len(q)) = q
  <2>1. SubSeq(q, 1, i - 1) \o SubSeq(q, (i - 1) + 1, Len(q)) = SubSeq(q, 1, Len(q))
    <3>1. 1 \in 1..(Len(q) + 1) /\ i - 1 \in (1 - 1)..Len(q) /\ Len(q) \in (i - 1)..Len(q)
      BY <1>1
    <3> QED
      BY <3>1, ConcatAdjacentSubSeq
  <2>2. (i - 1) + 1 = i
    BY <1>1
  <2> QED
    BY <2>1, <2>2, SubSeqFull
<1>4. SubSeq(q, i, Len(q)) = <<q[i]>> \o after
  <2>1. i \in 1..Len(q) /\ Len(q) \in i..Len(q)
    BY <1>1
  <2> QED
    BY <2>1, SubSeqRecursiveFirst
<1> HIDE DEF before, after
<1>5. <<q[i]>> \in Seq(S) /\ <<q[i]>> \o after \in Seq(S)
  BY <1>1, <1>2, ConcatProperties
<1>6. Weight(q) = Weight(before) + (One(q[i]) + Weight(after))
  <2>1. q = before \o (<<q[i]>> \o after)
    BY <1>3, <1>4
  <2>2. Weight(before \o (<<q[i]>> \o after)) = Weight(before) + Weight(<<q[i]>> \o after)
    BY <1>2, <1>5, WeightOfConcat
  <2>3. Weight(<<q[i]>> \o after) = Weight(<<q[i]>>) + Weight(after)
    BY <1>2, <1>5, WeightOfConcat
  <2>4. Weight(<<q[i]>>) = One(q[i])
    BY WeightOfFew
  <2> QED
    BY <2>1, <2>2, <2>3, <2>4
<1>7. Weight(RemoveAt(q, i)) = Weight(before) + Weight(after)
  BY <1>2, WeightOfConcat DEF RemoveAt, before, after
<1>8. Weight(before) \in Nat /\ Weight(after) \in Nat /\ One(q[i]) \in Nat
  BY <1>2, PlacesFinite DEF One
<1> QED
  BY <1>6, <1>7, <1>8

-----------------------------------------------------------------------------
(* Ratings *)

\* The update of the attempt under way has been made, or is not needed.
RatingsDone == busy /\ Current.kind = "updateRatings" /\ "feed" \notin left

\* What an attempt has sent, and what is left of it.
AttemptOK ==
    busy =>
      /\ Current.kind = "updateRatings" => left \in {{"load", "feed"}, {"feed"}, {}}
      /\ Weight(sends) <= IF Current.kind = "completed" /\ "rate" \notin left THEN 1 ELSE 0

Spent == IF RatingsDone THEN 1 ELSE 0

Pending == Weight(unpublished) + Weight(queue) + Weight(delayed) - Spent

Budget == used["complete"] + used["crash"]

RateInv ==
    /\ used \in [Steps -> Nat] /\ rated \in Nat
    /\ AttemptOK
    /\ rated + Pending <= Budget

\* The weights are numbers, and the message being handled has at most its own.
LEMMA Weights ==
    ASSUME MessagesOK
    PROVE  /\ Weight(unpublished) \in Nat /\ Weight(queue) \in Nat
           /\ Weight(delayed) \in Nat /\ Weight(sends) \in Nat
           /\ busy => /\ Weight(Tail(queue)) \in Nat
                      /\ Weight(queue) = One(Current) + Weight(Tail(queue))
<1>1. /\ unpublished \in Seq(Allowed) /\ queue \in Seq(Allowed) /\ delayed \in Seq(Allowed)
      /\ sends \in Seq(Allowed) /\ (busy => queue # <<>>)
  BY DEF MessagesOK
<1>2. ASSUME busy
      PROVE  /\ Weight(Tail(queue)) \in Nat
             /\ Weight(queue) = One(Current) + Weight(Tail(queue))
  <2>1. Tail(queue) \in Seq(Allowed)
    BY <1>1, <1>2, HeadTailProperties
  <2>2. Weight(queue) = One(Head(queue)) + Weight(Tail(queue))
    BY <1>1, <1>2, WeightOfTail
  <2> QED
    BY <2>1, <2>2, PlacesFinite DEF Current
<1> QED
  BY <1>1, <1>2, PlacesFinite

LEMMA Counted ==
    ASSUME used \in [Steps -> Nat], NEW k \in Steps, Count(k)
    PROVE  /\ used' \in [Steps -> Nat] /\ used'[k] = used[k] + 1
           /\ \A j \in Steps : j # k => used'[j] = used[j]
BY DEF Count

LEMMA Steady ==
    ASSUME NEW r \in Nat, NEW r1 \in Nat, NEW d \in {0, 1}, NEW d1 \in {0, 1},
           NEW w \in Int, NEW n \in Nat, r + (w - d) <= n, r1 - d1 <= r - d
    PROVE  r1 + (w - d1) <= n
<1>1. d \in Int /\ d1 \in Int
  OBVIOUS
<1> QED
  BY <1>1

\* A handler of the attempt returns, without a message more or less.
LEMMA HandlerReturns ==
    ASSUME RateInv, busy, UNCHANGED <<unpublished, queue, delayed, busy, used>>,
           rated' \in Nat, AttemptOK',
           rated' - Spent' <= rated - Spent,
           MessagesOK
    PROVE  RateInv'
<1>1. /\ Weight(unpublished) \in Nat /\ Weight(queue) \in Nat /\ Weight(delayed) \in Nat
      /\ used["complete"] \in Nat /\ used["crash"] \in Nat /\ rated \in Nat
  BY Weights DEF RateInv, Steps
<1>2. Spent \in {0, 1} /\ Spent' \in {0, 1} /\ Spent \in Int /\ Spent' \in Int
  BY DEF Spent
<1> DEFINE w == Weight(unpublished) + Weight(queue) + Weight(delayed)
<1>3. w \in Int /\ Budget \in Nat /\ rated + (w - Spent) <= Budget
  BY <1>1, <1>2 DEF RateInv, Pending, Budget
<1>4. Pending' = w - Spent' /\ used' = used /\ Budget' = Budget
  BY <1>1, <1>2 DEF Pending, Budget
<1> HIDE DEF w
<1>5. rated' + (w - Spent') <= Budget
  BY <1>1, <1>2, <1>3, Steady
<1>6. rated' + Pending' <= Budget'
  BY <1>4, <1>5
<1> QED
  BY <1>4, <1>6 DEF RateInv
LEMMA Balance ==
    ASSUME NEW r \in Nat, NEW x \in Int, NEW x1 \in Int, NEW n \in Nat, NEW n1 \in Nat,
           r + x <= n, x1 - x <= n1 - n
    PROVE  r + x1 <= n1
OBVIOUS

\* Messages come, move or go, and nothing is rated.
LEMMA MessagesMove ==
    ASSUME RateInv, rated' = rated, used' \in [Steps -> Nat], AttemptOK',
           Pending \in Int, Pending' \in Int, Pending' - Pending <= Budget' - Budget
    PROVE  RateInv'
<1>1. Budget \in Nat /\ Budget' \in Nat
  BY DEF RateInv, Budget, Steps
<1>2. rated \in Nat /\ rated + Pending <= Budget
  BY DEF RateInv
<1>3. rated + Pending' <= Budget'
  BY <1>1, <1>2, Balance
<1> QED
  BY <1>2, <1>3 DEF RateInv

LEMMA InMessages ==
    ASSUME MessagesOK
    PROVE  /\ unpublished \in Seq(Message) /\ queue \in Seq(Message)
           /\ delayed \in Seq(Message) /\ sends \in Seq(Message)
BY SeqGrows DEF MessagesOK, Allowed

LEMMA SpentType == Spent \in {0, 1} /\ Spent \in Int
BY DEF Spent

\* What is appended to the queue does not change the attempt at its head.
LEMMA BehindHead ==
    ASSUME MessagesOK, AttemptOK, UNCHANGED <<busy, left, sends>>,
           queue' = queue \/ \E m \in Message : queue' = Append(queue, m)
    PROVE  AttemptOK' /\ Spent' = Spent
<1>1. busy => queue # <<>>
  BY DEF MessagesOK
<1>2. ASSUME busy PROVE Current' = Current
  BY <1>1, <1>2, InMessages, HeadStays DEF Current
<1> QED
  BY <1>2 DEF AttemptOK, Spent, RatingsDone

LEMMA CommitRates ==
    ASSUME EndInv, RateInv, NEW e \in Message, Commit(e), used' \in [Steps -> Nat],
           One(e) <= Budget' - Budget
    PROVE  RateInv'
<1>1. /\ unpublished' = Append(unpublished, e)
      /\ UNCHANGED <<queue, delayed, busy, left, sends, rated>>
  BY DEF Commit, bus, attempt, made
<1>2. AttemptOK' /\ Spent' = Spent
  BY <1>1, BehindHead DEF EndInv, RateInv
<1>3. Weight(unpublished') = Weight(unpublished) + One(e)
  BY <1>1, InMessages, WeightOfAppend DEF EndInv
<1>4. /\ Weight(unpublished) \in Nat /\ Weight(queue) \in Nat /\ Weight(delayed) \in Nat
      /\ One(e) \in Nat /\ Spent \in Int
  BY Weights, SpentType DEF EndInv, One
<1>5. Pending \in Int /\ Pending' = Pending + One(e)
  BY <1>1, <1>2, <1>3, <1>4 DEF Pending
<1>6. Pending' \in Int /\ Pending' - Pending <= Budget' - Budget
  BY <1>4, <1>5
<1> QED
  BY <1>1, <1>2, <1>5, <1>6, MessagesMove

LEMMA EventWeight ==
    /\ \A kind \in Kinds : Event(kind) \in Message /\ Event(kind).kind = kind
    /\ One(Event("updateRatings")) = 1 /\ One(Event("completed")) = 1
    /\ One(Event("achievement")) = 0 /\ One(Event("deleted")) = 0 /\ One(Event("started")) = 0
<1>1. ASSUME NEW kind \in Kinds PROVE Event(kind) \in Message /\ Event(kind).kind = kind
  BY DEF Event, Message
<1> QED
  BY <1>1 DEF One, Rates, Kinds

LEMMA CommandRates ==
    ASSUME EndInv, RateInv,
           \/ \E s \in Slots, low, changed \in BOOLEAN : UpdatePlayerScore(s, low, changed)
           \/ CompleteRound \/ DeleteRound \/ CleanUp
    PROVE  RateInv'
<1>0. used \in [Steps -> Nat]
  BY DEF RateInv
<1>1. ASSUME NEW s \in Slots, NEW low \in BOOLEAN, NEW changed \in BOOLEAN,
             UpdatePlayerScore(s, low, changed)
      PROVE  RateInv'
  <2>1. ScoreEvent(s, low, changed) \in Message
    <3>1. 0 \in 0..(Attempts - 1) /\ s \in Slots \cup {NoSlot} /\ "score" \in Kinds
      BY DEF Kinds
    <3>2. \A k \in Kinds, l, c \in BOOLEAN, t \in 0..(Attempts - 1), x \in Slots \cup {NoSlot} :
             [kind |-> k, slot |-> x, low |-> l, changed |-> c, tries |-> t] \in Message
      BY Zenon DEF Message
    <3> QED
      BY <3>1, <3>2, Zenon DEF ScoreEvent
  <2>2. One(ScoreEvent(s, low, changed)) = 0
    BY DEF One, ScoreEvent, Rates
  <2>3. Commit(ScoreEvent(s, low, changed)) /\ Count("score")
    BY <1>1 DEF UpdatePlayerScore
  <2>4. /\ used' \in [Steps -> Nat] /\ used'["complete"] = used["complete"]
        /\ used'["crash"] = used["crash"]
    BY <1>0, <2>3, Counted DEF Steps
  <2>5. Budget' - Budget = 0
    BY <1>0, <2>4 DEF Budget, Steps
  <2> QED
    BY <2>1, <2>2, <2>3, <2>4, <2>5, CommitRates
<1>2. CASE CompleteRound
  <2>1. Commit(Event("completed")) /\ Count("complete")
    BY <1>2 DEF CompleteRound
  <2>2. /\ used' \in [Steps -> Nat] /\ used'["complete"] = used["complete"] + 1
        /\ used'["crash"] = used["crash"]
    BY <1>0, <2>1, Counted DEF Steps
  <2>3. Budget' - Budget = 1
    BY <1>0, <2>2 DEF Budget, Steps
  <2> QED
    BY <2>1, <2>2, <2>3, EventWeight, CommitRates DEF Kinds
<1>3. CASE DeleteRound
  <2>1. Commit(Event("deleted")) /\ used' = used
    BY <1>3 DEF DeleteRound
  <2>2. Budget' - Budget = 0
    BY <1>0, <2>1 DEF Budget, Steps
  <2> QED
    BY <1>0, <2>1, <2>2, EventWeight, CommitRates DEF Kinds
<1>4. CASE CleanUp
  <2>1. UNCHANGED <<unpublished, queue, delayed, sends, busy, left, rated, used>>
    BY <1>4 DEF CleanUp, bus, attempt, made
  <2>2. AttemptOK' /\ Pending' = Pending /\ Budget' = Budget
    BY <2>1 DEF RateInv, AttemptOK, Pending, Spent, RatingsDone, Current, Budget
  <2> QED
    BY <2>1, <2>2 DEF RateInv
<1> QED
  BY <1>1, <1>2, <1>3, <1>4

\* A handler of another message returns, and sends no command to rate.
LEMMA OtherReturns ==
    ASSUME EndInv, RateInv, busy, Current.kind # "updateRatings",
           UNCHANGED <<unpublished, queue, delayed, busy, used, rated>>,
           Weight(sends') = Weight(sends),
           "rate" \in left' <=> "rate" \in left
    PROVE  RateInv'
<1>1. Current' = Current
  BY DEF Current
<1>2. Spent' = Spent
  BY <1>1 DEF Spent, RatingsDone
<1>3. AttemptOK'
  BY <1>1 DEF RateInv, AttemptOK
<1>4. rated' - Spent' <= rated - Spent /\ rated' \in Nat
  BY <1>2, SpentType DEF RateInv
<1> QED
  BY <1>3, <1>4, HandlerReturns DEF EndInv
LEMMA HandleRates == ASSUME EndInv, RateInv, Handle PROVE RateInv'
<1>0. busy
  BY DEF Handle, LoadRound, FeedRound, Notify, CleanScore, AddScore, RateLater,
         EvaluateAchievements, FeedAchievement, EraseRound, LoadForRatings, UpdateRatings, Running
<1>1. Current.kind = "updateRatings" => left \in {{"load", "feed"}, {"feed"}, {}}
  BY <1>0 DEF RateInv, AttemptOK
<1>2. ASSUME NEW kind \in {"started", "completed"}, LoadRound(kind) \/ FeedRound(kind)
      PROVE  RateInv'
  <2>1. /\ UNCHANGED <<unpublished, queue, delayed, busy, used, rated, sends>>
        /\ Current.kind = kind /\ (left' = left \ {"load"} \/ left' = left \ {"feed"})
    BY <1>2 DEF LoadRound, FeedRound, Running, Returns, Around, made
  <2> QED
    BY <1>0, <2>1, OtherReturns
<1>3. CASE Notify
  <2>1. /\ UNCHANGED <<unpublished, queue, delayed, busy, used, rated, sends>>
        /\ "notify" \in left /\ left' = left \ {"notify"}
    BY <1>3 DEF Notify, Returns, Around, made
  <2> QED
    BY <1>0, <1>1, <2>1, OtherReturns
<1>4. CASE CleanScore \/ AddScore
  <2>1. /\ UNCHANGED <<unpublished, queue, delayed, busy, used, rated, sends>>
        /\ Current.kind = "score" /\ (left' = left \ {"clean"} \/ left' = left \ {"add"})
    BY <1>4 DEF CleanScore, AddScore, Running, Returns, Around
  <2> QED
    BY <1>0, <2>1, OtherReturns
<1>5. CASE FeedAchievement \/ EraseRound
  <2>1. /\ UNCHANGED <<unpublished, queue, delayed, busy, used, rated, sends>>
        /\ Current.kind \in {"achievement", "deleted"} /\ left' = left \ {"feed"}
    BY <1>5 DEF FeedAchievement, EraseRound, Running, Returns, Around
  <2> QED
    BY <1>0, <2>1, OtherReturns
<1>6. ASSUME NEW earned \in BOOLEAN, EvaluateAchievements(earned) PROVE RateInv'
  <2>1. /\ UNCHANGED <<unpublished, queue, delayed, busy, used, rated>>
        /\ Current.kind = "completed" /\ left' = left \ {"evaluate"}
        /\ sends' = sends \/ sends' = Append(sends, Event("achievement"))
    BY <1>6 DEF EvaluateAchievements, Running, Returns, Around, made
  <2>2. Event("achievement") \in Message /\ One(Event("achievement")) = 0
    BY EventWeight DEF Kinds
  <2>3. sends \in Seq(Message) /\ Weight(sends) \in Nat
    BY InMessages, Weights DEF EndInv
  <2>4. Weight(Append(sends, Event("achievement"))) = Weight(sends)
    BY <2>2, <2>3, WeightOfAppend
  <2> QED
    BY <1>0, <2>1, <2>4, OtherReturns
<1>7. CASE RateLater
  <2>1. /\ UNCHANGED <<unpublished, queue, delayed, busy, used, rated>>
        /\ Current.kind = "completed" /\ "rate" \in left /\ left' = left \ {"rate"}
        /\ sends' = Append(sends, Event("updateRatings"))
    BY <1>7 DEF RateLater, Running, Returns, Around, made
  <2>2. Event("updateRatings") \in Message /\ One(Event("updateRatings")) = 1
    BY EventWeight DEF Kinds
  <2>3. sends \in Seq(Message) /\ Weight(sends) \in Nat /\ Weight(sends) <= 0
    BY <1>0, <2>1, InMessages, Weights DEF EndInv, RateInv, AttemptOK
  <2>4. Weight(sends') = 1
    BY <2>1, <2>2, <2>3, WeightOfAppend
  <2>5. Current' = Current
    BY <2>1 DEF Current
  <2>6. AttemptOK' /\ Spent' = Spent
    BY <2>1, <2>4, <2>5 DEF AttemptOK, Spent, RatingsDone
  <2>7. rated' - Spent' <= rated - Spent /\ rated' \in Nat
    BY <2>1, <2>6, SpentType DEF RateInv
  <2> QED
    BY <1>0, <2>1, <2>6, <2>7, HandlerReturns DEF EndInv
<1>8. CASE LoadForRatings
  <2>1. /\ UNCHANGED <<unpublished, queue, delayed, busy, used, rated, sends>>
        /\ Current.kind = "updateRatings" /\ "load" \in left /\ left' \in {{"feed"}, {}}
    BY <1>8 DEF LoadForRatings, Running, Around, made
  <2>2. Current' = Current /\ "feed" \in left
    BY <1>1, <2>1 DEF Current
  <2>3. AttemptOK'
    BY <1>0, <2>1, <2>2 DEF RateInv, AttemptOK
  <2>4. Spent = 0 /\ (Spent' = 0 \/ Spent' = 1)
    BY <2>2 DEF Spent, RatingsDone
  <2>5. rated' = rated /\ rated \in Nat
    BY <2>1 DEF RateInv
  <2>6. rated' - Spent' <= rated - Spent
    BY <2>4, <2>5
  <2> QED
    BY <1>0, <2>1, <2>3, <2>5, <2>6, HandlerReturns DEF EndInv
<1>9. CASE UpdateRatings
  <2>1. /\ UNCHANGED <<unpublished, queue, delayed, busy, used, sends>>
        /\ Current.kind = "updateRatings" /\ "feed" \in left /\ "load" \notin left
        /\ left' = left \ {"feed"} /\ rated' = rated + 1
    BY <1>9 DEF UpdateRatings, Running, Returns
  <2>2. Current' = Current /\ left = {"feed"} /\ left' = {}
    BY <1>1, <2>1 DEF Current
  <2>3. AttemptOK'
    BY <1>0, <2>1, <2>2 DEF RateInv, AttemptOK
  <2>4. Spent = 0 /\ Spent' = 1
    BY <1>0, <2>1, <2>2 DEF Spent, RatingsDone
  <2>5. rated' - Spent' <= rated - Spent /\ rated' \in Nat
    BY <2>1, <2>4 DEF RateInv
  <2> QED
    BY <1>0, <2>1, <2>3, <2>5, HandlerReturns DEF EndInv
<1> QED
  BY <1>2, <1>3, <1>4, <1>5, <1>6, <1>7, <1>8, <1>9 DEF Handle

\* An attempt ends, and its message with it, or it stays for another one.
LEMMA EndRates ==
    ASSUME EndInv, RateInv, ~busy', UNCHANGED <<unpublished, rated>>, used' \in [Steps -> Nat],
           Weight(queue') \in Nat, Weight(delayed') \in Nat,
           Weight(queue') + Weight(delayed') - (Weight(queue) + Weight(delayed)) + Spent
             <= Budget' - Budget
    PROVE  RateInv'
<1>1. AttemptOK' /\ Spent' = 0
  BY DEF AttemptOK, Spent, RatingsDone
<1>2. /\ Weight(unpublished) \in Nat /\ Weight(queue) \in Nat /\ Weight(delayed) \in Nat
      /\ Spent \in Int
  BY Weights, SpentType DEF EndInv
<1>3. Budget \in Nat /\ Budget' \in Nat
  BY DEF RateInv, Budget, Steps
<1>4. /\ Pending = Weight(unpublished) + Weight(queue) + Weight(delayed) - Spent
      /\ Pending' = Weight(unpublished) + Weight(queue') + Weight(delayed') - 0
  BY <1>1 DEF Pending
<1>5. Pending \in Int /\ Pending' \in Int /\ Pending' - Pending <= Budget' - Budget
  BY <1>2, <1>3, <1>4
<1> QED
  BY <1>1, <1>5, MessagesMove

\* What the attempt has sent and done is no more than its message.
LEMMA AttemptWeight ==
    ASSUME EndInv, RateInv, busy
    PROVE  /\ Weight(sends) \in Nat /\ Spent \in {0, 1} /\ One(Current) \in {0, 1}
           /\ Weight(sends) + Spent <= One(Current)
           /\ left # {} => Spent = 0
           /\ Current.kind = "updateRatings" /\ left = {} => Spent = 1
<1>1. /\ Current.kind = "updateRatings" => left \in {{"load", "feed"}, {"feed"}, {}}
      /\ Weight(sends) <= IF Current.kind = "completed" /\ "rate" \notin left THEN 1 ELSE 0
  BY DEF RateInv, AttemptOK
<1>2. Weight(sends) \in Nat
  BY Weights DEF EndInv
<1>3. CASE Current.kind = "updateRatings"
  BY <1>1, <1>2, <1>3 DEF Spent, RatingsDone, One, Rates
<1>4. CASE Current.kind = "completed"
  BY <1>1, <1>2, <1>4 DEF Spent, RatingsDone, One, Rates
<1>5. CASE Current.kind \notin Rates
  BY <1>1, <1>2, <1>5 DEF Spent, RatingsDone, One, Rates
<1> QED
  BY <1>3, <1>4, <1>5 DEF Rates
LEMMA AcknowledgeRates == ASSUME EndInv, RateInv, Acknowledge PROVE RateInv'
<1>1. /\ busy /\ ~busy' /\ queue' = Tail(queue) \o sends
      /\ UNCHANGED <<unpublished, delayed, rated, used>>
  BY DEF Acknowledge, made
<1>2. /\ queue \in Seq(Message) /\ queue # <<>> /\ sends \in Seq(Message)
      /\ delayed \in Seq(Message)
  BY <1>1, InMessages DEF EndInv, MessagesOK
<1>3. Weight(queue') = Weight(Tail(queue)) + Weight(sends)
  BY <1>1, <1>2, HeadTailProperties, WeightOfConcat
<1>4. /\ Weight(Tail(queue)) \in Nat /\ Weight(queue) = One(Current) + Weight(Tail(queue))
      /\ Weight(delayed) \in Nat
  BY <1>1, Weights DEF EndInv
<1>5. /\ Weight(sends) \in Nat /\ One(Current) \in Nat /\ Spent \in Int
      /\ Weight(sends) + Spent <= One(Current)
  BY <1>1, AttemptWeight DEF One, Spent
<1>6. used' \in [Steps -> Nat] /\ Budget' - Budget = 0
  BY <1>1 DEF RateInv, Budget, Steps
<1>7. Weight(queue') \in Nat /\ Weight(delayed') = Weight(delayed)
  BY <1>1, <1>3, <1>4, <1>5
<1>8. Weight(queue') + Weight(delayed') - (Weight(queue) + Weight(delayed)) + Spent <= 0
  BY <1>3, <1>4, <1>5, <1>7
<1> QED
  BY <1>1, <1>4, <1>6, <1>7, <1>8, EndRates

LEMMA GiveUpRates == ASSUME EndInv, RateInv, GiveUp PROVE RateInv'
<1>1. /\ busy /\ left # {} /\ ~busy' /\ UNCHANGED <<unpublished, rated>>
      /\ used' = used \/ Count("fail")
      /\ \/ queue' = Tail(queue) /\ delayed' = delayed
         \/ ~LastTry(Current) /\ queue' = <<Again(Current)>> \o Tail(queue) /\ delayed' = delayed
         \/ ~LastTry(Current) /\ queue' = Tail(queue) /\ delayed' = Append(delayed, Again(Current))
  BY DEF GiveUp, made
<1>2. /\ queue \in Seq(Message) /\ queue # <<>> /\ delayed \in Seq(Message)
      /\ Tail(queue) \in Seq(Message)
  BY <1>1, InMessages, HeadTailProperties DEF EndInv, MessagesOK
<1>3. /\ Weight(Tail(queue)) \in Nat /\ Weight(queue) = One(Current) + Weight(Tail(queue))
      /\ Weight(delayed) \in Nat /\ One(Current) \in Nat
  BY <1>1, Weights DEF EndInv, One
<1>4. Spent = 0
  BY <1>1, AttemptWeight
<1>5. ASSUME ~LastTry(Current)
      PROVE  Again(Current) \in Message /\ One(Again(Current)) = One(Current)
  <2>1. Current \in Allowed
    BY <1>1, CurrentAllowed DEF EndInv
  <2>2. Again(Current) \in Allowed
    BY <1>5, <2>1, AgainAllowed
  <2>3. Current \in Message /\ Again(Current) \in Message
    BY <2>1, <2>2 DEF Allowed
  <2>4. Again(Current).kind = Current.kind
    BY <2>3 DEF Again, Message
  <2> QED
    BY <2>3, <2>4 DEF One
<1>6. used' \in [Steps -> Nat] /\ Budget' - Budget = 0
  <2>1. used \in [Steps -> Nat]
    BY DEF RateInv
  <2>2. /\ used' \in [Steps -> Nat] /\ used'["complete"] = used["complete"]
        /\ used'["crash"] = used["crash"]
    BY <1>1, <2>1, Counted DEF Steps
  <2> QED
    BY <2>1, <2>2 DEF Budget, Steps
<1>7. /\ Weight(queue') \in Nat /\ Weight(delayed') \in Nat
      /\ Weight(queue') + Weight(delayed') <= Weight(queue) + Weight(delayed)
  <2>1. CASE queue' = Tail(queue) /\ delayed' = delayed
    BY <1>3, <2>1
  <2>2. CASE ~LastTry(Current) /\ queue' = <<Again(Current)>> \o Tail(queue) /\ delayed' = delayed
    <3>1. <<Again(Current)>> \in Seq(Message) /\ Weight(<<Again(Current)>>) = One(Current)
      BY <1>5, <2>2, WeightOfFew
    <3>2. Weight(queue') = One(Current) + Weight(Tail(queue))
      BY <1>2, <2>2, <3>1, WeightOfConcat
    <3> QED
      BY <1>3, <2>2, <3>2
  <2>3. CASE ~LastTry(Current) /\ queue' = Tail(queue) /\ delayed' = Append(delayed, Again(Current))
    <3>1. Weight(delayed') = Weight(delayed) + One(Current)
      BY <1>2, <1>5, <2>3, WeightOfAppend
    <3> QED
      BY <1>3, <2>3, <3>1
  <2> QED
    BY <1>1, <2>1, <2>2, <2>3
<1>8. Weight(queue') + Weight(delayed') - (Weight(queue) + Weight(delayed)) + Spent <= 0
  BY <1>3, <1>4, <1>7
<1> QED
  BY <1>1, <1>6, <1>7, <1>8, EndRates

LEMMA CrashRates == ASSUME EndInv, RateInv, Crash PROVE RateInv'
<1>1. /\ busy /\ ~busy' /\ UNCHANGED <<unpublished, delayed, rated>> /\ Count("crash")
      /\ queue' = queue \/ queue' = queue \o sends
  BY DEF Crash, made
<1>2. /\ queue \in Seq(Message) /\ sends \in Seq(Message)
  BY InMessages DEF EndInv
<1>3. Weight(queue) \in Nat /\ Weight(delayed) \in Nat
  BY Weights DEF EndInv
<1>4. /\ Weight(sends) \in Nat /\ Spent \in Int /\ Weight(sends) + Spent <= 1
  BY <1>1, AttemptWeight DEF One, Spent
<1>5. used' \in [Steps -> Nat] /\ Budget' - Budget = 1
  <2>1. used \in [Steps -> Nat]
    BY DEF RateInv
  <2>2. /\ used' \in [Steps -> Nat] /\ used'["crash"] = used["crash"] + 1
        /\ used'["complete"] = used["complete"]
    BY <1>1, <2>1, Counted DEF Steps
  <2> QED
    BY <2>1, <2>2 DEF Budget, Steps
<1>6. Weight(queue \o sends) = Weight(queue) + Weight(sends)
  BY <1>2, WeightOfConcat
<1>7. Weight(queue') = Weight(queue) \/ Weight(queue') = Weight(queue) + Weight(sends)
  BY <1>1, <1>6
<1>8. Weight(queue') \in Nat /\ Weight(delayed') = Weight(delayed)
  BY <1>1, <1>3, <1>4, <1>7
<1>9. Weight(queue') + Weight(delayed') - (Weight(queue) + Weight(delayed)) + Spent <= 1
  BY <1>3, <1>4, <1>7, <1>8
<1> QED
  BY <1>1, <1>3, <1>5, <1>8, <1>9, EndRates

\* Arithmetic: what shrinks stays below a bound that grows.
LEMMA Fewer ==
    ASSUME NEW p \in Int, NEW p1 \in Int, p1 <= p, NEW n \in Nat, NEW n1 \in Nat, n <= n1
    PROVE  p1 - p <= n1 - n
OBVIOUS

\* Messages are published, lost or due again, behind the one being handled.
LEMMA BehindRates ==
    ASSUME EndInv, RateInv, UNCHANGED <<busy, left, sends, rated>>,
           queue' = queue \/ \E m \in Message : queue' = Append(queue, m),
           used' \in [Steps -> Nat], Budget <= Budget',
           Weight(unpublished') \in Nat, Weight(queue') \in Nat, Weight(delayed') \in Nat,
           Weight(unpublished') + Weight(queue') + Weight(delayed')
             <= Weight(unpublished) + Weight(queue) + Weight(delayed)
    PROVE  RateInv'
<1>1. AttemptOK' /\ Spent' = Spent
  BY BehindHead DEF EndInv, RateInv
<1>2. /\ Weight(unpublished) \in Nat /\ Weight(queue) \in Nat /\ Weight(delayed) \in Nat
      /\ Spent \in Int
  BY Weights, SpentType DEF EndInv
<1>3. Budget \in Nat /\ Budget' \in Nat
  BY DEF RateInv, Budget, Steps
<1>4. /\ Pending = Weight(unpublished) + Weight(queue) + Weight(delayed) - Spent
      /\ Pending' = Weight(unpublished') + Weight(queue') + Weight(delayed') - Spent
  BY <1>1 DEF Pending
<1>5. Pending \in Int /\ Pending' \in Int /\ Pending' - Pending <= Budget' - Budget
  <2>1. Pending \in Int
    BY <1>2, <1>4
  <2>2. Pending' \in Int
    BY <1>2, <1>4
  <2>3. Pending' <= Pending
    BY <1>2, <1>4
  <2>4. Pending' - Pending <= Budget' - Budget
    <3>1. Budget <= Budget'
      OBVIOUS
    <3> QED
      BY <1>3, <2>1, <2>2, <2>3, <3>1, Fewer
  <2> QED
    BY <2>1, <2>2, <2>4
<1> QED
  BY <1>1, <1>5, MessagesMove

LEMMA RateStep == ASSUME EndInv, RateInv, [Next]_vars PROVE RateInv'
<1>0. /\ unpublished \in Seq(Message) /\ queue \in Seq(Message) /\ delayed \in Seq(Message)
      /\ Weight(unpublished) \in Nat /\ Weight(queue) \in Nat /\ Weight(delayed) \in Nat
  BY InMessages, Weights DEF EndInv
<1>1. used \in [Steps -> Nat] /\ Budget \in Nat
  BY DEF RateInv, Budget, Steps
<1>2. CASE Publish
  <2>1. PICK i \in DOMAIN unpublished :
          /\ queue' = Append(queue, unpublished[i])
          /\ unpublished' = RemoveAt(unpublished, i)
          /\ UNCHANGED <<delayed, busy, left, sends, rated, used>>
    BY <1>2 DEF Publish, attempt, made
  <2>2. unpublished[i] \in Message
    BY <1>0, <2>1
  <2>3. /\ Weight(queue') = Weight(queue) + One(unpublished[i])
        /\ Weight(unpublished) = Weight(unpublished') + One(unpublished[i])
        /\ Weight(delayed') = Weight(delayed)
    BY <1>0, <2>1, <2>2, WeightOfAppend, WeightOfRemoveAt
  <2>4. Weight(unpublished') \in Nat /\ One(unpublished[i]) \in Nat
    BY <1>0, <2>1, RemoveAtType, PlacesFinite DEF One
  <2>5. Weight(queue') \in Nat /\ Weight(delayed') \in Nat
    BY <1>0, <2>3, <2>4
  <2>6. Weight(unpublished') + Weight(queue') + Weight(delayed')
          <= Weight(unpublished) + Weight(queue) + Weight(delayed)
    BY <1>0, <2>3, <2>4
  <2>7. used' \in [Steps -> Nat] /\ Budget <= Budget'
    BY <1>1, <2>1 DEF Budget
  <2> QED
    BY <2>1, <2>2, <2>4, <2>5, <2>6, <2>7, BehindRates
<1>3. CASE LosePublish
  <2>1. PICK i \in DOMAIN unpublished :
          /\ unpublished' = RemoveAt(unpublished, i) /\ Count("crash")
          /\ UNCHANGED <<queue, delayed, busy, left, sends, rated>>
    BY <1>3 DEF LosePublish, bus, attempt, made
  <2>2. /\ Weight(unpublished) = Weight(unpublished') + One(unpublished[i])
        /\ Weight(queue') = Weight(queue) /\ Weight(delayed') = Weight(delayed)
    BY <1>0, <2>1, WeightOfRemoveAt
  <2>3. Weight(unpublished') \in Nat /\ One(unpublished[i]) \in Nat
    BY <1>0, <2>1, RemoveAtType, PlacesFinite DEF One
  <2>4. Weight(unpublished') + Weight(queue') + Weight(delayed')
          <= Weight(unpublished) + Weight(queue) + Weight(delayed)
    BY <1>0, <2>2, <2>3
  <2>5. /\ used' \in [Steps -> Nat] /\ used'["crash"] = used["crash"] + 1
        /\ used'["complete"] = used["complete"]
    BY <1>1, <2>1, Counted DEF Steps
  <2>6. Budget <= Budget'
    BY <1>1, <2>5 DEF Budget, Steps
  <2> QED
    BY <1>0, <2>1, <2>2, <2>3, <2>4, <2>5, <2>6, BehindRates
<1>4. CASE DelayIsOver
  <2>1. PICK i \in DOMAIN delayed :
          /\ queue' = Append(queue, delayed[i])
          /\ delayed' = RemoveAt(delayed, i)
          /\ UNCHANGED <<unpublished, busy, left, sends, rated, used>>
    BY <1>4 DEF DelayIsOver, attempt, made
  <2>2. delayed[i] \in Message
    BY <1>0, <2>1
  <2>3. /\ Weight(queue') = Weight(queue) + One(delayed[i])
        /\ Weight(delayed) = Weight(delayed') + One(delayed[i])
        /\ Weight(unpublished') = Weight(unpublished)
    BY <1>0, <2>1, <2>2, WeightOfAppend, WeightOfRemoveAt
  <2>4. Weight(delayed') \in Nat /\ One(delayed[i]) \in Nat
    BY <1>0, <2>1, RemoveAtType, PlacesFinite DEF One
  <2>5. Weight(queue') \in Nat /\ Weight(unpublished') \in Nat
    BY <1>0, <2>3, <2>4
  <2>6. Weight(unpublished') + Weight(queue') + Weight(delayed')
          <= Weight(unpublished) + Weight(queue) + Weight(delayed)
    BY <1>0, <2>3, <2>4
  <2>7. used' \in [Steps -> Nat] /\ Budget <= Budget'
    BY <1>1, <2>1 DEF Budget
  <2> QED
    BY <2>1, <2>2, <2>4, <2>5, <2>6, <2>7, BehindRates
<1>5. CASE Receive
  <2>1. /\ ~busy /\ left' = HandlersOf(Current.kind) /\ sends' = <<>>
        /\ UNCHANGED <<unpublished, queue, delayed, rated, used>>
    BY <1>5 DEF Receive, made
  <2>2. Current' = Current
    BY <2>1 DEF Current
  <2>3. Current.kind = "updateRatings" => left' = {"load", "feed"}
    BY <2>1 DEF HandlersOf
  <2>4. Spent = 0 /\ Spent' = 0
    BY <2>1, <2>2, <2>3 DEF Spent, RatingsDone
  <2>5. Weight(sends') = 0
    BY <2>1, WeightOfFew
  <2>6. AttemptOK'
    BY <2>2, <2>3, <2>5 DEF AttemptOK
  <2>7. Pending' = Pending /\ Budget' = Budget
    BY <2>1, <2>4 DEF Pending, Budget
  <2> QED
    BY <2>1, <2>6, <2>7 DEF RateInv
<1>6. CASE UNCHANGED vars
  <2>1. UNCHANGED <<unpublished, queue, delayed, busy, left, sends, rated, used>>
    BY <1>6 DEF vars, bus, attempt, made
  <2>2. AttemptOK' /\ Pending' = Pending /\ Budget' = Budget
    BY <2>1 DEF RateInv, AttemptOK, Pending, Spent, RatingsDone, Current, Budget
  <2> QED
    BY <2>1, <2>2 DEF RateInv
<1> QED
  BY <1>2, <1>3, <1>4, <1>5, <1>6, CommandRates, HandleRates, AcknowledgeRates, GiveUpRates,
     CrashRates DEF Next

\* However often attempts fail, at whatever handler, and messages are delivered again:
\* the ratings are updated at most once for every RoundWasCompleted and once more for
\* every crash, because what a handler sends waits for the end of its attempt
\* (UpdateRatingOnRoundCompleted.cs, UpdateRatingsCommandHandler.cs).
THEOREM RatedNoMoreThanExplained == Spec => []RatedOncePerCompletion
<1>1. ASSUME Init PROVE RateInv
  <2>1. /\ unpublished = <<Event("started")>> /\ queue = <<>> /\ delayed = <<>>
        /\ ~busy /\ rated = 0 /\ used = [k \in Steps |-> 0]
    BY <1>1 DEF Init
  <2>2. Weight(unpublished) = 0 /\ Weight(queue) = 0 /\ Weight(delayed) = 0
    BY <2>1, WeightOfFew, EventWeight
  <2>3. Spent = 0 /\ AttemptOK
    BY <2>1 DEF Spent, RatingsDone, AttemptOK
  <2>4. Pending = 0 /\ Budget = 0
    BY <2>1, <2>2, <2>3 DEF Pending, Budget, Steps
  <2> QED
    BY <2>1, <2>3, <2>4 DEF RateInv
<1>2. EndInv /\ RateInv /\ [Next]_vars => RateInv'
  BY RateStep
<1>3. ASSUME EndInv, RateInv PROVE RatedOncePerCompletion
  <2>1. /\ Weight(unpublished) \in Nat /\ Weight(queue) \in Nat /\ Weight(delayed) \in Nat
        /\ rated \in Nat /\ Budget \in Nat
    BY <1>3, Weights DEF EndInv, RateInv, Budget, Steps
  <2>2. Spent <= Weight(queue) /\ Spent \in Int
    <3>1. CASE RatingsDone
      <4>1. Weight(queue) = One(Current) + Weight(Tail(queue)) /\ Weight(Tail(queue)) \in Nat
        BY <1>3, <3>1, Weights DEF EndInv, RatingsDone
      <4>2. One(Current) = 1 /\ Spent = 1
        BY <3>1 DEF One, Rates, Spent, RatingsDone
      <4> QED
        BY <4>1, <4>2
    <3>2. CASE ~RatingsDone
      BY <2>1, <3>2 DEF Spent
    <3> QED
      BY <3>1, <3>2
  <2>3. rated + (Weight(unpublished) + Weight(queue) + Weight(delayed) - Spent) <= Budget
    BY <1>3 DEF RateInv, Pending
  <2>4. rated <= Budget
    BY <2>1, <2>2, <2>3
  <2> QED
    BY <2>4 DEF RatedOncePerCompletion, Budget
<1> QED
  BY <1>1, <1>2, <1>3, EndInvariant, PTL DEF Spec
=============================================================================
