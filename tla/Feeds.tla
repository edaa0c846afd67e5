-------------------------------- MODULE Feeds --------------------------------
(***************************************************************************)
(* What becomes of the events of one round: the feed items and the ratings *)
(* made from them by the message handlers.                                 *)
(*                                                                         *)
(* Events are published after the commit they tell of.  One consumer takes *)
(* the messages from one queue, one at a time; all handlers of a message   *)
(* run in one attempt, each with its own SaveChanges, and what they send   *)
(* goes out when all have returned.  An attempt that throws is repeated at *)
(* once or later; in the end the message is put on the error queue.  A     *)
(* message whose attempt dies with the process is delivered again.         *)
(***************************************************************************)
EXTENDS Naturals, FiniteSets, SequencesExt

CONSTANTS
    Slots,           \* a player's score for a hole
    MaxScores,       \* bound on the scores registered in order
    Overlapping,     \* the slots scored, and bound on how often, when requests may overlap
    MaxCompletions,  \* bound on the RoundWasCompleted published (see RoundStore)
    MaxFaults,       \* bound on deaths of the process, and on attempts that fail
                     \* for no fault of the model, together
    Attempts         \* attempts before a message goes to the error queue

ASSUME FeedsAssumption ==
    /\ IsFiniteSet(Slots) /\ Slots # {}
    /\ Overlapping \subseteq Slots
    /\ MaxScores \in Nat /\ MaxCompletions \in Nat
    /\ MaxFaults \in Nat /\ Attempts \in Nat \ {0}

VARIABLES
    ordered,      \* requests do not overlap, and nothing fails by itself
    round,        \* "there", "hidden" (deleted by the worker) or "gone"
    score,        \* "none", "low" (better than par: worth a feed item) or "other"
    unpublished,  \* events whose command has committed but not yet published them
    queue,        \* the input queue; its head is being handled if busy
    delayed,      \* messages waiting for another attempt
    errors,       \* the error queue
    busy,         \* an attempt at the head of the queue is under way
    left,         \* the handlers that have still to run in it
    sends,        \* what those that have run have sent
    items,        \* global_feed_items, with the copies in the users' feeds
    erased,       \* history: the handler of RoundWasDeleted has run
    rated,        \* times the ratings of the players were updated
    used          \* steps taken of each bounded kind

roundVars == <<ordered, round, score>>
attempt == <<busy, left, sends>>
bus == <<queue, delayed, errors, attempt>>
made == <<items, erased, rated>>
vars == <<roundVars, unpublished, bus, made, used>>

-----------------------------------------------------------------------------
Kinds == {"started", "score", "completed", "deleted", "achievement", "updateRatings"}
NoSlot == "none"
Message == [kind : Kinds, slot : Slots \cup {NoSlot}, low : BOOLEAN,
            changed : BOOLEAN, tries : 0..(Attempts - 1)]
Event(kind) == [kind |-> kind, slot |-> NoSlot, low |-> FALSE, changed |-> FALSE, tries |-> 0]
ScoreEvent(s, low, changed) ==
    [kind |-> "score", slot |-> s, low |-> low, changed |-> changed, tries |-> 0]

\* What the handlers of a message do.  "clean" and "add" are the two saves of one
\* handler; "load" is where a handler reads the round, and "feed" where it saves.
HandlersOf(kind) ==
    CASE kind = "score" -> {"clean", "add"}
      [] kind = "started" -> {"load", "feed", "notify"}
      [] kind = "completed" -> {"load", "feed", "rate", "evaluate"}
      [] kind = "deleted" -> {"feed", "notify"}
      [] kind = "achievement" -> {"feed"}
      [] kind = "updateRatings" -> {"load", "feed"}

Item == [id : Nat, kind : {"round", "hole", "achievement"}, slot : Slots \cup {NoSlot}]
HoleItems(s) == {i \in items : i.kind = "hole" /\ i.slot = s}
NewItem(kind, s) ==
    [id |-> CHOOSE n \in 0..Cardinality(items) : \A i \in items : i.id # n,
     kind |-> kind, slot |-> s]

Steps == {"score", "complete", "fail", "crash"}
Within(u) ==
    /\ u["score"] <= IF ordered THEN MaxScores ELSE Cardinality(Overlapping)
    /\ u["complete"] <= MaxCompletions
    /\ u["fail"] + u["crash"] <= IF ordered THEN 0 ELSE MaxFaults
Count(k) == used' = [used EXCEPT ![k] = @ + 1] /\ Within(used')

Init ==
    /\ ordered \in BOOLEAN
    /\ round = "there"
    /\ score = [s \in Slots |-> "none"]
    /\ unpublished = <<Event("started")>>
    /\ queue = <<>> /\ delayed = <<>> /\ errors = <<>>
    /\ busy = FALSE /\ left = {} /\ sends = <<>>
    /\ items = {} /\ erased = FALSE /\ rated = 0
    /\ used = [k \in Steps |-> 0]

-----------------------------------------------------------------------------
(* The commands of the round, as far as they publish (see RoundStore) *)

exists == round = "there"

\* Without overlap a command has published before the next one commits.
MayCommit == exists /\ (ordered => unpublished = <<>>)

Commit(e) == unpublished' = Append(unpublished, e) /\ UNCHANGED <<bus, made>>

\* Fault: every score is announced as the first for its hole.
ScoreAsFirst(s, low, changed) ==
    /\ MayCommit
    /\ Count("score") /\ (ordered \/ s \in Overlapping)
    /\ score' = [score EXCEPT ![s] = IF low THEN "low" ELSE "other"]
    /\ Commit(ScoreEvent(s, low, FALSE))
    /\ UNCHANGED <<ordered, round>>

\* Of two first scores that overlap, neither says that the score was changed.
UpdatePlayerScore(s, low, changed) ==
    /\ MayCommit
    /\ Count("score") /\ (ordered \/ s \in Overlapping)
    /\ changed => score[s] # "none"
    /\ ordered /\ score[s] # "none" => changed
    /\ score' = [score EXCEPT ![s] = IF low THEN "low" ELSE "other"]
    /\ Commit(ScoreEvent(s, low, changed))
    /\ UNCHANGED <<ordered, round>>

CompleteRound ==
    /\ MayCommit
    /\ Count("complete")
    /\ Commit(Event("completed"))
    /\ UNCHANGED roundVars

DeleteRound ==
    /\ MayCommit
    /\ round' = "gone"
    /\ Commit(Event("deleted"))
    /\ UNCHANGED <<ordered, score, used>>

\* UpdateInActiveRoundsWorker hides the round (its flag Deleted) and tells nobody.
CleanUp ==
    /\ exists /\ round' = "hidden"
    /\ UNCHANGED <<ordered, score, unpublished, bus, made, used>>

\* Requests that overlap publish in any order.
Publish ==
    \E i \in DOMAIN unpublished :
      /\ queue' = Append(queue, unpublished[i])
      /\ unpublished' = RemoveAt(unpublished, i)
      /\ UNCHANGED <<roundVars, delayed, errors, attempt, made, used>>

\* The process dies between the commit and the publish.
LosePublish ==
    \E i \in DOMAIN unpublished :
      /\ Count("crash")
      /\ unpublished' = RemoveAt(unpublished, i)
      /\ UNCHANGED <<roundVars, bus, made>>

-----------------------------------------------------------------------------
(* The consumer *)

Current == Head(queue)

Receive ==
    /\ ~busy /\ queue # <<>>
    /\ busy' = TRUE /\ left' = HandlersOf(Current.kind) /\ sends' = <<>>
    /\ UNCHANGED <<roundVars, unpublished, queue, delayed, errors, made, used>>

Running(kind, handler) == busy /\ Current.kind = kind /\ handler \in left

\* The handler returns.
Returns(handler) == left' = left \ {handler}
Around == <<roundVars, unpublished, queue, delayed, errors, busy, used>>

\* Fault: the round of the message is taken to be there.
LoadUnseen(kind) ==
    /\ Running(kind, "load")
    /\ Returns("load")
    /\ UNCHANGED <<Around, sends, made>>

\* UpdateFeedsOnRoundStarted and UpdateFeedsOnCompletedRound load the round, and
\* throw when it is gone.
LoadRound(kind) ==
    /\ Running(kind, "load")
    /\ exists
    /\ Returns("load")
    /\ UNCHANGED <<Around, sends, made>>

\* The round may be deleted before they save; what they save does not touch it.
FeedRound(kind) ==
    /\ Running(kind, "feed") /\ "load" \notin left
    /\ items' = items \cup {NewItem("round", NoSlot)}
    /\ Returns("feed")
    /\ UNCHANGED <<Around, sends, erased, rated>>

\* NotifyPlayersOnRoundStarted, which loads the round, and ...OnRoundDeleted.
Notify ==
    /\ busy /\ "notify" \in left
    /\ Current.kind = "started" => exists
    /\ Returns("notify")
    /\ UNCHANGED <<Around, sends, made>>

\* Fault: the item of the older score is left behind.
CleanNothing ==
    /\ Running("score", "clean")
    /\ Current.changed => Cardinality(HoleItems(Current.slot)) <= 1
    /\ Returns("clean")
    /\ UNCHANGED <<Around, sends, made>>

\* CleanupFeedsIfScoreWasChanged: the item of the older score is removed;
\* SingleOrDefault throws when there are two.
CleanScore ==
    LET old == HoleItems(Current.slot) IN
    /\ Running("score", "clean")
    /\ Current.changed => Cardinality(old) <= 1
    /\ items' = IF Current.changed THEN items \ old ELSE items
    /\ Returns("clean")
    /\ UNCHANGED <<Around, sends, erased, rated>>

\* UpdateFeedsOnScoreUpdated does not load the round.
AddScore ==
    /\ Running("score", "add") /\ "clean" \notin left
    /\ items' = IF Current.low THEN items \cup {NewItem("hole", Current.slot)} ELSE items
    /\ Returns("add")
    /\ UNCHANGED <<Around, sends, erased, rated>>

\* EvaluateAchievementsOnCompetedRound loads the round and may publish.
EvaluateAchievements(earned) ==
    /\ Running("completed", "evaluate")
    /\ exists
    /\ sends' = IF earned THEN Append(sends, Event("achievement")) ELSE sends
    /\ Returns("evaluate")
    /\ UNCHANGED <<Around, made>>

\* Fault: the command is sent at once and not with the end of the attempt.
RateAtOnce ==
    /\ Running("completed", "rate")
    /\ queue' = Append(queue, Event("updateRatings"))
    /\ Returns("rate")
    /\ UNCHANGED <<roundVars, unpublished, delayed, errors, busy, used, sends, made>>

\* UpdateRatingOnRoundCompleted
RateLater ==
    /\ Running("completed", "rate")
    /\ sends' = Append(sends, Event("updateRatings"))
    /\ Returns("rate")
    /\ UNCHANGED <<Around, made>>

\* UpdateFeedsOnAchievementEarned does not load the round either.
FeedAchievement ==
    /\ Running("achievement", "feed")
    /\ items' = items \cup {NewItem("achievement", NoSlot)}
    /\ Returns("feed")
    /\ UNCHANGED <<Around, sends, erased, rated>>

\* UpdateFeedsOnRoundDeleted removes what there is of the round at that time.
EraseRound ==
    /\ Running("deleted", "feed")
    /\ items' = {} /\ erased' = TRUE
    /\ Returns("feed")
    /\ UNCHANGED <<Around, sends, rated>>

\* UpdateRatingsCommandHandler: nothing to do for a round that is gone.
LoadForRatings ==
    /\ Running("updateRatings", "load")
    /\ left' = IF exists THEN {"feed"} ELSE {}
    /\ UNCHANGED <<Around, sends, made>>

\* It saves the ratings with the round as it was loaded: that fails if the row is
\* gone meanwhile, and brings back a round that was hidden meanwhile.
UpdateRatings ==
    /\ Running("updateRatings", "feed") /\ "load" \notin left
    /\ round # "gone" /\ round' = "there"
    /\ rated' = rated + 1
    /\ Returns("feed")
    /\ UNCHANGED <<ordered, score, unpublished, queue, delayed, errors, busy, used>>
    /\ UNCHANGED <<sends, items, erased>>

Handle ==
    \/ \E kind \in {"started", "completed"} : LoadRound(kind) \/ FeedRound(kind)
    \/ Notify
    \/ CleanScore \/ AddScore
    \/ RateLater \/ \E earned \in BOOLEAN : EvaluateAchievements(earned)
    \/ FeedAchievement \/ EraseRound
    \/ LoadForRatings \/ UpdateRatings

\* All have returned: what they sent goes out and the message is acknowledged.
Acknowledge ==
    /\ busy /\ left = {}
    /\ queue' = Tail(queue) \o sends
    /\ busy' = FALSE /\ sends' = <<>>
    /\ UNCHANGED <<roundVars, unpublished, delayed, errors, left, made, used>>

\* A handler cannot return: it does not find the round, it saves a row that is
\* gone, or there are two items where it expects one.
Throws ==
    \/ /\ ~exists /\ Current.kind \in {"started", "completed"}
       /\ left \cap {"load", "notify", "evaluate"} # {}
    \/ round = "gone" /\ Running("updateRatings", "feed") /\ "load" \notin left
    \/ /\ Running("score", "clean") /\ Current.changed
       /\ Cardinality(HoleItems(Current.slot)) > 1

\* Fault: attempts are not counted.
AgainUncounted(m) == m

Again(m) == [m EXCEPT !.tries = @ + 1]

LastTry(m) == m.tries + 1 = Attempts

\* A handler throws and the attempt is given up: what was saved stays, what was to be sent is not.
\* Then follows another attempt, at once or later, or the error queue.
GiveUp ==
    /\ busy /\ left # {}
    /\ IF Throws THEN UNCHANGED used ELSE Count("fail")
    /\ busy' = FALSE /\ left' = {} /\ sends' = <<>>
    /\ \/ /\ LastTry(Current)
          /\ errors' = Append(errors, Current)
          /\ queue' = Tail(queue) /\ UNCHANGED delayed
       \/ /\ ~LastTry(Current)
          /\ queue' = <<Again(Current)>> \o Tail(queue) /\ UNCHANGED <<delayed, errors>>
       \/ /\ ~LastTry(Current)
          /\ queue' = Tail(queue) /\ delayed' = Append(delayed, Again(Current))
          /\ UNCHANGED errors
    /\ UNCHANGED <<roundVars, unpublished, made>>

DelayIsOver ==
    \E i \in DOMAIN delayed :
      /\ queue' = Append(queue, delayed[i])
      /\ delayed' = RemoveAt(delayed, i)
      /\ UNCHANGED <<roundVars, unpublished, errors, attempt, made, used>>

\* The process dies, or loses the broker, in an attempt, maybe after sending but
\* before it could acknowledge.
Crash ==
    /\ busy
    /\ Count("crash")
    /\ \/ queue' = queue
       \/ left = {} /\ queue' = queue \o sends
    /\ busy' = FALSE /\ left' = {} /\ sends' = <<>>
    /\ UNCHANGED <<roundVars, unpublished, delayed, errors, made>>

Next ==
    \/ \E s \in Slots, low, changed \in BOOLEAN : UpdatePlayerScore(s, low, changed)
    \/ CompleteRound \/ DeleteRound \/ CleanUp
    \/ Publish \/ LosePublish
    \/ Receive \/ Handle \/ Acknowledge \/ GiveUp \/ DelayIsOver \/ Crash

Spec == Init /\ [][Next]_vars

\* Published or lost, received, handled, tried again: the server keeps running.
Fairness ==
    /\ WF_vars(Publish) /\ WF_vars(Receive) /\ WF_vars(Handle \/ GiveUp)
    /\ WF_vars(Acknowledge) /\ WF_vars(DelayIsOver)

FairSpec == Spec /\ Fairness

-----------------------------------------------------------------------------
TypeOK ==
    /\ ordered \in BOOLEAN
    /\ round \in {"there", "hidden", "gone"}
    /\ score \in [Slots -> {"none", "low", "other"}]
    /\ \A q \in {unpublished, queue, delayed, errors, sends} :
         \A i \in DOMAIN q : q[i] \in Message
    /\ busy \in BOOLEAN /\ left \subseteq UNION {HandlersOf(k) : k \in Kinds}
    /\ items \subseteq Item
    /\ erased \in BOOLEAN /\ rated \in Nat
    /\ used \in [Steps -> Nat]

\* UpdateFeedsOnScoreUpdated, in order and undisturbed: once no event about a score
\* is under way, the feed has one item for it if it is better than par and none
\* otherwise, however often the player has corrected it.
Underway(s) == \E q \in {unpublished, queue, delayed} :
                 \E i \in DOMAIN q : q[i].slot = s
FeedShowsScores ==
    \A s \in Slots :
        ordered /\ exists /\ ~Underway(s) =>
            Cardinality(HoleItems(s)) = IF score[s] = "low" THEN 1 ELSE 0

\* In order and undisturbed: only what comes too late for its round fails for good.
OnlyLateMessagesFail == ordered /\ errors # <<>> => ~exists

\* After the handler of RoundWasDeleted the feed has no item for the start or the
\* completion of the round, whatever is delivered late, again or out of order.
\* (Hole and achievement items may still come: their handlers do not look.)
NoRoundAfterItsEnd == erased => \A i \in items : i.kind # "round"

\* The ratings are updated at most once for every RoundWasCompleted and once more
\* for every crash: attempts that fail, at whatever handler, leave no update behind.
\* (UpdateRatingsCommandHandler itself does not see that it ran before.)
RatedOncePerCompletion == rated <= used["complete"] + used["crash"]

\* The consumer gets through: every message is handled or on the error queue.
EventuallyDrained == <>[](unpublished = <<>> /\ queue = <<>> /\ delayed = <<>>)
=============================================================================
