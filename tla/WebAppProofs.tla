----------------------------- MODULE WebAppProofs -----------------------------
(***************************************************************************)
(* Proofs about WebApp, for every number of users, feed items, courses and *)
(* rounds and every set of visits: whose tab it is, what the lists to      *)
(* choose from show, what the feed shows, and what the other pages show.   *)
(***************************************************************************)
EXTENDS WebApp, SequenceTheorems, FiniteSetTheorems, TLAPS

TabFields == {"saved", "user", "details", "loginError", "round", "recent", "pace",
              "courseStats", "roundStats", "courses", "cups", "cup", "profile", "busy",
              "err", "hub", "inbox", "net", "at", "arg", "view"}
RequestFields == {"op", "arg", "who", "phase", "data", "to"}

\* A sequence of whatever.
IsSequence(s) == Len(s) \in Nat /\ s = [i \in 1..Len(s) |-> s[i]]
\* What a tab is as far as the proofs need it.
IsNet(net) == IsSequence(net) /\ \A i \in DOMAIN net : DOMAIN net[i] = RequestFields
IsTab(c)   == DOMAIN c = TabFields /\ IsNet(c.net)

-----------------------------------------------------------------------------
(* Sequences.                                                                *)

LEMMA SequenceIsSeq ==
    ASSUME NEW s, IsSequence(s), NEW S, \A i \in 1..Len(s) : s[i] \in S
    PROVE  s \in Seq(S) /\ DOMAIN s = 1..Len(s)
<1>1. DOMAIN s = 1..Len(s) /\ s \in [1..Len(s) -> S]
  BY DEF IsSequence
<1> QED
  BY <1>1, SeqDef DEF IsSequence

LEMMA SeqIsSequence ==
    ASSUME NEW S, NEW s \in Seq(S)
    PROVE  IsSequence(s) /\ DOMAIN s = 1..Len(s) /\ Len(s) \in Nat
BY LenProperties DEF IsSequence

LEMMA FunctionIsSequence ==
    ASSUME NEW n \in Nat, NEW s, DOMAIN s = 1..n, s = [i \in 1..n |-> s[i]]
    PROVE  IsSequence(s) /\ Len(s) = n
<1> DEFINE S == {s[i] : i \in 1..n}
<1>1. s \in [1..n -> S]
  OBVIOUS
<1> HIDE DEF S
<1>2. s \in Seq(S)
  BY <1>1, SeqDef
<1>3. IsSequence(s) /\ DOMAIN s = 1..Len(s) /\ Len(s) \in Nat
  BY <1>2, SeqIsSequence
<1>4. Len(s) = n
  BY <1>1, <1>2, LenProperties
<1> QED
  BY <1>3, <1>4

LEMMA AppendToSequence ==
    ASSUME NEW s, IsSequence(s), NEW e
    PROVE  /\ IsSequence(Append(s, e))
           /\ DOMAIN s = 1..Len(s)
           /\ DOMAIN Append(s, e) = 1..(Len(s) + 1)
           /\ \A i \in 1..Len(s) : Append(s, e)[i] = s[i]
           /\ Append(s, e)[Len(s) + 1] = e
<1> DEFINE S == {s[i] : i \in 1..Len(s)} \cup {e}
<1>1. s \in Seq(S) /\ e \in S /\ DOMAIN s = 1..Len(s)
  BY SequenceIsSeq
<1> HIDE DEF S
<1>2. Append(s, e) \in Seq(S)
  BY <1>1, AppendProperties
<1>3. IsSequence(Append(s, e))
  BY <1>2, SeqIsSequence
<1> QED
  BY <1>1, <1>3, AppendProperties DEF IsSequence

LEMMA RemoveFromSequence ==
    ASSUME NEW s, IsSequence(s), NEW n \in DOMAIN s
    PROVE  /\ IsSequence(RemoveAt(s, n))
           /\ DOMAIN RemoveAt(s, n) = 1..(Len(s) - 1)
           /\ \A i \in 1..(Len(s) - 1) :
                RemoveAt(s, n)[i] = IF i < n THEN s[i] ELSE s[i + 1]
<1> DEFINE S == {s[i] : i \in 1..Len(s)}
<1>1. s \in Seq(S) /\ DOMAIN s = 1..Len(s) /\ Len(s) \in Nat /\ n \in 1..Len(s)
  BY SequenceIsSeq DEF IsSequence
<1> HIDE DEF S
<1> DEFINE a == SubSeq(s, 1, n - 1)
           b == SubSeq(s, n + 1, Len(s))
<1>2. a \in Seq(S) /\ Len(a) = n - 1 /\ \A i \in 1..(n - 1) : a[i] = s[i]
  BY <1>1, SubSeqProperties
<1>3. b \in Seq(S) /\ Len(b) = Len(s) - n /\ \A i \in 1..(Len(s) - n) : b[i] = s[n + i]
  BY <1>1, SubSeqProperties
<1>4. RemoveAt(s, n) = a \o b
  BY DEF RemoveAt
<1> HIDE DEF a, b
<1>5. /\ a \o b \in Seq(S) /\ Len(a \o b) = Len(s) - 1
      /\ \A i \in 1..(Len(s) - 1) : (a \o b)[i] = IF i < n THEN s[i] ELSE s[i + 1]
  <2>1. /\ a \o b \in Seq(S) /\ Len(a \o b) = Len(a) + Len(b)
        /\ \A i \in 1..(Len(a) + Len(b)) :
              (a \o b)[i] = IF i <= Len(a) THEN a[i] ELSE b[i - Len(a)]
    BY <1>2, <1>3, ConcatProperties
  <2>2. ASSUME NEW i \in 1..(Len(s) - 1), ~(i < n)
        PROVE  (a \o b)[i] = s[i + 1]
    <3>1. i - Len(a) \in 1..(Len(s) - n) /\ n + (i - Len(a)) = i + 1
      BY <1>1, <1>2, <2>2
    <3>2. i \in 1..(Len(a) + Len(b)) /\ ~(i <= Len(a))
      BY <1>1, <1>2, <1>3, <2>2
    <3>3. (a \o b)[i] = b[i - Len(a)]
      BY <2>1, <3>2
    <3>4. b[i - Len(a)] = s[n + (i - Len(a))]
      BY <1>3, <3>1
    <3> QED
      BY <3>1, <3>3, <3>4
  <2> QED
    BY <1>1, <1>2, <1>3, <2>1, <2>2
<1>6. IsSequence(a \o b) /\ DOMAIN (a \o b) = 1..(Len(s) - 1)
  BY <1>5, SeqIsSequence
<1> QED
  BY <1>4, <1>5, <1>6

-----------------------------------------------------------------------------
(* One tab.                                                                  *)

\* Every login under way in d is under way in c.
FewerLogins(c, d) ==
    \A i \in DOMAIN d.net :
        LoggingIn(d.net[i]) => i \in DOMAIN c.net /\ LoggingIn(c.net[i])
\* d is c with something else in its stores and requests, none of which logs
\* anybody in; the hub connection may be another.
Follows(c, d) ==
    /\ IsTab(d) /\ FewerLogins(c, d)
    /\ d.user = c.user /\ d.saved = c.saved /\ d.at = c.at
\* The hub connection is not.
Quiet(c, d) == Follows(c, d) /\ d.hub = c.hub

LEMMA FollowsTransitive ==
    ASSUME NEW c, NEW d, NEW e, Follows(c, d), Follows(d, e) PROVE Follows(c, e)
BY DEF Follows, FewerLogins

LEMMA QuietTransitive ==
    ASSUME NEW c, NEW d, NEW e, Quiet(c, d), Quiet(d, e) PROVE Quiet(c, e)
BY FollowsTransitive DEF Quiet

LEMMA SameNet ==
    ASSUME NEW c, NEW d, IsTab(c), DOMAIN d = TabFields, d.net = c.net,
           d.user = c.user, d.saved = c.saved, d.at = c.at
    PROVE  Follows(c, d)
BY DEF Follows, FewerLogins, IsTab

\* What d and c have in common when a store changes.
Alike(c, d) ==
    /\ DOMAIN d = TabFields /\ d.net = c.net
    /\ d.user = c.user /\ d.saved = c.saved /\ d.at = c.at /\ d.hub = c.hub
LEMMA AlikeIsQuiet ==
    ASSUME NEW c, NEW d, IsTab(c), Alike(c, d) PROVE Quiet(c, d)
BY SameNet DEF Alike, Quiet

LEMMA RequestIsRequest ==
    ASSUME NEW op, NEW arg, NEW who
    PROVE  /\ DOMAIN Request(op, arg, who) = RequestFields
           /\ Request(op, arg, who).op = op /\ Request(op, arg, who).arg = arg
           /\ Request(op, arg, who).who = who /\ Request(op, arg, who).phase = "sent"
           /\ Request(op, arg, who).to = "page"
BY DEF Request, RequestFields

LEMMA AskingAppends ==
    ASSUME NEW c, IsTab(c), NEW op, NEW arg
    PROVE  LET d == Asks(c, op, arg)
           IN  /\ IsTab(d)
               /\ d.net = Append(c.net, Request(op, arg, c.saved))
               /\ \A f \in TabFields \ {"net"} : d[f] = c[f]
<1> DEFINE d == Asks(c, op, arg)
           q == Request(op, arg, c.saved)
<1>1. /\ DOMAIN d = TabFields /\ d.net = Append(c.net, q)
      /\ \A f \in TabFields \ {"net"} : d[f] = c[f]
  BY DEF Asks, IsTab, TabFields
<1>2. IsSequence(c.net) /\ \A i \in DOMAIN c.net : DOMAIN c.net[i] = RequestFields
  BY DEF IsTab, IsNet
<1>3. DOMAIN q = RequestFields
  BY RequestIsRequest
<1> HIDE DEF d, q
<1>4. /\ IsSequence(d.net) /\ DOMAIN d.net = 1..(Len(c.net) + 1)
      /\ \A i \in 1..Len(c.net) : i \in DOMAIN c.net /\ d.net[i] = c.net[i]
      /\ d.net[Len(c.net) + 1] = q
  BY <1>1, <1>2, AppendToSequence
<1>5. \A i \in DOMAIN d.net : i \in 1..Len(c.net) \/ i = Len(c.net) + 1
  BY <1>2, <1>4 DEF IsSequence
<1>6. IsNet(d.net)
  BY <1>2, <1>3, <1>4, <1>5 DEF IsNet
<1>7. IsTab(d)
  BY <1>1, <1>6 DEF IsTab
<1> QED
  BY <1>1, <1>7 DEF d, q

LEMMA AskingIsQuiet ==
    ASSUME NEW c, IsTab(c), NEW op, op \notin {"login", "register"}, NEW arg
    PROVE  Quiet(c, Asks(c, op, arg))
<1> DEFINE d == Asks(c, op, arg)
           q == Request(op, arg, c.saved)
<1>1. IsTab(d) /\ d.net = Append(c.net, q)
  BY AskingAppends
<1>2. d.user = c.user /\ d.saved = c.saved /\ d.at = c.at /\ d.hub = c.hub
  BY AskingAppends DEF TabFields
<1>3. ~LoggingIn(q)
  BY RequestIsRequest DEF LoggingIn
<1>4. IsSequence(c.net)
  BY DEF IsTab, IsNet
<1> HIDE DEF d, q
<1>5. /\ DOMAIN d.net = 1..(Len(c.net) + 1)
      /\ \A i \in 1..Len(c.net) : i \in DOMAIN c.net /\ d.net[i] = c.net[i]
      /\ d.net[Len(c.net) + 1] = q
  BY <1>1, <1>4, AppendToSequence
<1>6. \A i \in DOMAIN d.net : i \in 1..Len(c.net) \/ i = Len(c.net) + 1
  BY <1>4, <1>5 DEF IsSequence
<1>7. FewerLogins(c, d)
  BY <1>3, <1>5, <1>6 DEF FewerLogins
<1> QED
  BY <1>1, <1>2, <1>7 DEF Follows, Quiet, d

LEMMA LoadingIsQuiet ==
    ASSUME NEW c, IsTab(c), NEW op, op \notin {"login", "register"}, NEW arg
    PROVE  /\ \A store : Quiet(c, Loads(c, store, op, arg))
           /\ Quiet(c, Waits(c, op, arg))
           /\ Quiet(c, Starts(c, op, arg))
<1>1. ASSUME NEW store PROVE Quiet(c, Loads(c, store, op, arg))
  <2> DEFINE d == [c EXCEPT !.busy = @ \cup {store}, !.err = @ \ {store}]
  <2>0. Alike(c, d)
    BY DEF Alike, IsTab, TabFields
  <2> HIDE DEF d
  <2>1. Quiet(c, d)
    BY <2>0, AlikeIsQuiet
  <2>2. Quiet(d, Asks(d, op, arg))
    BY <2>1, AskingIsQuiet DEF Quiet, Follows
  <2> QED
    BY <2>1, <2>2, QuietTransitive DEF Loads, d
<1>2. Quiet(c, Waits(c, op, arg))
  <2> DEFINE d == [c EXCEPT !.view.busy = TRUE, !.view.failed = FALSE]
  <2>0. Alike(c, d)
    BY DEF Alike, IsTab, TabFields
  <2> HIDE DEF d
  <2>1. Quiet(c, d)
    BY <2>0, AlikeIsQuiet
  <2>2. Quiet(d, Asks(d, op, arg))
    BY <2>1, AskingIsQuiet DEF Quiet, Follows
  <2> QED
    BY <2>1, <2>2, QuietTransitive DEF Waits, d
<1>3. Quiet(c, Starts(c, op, arg))
  <2> DEFINE d == [c EXCEPT !.view.starting = TRUE]
  <2>0. Alike(c, d)
    BY DEF Alike, IsTab, TabFields
  <2> HIDE DEF d
  <2>1. Quiet(c, d)
    BY <2>0, AlikeIsQuiet
  <2>2. Quiet(d, Asks(d, op, arg))
    BY <2>1, AskingIsQuiet DEF Quiet, Follows
  <2> QED
    BY <2>1, <2>2, QuietTransitive DEF Starts, d
<1> QED
  BY <1>1, <1>2, <1>3

LEMMA FeedPageIsQuiet ==
    ASSUME NEW c, IsTab(c), NEW page PROVE Quiet(c, fetchPage(c, page))
<1> DEFINE d == [c EXCEPT !.view.loaded = @ \cup {page}]
<1>0. Alike(c, c) /\ Alike(c, d)
  BY DEF Alike, IsTab, TabFields
<1> HIDE DEF d
<1>1. Quiet(c, c) /\ Quiet(c, d)
  BY <1>0, AlikeIsQuiet
<1>2. Quiet(d, Waits(d, "feed", <<page>>))
  <2>1. IsTab(d)
    BY <1>1 DEF Quiet, Follows
  <2> QED
    BY <2>1, LoadingIsQuiet
<1>3. Quiet(c, Waits(d, "feed", <<page>>))
  BY <1>1, <1>2, QuietTransitive
<1> QED
  BY <1>1, <1>3 DEF fetchPage, d

LEMMA ProfileIsQuiet ==
    ASSUME NEW c, IsTab(c), NEW u PROVE Quiet(c, ProfileOf(c, u))
<1> DEFINE c1 == fetchProfile(c, u)
           c2 == fetchAchievements(c1, u)
           c3 == fetchRounds(c2, u, 1)
<1>1. Quiet(c, c1)
  BY LoadingIsQuiet DEF fetchProfile
<1>2. Quiet(c1, c2)
  BY <1>1, AskingIsQuiet DEF fetchAchievements, Quiet, Follows
<1>3. Quiet(c2, c3)
  BY <1>2, AskingIsQuiet DEF fetchRounds, Quiet, Follows
<1> QED
  BY <1>1, <1>2, <1>3, QuietTransitive DEF ProfileOf

LEMMA ConnectingFollows ==
    ASSUME NEW c, IsTab(c)
    PROVE  /\ Follows(c, connectHub(c))
           /\ connectHub(c).hub = IF c.hub = NoOne THEN c.saved ELSE c.hub
           /\ Follows(c, disconnectHub(c)) /\ disconnectHub(c).hub = NoOne
<1> DEFINE a == connectHub(c)
           b == disconnectHub(c)
<1>1. /\ DOMAIN a = TabFields /\ a.net = c.net
      /\ a.user = c.user /\ a.saved = c.saved /\ a.at = c.at
      /\ a.hub = IF c.hub = NoOne THEN c.saved ELSE c.hub
  BY DEF connectHub, IsTab, TabFields
<1>2. /\ DOMAIN b = TabFields /\ b.net = c.net
      /\ b.user = c.user /\ b.saved = c.saved /\ b.at = c.at /\ b.hub = NoOne
  BY DEF disconnectHub, IsTab, TabFields
<1> HIDE DEF a, b
<1>3. Follows(c, a) /\ Follows(c, b)
  BY <1>1, <1>2, SameNet
<1> QED
  BY <1>1, <1>2, <1>3 DEF a, b

\* An effect connects the hub, if it is that of the front page or of the page
\* of a round, or leaves the connection as it is.
HubEffects == {"home", "round"}
LEMMA EffectFollows ==
    ASSUME NEW c, IsTab(c), NEW f, f.op \notin {"login", "register"}
    PROVE  /\ Follows(c, Effect(c, f))
           /\ \/ Effect(c, f).hub = c.hub
              \/ f.op \in HubEffects /\ Effect(c, f).hub = c.saved
<1> DEFINE h == connectHub(c)
<1>0. Follows(c, h) /\ h.hub \in {c.hub, c.saved}
  BY ConnectingFollows
<1>1. CASE f.op = "home"
  <2> DEFINE c1 == fetchUserDetails(h, <<>>)
             c2 == fetchRecentRounds(c1, f.arg[1])
  <2>1. Quiet(h, c1)
    BY <1>0, AskingIsQuiet DEF fetchUserDetails, Follows
  <2>2. Quiet(c1, c2)
    BY <2>1, AskingIsQuiet DEF fetchRecentRounds, Follows, Quiet
  <2>3. Effect(c, f) = c2
    BY <1>1 DEF Effect
  <2>4. Quiet(h, c2)
    BY <2>1, <2>2, QuietTransitive
  <2>5. Follows(c, c2) /\ c2.hub = h.hub
    BY <1>0, <2>4, FollowsTransitive DEF Quiet
  <2> QED
    BY <1>0, <1>1, <2>3, <2>5 DEF HubEffects
<1>2. CASE f.op = "round"
  <2> DEFINE id == f.arg[1]
             c1 == fetchRound(h, id)
             c2 == fetchPaceData(c1, id)
             c3 == fetchCourseStats(c2, id)
  <2>1. Quiet(h, c1)
    BY <1>0, LoadingIsQuiet DEF fetchRound, Follows
  <2>2. Quiet(c1, c2)
    BY <2>1, AskingIsQuiet DEF fetchPaceData, Follows, Quiet
  <2>3. Quiet(c2, c3)
    BY <2>2, AskingIsQuiet DEF fetchCourseStats, Follows, Quiet
  <2>4. Effect(c, f) = c3
    BY <1>2 DEF Effect
  <2>5. Quiet(h, c3)
    BY <2>1, <2>2, <2>3, QuietTransitive
  <2>6. Follows(c, c3) /\ c3.hub = h.hub
    BY <1>0, <2>5, FollowsTransitive DEF Quiet
  <2> QED
    BY <1>0, <1>2, <2>4, <2>6 DEF HubEffects
<1>3. CASE f.op \in {"activeRound", "roundStats"}
  BY <1>3, AskingIsQuiet DEF Effect, fetchActiveRound, fetchRoundStats, Quiet
<1>4. CASE f.op = "feed"
  BY <1>4, FeedPageIsQuiet DEF Effect, Quiet
<1>5. CASE f.op = "profile"
  BY <1>5, ProfileIsQuiet DEF Effect, Quiet
<1>6. CASE f.op \in {"courses", "tournaments", "tournament"}
  BY <1>6, LoadingIsQuiet DEF Effect, fetchCourses, fetchTournaments, fetchTournament, Quiet
<1>7. CASE f.op = "people" /\ f.arg[1] = 0
  <2>1. Alike(c, Effect(c, f))
    BY <1>7 DEF Effect, Alike, IsTab, TabFields
  <2> QED
    BY <2>1, AlikeIsQuiet DEF Quiet
<1>8. CASE /\ f.op \notin {"home", "round", "activeRound", "roundStats", "feed", "profile",
                           "courses", "tournaments", "tournament"}
           /\ ~(f.op = "people" /\ f.arg[1] = 0)
  <2>1. Effect(c, f) = Waits(c, f.op, f.arg)
    BY <1>8 DEF Effect
  <2>2. Quiet(c, Waits(c, f.op, f.arg))
    BY LoadingIsQuiet
  <2> QED
    BY <2>1, <2>2 DEF Quiet
<1> QED
  BY <1>1, <1>2, <1>3, <1>4, <1>5, <1>6, <1>7, <1>8

\* A request whose answer is for fewer than before.
Deafer(q, r) ==
    \/ r = q
    \/ r = [q EXCEPT !.to = "nobody"]
    \/ q.to = "page" /\ r = [q EXCEPT !.to = "tab"]
LEMMA DeaferNet ==
    ASSUME NEW m, IsNet(m), NEW n, DOMAIN n = DOMAIN m, n = [i \in DOMAIN m |-> n[i]],
           \A i \in DOMAIN m : Deafer(m[i], n[i])
    PROVE  /\ IsNet(n)
           /\ \A i \in DOMAIN n :
                /\ n[i].op = m[i].op /\ n[i].arg = m[i].arg
                /\ LoggingIn(n[i]) => LoggingIn(m[i])
                /\ n[i].to = "page" => n[i] = m[i]
<1>1. DOMAIN m = 1..Len(m) /\ Len(m) \in Nat
  BY DEF IsNet, IsSequence
<1>2. n = [i \in 1..Len(m) |-> n[i]] /\ DOMAIN n = 1..Len(m)
  BY <1>1
<1>3. IsSequence(n)
  BY <1>1, <1>2, FunctionIsSequence
<1>4. ASSUME NEW i \in DOMAIN n
      PROVE  /\ DOMAIN n[i] = RequestFields
             /\ n[i].op = m[i].op /\ n[i].arg = m[i].arg
             /\ LoggingIn(n[i]) => LoggingIn(m[i])
             /\ n[i].to = "page" => n[i] = m[i]
  <2>1. DOMAIN m[i] = RequestFields
    BY DEF IsNet
  <2>2. Deafer(m[i], n[i])
    OBVIOUS
  <2> QED
    BY <2>1, <2>2 DEF Deafer, LoggingIn, RequestFields
<1> QED
  BY <1>3, <1>4 DEF IsNet

LEMMA IgnoringIsQuiet ==
    ASSUME NEW c, IsTab(c), NEW op PROVE Quiet(c, Ignored(c, op)) /\ Quiet(c, Gone(c))
<1> DEFINE d == Ignored(c, op)
           e == Gone(c)
<1>1. /\ d.net = [i \in DOMAIN c.net |->
                    IF c.net[i].op = op THEN [c.net[i] EXCEPT !.to = "nobody"] ELSE c.net[i]]
      /\ DOMAIN d = TabFields
      /\ d.user = c.user /\ d.saved = c.saved /\ d.at = c.at /\ d.hub = c.hub
  BY DEF Ignored, IsTab, TabFields
<1>2. /\ e.net = [i \in DOMAIN c.net |->
                    IF c.net[i].to = "page" THEN [c.net[i] EXCEPT !.to = "tab"] ELSE c.net[i]]
      /\ DOMAIN e = TabFields
      /\ e.user = c.user /\ e.saved = c.saved /\ e.at = c.at /\ e.hub = c.hub
  BY DEF Gone, IsTab, TabFields
<1> HIDE DEF d, e
<1>3. IsNet(c.net)
  BY DEF IsTab
<1>4. Quiet(c, d)
  <2>1. /\ DOMAIN d.net = DOMAIN c.net /\ d.net = [i \in DOMAIN c.net |-> d.net[i]]
        /\ \A i \in DOMAIN c.net : Deafer(c.net[i], d.net[i])
    BY <1>1 DEF Deafer
  <2>2. IsNet(d.net) /\ \A i \in DOMAIN d.net : LoggingIn(d.net[i]) => LoggingIn(c.net[i])
    BY <1>3, <2>1, DeaferNet
  <2> QED
    BY <1>1, <2>1, <2>2 DEF Quiet, Follows, IsTab, FewerLogins
<1>5. Quiet(c, e)
  <2>1. /\ DOMAIN e.net = DOMAIN c.net /\ e.net = [i \in DOMAIN c.net |-> e.net[i]]
        /\ \A i \in DOMAIN c.net : Deafer(c.net[i], e.net[i])
    BY <1>2 DEF Deafer
  <2>2. IsNet(e.net) /\ \A i \in DOMAIN e.net : LoggingIn(e.net[i]) => LoggingIn(c.net[i])
    BY <1>3, <2>1, DeaferNet
  <2> QED
    BY <1>2, <2>1, <2>2 DEF Quiet, Follows, IsTab, FewerLogins
<1> QED
  BY <1>4, <1>5 DEF d, e

\* The cleanup of an effect that connects the hub disconnects it.
LEMMA CleanupFollows ==
    ASSUME NEW c, IsTab(c), NEW f
    PROVE  /\ Follows(c, Cleanup(c, f))
           /\ Cleanup(c, f).hub \in {c.hub, NoOne}
           /\ f.op \in HubEffects => Cleanup(c, f).hub = NoOne
<1> DEFINE h == disconnectHub(c)
<1>0. Follows(c, h) /\ h.hub = NoOne
  BY ConnectingFollows
<1>1. CASE f.op = "home"
  BY <1>0, <1>1 DEF Cleanup, Lists
<1>2. CASE f.op = "round"
  <2>1. Cleanup(c, f) = clearRound(h)
    BY <1>2 DEF Cleanup, Lists
  <2>2. IsTab(h)
    BY <1>0 DEF Follows
  <2> HIDE DEF h
  <2>3. Alike(h, clearRound(h))
    BY <2>2 DEF clearRound, Alike, IsTab, TabFields
  <2>4. Quiet(h, clearRound(h))
    BY <2>2, <2>3, AlikeIsQuiet
  <2> QED
    BY <1>0, <2>1, <2>4, FollowsTransitive DEF Quiet
<1>3. CASE f.op = "profile"
  <2>1. Cleanup(c, f) = clearProfile(c)
    BY <1>3 DEF Cleanup, Lists
  <2>2. Alike(c, clearProfile(c))
    BY DEF clearProfile, Alike, IsTab, TabFields
  <2> QED
    BY <1>3, <2>1, <2>2, AlikeIsQuiet DEF Quiet, HubEffects
<1>4. CASE f.op \in Lists
  <2>1. Cleanup(c, f) = Ignored(c, f.op)
    BY <1>4 DEF Cleanup, Lists
  <2> QED
    BY <1>4, <2>1, IgnoringIsQuiet DEF Quiet, HubEffects, Lists
<1>5. CASE f.op \notin {"home", "round", "profile"} \cup Lists
  <2>1. Cleanup(c, f) = c
    BY <1>5 DEF Cleanup, Lists
  <2>2. Alike(c, c)
    BY DEF Alike, IsTab
  <2> QED
    BY <1>5, <2>1, <2>2, AlikeIsQuiet DEF Quiet, HubEffects
<1> QED
  BY <1>1, <1>2, <1>3, <1>4, <1>5

-----------------------------------------------------------------------------
(* Pages.                                                                    *)

HubPages == {"/", "/rounds"}
\* The page is one that this user, or nobody, may see.
WellRouted(c) ==
    /\ c.user = NoOne => c.at \in Open
    /\ c.user # NoOne => c.at \notin {"/login", "/register"}
\* The hub is connected on two pages only, for somebody.
HubHeld(c) == c.hub # NoOne => c.user # NoOne /\ c.at \in HubPages
Good(c) == IsTab(c) /\ WellRouted(c) /\ HubHeld(c)

LEMMA FetchesFacts ==
    ASSUME NEW c
    PROVE  /\ \A n \in DOMAIN Fetches(c) :
                /\ n \in {1, 2}
                /\ Fetches(c)[n].op \notin {"login", "register"}
                /\ Fetches(c)[n].op \in HubEffects =>
                     c.at \in HubPages /\ (c.at = "/" => c.user # NoOne)
           /\ (c.at = "/" /\ c.user # NoOne) \/ c.at = "/rounds" =>
                1 \in DOMAIN Fetches(c) /\ Fetches(c)[1].op \in HubEffects
<1> USE DEF Fetch, Maybe, HubEffects, HubPages
<1>1. CASE c.at = "/" /\ c.user # NoOne
  <2>1. Fetches(c) = Landing(c)
    BY <1>1 DEF Fetches
  <2> QED
    BY <1>1, <2>1 DEF Landing
<1>2. CASE c.at = "/rounds"
  <2>1. Fetches(c) = Maybe(Fetch("round", c.arg),
                           c.round.completed, Fetch("roundStats", c.arg))
    BY <1>2 DEF Fetches
  <2> QED
    BY <1>2, <2>1
<1>3. CASE c.at = "/tournament"
  <2>1. Fetches(c) = Maybe(Fetch("tournament", c.arg),
                           c.view.ask # 0, Fetch("courses", <<c.view.ask>>))
    BY <1>3 DEF Fetches
  <2> QED
    BY <1>3, <2>1
<1>4. CASE c.at = "/new-round"
  <2>1. Fetches(c) = Wizard(c)
    BY <1>4 DEF Fetches
  <2> QED
    BY <1>4, <2>1 DEF Wizard
<1>5. CASE c.at \in {"/feed", "/leaders", "/profile", "/users", "/courses", "/course",
                     "/tournaments"}
  <2>1. \E f : /\ Fetches(c) = <<f>>
               /\ f.op \notin {"login", "register", "home", "round"}
    BY <1>5 DEF Fetches
  <2> QED
    BY <1>5, <2>1
<1>6. CASE /\ ~(c.at = "/" /\ c.user # NoOne)
           /\ c.at \notin {"/rounds", "/tournament", "/new-round", "/feed", "/leaders",
                           "/profile", "/users", "/courses", "/course", "/tournaments"}
  <2>1. Fetches(c) = <<>>
    BY <1>6 DEF Fetches
  <2> QED
    BY <1>6, <2>1
<1> QED
  BY <1>1, <1>2, <1>3, <1>4, <1>5, <1>6

LEMMA EndsFollows ==
    ASSUME NEW c, IsTab(c), NEW fs, NEW n, NEW over
    PROVE  LET d == Ends(c, fs, n, over)
           IN  /\ Follows(c, d) /\ d.hub \in {c.hub, NoOne}
               /\ n \in DOMAIN fs /\ fs[n] \in over /\ fs[n].op \in HubEffects => d.hub = NoOne
<1>1. Quiet(c, c)
  BY AlikeIsQuiet DEF Alike, IsTab
<1>2. CASE n \in DOMAIN fs /\ fs[n] \in over
  BY <1>2, CleanupFollows DEF Ends
<1>3. CASE ~(n \in DOMAIN fs /\ fs[n] \in over)
  BY <1>1, <1>3 DEF Ends, Quiet
<1> QED
  BY <1>2, <1>3

LEMMA CleanedFollows ==
    ASSUME NEW c, IsTab(c), NEW fs, NEW over
    PROVE  LET d == Cleaned(c, fs, over)
           IN  /\ Follows(c, d) /\ d.hub \in {c.hub, NoOne}
               /\ \A n \in {1, 2} :
                    n \in DOMAIN fs /\ fs[n] \in over /\ fs[n].op \in HubEffects => d.hub = NoOne
<1> DEFINE d1 == Ends(c, fs, 1, over)
           d2 == Ends(d1, fs, 2, over)
<1>1. /\ Follows(c, d1) /\ d1.hub \in {c.hub, NoOne}
      /\ 1 \in DOMAIN fs /\ fs[1] \in over /\ fs[1].op \in HubEffects => d1.hub = NoOne
  BY EndsFollows
<1>2. IsTab(d1)
  BY <1>1 DEF Follows
<1> HIDE DEF d1
<1>3. /\ Follows(d1, d2) /\ d2.hub \in {d1.hub, NoOne}
      /\ 2 \in DOMAIN fs /\ fs[2] \in over /\ fs[2].op \in HubEffects => d2.hub = NoOne
  BY <1>2, EndsFollows
<1>4. Cleaned(c, fs, over) = d2
  BY DEF Cleaned, d1
<1> HIDE DEF d2
<1>5. Follows(c, d2)
  BY <1>1, <1>3, FollowsTransitive
<1> QED
  BY <1>1, <1>3, <1>4, <1>5

LEMMA RunsFollows ==
    ASSUME NEW c, IsTab(c), NEW fs, NEW n, NEW new,
           n \in DOMAIN fs => fs[n].op \notin {"login", "register"}
    PROVE  LET d == Runs(c, fs, n, new)
           IN  /\ Follows(c, d)
               /\ \/ d.hub = c.hub
                  \/ n \in DOMAIN fs /\ fs[n].op \in HubEffects /\ d.hub = c.saved
<1>1. Quiet(c, c)
  BY AlikeIsQuiet DEF Alike, IsTab
<1>2. CASE n \in DOMAIN fs /\ fs[n] \in new
  BY <1>2, EffectFollows DEF Runs
<1>3. CASE ~(n \in DOMAIN fs /\ fs[n] \in new)
  BY <1>1, <1>3 DEF Runs, Quiet
<1> QED
  BY <1>2, <1>3

LEMMA StartedFollows ==
    ASSUME NEW c, IsTab(c), NEW fs, NEW new,
           \A n \in DOMAIN fs : fs[n].op \notin {"login", "register"}
    PROVE  LET d == Started(c, fs, new)
           IN  /\ Follows(c, d)
               /\ \/ d.hub = c.hub
                  \/ d.hub = c.saved /\ \E n \in DOMAIN fs : fs[n].op \in HubEffects
<1> DEFINE d1 == Runs(c, fs, 1, new)
           d2 == Runs(d1, fs, 2, new)
<1>1. /\ Follows(c, d1)
      /\ \/ d1.hub = c.hub
         \/ 1 \in DOMAIN fs /\ fs[1].op \in HubEffects /\ d1.hub = c.saved
  BY RunsFollows
<1>2. IsTab(d1) /\ d1.saved = c.saved
  BY <1>1 DEF Follows
<1> HIDE DEF d1
<1>3. /\ Follows(d1, d2)
      /\ \/ d2.hub = d1.hub
         \/ 2 \in DOMAIN fs /\ fs[2].op \in HubEffects /\ d2.hub = d1.saved
  BY <1>2, RunsFollows
<1>4. Started(c, fs, new) = d2
  BY DEF Started, d1
<1> HIDE DEF d2
<1>5. Follows(c, d2)
  BY <1>1, <1>3, FollowsTransitive
<1> QED
  BY <1>1, <1>2, <1>3, <1>4, <1>5

\* What a render leaves of the hub connection.
LEMMA RenderFollows ==
    ASSUME NEW c0, HubHeld(c0), NEW c1, IsTab(c1), WellRouted(c1), c1.hub = c0.hub
    PROVE  LET d == Render(c0, c1)
           IN  Follows(c1, d) /\ HubHeld(d) /\ d.hub \in {NoOne, c1.hub, c1.saved}
<1> DEFINE fs0 == Fetches(c0)
           fs1 == Fetches(c1)
           stays == c0.at = c1.at
           over == IF stays THEN Range(fs0) \ Range(fs1) ELSE Range(fs0)
           new == IF stays THEN Range(fs1) \ Range(fs0) ELSE Range(fs1)
           g == IF stays THEN c1 ELSE Gone(c1)
           e == Cleaned(g, fs0, over)
           d == Started(e, fs1, new)
<1>0. Render(c0, c1) = d
  BY DEF Render
<1>1. Quiet(c1, g)
  <2>1. Alike(c1, c1)
    BY DEF Alike, IsTab
  <2>2. Quiet(c1, c1) /\ Quiet(c1, Gone(c1))
    BY <2>1, AlikeIsQuiet, IgnoringIsQuiet
  <2> QED
    BY <2>2
<1>2. IsTab(g) /\ g.hub = c1.hub
  BY <1>1 DEF Quiet, Follows
<1> HIDE DEF g
<1>3. /\ Follows(g, e) /\ e.hub \in {g.hub, NoOne}
      /\ \A n \in {1, 2} :
           n \in DOMAIN fs0 /\ fs0[n] \in over /\ fs0[n].op \in HubEffects => e.hub = NoOne
  BY <1>2, CleanedFollows
<1>4. \A n \in DOMAIN fs1 : fs1[n].op \notin {"login", "register"}
  BY FetchesFacts
<1>5. IsTab(e)
  BY <1>3 DEF Follows
<1> HIDE DEF e
<1>6. /\ Follows(e, d)
      /\ \/ d.hub = e.hub
         \/ d.hub = e.saved /\ \E n \in DOMAIN fs1 : fs1[n].op \in HubEffects
  BY <1>4, <1>5, StartedFollows
<1> HIDE DEF d
<1>7. Follows(c1, d)
  BY <1>1, <1>3, <1>6, FollowsTransitive DEF Quiet
<1>8. d.hub \in {NoOne, c1.hub, c1.saved}
  BY <1>1, <1>2, <1>3, <1>6 DEF Quiet, Follows
\* An effect that is new, or one that goes on, holds the connection.
<1>9. ASSUME d.hub # NoOne PROVE \E n \in DOMAIN fs1 : fs1[n].op \in HubEffects
  <2>1. CASE d.hub # e.hub
    BY <1>6, <2>1
  <2>2. CASE e.hub # NoOne
    <3>1. c0.hub # NoOne
      BY <1>2, <1>3, <2>2
    <3>2. 1 \in DOMAIN fs0 /\ fs0[1].op \in HubEffects
      BY <3>1, FetchesFacts DEF HubHeld, HubPages
    <3>3. fs0[1] \notin over
      BY <1>3, <2>2, <3>2
    <3>4. fs0[1] \in Range(fs0)
      BY <3>2 DEF Range
    <3>5. fs0[1] \in Range(fs1)
      BY <3>3, <3>4
    <3>6. PICK n \in DOMAIN fs1 : fs1[n] = fs0[1]
      BY <3>5 DEF Range
    <3> QED
      BY <3>2, <3>6
  <2> QED
    BY <1>9, <2>1, <2>2
<1>10. HubHeld(d)
  <2> SUFFICES ASSUME d.hub # NoOne PROVE d.user # NoOne /\ d.at \in HubPages
    BY DEF HubHeld
  <2>1. c1.at \in HubPages /\ (c1.at = "/" => c1.user # NoOne)
    BY <1>9, FetchesFacts
  <2>2. c1.user # NoOne
    BY <2>1 DEF WellRouted, Open, HubPages
  <2> QED
    BY <1>7, <2>1, <2>2 DEF Follows
<1> QED
  BY <1>0, <1>7, <1>8, <1>10

\* d is c after a render: the same session.
Kept(c, d) ==
    /\ Good(d) /\ FewerLogins(c, d)
    /\ d.user = c.user /\ d.saved = c.saved /\ d.hub \in {NoOne, c.hub, c.saved}

LEMMA KeptTransitive ==
    ASSUME NEW c, NEW d, NEW e, Kept(c, d), Kept(d, e) PROVE Kept(c, e)
BY DEF Kept, FewerLogins

LEMMA QuietIsKept ==
    ASSUME NEW c, NEW d, Good(c), Quiet(c, d) PROVE Kept(c, d)
BY DEF Kept, Good, Quiet, Follows, WellRouted, HubHeld

LEMMA RoutedIs ==
    ASSUME NEW c, IsTab(c)
    PROVE  LET d == Routed(c)
           IN  /\ IsTab(d) /\ WellRouted(d) /\ d.net = c.net
               /\ d.user = c.user /\ d.saved = c.saved /\ d.hub = c.hub
<1>1. ASSUME NEW at, NEW arg
      PROVE  LET d == Opened(c, at, arg)
             IN  /\ IsTab(d) /\ d.net = c.net /\ d.at = at
                 /\ d.user = c.user /\ d.saved = c.saved /\ d.hub = c.hub
  BY DEF Opened, IsTab, TabFields
<1>2. CASE c.user = NoOne /\ c.at \notin Open
  <2>1. Routed(c) = Opened(c, "/login", <<>>)
    BY <1>2 DEF Routed
  <2> QED
    BY <1>1, <1>2, <2>1 DEF WellRouted, Open
<1>3. CASE c.user # NoOne /\ c.at \in {"/login", "/register"}
  <2>1. Routed(c) = Opened(c, "/", <<>>)
    BY <1>3 DEF Routed
  <2> QED
    BY <1>1, <1>3, <2>1 DEF WellRouted, Open
<1>4. CASE /\ ~(c.user = NoOne /\ c.at \notin Open)
           /\ ~(c.user # NoOne /\ c.at \in {"/login", "/register"})
  <2>1. Routed(c) = c
    BY <1>4 DEF Routed
  <2> QED
    BY <1>4, <2>1 DEF WellRouted
<1> QED
  BY <1>2, <1>3, <1>4

LEMMA DispatchKeeps ==
    ASSUME NEW c0, HubHeld(c0), NEW c1, IsTab(c1), c1.hub = c0.hub
    PROVE  Kept(c1, Dispatch(c0, c1))
<1> DEFINE r == Routed(c1)
           d == Render(c0, r)
<1>1. /\ IsTab(r) /\ WellRouted(r) /\ r.net = c1.net
      /\ r.user = c1.user /\ r.saved = c1.saved /\ r.hub = c1.hub
  BY RoutedIs
<1> HIDE DEF r
<1>2. Follows(r, d) /\ HubHeld(d) /\ d.hub \in {NoOne, r.hub, r.saved}
  BY <1>1, RenderFollows
<1>3. Dispatch(c0, c1) = d
  BY DEF Dispatch, r
<1> HIDE DEF d
<1> QED
  BY <1>1, <1>2, <1>3 DEF Kept, Good, Follows, FewerLogins, WellRouted

\* A store changes, and the page is rendered again.
LEMMA ChangeKeeps ==
    ASSUME NEW c, Good(c), NEW d, Alike(c, d) PROVE Kept(c, Dispatch(c, d))
<1>1. Quiet(c, d)
  BY AlikeIsQuiet DEF Good
<1>2. Kept(d, Dispatch(c, d))
  BY <1>1, DispatchKeeps DEF Quiet, Follows, Good
<1> QED
  BY <1>1, <1>2 DEF Kept, Quiet, Follows, FewerLogins

LEMMA PushKeeps ==
    ASSUME NEW c, Good(c), NEW at, NEW arg PROVE Kept(c, Push(c, at, arg))
<1> DEFINE d == IF c.at = at THEN [c EXCEPT !.arg = arg] ELSE Opened(c, at, arg)
<1>1. IsTab(d) /\ d.net = c.net /\ d.user = c.user /\ d.saved = c.saved /\ d.hub = c.hub
  BY DEF Opened, Good, IsTab, TabFields
<1>2. Push(c, at, arg) = Dispatch(c, d)
  BY DEF Push
<1> HIDE DEF d
<1>3. Kept(d, Dispatch(c, d))
  BY <1>1, DispatchKeeps DEF Good
<1> QED
  BY <1>1, <1>2, <1>3 DEF Kept, FewerLogins

LEMMA LocalKeeps ==
    ASSUME NEW c, Good(c), NEW view PROVE Kept(c, Local(c, view))
<1>1. Alike(c, [c EXCEPT !.view = view])
  BY DEF Alike, Good, IsTab, TabFields
<1> QED
  BY <1>1, ChangeKeeps DEF Local

\* A tab that is loaded is that of the user that localStorage has.
LEMMA LoadIsGood ==
    ASSUME NEW u, NEW at, NEW arg
    PROVE  LET d == Load(u, at, arg)
           IN  /\ Good(d) /\ d.user = u /\ d.saved = u /\ d.hub \in {NoOne, u}
               /\ \A i \in DOMAIN d.net : ~LoggingIn(d.net[i])
<1> DEFINE s == StartStore(u, at, arg)
           r == Routed(s)
           fs == Fetches(r)
           d == Started(r, fs, Range(fs))
<1>1. IsTab(s) /\ s.net = <<>> /\ s.user = u /\ s.saved = u /\ s.hub = NoOne
  <2>1. DOMAIN s = TabFields /\ s.net = <<>> /\ s.user = u /\ s.saved = u /\ s.hub = NoOne
    BY DEF StartStore, TabFields
  <2>2. IsNet(<<>>)
    BY DEF IsNet, IsSequence
  <2> QED
    BY <2>1, <2>2 DEF IsTab
<1> HIDE DEF s
<1>2. /\ IsTab(r) /\ WellRouted(r) /\ r.net = <<>>
      /\ r.user = u /\ r.saved = u /\ r.hub = NoOne
  BY <1>1, RoutedIs
<1>3. Load(u, at, arg) = d
  BY DEF Load, s
<1> HIDE DEF r
<1>4. \A n \in DOMAIN fs : fs[n].op \notin {"login", "register"}
  BY FetchesFacts
<1>5. /\ Follows(r, d)
      /\ \/ d.hub = r.hub
         \/ d.hub = r.saved /\ \E n \in DOMAIN fs : fs[n].op \in HubEffects
  BY <1>2, <1>4, StartedFollows
<1>6. HubHeld(d)
  <2> SUFFICES ASSUME d.hub # NoOne PROVE d.user # NoOne /\ d.at \in HubPages
    BY DEF HubHeld
  <2>1. \E n \in DOMAIN fs : fs[n].op \in HubEffects
    BY <1>2, <1>5
  <2>2. r.at \in HubPages /\ (r.at = "/" => r.user # NoOne)
    BY <2>1, FetchesFacts
  <2>3. r.user # NoOne
    BY <1>2, <2>2 DEF WellRouted, Open, HubPages
  <2> QED
    BY <1>5, <2>2, <2>3 DEF Follows
<1> HIDE DEF d
<1>7. \A i \in DOMAIN d.net : ~LoggingIn(d.net[i])
  BY <1>2, <1>5 DEF Follows, FewerLogins
<1> QED
  BY <1>2, <1>3, <1>5, <1>6, <1>7 DEF Follows, Good, WellRouted

-----------------------------------------------------------------------------
(* Answers.                                                                  *)

LEMMA AlikeIsKept ==
    ASSUME NEW c, Good(c), NEW d, Alike(c, d) PROVE Kept(c, d)
BY AlikeIsQuiet, QuietIsKept DEF Good

LEMMA HomewardsKeeps ==
    ASSUME NEW c, Good(c), NEW q PROVE Kept(c, Homewards(c, q))
<1>1. Kept(c, c)
  BY AlikeIsKept DEF Alike, Good, IsTab
<1> QED
  BY <1>1, PushKeeps DEF Homewards

LEMMA LeavingRoundKeeps ==
    ASSUME NEW c, Good(c), NEW d, Alike(c, d)
    PROVE  Kept(c, Push(Dispatch(c, d), "/", <<>>))
<1>1. Kept(c, Dispatch(c, d))
  BY ChangeKeeps
<1>2. Good(Dispatch(c, d))
  BY <1>1 DEF Kept
<1>3. Kept(Dispatch(c, d), Push(Dispatch(c, d), "/", <<>>))
  BY <1>2, PushKeeps
<1> QED
  BY <1>1, <1>3, KeptTransitive

LEMMA ActiveRoundKeeps ==
    ASSUME NEW c, Good(c), NEW d, Alike(c, d), NEW id
    PROVE  Kept(c, fetchPaceData(Dispatch(c, d), id))
<1>1. Kept(c, Dispatch(c, d))
  BY ChangeKeeps
<1> DEFINE e == Dispatch(c, d)
<1>2. Good(e)
  BY <1>1 DEF Kept
<1> HIDE DEF e
<1>3. Quiet(e, fetchPaceData(e, id))
  BY <1>2, AskingIsQuiet DEF fetchPaceData, Good
<1>4. Kept(e, fetchPaceData(e, id))
  BY <1>2, <1>3, QuietIsKept
<1> QED
  BY <1>1, <1>4, KeptTransitive DEF e

\* Whatever is answered, but to a login, leaves the session as it is.
LEMMA SucceededKeeps ==
    ASSUME NEW c, Good(c), NEW q, q.op \notin {"login", "register"}
    PROVE  Kept(c, Succeeded(c, q))
<1> DEFINE d == Succeeded(c, q)
<1>1. CASE q.op = "details"
  <2> DEFINE e == [c EXCEPT !.details = q.data]
  <2>1. d = Homewards(Dispatch(c, e), q)
    BY <1>1 DEF Succeeded, OnPage, Lists
  <2>2. Alike(c, e)
    BY DEF Alike, Good, IsTab, TabFields
  <2> HIDE DEF e
  <2>3. Kept(c, Dispatch(c, e))
    BY <2>2, ChangeKeeps
  <2>4. Kept(Dispatch(c, e), Homewards(Dispatch(c, e), q))
    BY <2>3, HomewardsKeeps DEF Kept
  <2> QED
    BY <2>1, <2>3, <2>4, KeptTransitive
<1>2. CASE q.op \in {"recent", "pace", "courseStats", "roundStats", "courses", "tournaments"}
  <2>1. Alike(c, d)
    BY <1>2 DEF Succeeded, OnPage, Lists, Alike, Done, Good, IsTab, TabFields
  <2> QED
    BY <2>1, AlikeIsKept
<1>3. CASE q.op \in {"tournament", "join", "calculatePrices", "profile", "achievements", "rounds"}
  <2>1. Alike(c, d)
    BY <1>3 DEF Succeeded, OnPage, Lists, Alike, Done, Good, IsTab, TabFields
  <2> QED
    BY <2>1, AlikeIsKept
<1>4. CASE q.op = "round"
  <2> DEFINE e == Done([c EXCEPT !.round = q.data], "round")
  <2>1. d = Dispatch(c, e)
    BY <1>4 DEF Succeeded, OnPage, Lists
  <2>2. Alike(c, e)
    BY DEF Alike, Done, Good, IsTab, TabFields
  <2> HIDE DEF e
  <2> QED
    BY <2>1, <2>2, ChangeKeeps
<1>5. CASE q.op \in {"activeRound", "score"}
  <2> DEFINE e == [c EXCEPT !.round = q.data]
  <2>1. d = IF q.op = "score" THEN Dispatch(c, e)
            ELSE IF q.data.completed THEN c ELSE fetchPaceData(Dispatch(c, e), q.arg[1])
    BY <1>5 DEF Succeeded, OnPage, Lists
  <2>2. Alike(c, e) /\ Alike(c, c)
    BY DEF Alike, Good, IsTab, TabFields
  <2> HIDE DEF e
  <2>3. Kept(c, Dispatch(c, e)) /\ Kept(c, c) /\ Kept(c, fetchPaceData(Dispatch(c, e), q.arg[1]))
    BY <2>2, ChangeKeeps, AlikeIsKept, ActiveRoundKeeps
  <2> QED
    BY <2>1, <2>3
<1>6. CASE q.op = "complete"
  <2> DEFINE e == [c EXCEPT !.round.completed = TRUE]
  <2>1. d = IF c.round = NoRound THEN c ELSE Dispatch(c, e)
    BY <1>6 DEF Succeeded, OnPage, Lists
  <2>2. Alike(c, e) /\ Alike(c, c)
    BY DEF Alike, Good, IsTab, TabFields
  <2> HIDE DEF e
  <2> QED
    BY <2>1, <2>2, ChangeKeeps, AlikeIsKept
<1>7. CASE q.op \in {"delete", "leave"}
  <2> DEFINE a == clearActiveRound([c EXCEPT !.round = NoRound])
             b == [c EXCEPT !.round = NoRound]
  <2>1. d = Push(Dispatch(c, IF q.op = "delete" THEN a ELSE b), "/", <<>>)
    BY <1>7 DEF Succeeded, OnPage, Lists
  <2>2. Alike(c, a) /\ Alike(c, b)
    BY DEF clearActiveRound, Alike, Good, IsTab, TabFields
  <2> HIDE DEF a, b
  <2> QED
    BY <1>7, <2>1, <2>2, LeavingRoundKeeps
<1>8. CASE q.op \in {"createRound", "createTournament"}
  <2>1. d = Push(c, IF q.op = "createRound" THEN "/rounds" ELSE "/tournament", <<q.data>>)
    BY <1>8 DEF Succeeded, OnPage, Lists
  <2> QED
    BY <2>1, PushKeeps
<1>9. CASE q.op = "createCourse"
  <2> DEFINE e == [c EXCEPT !.courses = @ \cup {q.data}]
  <2>1. d = Push(e, "/course", q.arg)
    BY <1>9 DEF Succeeded, OnPage, Lists
  <2>2. Alike(c, e)
    BY DEF Alike, Good, IsTab, TabFields
  <2> HIDE DEF e
  <2>3. Kept(c, e)
    BY <2>2, AlikeIsKept
  <2>4. Kept(e, Push(e, "/course", q.arg))
    BY <2>3, PushKeeps DEF Kept
  <2> QED
    BY <2>1, <2>3, <2>4, KeptTransitive
<1>10. CASE q.op = "addCourse"
  <2> DEFINE e == IF q.to = "page" THEN [c EXCEPT !.view.ask = 0] ELSE c
  <2>1. d = CourseAdded(e, q.arg[2])
    BY <1>10 DEF Succeeded, OnPage, Lists
  <2>2. Alike(c, CourseAdded(e, q.arg[2]))
    BY DEF CourseAdded, HasCup, Alike, Good, IsTab, TabFields
  <2> HIDE DEF e
  <2> QED
    BY <2>1, <2>2, AlikeIsKept
<1>11. CASE q.op \notin {"details", "recent", "pace", "courseStats", "roundStats", "courses",
                         "tournaments", "tournament", "join", "calculatePrices", "profile",
                         "achievements", "rounds", "round", "activeRound", "score", "complete",
                         "delete", "leave", "createRound", "createTournament", "createCourse",
                         "addCourse"}
  <2>1. d = IF OnPage(q, {"feed"}) THEN PageShown(c, q)
            ELSE IF OnPage(q, Lists) THEN Shown(c, q) ELSE c
    BY <1>11 DEF Succeeded, OnPage, Lists
  <2>2. Alike(c, PageShown(c, q)) /\ Alike(c, Shown(c, q)) /\ Alike(c, c)
    BY DEF PageShown, Shown, Alike, Good, IsTab, TabFields
  <2> QED
    BY <2>1, <2>2, AlikeIsKept
<1> QED
  BY <1>1, <1>2, <1>3, <1>4, <1>5, <1>6, <1>7, <1>8, <1>9, <1>10, <1>11

LEMMA FailedKeeps ==
    ASSUME NEW c, Good(c), NEW q PROVE Kept(c, Failed(c, q))
<1> DEFINE d == Failed(c, q)
<1>1. CASE q.op \in {"login", "register"}
  <2> DEFINE e == [c EXCEPT !.loginError = TRUE]
             p == [q EXCEPT !.arg = <<"home">>]
  <2>1. d = Homewards(e, p)
    BY <1>1 DEF Failed, OnPage, Lists
  <2>2. Alike(c, e)
    BY DEF Alike, Good, IsTab, TabFields
  <2> HIDE DEF e, p
  <2>3. Kept(c, e)
    BY <2>2, AlikeIsKept
  <2>4. Kept(e, Homewards(e, p))
    BY <2>3, HomewardsKeeps DEF Kept
  <2> QED
    BY <2>1, <2>3, <2>4, KeptTransitive
<1>2. CASE q.op = "details"
  <2>1. d = Homewards(c, q)
    BY <1>2 DEF Failed, OnPage, Lists
  <2> QED
    BY <2>1, HomewardsKeeps
<1>3. CASE q.op \in {"round", "courses", "profile", "tournaments", "tournament", "achievements"}
  <2>1. Alike(c, d)
    BY <1>3 DEF Failed, OnPage, Lists, Failing, Done, Alike, Good, IsTab, TabFields
  <2> QED
    BY <2>1, AlikeIsKept
<1>4. CASE q.op \notin {"login", "register", "details", "round", "courses", "profile",
                        "tournaments", "tournament", "achievements"}
  <2>1. Alike(c, d)
    BY <1>4 DEF Failed, OnPage, Lists, Liked, Alike, Good, IsTab, TabFields
  <2> QED
    BY <2>1, AlikeIsKept
<1> QED
  BY <1>1, <1>2, <1>3, <1>4

-----------------------------------------------------------------------------
(* The session.                                                              *)

\* One login at most is under way, and only while nobody is logged in.
OneLogin(c) ==
    \A i, j \in DOMAIN c.net :
        LoggingIn(c.net[i]) /\ LoggingIn(c.net[j]) => i = j /\ c.user = NoOne
OneSession(c) == c.user = c.saved /\ c.hub \in {NoOne, c.user} /\ OneLogin(c)
SessionOK(c, o) ==
    /\ Good(c)
    /\ "swap" \notin o => c.user = c.saved
    /\ o \cap {"swap", "twice"} = {} => OneSession(c)
SessionInv == SessionOK(app, odd)

LEMMA KeptSession ==
    ASSUME NEW c, NEW d, NEW o, NEW p, SessionOK(c, o), Kept(c, d), o \subseteq p
    PROVE  SessionOK(d, p)
<1>1. OneSession(c) => OneSession(d)
  BY DEF OneSession, OneLogin, Kept, FewerLogins
<1>2. p \cap {"swap", "twice"} = {} => o \cap {"swap", "twice"} = {}
  OBVIOUS
<1> QED
  BY <1>1, <1>2 DEF SessionOK, Kept

\* A request as the server or the network leaves it.
LEMMA RequestChanges ==
    ASSUME NEW c, IsTab(c), NEW i \in DOMAIN c.net, NEW r, DOMAIN r = RequestFields,
           r.op = c.net[i].op, r.to = c.net[i].to
    PROVE  Quiet(c, [c EXCEPT !.net[i] = r])
<1> DEFINE d == [c EXCEPT !.net[i] = r]
<1>1. /\ DOMAIN d = TabFields /\ d.net = [c.net EXCEPT ![i] = r]
      /\ d.user = c.user /\ d.saved = c.saved /\ d.at = c.at /\ d.hub = c.hub
  BY DEF IsTab, TabFields
<1> HIDE DEF d
<1>2. /\ DOMAIN d.net = DOMAIN c.net /\ d.net[i] = r
      /\ \A j \in DOMAIN c.net : j # i => d.net[j] = c.net[j]
      /\ d.net = [j \in DOMAIN c.net |-> d.net[j]]
  BY <1>1
<1>3. DOMAIN c.net = 1..Len(c.net) /\ Len(c.net) \in Nat
  BY DEF IsTab, IsNet, IsSequence
<1>4. IsSequence(d.net)
  BY <1>2, <1>3, FunctionIsSequence
<1>5. IsNet(d.net)
  BY <1>2, <1>4 DEF IsTab, IsNet
<1>6. FewerLogins(c, d)
  BY <1>2 DEF FewerLogins, LoggingIn
<1> QED
  BY <1>1, <1>5, <1>6 DEF Quiet, Follows, IsTab, d

LEMMA TellingIsAlike ==
    ASSUME NEW c, IsTab(c)
    PROVE  /\ \A by, kind, r : Alike(c, Told(c, by, kind, r))
           /\ \A d, q : Alike(c, ToldOf(c, d, q))
<1>1. ASSUME NEW by, NEW kind, NEW r PROVE Alike(c, Told(c, by, kind, r))
  BY DEF Told, Alike, IsTab, TabFields
<1>2. Alike(c, c)
  BY DEF Alike, IsTab
<1> QED
  BY <1>1, <1>2 DEF ToldOf

\* An answer that is taken from the network: what remains is one session, and
\* no login is under way once that of the answer is taken.
LEMMA TakingAnswer ==
    ASSUME NEW c, Good(c), NEW i \in DOMAIN c.net
    PROVE  LET d == [c EXCEPT !.net = RemoveAt(@, i)]
           IN  /\ Good(d)
               /\ d.user = c.user /\ d.saved = c.saved /\ d.hub = c.hub
               /\ OneSession(c) => OneSession(d)
               /\ OneSession(c) /\ LoggingIn(c.net[i]) =>
                    c.user = NoOne /\ \A j \in DOMAIN d.net : ~LoggingIn(d.net[j])
<1> DEFINE d == [c EXCEPT !.net = RemoveAt(@, i)]
<1>1. /\ DOMAIN d = TabFields /\ d.net = RemoveAt(c.net, i)
      /\ d.user = c.user /\ d.saved = c.saved /\ d.at = c.at /\ d.hub = c.hub
  BY DEF Good, IsTab, TabFields
<1> HIDE DEF d
<1>2. IsSequence(c.net) /\ DOMAIN c.net = 1..Len(c.net) /\ Len(c.net) \in Nat
  BY DEF Good, IsTab, IsNet, IsSequence
<1>3. /\ IsSequence(d.net) /\ DOMAIN d.net = 1..(Len(c.net) - 1)
      /\ \A j \in 1..(Len(c.net) - 1) : d.net[j] = IF j < i THEN c.net[j] ELSE c.net[j + 1]
  BY <1>1, <1>2, RemoveFromSequence
<1> DEFINE Was(j) == IF j < i THEN j ELSE j + 1
<1>4. \A j \in DOMAIN d.net :
        Was(j) \in DOMAIN c.net /\ Was(j) # i /\ d.net[j] = c.net[Was(j)]
  BY <1>2, <1>3
<1>5. \A j, k \in DOMAIN d.net : Was(j) = Was(k) => j = k
  BY <1>3
<1> HIDE DEF Was
<1>6. Good(d)
  BY <1>1, <1>3, <1>4 DEF Good, IsTab, IsNet, WellRouted, HubHeld
<1>7. OneSession(c) => OneSession(d)
  BY <1>1, <1>4, <1>5 DEF OneSession, OneLogin
<1>8. OneSession(c) /\ LoggingIn(c.net[i]) =>
        c.user = NoOne /\ \A j \in DOMAIN d.net : ~LoggingIn(d.net[j])
  BY <1>4 DEF OneSession, OneLogin
<1> QED
  BY <1>1, <1>6, <1>7, <1>8 DEF d

LEMMA LoggedInIsOne ==
    ASSUME NEW c, Good(c), NEW u
    PROVE  LET d == LoggedIn(c, u)
           IN  /\ Good(d) /\ d.user = u /\ d.saved = u
               /\ c.hub = NoOne /\ (\A j \in DOMAIN c.net : ~LoggingIn(c.net[j])) => OneSession(d)
<1> DEFINE a == [c EXCEPT !.saved = u, !.user = u]
           b == fetchUserDetails(a, <<"home">>)
           d == Dispatch(c, b)
<1>1. IsTab(a) /\ a.net = c.net /\ a.user = u /\ a.saved = u /\ a.hub = c.hub
  BY DEF Good, IsTab, TabFields
<1> HIDE DEF a
<1>2. Quiet(a, b)
  BY <1>1, AskingIsQuiet DEF fetchUserDetails
<1>3. IsTab(b) /\ b.hub = c.hub /\ b.user = u /\ b.saved = u
  BY <1>1, <1>2 DEF Quiet, Follows
<1>4. LoggedIn(c, u) = d
  BY DEF LoggedIn, a
<1> HIDE DEF b
<1>5. Kept(b, d)
  BY <1>3, DispatchKeeps DEF Good
<1> HIDE DEF d
<1>6. ASSUME c.hub = NoOne, \A j \in DOMAIN c.net : ~LoggingIn(c.net[j])
      PROVE  OneSession(d)
  <2>1. \A j \in DOMAIN b.net : ~LoggingIn(b.net[j])
    BY <1>1, <1>2, <1>6 DEF Quiet, Follows, FewerLogins
  <2>2. \A j \in DOMAIN d.net : ~LoggingIn(d.net[j])
    BY <1>5, <2>1 DEF Kept, FewerLogins
  <2> QED
    BY <1>3, <1>5, <1>6, <2>2 DEF Kept, OneSession, OneLogin
<1> QED
  BY <1>3, <1>4, <1>5, <1>6 DEF Kept

LEMMA ConcatNets ==
    ASSUME NEW m, IsNet(m), NEW n, IsNet(n)
    PROVE  /\ IsNet(m \o n)
           /\ \A i \in DOMAIN (m \o n) :
                \/ i \in DOMAIN m /\ (m \o n)[i] = m[i]
                \/ \E j \in DOMAIN n : (m \o n)[i] = n[j]
<1> DEFINE S == {m[i] : i \in 1..Len(m)} \cup {n[i] : i \in 1..Len(n)}
<1>1. m \in Seq(S) /\ n \in Seq(S) /\ DOMAIN m = 1..Len(m) /\ DOMAIN n = 1..Len(n)
  BY SequenceIsSeq DEF IsNet
<1> HIDE DEF S
<1>2. Len(m) \in Nat /\ Len(n) \in Nat
  BY DEF IsNet, IsSequence
<1>3. /\ m \o n \in Seq(S) /\ Len(m \o n) = Len(m) + Len(n)
      /\ \A i \in 1..(Len(m) + Len(n)) :
            (m \o n)[i] = IF i <= Len(m) THEN m[i] ELSE n[i - Len(m)]
  BY <1>1, ConcatProperties
<1>4. IsSequence(m \o n) /\ DOMAIN (m \o n) = 1..(Len(m) + Len(n))
  BY <1>3, SeqIsSequence
<1>5. ASSUME NEW i \in DOMAIN (m \o n)
      PROVE  \/ i \in DOMAIN m /\ (m \o n)[i] = m[i]
             \/ \E j \in DOMAIN n : (m \o n)[i] = n[j]
  <2>0. i \in 1..(Len(m) + Len(n))
    BY <1>4
  <2>1. CASE i <= Len(m)
    BY <1>1, <1>2, <1>3, <2>0, <2>1
  <2>2. CASE ~(i <= Len(m))
    <3>1. i - Len(m) \in DOMAIN n
      BY <1>1, <1>2, <2>0, <2>2
    <3>2. (m \o n)[i] = n[i - Len(m)]
      BY <1>3, <2>0, <2>2
    <3> QED
      BY <3>1, <3>2
  <2> QED
    BY <2>1, <2>2
<1>6. \A i \in DOMAIN (m \o n) : DOMAIN (m \o n)[i] = RequestFields
  BY <1>5 DEF IsNet
<1> QED
  BY <1>4, <1>5, <1>6 DEF IsNet

\* What is left of a tab are requests whose answers nobody hears.
LEMMA LeftIsForNobody ==
    ASSUME NEW c, IsTab(c)
    PROVE  IsNet(Left(c)) /\ \A i \in DOMAIN Left(c) : Left(c)[i].to = "nobody"
<1> DEFINE sent == {i \in DOMAIN c.net : c.net[i].phase = "sent"}
           Nth(n) == c.net[CHOOSE i \in sent : Cardinality({j \in sent : j <= i}) = n]
           Q(n) == [Request(Nth(n).op, Nth(n).arg, Nth(n).who) EXCEPT !.to = "nobody"]
<1>1. Cardinality(sent) \in Nat
  <2>1. DOMAIN c.net = 1..Len(c.net) /\ Len(c.net) \in Nat
    BY DEF IsTab, IsNet, IsSequence
  <2>2. IsFiniteSet(1..Len(c.net))
    BY <2>1, FS_Interval
  <2>3. IsFiniteSet(sent)
    BY <2>1, <2>2, FS_Subset
  <2> QED
    BY <2>3, FS_CardinalityType
<1>2. Left(c) = [n \in 1..Cardinality(sent) |-> Q(n)]
  BY DEF Left
<1> HIDE DEF Nth, sent
<1>3. ASSUME NEW n PROVE DOMAIN Q(n) = RequestFields /\ Q(n).to = "nobody"
  BY DEF Request, RequestFields
<1> HIDE DEF Q
<1>4. IsSequence(Left(c))
  BY <1>1, <1>2, FunctionIsSequence
<1> QED
  BY <1>2, <1>3, <1>4 DEF IsNet

-----------------------------------------------------------------------------
(* What a person does.                                                       *)

Harmless == Kept(app, app') /\ odd \subseteq odd'

LEMMA DoesHarmless ==
    ASSUME NEW c, Kept(app, c), NEW what, Does(c, what) PROVE Harmless
BY DEF Does, Harmless

LEMMA ActsHarmless ==
    ASSUME NEW c, Kept(app, c), Acts(c) PROVE Harmless
BY DoesHarmless DEF Acts

LEMMA GoHarmless ==
    ASSUME Good(app), NEW at, NEW arg, Go(at, arg) PROVE Harmless
<1>1. Kept(app, Push(app, at, arg))
  BY PushKeeps
<1> QED
  BY <1>1, ActsHarmless DEF Go

LEMMA ChooseHarmless ==
    ASSUME Good(app), NEW view, Acts(Local(app, view)) PROVE Harmless
BY LocalKeeps, ActsHarmless

LEMMA AskHarmless ==
    ASSUME Good(app), NEW op, op \notin {"login", "register"}, NEW arg
    PROVE  /\ \A what : Does(Asks(app, op, arg), what) => Harmless
           /\ Acts(Asks(app, op, arg)) => Harmless
           /\ Acts(Starts(app, op, arg)) => Harmless
<1>1. Kept(app, Asks(app, op, arg)) /\ Kept(app, Starts(app, op, arg))
  BY AskingIsQuiet, LoadingIsQuiet, QuietIsKept DEF Good
<1> QED
  BY <1>1, ActsHarmless, DoesHarmless

\* All a person does but to log in, to log out and to load a page.
Elsewhere ==
    \/ BottomNav \/ LoggedOutLanding \/ LoggedInLanding
    \/ RoundPage \/ RoundMenu \/ RoundSummary \/ FeedPage \/ LoadMore \/ RetryFeed
    \/ LeadersPage \/ ProfilePage \/ CoursesPage \/ CourseDetailPage \/ CreateCoursePage
    \/ TournamentsPage \/ CreateTournamentPage \/ TournamentDetailPage \/ AdminOfTournament
    \/ CourseStep \/ PlayersStep \/ ConfirmStep

LEMMA ElsewhereHarmless ==
    ASSUME Good(app), Elsewhere PROVE Harmless
<1>1. CASE BottomNav
  BY <1>1, GoHarmless DEF BottomNav
<1>2. CASE LoggedOutLanding
  BY <1>2, GoHarmless DEF LoggedOutLanding
<1>3. CASE LoggedInLanding
  BY <1>3, GoHarmless DEF LoggedInLanding
<1>4. CASE RoundPage
  BY <1>4, AskHarmless DEF RoundPage, setScore, fetchRoundStats
<1>5. CASE RoundMenu
  BY <1>5, AskHarmless DEF RoundMenu, completeRound, skipHole, leaveRound, deleteRound
<1>6. CASE RoundSummary
  BY <1>6, GoHarmless DEF RoundSummary
<1>7. CASE FeedPage
  <2>1. CASE \E i \in DOMAIN app.view.items : Acts(handleLike(app, app.view.items[i].id))
    <3>1. PICK id : Acts(handleLike(app, id))
      BY <2>1
    <3> DEFINE l == Liked(app, id, app.user)
    <3>2. Alike(app, l)
      BY DEF Liked, Alike, Good, IsTab, TabFields
    <3> HIDE DEF l
    <3>3. Kept(app, l)
      BY <3>2, AlikeIsKept
    <3>4. Good(l)
      BY <3>3 DEF Kept
    <3>5. Quiet(l, Asks(l, "like", <<id, app.user>>))
      BY <3>4, AskingIsQuiet DEF Good
    <3>6. Kept(l, Asks(l, "like", <<id, app.user>>))
      BY <3>4, <3>5, QuietIsKept
    <3>7. Kept(app, handleLike(app, id))
      BY <3>3, <3>6, KeptTransitive DEF handleLike, l
    <3> QED
      BY <3>1, <3>7, ActsHarmless
  <2>2. CASE \E id \in DOMAIN db.rounds : Go("/rounds", <<id>>)
    BY <2>2, GoHarmless
  <2> QED
    BY <1>7, <2>1, <2>2 DEF FeedPage
<1>8. CASE LoadMore
  <2>1. PICK view, what : Does(Local(app, view), what)
    BY <1>8 DEF LoadMore
  <2> QED
    BY <2>1, LocalKeeps, DoesHarmless
<1>9. CASE RetryFeed
  <2> DEFINE a == [app EXCEPT !.view.loaded = {}, !.view.page = 1]
             b == fetchPage(a, 1)
  <2>1. Acts(Dispatch(app, b))
    BY <1>9 DEF RetryFeed
  <2>2. Alike(app, a)
    BY DEF Alike, Good, IsTab, TabFields
  <2> HIDE DEF a
  <2>3. Kept(app, a) /\ IsTab(a) /\ a.hub = app.hub
    BY <2>2, AlikeIsKept DEF Kept, Good, Alike
  <2>4. Quiet(a, b)
    BY <2>3, FeedPageIsQuiet
  <2>5. Kept(a, b) /\ IsTab(b) /\ b.hub = app.hub
    BY <2>3, <2>4, QuietIsKept DEF Kept, Good, Quiet
  <2> HIDE DEF b
  <2>6. Kept(b, Dispatch(app, b))
    BY <2>5, DispatchKeeps DEF Good
  <2>7. Kept(app, Dispatch(app, b))
    BY <2>3, <2>5, <2>6, KeptTransitive
  <2> QED
    BY <2>1, <2>7, ActsHarmless
<1>10. CASE LeadersPage
  BY <1>10, ChooseHarmless DEF LeadersPage, Choose
<1>11. CASE ProfilePage
  <2>1. CASE Acts(ProfileOf(app, Whose))
    <3>1. Kept(app, ProfileOf(app, Whose))
      BY ProfileIsQuiet, QuietIsKept DEF Good
    <3> QED
      BY <2>1, <3>1, ActsHarmless
  <2>2. CASE Acts(fetchRounds(app, Whose, 3 - app.profile.rounds[2]))
    BY <2>2, AskHarmless DEF fetchRounds
  <2>3. CASE \E id \in RoundsOf(app.profile.rounds[1]) : Go("/rounds", <<id>>)
    BY <2>3, GoHarmless
  <2> QED
    BY <1>11, <2>1, <2>2, <2>3 DEF ProfilePage
<1>12. CASE CoursesPage
  BY <1>12, GoHarmless, ChooseHarmless DEF CoursesPage, Choose
<1>13. CASE CourseDetailPage
  BY <1>13, GoHarmless DEF CourseDetailPage
<1>14. CASE CreateCoursePage
  BY <1>14, AskHarmless DEF CreateCoursePage, createCourse
<1>15. CASE TournamentsPage
  BY <1>15, GoHarmless DEF TournamentsPage
<1>16. CASE CreateTournamentPage
  BY <1>16, AskHarmless DEF CreateTournamentPage, createTournament
<1>17. CASE TournamentDetailPage
  BY <1>17, GoHarmless, AskHarmless DEF TournamentDetailPage, joinTournament
<1>18. CASE AdminOfTournament
  BY <1>18, ChooseHarmless, AskHarmless DEF AdminOfTournament, Choose, addCourse, calculatePrices
<1>19. CASE CourseStep
  BY <1>19, ChooseHarmless, GoHarmless DEF CourseStep, Choose, Step
<1>20. CASE PlayersStep
  BY <1>20, ChooseHarmless DEF PlayersStep, Choose, Step
<1>21. CASE ConfirmStep
  BY <1>21, ChooseHarmless, AskHarmless DEF ConfirmStep, Step
<1> QED
  BY <1>1, <1>2, <1>3, <1>4, <1>5, <1>6, <1>7, <1>8, <1>9, <1>10, <1>11, <1>12, <1>13,
     <1>14, <1>15, <1>16, <1>17, <1>18, <1>19, <1>20, <1>21 DEF Elsewhere

LEMMA HarmlessSession ==
    ASSUME SessionInv, Harmless PROVE SessionInv'
BY KeptSession DEF SessionInv, Harmless

\* The only login under way is the one just sent, by nobody.
LEMMA LoginSession ==
    ASSUME NEW c, SessionOK(c, odd), NEW d, Alike(c, d), c.at \in {"/login", "/register"},
           NEW op \in {"login", "register"}, NEW arg, NEW o, odd \subseteq o,
           (\E i \in DOMAIN c.net : LoggingIn(c.net[i])) => "twice" \in o
    PROVE  SessionOK(Asks(d, op, arg), o)
<1> DEFINE e == Asks(d, op, arg)
           q == Request(op, arg, d.saved)
<1>1. Good(c) /\ IsTab(d) /\ d.net = c.net
  BY AlikeIsQuiet DEF SessionOK, Good, Quiet, Follows, Alike
<1>2. /\ IsTab(e) /\ e.net = Append(c.net, q)
      /\ e.user = c.user /\ e.saved = c.saved /\ e.at = c.at /\ e.hub = c.hub
  BY <1>1, AskingAppends DEF Alike, TabFields
<1>3. c.user = NoOne
  BY <1>1 DEF Good, WellRouted
<1> HIDE DEF e, q
<1>4. IsSequence(c.net)
  BY <1>1 DEF Good, IsTab, IsNet
<1>5. /\ DOMAIN e.net = 1..(Len(c.net) + 1)
      /\ \A i \in 1..Len(c.net) : i \in DOMAIN c.net /\ e.net[i] = c.net[i]
  BY <1>2, <1>4, AppendToSequence
<1>6. \A i \in DOMAIN e.net : i \in 1..Len(c.net) \/ i = Len(c.net) + 1
  BY <1>4, <1>5 DEF IsSequence
<1>7. Good(e)
  BY <1>1, <1>2 DEF Good, WellRouted, HubHeld
<1>8. ASSUME o \cap {"swap", "twice"} = {} PROVE OneSession(e)
  <2>1. OneSession(c) /\ \A i \in DOMAIN c.net : ~LoggingIn(c.net[i])
    BY <1>8 DEF SessionOK
  <2>2. \A i \in DOMAIN e.net : LoggingIn(e.net[i]) => i = Len(c.net) + 1
    BY <1>5, <1>6, <2>1
  <2> QED
    BY <1>2, <1>3, <2>1, <2>2 DEF OneSession, OneLogin
<1> QED
  BY <1>2, <1>7, <1>8 DEF SessionOK, e

LEMMA PersonSession ==
    ASSUME SessionInv, Person PROVE SessionInv'
<1>0. SessionOK(app, odd) /\ Good(app)
  BY DEF SessionInv, SessionOK
<1>1. CASE Elsewhere
  BY <1>0, <1>1, ElsewhereHarmless, HarmlessSession
<1>2. CASE AppHeader
  <2>1. CASE \E arg : Go("/profile", arg)
    BY <1>0, <2>1, GoHarmless, HarmlessSession
  <2>2. CASE \E what : Does(Dispatch(app, logout(app)), what)
    <3> DEFINE a == logout(app)
               d == Dispatch(app, a)
    <3>1. IsTab(a) /\ a.net = app.net /\ a.user = NoOne /\ a.saved = NoOne /\ a.hub = app.hub
      BY <1>0 DEF logout, Good, IsTab, TabFields
    <3>2. app' = d /\ odd \subseteq odd'
      BY <2>2 DEF Does
    <3> HIDE DEF a
    <3>3. Kept(a, d)
      BY <1>0, <3>1, DispatchKeeps DEF Good
    <3> HIDE DEF d
    <3>4. Good(d) /\ d.user = NoOne /\ d.saved = NoOne /\ d.hub = NoOne
      BY <3>1, <3>3 DEF Kept, Good, HubHeld
    <3>5. ASSUME OneSession(app) PROVE OneSession(d)
      <4>1. OneLogin(d)
        BY <3>1, <3>3, <3>4, <3>5 DEF OneSession, OneLogin, Kept, FewerLogins
      <4> QED
        BY <3>4, <4>1 DEF OneSession
    <3> QED
      BY <1>0, <3>2, <3>4, <3>5 DEF SessionInv, SessionOK
  <2> QED
    BY <1>2, <2>1, <2>2 DEF AppHeader
<1>3. CASE Login
  <2>1. CASE Go("/register", <<>>)
    BY <1>0, <2>1, GoHarmless, HarmlessSession
  <2>2. CASE \E u \in Users, right \in BOOLEAN : Does(login(app, u, right), Twice)
    <3>1. PICK u, right : Does(login(app, u, right), Twice)
      BY <2>2
    <3> DEFINE a == [app EXCEPT !.loginError = FALSE]
    <3>2. Alike(app, a)
      BY <1>0 DEF Alike, Good, IsTab, TabFields
    <3>3. app' = Asks(a, "login", <<u, right>>)
      BY <3>1 DEF Does, login
    <3> HIDE DEF a
    <3>4. odd \subseteq odd' /\ ((\E i \in DOMAIN app.net : LoggingIn(app.net[i])) => "twice" \in odd')
      BY <3>1 DEF Does, Twice
    <3>5. app.at \in {"/login", "/register"}
      BY <1>3 DEF Login
    <3> QED
      BY <1>0, <3>2, <3>3, <3>4, <3>5, LoginSession DEF SessionInv
  <2> QED
    BY <1>3, <2>1, <2>2 DEF Login
<1>4. CASE Register
  <2>1. CASE Go("/login", <<>>)
    BY <1>0, <2>1, GoHarmless, HarmlessSession
  <2>2. CASE \E u \in Users : Does(register(app, u), Twice)
    <3>1. PICK u : Does(register(app, u), Twice)
      BY <2>2
    <3> DEFINE a == [app EXCEPT !.loginError = FALSE]
    <3>2. Alike(app, a)
      BY <1>0 DEF Alike, Good, IsTab, TabFields
    <3>3. app' = Asks(a, "register", <<u>>)
      BY <3>1 DEF Does, register
    <3> HIDE DEF a
    <3>4. odd \subseteq odd' /\ ((\E i \in DOMAIN app.net : LoggingIn(app.net[i])) => "twice" \in odd')
      BY <3>1 DEF Does, Twice
    <3>5. app.at \in {"/login", "/register"}
      BY <1>4 DEF Register
    <3> QED
      BY <1>0, <3>2, <3>3, <3>4, <3>5, LoginSession DEF SessionInv
  <2> QED
    BY <1>4, <2>1, <2>2 DEF Register
<1>5. CASE LoadPage
  <2>1. PICK at, arg : app' = [Load(app.saved, at, arg) EXCEPT !.net = Left(app) \o @]
    BY <1>5 DEF LoadPage
  <2> DEFINE l == Load(app.saved, at, arg)
             d == [l EXCEPT !.net = Left(app) \o @]
  <2>2. /\ Good(l) /\ l.user = app.saved /\ l.saved = app.saved /\ l.hub \in {NoOne, app.saved}
        /\ \A i \in DOMAIN l.net : ~LoggingIn(l.net[i])
    BY LoadIsGood
  <2> HIDE DEF l
  <2>3. IsNet(Left(app)) /\ \A i \in DOMAIN Left(app) : Left(app)[i].to = "nobody"
    BY <1>0, LeftIsForNobody DEF Good
  <2>4. /\ DOMAIN d = TabFields /\ d.net = Left(app) \o l.net
        /\ d.user = l.user /\ d.saved = l.saved /\ d.at = l.at /\ d.hub = l.hub
    BY <2>2 DEF Good, IsTab, TabFields
  <2>5. app' = d
    BY <2>1 DEF l
  <2> HIDE DEF d
  <2>6. IsNet(d.net) /\ \A i \in DOMAIN d.net : ~LoggingIn(d.net[i])
    <3>1. IsNet(l.net)
      BY <2>2 DEF Good, IsTab
    <3> QED
      BY <2>2, <2>3, <2>4, <3>1, ConcatNets DEF LoggingIn
  <2>7. Good(d) /\ OneSession(d)
    BY <2>2, <2>4, <2>6 DEF Good, IsTab, WellRouted, HubHeld, OneSession, OneLogin
  <2> QED
    BY <2>5, <2>7 DEF SessionInv, SessionOK, OneSession
<1> QED
  BY <1>1, <1>2, <1>3, <1>4, <1>5 DEF Person, Elsewhere

LEMMA NetworkSession ==
    ASSUME SessionInv, Network PROVE SessionInv'
<1>0. SessionOK(app, odd) /\ Good(app) /\ IsTab(app)
  BY DEF SessionInv, SessionOK, Good
<1>1. PICK i \in DOMAIN app.net : Serve(i) \/ Answer(i) \/ \E phase \in {"error", "denied", "lost"} : Fail(i, phase)
  BY DEF Network
<1> DEFINE q == app.net[i]
<1>2. DOMAIN q = RequestFields
  BY <1>0 DEF IsTab, IsNet
<1>3. ASSUME NEW phase PROVE Kept(app, [app EXCEPT !.net[i].phase = phase])
  <2> DEFINE r == [q EXCEPT !.phase = phase]
  <2>1. DOMAIN r = RequestFields /\ r.op = q.op /\ r.to = q.to
    BY <1>2 DEF RequestFields
  <2> HIDE DEF r
  <2>2. Quiet(app, [app EXCEPT !.net[i] = r])
    BY <1>0, <2>1, RequestChanges
  <2> QED
    BY <1>0, <2>2, QuietIsKept DEF r
<1>4. ASSUME NEW data PROVE Kept(app, [app EXCEPT !.net[i].phase = "ok", !.net[i].data = data])
  <2> DEFINE r == [q EXCEPT !.phase = "ok", !.data = data]
  <2>1. DOMAIN r = RequestFields /\ r.op = q.op /\ r.to = q.to
    BY <1>2 DEF RequestFields
  <2>2. [app EXCEPT !.net[i].phase = "ok", !.net[i].data = data] = [app EXCEPT !.net[i] = r]
    BY <1>0 DEF IsTab, TabFields
  <2> HIDE DEF r
  <2>3. Quiet(app, [app EXCEPT !.net[i] = r])
    BY <1>0, <2>1, RequestChanges
  <2> QED
    BY <1>0, <2>2, <2>3, QuietIsKept
<1>5. CASE Serve(i)
  <2>1. CASE \E phase : app' = [app EXCEPT !.net[i].phase = phase]
    BY <1>3, <1>5, <2>1, HarmlessSession DEF Harmless, Serve
  <2>2. CASE \E data : app' = ToldOf([app EXCEPT !.net[i].phase = "ok", !.net[i].data = data], db, q)
    <3>1. PICK data : app' = ToldOf([app EXCEPT !.net[i].phase = "ok", !.net[i].data = data], db, q)
      BY <2>2
    <3> DEFINE a == [app EXCEPT !.net[i].phase = "ok", !.net[i].data = data]
    <3>2. Kept(app, a)
      BY <1>4
    <3> HIDE DEF a
    <3>3. Good(a) /\ Alike(a, ToldOf(a, db, q))
      BY <3>2, TellingIsAlike DEF Kept, Good
    <3>4. Kept(a, ToldOf(a, db, q))
      BY <3>3, AlikeIsKept
    <3>5. Kept(app, ToldOf(a, db, q))
      BY <3>2, <3>4, KeptTransitive
    <3> QED
      BY <1>5, <3>1, <3>5, HarmlessSession DEF Harmless, Serve, a
  <2> QED
    BY <1>5, <2>1, <2>2 DEF Serve
<1>6. CASE \E phase \in {"error", "denied", "lost"} : Fail(i, phase)
  <2>1. \E phase : app' = [app EXCEPT !.net[i].phase = phase]
    BY <1>6 DEF Fail
  <2>2. odd \subseteq odd'
    BY <1>6 DEF Fail, Fails
  <2> QED
    BY <1>3, <2>1, <2>2, HarmlessSession DEF Harmless
<1>7. CASE Answer(i)
  <2> DEFINE c == [app EXCEPT !.net = RemoveAt(@, i)]
  <2>1. /\ Good(c) /\ c.user = app.user /\ c.saved = app.saved /\ c.hub = app.hub
        /\ OneSession(app) => OneSession(c)
        /\ OneSession(app) /\ LoggingIn(q) =>
             app.user = NoOne /\ \A j \in DOMAIN c.net : ~LoggingIn(c.net[j])
    BY <1>0, TakingAnswer
  <2>2. app' = IF q.to = "nobody" THEN c
               ELSE IF q.phase = "ok" THEN Succeeded(c, q)
               ELSE IF q.phase = "denied" /\ q.to # "nobody"
                    THEN [Unauthorized EXCEPT !.net = Left(c)] ELSE Failed(c, q)
    BY <1>7 DEF Answer
  <2>3. ~(q.phase = "denied" /\ q.to # "nobody") => odd \subseteq odd'
    BY <1>7 DEF Answer
  <2> HIDE DEF c
  <2>4. SessionOK(c, odd)
    BY <1>0, <2>1 DEF SessionOK
  <2>5. CASE q.phase = "denied" /\ q.to # "nobody"
    <3> DEFINE l == Load(NoOne, "/login", <<>>)
               d == [l EXCEPT !.net = Left(c)]
    <3>1. Good(l) /\ l.user = NoOne /\ l.saved = NoOne /\ l.hub = NoOne
      BY LoadIsGood
    <3>2. app' = d
      BY <2>2, <2>5 DEF Unauthorized
    <3> HIDE DEF l
    <3>3. /\ DOMAIN d = TabFields /\ d.net = Left(c)
          /\ d.user = l.user /\ d.saved = l.saved /\ d.at = l.at /\ d.hub = l.hub
      BY <3>1 DEF Good, IsTab, TabFields
    <3> HIDE DEF d
    <3>4. IsNet(d.net) /\ \A j \in DOMAIN d.net : ~LoggingIn(d.net[j])
      BY <2>1, <3>3, LeftIsForNobody DEF Good, LoggingIn
    <3>5. Good(d) /\ OneSession(d)
      BY <3>1, <3>3, <3>4 DEF Good, IsTab, WellRouted, HubHeld, OneSession, OneLogin
    <3> QED
      BY <3>2, <3>5 DEF SessionInv, SessionOK, OneSession
  <2>6. CASE q.to # "nobody" /\ q.phase = "ok" /\ q.op \in {"login", "register"}
    <3>1. app' = LoggedIn(c, q.arg[1])
      BY <2>2, <2>6 DEF Succeeded, OnPage, Lists
    <3>2. LoggingIn(q)
      BY <2>6 DEF LoggingIn
    <3>3. OneSession(app) => app.hub = NoOne
      BY <2>1, <3>2 DEF OneSession
    <3> DEFINE d == LoggedIn(c, q.arg[1])
    <3>4. Good(d) /\ d.user = d.saved
      BY <2>1, LoggedInIsOne
    <3>5. OneSession(app) => OneSession(d)
      BY <2>1, <3>2, <3>3, LoggedInIsOne
    <3>6. odd \subseteq odd'
      BY <2>3, <2>6
    <3> QED
      BY <1>0, <3>1, <3>4, <3>5, <3>6 DEF SessionInv, SessionOK
  <2>7. CASE /\ ~(q.phase = "denied" /\ q.to # "nobody")
             /\ ~(q.to # "nobody" /\ q.phase = "ok" /\ q.op \in {"login", "register"})
    <3>1. Alike(c, c)
      BY <2>1 DEF Alike, Good, IsTab
    <3>2. Kept(c, c) /\ Kept(c, Failed(c, q))
      BY <2>1, <3>1, AlikeIsKept, FailedKeeps
    <3>3. q.op \notin {"login", "register"} => Kept(c, Succeeded(c, q))
      BY <2>1, SucceededKeeps
    <3>4. Kept(c, app')
      BY <2>2, <2>7, <3>2, <3>3
    <3>5. odd \subseteq odd'
      BY <2>3, <2>7
    <3> QED
      BY <2>4, <3>4, <3>5, KeptSession DEF SessionInv
  <2> QED
    BY <2>5, <2>6, <2>7
<1> QED
  BY <1>1, <1>5, <1>6, <1>7

LEMMA WorldSession ==
    ASSUME SessionInv, Hear \/ LosePush \/ (\E v \in Users : Others(v)) PROVE SessionInv'
<1>0. Good(app) /\ IsTab(app)
  BY DEF SessionInv, SessionOK, Good
<1>1. CASE Hear
  <2> DEFINE c == [app EXCEPT !.inbox = Tail(@)]
  <2>1. PICK d : /\ app' = Dispatch(c, d)
                 /\ \E m : d = IF m.kind = "deleted" THEN onRoundDeleted(c, m.round.id)
                               ELSE onRoundUpdated(c, m.round)
    BY <1>1 DEF Hear
  <2>2. Alike(app, c)
    BY <1>0 DEF Alike, IsTab, TabFields
  <2> HIDE DEF c
  <2>3. Kept(app, c)
    BY <1>0, <2>2, AlikeIsKept
  <2>4. Alike(c, d)
    BY <2>1, <2>3 DEF Alike, onRoundDeleted, onRoundUpdated, Kept, Good, IsTab, TabFields
  <2>5. Kept(c, Dispatch(c, d))
    BY <2>3, <2>4, ChangeKeeps DEF Kept
  <2>6. Kept(app, app')
    BY <2>1, <2>3, <2>5, KeptTransitive
  <2>7. odd \subseteq odd'
    BY <1>1 DEF Hear
  <2> QED
    BY <2>6, <2>7, HarmlessSession DEF Harmless
<1>2. CASE LosePush
  <2>1. Alike(app, app') /\ odd \subseteq odd'
    BY <1>0, <1>2 DEF LosePush, Fails, Alike, IsTab, TabFields
  <2> QED
    BY <1>0, <2>1, AlikeIsKept, HarmlessSession DEF Harmless
<1>3. CASE \E v \in Users : Others(v)
  <2>1. \/ \E by, kind, r : app' = Told(app, by, kind, r)
        \/ \E d, q : app' = ToldOf(app, d, q)
    BY <1>3 DEF Others
  <2>2. odd \subseteq odd'
    BY <1>3 DEF Others
  <2>3. Alike(app, app')
    BY <1>0, <2>1, TellingIsAlike
  <2> QED
    BY <1>0, <2>2, <2>3, AlikeIsKept, HarmlessSession DEF Harmless
<1> QED
  BY <1>1, <1>2, <1>3

LEMMA OtherTabSession ==
    ASSUME SessionInv, OtherTab PROVE SessionInv'
<1>0. Good(app)
  BY DEF SessionInv, SessionOK
<1>1. PICK u : app' = [app EXCEPT !.saved = u]
  BY DEF OtherTab, Does
<1>2. "swap" \in odd'
  BY DEF OtherTab, Does
<1>3. Good(app')
  BY <1>0, <1>1 DEF Good, IsTab, WellRouted, HubHeld, TabFields
<1> QED
  BY <1>2, <1>3 DEF SessionInv, SessionOK

\* Whatever is answered in whatever order, the user of a tab, the one in
\* localStorage and the one of the hub connection are the same, and the
\* connection is held by its two pages only (authStore.ts, hub.ts). The login
\* page must not be answered twice: one login at most is under way, and while
\* it is nobody is logged in.
THEOREM OneUserPerTab == Spec => []SessionIsOne
<1>1. Init => SessionInv
  <2> SUFFICES ASSUME Init PROVE SessionInv
    OBVIOUS
  <2>1. PICK u, at, arg : app = Load(u, at, arg)
    BY DEF Init
  <2>2. Good(app) /\ OneSession(app)
    BY <2>1, LoadIsGood DEF OneSession, OneLogin
  <2> QED
    BY <2>2 DEF SessionInv, SessionOK, OneSession
<1>2. SessionInv /\ [Next]_vars => SessionInv'
  <2> SUFFICES ASSUME SessionInv, [Next]_vars PROVE SessionInv'
    OBVIOUS
  <2>1. CASE UNCHANGED vars
    BY <2>1 DEF vars, SessionInv
  <2>2. CASE Next
    BY <2>2, NetworkSession, PersonSession, WorldSession, OtherTabSession DEF Next
  <2> QED
    BY <2>1, <2>2
<1>3. SessionInv => SessionIsOne
  BY DEF SessionInv, SessionOK, OneSession, SessionIsOne, Good, HubHeld, HubPages
<1> QED
  BY <1>1, <1>2, <1>3, PTL DEF Spec

-----------------------------------------------------------------------------
(* The lists to choose from.                                                 *)

ViewFields == {"page", "loaded", "items", "last", "busy", "failed", "ask", "got", "step",
               "layout", "players", "starting"}
ViewOK(c) == DOMAIN c.view = ViewFields /\ c.view.step \in {"course", "players", "confirm"}

\* The list that the page has been asked for, if it has one.
Wanted(c) ==
    IF c.at = "/leaders" THEN {Fetch("leaderboard", <<c.view.ask, c.view.page>>)}
    ELSE IF c.at = "/new-round" /\ c.view.step = "course" THEN {Fetch("layouts", <<c.view.ask>>)}
    ELSE IF c.at = "/new-round" /\ c.view.step = "players" THEN {Fetch("people", <<c.view.ask>>)}
    ELSE {}

\* A request of the page is one that the page, as it is now, makes.
Fits(c, q) ==
    /\ q.op \in Lists => Fetch(q.op, q.arg) \in Wanted(c)
    /\ q.op = "feed" => c.at = "/feed"
    /\ q.op = "addCourse" => c.at = "/tournament"
PageRequests(c) == \A i \in DOMAIN c.net : c.net[i].to = "page" => Fits(c, c.net[i])
\* The list is the one asked for, or on its way, or has failed.
ListShown(c) ==
    Wanted(c) # {} => c.view.busy = TRUE \/ c.view.failed = TRUE \/ c.view.got = c.view.ask

ListsOK(c) == IsTab(c) /\ ViewOK(c) /\ PageRequests(c) /\ ListShown(c)

\* d is c on the same page, asked for the same, ...
Moved(c, d) ==
    /\ IsTab(d) /\ d.at = c.at
    /\ DOMAIN d.view = DOMAIN c.view
    /\ d.view.ask = c.view.ask /\ d.view.page = c.view.page /\ d.view.step = c.view.step
    /\ \A i \in DOMAIN d.net :
         d.net[i].to = "page" =>
            (i \in DOMAIN c.net /\ d.net[i] = c.net[i]) \/ Fits(c, d.net[i])
\* ... and with the same to show.
Steady(c, d) ==
    /\ Moved(c, d)
    /\ d.view.busy = c.view.busy /\ d.view.failed = c.view.failed /\ d.view.got = c.view.got

LEMMA MovedWants ==
    ASSUME NEW c, NEW d, Moved(c, d)
    PROVE  Wanted(d) = Wanted(c) /\ \A q : Fits(d, q) <=> Fits(c, q)
BY DEF Moved, Wanted, Fits

LEMMA MovedTransitive ==
    ASSUME NEW c, NEW d, NEW e, Moved(c, d), Moved(d, e) PROVE Moved(c, e)
<1>1. \A q : Fits(d, q) <=> Fits(c, q)
  BY MovedWants
<1> QED
  BY <1>1 DEF Moved

LEMMA SteadyTransitive ==
    ASSUME NEW c, NEW d, NEW e, Steady(c, d), Steady(d, e) PROVE Steady(c, e)
BY MovedTransitive DEF Steady

LEMMA MovedRequests ==
    ASSUME NEW c, NEW d, Moved(c, d), PageRequests(c), ViewOK(c)
    PROVE  PageRequests(d) /\ ViewOK(d)
<1>1. \A q : Fits(d, q) <=> Fits(c, q)
  BY MovedWants
<1> QED
  BY <1>1 DEF Moved, PageRequests, ViewOK

LEMMA SteadyLists ==
    ASSUME NEW c, NEW d, Steady(c, d), ListsOK(c) PROVE ListsOK(d)
<1>1. Wanted(d) = Wanted(c)
  BY MovedWants DEF Steady
<1>2. PageRequests(d) /\ ViewOK(d)
  BY MovedRequests DEF Steady, ListsOK
<1> QED
  BY <1>1, <1>2 DEF ListsOK, ListShown, Steady, Moved

\* A store changes, not the page.
SameView(c, d) ==
    DOMAIN d = TabFields /\ d.net = c.net /\ d.at = c.at /\ d.view = c.view
LEMMA SameViewSteady ==
    ASSUME NEW c, NEW d, IsTab(c), SameView(c, d) PROVE Steady(c, d)
BY DEF SameView, Steady, Moved, IsTab

LEMMA AskingIsSteady ==
    ASSUME NEW c, IsTab(c), NEW op, NEW arg, Fits(c, Fetch(op, arg))
    PROVE  Steady(c, Asks(c, op, arg))
<1> DEFINE d == Asks(c, op, arg)
           q == Request(op, arg, c.saved)
<1>1. IsTab(d) /\ d.net = Append(c.net, q) /\ d.at = c.at /\ d.view = c.view
  BY AskingAppends DEF TabFields
<1>2. Fits(c, q)
  BY RequestIsRequest DEF Fits, Fetch
<1>3. IsSequence(c.net)
  BY DEF IsTab, IsNet
<1> HIDE DEF d, q
<1>4. /\ DOMAIN d.net = 1..(Len(c.net) + 1)
      /\ \A i \in 1..Len(c.net) : i \in DOMAIN c.net /\ d.net[i] = c.net[i]
      /\ d.net[Len(c.net) + 1] = q
  BY <1>1, <1>3, AppendToSequence
<1>5. \A i \in DOMAIN d.net : i \in 1..Len(c.net) \/ i = Len(c.net) + 1
  BY <1>3, <1>4 DEF IsSequence
<1>6. \A i \in DOMAIN d.net : (i \in DOMAIN c.net /\ d.net[i] = c.net[i]) \/ Fits(c, d.net[i])
  BY <1>2, <1>4, <1>5
<1> QED
  BY <1>1, <1>6 DEF Steady, Moved, d

\* Most requests fit every page.
Plain(op) == op \notin Lists \cup {"feed", "addCourse"}
LEMMA PlainFits ==
    ASSUME NEW op, Plain(op) PROVE \A c, arg : Fits(c, Fetch(op, arg))
BY DEF Plain, Fits, Fetch

LEMMA PlainIsSteady ==
    ASSUME NEW c, IsTab(c), NEW op, Plain(op), NEW arg
    PROVE  /\ Steady(c, Asks(c, op, arg))
           /\ \A store : Steady(c, Loads(c, store, op, arg))
<1>1. Steady(c, Asks(c, op, arg))
  BY PlainFits, AskingIsSteady
<1>2. ASSUME NEW store PROVE Steady(c, Loads(c, store, op, arg))
  <2> DEFINE d == [c EXCEPT !.busy = @ \cup {store}, !.err = @ \ {store}]
  <2>1. SameView(c, d)
    BY DEF SameView, IsTab, TabFields
  <2> HIDE DEF d
  <2>2. Steady(c, d)
    BY <2>1, SameViewSteady
  <2>3. IsTab(d)
    BY <2>2 DEF Steady, Moved
  <2>4. Steady(d, Asks(d, op, arg))
    BY <2>3, PlainFits, AskingIsSteady
  <2> QED
    BY <2>2, <2>4, SteadyTransitive DEF Loads, d
<1> QED
  BY <1>1, <1>2

\* A button that is disabled until the answer.
LEMMA StartingIsSteady ==
    ASSUME NEW c, IsTab(c), ViewOK(c), NEW op, Plain(op), NEW arg
    PROVE  Steady(c, Starts(c, op, arg))
<1> DEFINE d == [c EXCEPT !.view.starting = TRUE]
<1>1. Steady(c, d)
  BY DEF Steady, Moved, IsTab, ViewOK, TabFields, ViewFields
<1> HIDE DEF d
<1>2. IsTab(d)
  BY <1>1 DEF Steady, Moved
<1>3. Steady(d, Asks(d, op, arg))
  BY <1>2, PlainFits, AskingIsSteady
<1> QED
  BY <1>1, <1>3, SteadyTransitive DEF Starts, d

\* A page that waits for what it asks for.
LEMMA WaitingIsMoved ==
    ASSUME NEW c, IsTab(c), ViewOK(c), NEW op, NEW arg, Fits(c, Fetch(op, arg))
    PROVE  Moved(c, Waits(c, op, arg)) /\ Waits(c, op, arg).view.busy = TRUE
<1> DEFINE d == [c EXCEPT !.view.busy = TRUE, !.view.failed = FALSE]
<1>1. Moved(c, d) /\ d.view.busy = TRUE
  BY DEF Moved, IsTab, ViewOK, TabFields, ViewFields
<1> HIDE DEF d
<1>2. Fits(d, Fetch(op, arg)) /\ IsTab(d)
  BY <1>1, MovedWants DEF Moved
<1>3. Steady(d, Asks(d, op, arg))
  BY <1>2, AskingIsSteady
<1> QED
  BY <1>1, <1>3, MovedTransitive DEF Steady, Waits, d

LEMMA ProfileIsSteady ==
    ASSUME NEW c, IsTab(c), NEW u PROVE Steady(c, ProfileOf(c, u))
<1> DEFINE c1 == fetchProfile(c, u)
           c2 == fetchAchievements(c1, u)
           c3 == fetchRounds(c2, u, 1)
<1>0. Plain("profile") /\ Plain("achievements") /\ Plain("rounds")
  BY DEF Plain, Lists
<1>1. Steady(c, c1)
  BY <1>0, PlainIsSteady DEF fetchProfile
<1>2. IsTab(c1)
  BY <1>1 DEF Steady, Moved
<1> HIDE DEF c1
<1>3. Steady(c1, c2)
  BY <1>0, <1>2, PlainIsSteady DEF fetchAchievements
<1>4. IsTab(c2)
  BY <1>3 DEF Steady, Moved
<1> HIDE DEF c2
<1>5. Steady(c2, c3)
  BY <1>0, <1>4, PlainIsSteady DEF fetchRounds
<1> QED
  BY <1>1, <1>3, <1>5, SteadyTransitive DEF ProfileOf, c1, c2

LEMMA FeedPageIsMoved ==
    ASSUME NEW c, IsTab(c), ViewOK(c), c.at = "/feed", NEW page
    PROVE  Moved(c, fetchPage(c, page))
<1> DEFINE d == [c EXCEPT !.view.loaded = @ \cup {page}]
<1>1. Moved(c, c) /\ Moved(c, d)
  BY DEF Moved, IsTab, ViewOK, TabFields, ViewFields
<1> HIDE DEF d
<1>2. IsTab(d) /\ d.at = "/feed" /\ ViewOK(d)
  BY <1>1 DEF Moved, ViewOK
<1>3. Fits(d, Fetch("feed", <<page>>))
  BY <1>2 DEF Fits, Fetch, Lists
<1>4. Moved(d, Waits(d, "feed", <<page>>))
  BY <1>2, <1>3, WaitingIsMoved
<1> QED
  BY <1>1, <1>4, MovedTransitive DEF fetchPage, d

LEMMA ConnectingIsSteady ==
    ASSUME NEW c, IsTab(c)
    PROVE  Steady(c, connectHub(c)) /\ Steady(c, disconnectHub(c))
<1>1. SameView(c, connectHub(c)) /\ SameView(c, disconnectHub(c))
  BY DEF connectHub, disconnectHub, SameView, IsTab, TabFields
<1> QED
  BY <1>1, SameViewSteady

\* An effect of the page: a list that it asks for is on its way, or there.
LEMMA EffectMoves ==
    ASSUME NEW c, IsTab(c), ViewOK(c), NEW f, f = Fetch(f.op, f.arg), Fits(c, f),
           f.op # "addCourse"
    PROVE  /\ Moved(c, Effect(c, f))
           /\ f.op \in Lists => LET v == Effect(c, f).view
                                IN  v.busy = TRUE \/ v.got = v.ask
<1> DEFINE h == connectHub(c)
<1>0. Steady(c, h) /\ IsTab(h)
  BY ConnectingIsSteady DEF Steady, Moved
<1>1. CASE f.op = "home"
  <2> DEFINE c1 == fetchUserDetails(h, <<>>)
             c2 == fetchRecentRounds(c1, f.arg[1])
  <2>0. Effect(c, f) = c2
    BY <1>1 DEF Effect
  <2>1. Plain("details") /\ Plain("recent")
    BY DEF Plain, Lists
  <2> HIDE DEF h
  <2>2. Steady(h, c1)
    BY <1>0, <2>1, PlainIsSteady DEF fetchUserDetails
  <2>3. IsTab(c1)
    BY <2>2 DEF Steady, Moved
  <2> HIDE DEF c1
  <2>4. Steady(c1, c2)
    BY <2>1, <2>3, PlainIsSteady DEF fetchRecentRounds
  <2>5. Steady(c, c2)
    BY <1>0, <2>2, <2>4, SteadyTransitive
  <2> QED
    BY <1>1, <2>0, <2>5 DEF Steady, Lists, c1, h
<1>2. CASE f.op = "round"
  <2> DEFINE id == f.arg[1]
             c1 == fetchRound(h, id)
             c2 == fetchPaceData(c1, id)
             c3 == fetchCourseStats(c2, id)
  <2>0. Effect(c, f) = c3
    BY <1>2 DEF Effect
  <2>1. Plain("round") /\ Plain("pace") /\ Plain("courseStats")
    BY DEF Plain, Lists
  <2> HIDE DEF h
  <2>2. Steady(h, c1)
    BY <1>0, <2>1, PlainIsSteady DEF fetchRound
  <2>3. IsTab(c1)
    BY <2>2 DEF Steady, Moved
  <2> HIDE DEF c1
  <2>4. Steady(c1, c2)
    BY <2>1, <2>3, PlainIsSteady DEF fetchPaceData
  <2>5. IsTab(c2)
    BY <2>4 DEF Steady, Moved
  <2> HIDE DEF c2
  <2>6. Steady(c2, c3)
    BY <2>1, <2>5, PlainIsSteady DEF fetchCourseStats
  <2>7. Steady(c, c3)
    BY <1>0, <2>2, <2>4, <2>6, SteadyTransitive
  <2> QED
    BY <1>2, <2>0, <2>7 DEF Steady, Lists, c1, c2, h
<1>3. CASE f.op \in {"activeRound", "roundStats", "courses", "tournaments", "tournament"}
  <2>1. Plain(f.op)
    BY <1>3 DEF Plain, Lists
  <2>2. \/ \E arg : Effect(c, f) = Asks(c, f.op, arg)
        \/ \E store, arg : Effect(c, f) = Loads(c, store, f.op, arg)
    BY <1>3 DEF Effect, fetchActiveRound, fetchRoundStats, fetchCourses, fetchTournaments,
                fetchTournament
  <2>3. Steady(c, Effect(c, f))
    BY <2>1, <2>2, PlainIsSteady
  <2> QED
    BY <2>1, <2>3 DEF Plain, Steady
<1>4. CASE f.op = "feed"
  <2>1. Effect(c, f) = fetchPage(c, f.arg[1]) /\ c.at = "/feed"
    BY <1>4 DEF Effect, Fits
  <2> QED
    BY <1>4, <2>1, FeedPageIsMoved DEF Lists
<1>5. CASE f.op = "profile"
  <2>1. Effect(c, f) = ProfileOf(c, f.arg[1])
    BY <1>5 DEF Effect
  <2> QED
    BY <1>5, <2>1, ProfileIsSteady DEF Steady, Lists
<1>6. CASE f.op = "people" /\ f.arg[1] = 0
  <2> DEFINE d == [c EXCEPT !.view.got = 0]
  <2>1. Effect(c, f) = d
    BY <1>6 DEF Effect
  <2>2. Moved(c, d) /\ d.view.got = 0
    BY DEF Moved, IsTab, ViewOK, TabFields, ViewFields
  <2>3. Fetch(f.op, f.arg) \in Wanted(c)
    BY <1>6 DEF Fits, Lists
  <2>4. c.view.ask = 0
    BY <1>6, <2>3 DEF Wanted, Fetch
  <2> QED
    BY <2>1, <2>2, <2>4 DEF Moved
<1>7. CASE /\ f.op \notin {"home", "round", "activeRound", "roundStats", "feed", "profile",
                           "courses", "tournaments", "tournament"}
           /\ ~(f.op = "people" /\ f.arg[1] = 0)
  <2>1. Effect(c, f) = Waits(c, f.op, f.arg)
    BY <1>7 DEF Effect
  <2>2. Fits(c, Fetch(f.op, f.arg))
    OBVIOUS
  <2> QED
    BY <2>1, <2>2, WaitingIsMoved
<1> QED
  BY <1>1, <1>2, <1>3, <1>4, <1>5, <1>6, <1>7

\* A cleanup leaves the page and its requests, or silences those of a list.
Silenced(c, d) ==
    /\ IsTab(d) /\ d.at = c.at /\ d.view = c.view
    /\ \A i \in DOMAIN d.net :
         d.net[i].to = "page" => i \in DOMAIN c.net /\ d.net[i] = c.net[i]

LEMMA SilencedTransitive ==
    ASSUME NEW c, NEW d, NEW e, Silenced(c, d), Silenced(d, e) PROVE Silenced(c, e)
BY DEF Silenced

LEMMA IgnoringSilences ==
    ASSUME NEW c, IsTab(c), NEW op
    PROVE  /\ Silenced(c, Ignored(c, op)) /\ Silenced(c, Gone(c))
           /\ \A i \in DOMAIN Ignored(c, op).net :
                Ignored(c, op).net[i].to = "page" => Ignored(c, op).net[i].op # op
           /\ \A i \in DOMAIN Gone(c).net : Gone(c).net[i].to # "page"
<1> DEFINE d == Ignored(c, op)
           e == Gone(c)
<1>0. IsTab(d) /\ IsTab(e)
  BY IgnoringIsQuiet DEF Quiet, Follows
<1>1. /\ d.net = [i \in DOMAIN c.net |->
                    IF c.net[i].op = op THEN [c.net[i] EXCEPT !.to = "nobody"] ELSE c.net[i]]
      /\ d.at = c.at /\ d.view = c.view
  BY DEF Ignored, IsTab, TabFields
<1>2. /\ e.net = [i \in DOMAIN c.net |->
                    IF c.net[i].to = "page" THEN [c.net[i] EXCEPT !.to = "tab"] ELSE c.net[i]]
      /\ e.at = c.at /\ e.view = c.view
  BY DEF Gone, IsTab, TabFields
<1> HIDE DEF d, e
<1>3. \A i \in DOMAIN c.net : DOMAIN c.net[i] = RequestFields
  BY DEF IsTab, IsNet
<1>4. \A i \in DOMAIN d.net : d.net[i].to = "page" => d.net[i] = c.net[i] /\ c.net[i].op # op
  BY <1>1, <1>3 DEF RequestFields
<1>5. \A i \in DOMAIN e.net : e.net[i].to # "page"
  BY <1>2, <1>3 DEF RequestFields
<1> QED
  BY <1>0, <1>1, <1>2, <1>4, <1>5 DEF Silenced, d, e

LEMMA CleanupSilences ==
    ASSUME NEW c, IsTab(c), NEW f
    PROVE  /\ Silenced(c, Cleanup(c, f))
           /\ f.op \in Lists =>
                \A i \in DOMAIN Cleanup(c, f).net :
                   Cleanup(c, f).net[i].to = "page" => Cleanup(c, f).net[i].op # f.op
<1> DEFINE d == Cleanup(c, f)
<1>0. IsTab(d)
  BY CleanupFollows DEF Follows
<1>1. CASE f.op \in Lists
  <2>1. d = Ignored(c, f.op)
    BY <1>1 DEF Cleanup, Lists
  <2> QED
    BY <2>1, IgnoringSilences
<1>2. CASE f.op \notin Lists
  <2>1. d.at = c.at /\ d.view = c.view /\ d.net = c.net
    BY <1>2 DEF Cleanup, Lists, disconnectHub, clearRound, clearProfile, IsTab, TabFields
  <2> QED
    BY <1>0, <1>2, <2>1 DEF Silenced
<1> QED
  BY <1>1, <1>2

\* An effect that the page has.
FitEffect(c, f) == f = Fetch(f.op, f.arg) /\ Fits(c, f) /\ f.op # "addCourse"

\* The effects of a page are fit for it, and that of a list is its only one.
LEMMA FetchesFit ==
    ASSUME NEW c, ViewOK(c)
    PROVE  /\ \A n \in DOMAIN Fetches(c) : FitEffect(c, Fetches(c)[n])
           /\ \/ Wanted(c) = {}
              \/ \E w : /\ Wanted(c) = {w} /\ Fetches(c) = <<w>> /\ w.op \in Lists
                        /\ w = Fetch(w.op, w.arg)
<1> USE DEF Fetch, Maybe, Lists, FitEffect
<1>1. CASE c.at = "/" /\ c.user # NoOne
  <2>1. Fetches(c) = Landing(c)
    BY <1>1 DEF Fetches
  <2> QED
    BY <1>1, <2>1 DEF Landing, Fits, Wanted
<1>2. CASE c.at = "/rounds"
  <2>1. Fetches(c) = Maybe(Fetch("round", c.arg),
                           c.round.completed, Fetch("roundStats", c.arg))
    BY <1>2 DEF Fetches
  <2> QED
    BY <1>2, <2>1 DEF Fits, Wanted
<1>3. CASE c.at = "/tournament"
  <2>1. Fetches(c) = Maybe(Fetch("tournament", c.arg),
                           c.view.ask # 0, Fetch("courses", <<c.view.ask>>))
    BY <1>3 DEF Fetches
  <2> QED
    BY <1>3, <2>1 DEF Fits, Wanted
<1>4. CASE c.at = "/new-round"
  <2>1. Fetches(c) = Wizard(c)
    BY <1>4 DEF Fetches
  <2>2. CASE c.view.step = "course"
    BY <1>4, <2>1, <2>2 DEF Wizard, Fits, Wanted
  <2>3. CASE c.view.step = "players"
    BY <1>4, <2>1, <2>3 DEF Wizard, Fits, Wanted
  <2>4. CASE c.view.step = "confirm"
    BY <1>4, <2>1, <2>4 DEF Wizard, Fits, Wanted
  <2> QED
    BY <2>2, <2>3, <2>4 DEF ViewOK
<1>5. CASE c.at = "/leaders"
  <2>1. Fetches(c) = <<Fetch("leaderboard", <<c.view.ask, c.view.page>>)>>
    BY <1>5 DEF Fetches
  <2> QED
    BY <1>5, <2>1 DEF Fits, Wanted
<1>6. CASE c.at \in {"/feed", "/profile", "/users", "/courses", "/course", "/tournaments"}
  <2>1. PICK f : /\ Fetches(c) = <<f>>
                 /\ f = Fetch(f.op, f.arg)
                 /\ f.op \in {"feed", "profile", "courses", "tournaments"}
                 /\ f.op = "feed" => c.at = "/feed"
    BY <1>6 DEF Fetches
  <2>2. FitEffect(c, f)
    BY <2>1 DEF Fits
  <2>3. Wanted(c) = {}
    BY <1>6 DEF Wanted
  <2>4. \A n \in DOMAIN Fetches(c) : Fetches(c)[n] = f
    BY <2>1
  <2> QED
    BY <2>2, <2>3, <2>4
<1>7. CASE /\ ~(c.at = "/" /\ c.user # NoOne)
           /\ c.at \notin {"/rounds", "/tournament", "/new-round", "/feed", "/leaders",
                           "/profile", "/users", "/courses", "/course", "/tournaments"}
  <2>1. Fetches(c) = <<>>
    BY <1>7 DEF Fetches
  <2> QED
    BY <1>7, <2>1 DEF Wanted
<1> QED
  BY <1>1, <1>2, <1>3, <1>4, <1>5, <1>6, <1>7

LEMMA EndsSilence ==
    ASSUME NEW c, IsTab(c), NEW fs, NEW n, NEW over
    PROVE  LET d == Ends(c, fs, n, over)
           IN  /\ Silenced(c, d)
               /\ n \in DOMAIN fs /\ fs[n] \in over /\ fs[n].op \in Lists =>
                    \A i \in DOMAIN d.net : d.net[i].to = "page" => d.net[i].op # fs[n].op
<1>1. Silenced(c, c)
  BY DEF Silenced
<1> QED
  BY <1>1, CleanupSilences DEF Ends

LEMMA CleanedSilences ==
    ASSUME NEW c, IsTab(c), NEW fs, NEW over
    PROVE  LET d == Cleaned(c, fs, over)
           IN  /\ Silenced(c, d)
               /\ 1 \in DOMAIN fs /\ fs[1] \in over /\ fs[1].op \in Lists =>
                    \A i \in DOMAIN d.net : d.net[i].to = "page" => d.net[i].op # fs[1].op
<1> DEFINE d1 == Ends(c, fs, 1, over)
           d2 == Ends(d1, fs, 2, over)
<1>1. /\ Silenced(c, d1)
      /\ 1 \in DOMAIN fs /\ fs[1] \in over /\ fs[1].op \in Lists =>
           \A i \in DOMAIN d1.net : d1.net[i].to = "page" => d1.net[i].op # fs[1].op
  BY EndsSilence
<1> HIDE DEF d1
<1>2. Silenced(d1, d2)
  BY <1>1, EndsSilence DEF Silenced
<1>3. Cleaned(c, fs, over) = d2
  BY DEF Cleaned, d1
<1> HIDE DEF d2
<1>4. Silenced(c, d2)
  BY <1>1, <1>2, SilencedTransitive
<1>5. \A i \in DOMAIN d2.net :
        d2.net[i].to = "page" => i \in DOMAIN d1.net /\ d2.net[i] = d1.net[i]
  BY <1>2 DEF Silenced
<1> QED
  BY <1>1, <1>3, <1>4, <1>5

\* The effects that begin: each fits the page, and the list is on its way.
LEMMA RunsMove ==
    ASSUME NEW c, IsTab(c), ViewOK(c), NEW fs, NEW n, NEW new,
           n \in DOMAIN fs => FitEffect(c, fs[n])
    PROVE  LET d == Runs(c, fs, n, new)
           IN  /\ Moved(c, d)
               /\ n \in DOMAIN fs /\ fs[n] \in new /\ fs[n].op \in Lists =>
                    d.view.busy = TRUE \/ d.view.got = d.view.ask
               /\ ~(n \in DOMAIN fs /\ fs[n] \in new) => d = c
<1>1. Moved(c, c)
  BY DEF Moved
<1>2. CASE n \in DOMAIN fs /\ fs[n] \in new
  <2>1. Runs(c, fs, n, new) = Effect(c, fs[n])
    BY <1>2 DEF Runs
  <2> DEFINE f == fs[n]
  <2>2. f = Fetch(f.op, f.arg) /\ Fits(c, f) /\ f.op # "addCourse"
    BY <1>2 DEF FitEffect
  <2> HIDE DEF f
  <2>3. /\ Moved(c, Effect(c, f))
        /\ f.op \in Lists => LET v == Effect(c, f).view
                             IN  v.busy = TRUE \/ v.got = v.ask
    BY <2>2, EffectMoves
  <2> QED
    BY <1>2, <2>1, <2>3 DEF f
<1>3. CASE ~(n \in DOMAIN fs /\ fs[n] \in new)
  BY <1>1, <1>3 DEF Runs
<1> QED
  BY <1>2, <1>3

LEMMA StartedMoves ==
    ASSUME NEW c, IsTab(c), ViewOK(c), NEW fs, NEW new,
           \A n \in DOMAIN fs : FitEffect(c, fs[n])
    PROVE  LET d == Started(c, fs, new)
           IN  /\ Moved(c, d)
               /\ \A w : fs = <<w>> /\ w.op \in Lists =>
                    /\ w \in new => d.view.busy = TRUE \/ d.view.got = d.view.ask
                    /\ w \notin new => d = c
<1> DEFINE d1 == Runs(c, fs, 1, new)
           d2 == Runs(d1, fs, 2, new)
<1>1. /\ Moved(c, d1)
      /\ 1 \in DOMAIN fs /\ fs[1] \in new /\ fs[1].op \in Lists =>
           d1.view.busy = TRUE \/ d1.view.got = d1.view.ask
      /\ ~(1 \in DOMAIN fs /\ fs[1] \in new) => d1 = c
  BY RunsMove
<1> HIDE DEF d1
<1>2. IsTab(d1) /\ ViewOK(d1)
  BY <1>1 DEF Moved, ViewOK
<1>3. \A q : Fits(d1, q) <=> Fits(c, q)
  BY <1>1, MovedWants
<1>4. 2 \in DOMAIN fs => FitEffect(d1, fs[2])
  BY <1>3 DEF FitEffect
<1>5. Moved(d1, d2) /\ (2 \notin DOMAIN fs => d2 = d1)
  BY <1>2, <1>4, RunsMove
<1>6. Started(c, fs, new) = d2
  BY DEF Started, d1
<1> HIDE DEF d2
<1>7. Moved(c, d2)
  BY <1>1, <1>5, MovedTransitive
<1>8. ASSUME NEW w, fs = <<w>>, w.op \in Lists
      PROVE  /\ w \in new => d2.view.busy = TRUE \/ d2.view.got = d2.view.ask
             /\ w \notin new => d2 = c
  <2>1. 1 \in DOMAIN fs /\ fs[1] = w /\ 2 \notin DOMAIN fs
    BY <1>8
  <2> QED
    BY <1>1, <1>5, <1>8, <2>1
<1> QED
  BY <1>6, <1>7, <1>8

\* When a page is rendered again, a list it goes on asking for stays as it is,
\* and one it asks for anew is on its way.
LEMMA RenderLists ==
    ASSUME NEW c0, ViewOK(c0), NEW c1, IsTab(c1), ViewOK(c1),
           \A i \in DOMAIN c1.net : c1.net[i].to = "page" => Fits(c0, c1.net[i]),
           c0.at = c1.at /\ Wanted(c0) = Wanted(c1) => ListShown(c1)
    PROVE  ListsOK(Render(c0, c1))
<1> DEFINE fs0 == Fetches(c0)
           fs1 == Fetches(c1)
           stays == c0.at = c1.at
           over == IF stays THEN Range(fs0) \ Range(fs1) ELSE Range(fs0)
           new == IF stays THEN Range(fs1) \ Range(fs0) ELSE Range(fs1)
           g == IF stays THEN c1 ELSE Gone(c1)
           e == Cleaned(g, fs0, over)
           d == Started(e, fs1, new)
<1>0. Render(c0, c1) = d
  BY DEF Render
<1>1. Silenced(c1, g) /\ (~stays => \A i \in DOMAIN g.net : g.net[i].to # "page")
  BY IgnoringSilences DEF Silenced
<1> HIDE DEF g
<1>2. /\ Silenced(g, e)
      /\ 1 \in DOMAIN fs0 /\ fs0[1] \in over /\ fs0[1].op \in Lists =>
           \A i \in DOMAIN e.net : e.net[i].to = "page" => e.net[i].op # fs0[1].op
  <2>1. IsTab(g)
    BY <1>1 DEF Silenced
  <2> QED
    BY <2>1, CleanedSilences
<1> HIDE DEF e
<1>3. Silenced(c1, e)
  BY <1>1, <1>2, SilencedTransitive
<1>4. IsTab(e) /\ e.at = c1.at /\ e.view = c1.view
  BY <1>3 DEF Silenced
<1>5. ViewOK(e) /\ Wanted(e) = Wanted(c1) /\ \A q : Fits(e, q) <=> Fits(c1, q)
  BY <1>4 DEF ViewOK, Wanted, Fits
<1>6. /\ \A n \in DOMAIN fs1 : FitEffect(e, fs1[n])
      /\ \/ Wanted(c1) = {}
         \/ \E w : /\ Wanted(c1) = {w} /\ fs1 = <<w>> /\ w.op \in Lists
                   /\ w = Fetch(w.op, w.arg)
  BY <1>5, FetchesFit DEF FitEffect
<1>7. /\ Moved(e, d)
      /\ \A w : fs1 = <<w>> /\ w.op \in Lists =>
           /\ w \in new => d.view.busy = TRUE \/ d.view.got = d.view.ask
           /\ w \notin new => d = e
  <2> HIDE DEF fs1, new
  <2> QED
    BY <1>4, <1>5, <1>6, StartedMoves
<1> HIDE DEF d
<1>8. PageRequests(e)
  <2> SUFFICES ASSUME NEW i \in DOMAIN e.net, e.net[i].to = "page" PROVE Fits(e, e.net[i])
    BY DEF PageRequests
  <2> DEFINE q == e.net[i]
  <2>1. i \in DOMAIN g.net /\ g.net[i] = q
    BY <1>2 DEF Silenced
  <2>2. stays /\ i \in DOMAIN c1.net /\ c1.net[i] = q
    BY <1>1, <2>1 DEF Silenced
  <2>3. Fits(c0, q)
    BY <2>2
  <2>4. CASE q.op \notin Lists
    BY <2>2, <2>3, <2>4, <1>5 DEF Fits
  <2>5. CASE q.op \in Lists
    <3>1. Fetch(q.op, q.arg) \in Wanted(c0)
      BY <2>3, <2>5 DEF Fits
    <3>2. PICK w : Wanted(c0) = {w} /\ fs0 = <<w>> /\ w.op \in Lists
      BY <3>1, FetchesFit
    <3>3. w = Fetch(q.op, q.arg) /\ w.op = q.op
      BY <3>1, <3>2 DEF Fetch
    <3>4. 1 \in DOMAIN fs0 /\ fs0[1] = w
      BY <3>2
    <3>5. w \notin over
      BY <1>2, <3>2, <3>3, <3>4
    <3>6. w \in Range(fs0)
      BY <3>4 DEF Range
    <3>7. w \in Range(fs1)
      BY <2>2, <3>5, <3>6
    <3>8. PICK n \in DOMAIN fs1 : fs1[n] = w
      BY <3>7 DEF Range
    <3>9. Fits(e, w)
      BY <1>6, <3>8 DEF FitEffect
    <3>10. w.arg = q.arg
      BY <3>3 DEF Fetch
    <3> QED
      BY <2>5, <3>3, <3>9, <3>10 DEF Fits, Lists
  <2> QED
    BY <2>4, <2>5
<1>9. PageRequests(d) /\ ViewOK(d) /\ Wanted(d) = Wanted(c1)
  BY <1>5, <1>7, <1>8, MovedRequests, MovedWants
<1>10. ListShown(d)
  <2> SUFFICES ASSUME Wanted(c1) # {}
               PROVE  d.view.busy = TRUE \/ d.view.failed = TRUE \/ d.view.got = d.view.ask
    BY <1>9 DEF ListShown
  <2>1. PICK w : Wanted(c1) = {w} /\ fs1 = <<w>> /\ w.op \in Lists
    BY <1>6
  <2>2. CASE w \in new
    BY <1>7, <2>1, <2>2
  <2>3. CASE w \notin new
    <3>1. d = e
      BY <1>7, <2>1, <2>3
    <3>2. w \in Range(fs1)
      <4>1. 1 \in DOMAIN fs1 /\ fs1[1] = w
        BY <2>1
      <4> QED
        BY <4>1 DEF Range
    <3>3. stays /\ w \in Range(fs0)
      BY <2>3, <3>2
    <3>4. PICK n \in DOMAIN fs0 : fs0[n] = w
      BY <3>3 DEF Range
    <3>5. Fits(c0, w) /\ w = Fetch(w.op, w.arg)
      BY <3>4, FetchesFit DEF FitEffect
    <3>6. w \in Wanted(c0)
      BY <2>1, <3>5 DEF Fits
    <3>7. Wanted(c0) = Wanted(c1)
      BY <2>1, <3>6, FetchesFit
    <3>8. ListShown(c1)
      BY <3>3, <3>7
    <3> QED
      BY <1>4, <3>1, <3>8 DEF ListShown
  <2> QED
    BY <2>2, <2>3
<1> QED
  BY <1>0, <1>7, <1>9, <1>10 DEF ListsOK, Moved

LEMMA OpenedIs ==
    ASSUME NEW c, IsTab(c), NEW at, NEW arg
    PROVE  LET d == Opened(c, at, arg)
           IN  IsTab(d) /\ ViewOK(d) /\ d.net = c.net /\ d.at = at
BY DEF Opened, Fresh, ViewOK, ViewFields, IsTab, TabFields

LEMMA DispatchLists ==
    ASSUME NEW c0, ViewOK(c0), NEW c1, IsTab(c1), ViewOK(c1),
           \A i \in DOMAIN c1.net : c1.net[i].to = "page" => Fits(c0, c1.net[i]),
           c0.at = c1.at /\ Wanted(c0) = Wanted(c1) => ListShown(c1)
    PROVE  ListsOK(Dispatch(c0, c1))
<1> DEFINE r == Routed(c1)
<1>1. \/ r = c1
      \/ /\ IsTab(r) /\ ViewOK(r) /\ r.net = c1.net
         /\ r.at \in {"/login", "/"}
  BY OpenedIs DEF Routed
<1> HIDE DEF r
<1>2. r.at \in {"/login", "/"} => Wanted(r) = {}
  BY DEF Wanted
<1>3. c0.at = r.at /\ Wanted(c0) = Wanted(r) => ListShown(r)
  BY <1>1, <1>2 DEF ListShown
<1>4. ListsOK(Render(c0, r))
  BY <1>1, <1>3, RenderLists
<1> QED
  BY <1>4 DEF Dispatch, r

LEMMA ChangeLists ==
    ASSUME NEW c, ListsOK(c), NEW d, SameView(c, d) PROVE ListsOK(Dispatch(c, d))
<1>1. Steady(c, d)
  BY SameViewSteady DEF ListsOK
<1>2. ListsOK(d)
  BY <1>1, SteadyLists
<1>3. \A i \in DOMAIN d.net : d.net[i].to = "page" => Fits(c, d.net[i])
  BY DEF SameView, ListsOK, PageRequests
<1> QED
  BY <1>2, <1>3, DispatchLists DEF ListsOK

LEMMA PushLists ==
    ASSUME NEW c, ListsOK(c), NEW at, NEW arg PROVE ListsOK(Push(c, at, arg))
<1>1. CASE c.at = at
  <2>1. SameView(c, [c EXCEPT !.arg = arg])
    BY DEF SameView, ListsOK, IsTab, TabFields
  <2> QED
    BY <1>1, <2>1, ChangeLists DEF Push
<1>2. CASE c.at # at
  <2> DEFINE d == Opened(c, at, arg)
  <2>1. IsTab(d) /\ ViewOK(d) /\ d.net = c.net /\ d.at = at
    BY OpenedIs DEF ListsOK
  <2> HIDE DEF d
  <2>2. \A i \in DOMAIN d.net : d.net[i].to = "page" => Fits(c, d.net[i])
    BY <2>1 DEF ListsOK, PageRequests
  <2>3. ListsOK(Dispatch(c, d))
    BY <1>2, <2>1, <2>2, DispatchLists DEF ListsOK
  <2> QED
    BY <1>2, <2>3 DEF Push, d
<1> QED
  BY <1>1, <1>2

\* A choice on the page.
LEMMA LocalLists ==
    ASSUME NEW c, ListsOK(c), NEW view, DOMAIN view = ViewFields,
           view.step \in {"course", "players", "confirm"},
           \/ view.ask = c.view.ask /\ view.got = c.view.got /\
              view.busy = c.view.busy /\ view.failed = c.view.failed
           \/ view.ask # c.view.ask
           \/ view.step # c.view.step /\ c.at = "/new-round"
    PROVE  ListsOK(Local(c, view))
<1> DEFINE d == [c EXCEPT !.view = view]
<1>1. IsTab(d) /\ d.at = c.at /\ d.net = c.net /\ d.view = view
  BY DEF ListsOK, IsTab, TabFields
<1> HIDE DEF d
<1>2. ViewOK(d) /\ ViewOK(c)
  BY <1>1 DEF ViewOK, ListsOK
<1>3. \A i \in DOMAIN d.net : d.net[i].to = "page" => Fits(c, d.net[i])
  BY <1>1 DEF ListsOK, PageRequests
<1>4. ASSUME Wanted(c) = Wanted(d), Wanted(d) # {}
      PROVE  d.view.busy = TRUE \/ d.view.failed = TRUE \/ d.view.got = d.view.ask
  <2>1. view.ask = c.view.ask /\ (c.at = "/new-round" => view.step = c.view.step)
    <3>1. CASE c.at = "/leaders"
      <4>1. Fetch("leaderboard", <<c.view.ask, c.view.page>>)
              = Fetch("leaderboard", <<view.ask, view.page>>)
        BY <1>1, <1>4, <3>1 DEF Wanted
      <4>2. <<c.view.ask, c.view.page>> = <<view.ask, view.page>>
        BY <4>1 DEF Fetch
      <4> QED
        BY <3>1, <4>2
    <3>2. CASE c.at = "/new-round"
      <4>1. PICK op1, op2 :
               /\ Wanted(c) = {Fetch(op1, <<c.view.ask>>)}
               /\ Wanted(d) = {Fetch(op2, <<view.ask>>)}
               /\ op1 = (IF c.view.step = "course" THEN "layouts" ELSE "people")
               /\ op2 = (IF view.step = "course" THEN "layouts" ELSE "people")
               /\ c.view.step \in {"course", "players"} /\ view.step \in {"course", "players"}
        BY <1>1, <1>2, <1>4, <3>2 DEF Wanted, ViewOK
      <4>2. Fetch(op1, <<c.view.ask>>) = Fetch(op2, <<view.ask>>)
        BY <1>4, <4>1
      <4>3. op1 = op2 /\ <<c.view.ask>> = <<view.ask>>
        BY <4>2 DEF Fetch
      <4> QED
        BY <4>1, <4>3
    <3> QED
      BY <1>1, <1>4, <3>1, <3>2 DEF Wanted
  <2>2. /\ view.got = c.view.got /\ view.busy = c.view.busy /\ view.failed = c.view.failed
    BY <2>1
  <2>3. ListShown(c)
    BY DEF ListsOK
  <2> QED
    BY <1>1, <1>4, <2>1, <2>2, <2>3 DEF ListShown
<1>5. ListsOK(Dispatch(c, d))
  BY <1>1, <1>2, <1>3, <1>4, DispatchLists DEF ListShown
<1> QED
  BY <1>5 DEF Local, d

LEMMA LoadLists ==
    ASSUME NEW u, NEW at, NEW arg PROVE ListsOK(Load(u, at, arg))
<1> DEFINE s == StartStore(u, at, arg)
           r == Routed(s)
           fs == Fetches(r)
           new == Range(fs)
           d == Started(r, fs, new)
<1>1. IsTab(s) /\ s.net = <<>> /\ ViewOK(s)
  <2>1. DOMAIN s = TabFields /\ s.net = <<>> /\ s.view = Fresh(u)
    BY DEF StartStore, TabFields
  <2>2. IsNet(<<>>)
    BY DEF IsNet, IsSequence
  <2> QED
    BY <2>1, <2>2 DEF IsTab, Fresh, ViewOK, ViewFields
<1> HIDE DEF s
<1>2. IsTab(r) /\ ViewOK(r) /\ r.net = <<>>
  BY <1>1, OpenedIs DEF Routed
<1>3. Load(u, at, arg) = d
  BY DEF Load, s
<1> HIDE DEF r
<1>4. /\ \A n \in DOMAIN fs : FitEffect(r, fs[n])
      /\ \/ Wanted(r) = {}
         \/ \E w : Wanted(r) = {w} /\ fs = <<w>> /\ w.op \in Lists
  BY <1>2, FetchesFit
<1> HIDE DEF fs, new
<1>5. /\ Moved(r, d)
      /\ \A w : fs = <<w>> /\ w.op \in Lists =>
           /\ w \in new => d.view.busy = TRUE \/ d.view.got = d.view.ask
           /\ w \notin new => d = r
  <2>1. IsTab(r) /\ ViewOK(r)
    BY <1>2
  <2>2. \A n \in DOMAIN fs : FitEffect(r, fs[n])
    BY <1>4
  <2> QED
    BY <2>1, <2>2, StartedMoves
<1> HIDE DEF d
<1>6. PageRequests(r)
  BY <1>2 DEF PageRequests
<1>7. PageRequests(d) /\ ViewOK(d) /\ Wanted(d) = Wanted(r)
  BY <1>2, <1>5, <1>6, MovedRequests, MovedWants
<1>8. ListShown(d)
  <2> SUFFICES ASSUME NEW w, Wanted(r) = {w}, fs = <<w>>, w.op \in Lists
               PROVE  d.view.busy = TRUE \/ d.view.got = d.view.ask
    BY <1>4, <1>7 DEF ListShown
  <2>1. w \in new
    <3>1. 1 \in DOMAIN fs /\ fs[1] = w
      OBVIOUS
    <3> QED
      BY <3>1 DEF new, Range
  <2> QED
    BY <1>5, <2>1
<1> QED
  BY <1>3, <1>5, <1>7, <1>8 DEF ListsOK, Moved

\* A page without a list has nothing to go wrong.
LEMMA ListlessLists ==
    ASSUME NEW c, ListsOK(c), c.at \notin {"/leaders", "/new-round"},
           NEW d, IsTab(d), ViewOK(d), d.at = c.at, d.net = c.net
    PROVE  ListsOK(d)
<1>1. Wanted(c) = {} /\ Wanted(d) = {}
  BY DEF Wanted
<1>2. \A q : Fits(c, q) <=> Fits(d, q)
  BY <1>1 DEF Fits
<1> QED
  BY <1>1, <1>2 DEF ListsOK, ListShown, PageRequests

LEMMA SteadyDispatch ==
    ASSUME NEW c, ListsOK(c), NEW d, Steady(c, d) PROVE ListsOK(Dispatch(c, d))
<1>1. ListsOK(d) /\ \A q : Fits(d, q) <=> Fits(c, q)
  BY SteadyLists, MovedWants DEF Steady
<1>2. \A i \in DOMAIN d.net : d.net[i].to = "page" => Fits(c, d.net[i])
  BY <1>1 DEF ListsOK, PageRequests
<1> QED
  BY <1>1, <1>2, DispatchLists DEF ListsOK

-----------------------------------------------------------------------------
(* The lists: answers.                                                       *)

LEMMA SameViewLists ==
    ASSUME NEW c, ListsOK(c), NEW d, SameView(c, d) PROVE ListsOK(d)
BY SameViewSteady, SteadyLists DEF ListsOK

LEMMA HomewardsLists ==
    ASSUME NEW c, ListsOK(c), NEW q PROVE ListsOK(Homewards(c, q))
BY PushLists DEF Homewards

LEMMA LoggedInLists ==
    ASSUME NEW c, ListsOK(c), NEW u PROVE ListsOK(LoggedIn(c, u))
<1> DEFINE a == [c EXCEPT !.saved = u, !.user = u]
           b == fetchUserDetails(a, <<"home">>)
<1>1. SameView(c, a)
  BY DEF SameView, ListsOK, IsTab, TabFields
<1> HIDE DEF a
<1>2. Steady(c, a) /\ IsTab(a)
  BY <1>1, SameViewSteady DEF ListsOK, Steady, Moved
<1>3. Steady(a, b)
  BY <1>2, PlainIsSteady DEF fetchUserDetails, Plain, Lists
<1>4. Steady(c, b)
  BY <1>2, <1>3, SteadyTransitive
<1> HIDE DEF b
<1>5. ListsOK(Dispatch(c, b))
  BY <1>4, SteadyDispatch
<1> QED
  BY <1>5 DEF LoggedIn, a, b

\* The answer for a list is the one to the last choice.
LEMMA ShownLists ==
    ASSUME NEW c, ListsOK(c), NEW q, Fits(c, q), q.op \in Lists
    PROVE  ListsOK(Shown(c, q))
<1> DEFINE d == Shown(c, q)
<1>1. Fetch(q.op, q.arg) \in Wanted(c)
  BY DEF Fits
<1>2. q.arg[1] = c.view.ask
  <2>1. CASE c.at = "/leaders"
    <3>1. Fetch(q.op, q.arg) = Fetch("leaderboard", <<c.view.ask, c.view.page>>)
      BY <1>1, <2>1 DEF Wanted
    <3>2. q.arg = <<c.view.ask, c.view.page>>
      BY <3>1 DEF Fetch
    <3> QED
      BY <3>2
  <2>2. CASE c.at # "/leaders"
    <3>1. PICK op : Fetch(q.op, q.arg) = Fetch(op, <<c.view.ask>>)
      BY <1>1, <2>2 DEF Wanted
    <3>2. q.arg = <<c.view.ask>>
      BY <3>1 DEF Fetch
    <3> QED
      BY <3>2
  <2> QED
    BY <2>1, <2>2
<1>3. /\ IsTab(d) /\ d.at = c.at /\ d.net = c.net /\ DOMAIN d.view = DOMAIN c.view
      /\ d.view.ask = c.view.ask /\ d.view.page = c.view.page /\ d.view.step = c.view.step
      /\ d.view.got = q.arg[1]
  BY DEF Shown, ListsOK, IsTab, ViewOK, TabFields, ViewFields
<1> HIDE DEF d
<1>4. Moved(c, d)
  BY <1>3 DEF Moved
<1>5. PageRequests(d) /\ ViewOK(d)
  BY <1>4, MovedRequests DEF ListsOK
<1>6. ListsOK(d)
  BY <1>2, <1>3, <1>5 DEF ListsOK, ListShown
<1> QED
  BY <1>6 DEF d

LEMMA FailedListLists ==
    ASSUME NEW c, ListsOK(c)
    PROVE  ListsOK([c EXCEPT !.view.busy = FALSE, !.view.failed = TRUE])
<1> DEFINE d == [c EXCEPT !.view.busy = FALSE, !.view.failed = TRUE]
<1>1. Moved(c, d) /\ d.view.failed = TRUE
  BY DEF Moved, ListsOK, IsTab, ViewOK, TabFields, ViewFields
<1> HIDE DEF d
<1>2. PageRequests(d) /\ ViewOK(d)
  BY <1>1, MovedRequests DEF ListsOK
<1>3. ListsOK(d)
  BY <1>1, <1>2 DEF ListsOK, ListShown, Moved
<1> QED
  BY <1>3 DEF d

LEMMA LikedLists ==
    ASSUME NEW c, ListsOK(c), NEW id, NEW u
    PROVE  Steady(c, Liked(c, id, u)) /\ ListsOK(Liked(c, id, u))
<1>1. Steady(c, Liked(c, id, u))
  BY DEF Liked, Steady, Moved, ListsOK, IsTab, ViewOK, TabFields, ViewFields
<1> QED
  BY <1>1, SteadyLists

LEMMA LeavingRoundLists ==
    ASSUME NEW c, ListsOK(c), NEW d, SameView(c, d)
    PROVE  ListsOK(Push(Dispatch(c, d), "/", <<>>))
BY ChangeLists, PushLists

LEMMA ActiveRoundLists ==
    ASSUME NEW c, ListsOK(c), NEW d, SameView(c, d), NEW id
    PROVE  ListsOK(fetchPaceData(Dispatch(c, d), id))
<1> DEFINE e == Dispatch(c, d)
<1>1. ListsOK(e)
  BY ChangeLists
<1> HIDE DEF e
<1>2. Steady(e, fetchPaceData(e, id))
  BY <1>1, PlainIsSteady DEF fetchPaceData, ListsOK, Plain, Lists
<1>3. ListsOK(fetchPaceData(e, id))
  BY <1>1, <1>2, SteadyLists
<1> QED
  BY <1>3 DEF e

\* A course was added, and the page that asked for it forgets the choice.
LEMMA CourseAddedLists ==
    ASSUME NEW c, ListsOK(c), NEW q, q.to = "page" => Fits(c, q), q.op = "addCourse"
    PROVE  ListsOK(CourseAdded(IF q.to = "page" THEN [c EXCEPT !.view.ask = 0] ELSE c, q.arg[2]))
<1> DEFINE e == IF q.to = "page" THEN [c EXCEPT !.view.ask = 0] ELSE c
<1>1. ListsOK(e)
  <2>1. CASE q.to = "page"
    <3>1. c.at = "/tournament"
      BY <2>1 DEF Fits
    <3> DEFINE d == [c EXCEPT !.view.ask = 0]
    <3>2. IsTab(d) /\ ViewOK(d) /\ d.at = c.at /\ d.net = c.net
      BY DEF ListsOK, IsTab, ViewOK, TabFields, ViewFields
    <3> HIDE DEF d
    <3>3. ListsOK(d)
      BY <3>1, <3>2, ListlessLists
    <3> QED
      BY <2>1, <3>3 DEF d
  <2> QED
    BY <2>1
<1> HIDE DEF e
<1>2. SameView(e, CourseAdded(e, q.arg[2]))
  BY <1>1 DEF CourseAdded, HasCup, SameView, ListsOK, IsTab, TabFields
<1>3. ListsOK(CourseAdded(e, q.arg[2]))
  BY <1>1, <1>2, SameViewLists
<1> QED
  BY <1>3 DEF e

\* What succeeds keeps the lists: what is for the page fits the page.
LEMMA SucceededLists ==
    ASSUME NEW c, ListsOK(c), NEW q, q.to = "page" => Fits(c, q)
    PROVE  ListsOK(Succeeded(c, q))
<1> DEFINE d == Succeeded(c, q)
<1> USE DEF OnPage, Lists
<1>1. CASE q.op = "details"
  <2> DEFINE e == [c EXCEPT !.details = q.data]
  <2>1. d = Homewards(Dispatch(c, e), q)
    BY <1>1 DEF Succeeded
  <2>2. SameView(c, e)
    BY DEF SameView, ListsOK, IsTab, TabFields
  <2> HIDE DEF e
  <2> QED
    BY <2>1, <2>2, ChangeLists, HomewardsLists
<1>2. CASE q.op \in {"recent", "pace", "courseStats", "roundStats", "courses", "tournaments"}
  <2>1. SameView(c, d)
    BY <1>2 DEF Succeeded, SameView, Done, ListsOK, IsTab, TabFields
  <2> QED
    BY <2>1, SameViewLists
<1>3. CASE q.op \in {"tournament", "join", "calculatePrices", "profile", "achievements", "rounds"}
  <2>1. SameView(c, d)
    BY <1>3 DEF Succeeded, SameView, Done, ListsOK, IsTab, TabFields
  <2> QED
    BY <2>1, SameViewLists
<1>4. CASE q.op = "round"
  <2> DEFINE e == Done([c EXCEPT !.round = q.data], "round")
  <2>1. d = Dispatch(c, e)
    BY <1>4 DEF Succeeded
  <2>2. SameView(c, e)
    BY DEF SameView, Done, ListsOK, IsTab, TabFields
  <2> HIDE DEF e
  <2> QED
    BY <2>1, <2>2, ChangeLists
<1>5. CASE q.op \in {"activeRound", "score"}
  <2> DEFINE e == [c EXCEPT !.round = q.data]
  <2>1. d = IF q.op = "score" THEN Dispatch(c, e)
            ELSE IF q.data.completed THEN c ELSE fetchPaceData(Dispatch(c, e), q.arg[1])
    BY <1>5 DEF Succeeded
  <2>2. SameView(c, e)
    BY DEF SameView, ListsOK, IsTab, TabFields
  <2> HIDE DEF e
  <2>3. ListsOK(Dispatch(c, e)) /\ ListsOK(fetchPaceData(Dispatch(c, e), q.arg[1]))
    BY <2>2, ChangeLists, ActiveRoundLists
  <2> QED
    BY <2>1, <2>3
<1>6. CASE q.op = "complete"
  <2> DEFINE e == [c EXCEPT !.round.completed = TRUE]
  <2>1. d = IF c.round = NoRound THEN c ELSE Dispatch(c, e)
    BY <1>6 DEF Succeeded
  <2>2. SameView(c, e)
    BY DEF SameView, ListsOK, IsTab, TabFields
  <2> HIDE DEF e
  <2> QED
    BY <2>1, <2>2, ChangeLists
<1>7. CASE q.op \in {"delete", "leave"}
  <2> DEFINE a == clearActiveRound([c EXCEPT !.round = NoRound])
             b == [c EXCEPT !.round = NoRound]
  <2>1. d = Push(Dispatch(c, IF q.op = "delete" THEN a ELSE b), "/", <<>>)
    BY <1>7 DEF Succeeded
  <2>2. SameView(c, a) /\ SameView(c, b)
    BY DEF clearActiveRound, SameView, ListsOK, IsTab, TabFields
  <2> HIDE DEF a, b
  <2> QED
    BY <1>7, <2>1, <2>2, LeavingRoundLists
<1>8. CASE q.op \in {"createRound", "createTournament"}
  <2>1. d = Push(c, IF q.op = "createRound" THEN "/rounds" ELSE "/tournament", <<q.data>>)
    BY <1>8 DEF Succeeded
  <2> QED
    BY <2>1, PushLists
<1>9. CASE q.op = "createCourse"
  <2> DEFINE e == [c EXCEPT !.courses = @ \cup {q.data}]
  <2>1. d = Push(e, "/course", q.arg)
    BY <1>9 DEF Succeeded
  <2>2. SameView(c, e)
    BY DEF SameView, ListsOK, IsTab, TabFields
  <2> HIDE DEF e
  <2> QED
    BY <2>1, <2>2, SameViewLists, PushLists
<1>10. CASE q.op = "addCourse"
  <2>1. d = CourseAdded(IF q.to = "page" THEN [c EXCEPT !.view.ask = 0] ELSE c, q.arg[2])
    BY <1>10 DEF Succeeded
  <2> QED
    BY <1>10, <2>1, CourseAddedLists
<1>11. CASE q.op \in {"login", "register"}
  <2>1. d = LoggedIn(c, q.arg[1])
    BY <1>11 DEF Succeeded
  <2> QED
    BY <2>1, LoggedInLists
<1>12. CASE q.to = "page" /\ q.op = "feed"
  <2> DEFINE e == PageShown(c, q)
  <2>1. d = e
    BY <1>12 DEF Succeeded
  <2>2. c.at = "/feed"
    BY <1>12 DEF Fits
  <2>3. IsTab(e) /\ ViewOK(e) /\ e.at = c.at /\ e.net = c.net
    BY DEF PageShown, ListsOK, IsTab, ViewOK, TabFields, ViewFields
  <2> HIDE DEF e
  <2> QED
    BY <2>1, <2>2, <2>3, ListlessLists
<1>13. CASE q.to = "page" /\ q.op \in Lists
  <2>1. d = Shown(c, q)
    BY <1>13 DEF Succeeded
  <2> QED
    BY <1>13, <2>1, ShownLists
<1>14. CASE /\ q.op \notin {"login", "register", "details", "recent", "pace", "courseStats",
                            "roundStats", "courses", "tournaments", "tournament", "join",
                            "calculatePrices", "profile", "achievements", "rounds", "round",
                            "activeRound", "score", "complete", "delete", "leave", "createRound",
                            "createTournament", "createCourse", "addCourse"}
            /\ ~(q.to = "page" /\ q.op \in Lists \cup {"feed"})
  <2>1. d = c
    BY <1>14 DEF Succeeded
  <2> QED
    BY <2>1
<1> QED
  BY <1>1, <1>2, <1>3, <1>4, <1>5, <1>6, <1>7, <1>8, <1>9, <1>10, <1>11, <1>12, <1>13, <1>14

LEMMA FailedLists ==
    ASSUME NEW c, ListsOK(c), NEW q, q.to = "page" => Fits(c, q)
    PROVE  ListsOK(Failed(c, q))
<1> DEFINE d == Failed(c, q)
<1> USE DEF OnPage, Lists
<1>1. CASE q.op \in {"login", "register"}
  <2> DEFINE e == [c EXCEPT !.loginError = TRUE]
  <2>1. \E p : d = Homewards(e, p)
    BY <1>1 DEF Failed
  <2>2. SameView(c, e)
    BY DEF SameView, ListsOK, IsTab, TabFields
  <2> HIDE DEF e
  <2> QED
    BY <2>1, <2>2, SameViewLists, HomewardsLists
<1>2. CASE q.op = "details"
  <2>1. d = Homewards(c, q)
    BY <1>2 DEF Failed
  <2> QED
    BY <2>1, HomewardsLists
<1>3. CASE q.op \in {"round", "courses", "profile", "tournaments", "tournament", "achievements"}
  <2>1. SameView(c, d)
    BY <1>3 DEF Failed, Failing, Done, SameView, ListsOK, IsTab, TabFields
  <2> QED
    BY <2>1, SameViewLists
<1>4. CASE q.to = "page" /\ q.op = "feed"
  <2> DEFINE e == [c EXCEPT !.view.busy = FALSE, !.view.failed = TRUE,
                            !.view.loaded = @ \ {q.arg[1]}]
  <2>1. d = e
    BY <1>4 DEF Failed
  <2>2. c.at = "/feed"
    BY <1>4 DEF Fits
  <2>3. IsTab(e) /\ ViewOK(e) /\ e.at = c.at /\ e.net = c.net
    BY DEF ListsOK, IsTab, ViewOK, TabFields, ViewFields
  <2> HIDE DEF e
  <2> QED
    BY <2>1, <2>2, <2>3, ListlessLists
<1>5. CASE q.to = "page" /\ q.op = "like"
  <2>1. d = Liked(c, q.arg[1], q.arg[2])
    BY <1>5 DEF Failed
  <2> QED
    BY <2>1, LikedLists
<1>6. CASE q.to = "page" /\ q.op \in Lists
  <2>1. d = [c EXCEPT !.view.busy = FALSE, !.view.failed = TRUE]
    BY <1>6 DEF Failed
  <2> QED
    BY <2>1, FailedListLists
<1>7. CASE q.to = "page" /\ q.op \in {"createRound", "createCourse", "createTournament"}
  <2> DEFINE e == [c EXCEPT !.view.starting = FALSE]
  <2>1. d = e
    BY <1>7 DEF Failed
  <2>2. Steady(c, e)
    BY DEF Steady, Moved, ListsOK, IsTab, ViewOK, TabFields, ViewFields
  <2> HIDE DEF e
  <2> QED
    BY <2>1, <2>2, SteadyLists
<1>8. CASE /\ q.op \notin {"login", "register", "details", "round", "courses", "profile",
                           "tournaments", "tournament", "achievements"}
           /\ ~(q.to = "page" /\ q.op \in Lists \cup {"feed", "like", "createRound",
                                                      "createCourse", "createTournament"})
  <2>1. d = c
    BY <1>8 DEF Failed
  <2> QED
    BY <2>1
<1> QED
  BY <1>1, <1>2, <1>3, <1>4, <1>5, <1>6, <1>7, <1>8

-----------------------------------------------------------------------------
(* The lists: steps.                                                         *)

ListInv == ListsOK(app)

\* The page stays, and the requests it waits for fit it.
LEMMA SamePageLists ==
    ASSUME NEW c, ListsOK(c), NEW d, IsTab(d), d.at = c.at, d.view = c.view,
           \A j \in DOMAIN d.net : d.net[j].to = "page" => Fits(c, d.net[j])
    PROVE  ListsOK(d)
<1>1. Steady(c, d)
  BY DEF Steady, Moved
<1> QED
  BY <1>1, SteadyLists

\* A request as the server or the network leaves it.
LEMMA RequestLists ==
    ASSUME NEW c, ListsOK(c), NEW i \in DOMAIN c.net, NEW r, DOMAIN r = RequestFields,
           r.op = c.net[i].op, r.to = c.net[i].to, r.arg = c.net[i].arg
    PROVE  ListsOK([c EXCEPT !.net[i] = r])
<1> DEFINE d == [c EXCEPT !.net[i] = r]
<1>1. IsTab(d)
  BY RequestChanges DEF ListsOK, Quiet, Follows
<1>2. d.net = [c.net EXCEPT ![i] = r] /\ d.at = c.at /\ d.view = c.view
  BY DEF ListsOK, IsTab, TabFields
<1> HIDE DEF d
<1>3. \A j \in DOMAIN d.net : d.net[j].to = "page" => Fits(c, d.net[j])
  <2> SUFFICES ASSUME NEW j \in DOMAIN d.net, d.net[j].to = "page" PROVE Fits(c, d.net[j])
    OBVIOUS
  <2>1. j \in DOMAIN c.net
    BY <1>2
  <2>2. CASE j = i
    <3>1. d.net[j] = r
      BY <1>2, <2>2
    <3>2. Fits(c, c.net[i])
      BY <3>1 DEF ListsOK, PageRequests
    <3> QED
      BY <3>1, <3>2 DEF Fits
  <2>3. CASE j # i
    <3>1. d.net[j] = c.net[j]
      BY <1>2, <2>1, <2>3
    <3> QED
      BY <2>1, <3>1 DEF ListsOK, PageRequests
  <2> QED
    BY <2>2, <2>3
<1>4. ListsOK(d)
  BY <1>1, <1>2, <1>3, SamePageLists
<1> QED
  BY <1>4 DEF d

\* An answer that is taken from the network.
LEMMA TakingLists ==
    ASSUME NEW c, ListsOK(c), NEW i \in DOMAIN c.net
    PROVE  ListsOK([c EXCEPT !.net = RemoveAt(@, i)])
<1> DEFINE d == [c EXCEPT !.net = RemoveAt(@, i)]
<1>1. /\ DOMAIN d = TabFields /\ d.net = RemoveAt(c.net, i)
      /\ d.at = c.at /\ d.view = c.view
  BY DEF ListsOK, IsTab, TabFields
<1> HIDE DEF d
<1>2. IsSequence(c.net) /\ DOMAIN c.net = 1..Len(c.net) /\ Len(c.net) \in Nat
  BY DEF ListsOK, IsTab, IsNet, IsSequence
<1>3. /\ IsSequence(d.net) /\ DOMAIN d.net = 1..(Len(c.net) - 1)
      /\ \A j \in 1..(Len(c.net) - 1) : d.net[j] = IF j < i THEN c.net[j] ELSE c.net[j + 1]
  BY <1>1, <1>2, RemoveFromSequence
<1> DEFINE Was(j) == IF j < i THEN j ELSE j + 1
<1>4. \A j \in DOMAIN d.net : Was(j) \in DOMAIN c.net /\ d.net[j] = c.net[Was(j)]
  BY <1>2, <1>3
<1> HIDE DEF Was
<1>5. \A j \in DOMAIN d.net : \E k \in DOMAIN c.net : d.net[j] = c.net[k]
  BY <1>4
<1>6. IsTab(d)
  BY <1>1, <1>3, <1>5 DEF ListsOK, IsTab, IsNet
<1>7. \A j \in DOMAIN d.net : d.net[j].to = "page" => Fits(c, d.net[j])
  BY <1>5 DEF ListsOK, PageRequests
<1>8. ListsOK(d)
  BY <1>1, <1>6, <1>7, SamePageLists
<1> QED
  BY <1>8 DEF d

\* A tab that is loaded over what is left of another one.
LEMMA LoadOverLists ==
    ASSUME NEW u, NEW at, NEW arg, NEW n, IsNet(n), \A i \in DOMAIN n : n[i].to = "nobody"
    PROVE  /\ ListsOK([Load(u, at, arg) EXCEPT !.net = n])
           /\ ListsOK([Load(u, at, arg) EXCEPT !.net = n \o @])
<1> DEFINE l == Load(u, at, arg)
           d == [l EXCEPT !.net = n]
           e == [l EXCEPT !.net = n \o @]
<1>1. ListsOK(l)
  BY LoadLists
<1> HIDE DEF l
<1>2. /\ DOMAIN d = TabFields /\ d.net = n /\ d.at = l.at /\ d.view = l.view
      /\ DOMAIN e = TabFields /\ e.net = n \o l.net /\ e.at = l.at /\ e.view = l.view
  BY <1>1 DEF ListsOK, IsTab, TabFields
<1> HIDE DEF d, e
<1>3. IsNet(l.net)
  BY <1>1 DEF ListsOK, IsTab
<1>4. /\ IsNet(n \o l.net)
      /\ \A i \in DOMAIN (n \o l.net) :
            \/ i \in DOMAIN n /\ (n \o l.net)[i] = n[i]
            \/ \E j \in DOMAIN l.net : (n \o l.net)[i] = l.net[j]
  BY <1>3, ConcatNets
<1>5. /\ IsNet(e.net)
      /\ \A i \in DOMAIN e.net : \/ \E j \in DOMAIN n : e.net[i] = n[j]
                                 \/ \E j \in DOMAIN l.net : e.net[i] = l.net[j]
  BY <1>2, <1>4
<1>6. \A i \in DOMAIN e.net : e.net[i].to = "page" => Fits(l, e.net[i])
  BY <1>1, <1>5 DEF ListsOK, PageRequests
<1>7. ListsOK(d) /\ ListsOK(e)
  BY <1>1, <1>2, <1>5, <1>6, SamePageLists DEF IsTab
<1> QED
  BY <1>7 DEF d, e, l

LEMMA NetworkLists ==
    ASSUME ListInv, Network PROVE ListInv'
<1>0. ListsOK(app)
  BY DEF ListInv
<1>1. PICK i \in DOMAIN app.net : Serve(i) \/ Answer(i) \/ \E phase \in {"error", "denied", "lost"} : Fail(i, phase)
  BY DEF Network
<1> DEFINE q == app.net[i]
<1>2. DOMAIN q = RequestFields
  BY <1>0 DEF ListsOK, IsTab, IsNet
<1>3. ASSUME NEW phase PROVE ListsOK([app EXCEPT !.net[i].phase = phase])
  <2> DEFINE r == [q EXCEPT !.phase = phase]
  <2>1. DOMAIN r = RequestFields /\ r.op = q.op /\ r.to = q.to /\ r.arg = q.arg
    BY <1>2 DEF RequestFields
  <2> HIDE DEF r
  <2>2. ListsOK([app EXCEPT !.net[i] = r])
    BY <1>0, <2>1, RequestLists
  <2> QED
    BY <2>2 DEF r
<1>4. ASSUME NEW data PROVE ListsOK([app EXCEPT !.net[i].phase = "ok", !.net[i].data = data])
  <2> DEFINE r == [q EXCEPT !.phase = "ok", !.data = data]
  <2>1. DOMAIN r = RequestFields /\ r.op = q.op /\ r.to = q.to /\ r.arg = q.arg
    BY <1>2 DEF RequestFields
  <2>2. [app EXCEPT !.net[i].phase = "ok", !.net[i].data = data] = [app EXCEPT !.net[i] = r]
    BY <1>0 DEF ListsOK, IsTab, TabFields
  <2> HIDE DEF r
  <2>3. ListsOK([app EXCEPT !.net[i] = r])
    BY <1>0, <2>1, RequestLists
  <2> QED
    BY <2>2, <2>3
<1>5. CASE Serve(i)
  <2>1. CASE \E phase : app' = [app EXCEPT !.net[i].phase = phase]
    BY <1>3, <2>1 DEF ListInv
  <2>2. CASE \E data : app' = ToldOf([app EXCEPT !.net[i].phase = "ok", !.net[i].data = data], db, q)
    <3>1. PICK data : app' = ToldOf([app EXCEPT !.net[i].phase = "ok", !.net[i].data = data], db, q)
      BY <2>2
    <3> DEFINE a == [app EXCEPT !.net[i].phase = "ok", !.net[i].data = data]
    <3>2. ListsOK(a)
      BY <1>4
    <3> HIDE DEF a
    <3>3. SameView(a, ToldOf(a, db, q))
      BY <3>2 DEF ToldOf, Told, SameView, ListsOK, IsTab, TabFields
    <3>4. ListsOK(ToldOf(a, db, q))
      BY <3>2, <3>3, SameViewLists
    <3> QED
      BY <3>1, <3>4 DEF ListInv, a
  <2> QED
    BY <1>5, <2>1, <2>2 DEF Serve
<1>6. CASE \E phase \in {"error", "denied", "lost"} : Fail(i, phase)
  <2>1. \E phase : app' = [app EXCEPT !.net[i].phase = phase]
    BY <1>6 DEF Fail
  <2> QED
    BY <1>3, <2>1 DEF ListInv
<1>7. CASE Answer(i)
  <2> DEFINE c == [app EXCEPT !.net = RemoveAt(@, i)]
  <2>1. ListsOK(c)
    BY <1>0, TakingLists
  <2>2. app' = IF q.to = "nobody" THEN c
               ELSE IF q.phase = "ok" THEN Succeeded(c, q)
               ELSE IF q.phase = "denied" /\ q.to # "nobody"
                    THEN [Unauthorized EXCEPT !.net = Left(c)] ELSE Failed(c, q)
    BY <1>7 DEF Answer
  <2>3. c.at = app.at /\ c.view = app.view
    BY <1>0 DEF ListsOK, IsTab, TabFields
  <2> HIDE DEF c
  <2>4. q.to = "page" => Fits(c, q)
    <3>1. \A p : Fits(app, p) <=> Fits(c, p)
      BY <2>3 DEF Fits, Wanted
    <3> QED
      BY <1>0, <3>1 DEF ListsOK, PageRequests
  <2>5. ListsOK(Succeeded(c, q)) /\ ListsOK(Failed(c, q))
    BY <2>1, <2>4, SucceededLists, FailedLists
  <2>6. ListsOK([Unauthorized EXCEPT !.net = Left(c)])
    <3>1. IsNet(Left(c)) /\ \A j \in DOMAIN Left(c) : Left(c)[j].to = "nobody"
      BY <2>1, LeftIsForNobody DEF ListsOK
    <3> QED
      BY <3>1, LoadOverLists DEF Unauthorized
  <2> QED
    BY <2>1, <2>2, <2>5, <2>6 DEF ListInv
<1> QED
  BY <1>1, <1>5, <1>6, <1>7

LEMMA WorldLists ==
    ASSUME ListInv, Hear \/ LosePush \/ (\E v \in Users : Others(v)) \/ OtherTab PROVE ListInv'
<1>0. ListsOK(app) /\ IsTab(app)
  BY DEF ListInv, ListsOK
<1>1. CASE Hear
  <2> DEFINE c == [app EXCEPT !.inbox = Tail(@)]
  <2>1. PICK d : /\ app' = Dispatch(c, d)
                 /\ \E m : d = IF m.kind = "deleted" THEN onRoundDeleted(c, m.round.id)
                               ELSE onRoundUpdated(c, m.round)
    BY <1>1 DEF Hear
  <2>2. SameView(app, c)
    BY <1>0 DEF SameView, IsTab, TabFields
  <2> HIDE DEF c
  <2>3. ListsOK(c)
    BY <1>0, <2>2, SameViewLists
  <2>4. SameView(c, d)
    BY <2>1, <2>3 DEF SameView, onRoundDeleted, onRoundUpdated, ListsOK, IsTab, TabFields
  <2> QED
    BY <2>1, <2>3, <2>4, ChangeLists DEF ListInv
<1>2. CASE LosePush
  <2>1. SameView(app, app')
    BY <1>0, <1>2 DEF LosePush, SameView, IsTab, TabFields
  <2> QED
    BY <1>0, <2>1, SameViewLists DEF ListInv
<1>3. CASE \E v \in Users : Others(v)
  <2>1. \/ \E by, kind, r : app' = Told(app, by, kind, r)
        \/ \E d, q : app' = ToldOf(app, d, q)
    BY <1>3 DEF Others
  <2>2. SameView(app, app')
    BY <1>0, <2>1 DEF ToldOf, Told, SameView, IsTab, TabFields
  <2> QED
    BY <1>0, <2>2, SameViewLists DEF ListInv
<1>4. CASE OtherTab
  <2>1. PICK u : app' = [app EXCEPT !.saved = u]
    BY <1>4 DEF OtherTab, Does
  <2>2. SameView(app, app')
    BY <1>0, <2>1 DEF SameView, IsTab, TabFields
  <2> QED
    BY <1>0, <2>2, SameViewLists DEF ListInv
<1> QED
  BY <1>1, <1>2, <1>3, <1>4

\* Requests of the person, on pages and of kinds that fit.
LEMMA AskLists ==
    ASSUME ListInv, NEW op, Plain(op), NEW arg
    PROVE  /\ \A what : Does(Asks(app, op, arg), what) => ListInv'
           /\ Acts(Asks(app, op, arg)) => ListInv'
           /\ Acts(Starts(app, op, arg)) => ListInv'
<1>1. ListsOK(app) /\ IsTab(app) /\ ViewOK(app)
  BY DEF ListInv, ListsOK
<1>2. ListsOK(Asks(app, op, arg)) /\ ListsOK(Starts(app, op, arg))
  BY <1>1, PlainIsSteady, StartingIsSteady, SteadyLists
<1> QED
  BY <1>2 DEF Acts, Does, ListInv

LEMMA GoLists ==
    ASSUME ListInv, NEW at, NEW arg, Go(at, arg) PROVE ListInv'
BY PushLists DEF ListInv, Go, Acts, Does

LEMMA ChooseLists ==
    ASSUME ListInv, NEW ask, Choose(ask) PROVE ListInv'
<1> DEFINE view == [app.view EXCEPT !.ask = ask]
<1>1. ListsOK(app) /\ app' = Local(app, view)
  BY DEF ListInv, Choose, Acts, Does
<1>2. /\ DOMAIN view = ViewFields /\ view.step = app.view.step /\ view.ask = ask
      /\ view.got = app.view.got /\ view.busy = app.view.busy /\ view.failed = app.view.failed
      /\ app.view.step \in {"course", "players", "confirm"}
  BY <1>1 DEF ListsOK, ViewOK, ViewFields
<1> HIDE DEF view
<1>3. ListsOK(Local(app, view))
  BY <1>1, <1>2, LocalLists
<1> QED
  BY <1>1, <1>3 DEF ListInv

\* A change of the page that is about no list, or about which page of it.
LEMMA TurnLists ==
    ASSUME ListInv, NEW view, DOMAIN view = ViewFields, view.step = app.view.step,
           view.ask = app.view.ask, view.got = app.view.got, view.busy = app.view.busy,
           view.failed = app.view.failed
    PROVE  ListsOK(Local(app, view))
BY LocalLists DEF ListInv, ListsOK, ViewOK

LEMMA StepLists ==
    ASSUME ListInv, NEW step \in {"course", "players", "confirm"}, step # app.view.step,
           app.at = "/new-round", Acts(Step(step))
    PROVE  ListInv'
<1> DEFINE view == [app.view EXCEPT !.step = step, !.ask = 0, !.got = -1, !.busy = FALSE, !.failed = FALSE]
<1>1. ListsOK(app) /\ app' = Local(app, view)
  BY DEF ListInv, Step, Acts, Does
<1>2. DOMAIN view = ViewFields /\ view.step = step
  BY <1>1 DEF ListsOK, ViewOK, ViewFields
<1> HIDE DEF view
<1>3. ListsOK(Local(app, view))
  BY <1>1, <1>2, LocalLists
<1> QED
  BY <1>1, <1>3 DEF ListInv

LEMMA FeedLists ==
    ASSUME ListInv, FeedPage \/ LoadMore \/ RetryFeed PROVE ListInv'
<1>0. ListsOK(app) /\ IsTab(app) /\ ViewOK(app)
  BY DEF ListInv, ListsOK
<1>1. CASE FeedPage
  <2>1. CASE \E i \in DOMAIN app.view.items : Acts(handleLike(app, app.view.items[i].id))
    <3>1. PICK id : app' = handleLike(app, id)
      BY <2>1 DEF Acts, Does
    <3> DEFINE l == Liked(app, id, app.user)
    <3>2. ListsOK(l)
      BY <1>0, LikedLists
    <3> HIDE DEF l
    <3>3. Steady(l, Asks(l, "like", <<id, app.user>>))
      BY <3>2, PlainIsSteady DEF ListsOK, Plain, Lists
    <3>4. ListsOK(Asks(l, "like", <<id, app.user>>))
      BY <3>2, <3>3, SteadyLists
    <3> QED
      BY <3>1, <3>4 DEF handleLike, l, ListInv
  <2>2. CASE \E id \in DOMAIN db.rounds : Go("/rounds", <<id>>)
    BY <2>2, GoLists
  <2> QED
    BY <1>1, <2>1, <2>2 DEF FeedPage
<1>2. CASE LoadMore
  <2> DEFINE view == [app.view EXCEPT !.page = @ + 1]
  <2>1. app' = Local(app, view)
    BY <1>2 DEF LoadMore, Does
  <2>2. /\ DOMAIN view = ViewFields /\ view.step = app.view.step /\ view.ask = app.view.ask
        /\ view.got = app.view.got /\ view.busy = app.view.busy /\ view.failed = app.view.failed
    BY <1>0 DEF ViewOK, ViewFields
  <2> HIDE DEF view
  <2> QED
    BY <2>1, <2>2, TurnLists DEF ListInv
<1>3. CASE RetryFeed
  <2> DEFINE a == [app EXCEPT !.view.loaded = {}, !.view.page = 1]
             b == fetchPage(a, 1)
  <2>1. app' = Dispatch(app, b) /\ app.at = "/feed"
    BY <1>3 DEF RetryFeed, Acts, Does, At
  <2>2. IsTab(a) /\ ViewOK(a) /\ a.at = app.at /\ a.net = app.net
    BY <1>0 DEF IsTab, ViewOK, TabFields, ViewFields
  <2> HIDE DEF a
  <2>3. ListsOK(a)
    BY <1>0, <2>1, <2>2, ListlessLists
  <2>4. Moved(a, b)
    BY <2>1, <2>2, FeedPageIsMoved
  <2>5. IsTab(b) /\ b.at = "/feed" /\ PageRequests(b) /\ ViewOK(b)
    BY <2>1, <2>2, <2>3, <2>4, MovedRequests DEF Moved, ListsOK
  <2> HIDE DEF b
  <2>6. \A q : Fits(b, q) <=> Fits(app, q)
    BY <2>1, <2>5 DEF Fits, Wanted
  <2>7. ListShown(b)
    BY <2>5 DEF ListShown, Wanted
  <2>8. \A i \in DOMAIN b.net : b.net[i].to = "page" => Fits(app, b.net[i])
    BY <2>5, <2>6 DEF PageRequests
  <2> QED
    BY <1>0, <2>1, <2>5, <2>7, <2>8, DispatchLists DEF ListInv
<1> QED
  BY <1>1, <1>2, <1>3

LEMMA AccountLists ==
    ASSUME ListInv, AppHeader \/ Login \/ Register \/ LoadPage PROVE ListInv'
<1>0. ListsOK(app) /\ IsTab(app)
  BY DEF ListInv, ListsOK
<1>1. CASE AppHeader
  <2>1. CASE \E arg : Go("/profile", arg)
    BY <2>1, GoLists
  <2>2. CASE \E what : Does(Dispatch(app, logout(app)), what)
    <3>1. SameView(app, logout(app))
      BY <1>0 DEF logout, SameView, IsTab, TabFields
    <3> QED
      BY <1>0, <2>2, <3>1, ChangeLists DEF Does, ListInv
  <2> QED
    BY <1>1, <2>1, <2>2 DEF AppHeader
<1>2. CASE Login \/ Register
  <2>1. CASE \E at : Go(at, <<>>)
    BY <2>1, GoLists
  <2>2. CASE \E op, arg : /\ op \in {"login", "register"}
                         /\ app' = Asks([app EXCEPT !.loginError = FALSE], op, arg)
    <3>1. PICK op, arg : /\ op \in {"login", "register"}
                         /\ app' = Asks([app EXCEPT !.loginError = FALSE], op, arg)
      BY <2>2
    <3> DEFINE a == [app EXCEPT !.loginError = FALSE]
    <3>2. SameView(app, a)
      BY <1>0 DEF SameView, IsTab, TabFields
    <3> HIDE DEF a
    <3>3. ListsOK(a)
      BY <1>0, <3>2, SameViewLists
    <3>4. Steady(a, Asks(a, op, arg))
      BY <3>1, <3>3, PlainIsSteady DEF ListsOK, Plain, Lists
    <3>5. ListsOK(Asks(a, op, arg))
      BY <3>3, <3>4, SteadyLists
    <3> QED
      BY <3>1, <3>5 DEF a, ListInv
  <2>3. CASE \E u, right : Does(login(app, u, right), Twice)
    <3>1. PICK u, right : app' = login(app, u, right)
      BY <2>3 DEF Does
    <3> QED
      BY <2>2, <3>1 DEF login
  <2>4. CASE \E u : Does(register(app, u), Twice)
    <3>1. PICK u : app' = register(app, u)
      BY <2>4 DEF Does
    <3> QED
      BY <2>2, <3>1 DEF register
  <2> QED
    BY <1>2, <2>1, <2>3, <2>4 DEF Login, Register
<1>3. CASE LoadPage
  <2>1. PICK at, arg : app' = [Load(app.saved, at, arg) EXCEPT !.net = Left(app) \o @]
    BY <1>3 DEF LoadPage
  <2>2. IsNet(Left(app)) /\ \A i \in DOMAIN Left(app) : Left(app)[i].to = "nobody"
    BY <1>0, LeftIsForNobody
  <2>3. ListsOK([Load(app.saved, at, arg) EXCEPT !.net = Left(app) \o @])
    BY <2>2, LoadOverLists
  <2> QED
    BY <2>1, <2>3 DEF ListInv
<1> QED
  BY <1>1, <1>2, <1>3

\* The pages that have a list, or a choice.
LEMMA ChoiceLists ==
    ASSUME ListInv,
           LeadersPage \/ CoursesPage \/ AdminOfTournament \/ CourseStep \/ PlayersStep \/ ConfirmStep
    PROVE  ListInv'
<1>0. ListsOK(app) /\ IsTab(app) /\ ViewOK(app)
  BY DEF ListInv, ListsOK
<1>1. CASE LeadersPage
  <2>1. CASE \E ask \in 0..2 : Choose(ask)
    BY <2>1, ChooseLists
  <2>2. CASE Acts(Local(app, [app.view EXCEPT !.page = 3 - @]))
    <3> DEFINE view == [app.view EXCEPT !.page = 3 - @]
    <3>1. app' = Local(app, view)
      BY <2>2 DEF Acts, Does
    <3>2. /\ DOMAIN view = ViewFields /\ view.step = app.view.step /\ view.ask = app.view.ask
          /\ view.got = app.view.got /\ view.busy = app.view.busy /\ view.failed = app.view.failed
      BY <1>0 DEF ViewOK, ViewFields
    <3> HIDE DEF view
    <3> QED
      BY <3>1, <3>2, TurnLists DEF ListInv
  <2> QED
    BY <1>1, <2>1, <2>2 DEF LeadersPage
<1>2. CASE CoursesPage
  BY <1>2, GoLists, ChooseLists DEF CoursesPage
<1>3. CASE AdminOfTournament
  <2>1. CASE \E n \in 1..NumCourses : Choose(n)
    BY <2>1, ChooseLists
  <2>2. CASE \E l : Acts(addCourse(app, app.arg[1], l))
    <3>1. PICK l : app' = addCourse(app, app.arg[1], l)
      BY <2>2 DEF Acts, Does
    <3>2. app.at = "/tournament"
      BY <1>3 DEF AdminOfTournament, CupIsShown, At
    <3>3. Fits(app, Fetch("addCourse", <<app.arg[1], l>>))
      BY <3>2 DEF Fits, Fetch, Lists
    <3>4. Steady(app, addCourse(app, app.arg[1], l))
      BY <1>0, <3>3, AskingIsSteady DEF addCourse
    <3> QED
      BY <1>0, <3>1, <3>4, SteadyLists DEF ListInv
  <2>3. CASE Acts(calculatePrices(app, app.arg[1]))
    BY <2>3, AskLists DEF calculatePrices, Plain, Lists
  <2> QED
    BY <1>3, <2>1, <2>2, <2>3 DEF AdminOfTournament
<1>4. CASE CourseStep
  <2>1. CASE \E n \in 0..NumCourses : Choose(n)
    BY <2>1, ChooseLists
  <2>2. CASE \E l : Acts(Local(app, [app.view EXCEPT !.layout = l]))
    <3>1. PICK l : app' = Local(app, [app.view EXCEPT !.layout = l])
      BY <2>2 DEF Acts, Does
    <3> DEFINE view == [app.view EXCEPT !.layout = l]
    <3>2. /\ DOMAIN view = ViewFields /\ view.step = app.view.step /\ view.ask = app.view.ask
          /\ view.got = app.view.got /\ view.busy = app.view.busy /\ view.failed = app.view.failed
      BY <1>0 DEF ViewOK, ViewFields
    <3>3. app' = Local(app, view)
      BY <3>1
    <3> HIDE DEF view
    <3> QED
      BY <3>2, <3>3, TurnLists DEF ListInv
  <2>3. CASE Acts(Step("players"))
    BY <1>4, <2>3, StepLists DEF CourseStep, At
  <2>4. CASE Go("/", <<>>)
    BY <2>4, GoLists
  <2> QED
    BY <1>4, <2>1, <2>2, <2>3, <2>4 DEF CourseStep
<1>5. CASE PlayersStep
  <2>1. CASE \E n \in 0..1 : Choose(n)
    BY <2>1, ChooseLists
  <2>2. CASE \E u : Acts(Local(app, [app.view EXCEPT !.players = Toggled(@, u)]))
    <3>1. PICK u : app' = Local(app, [app.view EXCEPT !.players = Toggled(@, u)])
      BY <2>2 DEF Acts, Does
    <3> DEFINE view == [app.view EXCEPT !.players = Toggled(@, u)]
    <3>2. /\ DOMAIN view = ViewFields /\ view.step = app.view.step /\ view.ask = app.view.ask
          /\ view.got = app.view.got /\ view.busy = app.view.busy /\ view.failed = app.view.failed
      BY <1>0 DEF ViewOK, ViewFields
    <3>3. app' = Local(app, view)
      BY <3>1
    <3> HIDE DEF view
    <3> QED
      BY <3>2, <3>3, TurnLists DEF ListInv
  <2>3. CASE Acts(Step("confirm")) \/ Acts(Step("course"))
    BY <1>5, <2>3, StepLists DEF PlayersStep, At
  <2> QED
    BY <1>5, <2>1, <2>2, <2>3 DEF PlayersStep
<1>6. CASE ConfirmStep
  <2>1. CASE Acts(Starts(app, "createRound", <<app.view.layout, app.view.players>>))
    BY <2>1, AskLists DEF Plain, Lists
  <2>2. CASE Acts(Step("players"))
    BY <1>6, <2>2, StepLists DEF ConfirmStep, At
  <2> QED
    BY <1>6, <2>1, <2>2 DEF ConfirmStep
<1> QED
  BY <1>1, <1>2, <1>3, <1>4, <1>5, <1>6

LEMMA PersonLists ==
    ASSUME ListInv, Person PROVE ListInv'
<1>0. ListsOK(app) /\ IsTab(app)
  BY DEF ListInv, ListsOK
<1>1. CASE BottomNav \/ LoggedOutLanding \/ LoggedInLanding \/ RoundSummary \/ CourseDetailPage
           \/ TournamentsPage
  BY <1>1, GoLists DEF BottomNav, LoggedOutLanding, LoggedInLanding, RoundSummary, CourseDetailPage,
     TournamentsPage
<1>2. CASE AppHeader \/ Login \/ Register \/ LoadPage
  BY <1>2, AccountLists
<1>3. CASE FeedPage \/ LoadMore \/ RetryFeed
  BY <1>3, FeedLists
<1>4. CASE RoundPage \/ RoundMenu
  BY <1>4, AskLists DEF RoundPage, RoundMenu, setScore, fetchRoundStats, completeRound, skipHole,
     leaveRound, deleteRound, Plain, Lists
<1>5. CASE ProfilePage
  <2>1. CASE Acts(ProfileOf(app, Whose))
    <3>1. Steady(app, ProfileOf(app, Whose))
      BY <1>0, ProfileIsSteady
    <3> QED
      BY <1>0, <2>1, <3>1, SteadyLists DEF Acts, Does, ListInv
  <2>2. CASE Acts(fetchRounds(app, Whose, 3 - app.profile.rounds[2]))
    BY <2>2, AskLists DEF fetchRounds, Plain, Lists
  <2>3. CASE \E id \in RoundsOf(app.profile.rounds[1]) : Go("/rounds", <<id>>)
    BY <2>3, GoLists
  <2> QED
    BY <1>5, <2>1, <2>2, <2>3 DEF ProfilePage
<1>6. CASE CreateCoursePage \/ CreateTournamentPage
  BY <1>6, AskLists DEF CreateCoursePage, createCourse, CreateTournamentPage, createTournament,
     Plain, Lists
<1>7. CASE TournamentDetailPage
  BY <1>7, GoLists, AskLists DEF TournamentDetailPage, joinTournament, Plain, Lists
<1>8. CASE LeadersPage \/ CoursesPage \/ AdminOfTournament \/ CourseStep \/ PlayersStep \/ ConfirmStep
  BY <1>8, ChoiceLists
<1> QED
  BY <1>1, <1>2, <1>3, <1>4, <1>5, <1>6, <1>7, <1>8 DEF Person

\* A list to choose from is that of the last choice, whatever requests for
\* other choices are answered late (LeadersPage.tsx, NewRound.tsx: the
\* cancelled flags). Every request that may still be answered to the page is
\* one the page makes as it is now.
THEOREM LastChoiceShown == Spec => []LatestChoiceIsShown
<1>1. Init => ListInv
  BY LoadLists DEF Init, ListInv
<1>2. ListInv /\ [Next]_vars => ListInv'
  <2> SUFFICES ASSUME ListInv, [Next]_vars PROVE ListInv'
    OBVIOUS
  <2>1. CASE UNCHANGED vars
    BY <2>1 DEF vars, ListInv
  <2>2. CASE Next
    BY <2>2, NetworkLists, PersonLists, WorldLists DEF Next
  <2> QED
    BY <2>1, <2>2
<1>3. ListInv => LatestChoiceIsShown
  <2> SUFFICES ASSUME ListsOK(app), At({"/leaders"}) \/ (At({"/new-round"}) /\ app.view.step # "confirm"),
                      ~app.view.busy, ~app.view.failed
               PROVE  app.view.got = app.view.ask
    BY DEF ListInv, LatestChoiceIsShown
  <2>1. Wanted(app) # {}
    BY DEF Wanted, At, ListsOK, ViewOK
  <2> QED
    BY <2>1 DEF ListsOK, ListShown
<1> QED
  BY <1>1, <1>2, <1>3, PTL DEF Spec

-----------------------------------------------------------------------------
(* The feed.                                                                 *)

\* The requests of the feed page.
About(q)   == q.op \in {"feed", "like"}
ForPage(q) == q.op = "feed" /\ q.to = "page"
\* The same requests of the feed page, in the same places.
SameAsks(m, n) ==
    \A i : (i \in DOMAIN m /\ About(m[i])) \/ (i \in DOMAIN n /\ About(n[i])) =>
              i \in DOMAIN m /\ i \in DOMAIN n /\ m[i] = n[i]
SameFeed(v, w) ==
    /\ v.page = w.page /\ v.loaded = w.loaded /\ v.items = w.items
    /\ v.last = w.last /\ v.busy = w.busy /\ v.failed = w.failed
\* If d shows the feed, it is the feed c shows.
Aside(c, d) ==
    d.at = "/feed" => c.at = "/feed" /\ SameFeed(c.view, d.view) /\ SameAsks(c.net, d.net)

Whole(o)   == "gap" \notin o
Plainly(o) == o \cap {"lost", "mix", "swap"} = {}

ItemsOK(c) ==
    /\ IsSequence(c.view.items)
    /\ c.view.page \in Nat \ {0} /\ c.view.loaded \subseteq 1..c.view.page
    /\ \A n \in DOMAIN c.view.items :
         DOMAIN c.view.items[n] = {"id", "likes"} /\ c.view.items[n].id \in 1..NumItems
\* What the answer for a page brings.
Brings(q) ==
    /\ q.data.last = (q.arg[1] >= NumItems)
    /\ q.arg[1] > NumItems => q.data.items = <<>>
    /\ q.arg[1] <= NumItems => \E likes : q.data.items = <<[id |-> q.arg[1], likes |-> likes]>>
\* One page is asked for at a time, and it is the last one.
Asked(c) ==
    /\ \A i, j \in DOMAIN c.net : ForPage(c.net[i]) /\ ForPage(c.net[j]) => i = j
    /\ \A i \in DOMAIN c.net : ForPage(c.net[i]) =>
         /\ c.view.busy = TRUE /\ c.view.failed = FALSE
         /\ c.net[i].arg = <<c.view.page>>
         /\ c.net[i].phase = "ok" => Brings(c.net[i])
InOrder(c) ==
    /\ \A n \in DOMAIN c.view.items : c.view.items[n].id = n
    /\ (\E i \in DOMAIN c.net : ForPage(c.net[i])) =>
          c.view.page \in {1, Len(c.view.items) + 1}
    /\ c.view.busy # TRUE /\ c.view.failed # TRUE /\ c.view.last # TRUE =>
          c.view.page = Len(c.view.items)
Paged(c, o) == ItemsOK(c) /\ Asked(c) /\ (Whole(o) => InOrder(c))

\* The likes that the page shows and the server has not taken. Whether the page
\* and the server disagree about somebody is whether there is an odd number.
Owes(q, id, u)   == q.op = "like" /\ q.arg[1] = id /\ q.who = u /\ q.phase # "ok"
Undone(c, id, u) == {i \in DOMAIN c.net : Owes(c.net[i], id, u)}
IsOdd(S)         == Cardinality(S) % 2 = 1
Agrees(c, d) ==
    /\ ~(Sending(c, "like") /\ Sending(c, "feed"))
    /\ \A i \in DOMAIN c.net : c.net[i].op = "like" =>
         c.net[i].to = "page" /\ c.net[i].arg[2] = c.net[i].who
    /\ \A i \in DOMAIN c.net : ForPage(c.net[i]) /\ c.net[i].phase = "ok" =>
         \A n \in DOMAIN c.net[i].data.items :
            c.net[i].data.items[n].likes = d.likes[c.net[i].data.items[n].id]
    /\ \A n \in DOMAIN c.view.items : LET id == c.view.items[n].id IN
         \A v : (v \in c.view.items[n].likes) <=>
                ((v \in d.likes[id]) <=> ~IsOdd(Undone(c, id, v)))
FeedOK(c, d, o) == c.at = "/feed" => Paged(c, o) /\ (Plainly(o) => Agrees(c, d))

LEMMA AsideTransitive ==
    ASSUME NEW c, NEW d, NEW e, Aside(c, d), Aside(d, e) PROVE Aside(c, e)
BY DEF Aside, SameFeed, SameAsks

LEMMA AsidePaged ==
    ASSUME NEW c, NEW d, SameFeed(c.view, d.view), SameAsks(c.net, d.net),
           NEW o, NEW p, o \subseteq p, Paged(c, o)
    PROVE  Paged(d, p)
<1>1. ItemsOK(d)
  BY DEF SameFeed, Paged, ItemsOK
<1>2. \A i \in DOMAIN d.net : About(d.net[i]) => i \in DOMAIN c.net /\ d.net[i] = c.net[i]
  BY DEF SameAsks
<1>3. \A i \in DOMAIN d.net : ForPage(d.net[i]) => i \in DOMAIN c.net /\ d.net[i] = c.net[i]
  BY <1>2 DEF ForPage, About
<1>4. Asked(d)
  BY <1>3 DEF SameFeed, Paged, Asked
<1>5. InOrder(c) => InOrder(d)
  BY <1>3 DEF SameFeed, InOrder
<1> QED
  BY <1>1, <1>4, <1>5 DEF Paged, Whole

LEMMA AsideAgrees ==
    ASSUME NEW c, NEW d, SameFeed(c.view, d.view), SameAsks(c.net, d.net),
           NEW b, NEW b2, b2.likes = b.likes, Agrees(c, b)
    PROVE  Agrees(d, b2)
<1>1. \A i \in DOMAIN d.net : About(d.net[i]) => i \in DOMAIN c.net /\ d.net[i] = c.net[i]
  BY DEF SameAsks
<1>2. \A i \in DOMAIN c.net : About(c.net[i]) => i \in DOMAIN d.net /\ d.net[i] = c.net[i]
  BY DEF SameAsks
<1>3. Sending(d, "like") => Sending(c, "like")
  BY <1>1 DEF Sending, About
<1>4. Sending(d, "feed") => Sending(c, "feed")
  BY <1>1 DEF Sending, About
<1>5. ASSUME NEW id, NEW v PROVE Undone(d, id, v) = Undone(c, id, v)
  BY <1>1, <1>2 DEF Undone, Owes, About
<1>6. \A i \in DOMAIN d.net : d.net[i].op = "like" =>
         d.net[i].to = "page" /\ d.net[i].arg[2] = d.net[i].who
  BY <1>1 DEF Agrees, About
<1>7. \A i \in DOMAIN d.net : ForPage(d.net[i]) /\ d.net[i].phase = "ok" =>
         \A n \in DOMAIN d.net[i].data.items :
            d.net[i].data.items[n].likes = b2.likes[d.net[i].data.items[n].id]
  BY <1>1 DEF Agrees, About, ForPage
<1> QED
  BY <1>3, <1>4, <1>5, <1>6, <1>7 DEF Agrees, SameFeed

LEMMA AsideFeed ==
    ASSUME NEW c, NEW d, Aside(c, d), NEW o, NEW p, o \subseteq p,
           NEW b, NEW b2, b2.likes = b.likes, FeedOK(c, b, o)
    PROVE  FeedOK(d, b2, p)
<1> SUFFICES ASSUME d.at = "/feed" PROVE Paged(d, p) /\ (Plainly(p) => Agrees(d, b2))
  BY DEF FeedOK
<1>1. c.at = "/feed" /\ SameFeed(c.view, d.view) /\ SameAsks(c.net, d.net)
  BY DEF Aside
<1>2. Plainly(p) => Plainly(o)
  BY DEF Plainly
<1> QED
  BY <1>1, <1>2, AsidePaged, AsideAgrees DEF FeedOK


-----------------------------------------------------------------------------
(* The feed: pages.                                                          *)

LEMMA AskingExtends ==
    ASSUME NEW c, IsTab(c), NEW op, NEW arg
    PROVE  LET d == Asks(c, op, arg)
           IN  /\ IsTab(d) /\ d.at = c.at /\ d.view = c.view
               /\ d.user = c.user /\ d.saved = c.saved
               /\ Len(c.net) + 1 \notin DOMAIN c.net
               /\ DOMAIN d.net = DOMAIN c.net \cup {Len(c.net) + 1}
               /\ \A i \in DOMAIN c.net : d.net[i] = c.net[i]
               /\ d.net[Len(c.net) + 1] = Request(op, arg, c.saved)
<1> DEFINE d == Asks(c, op, arg)
           q == Request(op, arg, c.saved)
<1>1. /\ IsTab(d) /\ d.net = Append(c.net, q) /\ d.at = c.at /\ d.view = c.view
      /\ d.user = c.user /\ d.saved = c.saved
  BY AskingAppends DEF TabFields
<1>2. IsSequence(c.net) /\ Len(c.net) \in Nat
  BY DEF IsTab, IsNet, IsSequence
<1> HIDE DEF d, q
<1>3. /\ DOMAIN c.net = 1..Len(c.net) /\ DOMAIN d.net = 1..(Len(c.net) + 1)
      /\ \A i \in 1..Len(c.net) : d.net[i] = c.net[i]
      /\ d.net[Len(c.net) + 1] = q
  BY <1>1, <1>2, AppendToSequence
<1>4. Len(c.net) + 1 \notin DOMAIN c.net /\ DOMAIN d.net = DOMAIN c.net \cup {Len(c.net) + 1}
  BY <1>2, <1>3
<1> QED
  BY <1>1, <1>3, <1>4 DEF d, q

LEMMA FeedFetches ==
    ASSUME NEW c, c.at = "/feed" PROVE Fetches(c) = <<Fetch("feed", <<c.view.page>>)>>
BY DEF Fetches

LEMMA RenderAt ==
    ASSUME NEW c0, NEW c1, IsTab(c1) PROVE Render(c0, c1).at = c1.at
<1> DEFINE fs0 == Fetches(c0)
           fs1 == Fetches(c1)
           stays == c0.at = c1.at
           over == IF stays THEN Range(fs0) \ Range(fs1) ELSE Range(fs0)
           new == IF stays THEN Range(fs1) \ Range(fs0) ELSE Range(fs1)
           g == IF stays THEN c1 ELSE Gone(c1)
           e == Cleaned(g, fs0, over)
           d == Started(e, fs1, new)
<1>0. Render(c0, c1) = d
  BY DEF Render
<1>1. IsTab(g) /\ g.at = c1.at
  BY IgnoringSilences DEF Silenced
<1> HIDE DEF g
<1>2. IsTab(e) /\ e.at = g.at
  BY <1>1, CleanedFollows DEF Follows
<1> HIDE DEF e
<1>3. d.at = e.at
  BY <1>2, FetchesFacts, StartedFollows DEF Follows
<1> QED
  BY <1>0, <1>1, <1>2, <1>3

\* A page of the feed that has been asked for is not asked for again.
LEMMA RenderFeed ==
    ASSUME NEW c0, c0.at = "/feed", NEW c1, c1.at = "/feed", c1.view.page = c0.view.page
    PROVE  Render(c0, c1) = c1
<1>1. Fetches(c0) = Fetches(c1)
  BY FeedFetches
<1> DEFINE fs == Fetches(c1)
<1>2. Render(c0, c1) = Started(Cleaned(c1, fs, Range(fs) \ Range(fs)), fs, Range(fs) \ Range(fs))
  BY <1>1 DEF Render
<1> HIDE DEF fs
<1>3. \A n : fs[n] \notin Range(fs) \ Range(fs)
  OBVIOUS
<1>4. Cleaned(c1, fs, Range(fs) \ Range(fs)) = c1
  BY <1>3 DEF Cleaned, Ends
<1>5. Started(c1, fs, Range(fs) \ Range(fs)) = c1
  BY <1>3 DEF Started, Runs
<1> QED
  BY <1>2, <1>4, <1>5

LEMMA AsideSame ==
    ASSUME NEW c, NEW d, d.at = c.at, d.net = c.net, SameFeed(c.view, d.view) PROVE Aside(c, d)
BY DEF Aside, SameAsks

LEMMA DispatchAside ==
    ASSUME NEW c, NEW d, IsTab(d), Aside(c, d) PROVE Aside(c, Dispatch(c, d))
<1> DEFINE r == Routed(d)
<1>1. r = d \/ (IsTab(r) /\ r.at \in {"/login", "/"})
  BY OpenedIs DEF Routed
<1> HIDE DEF r
<1>2. Render(c, r).at = r.at
  BY <1>1, RenderAt
<1>3. CASE r = d /\ d.at = "/feed"
  <2>1. c.at = "/feed" /\ d.view.page = c.view.page
    BY <1>3 DEF Aside, SameFeed
  <2>2. Render(c, d) = d
    BY <1>3, <2>1, RenderFeed
  <2> QED
    BY <1>3, <2>2 DEF Dispatch, r
<1>4. CASE r.at # "/feed"
  BY <1>2, <1>4 DEF Aside, Dispatch, r
<1> QED
  BY <1>1, <1>3, <1>4

LEMMA ChangeAside ==
    ASSUME NEW c, NEW d, IsTab(c), SameView(c, d) PROVE Aside(c, d) /\ Aside(c, Dispatch(c, d))
<1>1. IsTab(d)
  BY DEF SameView, IsTab
<1>2. Aside(c, d)
  BY AsideSame DEF SameView, SameFeed
<1> QED
  BY <1>1, <1>2, DispatchAside

LEMMA PushAside ==
    ASSUME NEW c, IsTab(c), NEW at, at # "/feed" \/ c.at = "/feed", NEW arg
    PROVE  Aside(c, Push(c, at, arg))
<1> DEFINE a == [c EXCEPT !.arg = arg]
           o == Opened(c, at, arg)
           d == IF c.at = at THEN a ELSE o
<1>1. SameView(c, a)
  BY DEF SameView, IsTab, TabFields
<1>2. IsTab(o) /\ o.at = at
  BY OpenedIs
<1>3. Push(c, at, arg) = Dispatch(c, d)
  BY DEF Push
<1> HIDE DEF a, o
<1>4. IsTab(d) /\ Aside(c, d)
  BY <1>1, <1>2, ChangeAside DEF Aside, SameView, IsTab
<1> HIDE DEF d
<1> QED
  BY <1>3, <1>4, DispatchAside

\* The page of the feed when it is opened: its first page is on its way, and
\* no answer to what was asked before is for it.
Entered(d) ==
    /\ d.view.items = <<>> /\ d.view.page = 1 /\ d.view.loaded = {1}
    /\ d.view.busy = TRUE /\ d.view.failed = FALSE
    /\ \E k \in DOMAIN d.net :
         /\ ForPage(d.net[k]) /\ d.net[k].arg = <<1>> /\ d.net[k].phase = "sent"
         /\ \A j \in DOMAIN d.net : d.net[j].to = "page" => j = k
Waiting(c) ==
    /\ IsTab(c) /\ ViewOK(c) /\ c.at = "/feed"
    /\ c.view.items = <<>> /\ c.view.page = 1 /\ c.view.loaded = {}
    /\ \A i \in DOMAIN c.net : c.net[i].to # "page"

\* A page of the feed is asked for.
LEMMA FetchingPage ==
    ASSUME NEW c, IsTab(c), ViewOK(c), NEW page, page \notin c.view.loaded
    PROVE  LET d == fetchPage(c, page)
           IN  /\ IsTab(d) /\ ViewOK(d) /\ d.at = c.at /\ d.user = c.user /\ d.saved = c.saved
               /\ d.view.items = c.view.items /\ d.view.page = c.view.page
               /\ d.view.loaded = c.view.loaded \cup {page} /\ d.view.last = c.view.last
               /\ d.view.busy = TRUE /\ d.view.failed = FALSE
               /\ Len(c.net) + 1 \notin DOMAIN c.net
               /\ DOMAIN d.net = DOMAIN c.net \cup {Len(c.net) + 1}
               /\ \A i \in DOMAIN c.net : d.net[i] = c.net[i]
               /\ d.net[Len(c.net) + 1] = Request("feed", <<page>>, c.saved)
<1> DEFINE a == [c EXCEPT !.view.loaded = @ \cup {page}]
           b == [a EXCEPT !.view.busy = TRUE, !.view.failed = FALSE]
           d == Asks(b, "feed", <<page>>)
<1>1. fetchPage(c, page) = d
  BY DEF fetchPage, Waits
<1>2. /\ IsTab(b) /\ ViewOK(b) /\ b.at = c.at /\ b.net = c.net
      /\ b.user = c.user /\ b.saved = c.saved
      /\ b.view.items = c.view.items /\ b.view.page = c.view.page
      /\ b.view.loaded = c.view.loaded \cup {page} /\ b.view.last = c.view.last
      /\ b.view.busy = TRUE /\ b.view.failed = FALSE
  BY DEF IsTab, ViewOK, TabFields, ViewFields
<1> HIDE DEF b
<1>3. /\ IsTab(d) /\ d.at = b.at /\ d.view = b.view
      /\ d.user = b.user /\ d.saved = b.saved
      /\ Len(b.net) + 1 \notin DOMAIN b.net
      /\ DOMAIN d.net = DOMAIN b.net \cup {Len(b.net) + 1}
      /\ \A i \in DOMAIN b.net : d.net[i] = b.net[i]
      /\ d.net[Len(b.net) + 1] = Request("feed", <<page>>, b.saved)
  BY <1>2, AskingExtends
<1> HIDE DEF d
<1>4. ViewOK(d)
  BY <1>2, <1>3 DEF ViewOK
<1> QED
  BY <1>1, <1>2, <1>3, <1>4

LEMMA FirstPage ==
    ASSUME NEW c, Waiting(c)
    PROVE  LET d == Started(c, Fetches(c), Range(Fetches(c)))
           IN  /\ d.at = "/feed" /\ IsTab(d) /\ Entered(d)
               /\ c.net = <<>> => ~Sending(d, "like")
<1> DEFINE f == Fetch("feed", <<1>>)
           d == fetchPage(c, 1)
<1>1. Fetches(c) = <<f>>
  BY FeedFetches DEF Waiting
<1>2. 1 \in DOMAIN <<f>> /\ <<f>>[1] = f /\ 2 \notin DOMAIN <<f>> /\ f \in Range(<<f>>)
  BY DEF Range
<1>3. Effect(c, f) = d
  BY DEF Effect, Fetch
<1> HIDE DEF f
<1>4. Started(c, <<f>>, Range(<<f>>)) = d
  BY <1>2, <1>3 DEF Started, Runs
<1>5. /\ IsTab(d) /\ ViewOK(d) /\ d.at = c.at /\ d.user = c.user /\ d.saved = c.saved
      /\ d.view.items = c.view.items /\ d.view.page = c.view.page
      /\ d.view.loaded = c.view.loaded \cup {1} /\ d.view.last = c.view.last
      /\ d.view.busy = TRUE /\ d.view.failed = FALSE
      /\ Len(c.net) + 1 \notin DOMAIN c.net
      /\ DOMAIN d.net = DOMAIN c.net \cup {Len(c.net) + 1}
      /\ \A i \in DOMAIN c.net : d.net[i] = c.net[i]
      /\ d.net[Len(c.net) + 1] = Request("feed", <<1>>, c.saved)
  <2>1. IsTab(c) /\ ViewOK(c) /\ 1 \notin c.view.loaded
    BY DEF Waiting
  <2> QED
    BY <2>1, FetchingPage
<1> HIDE DEF d
<1> DEFINE k == Len(c.net) + 1
<1>6. DOMAIN d.net = DOMAIN c.net \cup {k}
  BY <1>5
<1>7. /\ k \in DOMAIN d.net /\ d.net[k].arg = <<1>> /\ d.net[k].phase = "sent" /\ ForPage(d.net[k])
      /\ d.net[k].op # "like"
  BY <1>5, RequestIsRequest DEF ForPage, Request
<1>8. \A j \in DOMAIN d.net : d.net[j].to = "page" => j = k
  BY <1>5 DEF Waiting
<1> HIDE DEF k
<1>9. Entered(d) /\ d.at = "/feed"
  BY <1>5, <1>7, <1>8 DEF Entered, Waiting
<1>10. c.net = <<>> => ~Sending(d, "like")
  BY <1>7, <1>6 DEF Sending
<1> QED
  BY <1>1, <1>4, <1>5, <1>9, <1>10

LEMMA EnteredFeed ==
    ASSUME NEW d, Entered(d), NEW o, Mixed(d) \subseteq o, NEW b PROVE FeedOK(d, b, o)
<1>1. PICK k \in DOMAIN d.net :
         /\ ForPage(d.net[k]) /\ d.net[k].arg = <<1>> /\ d.net[k].phase = "sent"
         /\ \A j \in DOMAIN d.net : d.net[j].to = "page" => j = k
  BY DEF Entered
<1>2. \A j \in DOMAIN d.net : ForPage(d.net[j]) => j = k
  BY <1>1 DEF ForPage
<1>3. IsSequence(d.view.items) /\ DOMAIN d.view.items = {}
  BY DEF Entered, IsSequence
<1>4. ItemsOK(d)
  BY <1>3 DEF Entered, ItemsOK
<1>5. Asked(d)
  BY <1>1, <1>2 DEF Entered, Asked
<1>6. InOrder(d)
  BY <1>3 DEF Entered, InOrder
<1>7. ASSUME Plainly(o) PROVE Agrees(d, b)
  <2>1. ~(Sending(d, "like") /\ Sending(d, "feed"))
    BY <1>7 DEF Mixed, Plainly
  <2>2. Sending(d, "feed")
    BY <1>1 DEF Sending, ForPage
  <2>3. \A i \in DOMAIN d.net : d.net[i].op # "like"
    BY <2>1, <2>2 DEF Sending
  <2>4. \A i \in DOMAIN d.net : ForPage(d.net[i]) => d.net[i].phase = "sent"
    BY <1>1, <1>2
  <2> QED
    BY <1>3, <2>1, <2>3, <2>4 DEF Agrees
<1> QED
  BY <1>4, <1>5, <1>6, <1>7 DEF FeedOK, Paged

LEMMA OpenedWaits ==
    ASSUME NEW c, IsTab(c), NEW arg
    PROVE  LET d == Opened(c, "/feed", arg)
           IN  /\ IsTab(d) /\ ViewOK(d) /\ d.at = "/feed"
               /\ d.view.items = <<>> /\ d.view.page = 1 /\ d.view.loaded = {}
BY DEF Opened, Fresh, ViewOK, ViewFields, IsTab, TabFields

\* Going to the feed.
LEMMA PushEnters ==
    ASSUME NEW c, IsTab(c), c.at # "/feed", NEW arg
    PROVE  LET d == Push(c, "/feed", arg) IN d.at = "/feed" => Entered(d)
<1> DEFINE o == Opened(c, "/feed", arg)
           r == Routed(o)
<1>1. /\ IsTab(o) /\ ViewOK(o) /\ o.at = "/feed"
      /\ o.view.items = <<>> /\ o.view.page = 1 /\ o.view.loaded = {}
  BY OpenedWaits
<1>2. Push(c, "/feed", arg) = Render(c, r)
  BY DEF Push, Dispatch
<1> HIDE DEF o
<1>3. r = o \/ (IsTab(r) /\ r.at # "/feed")
  BY <1>1, OpenedIs DEF Routed
<1> HIDE DEF r
<1>4. CASE IsTab(r) /\ r.at # "/feed"
  BY <1>2, <1>4, RenderAt
<1>5. CASE r = o
  <2> DEFINE g == Gone(o)
             e == Cleaned(g, Fetches(c), Range(Fetches(c)))
  <2>1. Render(c, o) = Started(e, Fetches(o), Range(Fetches(o)))
    BY <1>1 DEF Render
  <2>2. Silenced(o, g) /\ \A i \in DOMAIN g.net : g.net[i].to # "page"
    BY <1>1, IgnoringSilences
  <2> HIDE DEF g
  <2>3. IsTab(g)
    BY <2>2 DEF Silenced
  <2>4. Silenced(g, e)
    BY <2>3, CleanedSilences
  <2> HIDE DEF e
  <2>5. Waiting(e)
    BY <1>1, <2>2, <2>4 DEF Silenced, Waiting, ViewOK
  <2>6. Fetches(o) = Fetches(e)
    BY <1>1, <2>2, <2>4, FeedFetches DEF Silenced
  <2>7. Entered(Started(e, Fetches(e), Range(Fetches(e))))
    BY <2>5, FirstPage
  <2> QED
    BY <1>2, <1>5, <2>1, <2>6, <2>7
<1> QED
  BY <1>3, <1>4, <1>5

\* Loading it.
LEMMA LoadEnters ==
    ASSUME NEW u, NEW at, NEW arg
    PROVE  LET d == Load(u, at, arg) IN d.at = "/feed" => Entered(d) /\ ~Sending(d, "like")
<1> DEFINE s == StartStore(u, at, arg)
           r == Routed(s)
           d == Started(r, Fetches(r), Range(Fetches(r)))
<1>0. Load(u, at, arg) = d
  BY DEF Load
<1>1. /\ IsTab(s) /\ ViewOK(s) /\ s.net = <<>>
      /\ s.view.items = <<>> /\ s.view.page = 1 /\ s.view.loaded = {}
  <2>1. DOMAIN s = TabFields /\ s.net = <<>> /\ s.view = Fresh(u)
    BY DEF StartStore, TabFields
  <2>2. IsNet(<<>>)
    BY DEF IsNet, IsSequence
  <2> QED
    BY <2>1, <2>2 DEF IsTab, Fresh, ViewOK, ViewFields
<1> HIDE DEF s
<1>2. r = s \/ (IsTab(r) /\ r.at # "/feed")
  BY <1>1, OpenedIs DEF Routed
<1>3. IsTab(r)
  BY <1>1, <1>2
<1> HIDE DEF r
<1>4. d.at = r.at
  BY <1>3, FetchesFacts, StartedFollows DEF Follows
<1>5. CASE r = s /\ r.at = "/feed"
  <2>1. Waiting(r)
    BY <1>1, <1>5 DEF Waiting
  <2>2. Entered(d) /\ ~Sending(d, "like")
    BY <1>1, <1>5, <2>1, FirstPage
  <2> QED
    BY <1>0, <2>2
<1>6. CASE r.at # "/feed"
  BY <1>0, <1>4, <1>6
<1> QED
  BY <1>2, <1>5, <1>6

-----------------------------------------------------------------------------
(* The feed: what is taken from the network.                                 *)

LEMMA OddAdd ==
    ASSUME NEW S, IsFiniteSet(S), NEW x
    PROVE  /\ x \notin S => (IsOdd(S \cup {x}) <=> ~IsOdd(S))
           /\ x \in S => (IsOdd(S \ {x}) <=> ~IsOdd(S))
<1>1. Cardinality(S) \in Nat
  BY FS_CardinalityType
<1>2. Cardinality(S \ {x}) \in Nat
  BY FS_RemoveElement, FS_CardinalityType
<1>3. x \notin S => Cardinality(S \cup {x}) = Cardinality(S) + 1
  BY FS_AddElement
<1>4. x \in S => Cardinality(S \ {x}) = Cardinality(S) - 1
  BY FS_RemoveElement
<1>5. \A m \in Nat : (m + 1) % 2 = 1 <=> ~(m % 2 = 1)
  OBVIOUS
<1>6. x \in S => Cardinality(S) = Cardinality(S \ {x}) + 1
  BY <1>1, <1>2, <1>4
<1> QED
  BY <1>1, <1>2, <1>3, <1>5, <1>6 DEF IsOdd

LEMMA UndoneIsFinite ==
    ASSUME NEW c, IsTab(c), NEW id, NEW u PROVE IsFiniteSet(Undone(c, id, u))
<1>1. DOMAIN c.net = 1..Len(c.net) /\ Len(c.net) \in Nat
  BY DEF IsTab, IsNet, IsSequence
<1>2. IsFiniteSet(DOMAIN c.net)
  BY <1>1, FS_Interval
<1> QED
  BY <1>2, FS_Subset DEF Undone

\* Where a request was before the one at i was taken.
Was(i, j) == IF j < i THEN j ELSE j + 1
Taken(c, i, d) ==
    /\ IsTab(d) /\ d.at = c.at /\ d.view = c.view /\ d.user = c.user /\ d.saved = c.saved
    /\ \A j \in DOMAIN d.net : Was(i, j) \in DOMAIN c.net \ {i} /\ d.net[j] = c.net[Was(i, j)]
    /\ \A j, k \in DOMAIN d.net : Was(i, j) = Was(i, k) => j = k
    /\ \A m \in DOMAIN c.net \ {i} : \E j \in DOMAIN d.net : Was(i, j) = m
LEMMA TakingIsTaken ==
    ASSUME NEW c, IsTab(c), NEW i \in DOMAIN c.net
    PROVE  Taken(c, i, [c EXCEPT !.net = RemoveAt(@, i)])
<1> DEFINE d == [c EXCEPT !.net = RemoveAt(@, i)]
<1>1. /\ DOMAIN d = TabFields /\ d.net = RemoveAt(c.net, i)
      /\ d.user = c.user /\ d.saved = c.saved /\ d.at = c.at /\ d.view = c.view
  BY DEF IsTab, TabFields
<1> HIDE DEF d
<1>2. IsSequence(c.net) /\ DOMAIN c.net = 1..Len(c.net) /\ Len(c.net) \in Nat
  BY DEF IsTab, IsNet, IsSequence
<1>3. /\ IsSequence(d.net) /\ DOMAIN d.net = 1..(Len(c.net) - 1)
      /\ \A j \in 1..(Len(c.net) - 1) : d.net[j] = IF j < i THEN c.net[j] ELSE c.net[j + 1]
  BY <1>1, <1>2, RemoveFromSequence
<1>4. \A j \in DOMAIN d.net :
        Was(i, j) \in DOMAIN c.net \ {i} /\ d.net[j] = c.net[Was(i, j)]
  BY <1>2, <1>3 DEF Was
<1>5. \A j, k \in DOMAIN d.net : Was(i, j) = Was(i, k) => j = k
  BY <1>2, <1>3 DEF Was
<1>6. ASSUME NEW m \in DOMAIN c.net \ {i} PROVE \E j \in DOMAIN d.net : Was(i, j) = m
  <2>1. CASE m < i
    BY <1>2, <1>3, <2>1 DEF Was
  <2>2. CASE ~(m < i)
    <3>1. m - 1 \in DOMAIN d.net /\ Was(i, m - 1) = m
      BY <1>2, <1>3, <2>2 DEF Was
    <3> QED
      BY <3>1
  <2> QED
    BY <2>1, <2>2
<1>7. IsTab(d)
  BY <1>1, <1>3, <1>4 DEF IsTab, IsNet
<1> QED
  BY <1>1, <1>4, <1>5, <1>6, <1>7 DEF Taken, d

LEMMA TakenUndone ==
    ASSUME NEW c, IsTab(c), NEW i \in DOMAIN c.net, NEW d, Taken(c, i, d), NEW id, NEW u
    PROVE  /\ Owes(c.net[i], id, u) => (IsOdd(Undone(d, id, u)) <=> ~IsOdd(Undone(c, id, u)))
           /\ ~Owes(c.net[i], id, u) => (IsOdd(Undone(d, id, u)) <=> IsOdd(Undone(c, id, u)))
<1> DEFINE S == Undone(d, id, u)
           U == Undone(c, id, u)
           T == U \ {i}
           f == [j \in S |-> Was(i, j)]
<1>1. IsFiniteSet(S) /\ IsFiniteSet(U)
  BY UndoneIsFinite DEF Taken
<1>2. \A j \in S : Was(i, j) \in T
  BY DEF Taken, Undone
<1>3. \A j, k \in S : Was(i, j) = Was(i, k) => j = k
  BY DEF Taken, Undone
<1>4. \A m \in T : \E j \in S : Was(i, j) = m
  BY DEF Taken, Undone
<1>5. i \in U <=> Owes(c.net[i], id, u)
  BY DEF Undone
<1> HIDE DEF S, U
<1>6. f \in Bijection(S, T)
  BY <1>2, <1>3, <1>4 DEF Bijection, Injection, IsInjective, Surjection
<1>7. Cardinality(T) = Cardinality(S)
  <2>1. ExistsBijection(S, T)
    BY <1>6 DEF ExistsBijection
  <2> QED
    BY <1>1, <2>1, FS_Bijection
<1>8. IsOdd(T) <=> IsOdd(S)
  BY <1>7 DEF IsOdd
<1>9. i \notin U => T = U
  OBVIOUS
<1>10. i \in U => (IsOdd(T) <=> ~IsOdd(U))
  BY <1>1, OddAdd
<1> QED
  BY <1>5, <1>8, <1>9, <1>10 DEF S, U

LEMMA TakenPaged ==
    ASSUME NEW c, IsTab(c), NEW i \in DOMAIN c.net, NEW d, Taken(c, i, d), NEW o, Paged(c, o)
    PROVE  Paged(d, o)
<1>1. ItemsOK(d)
  BY DEF Taken, Paged, ItemsOK
<1>2. Asked(d)
  BY DEF Taken, Paged, Asked
<1>3. InOrder(c) => InOrder(d)
  BY DEF Taken, InOrder
<1> QED
  BY <1>1, <1>2, <1>3 DEF Paged

\* What Agrees says of requests, and of requests alone.
Settling(c, b) ==
    /\ ~(Sending(c, "like") /\ Sending(c, "feed"))
    /\ \A i \in DOMAIN c.net : c.net[i].op = "like" =>
         c.net[i].to = "page" /\ c.net[i].arg[2] = c.net[i].who
    /\ \A i \in DOMAIN c.net : ForPage(c.net[i]) /\ c.net[i].phase = "ok" =>
         \A n \in DOMAIN c.net[i].data.items :
            c.net[i].data.items[n].likes = b.likes[c.net[i].data.items[n].id]
LEMMA TakenSettling ==
    ASSUME NEW c, NEW i, NEW d, Taken(c, i, d), NEW b, Agrees(c, b) PROVE Settling(d, b)
<1>1. \A op : Sending(d, op) => Sending(c, op)
  BY DEF Sending, Taken
<1> QED
  BY <1>1 DEF Agrees, Settling, Taken

\* An answer that is no like to take back leaves the page as it was.
LEMMA TakenFeed ==
    ASSUME NEW c, IsTab(c), NEW i \in DOMAIN c.net, NEW d, Taken(c, i, d),
           NEW o, NEW p, o \subseteq p, NEW b, FeedOK(c, b, o), c.at = "/feed",
           Plainly(p) => c.net[i].op # "like" \/ c.net[i].phase = "ok"
    PROVE  FeedOK(d, b, p)
<1>1. Paged(c, o) /\ (Plainly(p) => Agrees(c, b))
  BY DEF FeedOK, Plainly
<1>2. Paged(d, o)
  BY <1>1, TakenPaged
<1>3. Paged(d, p)
  BY <1>2 DEF Paged, Whole
<1>4. ASSUME Plainly(p) PROVE Agrees(d, b)
  <2>1. Settling(d, b)
    BY <1>1, <1>4, TakenSettling
  <2>2. ASSUME NEW id, NEW v PROVE IsOdd(Undone(d, id, v)) <=> IsOdd(Undone(c, id, v))
    BY <1>4, TakenUndone DEF Owes
  <2>3. d.view = c.view
    BY DEF Taken
  <2> QED
    BY <1>1, <1>4, <2>1, <2>2, <2>3 DEF Agrees, Settling
<1> QED
  BY <1>3, <1>4 DEF FeedOK

\* A like that is shown, or taken back.
LEMMA LikedIs ==
    ASSUME NEW c, IsTab(c), ViewOK(c), ItemsOK(c), NEW id, NEW u
    PROVE  LET d == Liked(c, id, u)
           IN  /\ IsTab(d) /\ ViewOK(d) /\ d.net = c.net /\ d.at = c.at
               /\ d.user = c.user /\ d.saved = c.saved
               /\ d.view.page = c.view.page /\ d.view.loaded = c.view.loaded
               /\ d.view.last = c.view.last /\ d.view.busy = c.view.busy
               /\ d.view.failed = c.view.failed
               /\ IsSequence(d.view.items) /\ Len(d.view.items) = Len(c.view.items)
               /\ DOMAIN d.view.items = DOMAIN c.view.items
               /\ \A n \in DOMAIN c.view.items :
                    /\ DOMAIN d.view.items[n] = {"id", "likes"}
                    /\ d.view.items[n].id = c.view.items[n].id
                    /\ d.view.items[n].likes = IF c.view.items[n].id = id
                                               THEN Toggled(c.view.items[n].likes, u)
                                               ELSE c.view.items[n].likes
<1> DEFINE d == Liked(c, id, u)
           old == c.view.items
           new == [n \in DOMAIN old |-> IF old[n].id = id THEN Reacted(old[n], u) ELSE old[n]]
<1>1. /\ IsTab(d) /\ ViewOK(d) /\ d.net = c.net /\ d.at = c.at
      /\ d.user = c.user /\ d.saved = c.saved
      /\ d.view.page = c.view.page /\ d.view.loaded = c.view.loaded
      /\ d.view.last = c.view.last /\ d.view.busy = c.view.busy
      /\ d.view.failed = c.view.failed /\ d.view.items = new
  <2>1. d = [c EXCEPT !.view.items = new]
    BY DEF Liked
  <2> HIDE DEF new, d
  <2>2. IsTab(d) /\ d.net = c.net /\ d.at = c.at /\ d.user = c.user /\ d.saved = c.saved
    BY <2>1 DEF IsTab, TabFields
  <2>3. d.view = [c.view EXCEPT !.items = new]
    BY <2>1 DEF IsTab, TabFields
  <2> QED
    BY <2>2, <2>3 DEF ViewOK, ViewFields
<1> HIDE DEF d
<1>2. Len(old) \in Nat /\ DOMAIN old = 1..Len(old)
  BY DEF ItemsOK, IsSequence
<1>3. /\ DOMAIN new = 1..Len(old) /\ new = [n \in 1..Len(old) |-> new[n]]
  BY <1>2
<1>4. \A n \in DOMAIN old :
        /\ DOMAIN new[n] = {"id", "likes"} /\ new[n].id = old[n].id
        /\ new[n].likes = IF old[n].id = id THEN Toggled(old[n].likes, u) ELSE old[n].likes
  BY DEF ItemsOK, Reacted
<1> HIDE DEF new
<1>5. IsSequence(new) /\ Len(new) = Len(old)
  BY <1>2, <1>3, FunctionIsSequence
<1> QED
  BY <1>1, <1>2, <1>3, <1>4, <1>5 DEF d

LEMMA LikedPaged ==
    ASSUME NEW c, IsTab(c), ViewOK(c), NEW o, Paged(c, o), NEW id, NEW u
    PROVE  Paged(Liked(c, id, u), o)
<1> DEFINE d == Liked(c, id, u)
<1>0. ItemsOK(c)
  BY DEF Paged
<1>1. /\ d.net = c.net
      /\ d.view.page = c.view.page /\ d.view.loaded = c.view.loaded
      /\ d.view.last = c.view.last /\ d.view.busy = c.view.busy
      /\ d.view.failed = c.view.failed
      /\ IsSequence(d.view.items) /\ Len(d.view.items) = Len(c.view.items)
      /\ DOMAIN d.view.items = DOMAIN c.view.items
      /\ \A n \in DOMAIN c.view.items :
           DOMAIN d.view.items[n] = {"id", "likes"} /\ d.view.items[n].id = c.view.items[n].id
  BY <1>0, LikedIs
<1> HIDE DEF d
<1>2. ItemsOK(d)
  BY <1>0, <1>1 DEF ItemsOK
<1>3. Asked(c) => Asked(d)
  BY <1>1 DEF Asked
<1>4. InOrder(c) => InOrder(d)
  BY <1>1 DEF InOrder
<1> QED
  BY <1>2, <1>3, <1>4 DEF Paged, d

\* A like that failed is taken back on the page, and then no longer owed.
LEMMA FailedLikeFeed ==
    ASSUME NEW c, IsTab(c), ViewOK(c), c.at = "/feed", NEW i \in DOMAIN c.net,
           NEW d, Taken(c, i, d), c.net[i].op = "like", c.net[i].phase # "ok",
           NEW o, NEW b, FeedOK(c, b, o)
    PROVE  FeedOK(Liked(d, c.net[i].arg[1], c.net[i].arg[2]), b, o)
<1> DEFINE q == c.net[i]
           id == q.arg[1]
           u == q.arg[2]
           e == Liked(d, id, u)
<1>1. Paged(c, o) /\ (Plainly(o) => Agrees(c, b))
  BY DEF FeedOK
<1>2. IsTab(d) /\ ViewOK(d) /\ d.view = c.view
  BY DEF Taken, ViewOK
<1>3. Paged(d, o)
  BY <1>1, TakenPaged
<1>4. Paged(e, o)
  BY <1>2, <1>3, LikedPaged
<1>5. /\ e.net = d.net /\ DOMAIN e.view.items = DOMAIN d.view.items
      /\ \A n \in DOMAIN d.view.items :
           /\ e.view.items[n].id = d.view.items[n].id
           /\ e.view.items[n].likes = IF d.view.items[n].id = id
                                      THEN Toggled(d.view.items[n].likes, u)
                                      ELSE d.view.items[n].likes
  <2>1. ItemsOK(d)
    BY <1>3 DEF Paged
  <2> HIDE DEF id, u
  <2> QED
    BY <1>2, <2>1, LikedIs
<1> HIDE DEF e
<1>6. ASSUME Plainly(o) PROVE Agrees(e, b)
  <2>1. Agrees(c, b)
    BY <1>1, <1>6
  <2>2. u = q.who
    BY <2>1 DEF Agrees
  <2>3. Settling(d, b)
    BY <2>1, TakenSettling
  <2>4. Settling(e, b)
    BY <1>5, <2>3 DEF Settling, Sending
  <2>5. \A k, v : Undone(e, k, v) = Undone(d, k, v)
    BY <1>5 DEF Undone
  <2>6. ASSUME NEW n \in DOMAIN e.view.items, NEW v
        PROVE  (v \in e.view.items[n].likes) <=>
                 ((v \in b.likes[e.view.items[n].id]) <=> ~IsOdd(Undone(e, e.view.items[n].id, v)))
    <3> DEFINE k == c.view.items[n].id
    <3>1. /\ n \in DOMAIN c.view.items /\ e.view.items[n].id = k
          /\ e.view.items[n].likes = IF k = id THEN Toggled(c.view.items[n].likes, u)
                                     ELSE c.view.items[n].likes
      BY <1>2, <1>5
    <3>2. (v \in c.view.items[n].likes) <=> ((v \in b.likes[k]) <=> ~IsOdd(Undone(c, k, v)))
      BY <2>1, <3>1 DEF Agrees
    <3>3. (v \in e.view.items[n].likes) <=>
             (IF k = id /\ v = u THEN ~(v \in c.view.items[n].likes)
              ELSE v \in c.view.items[n].likes)
      BY <3>1 DEF Toggled
    <3>4. Owes(q, k, v) <=> (k = id /\ v = u)
      BY <2>2 DEF Owes
    <3> HIDE DEF k, q
    <3>5. /\ Owes(q, k, v) => (IsOdd(Undone(d, k, v)) <=> ~IsOdd(Undone(c, k, v)))
          /\ ~Owes(q, k, v) => (IsOdd(Undone(d, k, v)) <=> IsOdd(Undone(c, k, v)))
      BY TakenUndone DEF q
    <3> QED
      BY <2>5, <3>1, <3>2, <3>3, <3>4, <3>5
  <2> QED
    BY <2>4, <2>6 DEF Agrees, Settling
<1> QED
  BY <1>4, <1>6 DEF FeedOK, e

-----------------------------------------------------------------------------
(* The feed: answers.                                                        *)

LEMMA NothingUndone ==
    ASSUME NEW c, ~Sending(c, "like"), NEW id, NEW u PROVE ~IsOdd(Undone(c, id, u))
<1>1. Undone(c, id, u) = {}
  BY DEF Undone, Owes, Sending
<1>2. Cardinality({}) = 0
  BY FS_EmptySet
<1> QED
  BY <1>1, <1>2 DEF IsOdd

\* What a page adds to the items: the first page starts them again.
Base(old, page) == IF page = 1 THEN <<>> ELSE old
Adds(old, page, q, base, new) ==
    /\ IsSequence(new) /\ IsSequence(base)
    /\ \A n \in DOMAIN base : n \in DOMAIN old /\ new[n] = old[n]
    /\ q.data.last = (page >= NumItems)
    /\ \/ page > NumItems /\ DOMAIN new = DOMAIN base /\ Len(new) = Len(base)
       \/ /\ page <= NumItems /\ Len(new) = Len(base) + 1
          /\ DOMAIN new = DOMAIN base \cup {Len(base) + 1}
          /\ 1 \in DOMAIN q.data.items
          /\ new[Len(base) + 1] = q.data.items[1]
          /\ DOMAIN q.data.items[1] = {"id", "likes"} /\ q.data.items[1].id = page
LEMMA PageAdds ==
    ASSUME NEW old, IsSequence(old), NEW page, page \in Nat \ {0}, NEW q, q.arg = <<page>>, Brings(q)
    PROVE  Adds(old, page, q, Base(old, page),
                IF q.arg[1] = 1 THEN q.data.items ELSE old \o q.data.items)
<1> USE DEF Base, Adds
<1> DEFINE base == Base(old, page)
           new  == IF q.arg[1] = 1 THEN q.data.items ELSE old \o q.data.items
<1>1. q.arg[1] = page /\ NumItems \in Nat
  BY NumItemsAssumption
<1>2. IsSequence(<<>>) /\ DOMAIN <<>> = {}
  BY DEF IsSequence
<1>3. IsSequence(base)
  BY <1>2
<1>4. \A n \in DOMAIN base : n \in DOMAIN old /\ base[n] = old[n]
  BY <1>2
<1>5. CASE page > NumItems
  <2>1. q.data.items = <<>>
    BY <1>1, <1>5 DEF Brings
  <2> DEFINE S == {old[i] : i \in 1..Len(old)}
  <2>2. old \in Seq(S)
    BY SequenceIsSeq
  <2> HIDE DEF S
  <2>3. old \o <<>> = old
    BY <2>2, ConcatEmptySeq
  <2>4. new = base
    BY <1>1, <2>1, <2>3
  <2> HIDE DEF new, base
  <2> QED
    BY <1>1, <1>3, <1>4, <1>5, <2>4 DEF Brings, new, base
<1>6. CASE page <= NumItems
  <2>1. PICK likes : q.data.items = <<[id |-> page, likes |-> likes]>>
    BY <1>1, <1>6 DEF Brings
  <2> DEFINE item == [id |-> page, likes |-> likes]
             S == {base[i] : i \in 1..Len(base)} \cup {item}
             T == {old[i] : i \in 1..Len(old)} \cup {item}
  <2>2. DOMAIN item = {"id", "likes"} /\ item.id = page
    OBVIOUS
  <2>3. old \in Seq(T) /\ item \in T
    BY SequenceIsSeq
  <2>4. base \in Seq(S) /\ item \in S
    BY <1>3, SequenceIsSeq
  <2> HIDE DEF S, T, item
  <2>5. old \o <<item>> = Append(old, item)
    BY <2>3, AppendIsConcat
  <2>6. Append(<<>>, item) = <<item>>
    OBVIOUS
  <2>7. new = Append(base, item)
    BY <1>1, <2>1, <2>5, <2>6 DEF item
  <2> HIDE DEF new, base
  <2>8. /\ IsSequence(new) /\ DOMAIN base = 1..Len(base)
        /\ DOMAIN new = 1..(Len(base) + 1)
        /\ \A i \in 1..Len(base) : new[i] = base[i]
        /\ new[Len(base) + 1] = item
    BY <1>3, <2>7, AppendToSequence
  <2>9. Len(base) \in Nat
    BY <1>3 DEF IsSequence
  <2>10. DOMAIN new = DOMAIN base \cup {Len(base) + 1}
    BY <2>8, <2>9
  <2>11. Len(new) = Len(base) + 1
    BY <2>4, <2>7, AppendProperties
  <2>12. 1 \in DOMAIN q.data.items /\ q.data.items[1] = item
    BY <2>1 DEF item
  <2> QED
    BY <1>1, <1>3, <1>4, <1>6, <2>2, <2>8, <2>10, <2>11, <2>12 DEF Brings, new, base
<1> QED
  BY <1>1, <1>5, <1>6

\* The answer for a page of the feed.
LEMMA PageShownFeed ==
    ASSUME NEW c, IsTab(c), ViewOK(c), c.at = "/feed", NEW i \in DOMAIN c.net,
           NEW d, Taken(c, i, d), ForPage(c.net[i]), c.net[i].phase = "ok",
           NEW o, NEW b, FeedOK(c, b, o)
    PROVE  FeedOK(PageShown(d, c.net[i]), b, o)
<1> DEFINE q == c.net[i]
           e == PageShown(d, q)
           old == c.view.items
           page == c.view.page
           base == Base(old, page)
           new == IF q.arg[1] = 1 THEN q.data.items ELSE old \o q.data.items
<1>1. Paged(c, o) /\ (Plainly(o) => Agrees(c, b))
  BY DEF FeedOK
<1>2. /\ IsSequence(old) /\ page \in Nat \ {0} /\ q.arg = <<page>> /\ Brings(q)
      /\ c.view.failed = FALSE
  BY <1>1 DEF Paged, ItemsOK, Asked
<1>3. /\ e.net = d.net /\ e.view.items = new /\ e.view.last = q.data.last
      /\ e.view.busy = FALSE /\ e.view.failed = FALSE
      /\ e.view.page = page /\ e.view.loaded = c.view.loaded
  BY <1>2 DEF PageShown, Taken, IsTab, ViewOK, TabFields, ViewFields
<1> HIDE DEF e
<1>4. Adds(old, page, q, base, new)
  <2> HIDE DEF q, old, page
  <2> QED
    BY <1>2, PageAdds
<1>5. page = 1 => base = <<>>
  BY DEF Base
<1>6. page # 1 => base = old
  BY DEF Base
<1> HIDE DEF new, base, q, old, page
<1>7. NumItems \in Nat
  BY NumItemsAssumption
<1>8. \A j \in DOMAIN e.net : ~ForPage(e.net[j])
  BY <1>1, <1>3 DEF Taken, Paged, Asked, q
<1>9. ItemsOK(e)
  <2>1. ASSUME NEW n \in DOMAIN new
        PROVE  DOMAIN new[n] = {"id", "likes"} /\ new[n].id \in 1..NumItems
    <3>1. CASE n \in DOMAIN base
      BY <1>1, <1>4, <3>1 DEF Paged, ItemsOK, Adds, old
    <3>2. CASE n \notin DOMAIN base
      <4>1. page <= NumItems /\ new[n] = q.data.items[1]
        BY <1>4, <2>1, <3>2 DEF Adds
      <4>2. DOMAIN q.data.items[1] = {"id", "likes"} /\ q.data.items[1].id = page
        BY <1>4, <2>1, <3>2 DEF Adds
      <4> QED
        BY <1>2, <1>7, <4>1, <4>2
    <3> QED
      BY <3>1, <3>2
  <2>2. ItemsOK(c)
    BY <1>1 DEF Paged
  <2> QED
    BY <1>3, <1>4, <2>1, <2>2 DEF ItemsOK, Adds, page
<1>10. Asked(e)
  BY <1>8 DEF Asked
<1>11. ASSUME InOrder(c) PROVE InOrder(e)
  <2>1. page = Len(base) + 1
    <3>1. CASE page = 1
      <4>1. Len(<<>>) = 0
        OBVIOUS
      <4> QED
        BY <1>5, <3>1, <4>1
    <3>2. CASE page # 1
      <4>1. \E k \in DOMAIN c.net : ForPage(c.net[k])
        OBVIOUS
      <4> QED
        BY <1>6, <1>11, <3>2, <4>1 DEF InOrder, old, page
    <3> QED
      BY <3>1, <3>2
  <2>2. \A n \in DOMAIN new : new[n].id = n
    BY <1>4, <1>11, <2>1 DEF InOrder, Adds, old
  <2>3. q.data.last # TRUE => page = Len(new)
    <3>1. q.data.last = (page >= NumItems)
      BY <1>4 DEF Adds
    <3>2. q.data.last # TRUE => ~(page >= NumItems)
      BY <3>1
    <3>3. page \in Nat /\ (page > NumItems => page >= NumItems)
      BY <1>2, <1>7
    <3>4. page > NumItems \/ Len(new) = Len(base) + 1
      BY <1>4 DEF Adds
    <3> QED
      BY <2>1, <3>2, <3>3, <3>4
  <2> QED
    BY <1>3, <1>8, <2>2, <2>3 DEF InOrder
<1>12. ASSUME Plainly(o) PROVE Agrees(e, b)
  <2>1. Agrees(c, b)
    BY <1>1, <1>12
  <2>2. Settling(d, b)
    BY <2>1, TakenSettling
  <2>3. Settling(e, b)
    BY <1>3, <2>2 DEF Settling, Sending
  <2>4. ~Sending(c, "like")
    <3>1. Sending(c, "feed")
      BY DEF Sending, ForPage
    <3> QED
      BY <2>1, <3>1 DEF Agrees
  <2>5. ~Sending(e, "like")
    BY <1>3, <2>4 DEF Sending, Taken
  <2>6. ASSUME NEW n \in DOMAIN new, NEW v
        PROVE  (v \in new[n].likes) <=> (v \in b.likes[new[n].id])
    <3>1. CASE n \in DOMAIN base
      <4>1. n \in DOMAIN old /\ new[n] = old[n]
        BY <1>4, <3>1 DEF Adds
      <4>2. ~IsOdd(Undone(c, old[n].id, v))
        BY <2>4, NothingUndone
      <4> QED
        BY <2>1, <4>1, <4>2 DEF Agrees, old
    <3>2. CASE n \notin DOMAIN base
      <4>1. 1 \in DOMAIN q.data.items /\ new[n] = q.data.items[1]
        BY <1>4, <2>6, <3>2 DEF Adds
      <4>2. q.data.items[1].likes = b.likes[q.data.items[1].id]
        BY <2>1, <4>1 DEF Agrees, q
      <4> QED
        BY <4>1, <4>2
    <3> QED
      BY <3>1, <3>2
  <2>7. \A n \in DOMAIN new : \A v : ~IsOdd(Undone(e, new[n].id, v))
    BY <2>5, NothingUndone
  <2> QED
    BY <1>3, <2>3, <2>6, <2>7 DEF Agrees, Settling
<1>13. Paged(e, o)
  BY <1>1, <1>9, <1>10, <1>11 DEF Paged
<1> QED
  BY <1>12, <1>13 DEF FeedOK, Paged, e, q

\* A page of the feed that fails.
LEMMA PageFailedFeed ==
    ASSUME NEW c, IsTab(c), ViewOK(c), c.at = "/feed", NEW i \in DOMAIN c.net,
           NEW d, Taken(c, i, d), ForPage(c.net[i]), NEW page, NEW o, NEW b, FeedOK(c, b, o)
    PROVE  FeedOK([d EXCEPT !.view.busy = FALSE, !.view.failed = TRUE,
                            !.view.loaded = @ \ {page}], b, o)
<1> DEFINE e == [d EXCEPT !.view.busy = FALSE, !.view.failed = TRUE, !.view.loaded = @ \ {page}]
<1>1. Paged(c, o) /\ (Plainly(o) => Agrees(c, b))
  BY DEF FeedOK
<1>2. /\ e.net = d.net /\ e.view.items = c.view.items /\ e.view.page = c.view.page
      /\ e.view.loaded = c.view.loaded \ {page}
      /\ e.view.busy = FALSE /\ e.view.failed = TRUE
  BY DEF Taken, IsTab, ViewOK, TabFields, ViewFields
<1> HIDE DEF e
<1>3. \A j \in DOMAIN e.net : ~ForPage(e.net[j])
  BY <1>1, <1>2 DEF Taken, Paged, Asked
<1>4. ItemsOK(e)
  BY <1>1, <1>2 DEF Paged, ItemsOK
<1>5. Asked(e)
  BY <1>3 DEF Asked
<1>6. InOrder(c) => InOrder(e)
  BY <1>2, <1>3 DEF InOrder
<1>7. Paged(e, o)
  BY <1>1, <1>4, <1>5, <1>6 DEF Paged
<1>8. ASSUME Plainly(o) PROVE Agrees(e, b)
  <2>1. Settling(d, b) /\ Agrees(c, b)
    BY <1>1, <1>8, TakenSettling
  <2>2. Settling(e, b)
    BY <1>2, <2>1 DEF Settling, Sending
  <2>3. ASSUME NEW id, NEW v PROVE IsOdd(Undone(e, id, v)) <=> IsOdd(Undone(c, id, v))
    <3>1. Undone(e, id, v) = Undone(d, id, v)
      BY <1>2 DEF Undone
    <3>2. ~Owes(c.net[i], id, v)
      BY DEF ForPage, Owes
    <3> QED
      BY <3>1, <3>2, TakenUndone
  <2> QED
    BY <1>2, <2>1, <2>2, <2>3 DEF Agrees, Settling
<1> QED
  BY <1>7, <1>8 DEF FeedOK, e

-----------------------------------------------------------------------------
(* The feed: what is none of its business.                                   *)

LEMMA AskAside ==
    ASSUME NEW c, IsTab(c), NEW op, op \notin {"feed", "like"}, NEW arg
    PROVE  /\ Aside(c, Asks(c, op, arg)) /\ IsTab(Asks(c, op, arg))
           /\ \A store : Aside(c, Loads(c, store, op, arg)) /\ IsTab(Loads(c, store, op, arg))
<1>1. ASSUME NEW e, IsTab(e) PROVE Aside(e, Asks(e, op, arg)) /\ IsTab(Asks(e, op, arg))
  <2> DEFINE d == Asks(e, op, arg)
             k == Len(e.net) + 1
  <2>1. /\ IsTab(d) /\ d.at = e.at /\ d.view = e.view
        /\ d.user = e.user /\ d.saved = e.saved
        /\ k \notin DOMAIN e.net
        /\ DOMAIN d.net = DOMAIN e.net \cup {k}
        /\ \A i \in DOMAIN e.net : d.net[i] = e.net[i]
        /\ d.net[k] = Request(op, arg, e.saved)
    BY <1>1, AskingExtends
  <2>2. ~About(Request(op, arg, e.saved))
    BY RequestIsRequest DEF About
  <2> HIDE DEF d, k
  <2>3. SameAsks(e.net, d.net)
    BY <2>1, <2>2 DEF SameAsks
  <2>4. SameFeed(e.view, d.view)
    BY <2>1 DEF SameFeed
  <2> QED
    BY <2>1, <2>3, <2>4 DEF Aside, d
<1>2. ASSUME NEW store PROVE Aside(c, Loads(c, store, op, arg)) /\ IsTab(Loads(c, store, op, arg))
  <2> DEFINE e == [c EXCEPT !.busy = @ \cup {store}, !.err = @ \ {store}]
  <2>1. SameView(c, e)
    BY DEF SameView, IsTab, TabFields
  <2> HIDE DEF e
  <2>2. Aside(c, e) /\ IsTab(e)
    BY <2>1, ChangeAside DEF SameView, IsTab
  <2>3. Aside(e, Asks(e, op, arg)) /\ IsTab(Asks(e, op, arg))
    BY <1>1, <2>2
  <2> QED
    BY <2>2, <2>3, AsideTransitive DEF Loads, e
<1> QED
  BY <1>1, <1>2

LEMMA HomewardsAside ==
    ASSUME NEW c, IsTab(c), NEW q PROVE Aside(c, Homewards(c, q))
<1>1. Aside(c, c)
  BY AsideSame DEF SameFeed
<1> QED
  BY <1>1, PushAside DEF Homewards

LEMMA LoggedInAside ==
    ASSUME NEW c, IsTab(c), NEW u PROVE Aside(c, LoggedIn(c, u))
<1> DEFINE a == [c EXCEPT !.saved = u, !.user = u]
           b == fetchUserDetails(a, <<"home">>)
<1>1. SameView(c, a)
  BY DEF SameView, IsTab, TabFields
<1> HIDE DEF a
<1>2. Aside(c, a) /\ IsTab(a)
  BY <1>1, ChangeAside DEF SameView, IsTab
<1>3. Aside(a, b) /\ IsTab(b)
  BY <1>2, AskAside DEF fetchUserDetails
<1>4. Aside(c, b)
  BY <1>2, <1>3, AsideTransitive
<1> HIDE DEF b
<1>5. Aside(c, Dispatch(c, b))
  BY <1>3, <1>4, DispatchAside
<1> QED
  BY <1>5 DEF LoggedIn, a, b

LEMMA LeavingRoundAside ==
    ASSUME NEW c, ListsOK(c), NEW d, SameView(c, d)
    PROVE  Aside(c, Push(Dispatch(c, d), "/", <<>>))
<1> DEFINE e == Dispatch(c, d)
<1>1. ListsOK(e)
  BY ChangeLists
<1>2. Aside(c, e)
  BY ChangeAside DEF ListsOK
<1> HIDE DEF e
<1>3. Aside(e, Push(e, "/", <<>>))
  BY <1>1, PushAside DEF ListsOK
<1> QED
  BY <1>2, <1>3, AsideTransitive DEF e

LEMMA ActiveRoundAside ==
    ASSUME NEW c, ListsOK(c), NEW d, SameView(c, d), NEW id
    PROVE  Aside(c, fetchPaceData(Dispatch(c, d), id))
<1> DEFINE e == Dispatch(c, d)
<1>1. ListsOK(e)
  BY ChangeLists
<1>2. Aside(c, e)
  BY ChangeAside DEF ListsOK
<1> HIDE DEF e
<1>3. Aside(e, fetchPaceData(e, id))
  BY <1>1, AskAside DEF ListsOK, fetchPaceData
<1> QED
  BY <1>2, <1>3, AsideTransitive DEF e

\* What succeeds, but for a page of the feed, leaves the feed as it is.
LEMMA SucceededAside ==
    ASSUME NEW c, ListsOK(c), NEW q, q.to = "page" => Fits(c, q), ~ForPage(q)
    PROVE  Aside(c, Succeeded(c, q))
<1> DEFINE d == Succeeded(c, q)
<1> USE DEF OnPage, Lists
<1>0. IsTab(c) /\ ViewOK(c)
  BY DEF ListsOK
<1>1. CASE q.op = "details"
  <2> DEFINE e == [c EXCEPT !.details = q.data]
             r == Dispatch(c, e)
  <2>1. d = Homewards(r, q)
    BY <1>1 DEF Succeeded
  <2>2. SameView(c, e)
    BY <1>0 DEF SameView, IsTab, TabFields
  <2> HIDE DEF e
  <2>3. Aside(c, r) /\ ListsOK(r)
    BY <1>0, <2>2, ChangeAside, ChangeLists
  <2> HIDE DEF r
  <2>4. Aside(r, Homewards(r, q))
    BY <2>3, HomewardsAside DEF ListsOK
  <2> QED
    BY <2>1, <2>3, <2>4, AsideTransitive
<1>2. CASE q.op \in {"recent", "pace", "courseStats", "roundStats", "courses", "tournaments"}
  <2>1. SameView(c, d)
    BY <1>2 DEF Succeeded, SameView, Done, ListsOK, IsTab, TabFields
  <2> QED
    BY <1>0, <2>1, ChangeAside
<1>3. CASE q.op \in {"tournament", "join", "calculatePrices", "profile", "achievements", "rounds"}
  <2>1. SameView(c, d)
    BY <1>3 DEF Succeeded, SameView, Done, ListsOK, IsTab, TabFields
  <2> QED
    BY <1>0, <2>1, ChangeAside
<1>4. CASE q.op = "round"
  <2> DEFINE e == Done([c EXCEPT !.round = q.data], "round")
  <2>1. d = Dispatch(c, e)
    BY <1>4 DEF Succeeded
  <2>2. SameView(c, e)
    BY DEF SameView, Done, ListsOK, IsTab, TabFields
  <2> HIDE DEF e
  <2> QED
    BY <1>0, <2>1, <2>2, ChangeAside
<1>5. CASE q.op \in {"activeRound", "score"}
  <2> DEFINE e == [c EXCEPT !.round = q.data]
  <2>1. d = IF q.op = "score" THEN Dispatch(c, e)
            ELSE IF q.data.completed THEN c ELSE fetchPaceData(Dispatch(c, e), q.arg[1])
    BY <1>5 DEF Succeeded
  <2>2. SameView(c, e)
    BY DEF SameView, ListsOK, IsTab, TabFields
  <2> HIDE DEF e
  <2>3. Aside(c, Dispatch(c, e)) /\ Aside(c, fetchPaceData(Dispatch(c, e), q.arg[1]))
    BY <1>0, <2>2, ChangeAside, ActiveRoundAside
  <2>4. Aside(c, c)
    BY AsideSame DEF SameFeed
  <2> QED
    BY <2>1, <2>3, <2>4
<1>6. CASE q.op = "complete"
  <2> DEFINE e == [c EXCEPT !.round.completed = TRUE]
  <2>1. d = IF c.round = NoRound THEN c ELSE Dispatch(c, e)
    BY <1>6 DEF Succeeded
  <2>2. SameView(c, e)
    BY DEF SameView, ListsOK, IsTab, TabFields
  <2> HIDE DEF e
  <2>3. Aside(c, c)
    BY AsideSame DEF SameFeed
  <2> QED
    BY <1>0, <2>1, <2>2, <2>3, ChangeAside
<1>7. CASE q.op \in {"delete", "leave"}
  <2> DEFINE a == clearActiveRound([c EXCEPT !.round = NoRound])
             b == [c EXCEPT !.round = NoRound]
  <2>1. d = Push(Dispatch(c, IF q.op = "delete" THEN a ELSE b), "/", <<>>)
    BY <1>7 DEF Succeeded
  <2>2. SameView(c, a) /\ SameView(c, b)
    BY DEF clearActiveRound, SameView, ListsOK, IsTab, TabFields
  <2> HIDE DEF a, b
  <2> QED
    BY <1>7, <2>1, <2>2, LeavingRoundAside
<1>8. CASE q.op \in {"createRound", "createTournament"}
  <2>1. d = Push(c, IF q.op = "createRound" THEN "/rounds" ELSE "/tournament", <<q.data>>)
    BY <1>8 DEF Succeeded
  <2>2. (IF q.op = "createRound" THEN "/rounds" ELSE "/tournament") # "/feed"
    OBVIOUS
  <2> QED
    BY <1>0, <2>1, <2>2, PushAside
<1>9. CASE q.op = "createCourse"
  <2> DEFINE e == [c EXCEPT !.courses = @ \cup {q.data}]
  <2>1. d = Push(e, "/course", q.arg)
    BY <1>9 DEF Succeeded
  <2>2. SameView(c, e)
    BY DEF SameView, ListsOK, IsTab, TabFields
  <2> HIDE DEF e
  <2>3. Aside(c, e) /\ IsTab(e)
    BY <1>0, <2>2, ChangeAside DEF SameView, IsTab
  <2>4. Aside(e, Push(e, "/course", q.arg))
    BY <2>3, PushAside
  <2> QED
    BY <2>1, <2>3, <2>4, AsideTransitive
<1>10. CASE q.op = "addCourse"
  <2> DEFINE e == IF q.to = "page" THEN [c EXCEPT !.view.ask = 0] ELSE c
  <2>1. d = CourseAdded(e, q.arg[2])
    BY <1>10 DEF Succeeded
  <2>2. IsTab(e) /\ e.at = c.at /\ (q.to # "page" => e = c)
    BY DEF ListsOK, IsTab, TabFields
  <2> HIDE DEF e
  <2>3. SameView(e, CourseAdded(e, q.arg[2]))
    BY <2>2 DEF CourseAdded, HasCup, SameView, IsTab, TabFields
  <2>4. q.to = "page" => c.at = "/tournament"
    BY <1>10 DEF Fits
  <2>5. Aside(c, e)
    <3>1. Aside(c, c)
      BY AsideSame DEF SameFeed
    <3> QED
      BY <2>2, <2>4, <3>1 DEF Aside
  <2>6. Aside(e, CourseAdded(e, q.arg[2]))
    BY <2>2, <2>3, ChangeAside
  <2> QED
    BY <2>1, <2>5, <2>6, AsideTransitive
<1>11. CASE q.op \in {"login", "register"}
  <2>1. d = LoggedIn(c, q.arg[1])
    BY <1>11 DEF Succeeded
  <2> QED
    BY <1>0, <2>1, LoggedInAside
<1>12. CASE q.to = "page" /\ q.op \in Lists
  <2>1. d = Shown(c, q)
    BY <1>12 DEF Succeeded
  <2>2. d.at = c.at
    BY <2>1 DEF Shown, ListsOK, IsTab, TabFields
  <2>3. c.at # "/feed"
    BY <1>12 DEF Fits, Wanted
  <2> QED
    BY <2>2, <2>3 DEF Aside
<1>13. CASE /\ q.op \notin {"login", "register", "details", "recent", "pace", "courseStats",
                            "roundStats", "courses", "tournaments", "tournament", "join",
                            "calculatePrices", "profile", "achievements", "rounds", "round",
                            "activeRound", "score", "complete", "delete", "leave", "createRound",
                            "createTournament", "createCourse", "addCourse"}
            /\ ~(q.to = "page" /\ q.op \in Lists)
  <2>1. d = c
    BY <1>13 DEF Succeeded, ForPage
  <2> QED
    BY <2>1, AsideSame DEF SameFeed
<1> QED
  BY <1>1, <1>2, <1>3, <1>4, <1>5, <1>6, <1>7, <1>8, <1>9, <1>10, <1>11, <1>12, <1>13

\* What fails, but for a page of the feed or a like, leaves the feed as it is.
LEMMA FailedAside ==
    ASSUME NEW c, ListsOK(c), NEW q, q.to = "page" => Fits(c, q),
           ~(q.to = "page" /\ About(q))
    PROVE  Aside(c, Failed(c, q))
<1> DEFINE d == Failed(c, q)
<1> USE DEF OnPage, Lists, About
<1>0. IsTab(c) /\ ViewOK(c)
  BY DEF ListsOK
<1>1. CASE q.op \in {"login", "register"}
  <2> DEFINE e == [c EXCEPT !.loginError = TRUE]
  <2>1. \E p : d = Homewards(e, p)
    BY <1>1 DEF Failed
  <2>2. SameView(c, e)
    BY DEF SameView, ListsOK, IsTab, TabFields
  <2> HIDE DEF e
  <2>3. Aside(c, e) /\ IsTab(e)
    BY <1>0, <2>2, ChangeAside DEF SameView, IsTab
  <2>4. Aside(e, d)
    BY <2>1, <2>3, HomewardsAside
  <2> QED
    BY <2>3, <2>4, AsideTransitive
<1>2. CASE q.op = "details"
  <2>1. d = Homewards(c, q)
    BY <1>2 DEF Failed
  <2> QED
    BY <1>0, <2>1, HomewardsAside
<1>3. CASE q.op \in {"round", "courses", "profile", "tournaments", "tournament", "achievements"}
  <2>1. SameView(c, d)
    BY <1>3 DEF Failed, Failing, Done, SameView, ListsOK, IsTab, TabFields
  <2> QED
    BY <1>0, <2>1, ChangeAside
<1>4. CASE q.to = "page" /\ q.op \in Lists
  <2>1. d = [c EXCEPT !.view.busy = FALSE, !.view.failed = TRUE]
    BY <1>4 DEF Failed
  <2>2. d.at = c.at
    BY <2>1 DEF ListsOK, IsTab, TabFields
  <2>3. c.at # "/feed"
    BY <1>4 DEF Fits, Wanted
  <2> QED
    BY <2>2, <2>3 DEF Aside
<1>5. CASE q.to = "page" /\ q.op \in {"createRound", "createCourse", "createTournament"}
  <2> DEFINE e == [c EXCEPT !.view.starting = FALSE]
  <2>1. d = e
    BY <1>5 DEF Failed
  <2>2. e.at = c.at /\ e.net = c.net /\ SameFeed(c.view, e.view)
    BY DEF SameFeed, ListsOK, IsTab, ViewOK, TabFields, ViewFields
  <2> HIDE DEF e
  <2> QED
    BY <2>1, <2>2, AsideSame
<1>6. CASE /\ q.op \notin {"login", "register", "details", "round", "courses", "profile",
                           "tournaments", "tournament", "achievements"}
           /\ ~(q.to = "page" /\ q.op \in Lists \cup {"createRound", "createCourse",
                                                      "createTournament"})
  <2>1. d = c
    BY <1>6 DEF Failed
  <2> QED
    BY <2>1, AsideSame DEF SameFeed
<1> QED
  BY <1>1, <1>2, <1>3, <1>4, <1>5, <1>6

-----------------------------------------------------------------------------
(* The feed: requests on their way.                                          *)

\* What the proofs need of the server.
StoreOK(d) ==
    /\ DOMAIN d = {"rounds", "likes", "layouts", "cups", "members"}
    /\ DOMAIN d.likes = 1..NumItems

LEMMA AfterLikes ==
    ASSUME NEW d, StoreOK(d), NEW q
    PROVE  /\ StoreOK(After(d, q))
           /\ q.op # "like" => After(d, q).likes = d.likes
           /\ q.op = "like" => After(d, q).likes = [d.likes EXCEPT ![q.arg[1]] = Toggled(@, q.who)]
<1>1. CASE q.op = "like"
  <2>1. After(d, q) = [d EXCEPT !.likes[q.arg[1]] = Toggled(@, q.who)]
    BY <1>1 DEF After, RoundOps
  <2> QED
    BY <1>1, <2>1 DEF StoreOK
<1>2. CASE q.op \in RoundOps \cup {"register", "createRound", "createCourse"}
  BY <1>2 DEF After, RoundOps, StoreOK
<1>3. CASE q.op \in {"createTournament", "join", "addCourse", "calculatePrices"}
  BY <1>3 DEF After, RoundOps, StoreOK
<1>4. CASE q.op \notin RoundOps \cup {"like", "register", "createRound", "createCourse",
                                      "createTournament", "join", "addCourse", "calculatePrices"}
  <2>1. After(d, q) = d
    BY <1>4 DEF After, RoundOps
  <2> QED
    BY <1>4, <2>1
<1> QED
  BY <1>1, <1>2, <1>3, <1>4

\* d is c with the request at i as the server or the network leaves it.
Rephased(c, i, r, d) ==
    /\ IsTab(d) /\ d.at = c.at /\ d.view = c.view
    /\ d.user = c.user /\ d.saved = c.saved
    /\ DOMAIN d.net = DOMAIN c.net /\ i \in DOMAIN c.net /\ d.net[i] = r
    /\ \A j \in DOMAIN c.net : j # i => d.net[j] = c.net[j]
    /\ r.op = c.net[i].op /\ r.to = c.net[i].to
    /\ r.arg = c.net[i].arg /\ r.who = c.net[i].who
LEMMA RequestRephased ==
    ASSUME NEW c, IsTab(c), NEW i \in DOMAIN c.net, NEW r, DOMAIN r = RequestFields,
           r.op = c.net[i].op, r.to = c.net[i].to, r.arg = c.net[i].arg, r.who = c.net[i].who
    PROVE  Rephased(c, i, r, [c EXCEPT !.net[i] = r])
<1> DEFINE d == [c EXCEPT !.net[i] = r]
<1>1. IsTab(d)
  BY RequestChanges DEF Quiet, Follows
<1>2. /\ d.net = [c.net EXCEPT ![i] = r] /\ d.at = c.at /\ d.view = c.view
      /\ d.user = c.user /\ d.saved = c.saved
  BY DEF IsTab, TabFields
<1> HIDE DEF d
<1>3. /\ DOMAIN d.net = DOMAIN c.net /\ d.net[i] = r
      /\ \A j \in DOMAIN c.net : j # i => d.net[j] = c.net[j]
  BY <1>2
<1> QED
  BY <1>1, <1>2, <1>3 DEF Rephased, d

LEMMA RephasedAside ==
    ASSUME NEW c, NEW i, NEW r, NEW d, Rephased(c, i, r, d), ~About(r) PROVE Aside(c, d)
<1>1. SameAsks(c.net, d.net)
  BY DEF Rephased, SameAsks, About
<1> QED
  BY <1>1 DEF Rephased, Aside, SameFeed

LEMMA RephasedPaged ==
    ASSUME NEW c, NEW i, NEW r, NEW d, Rephased(c, i, r, d), NEW o, Paged(c, o),
           ForPage(r) /\ r.phase = "ok" => Brings(r)
    PROVE  Paged(d, o)
<1>1. ItemsOK(d)
  BY DEF Rephased, Paged, ItemsOK
<1>2. Asked(d)
  <2>1. \A j \in DOMAIN d.net : ForPage(d.net[j]) <=> ForPage(c.net[j])
    BY DEF Rephased, ForPage
  <2>2. \A j \in DOMAIN d.net : d.net[j].arg = c.net[j].arg
    BY DEF Rephased
  <2>3. \A j \in DOMAIN d.net : ForPage(d.net[j]) /\ d.net[j].phase = "ok" => Brings(d.net[j])
    BY DEF Rephased, Paged, Asked
  <2> QED
    BY <2>1, <2>2, <2>3 DEF Rephased, Paged, Asked
<1>3. InOrder(c) => InOrder(d)
  BY DEF Rephased, InOrder, ForPage
<1> QED
  BY <1>1, <1>2, <1>3 DEF Paged

LEMMA RephasedSettling ==
    ASSUME NEW c, NEW i, NEW r, NEW d, Rephased(c, i, r, d), NEW b, Agrees(c, b),
           ForPage(r) /\ r.phase = "ok" =>
              \A n \in DOMAIN r.data.items : r.data.items[n].likes = b.likes[r.data.items[n].id]
    PROVE  Settling(d, b)
<1>1. \A op : Sending(d, op) <=> Sending(c, op)
  BY DEF Rephased, Sending
<1>2. \A j \in DOMAIN d.net : d.net[j].op = "like" =>
         d.net[j].to = "page" /\ d.net[j].arg[2] = d.net[j].who
  BY DEF Agrees, Rephased
<1>3. \A j \in DOMAIN d.net : ForPage(d.net[j]) /\ d.net[j].phase = "ok" =>
         \A n \in DOMAIN d.net[j].data.items :
            d.net[j].data.items[n].likes = b.likes[d.net[j].data.items[n].id]
  BY DEF Agrees, Rephased
<1> QED
  BY <1>1, <1>2, <1>3 DEF Agrees, Settling

\* A request of the feed that goes on, but for a like that the server takes.
LEMMA RephasedFeed ==
    ASSUME NEW c, NEW i, NEW r, NEW d, Rephased(c, i, r, d),
           NEW o, NEW p, o \subseteq p, NEW b, FeedOK(c, b, o), About(r),
           ForPage(r) /\ r.phase = "ok" =>
              /\ Brings(r)
              /\ \A n \in DOMAIN r.data.items : r.data.items[n].likes = b.likes[r.data.items[n].id],
           r.op = "like" /\ Plainly(p) => r.phase # "ok" /\ c.net[i].phase # "ok"
    PROVE  FeedOK(d, b, p)
<1> SUFFICES ASSUME d.at = "/feed" PROVE Paged(d, p) /\ (Plainly(p) => Agrees(d, b))
  BY DEF FeedOK
<1>1. Paged(c, o) /\ (Plainly(o) => Agrees(c, b))
  BY DEF FeedOK, Rephased
<1>2. Paged(d, o)
  BY <1>1, RephasedPaged DEF ForPage
<1>3. Paged(d, p)
  BY <1>2 DEF Paged, Whole
<1>4. ASSUME Plainly(p) PROVE Agrees(d, b)
  <2>1. Agrees(c, b)
    BY <1>1, <1>4 DEF Plainly
  <2>2. Settling(d, b)
    BY <2>1, RephasedSettling DEF ForPage
  <2>3. ASSUME NEW id, NEW v PROVE Undone(d, id, v) = Undone(c, id, v)
    <3>1. \A j \in DOMAIN c.net : Owes(d.net[j], id, v) <=> Owes(c.net[j], id, v)
      BY <1>4 DEF Owes, Rephased, About
    <3> QED
      BY <3>1 DEF Undone, Rephased
  <2>4. d.view = c.view
    BY DEF Rephased
  <2> QED
    BY <2>1, <2>2, <2>3, <2>4 DEF Agrees, Settling
<1> QED
  BY <1>3, <1>4

\* A like that the server takes.
LEMMA LikeServed ==
    ASSUME NEW c, IsTab(c), NEW i, NEW r, NEW d, Rephased(c, i, r, d),
           r.op = "like", c.net[i].phase # "ok", r.phase = "ok",
           NEW o, NEW b, FeedOK(c, b, o), StoreOK(b),
           NEW b2, b2.likes = [b.likes EXCEPT ![r.arg[1]] = Toggled(@, r.who)]
    PROVE  FeedOK(d, b2, o)
<1> SUFFICES ASSUME d.at = "/feed" PROVE Paged(d, o) /\ (Plainly(o) => Agrees(d, b2))
  BY DEF FeedOK
<1>1. Paged(c, o) /\ (Plainly(o) => Agrees(c, b))
  BY DEF FeedOK, Rephased
<1>2. Paged(d, o)
  BY <1>1, RephasedPaged DEF ForPage
<1>3. ASSUME Plainly(o) PROVE Agrees(d, b2)
  <2>1. Agrees(c, b)
    BY <1>1, <1>3
  <2>2. Settling(d, b)
    BY <2>1, RephasedSettling DEF ForPage
  <2>3. Sending(d, "like")
    BY DEF Sending, Rephased
  <2>4. \A j \in DOMAIN d.net : d.net[j].op # "feed"
    BY <2>2, <2>3 DEF Settling, Sending
  <2>5. Settling(d, b2)
    BY <2>2, <2>4 DEF Settling, ForPage
  <2>6. ASSUME NEW n \in DOMAIN d.view.items, NEW v
        PROVE  (v \in d.view.items[n].likes) <=>
                 ((v \in b2.likes[d.view.items[n].id]) <=> ~IsOdd(Undone(d, d.view.items[n].id, v)))
    <3> DEFINE k == c.view.items[n].id
               S == Undone(c, k, v)
               T == Undone(d, k, v)
    <3>1. n \in DOMAIN c.view.items /\ d.view.items[n] = c.view.items[n]
      BY DEF Rephased
    <3>2. (v \in c.view.items[n].likes) <=> ((v \in b.likes[k]) <=> ~IsOdd(S))
      BY <2>1, <3>1 DEF Agrees
    <3>3. k \in DOMAIN b.likes
      BY <1>1, <3>1 DEF StoreOK, Paged, ItemsOK
    <3>4. IsFiniteSet(S)
      BY UndoneIsFinite
    <3>5. CASE k = r.arg[1] /\ v = r.who
      <4>1. i \in S
        BY <3>5 DEF Undone, Owes, Rephased
      <4>2. T = S \ {i}
        BY <3>5 DEF Undone, Owes, Rephased
      <4> HIDE DEF S, T
      <4>3. IsOdd(T) <=> ~IsOdd(S)
        BY <3>4, <4>1, <4>2, OddAdd
      <4>4. v \in b2.likes[k] <=> v \notin b.likes[k]
        BY <3>3, <3>5 DEF Toggled
      <4> QED
        BY <3>1, <3>2, <4>3, <4>4 DEF T
    <3>6. CASE ~(k = r.arg[1] /\ v = r.who)
      <4>1. T = S
        BY <3>6 DEF Undone, Owes, Rephased
      <4>2. v \in b2.likes[k] <=> v \in b.likes[k]
        BY <3>3, <3>6 DEF Toggled
      <4> HIDE DEF S
      <4> QED
        BY <3>1, <3>2, <4>1, <4>2 DEF T
    <3> QED
      BY <3>5, <3>6
  <2> QED
    BY <2>5, <2>6 DEF Agrees, Settling
<1> QED
  BY <1>2, <1>3

FeedInv  == SessionInv /\ ListInv /\ StoreOK(db) /\ FeedOK(app, db, odd)
\* What a step has to keep of it.
FeedKept == StoreOK(db') /\ FeedOK(app', db', odd')

LEMMA FeedFacts ==
    ASSUME FeedInv
    PROVE  /\ IsTab(app) /\ ViewOK(app) /\ ListsOK(app) /\ Good(app)
           /\ StoreOK(db) /\ FeedOK(app, db, odd)
           /\ "swap" \notin odd => app.user = app.saved
BY DEF FeedInv, SessionInv, SessionOK, ListInv, ListsOK

LEMMA AsideKept ==
    ASSUME FeedInv, Aside(app, app'), StoreOK(db'), db'.likes = db.likes, odd \subseteq odd'
    PROVE  FeedKept
<1>1. FeedOK(app, db, odd)
  BY FeedFacts
<1> QED
  BY <1>1, AsideFeed DEF FeedKept

LEMMA ServedFeed ==
    ASSUME FeedInv, NEW i \in DOMAIN app.net, Serve(i) PROVE FeedKept
<1> DEFINE q == app.net[i]
<1>0. IsTab(app) /\ StoreOK(db) /\ FeedOK(app, db, odd)
  BY FeedFacts
<1>1. DOMAIN q = RequestFields
  BY <1>0 DEF IsTab, IsNet
<1>2. odd' = odd /\ q.phase = "sent"
  BY DEF Serve
<1>3. ASSUME NEW phase, phase # "ok", app' = [app EXCEPT !.net[i].phase = phase], db' = db
      PROVE  FeedKept
  <2> DEFINE r == [q EXCEPT !.phase = phase]
  <2>1. /\ DOMAIN r = RequestFields /\ r.op = q.op /\ r.to = q.to /\ r.arg = q.arg
        /\ r.who = q.who /\ r.phase = phase
    BY <1>1 DEF RequestFields
  <2>2. app' = [app EXCEPT !.net[i] = r]
    BY <1>3
  <2> HIDE DEF r, q
  <2>3. Rephased(app, i, r, app')
    BY <1>0, <2>1, <2>2, RequestRephased DEF q
  <2>4. ~About(r) => Aside(app, app')
    BY <2>3, RephasedAside
  <2>5. About(r) => FeedOK(app', db, odd)
    BY <1>0, <1>2, <1>3, <2>1, <2>3, RephasedFeed DEF q
  <2>6. FeedOK(app', db, odd)
    BY <1>0, <2>4, <2>5, AsideFeed
  <2> QED
    BY <1>0, <1>2, <1>3, <2>6 DEF FeedKept
<1>4. ASSUME NEW data \in Answers(db', q), db' = After(db, q),
             app' = ToldOf([app EXCEPT !.net[i].phase = "ok", !.net[i].data = data], db, q)
      PROVE  FeedKept
  <2> DEFINE r == [q EXCEPT !.phase = "ok", !.data = data]
             a == [app EXCEPT !.net[i] = r]
  <2>1. /\ DOMAIN r = RequestFields /\ r.op = q.op /\ r.to = q.to /\ r.arg = q.arg
        /\ r.who = q.who /\ r.phase = "ok" /\ r.data = data
    BY <1>1 DEF RequestFields
  <2>2. [app EXCEPT !.net[i].phase = "ok", !.net[i].data = data] = a
    BY <1>0 DEF IsTab, TabFields
  <2>3. /\ StoreOK(db')
        /\ q.op # "like" => db'.likes = db.likes
        /\ q.op = "like" => db'.likes = [db.likes EXCEPT ![q.arg[1]] = Toggled(@, q.who)]
    BY <1>0, <1>4, AfterLikes
  <2> HIDE DEF r
  <2>4. Rephased(app, i, r, a)
    BY <1>0, <2>1, RequestRephased
  <2>5. app' = ToldOf(a, db, q)
    BY <1>4, <2>2
  <2> HIDE DEF a
  <2>6. IsTab(a)
    BY <2>4 DEF Rephased
  <2>7. FeedOK(a, db', odd)
    <3>1. CASE ~About(r)
      <4>1. Aside(app, a) /\ db'.likes = db.likes
        BY <2>1, <2>3, <2>4, <3>1, RephasedAside DEF About
      <4> QED
        BY <1>0, <4>1, AsideFeed
    <3>2. CASE r.op = "feed"
      <4>1. /\ r.data.last = (r.arg[1] >= NumItems)
            /\ r.data.items = IF r.arg[1] > NumItems THEN <<>>
                              ELSE <<[id |-> r.arg[1], likes |-> db'.likes[r.arg[1]]]>>
        BY <1>4, <2>1, <3>2 DEF Answers
      <4>2. ASSUME ForPage(r), app.at = "/feed"
            PROVE  /\ Brings(r)
                   /\ \A n \in DOMAIN r.data.items :
                        r.data.items[n].likes = db'.likes[r.data.items[n].id]
        <5>1. ForPage(q) /\ Paged(app, odd)
          BY <1>0, <2>1, <4>2 DEF ForPage, FeedOK
        <5>2. r.arg = <<app.view.page>> /\ app.view.page \in Nat
          BY <2>1, <5>1 DEF Paged, Asked, ItemsOK
        <5>3. r.arg[1] \in Nat /\ NumItems \in Nat
          BY <5>2, NumItemsAssumption
        <5>4. CASE r.arg[1] > NumItems
          <6>1. r.data.items = <<>>
            BY <4>1, <5>4
          <6>2. ~(r.arg[1] <= NumItems) /\ DOMAIN <<>> = {}
            BY <5>3, <5>4
          <6> QED
            BY <4>1, <6>1, <6>2 DEF Brings
        <5>5. CASE ~(r.arg[1] > NumItems)
          <6> DEFINE item == [id |-> r.arg[1], likes |-> db'.likes[r.arg[1]]]
          <6>1. r.data.items = <<item>>
            BY <4>1, <5>5
          <6>2. item.likes = db'.likes[item.id]
            OBVIOUS
          <6>3. Brings(r)
            BY <4>1, <5>5, <6>1 DEF Brings
          <6> HIDE DEF item
          <6>4. \A n \in DOMAIN <<item>> : <<item>>[n] = item
            OBVIOUS
          <6> QED
            BY <6>1, <6>2, <6>3, <6>4
        <5> QED
          BY <5>4, <5>5
      <4>3. db'.likes = db.likes
        BY <2>1, <2>3, <3>2
      <4>4. FeedOK(app, db', odd)
        <5>1. Aside(app, app)
          BY AsideSame DEF SameFeed
        <5> QED
          BY <1>0, <4>3, <5>1, AsideFeed
      <4>5. app.at = "/feed" => FeedOK(a, db', odd)
        BY <2>4, <3>2, <4>2, <4>4, RephasedFeed DEF About
      <4> QED
        BY <2>4, <4>5 DEF FeedOK, Rephased
    <3>3. CASE r.op = "like"
      BY <1>0, <1>2, <2>1, <2>3, <2>4, <3>3, LikeServed
    <3> QED
      BY <3>1, <3>2, <3>3 DEF About
  <2>8. SameView(a, ToldOf(a, db, q))
    BY <2>6 DEF ToldOf, Told, SameView, IsTab, TabFields
  <2>9. Aside(a, app')
    BY <2>5, <2>6, <2>8, ChangeAside
  <2> QED
    BY <1>2, <2>3, <2>7, <2>9, AsideFeed DEF FeedKept
<1>5. CASE \E phase \in {"denied", "error"} : app' = [app EXCEPT !.net[i].phase = phase] /\ db' = db
  BY <1>3, <1>5
<1>6. CASE /\ db' = After(db, q)
           /\ \E data \in Answers(db', q) :
                 app' = ToldOf([app EXCEPT !.net[i].phase = "ok", !.net[i].data = data], db, q)
  BY <1>4, <1>6
<1> QED
  BY <1>5, <1>6 DEF Serve

LEMMA LostFeed ==
    ASSUME FeedInv, NEW i \in DOMAIN app.net, NEW phase \in {"error", "denied", "lost"}, Fail(i, phase)
    PROVE  FeedKept
<1> DEFINE q == app.net[i]
           r == [q EXCEPT !.phase = phase]
<1>0. IsTab(app) /\ StoreOK(db) /\ FeedOK(app, db, odd)
  BY FeedFacts
<1>1. DOMAIN q = RequestFields
  BY <1>0 DEF IsTab, IsNet
<1>2. /\ DOMAIN r = RequestFields /\ r.op = q.op /\ r.to = q.to /\ r.arg = q.arg
      /\ r.who = q.who /\ r.phase = phase
  BY <1>1 DEF RequestFields
<1>3. /\ app' = [app EXCEPT !.net[i] = r] /\ db' = db /\ odd' = odd \cup {"failed", phase}
      /\ phase # "lost" => q.phase = "sent"
  BY DEF Fail, Fails
<1> HIDE DEF r, q
<1>4. Rephased(app, i, r, app')
  BY <1>0, <1>2, <1>3, RequestRephased DEF q
<1>5. odd \subseteq odd' /\ (Plainly(odd') => phase # "lost")
  BY <1>3 DEF Plainly
<1>6. ~About(r) => Aside(app, app')
  BY <1>4, RephasedAside
<1>7. About(r) => FeedOK(app', db, odd')
  BY <1>0, <1>2, <1>3, <1>4, <1>5, RephasedFeed DEF q
<1>8. FeedOK(app', db, odd')
  BY <1>0, <1>5, <1>6, <1>7, AsideFeed
<1> QED
  BY <1>0, <1>3, <1>8 DEF FeedKept

LEMMA AnsweredFeed ==
    ASSUME FeedInv, NEW i \in DOMAIN app.net, Answer(i) PROVE FeedKept
<1> DEFINE q == app.net[i]
           c == [app EXCEPT !.net = RemoveAt(@, i)]
<1>0. /\ IsTab(app) /\ ViewOK(app) /\ ListsOK(app) /\ StoreOK(db) /\ FeedOK(app, db, odd)
  BY FeedFacts
<1>1. Taken(app, i, c) /\ ListsOK(c)
  BY <1>0, TakingIsTaken, TakingLists
<1>2. /\ q.phase # "sent" /\ db' = db
      /\ app' = IF q.to = "nobody" THEN c
                ELSE IF q.phase = "ok" THEN Succeeded(c, q)
                ELSE IF q.phase = "denied" /\ q.to # "nobody"
                     THEN [Unauthorized EXCEPT !.net = Left(c)] ELSE Failed(c, q)
  BY DEF Answer
<1>3. ~(q.phase = "denied" /\ q.to # "nobody") => odd \subseteq odd'
  BY DEF Answer
<1> HIDE DEF c
<1>4. IsTab(c) /\ ViewOK(c) /\ c.at = app.at /\ c.view = app.view
  BY <1>1 DEF Taken, ListsOK
<1>5. q.to = "page" => Fits(c, q)
  <2>1. \A p : Fits(app, p) <=> Fits(c, p)
    BY <1>4 DEF Fits, Wanted
  <2> QED
    BY <1>0, <2>1 DEF ListsOK, PageRequests
<1>6. CASE q.phase = "denied" /\ q.to # "nobody"
  <2> DEFINE l == Load(NoOne, "/login", <<>>)
             d == [l EXCEPT !.net = Left(c)]
  <2>1. Good(l) /\ l.user = NoOne
    BY LoadIsGood
  <2>2. app' = d
    BY <1>2, <1>6 DEF Unauthorized
  <2> HIDE DEF l
  <2>3. d.at = l.at /\ l.at \in Open
    BY <2>1 DEF Good, IsTab, TabFields, WellRouted
  <2>4. app'.at # "/feed"
    BY <2>2, <2>3 DEF Open
  <2> QED
    BY <1>0, <1>2, <2>4 DEF FeedKept, FeedOK
<1>7. CASE ~(q.phase = "denied" /\ q.to # "nobody")
  <2>1. odd \subseteq odd'
    BY <1>3, <1>7
  <2>2. FeedOK(app, db, odd')
    <3>1. Aside(app, app)
      BY AsideSame DEF SameFeed
    <3> QED
      BY <1>0, <2>1, <3>1, AsideFeed
  <2>3. CASE q.to = "page" /\ q.op = "like" /\ q.phase # "ok"
    <3>1. app' = Liked(c, q.arg[1], q.arg[2])
      BY <1>2, <1>7, <2>3 DEF Failed, OnPage, Lists
    <3>2. app.at = "/feed" => FeedOK(app', db, odd')
      BY <1>0, <1>1, <2>2, <2>3, <3>1, FailedLikeFeed
    <3>3. app'.at = c.at
      BY <1>4, <3>1 DEF Liked, IsTab, TabFields
    <3> QED
      BY <1>0, <1>2, <1>4, <3>2, <3>3 DEF FeedKept, FeedOK
  <2>4. CASE ForPage(q) /\ q.phase = "ok"
    <3>1. app' = PageShown(c, q)
      BY <1>2, <2>4 DEF Succeeded, OnPage, Lists, ForPage
    <3>2. app.at = "/feed" => FeedOK(app', db, odd')
      BY <1>0, <1>1, <2>2, <2>4, <3>1, PageShownFeed
    <3>3. app'.at = c.at
      BY <1>4, <3>1 DEF PageShown, IsTab, TabFields
    <3> QED
      BY <1>0, <1>2, <1>4, <3>2, <3>3 DEF FeedKept, FeedOK
  <2>5. CASE ForPage(q) /\ q.phase # "ok"
    <3>1. app' = [c EXCEPT !.view.busy = FALSE, !.view.failed = TRUE,
                           !.view.loaded = @ \ {q.arg[1]}]
      BY <1>2, <1>7, <2>5 DEF Failed, OnPage, Lists, ForPage
    <3>2. app.at = "/feed" => FeedOK(app', db, odd')
      BY <1>0, <1>1, <2>2, <2>5, <3>1, PageFailedFeed
    <3>3. app'.at = c.at
      BY <1>4, <3>1 DEF IsTab, TabFields
    <3> QED
      BY <1>0, <1>2, <1>4, <3>2, <3>3 DEF FeedKept, FeedOK
  <2>6. CASE ~ForPage(q) /\ ~(q.to = "page" /\ q.op = "like" /\ q.phase # "ok")
    <3>1. Aside(c, c)
      BY AsideSame DEF SameFeed
    <3>2. Aside(c, Succeeded(c, q))
      BY <1>1, <1>5, <2>6, SucceededAside
    <3>3. q.phase # "ok" => Aside(c, Failed(c, q))
      BY <1>1, <1>5, <2>6, FailedAside DEF About, ForPage
    <3>4. Aside(c, app')
      BY <1>2, <1>7, <3>1, <3>2, <3>3
    <3>5. CASE app.at = "/feed"
      <4>1. Plainly(odd') => q.op # "like" \/ q.phase = "ok"
        <5>1. Plainly(odd') /\ q.op = "like" => q.to = "page"
          BY <2>2, <3>5 DEF FeedOK, Agrees
        <5> QED
          BY <2>6, <5>1
      <4>2. FeedOK(c, db, odd')
        BY <1>0, <1>1, <2>2, <3>5, <4>1, TakenFeed
      <4>3. FeedOK(app', db, odd')
        BY <3>4, <4>2, AsideFeed
      <4> QED
        BY <1>0, <1>2, <4>3 DEF FeedKept
    <3>6. CASE app.at # "/feed"
      <4>1. app'.at # "/feed"
        BY <1>4, <3>4, <3>6 DEF Aside
      <4> QED
        BY <1>0, <1>2, <4>1 DEF FeedKept, FeedOK
    <3> QED
      BY <3>5, <3>6
  <2> QED
    BY <2>3, <2>4, <2>5, <2>6 DEF ForPage
<1> QED
  BY <1>6, <1>7

LEMMA NetworkFeed ==
    ASSUME FeedInv, Network PROVE FeedKept
BY ServedFeed, LostFeed, AnsweredFeed DEF Network

LEMMA WorldFeed ==
    ASSUME FeedInv, Hear \/ LosePush \/ (\E v \in Users : Others(v)) \/ OtherTab PROVE FeedKept
<1>0. IsTab(app) /\ StoreOK(db) /\ FeedOK(app, db, odd)
  BY FeedFacts
<1>1. CASE Hear
  <2> DEFINE c == [app EXCEPT !.inbox = Tail(@)]
  <2>1. PICK d : /\ app' = Dispatch(c, d)
                 /\ \E m : d = IF m.kind = "deleted" THEN onRoundDeleted(c, m.round.id)
                               ELSE onRoundUpdated(c, m.round)
    BY <1>1 DEF Hear
  <2>2. SameView(app, c)
    BY <1>0 DEF SameView, IsTab, TabFields
  <2> HIDE DEF c
  <2>3. Aside(app, c) /\ IsTab(c)
    BY <1>0, <2>2, ChangeAside DEF SameView, IsTab
  <2>4. SameView(c, d)
    BY <2>1, <2>3 DEF SameView, onRoundDeleted, onRoundUpdated, IsTab, TabFields
  <2>5. Aside(c, Dispatch(c, d))
    BY <2>3, <2>4, ChangeAside
  <2>6. Aside(app, app')
    BY <2>1, <2>3, <2>5, AsideTransitive
  <2>7. db' = db /\ odd \subseteq odd'
    BY <1>1 DEF Hear
  <2> QED
    BY <1>0, <2>6, <2>7, AsideKept
<1>2. CASE LosePush
  <2>1. SameView(app, app') /\ db' = db /\ odd \subseteq odd'
    BY <1>0, <1>2 DEF LosePush, Fails, SameView, IsTab, TabFields
  <2> QED
    BY <1>0, <2>1, ChangeAside, AsideKept
<1>3. CASE \E v \in Users : Others(v)
  <2>1. \/ \E by, kind, r : app' = Told(app, by, kind, r)
        \/ \E d, q : app' = ToldOf(app, d, q)
    BY <1>3 DEF Others
  <2>2. SameView(app, app')
    BY <1>0, <2>1 DEF ToldOf, Told, SameView, IsTab, TabFields
  <2>3. Aside(app, app') /\ odd \subseteq odd'
    BY <1>0, <1>3, <2>2, ChangeAside DEF Others
  <2>4. StoreOK(db') /\ db'.likes = db.likes
    <3>1. CASE \E r : db' = [db EXCEPT !.rounds = Append(@, r)]
      BY <1>0, <3>1 DEF StoreOK
    <3>2. CASE \E op \in {"score", "complete", "delete"} : \E arg, v : db' = After(db, Request(op, arg, v))
      <4>1. PICK op \in {"score", "complete", "delete"} : \E arg, v : db' = After(db, Request(op, arg, v))
        BY <3>2
      <4>2. PICK arg, v : db' = After(db, Request(op, arg, v))
        BY <4>1
      <4>3. Request(op, arg, v).op # "like"
        BY RequestIsRequest
      <4> QED
        BY <1>0, <4>2, <4>3, AfterLikes
    <3> QED
      BY <1>3, <3>1, <3>2 DEF Others
  <2> QED
    BY <2>3, <2>4, AsideKept
<1>4. CASE OtherTab
  <2>1. PICK u : app' = [app EXCEPT !.saved = u]
    BY <1>4 DEF OtherTab, Does
  <2>2. SameView(app, app')
    BY <1>0, <2>1 DEF SameView, IsTab, TabFields
  <2>3. db' = db /\ odd \subseteq odd'
    BY <1>4 DEF OtherTab, Does
  <2> QED
    BY <1>0, <2>2, <2>3, ChangeAside, AsideKept
<1> QED
  BY <1>1, <1>2, <1>3, <1>4

-----------------------------------------------------------------------------
(* The feed: what a person does on other pages.                              *)

LEMMA DoesAside ==
    ASSUME FeedInv, NEW c, Aside(app, c)
    PROVE  (\A what : Does(c, what) => FeedKept) /\ (Acts(c) => FeedKept)
<1>1. ASSUME NEW what, Does(c, what) PROVE FeedKept
  <2>1. app' = c /\ db' = db /\ odd \subseteq odd'
    BY <1>1 DEF Does
  <2>2. Aside(app, app') /\ StoreOK(db') /\ db'.likes = db.likes
    BY <2>1, FeedFacts
  <2> QED
    BY <2>1, <2>2, AsideKept
<1> QED
  BY <1>1 DEF Acts

LEMMA GoKept ==
    ASSUME FeedInv, NEW at, NEW arg, Go(at, arg) PROVE FeedKept
<1> DEFINE c == Push(app, at, arg)
<1>0. IsTab(app) /\ StoreOK(db)
  BY FeedFacts
<1>1. Acts(c)
  BY DEF Go
<1>2. CASE at # "/feed" \/ app.at = "/feed"
  <2>1. Aside(app, c)
    BY <1>0, <1>2, PushAside
  <2> QED
    BY <1>1, <2>1, DoesAside
<1>3. CASE at = "/feed" /\ app.at # "/feed"
  <2>1. c.at = "/feed" => Entered(c)
    BY <1>0, <1>3, PushEnters
  <2>2. app' = c /\ db' = db /\ Mixed(c) \subseteq odd'
    BY <1>1 DEF Acts, Does
  <2> HIDE DEF c
  <2>3. c.at = "/feed" => FeedOK(c, db', odd')
    BY <2>1, <2>2, EnteredFeed
  <2> QED
    BY <1>0, <2>2, <2>3 DEF FeedKept, FeedOK
<1> QED
  BY <1>2, <1>3

LEMMA LocalKept ==
    ASSUME FeedInv, app.at # "/feed", NEW view, Acts(Local(app, view)) PROVE FeedKept
<1> DEFINE d == [app EXCEPT !.view = view]
<1>1. IsTab(app)
  BY FeedFacts
<1>2. IsTab(d) /\ d.at = app.at
  BY <1>1 DEF IsTab, TabFields
<1>3. Local(app, view) = Dispatch(app, d)
  BY DEF Local
<1> HIDE DEF d
<1>4. Aside(app, d)
  BY <1>2 DEF Aside
<1>5. Aside(app, Local(app, view))
  BY <1>2, <1>3, <1>4, DispatchAside
<1> QED
  BY <1>5, DoesAside

LEMMA AskKept ==
    ASSUME FeedInv, NEW op, op \notin {"feed", "like"}, NEW arg
    PROVE  /\ \A what : Does(Asks(app, op, arg), what) => FeedKept
           /\ Acts(Asks(app, op, arg)) => FeedKept
           /\ Acts(Starts(app, op, arg)) => FeedKept
<1> DEFINE e == [app EXCEPT !.view.starting = TRUE]
<1>1. IsTab(app) /\ ViewOK(app)
  BY FeedFacts
<1>2. Aside(app, Asks(app, op, arg))
  BY <1>1, AskAside
<1>3. IsTab(e) /\ e.at = app.at /\ e.net = app.net /\ SameFeed(app.view, e.view)
  BY <1>1 DEF SameFeed, IsTab, ViewOK, TabFields, ViewFields
<1>4. Starts(app, op, arg) = Asks(e, op, arg)
  BY DEF Starts
<1> HIDE DEF e
<1>5. Aside(app, e) /\ Aside(e, Asks(e, op, arg))
  BY <1>3, AsideSame, AskAside
<1>6. Aside(app, Starts(app, op, arg))
  BY <1>4, <1>5, AsideTransitive
<1> QED
  BY <1>2, <1>6, DoesAside

LEMMA ProfileAside ==
    ASSUME NEW c, IsTab(c), NEW u PROVE Aside(c, ProfileOf(c, u))
<1> DEFINE a == fetchProfile(c, u)
           b == fetchAchievements(a, u)
<1>1. Aside(c, a) /\ IsTab(a)
  BY AskAside DEF fetchProfile
<1> HIDE DEF a
<1>2. Aside(a, b) /\ IsTab(b)
  BY <1>1, AskAside DEF fetchAchievements
<1> HIDE DEF b
<1>3. Aside(b, fetchRounds(b, u, 1))
  BY <1>2, AskAside DEF fetchRounds
<1>4. Aside(c, b)
  BY <1>1, <1>2, AsideTransitive
<1> QED
  BY <1>3, <1>4, AsideTransitive DEF ProfileOf, a, b

LEMMA AccountFeed ==
    ASSUME FeedInv, AppHeader \/ Login \/ Register PROVE FeedKept
<1>0. IsTab(app)
  BY FeedFacts
<1>1. CASE AppHeader
  <2>1. CASE \E arg : Go("/profile", arg)
    BY <2>1, GoKept
  <2>2. CASE \E what : Does(Dispatch(app, logout(app)), what)
    <3>1. SameView(app, logout(app))
      BY <1>0 DEF logout, SameView, IsTab, TabFields
    <3>2. Aside(app, Dispatch(app, logout(app)))
      BY <1>0, <3>1, ChangeAside
    <3> QED
      BY <2>2, <3>2, DoesAside
  <2> QED
    BY <1>1, <2>1, <2>2 DEF AppHeader
<1>2. CASE Login \/ Register
  <2> DEFINE a == [app EXCEPT !.loginError = FALSE]
  <2>1. SameView(app, a)
    BY <1>0 DEF SameView, IsTab, TabFields
  <2>2. /\ \A u, right : login(app, u, right) = Asks(a, "login", <<u, right>>)
        /\ \A u : register(app, u) = Asks(a, "register", <<u>>)
    BY DEF login, register
  <2> HIDE DEF a
  <2>3. Aside(app, a) /\ IsTab(a)
    BY <1>0, <2>1, ChangeAside DEF SameView, IsTab
  <2>4. ASSUME NEW op \in {"login", "register"}, NEW arg PROVE Aside(app, Asks(a, op, arg))
    <3>1. Aside(a, Asks(a, op, arg))
      BY <2>3, AskAside
    <3> QED
      BY <2>3, <3>1, AsideTransitive
  <2>5. CASE \E at : Go(at, <<>>)
    BY <2>5, GoKept
  <2>6. CASE \E u, right : Does(login(app, u, right), Twice)
    <3>1. PICK u, right : Does(login(app, u, right), Twice)
      BY <2>6
    <3>2. Aside(app, login(app, u, right))
      BY <2>2, <2>4
    <3> QED
      BY <3>1, <3>2, DoesAside
  <2>7. CASE \E u : Does(register(app, u), Twice)
    <3>1. PICK u : Does(register(app, u), Twice)
      BY <2>7
    <3>2. Aside(app, register(app, u))
      BY <2>2, <2>4
    <3> QED
      BY <3>1, <3>2, DoesAside
  <2> QED
    BY <1>2, <2>5, <2>6, <2>7 DEF Login, Register
<1> QED
  BY <1>1, <1>2

LEMMA OtherPagesFeed ==
    ASSUME FeedInv, Elsewhere, ~FeedPage, ~LoadMore, ~RetryFeed PROVE FeedKept
<1>0. IsTab(app)
  BY FeedFacts
<1>1. CASE BottomNav \/ LoggedOutLanding \/ LoggedInLanding \/ RoundSummary \/ CourseDetailPage
           \/ TournamentsPage
  BY <1>1, GoKept DEF BottomNav, LoggedOutLanding, LoggedInLanding, RoundSummary, CourseDetailPage,
     TournamentsPage
<1>2. CASE RoundPage \/ RoundMenu
  BY <1>2, AskKept DEF RoundPage, RoundMenu, setScore, fetchRoundStats, completeRound, skipHole,
     leaveRound, deleteRound
<1>3. CASE ProfilePage
  <2>1. CASE Acts(ProfileOf(app, Whose))
    <3>1. Aside(app, ProfileOf(app, Whose))
      BY <1>0, ProfileAside
    <3> QED
      BY <2>1, <3>1, DoesAside
  <2>2. CASE Acts(fetchRounds(app, Whose, 3 - app.profile.rounds[2]))
    BY <2>2, AskKept DEF fetchRounds
  <2>3. CASE \E id \in RoundsOf(app.profile.rounds[1]) : Go("/rounds", <<id>>)
    BY <2>3, GoKept
  <2> QED
    BY <1>3, <2>1, <2>2, <2>3 DEF ProfilePage
<1>4. CASE CreateCoursePage \/ CreateTournamentPage
  BY <1>4, AskKept DEF CreateCoursePage, createCourse, CreateTournamentPage, createTournament
<1>5. CASE TournamentDetailPage
  BY <1>5, GoKept, AskKept DEF TournamentDetailPage, joinTournament
<1>6. CASE LeadersPage \/ CoursesPage \/ CourseStep \/ PlayersStep
  <2>1. app.at # "/feed"
    BY <1>6 DEF LeadersPage, CoursesPage, CourseStep, PlayersStep, At
  <2> QED
    BY <1>6, <2>1, LocalKept, GoKept DEF LeadersPage, CoursesPage, CourseStep, PlayersStep, Choose, Step
<1>7. CASE AdminOfTournament \/ ConfirmStep
  <2>1. app.at # "/feed"
    BY <1>7 DEF AdminOfTournament, ConfirmStep, CupIsShown, At
  <2> QED
    BY <1>7, <2>1, LocalKept, AskKept DEF AdminOfTournament, ConfirmStep, Choose, Step, addCourse,
       calculatePrices
<1> QED
  BY <1>1, <1>2, <1>3, <1>4, <1>5, <1>6, <1>7 DEF Elsewhere

-----------------------------------------------------------------------------
(* The feed: what a person does on its page.                                 *)

\* d is c when the page of the feed it is on has been asked for.
Fetched(c, d) ==
    /\ IsTab(d) /\ ViewOK(d) /\ d.at = c.at /\ d.user = c.user /\ d.saved = c.saved
    /\ d.view.items = c.view.items /\ d.view.page = c.view.page
    /\ d.view.loaded = c.view.loaded \cup {c.view.page} /\ d.view.last = c.view.last
    /\ d.view.busy = TRUE /\ d.view.failed = FALSE
    /\ Len(c.net) + 1 \notin DOMAIN c.net
    /\ DOMAIN d.net = DOMAIN c.net \cup {Len(c.net) + 1}
    /\ \A i \in DOMAIN c.net : d.net[i] = c.net[i]
    /\ d.net[Len(c.net) + 1] = Request("feed", <<c.view.page>>, c.saved)

\* The items have the likes that they would have if all were stored.
Liking(c, b) ==
    \A n \in DOMAIN c.view.items : LET id == c.view.items[n].id IN
       \A v : (v \in c.view.items[n].likes) <=>
              ((v \in b.likes[id]) <=> ~IsOdd(Undone(c, id, v)))

LEMMA FetchedFeed ==
    ASSUME NEW c, ItemsOK(c), \A i \in DOMAIN c.net : ~ForPage(c.net[i]),
           NEW d, Fetched(c, d), NEW o, Mixed(d) \subseteq o,
           Whole(o) => /\ \A n \in DOMAIN c.view.items : c.view.items[n].id = n
                       /\ c.view.page \in {1, Len(c.view.items) + 1},
           NEW b, Plainly(o) => Liking(c, b)
    PROVE  FeedOK(d, b, o)
<1> DEFINE k == Len(c.net) + 1
           q == Request("feed", <<c.view.page>>, c.saved)
<1>1. /\ k \notin DOMAIN c.net /\ DOMAIN d.net = DOMAIN c.net \cup {k} /\ d.net[k] = q
      /\ \A i \in DOMAIN c.net : d.net[i] = c.net[i]
  BY DEF Fetched
<1>2. ForPage(q) /\ q.op = "feed" /\ q.arg = <<c.view.page>> /\ q.phase = "sent"
  BY RequestIsRequest DEF ForPage, Request
<1> HIDE DEF k, q
<1>3. \A i \in DOMAIN d.net : ForPage(d.net[i]) => i = k
  BY <1>1
<1>4. ItemsOK(d)
  BY DEF Fetched, ItemsOK
<1>5. Asked(d)
  <2>1. d.view.page = c.view.page /\ d.view.busy = TRUE /\ d.view.failed = FALSE
    BY DEF Fetched
  <2> QED
    BY <1>1, <1>2, <1>3, <2>1 DEF Asked
<1>6. ASSUME Whole(o) PROVE InOrder(d)
  <2>1. /\ d.view.items = c.view.items /\ d.view.page = c.view.page /\ d.view.busy = TRUE
    BY DEF Fetched
  <2>2. \A n \in DOMAIN d.view.items : d.view.items[n].id = n
    BY <1>6, <2>1
  <2>3. d.view.page \in {1, Len(d.view.items) + 1}
    BY <1>6, <2>1
  <2> QED
    BY <2>1, <2>2, <2>3 DEF InOrder
<1>7. ASSUME Plainly(o) PROVE Agrees(d, b)
  <2>1. ~(Sending(d, "like") /\ Sending(d, "feed"))
    BY <1>7 DEF Mixed, Plainly
  <2>2. Sending(d, "feed")
    BY <1>1, <1>2 DEF Sending
  <2>3. \A i \in DOMAIN d.net : d.net[i].op # "like"
    BY <2>1, <2>2 DEF Sending
  <2>4. \A i \in DOMAIN d.net : ForPage(d.net[i]) => d.net[i].phase = "sent"
    BY <1>1, <1>2, <1>3
  <2>5. ASSUME NEW id, NEW v PROVE Undone(d, id, v) = Undone(c, id, v)
    <3>1. \A i \in DOMAIN d.net : ~Owes(d.net[i], id, v)
      BY <2>3 DEF Owes
    <3> QED
      BY <1>1, <3>1 DEF Undone
  <2>6. d.view.items = c.view.items
    BY DEF Fetched
  <2>7. Liking(d, b)
    BY <1>7, <2>5, <2>6 DEF Liking
  <2> QED
    BY <2>1, <2>3, <2>4, <2>7 DEF Agrees, Liking
<1> QED
  BY <1>4, <1>5, <1>6, <1>7 DEF FeedOK, Paged

LEMMA FetchesThePage ==
    ASSUME NEW c, IsTab(c), ViewOK(c), c.view.page \notin c.view.loaded
    PROVE  Fetched(c, fetchPage(c, c.view.page))
<1> DEFINE page == c.view.page
           d == fetchPage(c, page)
<1>1. /\ IsTab(d) /\ ViewOK(d) /\ d.at = c.at /\ d.user = c.user /\ d.saved = c.saved
      /\ d.view.items = c.view.items /\ d.view.page = c.view.page
      /\ d.view.loaded = c.view.loaded \cup {page} /\ d.view.last = c.view.last
      /\ d.view.busy = TRUE /\ d.view.failed = FALSE
      /\ Len(c.net) + 1 \notin DOMAIN c.net
      /\ DOMAIN d.net = DOMAIN c.net \cup {Len(c.net) + 1}
      /\ \A i \in DOMAIN c.net : d.net[i] = c.net[i]
      /\ d.net[Len(c.net) + 1] = Request("feed", <<page>>, c.saved)
  BY FetchingPage
<1> HIDE DEF d
<1> QED
  BY <1>1 DEF Fetched, d

\* The feed turns to another page.
LEMMA RenderTurned ==
    ASSUME NEW c0, c0.at = "/feed", NEW c1, c1.at = "/feed", c1.view.page # c0.view.page
    PROVE  Render(c0, c1) = fetchPage(c1, c1.view.page)
<1> DEFINE f == Fetch("feed", <<c0.view.page>>)
           g == Fetch("feed", <<c1.view.page>>)
<1>1. Fetches(c0) = <<f>> /\ Fetches(c1) = <<g>>
  BY FeedFetches
<1>2. f # g /\ f.op = "feed"
  <2>1. <<c0.view.page>> # <<c1.view.page>>
    OBVIOUS
  <2> QED
    BY <2>1 DEF Fetch
<1>3. Cleanup(c1, f) = c1
  BY <1>2 DEF Cleanup, Lists
<1>4. Effect(c1, g) = fetchPage(c1, c1.view.page)
  BY DEF Effect, Fetch
<1> HIDE DEF f, g
<1>5. \A x : /\ 1 \in DOMAIN <<x>> /\ <<x>>[1] = x /\ 2 \notin DOMAIN <<x>> /\ Range(<<x>>) = {x}
  BY DEF Range
<1>6. Render(c0, c1) = Started(Cleaned(c1, <<f>>, {f} \ {g}), <<g>>, {g} \ {f})
  BY <1>1, <1>5 DEF Render
<1>7. Cleaned(c1, <<f>>, {f} \ {g}) = c1
  BY <1>3, <1>5 DEF Cleaned, Ends
<1>8. Started(c1, <<g>>, {g} \ {f}) = fetchPage(c1, c1.view.page)
  BY <1>2, <1>4, <1>5 DEF Started, Runs
<1> QED
  BY <1>6, <1>7, <1>8

LEMMA LoadMoreFeed ==
    ASSUME FeedInv, LoadMore PROVE FeedKept
<1> DEFINE view == [app.view EXCEPT !.page = @ + 1]
           c == [app EXCEPT !.view = view]
<1>0. IsTab(app) /\ ViewOK(app) /\ StoreOK(db) /\ FeedOK(app, db, odd)
  BY FeedFacts
<1>1. /\ app.user # NoOne /\ app.at = "/feed" /\ ~app.view.last /\ ~app.view.busy
      /\ app' = Local(app, view) /\ db' = db
      /\ odd' = odd \cup (IF app.view.failed THEN {"gap"} ELSE {}) \cup Mixed(app')
  BY DEF LoadMore, At, Does
<1>2. Paged(app, odd) /\ (Plainly(odd) => Agrees(app, db))
  BY <1>0, <1>1 DEF FeedOK
<1>3. app.view.page \in Nat \ {0} /\ app.view.loaded \subseteq 1..app.view.page
  BY <1>2 DEF Paged, ItemsOK
<1>4. /\ IsTab(c) /\ c.at = "/feed" /\ c.net = app.net /\ c.user = app.user
      /\ c.view = view
  BY <1>0, <1>1 DEF IsTab, TabFields
<1>5. Local(app, view) = Dispatch(app, c)
  BY DEF Local
<1> HIDE DEF c
<1>6. /\ ViewOK(c) /\ c.view.page = app.view.page + 1 /\ c.view.loaded = app.view.loaded
      /\ c.view.items = app.view.items
  BY <1>0, <1>4 DEF ViewOK, ViewFields
<1> HIDE DEF view
<1>7. Routed(c) = c
  BY <1>1, <1>4 DEF Routed
<1>8. c.view.page # app.view.page /\ c.view.page \notin c.view.loaded
  BY <1>3, <1>6
<1>9. app' = fetchPage(c, c.view.page)
  BY <1>1, <1>4, <1>5, <1>7, <1>8, RenderTurned DEF Dispatch
<1>10. Fetched(c, app')
  BY <1>4, <1>6, <1>8, <1>9, FetchesThePage
<1>11. \A i \in DOMAIN c.net : ~ForPage(c.net[i])
  BY <1>1, <1>2, <1>4 DEF Paged, Asked
<1>12. ItemsOK(c)
  BY <1>2, <1>3, <1>6 DEF Paged, ItemsOK
<1>13. ASSUME Whole(odd')
       PROVE  /\ \A n \in DOMAIN c.view.items : c.view.items[n].id = n
              /\ c.view.page \in {1, Len(c.view.items) + 1}
  <2>1. Whole(odd) /\ ~app.view.failed
    BY <1>1, <1>13 DEF Whole
  <2>2. InOrder(app)
    BY <1>2, <2>1 DEF Paged
  <2>3. app.view.busy # TRUE /\ app.view.failed # TRUE /\ app.view.last # TRUE
    BY <1>1, <2>1
  <2>4. app.view.page = Len(app.view.items)
    BY <2>2, <2>3 DEF InOrder
  <2> QED
    BY <1>6, <2>2, <2>4 DEF InOrder
<1>14. Plainly(odd') => Liking(c, db)
  <2>1. Plainly(odd') => Agrees(app, db)
    BY <1>1, <1>2 DEF Plainly
  <2>2. \A id, v : Undone(c, id, v) = Undone(app, id, v)
    BY <1>4 DEF Undone
  <2> QED
    BY <1>6, <2>1, <2>2 DEF Agrees, Liking
<1>15. Mixed(app') \subseteq odd'
  BY <1>1
<1>16. FeedOK(app', db, odd')
  BY <1>10, <1>11, <1>12, <1>13, <1>14, <1>15, FetchedFeed
<1> QED
  BY <1>0, <1>1, <1>16 DEF FeedKept

LEMMA RetryFeedKept ==
    ASSUME FeedInv, RetryFeed PROVE FeedKept
<1> DEFINE view == [app.view EXCEPT !.loaded = {}, !.page = 1]
           c == [app EXCEPT !.view = view]
           d == fetchPage(c, 1)
<1>0. IsTab(app) /\ ViewOK(app) /\ StoreOK(db) /\ FeedOK(app, db, odd)
  BY FeedFacts
<1>1. [app EXCEPT !.view.loaded = {}, !.view.page = 1] = c
  BY <1>0 DEF IsTab, TabFields
<1>2. /\ app.user # NoOne /\ app.at = "/feed" /\ app.view.failed
      /\ app' = Dispatch(app, d) /\ db' = db /\ odd \subseteq odd' /\ Mixed(app') \subseteq odd'
  BY <1>1 DEF RetryFeed, At, Acts, Does
<1>3. Paged(app, odd) /\ (Plainly(odd) => Agrees(app, db))
  BY <1>0, <1>2 DEF FeedOK
<1>4. /\ IsTab(c) /\ ViewOK(c) /\ c.at = "/feed" /\ c.net = app.net /\ c.user = app.user
      /\ c.view.page = 1 /\ c.view.loaded = {} /\ c.view.items = app.view.items
  <2>1. IsTab(c) /\ c.at = app.at /\ c.net = app.net /\ c.user = app.user /\ c.view = view
    BY <1>0 DEF IsTab, TabFields
  <2> HIDE DEF c
  <2> QED
    BY <1>0, <1>2, <2>1 DEF ViewOK, ViewFields
<1> HIDE DEF c, view
<1>5. Fetched(c, d)
  BY <1>4, FetchesThePage
<1>6. d.at = "/feed" /\ d.user # NoOne /\ d.view.page = 1 /\ 1 \in d.view.loaded
  BY <1>2, <1>4, <1>5 DEF Fetched
<1> HIDE DEF d
<1>7. Routed(d) = d
  BY <1>6 DEF Routed
<1>8. fetchPage(d, d.view.page) = d
  BY <1>6 DEF fetchPage
<1>9. app' = d
  BY <1>2, <1>6, <1>7, <1>8, RenderTurned, RenderFeed DEF Dispatch
<1>10. \A i \in DOMAIN c.net : ~ForPage(c.net[i])
  BY <1>2, <1>3, <1>4 DEF Paged, Asked
<1>11. ItemsOK(c)
  BY <1>3, <1>4 DEF Paged, ItemsOK
<1>12. Whole(odd') => /\ \A n \in DOMAIN c.view.items : c.view.items[n].id = n
                      /\ c.view.page \in {1, Len(c.view.items) + 1}
  BY <1>2, <1>3, <1>4 DEF Whole, Paged, InOrder
<1>13. Plainly(odd') => Liking(c, db)
  <2>1. Plainly(odd') => Agrees(app, db)
    BY <1>2, <1>3 DEF Plainly
  <2>2. \A id, v : Undone(c, id, v) = Undone(app, id, v)
    BY <1>4 DEF Undone
  <2> QED
    BY <1>4, <2>1, <2>2 DEF Agrees, Liking
<1>14. FeedOK(d, db, odd')
  BY <1>2, <1>5, <1>9, <1>10, <1>11, <1>12, <1>13, FetchedFeed
<1> QED
  BY <1>0, <1>2, <1>9, <1>14 DEF FeedKept

\* A like is shown and sent at once.
LEMMA LikeFeed ==
    ASSUME FeedInv, app.at = "/feed", NEW id, Acts(handleLike(app, id)) PROVE FeedKept
<1> DEFINE u == app.user
           l == Liked(app, id, u)
           d == Asks(l, "like", <<id, u>>)
           k == Len(l.net) + 1
           q == Request("like", <<id, u>>, l.saved)
<1>0. /\ IsTab(app) /\ ViewOK(app) /\ StoreOK(db) /\ FeedOK(app, db, odd)
      /\ "swap" \notin odd => app.user = app.saved
  BY FeedFacts
<1>1. app' = d /\ db' = db /\ odd \subseteq odd' /\ Mixed(app') \subseteq odd'
  BY DEF Acts, Does, handleLike
<1>2. Paged(app, odd) /\ (Plainly(odd) => Agrees(app, db))
  BY <1>0 DEF FeedOK
<1>3. /\ IsTab(l) /\ ViewOK(l) /\ l.net = app.net /\ l.saved = app.saved
      /\ DOMAIN l.view.items = DOMAIN app.view.items
      /\ \A n \in DOMAIN app.view.items :
           /\ l.view.items[n].id = app.view.items[n].id
           /\ l.view.items[n].likes = IF app.view.items[n].id = id
                                      THEN Toggled(app.view.items[n].likes, u)
                                      ELSE app.view.items[n].likes
  <2>1. ItemsOK(app)
    BY <1>2 DEF Paged
  <2> HIDE DEF u
  <2> QED
    BY <1>0, <2>1, LikedIs
<1>4. Paged(l, odd)
  BY <1>0, <1>2, LikedPaged
<1> HIDE DEF l
<1>5. /\ d.view = l.view /\ k \notin DOMAIN l.net /\ DOMAIN d.net = DOMAIN l.net \cup {k}
      /\ \A i \in DOMAIN l.net : d.net[i] = l.net[i]
      /\ d.net[k] = q
  BY <1>3, AskingExtends
<1>6. q.op = "like" /\ q.arg = <<id, u>> /\ q.who = l.saved /\ q.phase = "sent" /\ q.to = "page"
  BY RequestIsRequest DEF Request
<1> HIDE DEF d, k, q
<1>7. \A j \in DOMAIN d.net : ForPage(d.net[j]) => j \in DOMAIN l.net /\ d.net[j] = l.net[j]
  BY <1>5, <1>6 DEF ForPage
<1>8. Paged(d, odd')
  <2>1. ItemsOK(d)
    BY <1>4, <1>5 DEF Paged, ItemsOK
  <2>2. Asked(d)
    BY <1>4, <1>5, <1>7 DEF Paged, Asked
  <2>3. InOrder(l) => InOrder(d)
    BY <1>5, <1>7 DEF InOrder
  <2> QED
    BY <1>1, <1>4, <2>1, <2>2, <2>3 DEF Paged, Whole
<1>9. ASSUME Plainly(odd') PROVE Agrees(d, db)
  <2>1. Agrees(app, db) /\ u = l.saved
    BY <1>0, <1>1, <1>2, <1>3, <1>9 DEF Plainly
  <2>2. ~(Sending(d, "like") /\ Sending(d, "feed"))
    BY <1>1, <1>9 DEF Mixed, Plainly
  <2>3. \A j \in DOMAIN d.net : d.net[j].op = "like" =>
           d.net[j].to = "page" /\ d.net[j].arg[2] = d.net[j].who
    BY <1>3, <1>5, <1>6, <2>1 DEF Agrees
  <2>4. \A j \in DOMAIN d.net : ForPage(d.net[j]) /\ d.net[j].phase = "ok" =>
           \A n \in DOMAIN d.net[j].data.items :
              d.net[j].data.items[n].likes = db.likes[d.net[j].data.items[n].id]
    BY <1>3, <1>7, <2>1 DEF Agrees
  <2>5. ASSUME NEW n \in DOMAIN d.view.items, NEW v
        PROVE  (v \in d.view.items[n].likes) <=>
                 ((v \in db.likes[d.view.items[n].id]) <=> ~IsOdd(Undone(d, d.view.items[n].id, v)))
    <3> DEFINE item == app.view.items[n].id
               S == Undone(app, item, v)
               T == Undone(d, item, v)
    <3>1. /\ n \in DOMAIN app.view.items /\ d.view.items[n].id = item
          /\ d.view.items[n].likes = IF item = id THEN Toggled(app.view.items[n].likes, u)
                                     ELSE app.view.items[n].likes
      BY <1>3, <1>5
    <3>2. (v \in app.view.items[n].likes) <=> ((v \in db.likes[item]) <=> ~IsOdd(S))
      BY <2>1, <3>1 DEF Agrees
    <3>3. (v \in d.view.items[n].likes) <=>
             (IF item = id /\ v = u THEN ~(v \in app.view.items[n].likes)
              ELSE v \in app.view.items[n].likes)
      BY <3>1 DEF Toggled
    <3>4. Owes(q, item, v) <=> (item = id /\ v = u)
      BY <1>6, <2>1 DEF Owes
    <3>5. IsFiniteSet(S) /\ k \notin S
      BY <1>0, <1>3, <1>5, UndoneIsFinite DEF Undone
    <3>6. T = IF Owes(q, item, v) THEN S \cup {k} ELSE S
      BY <1>3, <1>5 DEF Undone
    <3> HIDE DEF S, T, item
    <3>7. IsOdd(S \cup {k}) <=> ~IsOdd(S)
      BY <3>5, OddAdd
    <3>8. (v \in d.view.items[n].likes) <=> ((v \in db.likes[item]) <=> ~IsOdd(T))
      BY <3>2, <3>3, <3>4, <3>6, <3>7
    <3> QED
      BY <3>1, <3>8 DEF T
  <2> QED
    BY <2>2, <2>3, <2>4, <2>5 DEF Agrees
<1>10. FeedOK(d, db, odd')
  BY <1>8, <1>9 DEF FeedOK
<1> QED
  BY <1>0, <1>1, <1>10 DEF FeedKept

\* What is left of the tab before does not disturb the page that is loaded.
LEMMA LoadOverEnters ==
    ASSUME NEW u, NEW at, NEW arg, NEW m, IsNet(m), \A i \in DOMAIN m : m[i].to = "nobody"
    PROVE  LET d == [Load(u, at, arg) EXCEPT !.net = m \o @]
           IN  d.at = "/feed" => Entered(d)
<1> DEFINE l == Load(u, at, arg)
           d == [l EXCEPT !.net = m \o @]
<1>1. IsTab(l)
  BY LoadLists DEF ListsOK
<1>2. l.at = "/feed" => Entered(l)
  BY LoadEnters
<1> HIDE DEF l
<1>3. d.at = l.at /\ d.view = l.view /\ d.net = m \o l.net
  BY <1>1 DEF IsTab, TabFields
<1> HIDE DEF d
<1>4. ASSUME d.at = "/feed" PROVE Entered(d)
  <2> DEFINE n == l.net
             S == {m[i] : i \in 1..Len(m)} \cup {n[i] : i \in 1..Len(n)}
  <2>1. PICK k \in DOMAIN n :
           /\ ForPage(n[k]) /\ n[k].arg = <<1>> /\ n[k].phase = "sent"
           /\ \A j \in DOMAIN n : n[j].to = "page" => j = k
    BY <1>2, <1>3, <1>4 DEF Entered
  <2>2. IsSequence(m) /\ IsSequence(n)
    BY <1>1 DEF IsTab, IsNet
  <2>3. m \in Seq(S) /\ n \in Seq(S)
    BY <2>2, SequenceIsSeq
  <2> HIDE DEF S
  <2>4. /\ Len(m) \in Nat /\ Len(n) \in Nat /\ DOMAIN m = 1..Len(m) /\ DOMAIN n = 1..Len(n)
    BY <2>2 DEF IsSequence
  <2>5. /\ m \o n \in Seq(S) /\ Len(m \o n) = Len(m) + Len(n)
        /\ \A i \in 1..(Len(m) + Len(n)) :
              (m \o n)[i] = IF i <= Len(m) THEN m[i] ELSE n[i - Len(m)]
    BY <2>3, ConcatProperties
  <2>6. DOMAIN (m \o n) = 1..(Len(m) + Len(n))
    BY <2>5, SeqIsSequence
  <2>7. Len(m) + k \in DOMAIN (m \o n) /\ (m \o n)[Len(m) + k] = n[k]
    <3>1. k \in 1..Len(n)
      BY <2>4
    <3>2. Len(m) + k \in 1..(Len(m) + Len(n)) /\ ~(Len(m) + k <= Len(m)) /\ Len(m) + k - Len(m) = k
      BY <2>4, <3>1
    <3> QED
      BY <2>5, <2>6, <3>2
  <2>8. ASSUME NEW j \in DOMAIN (m \o n), (m \o n)[j].to = "page" PROVE j = Len(m) + k
    <3>1. j \in 1..(Len(m) + Len(n))
      BY <2>6
    <3>2. ~(j <= Len(m))
      BY <2>4, <2>5, <2>8, <3>1
    <3>3. j - Len(m) \in DOMAIN n
      BY <2>4, <3>1, <3>2
    <3>4. (m \o n)[j] = n[j - Len(m)]
      BY <2>5, <3>1, <3>2
    <3>5. j - Len(m) = k
      BY <2>1, <2>8, <3>3, <3>4
    <3> QED
      BY <2>4, <3>1, <3>5
  <2> HIDE DEF n
  <2>9. /\ d.view.items = <<>> /\ d.view.page = 1 /\ d.view.loaded = {1}
        /\ d.view.busy = TRUE /\ d.view.failed = FALSE
    BY <1>2, <1>3, <1>4 DEF Entered
  <2>10. d.net = m \o n
    BY <1>3 DEF n
  <2> QED
    BY <2>1, <2>7, <2>8, <2>9, <2>10 DEF Entered
<1> QED
  BY <1>4 DEF d, l

LEMMA LoadPageFeed ==
    ASSUME FeedInv, LoadPage PROVE FeedKept
<1>1. PICK at, arg : LET c == [Load(app.saved, at, arg) EXCEPT !.net = Left(app) \o @]
                     IN  app' = c /\ odd' = Mixed(c)
  BY DEF LoadPage
<1> DEFINE c == [Load(app.saved, at, arg) EXCEPT !.net = Left(app) \o @]
<1>2. IsTab(app) /\ StoreOK(db) /\ db' = db
  BY FeedFacts DEF LoadPage
<1>3. IsNet(Left(app)) /\ \A i \in DOMAIN Left(app) : Left(app)[i].to = "nobody"
  BY <1>2, LeftIsForNobody
<1>4. c.at = "/feed" => Entered(c)
  BY <1>3, LoadOverEnters
<1>5. app' = c /\ odd' = Mixed(c)
  BY <1>1
<1> HIDE DEF c
<1>6. c.at = "/feed" => FeedOK(c, db, odd')
  BY <1>4, <1>5, EnteredFeed
<1> QED
  BY <1>2, <1>5, <1>6 DEF FeedKept, FeedOK

LEMMA PersonFeed ==
    ASSUME FeedInv, Person PROVE FeedKept
<1>1. CASE FeedPage
  BY <1>1, LikeFeed, GoKept DEF FeedPage, At
<1>2. CASE LoadMore \/ RetryFeed
  BY <1>2, LoadMoreFeed, RetryFeedKept
<1>3. CASE AppHeader \/ Login \/ Register
  BY <1>3, AccountFeed
<1>4. CASE LoadPage
  BY <1>4, LoadPageFeed
<1>5. CASE Elsewhere /\ ~FeedPage /\ ~LoadMore /\ ~RetryFeed
  BY <1>5, OtherPagesFeed
<1> QED
  BY <1>1, <1>2, <1>3, <1>4, <1>5 DEF Person, Elsewhere

LEMMA FeedInitially == Init => FeedInv
<1> SUFFICES ASSUME Init PROVE FeedInv
  OBVIOUS
<1>1. PICK u, at, arg : app = Load(u, at, arg)
  BY DEF Init
<1>2. SessionInv
  <2>1. Good(app) /\ OneSession(app)
    BY <1>1, LoadIsGood DEF OneSession, OneLogin
  <2> QED
    BY <2>1 DEF SessionInv, SessionOK, OneSession
<1>3. ListInv
  BY <1>1, LoadLists DEF ListInv
<1>4. StoreOK(db)
  BY DEF Init, StoreOK
<1>5. app.at = "/feed" => Entered(app) /\ Mixed(app) = {}
  BY <1>1, LoadEnters DEF Mixed
<1>6. FeedOK(app, db, odd)
  BY <1>5, EnteredFeed DEF FeedOK
<1> QED
  BY <1>2, <1>3, <1>4, <1>6 DEF FeedInv

LEMMA FeedAlways == FeedInv /\ [Next]_vars => FeedInv'
<1> SUFFICES ASSUME FeedInv, [Next]_vars PROVE FeedInv'
  OBVIOUS
<1>0. SessionInv /\ ListInv
  BY DEF FeedInv
<1>1. CASE UNCHANGED vars
  <2>1. app' = app /\ db' = db /\ odd' = odd
    BY <1>1 DEF vars
  <2> QED
    BY <2>1 DEF FeedInv, SessionInv, ListInv
<1>2. CASE Next
  <2>1. SessionInv'
    BY <1>0, <1>2, NetworkSession, PersonSession, WorldSession, OtherTabSession DEF Next
  <2>2. ListInv'
    BY <1>0, <1>2, NetworkLists, PersonLists, WorldLists DEF Next
  <2>3. FeedKept
    BY <1>2, NetworkFeed, PersonFeed, WorldFeed DEF Next
  <2> QED
    BY <2>1, <2>2, <2>3 DEF FeedInv, FeedKept
<1> QED
  BY <1>1, <1>2

\* The feed shows the items of its pages once and in order, and between
\* requests the likes that are stored, whatever is answered or fails when
\* (FeedPage.tsx: loadedPages, handleLike). One page at most is under way, and
\* it is the next or the first; whether the page and the server differ about
\* somebody's like is whether an odd number of that person's likes is not
\* stored yet.
THEOREM FeedIsWhole == Spec => []FeedStaysWhole
<1>1. FeedInv => FeedStaysWhole
  <2> SUFFICES ASSUME FeedInv, app.at = "/feed"
               PROVE  /\ "gap" \notin odd => \A n \in DOMAIN app.view.items : app.view.items[n].id = n
                      /\ ~Sending(app, "like") /\ odd \cap {"lost", "mix", "swap"} = {} =>
                            \A n \in DOMAIN app.view.items :
                               app.view.items[n].likes = db.likes[app.view.items[n].id]
    BY DEF FeedStaysWhole, At
  <2>1. Paged(app, odd) /\ (Plainly(odd) => Agrees(app, db))
    BY FeedFacts DEF FeedOK
  <2>2. "gap" \notin odd => \A n \in DOMAIN app.view.items : app.view.items[n].id = n
    BY <2>1 DEF Paged, InOrder, Whole
  <2>3. ASSUME ~Sending(app, "like"), Plainly(odd), NEW n \in DOMAIN app.view.items
        PROVE  app.view.items[n].likes = db.likes[app.view.items[n].id]
    <3> DEFINE shown == app.view.items[n].likes
               stored == db.likes[app.view.items[n].id]
    <3>1. \A v : v \in shown <=> v \in stored
      BY <2>1, <2>3, NothingUndone DEF Agrees
    <3> HIDE DEF shown, stored
    <3>2. shown = stored
      BY <3>1
    <3> QED
      BY <3>2 DEF shown, stored
  <2> QED
    BY <2>2, <2>3 DEF Plainly
<1> QED
  BY <1>1, FeedInitially, FeedAlways, PTL DEF Spec
-----------------------------------------------------------------------------
(* What the pages show: what a page waits for.                               *)

HomePages    == {"/", "/rounds"}
ProfilePages == {"/profile", "/users"}
ProfileAsks  == {"profile", "achievements", "rounds"}
RoundAsks    == {"details", "recent", "activeRound", "pace", "courseStats", "roundStats",
                 "round", "score", "complete", "skip", "delete", "leave"}
CupAsks      == {"tournament", "join", "addCourse", "calculatePrices"}
\* The requests a page makes, if nobody is in a rush.
PageAsks(at) ==
    CASE at \in HomePages    -> RoundAsks
      [] at \in ProfilePages -> ProfileAsks
      [] at \in {"/login", "/register"} -> {"login", "register"}
      [] at = "/feed"        -> {"feed", "like"}
      [] at = "/leaders"     -> {"leaderboard"}
      [] at = "/new-round"   -> {"layouts", "people", "createRound"}
      [] at \in {"/courses", "/course"} -> {"courses"}
      [] at = "/new-course"  -> {"createCourse"}
      [] at = "/tournaments" -> {"tournaments"}
      [] at = "/tournament"  -> CupAsks \cup {"courses"}
      [] at = "/new-tournament" -> {"createTournament"}
      [] OTHER -> {}
WhoseIs(c) == IF c.at = "/users" THEN c.arg[1] ELSE c.user
Filter(c)  == IF c.at = "/course" THEN c.arg[1] ELSE c.view.ask
\* A request of the page that is open, about what it shows.
Proper(c, q) ==
    /\ q.op \in PageAsks(c.at) /\ q.who = c.saved /\ q.to # "nobody"
    /\ c.user = NoOne => c.at \in {"/login", "/register"}
    /\ q.op \in ProfileAsks => q.arg[1] = WhoseIs(c)
    /\ q.op = "recent" => q.arg[1] = c.user
    /\ q.op = "courses" /\ c.at # "/tournament" => q.arg[1] = Filter(c)
    /\ q.op \in CupAsks => q.arg[1] = c.arg[1]
    /\ q.op = "join" => q.arg[2] = c.user
    /\ q.op \in {"login", "register"} => q.arg[1] # NoOne
\* The pages that ask for more than one thing at a time.
Many(c) == c.user # NoOne /\ c.at \in HomePages \cup ProfilePages
Batch(c) ==
    /\ \A i \in DOMAIN c.net : Proper(c, c.net[i])
    /\ ~Many(c) => Len(c.net) <= 1

\* d shows what c shows.
Same(c, d) ==
    /\ d.user = c.user /\ d.saved = c.saved /\ d.at = c.at /\ d.arg = c.arg
    /\ d.profile = c.profile /\ d.cups = c.cups /\ d.cup = c.cup
    /\ d.courses = c.courses /\ d.recent = c.recent /\ d.details.who = c.details.who
    /\ d.view.ask = c.view.ask
\* The same request, but for who hears the answer.
Carried(q, r) ==
    /\ r.op = q.op /\ r.arg = q.arg /\ r.who = q.who /\ r.phase = q.phase /\ r.data = q.data
    /\ r.to = "nobody" => q.to = "nobody"
\* d is c with more requests.
Grows(c, d) ==
    /\ IsTab(d) /\ Same(c, d)
    /\ DOMAIN c.net \subseteq DOMAIN d.net
    /\ \A i \in DOMAIN c.net : Carried(c.net[i], d.net[i])
    /\ \A i \in DOMAIN d.net \ DOMAIN c.net : Proper(c, d.net[i]) /\ d.net[i].phase = "sent"
Asking(c, op) == \E i \in DOMAIN c.net : c.net[i].op = op

LEMMA SameProper ==
    ASSUME NEW c, NEW d, Same(c, d)
    PROVE  /\ \A q : Proper(d, q) <=> Proper(c, q)
           /\ WhoseIs(d) = WhoseIs(c) /\ Filter(d) = Filter(c) /\ (Many(d) <=> Many(c))
BY DEF Same, Proper, WhoseIs, Filter, Many

LEMMA CarriedProper ==
    ASSUME NEW c, NEW q, NEW r, Carried(q, r), Proper(c, q) PROVE Proper(c, r)
BY DEF Carried, Proper

LEMMA GrowsTransitive ==
    ASSUME NEW c, NEW d, NEW e, Grows(c, d), Grows(d, e) PROVE Grows(c, e)
<1>1. Same(c, e) /\ IsTab(e) /\ DOMAIN c.net \subseteq DOMAIN e.net
  BY DEF Grows, Same
<1>2. \A i \in DOMAIN c.net : Carried(c.net[i], e.net[i])
  BY DEF Grows, Carried
<1>3. \A i \in DOMAIN e.net \ DOMAIN c.net : Proper(c, e.net[i]) /\ e.net[i].phase = "sent"
  <2> SUFFICES ASSUME NEW i \in DOMAIN e.net, i \notin DOMAIN c.net
               PROVE  Proper(c, e.net[i]) /\ e.net[i].phase = "sent"
    OBVIOUS
  <2>1. CASE i \in DOMAIN d.net
    <3>1. Proper(c, d.net[i]) /\ d.net[i].phase = "sent" /\ Carried(d.net[i], e.net[i])
      BY <2>1 DEF Grows
    <3> QED
      BY <3>1, CarriedProper DEF Carried
  <2>2. CASE i \notin DOMAIN d.net
    <3>1. Proper(d, e.net[i]) /\ e.net[i].phase = "sent" /\ Same(c, d)
      BY <2>2 DEF Grows
    <3> QED
      BY <3>1, SameProper
  <2> QED
    BY <2>1, <2>2
<1> QED
  BY <1>1, <1>2, <1>3 DEF Grows

LEMMA GrowsKeeps ==
    ASSUME NEW c, NEW d, Grows(c, d), \A i \in DOMAIN c.net : Proper(c, c.net[i])
    PROVE  /\ \A i \in DOMAIN d.net : Proper(d, d.net[i])
           /\ \A op : Asking(c, op) => Asking(d, op)
<1>1. \A i \in DOMAIN d.net : Proper(c, d.net[i])
  <2> SUFFICES ASSUME NEW i \in DOMAIN d.net PROVE Proper(c, d.net[i])
    OBVIOUS
  <2>1. CASE i \in DOMAIN c.net
    BY <2>1, CarriedProper DEF Grows
  <2> QED
    BY <2>1 DEF Grows
<1>2. Same(c, d)
  BY DEF Grows
<1>3. \A op : Asking(c, op) => Asking(d, op)
  BY DEF Grows, Asking, Carried
<1> QED
  BY <1>1, <1>2, <1>3, SameProper

\* A store changes that is none of these.
LEMMA SameGrows ==
    ASSUME NEW c, IsTab(c), NEW d, DOMAIN d = TabFields, d.net = c.net, Same(c, d)
    PROVE  Grows(c, d)
BY DEF Grows, IsTab, Carried

LEMMA AskingGrows ==
    ASSUME NEW c, IsTab(c), NEW op, NEW arg, Proper(c, Request(op, arg, c.saved))
    PROVE  LET d == Asks(c, op, arg)
           IN  /\ Grows(c, d) /\ Asking(d, op) /\ Len(d.net) = Len(c.net) + 1
               /\ d.err = c.err /\ d.view = c.view
<1> DEFINE d == Asks(c, op, arg)
           q == Request(op, arg, c.saved)
<1>1. /\ IsTab(d) /\ Len(c.net) + 1 \notin DOMAIN c.net
      /\ DOMAIN d.net = DOMAIN c.net \cup {Len(c.net) + 1}
      /\ \A i \in DOMAIN c.net : d.net[i] = c.net[i]
      /\ d.net[Len(c.net) + 1] = q
  BY AskingExtends
<1>2. d.net = Append(c.net, q) /\ \A f \in TabFields \ {"net"} : d[f] = c[f]
  BY AskingAppends
<1>3. q.phase = "sent" /\ q.op = op
  BY RequestIsRequest
<1> HIDE DEF d, q
<1>4. Same(c, d) /\ d.err = c.err /\ d.view = c.view
  BY <1>2 DEF Same, TabFields
<1>5. Grows(c, d) /\ Asking(d, op)
  BY <1>1, <1>3, <1>4 DEF Grows, Carried, Asking, q
<1>6. Len(d.net) = Len(c.net) + 1
  <2>1. Len(c.net) \in Nat /\ Len(d.net) \in Nat /\ DOMAIN c.net = 1..Len(c.net)
        /\ DOMAIN d.net = 1..Len(d.net)
    BY <1>1 DEF IsTab, IsNet, IsSequence
  <2> DEFINE m == Len(d.net)
             n == Len(c.net)
  <2>2. 1..m = (1..n) \cup {n + 1}
    BY <2>1, <1>1
  <2>3. m \in Nat /\ n \in Nat
    BY <2>1
  <2> HIDE DEF m, n
  <2>4. n + 1 \in 1..m
    BY <2>2
  <2>5. m \in 1..m
    BY <2>3, <2>4
  <2>6. m = n + 1
    BY <2>2, <2>3, <2>4, <2>5
  <2> QED
    BY <2>6 DEF m, n
<1> QED
  BY <1>4, <1>5, <1>6 DEF d

-----------------------------------------------------------------------------
(* What the pages show: effects.                                             *)

HasCups(c) == "cups" \in c.err
LEMMA LoadingGrows ==
    ASSUME NEW c, IsTab(c), NEW store, NEW op, NEW arg, Proper(c, Request(op, arg, c.saved))
    PROVE  LET d == Loads(c, store, op, arg)
           IN  /\ Grows(c, d) /\ Asking(d, op) /\ Len(d.net) = Len(c.net) + 1
               /\ store # "cups" => (HasCups(d) <=> HasCups(c))
<1> DEFINE e == [c EXCEPT !.busy = @ \cup {store}, !.err = @ \ {store}]
           d == Asks(e, op, arg)
<1>1. /\ IsTab(e) /\ DOMAIN e = TabFields /\ e.net = c.net /\ Same(c, e) /\ e.saved = c.saved
      /\ store # "cups" => (HasCups(e) <=> HasCups(c))
  BY DEF IsTab, TabFields, Same, HasCups
<1>2. Loads(c, store, op, arg) = d
  BY DEF Loads
<1> HIDE DEF e
<1>3. Proper(e, Request(op, arg, e.saved)) /\ Grows(c, e)
  BY <1>1, SameProper, SameGrows
<1>4. /\ Grows(e, d) /\ Asking(d, op) /\ Len(d.net) = Len(e.net) + 1 /\ d.err = e.err
  BY <1>1, <1>3, AskingGrows
<1> HIDE DEF d
<1>5. Grows(c, d)
  BY <1>3, <1>4, GrowsTransitive
<1> QED
  BY <1>1, <1>2, <1>4, <1>5 DEF HasCups

LEMMA ViewGrows ==
    ASSUME NEW c, IsTab(c), ViewOK(c), NEW op, NEW arg, Proper(c, Request(op, arg, c.saved))
    PROVE  /\ Grows(c, Waits(c, op, arg)) /\ Len(Waits(c, op, arg).net) = Len(c.net) + 1
           /\ Grows(c, Starts(c, op, arg)) /\ Len(Starts(c, op, arg).net) = Len(c.net) + 1
           /\ (HasCups(Waits(c, op, arg)) <=> HasCups(c))
           /\ (HasCups(Starts(c, op, arg)) <=> HasCups(c))
           /\ Asking(Waits(c, op, arg), op) /\ Asking(Starts(c, op, arg), op)
<1> DEFINE e == [c EXCEPT !.view.busy = TRUE, !.view.failed = FALSE]
           f == [c EXCEPT !.view.starting = TRUE]
<1>1. /\ IsTab(e) /\ DOMAIN e = TabFields /\ e.net = c.net /\ Same(c, e) /\ e.saved = c.saved
      /\ e.err = c.err
  BY DEF IsTab, TabFields, Same, ViewOK, ViewFields
<1>2. /\ IsTab(f) /\ DOMAIN f = TabFields /\ f.net = c.net /\ Same(c, f) /\ f.saved = c.saved
      /\ f.err = c.err
  BY DEF IsTab, TabFields, Same, ViewOK, ViewFields
<1>3. Waits(c, op, arg) = Asks(e, op, arg) /\ Starts(c, op, arg) = Asks(f, op, arg)
  BY DEF Waits, Starts
<1> HIDE DEF e, f
<1>4. /\ Proper(e, Request(op, arg, e.saved)) /\ Grows(c, e)
      /\ Proper(f, Request(op, arg, f.saved)) /\ Grows(c, f)
  BY <1>1, <1>2, SameProper, SameGrows
<1>5. /\ Grows(e, Asks(e, op, arg)) /\ Len(Asks(e, op, arg).net) = Len(e.net) + 1
      /\ Asks(e, op, arg).err = e.err /\ Asking(Asks(e, op, arg), op)
  BY <1>1, <1>4, AskingGrows
<1>6. /\ Grows(f, Asks(f, op, arg)) /\ Len(Asks(f, op, arg).net) = Len(f.net) + 1
      /\ Asks(f, op, arg).err = f.err /\ Asking(Asks(f, op, arg), op)
  BY <1>2, <1>4, AskingGrows
<1>7. Grows(c, Asks(e, op, arg)) /\ Grows(c, Asks(f, op, arg))
  BY <1>4, <1>5, <1>6, GrowsTransitive
<1> QED
  BY <1>1, <1>2, <1>3, <1>5, <1>6, <1>7 DEF HasCups

\* An effect of the page, about what the page shows.
Belongs(c, f) ==
    /\ c.user # NoOne
    /\ \/ f.op = "home" /\ c.at = "/" /\ f.arg[1] = c.user
       \/ f.op \in {"activeRound", "round", "roundStats"} /\ c.at \in HomePages
       \/ f.op = "feed" /\ c.at = "/feed"
       \/ f.op = "profile" /\ c.at \in ProfilePages /\ f.arg[1] = WhoseIs(c)
       \/ f.op = "courses" /\ c.at \in {"/courses", "/course"} /\ f.arg[1] = Filter(c)
       \/ f.op = "courses" /\ c.at = "/tournament"
       \/ f.op = "tournaments" /\ c.at = "/tournaments"
       \/ f.op = "tournament" /\ c.at = "/tournament" /\ f.arg[1] = c.arg[1]
       \/ f.op = "leaderboard" /\ c.at = "/leaders"
       \/ f.op \in {"layouts", "people"} /\ c.at = "/new-round"

LEMMA SameBelongs ==
    ASSUME NEW c, NEW d, Same(c, d), NEW f PROVE Belongs(d, f) <=> Belongs(c, f)
BY DEF Same, Belongs, WhoseIs, Filter

\* Requests that fit the page of a round, or the front page.
LEMMA RoundProper ==
    ASSUME NEW c, c.user # NoOne, c.at \in HomePages, NEW op \in RoundAsks \ {"recent"}, NEW arg
    PROVE  Proper(c, Request(op, arg, c.saved))
<1>1. op \in PageAsks(c.at)
  BY DEF PageAsks, HomePages, ProfilePages
<1> QED
  BY <1>1 DEF Proper, Request, HomePages, RoundAsks, ProfileAsks, CupAsks

LEMMA EffectGrows ==
    ASSUME NEW c, IsTab(c), ViewOK(c), NEW f, Belongs(c, f)
    PROVE  LET d == Effect(c, f)
           IN  /\ Grows(c, d)
               /\ f.op = "home" => Asking(d, "recent") /\ Asking(d, "details")
               /\ f.op \in {"courses", "tournaments", "tournament"} => Asking(d, f.op)
               /\ c.at \notin HomePages \cup ProfilePages =>
                    Len(d.net) \in {Len(c.net), Len(c.net) + 1}
               /\ f.op \notin {"tournament", "tournaments"} => (HasCups(d) <=> HasCups(c))
<1> DEFINE h == connectHub(c)
           P(op, arg) == Proper(c, Request(op, arg, c.saved))
<1>0. IsTab(h) /\ Grows(c, h) /\ (HasCups(h) <=> HasCups(c)) /\ Same(c, h)
  <2>1. /\ DOMAIN h = TabFields /\ h.net = c.net /\ Same(c, h) /\ h.err = c.err
    BY DEF connectHub, Same, IsTab, TabFields
  <2> HIDE DEF h
  <2> QED
    BY <2>1, SameGrows DEF Grows, HasCups
<1>00. c.user # NoOne
  BY DEF Belongs
<1>1. CASE f.op = "home"
  <2> DEFINE c1 == Asks(h, "details", <<>>)
             c2 == Asks(c1, "recent", <<f.arg[1]>>)
  <2>0. Effect(c, f) = c2
    BY <1>1 DEF Effect, fetchUserDetails, fetchRecentRounds
  <2> HIDE DEF h
  <2>1. c.at = "/" /\ f.arg[1] = c.user
    BY <1>1 DEF Belongs
  <2>2. Proper(h, Request("details", <<>>, h.saved))
    <3>1. h.user # NoOne /\ h.at \in HomePages /\ "details" \in RoundAsks \ {"recent"}
      BY <1>0, <1>00, <2>1 DEF Same, HomePages, RoundAsks
    <3> QED
      BY <3>1, RoundProper
  <2>3. /\ Grows(h, c1) /\ Asking(c1, "details") /\ c1.err = h.err
    BY <1>0, <2>2, AskingGrows
  <2> HIDE DEF c1
  <2>4. Same(h, c1) /\ IsTab(c1)
    BY <2>3 DEF Grows
  <2>5. Proper(c1, Request("recent", <<f.arg[1]>>, c1.saved))
    <3>1. c1.user # NoOne /\ c1.at = "/" /\ f.arg[1] = c1.user
      BY <1>0, <1>00, <2>1, <2>4 DEF Same
    <3>2. "recent" \in PageAsks(c1.at)
      BY <3>1 DEF PageAsks, HomePages, ProfilePages, RoundAsks
    <3> QED
      BY <3>1, <3>2 DEF Proper, Request, ProfileAsks, CupAsks
  <2>6. Grows(c1, c2) /\ Asking(c2, "recent") /\ c2.err = c1.err
    BY <2>4, <2>5, AskingGrows
  <2> HIDE DEF c2
  <2>7. Grows(c, c2) /\ Asking(c2, "details")
    <3>1. Asking(c2, "details")
      BY <2>3, <2>6 DEF Grows, Asking, Carried
    <3> QED
      BY <3>1, <1>0, <2>3, <2>6, GrowsTransitive
  <2> QED
    BY <1>0, <1>1, <2>0, <2>1, <2>3, <2>6, <2>7 DEF HasCups, HomePages
<1>2. CASE f.op = "round"
  <2> DEFINE id == f.arg[1]
             c1 == Loads(h, "round", "round", <<id>>)
             c2 == Asks(c1, "pace", <<id>>)
             c3 == Asks(c2, "courseStats", <<id>>)
  <2>0. Effect(c, f) = c3
    BY <1>2 DEF Effect, fetchCourseStats, fetchPaceData, fetchRound
  <2> HIDE DEF h
  <2>1. c.at \in HomePages
    BY <1>2 DEF Belongs
  <2>R. \A e : Same(c, e) => \A op \in {"round", "pace", "courseStats"} : \A arg :
                                Proper(e, Request(op, arg, e.saved))
    BY <1>00, <2>1, RoundProper DEF Same, RoundAsks
  <2>2. Grows(h, c1) /\ (HasCups(c1) <=> HasCups(h))
    BY <1>0, <2>R, LoadingGrows
  <2> HIDE DEF c1
  <2>3. Same(c, c1) /\ IsTab(c1) /\ Grows(c, c1)
    BY <2>2, <1>0, GrowsTransitive DEF Grows
  <2>4. Grows(c1, c2) /\ c2.err = c1.err
    BY <2>3, <2>R, AskingGrows
  <2> HIDE DEF c2
  <2>5. Same(c, c2) /\ IsTab(c2) /\ Grows(c, c2)
    BY <2>3, <2>4, GrowsTransitive DEF Grows
  <2>6. Grows(c2, c3) /\ c3.err = c2.err
    BY <2>5, <2>R, AskingGrows
  <2> HIDE DEF c3
  <2>7. Grows(c, c3)
    BY <2>5, <2>6, GrowsTransitive
  <2> QED
    BY <1>0, <1>2, <2>0, <2>1, <2>2, <2>4, <2>6, <2>7 DEF HasCups
<1>3. CASE f.op \in {"activeRound", "roundStats"}
  <2>0. Effect(c, f) = Asks(c, f.op, <<f.arg[1]>>)
    BY <1>3 DEF Effect, fetchActiveRound, fetchRoundStats
  <2>1. c.at \in HomePages /\ f.op \in RoundAsks \ {"recent"}
    BY <1>3 DEF Belongs, RoundAsks
  <2>2. Proper(c, Request(f.op, <<f.arg[1]>>, c.saved))
    BY <1>00, <2>1, RoundProper
  <2> QED
    BY <1>3, <2>0, <2>1, <2>2, AskingGrows DEF HasCups
<1>4. CASE f.op = "profile"
  <2> DEFINE u == f.arg[1]
             c1 == Loads(c, "profile", "profile", <<u>>)
             c2 == Asks(c1, "achievements", <<u>>)
             c3 == Asks(c2, "rounds", <<u, 1>>)
  <2>0. Effect(c, f) = c3
    BY <1>4 DEF Effect, ProfileOf, fetchRounds, fetchAchievements, fetchProfile, Lists
  <2>1. c.at \in ProfilePages /\ u = WhoseIs(c)
    BY <1>4 DEF Belongs
  <2>R. \A e : Same(c, e) => /\ Proper(e, Request("profile", <<u>>, e.saved))
                             /\ Proper(e, Request("achievements", <<u>>, e.saved))
                             /\ Proper(e, Request("rounds", <<u, 1>>, e.saved))
    <3> SUFFICES ASSUME NEW e, Same(c, e), NEW op \in ProfileAsks, NEW arg, arg[1] = u
                 PROVE  Proper(e, Request(op, arg, e.saved))
      BY DEF ProfileAsks
    <3>1. e.at \in ProfilePages /\ e.user # NoOne /\ arg[1] = WhoseIs(e)
      BY <1>00, <2>1, SameProper DEF Same
    <3>2. op \in PageAsks(e.at)
      BY <3>1 DEF PageAsks, HomePages, ProfilePages
    <3> QED
      BY <3>1, <3>2 DEF Proper, Request, ProfileAsks, CupAsks
  <2> HIDE DEF u
  <2>2. Grows(c, c1) /\ (HasCups(c1) <=> HasCups(c))
    BY <2>R, LoadingGrows DEF Same
  <2> HIDE DEF c1
  <2>3. Same(c, c1) /\ IsTab(c1)
    BY <2>2 DEF Grows
  <2>4. Grows(c1, c2) /\ c2.err = c1.err
    BY <2>3, <2>R, AskingGrows
  <2> HIDE DEF c2
  <2>5. Same(c, c2) /\ IsTab(c2) /\ Grows(c, c2)
    BY <2>2, <2>3, <2>4, GrowsTransitive DEF Grows
  <2>6. Grows(c2, c3) /\ c3.err = c2.err
    BY <2>5, <2>R, AskingGrows
  <2> HIDE DEF c3
  <2>7. Grows(c, c3)
    BY <2>5, <2>6, GrowsTransitive
  <2> QED
    BY <1>4, <2>0, <2>1, <2>2, <2>4, <2>6, <2>7 DEF HasCups
<1>5. CASE f.op \in {"courses", "tournaments", "tournament"}
  <2> DEFINE arg == IF f.op = "tournaments" THEN <<>> ELSE <<f.arg[1]>>
             store == IF f.op = "courses" THEN "courses" ELSE "cups"
  <2>0. Effect(c, f) = Loads(c, store, f.op, arg)
    BY <1>5 DEF Effect, fetchCourses, fetchTournaments, fetchTournament
  <2>1. Proper(c, Request(f.op, arg, c.saved))
    <3>1. f.op \in PageAsks(c.at) /\ c.at \notin HomePages \cup ProfilePages
      BY <1>5 DEF Belongs, PageAsks, HomePages, ProfilePages, CupAsks
    <3>2. f.op = "courses" /\ c.at # "/tournament" => f.arg[1] = Filter(c)
      BY <1>5 DEF Belongs
    <3>3. f.op = "tournament" => f.arg[1] = c.arg[1]
      BY <1>5 DEF Belongs
    <3> QED
      BY <1>00, <1>5, <3>1, <3>2, <3>3 DEF Proper, Request, ProfileAsks, CupAsks
  <2> HIDE DEF arg
  <2>2. c.at \notin HomePages \cup ProfilePages
    BY <1>5 DEF Belongs, HomePages, ProfilePages
  <2> QED
    BY <1>5, <2>0, <2>1, <2>2, LoadingGrows
<1>6. CASE f.op = "feed"
  <2>0. Effect(c, f) = fetchPage(c, f.arg[1])
    BY <1>6 DEF Effect
  <2>1. c.at = "/feed"
    BY <1>6 DEF Belongs
  <2> DEFINE e == [c EXCEPT !.view.loaded = @ \cup {f.arg[1]}]
             d == Waits(e, "feed", <<f.arg[1]>>)
  <2>2. IsTab(e) /\ ViewOK(e) /\ DOMAIN e = TabFields /\ e.net = c.net /\ Same(c, e) /\ e.err = c.err
    BY DEF IsTab, TabFields, Same, ViewOK, ViewFields
  <2>3. fetchPage(c, f.arg[1]) = c \/ fetchPage(c, f.arg[1]) = d
    BY DEF fetchPage
  <2> HIDE DEF e
  <2>4. Proper(e, Request("feed", <<f.arg[1]>>, e.saved)) /\ Grows(c, e)
    <3>1. e.at = "/feed" /\ e.user # NoOne
      BY <1>00, <2>1, <2>2 DEF Same
    <3>2. "feed" \in PageAsks(e.at)
      BY <3>1 DEF PageAsks, HomePages, ProfilePages
    <3> QED
      BY <2>2, <3>1, <3>2, SameGrows DEF Proper, Request, ProfileAsks, CupAsks
  <2>5. Grows(e, d) /\ Len(d.net) = Len(e.net) + 1 /\ (HasCups(d) <=> HasCups(e))
    BY <2>2, <2>4, ViewGrows
  <2> HIDE DEF d
  <2>6. Grows(c, d) /\ Grows(c, c)
    BY <2>4, <2>5, GrowsTransitive, SameGrows DEF Same, IsTab
  <2> QED
    BY <1>6, <2>0, <2>2, <2>3, <2>5, <2>6 DEF HasCups
<1>7. CASE f.op \in Lists
  <2>1. Proper(c, Request(f.op, f.arg, c.saved)) /\ c.at \notin HomePages \cup ProfilePages
    <3>1. f.op \in PageAsks(c.at) /\ c.at \notin HomePages \cup ProfilePages
      BY <1>7 DEF Belongs, PageAsks, HomePages, ProfilePages, Lists
    <3> QED
      BY <1>00, <1>7, <3>1 DEF Proper, Request, ProfileAsks, CupAsks, Lists
  <2>2. CASE f.op = "people" /\ f.arg[1] = 0
    <3> DEFINE d == [c EXCEPT !.view.got = 0]
    <3>1. Effect(c, f) = d
      BY <2>2 DEF Effect
    <3>2. DOMAIN d = TabFields /\ d.net = c.net /\ Same(c, d) /\ d.err = c.err
      BY DEF IsTab, TabFields, Same, ViewOK, ViewFields
    <3> HIDE DEF d
    <3> QED
      BY <2>2, <3>1, <3>2, SameGrows DEF HasCups
  <2>3. CASE ~(f.op = "people" /\ f.arg[1] = 0)
    <3>1. Effect(c, f) = Waits(c, f.op, f.arg)
      BY <1>7, <2>3 DEF Effect, Lists
    <3> QED
      BY <1>7, <2>1, <3>1, ViewGrows DEF Lists
  <2> QED
    BY <2>2, <2>3
<1>8. f.op \in {"home", "activeRound", "round", "roundStats", "feed", "profile", "courses",
                "tournaments", "tournament", "leaderboard", "layouts", "people"}
  BY DEF Belongs
<1> QED
  BY <1>1, <1>2, <1>3, <1>4, <1>5, <1>6, <1>7, <1>8 DEF Lists

\* The effects of a page, one by one.
LEMMA FetchesBelong ==
    ASSUME NEW c, ViewOK(c), WellRouted(c)
    PROVE  /\ \A n \in DOMAIN Fetches(c) : n \in {1, 2} /\ Belongs(c, Fetches(c)[n])
           /\ \A n \in DOMAIN Fetches(c) :
                /\ Fetches(c)[n].op = "profile" => c.at \in ProfilePages
                /\ Fetches(c)[n].op \in Lists => c.at \notin HomePages
           /\ c.at \notin HomePages /\ (c.at = "/tournament" => c.view.ask = 0) =>
                2 \notin DOMAIN Fetches(c)
<1> USE DEF Fetch, Maybe, Lists, Belongs, WhoseIs, Filter, HomePages, ProfilePages
<1>0. c.at \notin {"/", "/login", "/register"} => c.user # NoOne
  BY DEF WellRouted, Open
<1>1. CASE c.at = "/" /\ c.user # NoOne
  <2>1. Fetches(c) = Landing(c)
    BY <1>1 DEF Fetches
  <2> QED
    BY <1>1, <2>1 DEF Landing
<1>2. CASE c.at = "/rounds"
  <2>1. Fetches(c) = Maybe(Fetch("round", c.arg),
                           c.round.completed, Fetch("roundStats", c.arg))
    BY <1>2 DEF Fetches
  <2> QED
    BY <1>0, <1>2, <2>1
<1>3. CASE c.at = "/tournament"
  <2>1. Fetches(c) = Maybe(Fetch("tournament", c.arg),
                           c.view.ask # 0, Fetch("courses", <<c.view.ask>>))
    BY <1>3 DEF Fetches
  <2> QED
    BY <1>0, <1>3, <2>1
<1>4. CASE c.at = "/new-round"
  <2>1. Fetches(c) = Wizard(c)
    BY <1>4 DEF Fetches
  <2> QED
    BY <1>0, <1>4, <2>1 DEF Wizard
<1>5. CASE c.at \in {"/leaders", "/feed", "/profile", "/users", "/courses", "/course", "/tournaments"}
  <2>1. CASE c.at \in {"/leaders", "/feed"}
    <3>1. \/ Fetches(c) = <<Fetch("leaderboard", <<c.view.ask, c.view.page>>)>> /\ c.at = "/leaders"
          \/ Fetches(c) = <<Fetch("feed", <<c.view.page>>)>> /\ c.at = "/feed"
      BY <2>1 DEF Fetches
    <3> QED
      BY <1>0, <2>1, <3>1
  <2>2. CASE c.at \in {"/profile", "/users"}
    <3>1. \/ Fetches(c) = <<Fetch("profile", <<c.user>>)>> /\ c.at = "/profile"
          \/ Fetches(c) = <<Fetch("profile", c.arg)>> /\ c.at = "/users"
      BY <2>2 DEF Fetches
    <3> QED
      BY <1>0, <2>2, <3>1
  <2>3. CASE c.at \in {"/courses", "/course", "/tournaments"}
    <3>1. \/ Fetches(c) = <<Fetch("courses", <<c.view.ask>>)>> /\ c.at = "/courses"
          \/ Fetches(c) = <<Fetch("courses", c.arg)>> /\ c.at = "/course"
          \/ Fetches(c) = <<Fetch("tournaments", <<>>)>> /\ c.at = "/tournaments"
      BY <2>3 DEF Fetches
    <3> QED
      BY <1>0, <2>3, <3>1
  <2> QED
    BY <1>5, <2>1, <2>2, <2>3
<1>7. CASE /\ ~(c.at = "/" /\ c.user # NoOne)
           /\ c.at \notin {"/rounds", "/tournament", "/new-round", "/feed", "/leaders",
                           "/profile", "/users", "/courses", "/course", "/tournaments"}
  <2>1. Fetches(c) = <<>>
    BY <1>7 DEF Fetches
  <2> QED
    BY <1>7, <2>1
<1> QED
  BY <1>1, <1>2, <1>3, <1>4, <1>5, <1>7

\* What the first effect of a page is for.
LEMMA FirstFetch ==
    ASSUME NEW c, WellRouted(c)
    PROVE  /\ c.at = "/" /\ c.user # NoOne => 1 \in DOMAIN Fetches(c) /\ Fetches(c)[1].op = "home"
           /\ c.at \in {"/courses", "/course", "/tournaments", "/tournament"} =>
                /\ 1 \in DOMAIN Fetches(c)
                /\ Fetches(c)[1] = IF c.at \in {"/courses", "/course"}
                                   THEN Fetch("courses", IF c.at = "/course" THEN c.arg
                                                         ELSE <<c.view.ask>>)
                                   ELSE IF c.at = "/tournaments" THEN Fetch("tournaments", <<>>)
                                   ELSE Fetch("tournament", c.arg)
           /\ c.at \in ProfilePages =>
                \E f : Fetches(c) = <<f>> /\ f.op = "profile" /\ f.arg[1] = WhoseIs(c)
<1> USE DEF Fetch, Maybe
<1>1. c.at = "/" /\ c.user # NoOne => Fetches(c) = Landing(c)
  BY DEF Fetches
<1>2. /\ c.at = "/courses" => Fetches(c) = <<Fetch("courses", <<c.view.ask>>)>>
      /\ c.at = "/course" => Fetches(c) = <<Fetch("courses", c.arg)>>
      /\ c.at = "/tournaments" => Fetches(c) = <<Fetch("tournaments", <<>>)>>
      /\ c.at = "/tournament" => Fetches(c) = Maybe(Fetch("tournament", c.arg),
                           c.view.ask # 0, Fetch("courses", <<c.view.ask>>))
      /\ c.at = "/profile" => Fetches(c) = <<Fetch("profile", <<c.user>>)>>
      /\ c.at = "/users" => Fetches(c) = <<Fetch("profile", c.arg)>>
  BY DEF Fetches
<1>3. c.at \in ProfilePages =>
                \E f : Fetches(c) = <<f>> /\ f.op = "profile" /\ f.arg[1] = WhoseIs(c)
  BY <1>2 DEF ProfilePages, WhoseIs
<1> QED
  BY <1>1, <1>2, <1>3 DEF Landing

\* An effect that runs, or does not.
LEMMA RunsGrow ==
    ASSUME NEW c, IsTab(c), ViewOK(c), NEW fs, NEW n, NEW new,
           n \in DOMAIN fs => Belongs(c, fs[n]) /\ FitEffect(c, fs[n])
    PROVE  LET d == Runs(c, fs, n, new)
           IN  /\ Grows(c, d) /\ Moved(c, d) /\ ViewOK(d)
               /\ n \in DOMAIN fs /\ fs[n] \in new =>
                    /\ fs[n].op = "home" => Asking(d, "recent") /\ Asking(d, "details")
                    /\ fs[n].op \in {"courses", "tournaments", "tournament"} => Asking(d, fs[n].op)
                    /\ c.at \notin HomePages \cup ProfilePages =>
                         Len(d.net) \in {Len(c.net), Len(c.net) + 1}
                    /\ fs[n].op \notin {"tournament", "tournaments"} => (HasCups(d) <=> HasCups(c))
               /\ ~(n \in DOMAIN fs /\ fs[n] \in new) => d = c
<1>1. CASE n \in DOMAIN fs /\ fs[n] \in new
  <2>1. Runs(c, fs, n, new) = Effect(c, fs[n])
    BY <1>1 DEF Runs
  <2>2. Moved(c, Effect(c, fs[n])) /\ ViewOK(Effect(c, fs[n]))
    <3>1. Moved(c, Effect(c, fs[n]))
      BY <1>1, EffectMoves DEF FitEffect
    <3> QED
      BY <3>1 DEF Moved, ViewOK
  <2> QED
    BY <1>1, <2>1, <2>2, EffectGrows
<1>2. CASE ~(n \in DOMAIN fs /\ fs[n] \in new)
  <2>1. Runs(c, fs, n, new) = c
    BY <1>2 DEF Runs
  <2> QED
    BY <1>2, <2>1, SameGrows DEF Same, IsTab, Moved
<1> QED
  BY <1>1, <1>2

\* The effects of a page: what it shows is first.
PageEffects(c, fs) ==
    /\ \A n \in DOMAIN fs : n \in {1, 2} /\ Belongs(c, fs[n]) /\ FitEffect(c, fs[n])
    /\ c.at \notin HomePages /\ (c.at = "/tournament" => c.view.ask = 0) => 2 \notin DOMAIN fs
    /\ c.at = "/" /\ c.user # NoOne => 1 \in DOMAIN fs /\ fs[1].op = "home"
    /\ c.at \in {"/courses", "/course"} => 1 \in DOMAIN fs /\ fs[1].op = "courses"
    /\ c.at = "/tournaments" => 1 \in DOMAIN fs /\ fs[1].op = "tournaments"
    /\ c.at = "/tournament" => 1 \in DOMAIN fs /\ fs[1].op = "tournament"
SamePage(c, d) ==
    d.user = c.user /\ d.saved = c.saved /\ d.at = c.at /\ d.arg = c.arg /\ d.view = c.view

LEMMA FetchesAre ==
    ASSUME NEW c, ViewOK(c), WellRouted(c) PROVE PageEffects(c, Fetches(c))
<1>1. /\ \A n \in DOMAIN Fetches(c) :
           n \in {1, 2} /\ Belongs(c, Fetches(c)[n]) /\ FitEffect(c, Fetches(c)[n])
      /\ c.at \notin HomePages /\ (c.at = "/tournament" => c.view.ask = 0) =>
           2 \notin DOMAIN Fetches(c)
  BY FetchesBelong, FetchesFit
<1>2. /\ c.at = "/" /\ c.user # NoOne => 1 \in DOMAIN Fetches(c) /\ Fetches(c)[1].op = "home"
      /\ c.at \in {"/courses", "/course", "/tournaments", "/tournament"} =>
           /\ 1 \in DOMAIN Fetches(c)
           /\ Fetches(c)[1] = IF c.at \in {"/courses", "/course"}
                              THEN Fetch("courses", IF c.at = "/course" THEN c.arg
                                                    ELSE <<c.view.ask>>)
                              ELSE IF c.at = "/tournaments" THEN Fetch("tournaments", <<>>)
                              ELSE Fetch("tournament", c.arg)
  BY FirstFetch
<1> QED
  BY <1>1, <1>2 DEF PageEffects, Fetch

LEMMA PageEffectsSame ==
    ASSUME NEW c, NEW d, SamePage(c, d), NEW fs, PageEffects(c, fs) PROVE PageEffects(d, fs)
<1>1. \A f : Belongs(c, f) <=> Belongs(d, f)
  BY DEF Belongs, SamePage, WhoseIs, Filter
<1>2. \A f : FitEffect(c, f) <=> FitEffect(d, f)
  BY DEF FitEffect, Fits, Wanted, SamePage
<1> QED
  BY <1>1, <1>2 DEF PageEffects, SamePage

\* The effects that are new.
LEMMA StartedGrows ==
    ASSUME NEW c, IsTab(c), ViewOK(c), NEW fs, PageEffects(c, fs), NEW new
    PROVE  LET d == Started(c, fs, new)
           IN  /\ Grows(c, d) /\ ViewOK(d)
               /\ \A n \in DOMAIN fs : fs[n] \in new =>
                    /\ fs[n].op = "home" => Asking(d, "recent") /\ Asking(d, "details")
                    /\ fs[n].op \in {"courses", "tournaments", "tournament"} => Asking(d, fs[n].op)
               /\ /\ c.at \notin HomePages \cup ProfilePages
                  /\ 2 \notin DOMAIN fs \/ fs[1] \notin new
                  => Len(d.net) \in {Len(c.net), Len(c.net) + 1}
               /\ (\A n \in DOMAIN fs : fs[n] \in new => fs[n].op \notin {"tournament", "tournaments"})
                    => (HasCups(d) <=> HasCups(c))
               /\ (\A n \in DOMAIN fs : fs[n] \notin new) => d = c
<1> DEFINE e == Runs(c, fs, 1, new)
           d == Runs(e, fs, 2, new)
<1>0. Started(c, fs, new) = d
  BY DEF Started
<1>1. \A n \in DOMAIN fs : n \in {1, 2} /\ Belongs(c, fs[n]) /\ FitEffect(c, fs[n])
  BY DEF PageEffects
<1>2. /\ Grows(c, e) /\ Moved(c, e) /\ ViewOK(e)
      /\ 1 \in DOMAIN fs /\ fs[1] \in new =>
           /\ fs[1].op = "home" => Asking(e, "recent") /\ Asking(e, "details")
           /\ fs[1].op \in {"courses", "tournaments", "tournament"} => Asking(e, fs[1].op)
           /\ c.at \notin HomePages \cup ProfilePages =>
                Len(e.net) \in {Len(c.net), Len(c.net) + 1}
           /\ fs[1].op \notin {"tournament", "tournaments"} => (HasCups(e) <=> HasCups(c))
      /\ ~(1 \in DOMAIN fs /\ fs[1] \in new) => e = c
  BY <1>1, RunsGrow
<1> HIDE DEF e
<1>3. IsTab(e) /\ Same(c, e)
  BY <1>2 DEF Grows
<1>4. 2 \in DOMAIN fs => Belongs(e, fs[2]) /\ FitEffect(e, fs[2])
  BY <1>1, <1>2, <1>3, SameBelongs, MovedWants DEF FitEffect
<1>5. /\ Grows(e, d) /\ ViewOK(d)
      /\ 2 \in DOMAIN fs /\ fs[2] \in new =>
           /\ fs[2].op = "home" => Asking(d, "recent") /\ Asking(d, "details")
           /\ fs[2].op \in {"courses", "tournaments", "tournament"} => Asking(d, fs[2].op)
           /\ e.at \notin HomePages \cup ProfilePages =>
                Len(d.net) \in {Len(e.net), Len(e.net) + 1}
           /\ fs[2].op \notin {"tournament", "tournaments"} => (HasCups(d) <=> HasCups(e))
      /\ ~(2 \in DOMAIN fs /\ fs[2] \in new) => d = e
  BY <1>2, <1>3, <1>4, RunsGrow
<1> HIDE DEF d
<1>6. Grows(c, d)
  BY <1>2, <1>5, GrowsTransitive
<1>7. \A op : Asking(e, op) => Asking(d, op)
  BY <1>5 DEF Grows, Asking, Carried
<1>8. e.at = c.at
  BY <1>3 DEF Same
<1>9. \A n \in DOMAIN fs : fs[n] \in new =>
        /\ fs[n].op = "home" => Asking(d, "recent") /\ Asking(d, "details")
        /\ fs[n].op \in {"courses", "tournaments", "tournament"} => Asking(d, fs[n].op)
  BY <1>1, <1>2, <1>5, <1>7
<1>10. /\ c.at \notin HomePages \cup ProfilePages
       /\ 2 \notin DOMAIN fs \/ fs[1] \notin new
       => Len(d.net) \in {Len(c.net), Len(c.net) + 1}
  BY <1>2, <1>5, <1>8
<1>11. (\A n \in DOMAIN fs : fs[n] \in new => fs[n].op \notin {"tournament", "tournaments"})
         => (HasCups(d) <=> HasCups(c))
  BY <1>2, <1>5
<1>12. (\A n \in DOMAIN fs : fs[n] \notin new) => d = c
  BY <1>2, <1>5
<1> QED
  BY <1>0, <1>5, <1>6, <1>9, <1>10, <1>11, <1>12

-----------------------------------------------------------------------------
(* What the pages show: what is on them.                                     *)

OnlyOf(c, u) ==
    /\ DOMAIN c.profile = DOMAIN NoProfile
    /\ {c.profile.who, c.profile.achievements} \subseteq {NoOne, u}
    /\ c.profile.rounds # <<>> => c.profile.rounds[1] = u
NoneOf(c) == c.profile = NoProfile
\* A page of a profile shows no other, and the other pages leave none behind.
OwnProfile(c) == IF c.at \in ProfilePages THEN OnlyOf(c, WhoseIs(c)) ELSE NoneOf(c)

Oks(c) == {i \in DOMAIN c.net : c.net[i].phase = "ok"}
\* The tournament is the one of the address, or on its way, or has failed.
OwnCup(c, b) ==
    /\ c.cups \subseteq DOMAIN b.cups
    /\ \A i \in Oks(c) :
         /\ c.net[i].op = "tournaments" => c.net[i].data = DOMAIN b.cups
         /\ c.net[i].op = "createTournament" => c.net[i].data \in DOMAIN b.cups
         /\ c.net[i].op = "tournament" => c.net[i].data.id = c.net[i].arg[1]
    /\ c.at = "/tournament" =>
         /\ c.arg[1] \in DOMAIN b.cups
         /\ HasCups(c) \/ c.cup.id = c.arg[1] \/ Asking(c, "tournament")

Reads == {"tournament", "tournaments", "courses", "details", "recent"}
\* A tournament once the answer has come in.
Cupped(cup, q) ==
    CASE q.op = "tournament" -> q.data
      [] q.op = "join"       -> [cup EXCEPT !.players = @ \cup {q.arg[2]}]
      [] q.op = "addCourse"  -> [cup EXCEPT !.courses = @ \cup {q.arg[2]}]
      [] q.op = "calculatePrices" -> [cup EXCEPT !.prices = q.data]
      [] OTHER               -> cup
CupStored(c, b) ==
    c.at = "/tournament" =>
        /\ \A i \in DOMAIN c.net :
             IF c.net[i].phase = "ok" THEN b.cups[c.arg[1]] = Cupped(c.cup, c.net[i])
             ELSE c.net[i].op # "tournament" => b.cups[c.arg[1]] = c.cup
        /\ c.net = <<>> => b.cups[c.arg[1]] = c.cup
ListsStored(c, b) ==
    /\ c.at = "/tournaments" /\ c.net = <<>> => c.cups = DOMAIN b.cups
    /\ c.at \in {"/courses", "/course"} =>
         /\ \A i \in Oks(c) : c.net[i].data = Fitting(b, Filter(c))
         /\ c.net = <<>> => c.courses = Fitting(b, Filter(c))
HomeStored(c) ==
    /\ \A i \in Oks(c) : c.net[i].op = "details" => c.net[i].data.who = c.net[i].who
    /\ c.at = "/" /\ c.user # NoOne =>
         /\ c.recent = c.user \/ Asking(c, "recent")
         /\ c.details.who = c.user \/ Asking(c, "details")
\* What a page shows is what is stored, or on its way.
Stored(c, b) ==
    /\ \A i \in DOMAIN c.net : c.net[i].op \in Reads => c.net[i].phase \in {"sent", "ok", "denied"}
    /\ CupStored(c, b) /\ ListsStored(c, b) /\ HomeStored(c)

PagesOK(c, b, o) ==
    /\ Batch(c) /\ OwnProfile(c) /\ OwnCup(c, b)
    /\ o \cap {"failed", "swap"} = {} => Stored(c, b)

\* A page that is opened with nothing under way asks for all it shows.
LEMMA StartsFresh ==
    ASSUME NEW c, IsTab(c), ViewOK(c), c.net = <<>>, NoneOf(c), c.view.ask = 0,
           NEW fs, PageEffects(c, fs),
           NEW b, c.cups \subseteq DOMAIN b.cups, c.at = "/tournament" => c.arg[1] \in DOMAIN b.cups
    PROVE  LET d == Started(c, fs, Range(fs))
           IN  (\A o : PagesOK(d, b, o)) /\ Same(c, d) /\ IsTab(d)
<1> DEFINE d == Started(c, fs, Range(fs))
<1>1. /\ Grows(c, d)
      /\ \A n \in DOMAIN fs : fs[n] \in Range(fs) =>
           /\ fs[n].op = "home" => Asking(d, "recent") /\ Asking(d, "details")
           /\ fs[n].op \in {"courses", "tournaments", "tournament"} => Asking(d, fs[n].op)
      /\ /\ c.at \notin HomePages \cup ProfilePages
         /\ 2 \notin DOMAIN fs \/ fs[1] \notin Range(fs)
         => Len(d.net) \in {Len(c.net), Len(c.net) + 1}
      /\ (\A n \in DOMAIN fs : fs[n] \notin Range(fs)) => d = c
  BY StartedGrows
<1>2. \A n \in DOMAIN fs : fs[n] \in Range(fs)
  BY DEF Range
<1>4. /\ c.at \notin HomePages => 2 \notin DOMAIN fs
      /\ \A n \in DOMAIN fs : Belongs(c, fs[n])
  BY DEF PageEffects
<1>5. /\ c.at = "/" /\ c.user # NoOne => Asking(d, "recent") /\ Asking(d, "details")
      /\ c.at \in {"/courses", "/course"} => Asking(d, "courses")
      /\ c.at = "/tournaments" => Asking(d, "tournaments")
      /\ c.at = "/tournament" => Asking(d, "tournament")
  BY <1>1, <1>2 DEF PageEffects
<1> HIDE DEF d
<1>6. /\ Same(c, d) /\ IsTab(d) /\ DOMAIN c.net = {} /\ Len(c.net) = 0
      /\ \A i \in DOMAIN d.net : Proper(d, d.net[i]) /\ d.net[i].phase = "sent"
  <2>1. DOMAIN c.net = {} /\ Len(c.net) = 0
    OBVIOUS
  <2> QED
    BY <1>1, <2>1, SameProper DEF Grows
<1>7. Batch(d)
  <2>1. CASE c.at \notin HomePages \cup ProfilePages
    <3>1. Len(d.net) \in {Len(c.net), Len(c.net) + 1}
      BY <1>1, <1>4, <2>1
    <3>2. Len(d.net) \in {0, 1}
      BY <1>6, <3>1
    <3>3. Len(d.net) <= 1
      <4> DEFINE m == Len(d.net)
      <4>1. m = 0 \/ m = 1
        BY <3>2
      <4> HIDE DEF m
      <4>2. m <= 1
        BY <4>1
      <4> QED
        BY <4>2 DEF m
    <3>4. \A i \in DOMAIN d.net : Proper(d, d.net[i])
      BY <1>6
    <3> QED
      BY <3>3, <3>4 DEF Batch
  <2>2. CASE c.at \in HomePages \cup ProfilePages
    <3>1. c.user # NoOne => Many(d)
      BY <1>6, <2>2 DEF Many, Same
    <3>2. c.user = NoOne => Len(d.net) = 0
      <4>1. c.user = NoOne => DOMAIN fs = {}
        BY <1>4 DEF Belongs
      <4> QED
        BY <1>1, <1>6, <4>1
    <3> QED
      BY <1>6, <3>1, <3>2 DEF Batch
  <2> QED
    BY <2>1, <2>2
<1>8. OwnProfile(d)
  BY <1>6 DEF OwnProfile, NoneOf, NoProfile, OnlyOf, Same
<1>9. OwnCup(d, b)
  BY <1>5, <1>6 DEF OwnCup, Same, Oks
<1>10. Stored(d, b)
  <2>1. \A op : Asking(d, op) => d.net # <<>>
    BY DEF Asking
  <2>2. HomeStored(d) /\ ListsStored(d, b)
    BY <1>5, <1>6, <2>1 DEF HomeStored, ListsStored, Same, Oks
  <2>3. CupStored(d, b)
    <3> SUFFICES ASSUME d.at = "/tournament"
                 PROVE  /\ \A i \in DOMAIN d.net : d.net[i].op = "tournament" /\ d.net[i].phase # "ok"
                        /\ d.net # <<>>
      BY DEF CupStored
    <3>1. PICK k \in DOMAIN d.net : d.net[k].op = "tournament"
      BY <1>5, <1>6 DEF Same, Asking
    <3>2. Len(d.net) <= 1
      BY <1>7 DEF Batch, Many, HomePages, ProfilePages
    <3>3. \A i \in DOMAIN d.net : i = k
      BY <1>6, <3>2 DEF IsTab, IsNet, IsSequence
    <3> QED
      BY <1>6, <3>1, <3>3
  <2> QED
    BY <1>6, <2>2, <2>3 DEF Stored
<1> QED
  BY <1>6, <1>7, <1>8, <1>9, <1>10 DEF PagesOK, d

-----------------------------------------------------------------------------
(* What the pages show: a page is rendered.                                  *)

\* d is c but for the round and the hub, and perhaps for the profile.
Swept(c, d) ==
    /\ DOMAIN d = TabFields /\ d.net = c.net /\ SamePage(c, d)
    /\ d.cups = c.cups /\ d.cup = c.cup /\ d.courses = c.courses /\ d.recent = c.recent
    /\ d.details = c.details /\ (HasCups(d) <=> HasCups(c))
    /\ d.profile = c.profile \/ NoneOf(d)

LEMMA SweptTransitive ==
    ASSUME NEW c, NEW d, NEW e, Swept(c, d), Swept(d, e) PROVE Swept(c, e)
BY DEF Swept, SamePage, NoneOf

\* A cleanup leaves what is shown, but for that of a profile.
LEMMA CleanupSweeps ==
    ASSUME NEW c, IsTab(c), NEW f, f.op \in Lists => c.net = <<>>
    PROVE  LET d == Cleanup(c, f)
           IN  /\ Swept(c, d)
               /\ f.op = "profile" => NoneOf(d)
               /\ f.op # "profile" => d.profile = c.profile
<1>1. CASE f.op = "home"
  <2>1. Cleanup(c, f) = disconnectHub(c)
    BY <1>1 DEF Cleanup, Lists
  <2> QED
    BY <1>1, <2>1 DEF disconnectHub, Swept, SamePage, IsTab, TabFields, HasCups
<1>2. CASE f.op = "round"
  <2>1. Cleanup(c, f) = clearRound(disconnectHub(c))
    BY <1>2 DEF Cleanup, Lists
  <2> QED
    BY <1>2, <2>1 DEF clearRound, disconnectHub, Swept, SamePage, IsTab, TabFields, HasCups
<1>3. CASE f.op = "profile"
  <2>1. Cleanup(c, f) = clearProfile(c)
    BY <1>3 DEF Cleanup, Lists
  <2> QED
    BY <1>3, <2>1 DEF clearProfile, Swept, SamePage, IsTab, TabFields, HasCups, NoneOf, NoProfile
<1>4. CASE f.op \in Lists
  <2>1. Cleanup(c, f) = Ignored(c, f.op)
    BY <1>4 DEF Cleanup, Lists
  <2>2. Ignored(c, f.op).net = c.net
    <3> DEFINE m == [i \in DOMAIN c.net |->
                       IF c.net[i].op = f.op THEN [c.net[i] EXCEPT !.to = "nobody"] ELSE c.net[i]]
    <3>1. Ignored(c, f.op).net = m
      BY DEF Ignored, IsTab, TabFields
    <3>2. c.net = <<>>
      BY <1>4
    <3>3. m = <<>>
      BY <3>2
    <3> QED
      BY <3>1, <3>2, <3>3
  <2> QED
    BY <1>4, <2>1, <2>2 DEF Ignored, Swept, SamePage, IsTab, TabFields, HasCups, Lists
<1>5. CASE f.op \notin Lists \cup {"home", "round", "profile"}
  <2>1. Cleanup(c, f) = c
    BY <1>5 DEF Cleanup
  <2> QED
    BY <1>5, <2>1 DEF Swept, SamePage, IsTab
<1> QED
  BY <1>1, <1>2, <1>3, <1>4, <1>5

\* Whether one of the effects that end is a profile.
LEMMA EndsSweep ==
    ASSUME NEW c, IsTab(c), NEW fs, NEW n, NEW over,
           n \in DOMAIN fs /\ fs[n].op \in Lists => c.net = <<>>
    PROVE  LET d == Ends(c, fs, n, over)
           IN  /\ Swept(c, d) /\ IsTab(d)
               /\ n \in DOMAIN fs /\ fs[n] \in over /\ fs[n].op = "profile" => NoneOf(d)
               /\ ~(n \in DOMAIN fs /\ fs[n] \in over /\ fs[n].op = "profile") =>
                    d.profile = c.profile
<1>1. CASE n \in DOMAIN fs /\ fs[n] \in over
  <2>1. Ends(c, fs, n, over) = Cleanup(c, fs[n])
    BY <1>1 DEF Ends
  <2> QED
    BY <1>1, <2>1, CleanupSweeps DEF Swept, IsTab
<1>2. CASE ~(n \in DOMAIN fs /\ fs[n] \in over)
  <2>1. Ends(c, fs, n, over) = c
    BY <1>2 DEF Ends
  <2> QED
    BY <1>2, <2>1 DEF Swept, SamePage, IsTab
<1> QED
  BY <1>1, <1>2

LEMMA CleanedSweeps ==
    ASSUME NEW c, IsTab(c), NEW fs, NEW over,
           \A n \in DOMAIN fs : fs[n].op \in Lists => c.net = <<>>
    PROVE  LET d == Cleaned(c, fs, over)
           IN  /\ Swept(c, d) /\ IsTab(d)
               /\ \A n \in {1, 2} : n \in DOMAIN fs /\ fs[n] \in over /\ fs[n].op = "profile" => NoneOf(d)
               /\ (\A n \in DOMAIN fs : fs[n] \in over => fs[n].op # "profile") =>
                    d.profile = c.profile
<1> DEFINE e == Ends(c, fs, 1, over)
           d == Ends(e, fs, 2, over)
<1>0. Cleaned(c, fs, over) = d
  BY DEF Cleaned
<1>1. /\ Swept(c, e) /\ IsTab(e)
      /\ 1 \in DOMAIN fs /\ fs[1] \in over /\ fs[1].op = "profile" => NoneOf(e)
      /\ ~(1 \in DOMAIN fs /\ fs[1] \in over /\ fs[1].op = "profile") => e.profile = c.profile
  BY EndsSweep
<1> HIDE DEF e
<1>2. e.net = c.net
  BY <1>1 DEF Swept
<1>3. /\ Swept(e, d) /\ IsTab(d)
      /\ 2 \in DOMAIN fs /\ fs[2] \in over /\ fs[2].op = "profile" => NoneOf(d)
      /\ ~(2 \in DOMAIN fs /\ fs[2] \in over /\ fs[2].op = "profile") => d.profile = e.profile
  BY <1>1, <1>2, EndsSweep
<1> HIDE DEF d
<1>4. NoneOf(e) => NoneOf(d)
  BY <1>3 DEF Swept, NoneOf
<1>5. Swept(c, d)
  BY <1>1, <1>3, SweptTransitive
<1>6. \A n \in {1, 2} : n \in DOMAIN fs /\ fs[n] \in over /\ fs[n].op = "profile" => NoneOf(d)
  BY <1>1, <1>3, <1>4
<1>7. (\A n \in DOMAIN fs : fs[n] \in over => fs[n].op # "profile") => d.profile = c.profile
  BY <1>1, <1>3
<1> QED
  BY <1>0, <1>3, <1>5, <1>6, <1>7

\* Another page, in whose name it may be, is opened with nothing under way.
Meant(c, at) == (c.user = NoOne => at \in Open) /\ (c.user # NoOne => at \notin {"/login", "/register"})
LEMMA OpensFresh ==
    ASSUME NEW c0, ViewOK(c0), WellRouted(c0),
           NEW c1, IsTab(c1), ViewOK(c1), WellRouted(c1), c1.at # c0.at, c1.net = <<>>, c1.view.ask = 0,
           c0.at \notin ProfilePages => NoneOf(c1),
           NEW b, c1.cups \subseteq DOMAIN b.cups, c1.at = "/tournament" => c1.arg[1] \in DOMAIN b.cups
    PROVE  \A o : PagesOK(Render(c0, c1), b, o)
<1> DEFINE g  == Gone(c1)
           fs == Fetches(c0)
           e  == Cleaned(g, fs, Range(fs))
           d  == Started(e, Fetches(c1), Range(Fetches(c1)))
<1>0. Render(c0, c1) = d
  BY DEF Render
<1>1. /\ DOMAIN g = TabFields /\ g.net = c1.net /\ SamePage(c1, g) /\ IsTab(g)
      /\ g.cups = c1.cups /\ g.profile = c1.profile
  BY DEF Gone, IsTab, TabFields, SamePage
<1>2. PageEffects(c1, Fetches(c1))
  BY FetchesAre
<1>3. c0.at \in ProfilePages => \E f : fs = <<f>> /\ f.op = "profile"
  BY FirstFetch
<1> HIDE DEF g, fs
<1>4. /\ Swept(g, e) /\ IsTab(e)
      /\ \A n \in {1, 2} : n \in DOMAIN fs /\ fs[n] \in Range(fs) /\ fs[n].op = "profile" => NoneOf(e)
  BY <1>1, CleanedSweeps
<1>5. NoneOf(e)
  <2>1. CASE c0.at \in ProfilePages
    <3>1. PICK f : fs = <<f>> /\ f.op = "profile"
      BY <1>3, <2>1
    <3>2. 1 \in DOMAIN fs /\ fs[1] = f /\ fs[1] \in Range(fs)
      BY <3>1 DEF Range
    <3> QED
      BY <1>4, <3>1, <3>2
  <2>2. CASE c0.at \notin ProfilePages
    BY <1>1, <1>4, <2>2 DEF Swept, NoneOf
  <2> QED
    BY <2>1, <2>2
<1> HIDE DEF e
<1>6. /\ SamePage(c1, e) /\ e.net = <<>> /\ e.cups = c1.cups /\ ViewOK(e)
      /\ e.view.ask = 0 /\ e.at = c1.at /\ e.arg = c1.arg
  BY <1>1, <1>4 DEF Swept, SamePage, ViewOK
<1>7. PageEffects(e, Fetches(c1))
  BY <1>2, <1>6, PageEffectsSame
<1> QED
  BY <1>0, <1>4, <1>5, <1>6, <1>7, StartsFresh

LEMMA PushFresh ==
    ASSUME NEW c, IsTab(c), ViewOK(c), WellRouted(c), c.net = <<>>, OwnProfile(c),
           NEW at, at # c.at, Meant(c, at), NEW arg,
           NEW b, c.cups \subseteq DOMAIN b.cups, at = "/tournament" => arg[1] \in DOMAIN b.cups
    PROVE  \A o : PagesOK(Push(c, at, arg), b, o)
<1> DEFINE c1 == Opened(c, at, arg)
<1>1. /\ IsTab(c1) /\ ViewOK(c1) /\ c1.net = <<>> /\ c1.at = at /\ c1.arg = arg
      /\ c1.user = c.user /\ c1.view.ask = 0 /\ c1.cups = c.cups /\ c1.profile = c.profile
  BY OpenedIs DEF Opened, IsTab, TabFields, Fresh
<1>2. Push(c, at, arg) = Dispatch(c, c1)
  BY DEF Push
<1> HIDE DEF c1
<1>3. WellRouted(c1) /\ Routed(c1) = c1
  BY <1>1 DEF Meant, WellRouted, Routed
<1>4. c.at \notin ProfilePages => NoneOf(c1)
  BY <1>1 DEF OwnProfile, NoneOf
<1>5. \A o : PagesOK(Render(c, c1), b, o)
  BY <1>1, <1>3, <1>4, OpensFresh
<1> QED
  BY <1>2, <1>3, <1>5 DEF Dispatch

\* A tab that is loaded.
LEMMA LoadFresh ==
    ASSUME NEW u, NEW at, NEW arg, NEW b, at = "/tournament" => arg[1] \in DOMAIN b.cups
    PROVE  (\A o : PagesOK(Load(u, at, arg), b, o)) /\ IsTab(Load(u, at, arg))
<1> DEFINE s == StartStore(u, at, arg)
           c == Routed(s)
<1>1. IsTab(s) /\ DOMAIN s = TabFields /\ ViewOK(s)
  BY DEF StartStore, IsTab, TabFields, IsNet, IsSequence, ViewOK, ViewFields, Fresh
<1>2. s.net = <<>> /\ NoneOf(s) /\ s.view.ask = 0 /\ s.cups = {} /\ s.at = at /\ s.arg = arg
  BY DEF StartStore, NoneOf, NoProfile, Fresh
<1>3. Load(u, at, arg) = Started(c, Fetches(c), Range(Fetches(c)))
  BY DEF Load
<1> HIDE DEF s
<1>4. IsTab(c) /\ WellRouted(c)
  BY <1>1, RoutedIs
<1>5. \/ c = s
      \/ \E p \in {"/login", "/"} : c = Opened(s, p, <<>>)
  BY DEF Routed
<1>6. /\ ViewOK(c) /\ c.net = <<>> /\ NoneOf(c) /\ c.view.ask = 0 /\ c.cups = {}
      /\ c.at = "/tournament" => c.arg[1] \in DOMAIN b.cups
  <2>1. CASE c = s
    BY <1>1, <1>2, <2>1
  <2>2. CASE \E p \in {"/login", "/"} : c = Opened(s, p, <<>>)
    <3>1. PICK p \in {"/login", "/"} : c = Opened(s, p, <<>>)
      BY <2>2
    <3> QED
      BY <1>1, <1>2, <3>1 DEF Opened, TabFields, NoneOf, Fresh, ViewOK, ViewFields
  <2> QED
    BY <1>5, <2>1, <2>2
<1> HIDE DEF c
<1>7. PageEffects(c, Fetches(c))
  BY <1>4, <1>6, FetchesAre
<1> QED
  BY <1>3, <1>4, <1>6, <1>7, StartsFresh

-----------------------------------------------------------------------------
(* What the pages show: the front page and the page of a round.              *)

\* What is under way there, whatever has come in.
HomeReady(c, b, o) ==
    /\ IsTab(c) /\ ViewOK(c) /\ c.user # NoOne /\ c.at \in HomePages
    /\ \A i \in DOMAIN c.net : Proper(c, c.net[i])
    /\ NoneOf(c) /\ c.cups \subseteq DOMAIN b.cups
    /\ o \cap {"failed", "swap"} = {} =>
         /\ \A i \in DOMAIN c.net : c.net[i].op \in Reads => c.net[i].phase \in {"sent", "ok", "denied"}
         /\ \A i \in Oks(c) : c.net[i].op = "details" => c.net[i].data.who = c.net[i].who
RecentShown(c)  == c.at = "/" => c.recent = c.user \/ Asking(c, "recent")
DetailsShown(c) == c.at = "/" => c.details.who = c.user \/ Asking(c, "details")

LEMMA HomePagesOK ==
    ASSUME NEW c, ViewOK(c), IsTab(c), c.user # NoOne, c.at \in HomePages, NEW b, NEW o
    PROVE  PagesOK(c, b, o) <=>
             /\ HomeReady(c, b, o)
             /\ o \cap {"failed", "swap"} = {} => RecentShown(c) /\ DetailsShown(c)
<1>1. Many(c) /\ c.at \notin ProfilePages
      /\ c.at \notin {"/tournament", "/tournaments", "/courses", "/course"}
  BY DEF Many, HomePages, ProfilePages
<1>2. \A q : Proper(c, q) => q.op \notin {"tournament", "tournaments", "createTournament"}
  BY DEF Proper, PageAsks, HomePages, ProfilePages, RoundAsks
<1>3. PagesOK(c, b, o) => HomeReady(c, b, o) /\ (o \cap {"failed", "swap"} = {} => RecentShown(c) /\ DetailsShown(c))
  BY <1>1 DEF PagesOK, Batch, OwnProfile, OwnCup, Stored, HomeStored, HomeReady, RecentShown, DetailsShown
<1>4. HomeReady(c, b, o) => Batch(c) /\ OwnProfile(c) /\ OwnCup(c, b)
  BY <1>1, <1>2 DEF Batch, OwnProfile, OwnCup, HomeReady, Oks
<1>5. HomeReady(c, b, o) /\ (o \cap {"failed", "swap"} = {} => RecentShown(c) /\ DetailsShown(c)) =>
        (o \cap {"failed", "swap"} = {} => Stored(c, b))
  BY <1>1 DEF HomeReady, RecentShown, DetailsShown, Stored, HomeStored, CupStored, ListsStored
<1> QED
  BY <1>3, <1>4, <1>5 DEF PagesOK

LEMMA GrowsHome ==
    ASSUME NEW c, NEW b, NEW o, HomeReady(c, b, o), NEW d, Grows(c, d), ViewOK(d)
    PROVE  /\ HomeReady(d, b, o)
           /\ RecentShown(c) => RecentShown(d)
           /\ DetailsShown(c) => DetailsShown(d)
<1>1. /\ \A i \in DOMAIN d.net : Proper(d, d.net[i])
      /\ \A op : Asking(c, op) => Asking(d, op)
  BY GrowsKeeps DEF HomeReady
<1>2. Same(c, d) /\ IsTab(d)
  BY DEF Grows
<1>3. \A i \in DOMAIN d.net :
        d.net[i].phase = "sent" \/ (i \in DOMAIN c.net /\ Carried(c.net[i], d.net[i]))
  BY DEF Grows
<1>4. o \cap {"failed", "swap"} = {} =>
         /\ \A i \in DOMAIN d.net : d.net[i].op \in Reads => d.net[i].phase \in {"sent", "ok", "denied"}
         /\ \A i \in Oks(d) : d.net[i].op = "details" => d.net[i].data.who = d.net[i].who
  BY <1>3 DEF HomeReady, Oks, Carried
<1>5. HomeReady(d, b, o)
  BY <1>1, <1>2, <1>4 DEF HomeReady, Same, NoneOf
<1> QED
  BY <1>1, <1>2, <1>5 DEF RecentShown, DetailsShown, Same

LEMMA GoneGrows ==
    ASSUME NEW c, IsTab(c)
    PROVE  Grows(c, Gone(c)) /\ SamePage(c, Gone(c)) /\ DOMAIN Gone(c) = TabFields
<1> DEFINE m == [i \in DOMAIN c.net |->
                   IF c.net[i].to = "page" THEN [c.net[i] EXCEPT !.to = "tab"] ELSE c.net[i]]
           g == [c EXCEPT !.net = m]
<1>1. Gone(c) = g
  BY DEF Gone
<1>2. DOMAIN m = DOMAIN c.net
  OBVIOUS
<1>3. \A i \in DOMAIN c.net : Carried(c.net[i], m[i])
  BY DEF IsTab, IsNet, RequestFields, Carried
<1>4. IsTab(Gone(c))
  BY IgnoringIsQuiet DEF Quiet, Follows
<1>5. g.net = m /\ DOMAIN g = TabFields /\ Same(c, g) /\ SamePage(c, g)
  BY DEF IsTab, TabFields, Same, SamePage
<1> HIDE DEF m, g
<1> QED
  BY <1>1, <1>2, <1>3, <1>4, <1>5 DEF Grows

LEMMA SweptGrows ==
    ASSUME NEW c, IsTab(c), NEW d, Swept(c, d), d.profile = c.profile PROVE Grows(c, d)
<1>1. DOMAIN d = TabFields /\ d.net = c.net /\ Same(c, d)
  BY DEF Swept, SamePage, Same
<1> QED
  BY <1>1, SameGrows

\* A render there asks for more, and on the front page for all it shows.
LEMMA HomeRender ==
    ASSUME NEW c0, ViewOK(c0), WellRouted(c0), c0.at \in HomePages \cup {"/login", "/register"},
           NEW c1, IsTab(c1), ViewOK(c1), c1.user # NoOne, c1.at \in HomePages
    PROVE  LET d == Render(c0, c1)
           IN  /\ Grows(c1, d) /\ ViewOK(d)
               /\ c1.at = "/" /\ c0.at # "/" => Asking(d, "recent") /\ Asking(d, "details")
<1> DEFINE fs == Fetches(c1)
           g  == IF c0.at = c1.at THEN c1 ELSE Gone(c1)
           over == IF c0.at = c1.at THEN Range(Fetches(c0)) \ Range(fs) ELSE Range(Fetches(c0))
           new  == IF c0.at = c1.at THEN Range(fs) \ Range(Fetches(c0)) ELSE Range(fs)
           e  == Cleaned(g, Fetches(c0), over)
           d  == Started(e, fs, new)
<1>0. Render(c0, c1) = d
  BY DEF Render
<1>1. WellRouted(c0) /\ WellRouted(c1)
  BY DEF WellRouted, HomePages
<1>2. \A n \in DOMAIN Fetches(c0) : Fetches(c0)[n].op # "profile" /\ Fetches(c0)[n].op \notin Lists
  <2>1. CASE c0.at \in HomePages
    BY <1>1, <2>1, FetchesBelong DEF HomePages, ProfilePages
  <2>2. CASE c0.at \in {"/login", "/register"}
    BY <1>1, <2>2, FetchesBelong DEF Belongs, WellRouted
  <2> QED
    BY <2>1, <2>2
<1>3. PageEffects(c1, fs)
  BY <1>1, FetchesAre
<1>4. Grows(c1, g) /\ SamePage(c1, g) /\ DOMAIN g = TabFields
  BY GoneGrows, SameGrows DEF Same, SamePage, IsTab
<1>5. c0.at # c1.at => \A n \in DOMAIN fs : fs[n] \in new
  BY DEF Range
<1> HIDE DEF fs, g, over, new
<1>6. Swept(g, e) /\ IsTab(e) /\ e.profile = g.profile
  <2>1. IsTab(g)
    BY <1>4 DEF Grows
  <2> QED
    BY <1>2, <2>1, CleanedSweeps
<1> HIDE DEF e
<1>7. Grows(g, e) /\ SamePage(c1, e) /\ ViewOK(e)
  <2>1. IsTab(g)
    BY <1>4 DEF Grows
  <2>2. Grows(g, e)
    BY <1>6, <2>1, SweptGrows
  <2>3. SamePage(c1, e)
    BY <1>4, <1>6 DEF Swept, SamePage
  <2> QED
    BY <2>2, <2>3 DEF SamePage, ViewOK
<1>8. PageEffects(e, fs)
  BY <1>3, <1>7, PageEffectsSame
<1>9. /\ Grows(e, d) /\ ViewOK(d)
      /\ \A n \in DOMAIN fs : fs[n] \in new =>
           (fs[n].op = "home" => Asking(d, "recent") /\ Asking(d, "details"))
  BY <1>6, <1>7, <1>8, StartedGrows
<1> HIDE DEF d
<1>10. Grows(c1, d)
  BY <1>4, <1>7, <1>9, GrowsTransitive
<1>11. c1.at = "/" /\ c0.at # "/" => Asking(d, "recent") /\ Asking(d, "details")
  <2>1. c1.at = "/" => 1 \in DOMAIN fs /\ fs[1].op = "home"
    BY <1>3 DEF PageEffects
  <2> QED
    BY <1>5, <1>9, <2>1
<1> QED
  BY <1>0, <1>9, <1>10, <1>11

LEMMA HomeMoved ==
    ASSUME NEW c, NEW b, NEW o, HomeReady(c, b, o), NEW d, DOMAIN d = TabFields,
           d.net = c.net, d.user = c.user, d.saved = c.saved, d.profile = c.profile,
           d.cups = c.cups, d.at \in HomePages, ViewOK(d)
    PROVE  HomeReady(d, b, o)
<1>1. IsTab(d)
  BY DEF HomeReady, IsTab
<1>2. \A q : Proper(c, q) => Proper(d, q)
  BY DEF HomeReady, Proper, PageAsks, HomePages, ProfilePages, RoundAsks, ProfileAsks, CupAsks
<1> QED
  BY <1>1, <1>2 DEF HomeReady, NoneOf, Oks

\* The page is rendered after a change, or on the way to the front page.
LEMMA HomeRenders ==
    ASSUME NEW c, NEW b, NEW o, HomeReady(c, b, o), NEW d, DOMAIN d = TabFields,
           d.net = c.net, d.user = c.user, d.saved = c.saved, d.profile = c.profile,
           d.cups = c.cups, d.at \in HomePages, ViewOK(d)
    PROVE  LET r == Render(c, d)
           IN  /\ HomeReady(r, b, o) /\ r.at = d.at
               /\ (c.at # "/" \/ RecentShown(d)) => RecentShown(r)
               /\ (c.at # "/" \/ DetailsShown(d)) => DetailsShown(r)
<1> DEFINE r == Render(c, d)
<1>1. HomeReady(d, b, o)
  BY HomeMoved
<1>2. /\ Grows(d, r) /\ ViewOK(r)
      /\ d.at = "/" /\ c.at # "/" => Asking(r, "recent") /\ Asking(r, "details")
  <2>1. WellRouted(c) /\ c.at \in HomePages
    BY DEF HomeReady, HomePages, WellRouted
  <2> QED
    BY <1>1, <2>1, HomeRender DEF HomeReady
<1> HIDE DEF r
<1>3. /\ HomeReady(r, b, o)
      /\ RecentShown(d) => RecentShown(r)
      /\ DetailsShown(d) => DetailsShown(r)
  BY <1>1, <1>2, GrowsHome
<1>4. r.at = d.at
  BY <1>2 DEF Grows, Same
<1> QED
  BY <1>2, <1>3, <1>4 DEF r, RecentShown, DetailsShown

LEMMA HomeDispatch ==
    ASSUME NEW c, NEW b, NEW o, HomeReady(c, b, o), NEW d, DOMAIN d = TabFields,
           d.net = c.net, SamePage(c, d), d.profile = c.profile, d.cups = c.cups
    PROVE  LET r == Dispatch(c, d)
           IN  /\ HomeReady(r, b, o) /\ r.at = c.at
               /\ RecentShown(d) => RecentShown(r)
               /\ DetailsShown(d) => DetailsShown(r)
<1>1. Routed(d) = d
  BY DEF Routed, SamePage, HomeReady, HomePages, Open
<1>2. d.at \in HomePages /\ ViewOK(d)
  BY DEF HomeReady, SamePage, ViewOK
<1>3. Dispatch(c, d) = Render(c, d)
  BY <1>1 DEF Dispatch
<1> QED
  BY <1>2, <1>3, HomeRenders DEF SamePage

LEMMA HomePush ==
    ASSUME NEW c, NEW b, NEW o, HomeReady(c, b, o)
    PROVE  LET r == Push(c, "/", <<>>)
           IN  /\ HomeReady(r, b, o)
               /\ RecentShown(c) => RecentShown(r)
               /\ DetailsShown(c) => DetailsShown(r)
<1> DEFINE d == IF c.at = "/" THEN [c EXCEPT !.arg = <<>>] ELSE Opened(c, "/", <<>>)
<1>0. IsTab(c) /\ DOMAIN c = TabFields /\ ViewOK(c) /\ c.user # NoOne
  BY DEF HomeReady, IsTab
<1>1. /\ DOMAIN d = TabFields /\ d.net = c.net /\ d.user = c.user /\ d.saved = c.saved
      /\ d.profile = c.profile /\ d.cups = c.cups /\ d.at = "/" /\ ViewOK(d)
      /\ d.recent = c.recent /\ d.details = c.details
  <2>1. CASE c.at = "/"
    BY <1>0, <2>1 DEF TabFields, ViewOK
  <2>2. CASE c.at # "/"
    BY <1>0, <2>2 DEF Opened, TabFields, ViewOK, ViewFields, Fresh
  <2> QED
    BY <2>1, <2>2
<1>2. Push(c, "/", <<>>) = Dispatch(c, d)
  BY DEF Push
<1> HIDE DEF d
<1>3. Routed(d) = d
  BY <1>0, <1>1 DEF Routed, Open
<1>4. Push(c, "/", <<>>) = Render(c, d)
  BY <1>2, <1>3 DEF Dispatch
<1>5. LET r == Render(c, d)
      IN  /\ HomeReady(r, b, o) /\ r.at = d.at
          /\ (c.at # "/" \/ RecentShown(d)) => RecentShown(r)
          /\ (c.at # "/" \/ DetailsShown(d)) => DetailsShown(r)
  BY <1>1, HomeRenders DEF HomePages
<1>6. c.at = "/" => (RecentShown(c) => RecentShown(d)) /\ (DetailsShown(c) => DetailsShown(d))
  BY <1>1 DEF RecentShown, DetailsShown, Asking
<1> QED
  BY <1>4, <1>5, <1>6

LEMMA TakenHome ==
    ASSUME NEW c, NEW b, NEW o, HomeReady(c, b, o), NEW i \in DOMAIN c.net
    PROVE  LET d == [c EXCEPT !.net = RemoveAt(@, i)]
           IN  /\ HomeReady(d, b, o)
               /\ c.net[i].op # "recent" /\ RecentShown(c) => RecentShown(d)
               /\ c.net[i].op # "details" /\ DetailsShown(c) => DetailsShown(d)
<1> DEFINE d == [c EXCEPT !.net = RemoveAt(@, i)]
<1>0. IsTab(c) /\ DOMAIN c = TabFields
  BY DEF HomeReady, IsTab
<1>1. Taken(c, i, d)
  BY <1>0, TakingIsTaken
<1>2. /\ DOMAIN d = TabFields /\ d.profile = c.profile /\ d.cups = c.cups /\ d.arg = c.arg
      /\ d.recent = c.recent /\ d.details = c.details
  BY <1>0 DEF TabFields
<1> HIDE DEF d
<1>3. IsTab(d) /\ d.at = c.at /\ d.view = c.view /\ d.user = c.user /\ d.saved = c.saved
  BY <1>1 DEF Taken
<1>4. \A j \in DOMAIN d.net : Was(i, j) \in DOMAIN c.net /\ d.net[j] = c.net[Was(i, j)]
  BY <1>1 DEF Taken
<1>5. \A q : Proper(c, q) => Proper(d, q)
  BY <1>2, <1>3 DEF Proper, WhoseIs, Filter
<1>6. HomeReady(d, b, o)
  BY <1>2, <1>3, <1>4, <1>5 DEF HomeReady, ViewOK, NoneOf, Oks
<1>7. \A op : Asking(c, op) /\ c.net[i].op # op => Asking(d, op)
  <2> SUFFICES ASSUME NEW op, NEW k \in DOMAIN c.net, c.net[k].op = op, c.net[i].op # op
               PROVE  Asking(d, op)
    BY DEF Asking
  <2>1. PICK j \in DOMAIN d.net : Was(i, j) = k
    BY <1>1 DEF Taken
  <2> QED
    BY <1>4, <2>1 DEF Asking
<1> QED
  BY <1>2, <1>3, <1>6, <1>7 DEF RecentShown, DetailsShown, d

\* What the answers there leave.
LEMMA HomewardsHome ==
    ASSUME NEW c, NEW b, NEW o, HomeReady(c, b, o), NEW q
    PROVE  LET r == Homewards(c, q)
           IN  /\ HomeReady(r, b, o)
               /\ RecentShown(c) => RecentShown(r)
               /\ DetailsShown(c) => DetailsShown(r)
<1>1. Homewards(c, q) = c \/ Homewards(c, q) = Push(c, "/", <<>>)
  BY DEF Homewards
<1> QED
  BY <1>1, HomePush

LEMMA HomeSucceeded ==
    ASSUME NEW c, NEW b, NEW o, HomeReady(c, b, o), NEW q, Proper(c, q),
           o \cap {"failed", "swap"} = {} =>
              /\ q.op = "details" => q.data.who = c.user
              /\ q.op # "recent" => RecentShown(c)
              /\ q.op # "details" => DetailsShown(c)
    PROVE  LET r == Succeeded(c, q)
           IN  /\ HomeReady(r, b, o)
               /\ o \cap {"failed", "swap"} = {} => RecentShown(r) /\ DetailsShown(r)
<1> DEFINE r == Succeeded(c, q)
           good == o \cap {"failed", "swap"} = {}
<1>0. /\ DOMAIN c = TabFields /\ IsTab(c) /\ ViewOK(c) /\ q.op \in RoundAsks /\ c.user # NoOne
      /\ c.at \in HomePages
      /\ q.op = "recent" => q.arg[1] = c.user
  BY DEF HomeReady, IsTab, Proper, PageAsks, HomePages, ProfilePages
<1>H. good => /\ q.op = "details" => q.data.who = c.user
              /\ q.op # "recent" => RecentShown(c)
              /\ q.op # "details" => DetailsShown(c)
  OBVIOUS
<1>D. \A d : DOMAIN d = TabFields /\ d.net = c.net /\ SamePage(c, d) /\ d.profile = c.profile
             /\ d.cups = c.cups =>
               /\ HomeReady(Dispatch(c, d), b, o)
               /\ RecentShown(d) => RecentShown(Dispatch(c, d))
               /\ DetailsShown(d) => DetailsShown(Dispatch(c, d))
  BY HomeDispatch
<1>S. \A d : d.net = c.net /\ SamePage(c, d) /\ d.recent = c.recent => (RecentShown(c) => RecentShown(d))
  BY DEF RecentShown, SamePage, Asking
<1>T. \A d : d.net = c.net /\ SamePage(c, d) /\ d.details.who = c.details.who => (DetailsShown(c) => DetailsShown(d))
  BY DEF DetailsShown, SamePage, Asking
<1> HIDE DEF good
<1>1. CASE q.op = "details"
  <2> DEFINE d == [c EXCEPT !.details = q.data]
  <2>1. r = Homewards(Dispatch(c, d), q)
    BY <1>1 DEF Succeeded, OnPage, Lists
  <2>2. /\ DOMAIN d = TabFields /\ d.net = c.net /\ SamePage(c, d) /\ d.profile = c.profile
        /\ d.cups = c.cups /\ d.recent = c.recent /\ d.details = q.data
    BY <1>0 DEF TabFields, SamePage
  <2> HIDE DEF d
  <2>3. good => RecentShown(d) /\ DetailsShown(d)
    BY <1>1, <1>H, <1>S, <2>2 DEF DetailsShown, SamePage
  <2>4. HomeReady(Dispatch(c, d), b, o) /\ (good => RecentShown(Dispatch(c, d)) /\ DetailsShown(Dispatch(c, d)))
    BY <1>D, <2>2, <2>3
  <2> QED
    BY <2>1, <2>4, HomewardsHome DEF good
<1>2. CASE q.op = "recent"
  <2>1. r = [c EXCEPT !.recent = q.arg[1]]
    BY <1>2 DEF Succeeded, OnPage, Lists
  <2>2. /\ DOMAIN r = TabFields /\ r.net = c.net /\ SamePage(c, r) /\ r.profile = c.profile
        /\ r.cups = c.cups /\ r.recent = q.arg[1] /\ r.details = c.details
    BY <1>0, <2>1 DEF TabFields, SamePage
  <2> HIDE DEF r
  <2>3. HomeReady(r, b, o)
    <3>1. r.at \in HomePages /\ ViewOK(r)
      BY <1>0, <2>2 DEF SamePage, ViewOK
    <3> QED
      BY <2>2, <3>1, HomeMoved DEF SamePage
  <2>4. RecentShown(r)
    BY <1>0, <1>2, <2>2 DEF RecentShown, SamePage
  <2> QED
    BY <1>2, <1>H, <1>T, <2>2, <2>3, <2>4 DEF good, r
<1>3. CASE q.op \in {"round", "score"}
  <2> DEFINE d == IF q.op = "round" THEN Done([c EXCEPT !.round = q.data], "round")
                  ELSE [c EXCEPT !.round = q.data]
  <2>1. r = Dispatch(c, d)
    BY <1>3 DEF Succeeded, OnPage, Lists
  <2>2. /\ DOMAIN d = TabFields /\ d.net = c.net /\ SamePage(c, d) /\ d.profile = c.profile
        /\ d.cups = c.cups /\ d.recent = c.recent /\ d.details = c.details
    BY <1>0 DEF Done, TabFields, SamePage
  <2> HIDE DEF d
  <2> QED
    BY <1>3, <1>D, <1>H, <1>S, <1>T, <2>1, <2>2 DEF good
<1>4. CASE q.op = "complete"
  <2> DEFINE d == [c EXCEPT !.round.completed = TRUE]
  <2>1. r = IF c.round = NoRound THEN c ELSE Dispatch(c, d)
    BY <1>4 DEF Succeeded, OnPage, Lists
  <2>2. /\ DOMAIN d = TabFields /\ d.net = c.net /\ SamePage(c, d) /\ d.profile = c.profile
        /\ d.cups = c.cups /\ d.recent = c.recent /\ d.details = c.details
    BY <1>0 DEF TabFields, SamePage
  <2> HIDE DEF d
  <2> QED
    BY <1>4, <1>D, <1>H, <1>S, <1>T, <2>1, <2>2 DEF good
<1>5. CASE q.op \in {"pace", "courseStats", "roundStats", "skip"}
  <2>1. \/ r = [c EXCEPT !.pace = q.arg[1]] \/ r = [c EXCEPT !.courseStats = q.arg[1]]
        \/ r = [c EXCEPT !.roundStats = q.arg[1]] \/ r = c
    BY <1>5 DEF Succeeded, OnPage, Lists
  <2>2. /\ DOMAIN r = TabFields /\ r.net = c.net /\ SamePage(c, r) /\ r.profile = c.profile
        /\ r.cups = c.cups /\ r.recent = c.recent /\ r.details = c.details
    BY <1>0, <2>1 DEF TabFields, SamePage
  <2> HIDE DEF r
  <2>3. HomeReady(r, b, o)
    <3>1. r.at \in HomePages /\ ViewOK(r)
      BY <1>0, <2>2 DEF SamePage, ViewOK
    <3> QED
      BY <2>2, <3>1, HomeMoved DEF SamePage
  <2> QED
    BY <1>5, <1>H, <1>S, <1>T, <2>2, <2>3 DEF good, r
<1>6. CASE q.op = "activeRound"
  <2> DEFINE d == [c EXCEPT !.round = q.data]
             e == Dispatch(c, d)
             p == fetchPaceData(e, q.arg[1])
  <2>1. r = IF q.data.completed THEN c ELSE p
    BY <1>6 DEF Succeeded, OnPage, Lists
  <2>2. /\ DOMAIN d = TabFields /\ d.net = c.net /\ SamePage(c, d) /\ d.profile = c.profile
        /\ d.cups = c.cups /\ d.recent = c.recent /\ d.details = c.details
    BY <1>0 DEF TabFields, SamePage
  <2> HIDE DEF d
  <2>3. HomeReady(e, b, o) /\ (good => RecentShown(e) /\ DetailsShown(e))
    BY <1>6, <1>D, <1>H, <1>S, <1>T, <2>2 DEF good
  <2> HIDE DEF e
  <2>4. Grows(e, p) /\ ViewOK(p)
    <3>1. Proper(e, Request("pace", <<q.arg[1]>>, e.saved)) /\ IsTab(e)
      BY <2>3, RoundProper DEF HomeReady, RoundAsks
    <3>2. Grows(e, p) /\ p.view = e.view
      BY <3>1, AskingGrows DEF fetchPaceData
    <3> QED
      BY <2>3, <3>2 DEF HomeReady, ViewOK
  <2> HIDE DEF p
  <2>5. HomeReady(p, b, o) /\ (good => RecentShown(p) /\ DetailsShown(p))
    BY <2>3, <2>4, GrowsHome
  <2> QED
    BY <1>6, <1>H, <2>1, <2>5 DEF good
<1>7. CASE q.op \in {"delete", "leave"}
  <2> DEFINE d == IF q.op = "delete" THEN clearActiveRound([c EXCEPT !.round = NoRound])
                  ELSE [c EXCEPT !.round = NoRound]
             e == Dispatch(c, d)
  <2>1. r = Push(e, "/", <<>>)
    BY <1>7 DEF Succeeded, OnPage, Lists
  <2>2. /\ DOMAIN d = TabFields /\ d.net = c.net /\ SamePage(c, d) /\ d.profile = c.profile
        /\ d.cups = c.cups /\ d.recent = c.recent /\ d.details.who = c.details.who
    BY <1>0 DEF clearActiveRound, TabFields, SamePage
  <2> HIDE DEF d
  <2>3. HomeReady(e, b, o) /\ (good => RecentShown(e) /\ DetailsShown(e))
    BY <1>7, <1>D, <1>H, <1>S, <1>T, <2>2 DEF good
  <2> HIDE DEF e
  <2> QED
    BY <2>1, <2>3, HomePush DEF good
<1> QED
  BY <1>0, <1>1, <1>2, <1>3, <1>4, <1>5, <1>6, <1>7 DEF RoundAsks

LEMMA HomeFailed ==
    ASSUME NEW c, NEW b, NEW o, HomeReady(c, b, o), NEW q, Proper(c, q),
           o \cap {"failed", "swap"} = {} => q.op \notin Reads /\ RecentShown(c) /\ DetailsShown(c)
    PROVE  LET r == Failed(c, q)
           IN  /\ HomeReady(r, b, o)
               /\ o \cap {"failed", "swap"} = {} => RecentShown(r) /\ DetailsShown(r)
<1> DEFINE r == Failed(c, q)
<1>0. DOMAIN c = TabFields /\ q.op \in RoundAsks /\ ViewOK(c) /\ c.at \in HomePages
  BY DEF HomeReady, IsTab, Proper, PageAsks, HomePages, ProfilePages
<1>1. CASE q.op = "details"
  <2>1. r = Homewards(c, q)
    BY <1>1 DEF Failed, OnPage, Lists
  <2> QED
    BY <2>1, HomewardsHome
<1>2. CASE q.op = "round"
  <2>1. r = Done(c, "round")
    BY <1>2 DEF Failed, OnPage, Lists
  <2>2. /\ DOMAIN r = TabFields /\ r.net = c.net /\ SamePage(c, r) /\ r.profile = c.profile
        /\ r.cups = c.cups /\ r.recent = c.recent /\ r.details = c.details
    BY <1>0, <2>1 DEF Done, TabFields, SamePage
  <2> HIDE DEF r
  <2>3. r.at \in HomePages /\ ViewOK(r)
    BY <1>0, <2>2 DEF SamePage, ViewOK
  <2>4. HomeReady(r, b, o)
    BY <2>2, <2>3, HomeMoved DEF SamePage
  <2>5. (RecentShown(c) => RecentShown(r)) /\ (DetailsShown(c) => DetailsShown(r))
    BY <2>2 DEF RecentShown, DetailsShown, SamePage, Asking
  <2> QED
    BY <2>4, <2>5 DEF r
<1>3. CASE q.op \notin {"details", "round"}
  <2>1. r = c
    BY <1>0, <1>3 DEF Failed, OnPage, Lists, RoundAsks
  <2> QED
    BY <2>1
<1> QED
  BY <1>1, <1>2, <1>3

-----------------------------------------------------------------------------
(* What the pages show: nothing is under way.                                *)

Shows(c, b, o) ==
    /\ OwnProfile(c) /\ c.cups \subseteq DOMAIN b.cups
    /\ c.at = "/tournament" =>
         c.arg[1] \in DOMAIN b.cups /\ (HasCups(c) \/ c.cup.id = c.arg[1])
    /\ o \cap {"failed", "swap"} = {} =>
         /\ c.at = "/tournament"  => b.cups[c.arg[1]] = c.cup
         /\ c.at = "/tournaments" => c.cups = DOMAIN b.cups
         /\ c.at \in {"/courses", "/course"} => c.courses = Fitting(b, Filter(c))
         /\ c.at = "/" /\ c.user # NoOne => c.recent = c.user /\ c.details.who = c.user

LEMMA QuietPages ==
    ASSUME NEW c, c.net = <<>>, NEW b, NEW o
    PROVE  PagesOK(c, b, o) <=> Shows(c, b, o)
<1>1. DOMAIN c.net = {} /\ Len(c.net) = 0
  OBVIOUS
<1>2. Oks(c) = {} /\ \A op : ~Asking(c, op)
  BY <1>1 DEF Oks, Asking
<1>3. Batch(c)
  BY <1>1 DEF Batch
<1>4. OwnCup(c, b) <=> /\ c.cups \subseteq DOMAIN b.cups
                       /\ c.at = "/tournament" =>
                            c.arg[1] \in DOMAIN b.cups /\ (HasCups(c) \/ c.cup.id = c.arg[1])
  BY <1>2 DEF OwnCup
<1>5. Stored(c, b) <=> /\ c.at = "/tournament"  => b.cups[c.arg[1]] = c.cup
                       /\ c.at = "/tournaments" => c.cups = DOMAIN b.cups
                       /\ c.at \in {"/courses", "/course"} => c.courses = Fitting(b, Filter(c))
                       /\ c.at = "/" /\ c.user # NoOne => c.recent = c.user /\ c.details.who = c.user
  BY <1>1, <1>2 DEF Stored, CupStored, ListsStored, HomeStored
<1> QED
  BY <1>3, <1>4, <1>5 DEF PagesOK, Shows

\* A change that no page shows.
LEMMA AlikePages ==
    ASSUME NEW c, NEW b, NEW o, PagesOK(c, b, o),
           NEW d, Same(c, d), d.net = c.net, HasCups(d) <=> HasCups(c),
           NEW p, o \subseteq p, NEW b2, b2.cups = b.cups, b2.layouts = b.layouts
    PROVE  PagesOK(d, b2, p)
<1>1. /\ \A q : Proper(d, q) <=> Proper(c, q)
      /\ WhoseIs(d) = WhoseIs(c) /\ Filter(d) = Filter(c) /\ (Many(d) <=> Many(c))
  BY SameProper
<1>2. Batch(d)
  BY <1>1 DEF PagesOK, Batch
<1>3. OwnProfile(d)
  BY <1>1 DEF PagesOK, OwnProfile, OnlyOf, NoneOf, Same
<1>4. OwnCup(d, b2)
  BY DEF PagesOK, OwnCup, Same, Oks, Asking
<1>5. \A n : Fitting(b2, n) = Fitting(b, n)
  BY DEF Fitting
<1>6. Stored(c, b) => Stored(d, b2)
  <2>1. CupStored(c, b) => CupStored(d, b2)
    BY DEF CupStored, Same
  <2>2. ListsStored(c, b) => ListsStored(d, b2)
    BY <1>1, <1>5 DEF ListsStored, Same, Oks
  <2>3. HomeStored(c) => HomeStored(d)
    BY DEF HomeStored, Same, Oks, Asking
  <2> QED
    BY <2>1, <2>2, <2>3 DEF Stored
<1> QED
  BY <1>2, <1>3, <1>4, <1>6 DEF PagesOK

-----------------------------------------------------------------------------
(* What the pages show: the pages that ask for one thing at a time.          *)

\* The table of the tournaments.
TableOK(d) == IsSequence(d.cups) /\ \A k \in DOMAIN d.cups : d.cups[k].id = k

\* q was under way and nothing else is.
Due(c, b, o, q) ==
    /\ IsTab(c) /\ ViewOK(c) /\ WellRouted(c) /\ c.net = <<>> /\ ~Many(c)
    /\ Proper(c, q) /\ NoneOf(c) /\ c.cups \subseteq DOMAIN b.cups
    /\ c.at = "/tournament" =>
         /\ c.arg[1] \in DOMAIN b.cups
         /\ HasCups(c) \/ c.cup.id = c.arg[1] \/ q.op = "tournament"
    /\ q.phase = "ok" =>
         /\ q.op = "tournaments" => q.data = DOMAIN b.cups
         /\ q.op = "createTournament" => q.data \in DOMAIN b.cups
         /\ q.op = "tournament" => q.data.id = q.arg[1]
    /\ o \cap {"failed", "swap"} = {} =>
         /\ q.op \in Reads => q.phase \in {"sent", "ok", "denied"}
         /\ c.at = "/tournament" =>
              IF q.phase = "ok" THEN b.cups[c.arg[1]] = Cupped(c.cup, q)
              ELSE q.op # "tournament" => b.cups[c.arg[1]] = c.cup
         /\ c.at \in {"/courses", "/course"} /\ q.phase = "ok" => q.data = Fitting(b, Filter(c))

LEMMA DuePage ==
    ASSUME NEW c, NEW b, NEW o, NEW q, Due(c, b, o, q)
    PROVE  /\ DOMAIN c = TabFields /\ c.at \notin HomePages \cup ProfilePages
           /\ q.op \in PageAsks(c.at)
           /\ c.user = NoOne <=> c.at \in {"/login", "/register"}
<1>1. DOMAIN c = TabFields /\ q.op \in PageAsks(c.at) /\ (c.user = NoOne => c.at \in {"/login", "/register"})
  BY DEF Due, IsTab, Proper
<1>2. c.user # NoOne => c.at \notin HomePages \cup ProfilePages \cup {"/login", "/register"}
  BY DEF Due, Many, WellRouted
<1> QED
  BY <1>1, <1>2 DEF HomePages, ProfilePages

\* Somebody logs in, and the front page asks for all it shows.
LEMMA LoggedInPages ==
    ASSUME NEW c, IsTab(c), ViewOK(c), WellRouted(c), c.net = <<>>, NoneOf(c),
           c.at \in {"/login", "/register"}, NEW b, c.cups \subseteq DOMAIN b.cups,
           NEW u, u # NoOne, NEW o
    PROVE  PagesOK(LoggedIn(c, u), b, o)
<1> DEFINE s  == [c EXCEPT !.saved = u, !.user = u]
           d  == Asks(s, "details", <<"home">>)
           c1 == Opened(d, "/", <<>>)
           r  == Render(c, c1)
<1>1. /\ IsTab(s) /\ s.net = <<>> /\ s.user = u /\ s.saved = u /\ s.at = c.at
      /\ s.profile = c.profile /\ s.cups = c.cups
  BY DEF IsTab, TabFields
<1> HIDE DEF s
<1>2. IsTab(d) /\ d.net = Append(s.net, Request("details", <<"home">>, s.saved))
      /\ \A f \in TabFields \ {"net"} : d[f] = s[f]
  BY <1>1, AskingAppends
<1>3. /\ d.user = u /\ d.saved = u /\ d.at = c.at /\ d.profile = c.profile /\ d.cups = c.cups
      /\ DOMAIN d.net = {1} /\ d.net[1] = Request("details", <<"home">>, u)
  BY <1>1, <1>2 DEF TabFields
<1>4. LoggedIn(c, u) = Dispatch(c, d)
  BY DEF LoggedIn, fetchUserDetails, s
<1> HIDE DEF d
<1>5. Routed(d) = c1
  BY <1>3 DEF Routed, Open
<1>6. LoggedIn(c, u) = r
  BY <1>4, <1>5 DEF Dispatch
<1>7. IsTab(c1) /\ ViewOK(c1) /\ c1.net = d.net /\ c1.at = "/"
  BY <1>2, OpenedIs
<1>8. c1.user = u /\ c1.saved = u /\ c1.profile = c.profile /\ c1.cups = c.cups
  BY <1>2, <1>3 DEF Opened, IsTab, TabFields
<1> HIDE DEF c1
<1>9. HomeReady(c1, b, o)
  <2>1. Proper(c1, Request("details", <<"home">>, c1.saved))
    BY <1>7, <1>8, RoundProper DEF HomePages, RoundAsks
  <2>2. \A i \in DOMAIN c1.net : c1.net[i].phase = "sent" /\ Proper(c1, c1.net[i])
    BY <1>3, <1>7, <1>8, <2>1 DEF Request
  <2> QED
    BY <1>7, <1>8, <2>2 DEF HomeReady, HomePages, NoneOf, Oks
<1>10. Grows(c1, r) /\ ViewOK(r) /\ Asking(r, "recent") /\ Asking(r, "details")
  BY <1>7, <1>8, HomeRender DEF HomePages
<1> HIDE DEF r
<1>11. HomeReady(r, b, o)
  BY <1>9, <1>10, GrowsHome
<1> QED
  BY <1>6, <1>10, <1>11, HomePagesOK DEF HomeReady, RecentShown, DetailsShown

\* A page changes in what these properties leave alone.
LEMMA AlikeShows ==
    ASSUME NEW c, NEW b, NEW o, Shows(c, b, o), c.net = <<>>,
           NEW d, Same(c, d), d.net = <<>>, HasCups(d) <=> HasCups(c)
    PROVE  PagesOK(d, b, o)
BY QuietPages, AlikePages

\* The answer for the course, the tournament or the list of them.
LEMMA ReadSucceeded ==
    ASSUME NEW c, NEW b, NEW o, NEW q, Due(c, b, o, q), q.phase = "ok",
           q.op \in {"courses", "tournaments", "tournament"}
    PROVE  PagesOK(Succeeded(c, q), b, o)
<1> DEFINE d == Succeeded(c, q)
<1>1. /\ DOMAIN c = TabFields /\ c.at \notin HomePages \cup ProfilePages
      /\ q.op \in PageAsks(c.at)
  BY DuePage
<1>2. CASE q.op = "courses"
  <2>1. d = Done([c EXCEPT !.courses = q.data], "courses")
    BY <1>2 DEF Succeeded, OnPage, Lists
  <2>2. /\ d.net = <<>> /\ SamePage(c, d) /\ d.profile = c.profile /\ d.cups = c.cups
        /\ d.cup = c.cup /\ d.courses = q.data /\ (HasCups(d) <=> HasCups(c))
    BY <1>1, <2>1 DEF Done, TabFields, SamePage, Due, HasCups
  <2>3. c.at \in {"/courses", "/course", "/tournament"}
    BY <1>1, <1>2 DEF PageAsks, HomePages, ProfilePages
  <2> HIDE DEF d
  <2>4. Filter(d) = Filter(c) /\ OwnProfile(d)
    BY <2>2, <2>3 DEF SamePage, Filter, OwnProfile, ProfilePages, Due, NoneOf
  <2>5. \A p : p = o \cap {"failed", "swap"} /\ p = {} /\ c.at = "/tournament" => b.cups[c.arg[1]] = c.cup
    BY <1>2 DEF Due, Cupped
  <2>6. Shows(d, b, o)
    BY <1>2, <2>2, <2>3, <2>4, <2>5 DEF Shows, SamePage, Due
  <2> QED
    BY <2>2, <2>6, QuietPages DEF d
<1>3. CASE q.op = "tournaments"
  <2>1. d = Done([c EXCEPT !.cups = q.data], "cups")
    BY <1>3 DEF Succeeded, OnPage, Lists
  <2>2. d.net = <<>> /\ SamePage(c, d) /\ d.profile = c.profile /\ d.cups = q.data
    BY <1>1, <2>1 DEF Done, TabFields, SamePage, Due
  <2>3. c.at = "/tournaments"
    BY <1>1, <1>3 DEF PageAsks, HomePages, ProfilePages, RoundAsks, ProfileAsks, CupAsks
  <2> HIDE DEF d
  <2>4. Shows(d, b, o)
    BY <1>3, <2>2, <2>3 DEF Shows, SamePage, Due, OwnProfile, ProfilePages, NoneOf
  <2> QED
    BY <2>2, <2>4, QuietPages DEF d
<1>4. CASE q.op = "tournament"
  <2>1. d = Done([c EXCEPT !.cup = q.data], "cups")
    BY <1>4 DEF Succeeded, OnPage, Lists
  <2>2. d.net = <<>> /\ SamePage(c, d) /\ d.profile = c.profile /\ d.cups = c.cups /\ d.cup = q.data
    BY <1>1, <2>1 DEF Done, TabFields, SamePage, Due
  <2>3. c.at = "/tournament"
    BY <1>1, <1>4 DEF PageAsks, HomePages, ProfilePages, RoundAsks, ProfileAsks, CupAsks
  <2>4. q.arg[1] = c.arg[1]
    BY <1>4 DEF Due, Proper, CupAsks
  <2> HIDE DEF d
  <2>5. Shows(d, b, o)
    BY <1>4, <2>2, <2>3, <2>4 DEF Shows, SamePage, Due, OwnProfile, ProfilePages, NoneOf, Cupped
  <2> QED
    BY <2>2, <2>5, QuietPages DEF d
<1> QED
  BY <1>2, <1>3, <1>4

\* The answer to a change of the tournament.
LEMMA CupSucceeded ==
    ASSUME NEW c, NEW b, TableOK(b), NEW o, NEW q, Due(c, b, o, q), q.phase = "ok",
           q.op \in {"join", "addCourse", "calculatePrices"}
    PROVE  PagesOK(Succeeded(c, q), b, o)
<1> DEFINE d == Succeeded(c, q)
           good == o \cap {"failed", "swap"} = {}
<1>1. /\ DOMAIN c = TabFields /\ c.at \notin HomePages \cup ProfilePages
      /\ q.op \in PageAsks(c.at)
  BY DuePage
<1>2. c.at = "/tournament"
  BY <1>1 DEF PageAsks, HomePages, ProfilePages, RoundAsks, ProfileAsks
<1>3. c.arg[1] \in DOMAIN b.cups /\ (HasCups(c) \/ c.cup.id = c.arg[1])
  BY <1>2 DEF Due
<1>4. d = IF HasCup(c)
          THEN IF q.op = "join" THEN [c EXCEPT !.cup.players = @ \cup {q.arg[2]}]
               ELSE IF q.op = "calculatePrices" THEN [c EXCEPT !.cup.prices = q.data]
               ELSE IF q.to = "page" THEN [[c EXCEPT !.view.ask = 0] EXCEPT !.cup.courses = @ \cup {q.arg[2]}]
               ELSE [c EXCEPT !.cup.courses = @ \cup {q.arg[2]}]
          ELSE IF q.op = "addCourse" /\ q.to = "page" THEN [c EXCEPT !.view.ask = 0] ELSE c
  <2>1. CASE q.op = "join"
    BY <2>1 DEF Succeeded, OnPage, Lists
  <2>2. CASE q.op = "calculatePrices"
    BY <2>2 DEF Succeeded, OnPage, Lists
  <2>3. CASE q.op = "addCourse"
    <3>1. d = CourseAdded(IF q.to = "page" THEN [c EXCEPT !.view.ask = 0] ELSE c, q.arg[2])
      BY <2>3 DEF Succeeded, OnPage, Lists
    <3>2. CASE q.to = "page"
      <4>1. HasCup([c EXCEPT !.view.ask = 0]) <=> HasCup(c)
        BY <1>1 DEF HasCup, TabFields
      <4> QED
        BY <2>3, <3>1, <3>2, <4>1 DEF CourseAdded
    <3>3. CASE q.to # "page"
      BY <2>3, <3>1, <3>3 DEF CourseAdded
    <3> QED
      BY <3>2, <3>3
  <2> QED
    BY <2>1, <2>2, <2>3
<1>5. /\ d.net = <<>> /\ d.user = c.user /\ d.at = c.at /\ d.arg = c.arg
      /\ d.profile = c.profile /\ d.cups = c.cups /\ (HasCups(d) <=> HasCups(c))
      /\ d.cup = IF HasCup(c) THEN Cupped(c.cup, q) ELSE c.cup
  <2>1. c.net = <<>>
    BY DEF Due
  <2>2. CASE ~HasCup(c)
    BY <1>1, <1>4, <2>1, <2>2 DEF TabFields, HasCups
  <2>3. CASE HasCup(c) /\ q.op = "join"
    BY <1>1, <1>4, <2>1, <2>3 DEF TabFields, HasCups, Cupped
  <2>4. CASE HasCup(c) /\ q.op = "calculatePrices"
    BY <1>1, <1>4, <2>1, <2>4 DEF TabFields, HasCups, Cupped
  <2>5. CASE HasCup(c) /\ q.op = "addCourse" /\ q.to = "page"
    BY <1>1, <1>4, <2>1, <2>5 DEF TabFields, HasCups, Cupped
  <2>6. CASE HasCup(c) /\ q.op = "addCourse" /\ q.to # "page"
    BY <1>1, <1>4, <2>1, <2>6 DEF TabFields, HasCups, Cupped
  <2> QED
    BY <2>2, <2>3, <2>4, <2>5, <2>6
<1>6. Cupped(c.cup, q).id = c.cup.id
  BY DEF Cupped
<1>7. good => b.cups[c.arg[1]] = d.cup
  <2> SUFFICES ASSUME good PROVE HasCup(c)
    BY <1>2, <1>5 DEF Due
  <2>1. b.cups[c.arg[1]] = Cupped(c.cup, q)
    BY <1>2 DEF Due
  <2>2. c.cup.id = c.arg[1] /\ DOMAIN b.cups = 1..Len(b.cups)
    BY <1>3, <1>6, <2>1 DEF TableOK, IsSequence
  <2>3. c.arg[1] # 0
    BY <1>3, <2>2 DEF TableOK, IsSequence
  <2> QED
    BY <2>2, <2>3 DEF HasCup
<1> HIDE DEF d
<1>8. Shows(d, b, o)
  <2>1. OwnProfile(d) /\ d.cups \subseteq DOMAIN b.cups
    BY <1>1, <1>5 DEF OwnProfile, NoneOf, Due
  <2>2. d.cup.id = c.cup.id
    BY <1>5, <1>6
  <2> QED
    BY <1>2, <1>3, <1>5, <1>7, <2>1, <2>2 DEF Shows
<1> QED
  BY <1>5, <1>8, QuietPages DEF d

\* What is new is shown on a page of its own.
LEMMA CreatingSucceeded ==
    ASSUME NEW c, NEW b, NEW o, NEW q, Due(c, b, o, q), q.phase = "ok",
           q.op \in {"createRound", "createCourse", "createTournament"}
    PROVE  PagesOK(Succeeded(c, q), b, o)
<1>1. /\ DOMAIN c = TabFields /\ c.at \notin HomePages \cup ProfilePages
      /\ q.op \in PageAsks(c.at)
      /\ c.user = NoOne <=> c.at \in {"/login", "/register"}
  BY DuePage
<1>2. c.at \in {"/new-round", "/new-course", "/new-tournament"}
  BY <1>1 DEF PageAsks, HomePages, ProfilePages, RoundAsks, ProfileAsks, CupAsks
<1>3. \A at \in {"/rounds", "/course", "/tournament"} : at # c.at /\ Meant(c, at)
  BY <1>1, <1>2 DEF Meant
<1>4. IsTab(c) /\ ViewOK(c) /\ WellRouted(c) /\ c.net = <<>> /\ OwnProfile(c) /\ c.cups \subseteq DOMAIN b.cups
  BY <1>1 DEF Due, OwnProfile
<1>5. CASE q.op = "createRound"
  <2>1. Succeeded(c, q) = Push(c, "/rounds", <<q.data>>)
    BY <1>5 DEF Succeeded, OnPage, Lists
  <2> QED
    BY <1>3, <1>4, <2>1, PushFresh
<1>6. CASE q.op = "createCourse"
  <2> DEFINE d == [c EXCEPT !.courses = @ \cup {q.data}]
  <2>1. Succeeded(c, q) = Push(d, "/course", q.arg)
    BY <1>6 DEF Succeeded, OnPage, Lists
  <2>2. /\ DOMAIN d = TabFields /\ d.net = <<>> /\ SamePage(c, d) /\ d.profile = c.profile
        /\ d.cups = c.cups
    BY <1>1, <1>4 DEF TabFields, SamePage
  <2> HIDE DEF d
  <2>3. IsTab(d) /\ ViewOK(d) /\ WellRouted(d) /\ OwnProfile(d) /\ "/course" # d.at /\ Meant(d, "/course")
    BY <1>2, <1>3, <1>4, <2>2 DEF IsTab, ViewOK, WellRouted, OwnProfile, NoneOf, ProfilePages, Meant, SamePage
  <2> QED
    BY <1>4, <2>1, <2>2, <2>3, PushFresh
<1>7. CASE q.op = "createTournament"
  <2>1. Succeeded(c, q) = Push(c, "/tournament", <<q.data>>)
    BY <1>7 DEF Succeeded, OnPage, Lists
  <2>2. <<q.data>>[1] \in DOMAIN b.cups
    BY <1>7 DEF Due
  <2> QED
    BY <1>3, <1>4, <2>1, <2>2, PushFresh
<1> QED
  BY <1>5, <1>6, <1>7

\* What these properties leave alone.
LEMMA DueAlike ==
    ASSUME NEW c, NEW b, NEW o, NEW q, Due(c, b, o, q),
           c.at \notin {"/tournament", "/tournaments", "/courses", "/course"},
           NEW d, Same(c, d), d.net = <<>>
    PROVE  PagesOK(d, b, o)
<1>1. c.at \notin HomePages \cup ProfilePages
  BY DuePage
<1>2. Shows(d, b, o)
  BY <1>1 DEF Due, Same, Shows, OwnProfile, NoneOf, HomePages
<1> QED
  BY <1>2, QuietPages

LEMMA DueSucceeded ==
    ASSUME NEW c, NEW b, TableOK(b), NEW o, NEW q, Due(c, b, o, q), q.phase = "ok"
    PROVE  PagesOK(Succeeded(c, q), b, o)
<1> DEFINE d == Succeeded(c, q)
<1>1. /\ DOMAIN c = TabFields /\ c.at \notin HomePages \cup ProfilePages
      /\ q.op \in PageAsks(c.at)
      /\ c.user = NoOne <=> c.at \in {"/login", "/register"}
  BY DuePage
<1>2. \/ q.op \in {"courses", "tournaments", "tournament", "join", "addCourse", "calculatePrices",
                   "createRound", "createCourse", "createTournament"}
      \/ q.op \in {"login", "register"} /\ c.at \in {"/login", "/register"}
      \/ q.op \in {"feed", "like"} \cup Lists /\ c.at \in {"/feed", "/leaders", "/new-round"}
  BY <1>1 DEF PageAsks, HomePages, ProfilePages, RoundAsks, ProfileAsks, CupAsks, Lists
<1>3. CASE q.op \in {"login", "register"} /\ c.at \in {"/login", "/register"}
  <2>1. d = LoggedIn(c, q.arg[1])
    BY <1>3 DEF Succeeded, OnPage, Lists
  <2>2. q.arg[1] # NoOne
    BY <1>3 DEF Due, Proper
  <2> QED
    BY <1>3, <2>1, <2>2, LoggedInPages DEF Due
<1>4. CASE q.op \in {"feed", "like"} \cup Lists /\ c.at \in {"/feed", "/leaders", "/new-round"}
  <2>1. d = c \/ d = PageShown(c, q) \/ d = Shown(c, q)
    BY <1>4 DEF Succeeded, OnPage, Lists
  <2> HIDE DEF d
  <2>2. d.net = <<>> /\ Same(c, d)
    <3>1. c.net = <<>> /\ DOMAIN c.view = ViewFields
      BY DEF Due, ViewOK
    <3>2. CASE d = c
      BY <3>1, <3>2 DEF Same
    <3>3. CASE d = PageShown(c, q)
      BY <1>1, <3>1, <3>3 DEF PageShown, Same, TabFields, ViewFields
    <3>4. CASE d = Shown(c, q)
      BY <1>1, <3>1, <3>4 DEF Shown, Same, TabFields, ViewFields
    <3> QED
      BY <2>1, <3>2, <3>3, <3>4
  <2>3. PagesOK(d, b, o)
    BY <1>4, <2>2, DueAlike
  <2> QED
    BY <2>3 DEF d
<1> QED
  BY <1>2, <1>3, <1>4, ReadSucceeded, CupSucceeded, CreatingSucceeded

LEMMA DueFailed ==
    ASSUME NEW c, NEW b, NEW o, NEW q, Due(c, b, o, q), q.phase \notin {"sent", "ok", "denied"}
    PROVE  PagesOK(Failed(c, q), b, o)
<1> DEFINE d == Failed(c, q)
           good == o \cap {"failed", "swap"} = {}
<1>1. /\ DOMAIN c = TabFields /\ c.at \notin HomePages \cup ProfilePages
      /\ q.op \in PageAsks(c.at)
      /\ c.user = NoOne <=> c.at \in {"/login", "/register"}
  BY DuePage
<1>2. \/ q.op \in {"courses", "tournaments", "tournament"}
      \/ q.op \in {"join", "addCourse", "calculatePrices"} /\ c.at = "/tournament"
      \/ q.op \in {"login", "register"} /\ c.at \in {"/login", "/register"}
      \/ /\ q.op \in {"feed", "like", "createRound", "createCourse", "createTournament"} \cup Lists
         /\ c.at \notin {"/tournament", "/tournaments", "/courses", "/course"}
  BY <1>1 DEF PageAsks, HomePages, ProfilePages, RoundAsks, ProfileAsks, CupAsks, Lists
<1>3. c.net = <<>> /\ DOMAIN c.view = ViewFields /\ (q.op \in Reads => ~good)
  BY DEF Due, ViewOK
<1>4. CASE q.op \in {"courses", "tournaments", "tournament"}
  <2>1. d = Failing(c, IF q.op = "courses" THEN "courses" ELSE "cups")
    BY <1>4 DEF Failed, StoreOf, OnPage, Lists
  <2>2. /\ d.net = <<>> /\ SamePage(c, d) /\ d.profile = c.profile /\ d.cups = c.cups
        /\ d.cup = c.cup /\ (HasCups(c) => HasCups(d)) /\ (q.op # "courses" => HasCups(d))
    BY <1>1, <1>3, <2>1 DEF Failing, Done, TabFields, SamePage, HasCups
  <2>3. q.op \in Reads
    BY <1>4 DEF Reads
  <2> HIDE DEF d
  <2>4. Shows(d, b, o)
    BY <1>1, <1>3, <1>4, <2>2, <2>3 DEF Shows, SamePage, Due, OwnProfile, NoneOf
  <2> QED
    BY <2>2, <2>4, QuietPages DEF d
<1>5. CASE q.op \in {"join", "addCourse", "calculatePrices"} /\ c.at = "/tournament"
  <2>1. d = c
    BY <1>5 DEF Failed, OnPage, Lists
  <2>2. Shows(c, b, o)
    BY <1>1, <1>5 DEF Shows, Due, OwnProfile
  <2> QED
    BY <1>3, <2>1, <2>2, QuietPages
<1>6. CASE q.op \in {"login", "register"} /\ c.at \in {"/login", "/register"}
  <2> DEFINE e == [c EXCEPT !.loginError = TRUE]
  <2>1. e.net = <<>> /\ Same(c, e) /\ e.user = NoOne
    BY <1>1, <1>3, <1>6 DEF TabFields, Same
  <2>2. d = Homewards(e, [q EXCEPT !.arg = <<"home">>])
    BY <1>6 DEF Failed, OnPage, Lists
  <2>3. d = e
    BY <2>1, <2>2 DEF Homewards
  <2> HIDE DEF e
  <2> QED
    BY <1>6, <2>1, <2>3, DueAlike
<1>7. CASE /\ q.op \in {"feed", "like", "createRound", "createCourse", "createTournament"} \cup Lists
           /\ c.at \notin {"/tournament", "/tournaments", "/courses", "/course"}
  <2>1. \/ d = c \/ d = Liked(c, q.arg[1], q.arg[2]) \/ d = [c EXCEPT !.view.starting = FALSE]
        \/ d = [c EXCEPT !.view.busy = FALSE, !.view.failed = TRUE]
        \/ d = [c EXCEPT !.view.busy = FALSE, !.view.failed = TRUE, !.view.loaded = @ \ {q.arg[1]}]
    BY <1>7 DEF Failed, OnPage, Lists
  <2> HIDE DEF d
  <2>2. d.net = <<>> /\ Same(c, d)
    <3>1. CASE d = c
      BY <1>3, <3>1 DEF Same
    <3>2. CASE d = Liked(c, q.arg[1], q.arg[2])
      BY <1>1, <1>3, <3>2 DEF Liked, Same, TabFields, ViewFields
    <3>3. CASE d = [c EXCEPT !.view.starting = FALSE]
      BY <1>1, <1>3, <3>3 DEF Same, TabFields, ViewFields
    <3>4. CASE d = [c EXCEPT !.view.busy = FALSE, !.view.failed = TRUE]
      BY <1>1, <1>3, <3>4 DEF Same, TabFields, ViewFields
    <3>5. CASE d = [c EXCEPT !.view.busy = FALSE, !.view.failed = TRUE, !.view.loaded = @ \ {q.arg[1]}]
      BY <1>1, <1>3, <3>5 DEF Same, TabFields, ViewFields
    <3> QED
      BY <2>1, <3>1, <3>2, <3>3, <3>4, <3>5
  <2> QED
    BY <1>7, <2>2, DueAlike DEF d
<1> QED
  BY <1>2, <1>4, <1>5, <1>6, <1>7

\* The answer is taken from the network, and the page has nothing under way.
LEMMA TakenDue ==
    ASSUME NEW c, IsTab(c), ViewOK(c), WellRouted(c), ~Many(c), NEW b, NEW o, PagesOK(c, b, o),
           NEW i \in DOMAIN c.net
    PROVE  Due([c EXCEPT !.net = RemoveAt(@, i)], b, o, c.net[i])
<1> DEFINE d == [c EXCEPT !.net = RemoveAt(@, i)]
           q == c.net[i]
<1>1. Taken(c, i, d)
  BY TakingIsTaken
<1>2. /\ DOMAIN d = TabFields /\ d.profile = c.profile /\ d.cups = c.cups /\ d.arg = c.arg
      /\ d.cup = c.cup /\ d.courses = c.courses /\ d.recent = c.recent /\ d.details = c.details
      /\ d.err = c.err
  BY DEF IsTab, TabFields
<1>3. Len(c.net) <= 1 /\ Len(c.net) \in Nat /\ DOMAIN c.net = 1..Len(c.net)
  BY DEF PagesOK, Batch, IsTab, IsNet, IsSequence
<1>4. \A j \in DOMAIN c.net : j = i
  BY <1>3
<1> HIDE DEF d
<1>5. IsTab(d) /\ d.at = c.at /\ d.view = c.view /\ d.user = c.user /\ d.saved = c.saved
  BY <1>1 DEF Taken
<1>6. d.net = <<>>
  <2>1. DOMAIN d.net = {}
    BY <1>1, <1>4 DEF Taken
  <2>2. Len(d.net) = 0 /\ d.net = [k \in 1..Len(d.net) |-> d.net[k]]
    BY <1>5, <2>1 DEF IsTab, IsNet, IsSequence
  <2> QED
    BY <2>2
<1>7. Same(c, d)
  BY <1>2, <1>5 DEF Same
<1>8. Proper(d, q) /\ Filter(d) = Filter(c)
  BY <1>7, SameProper DEF PagesOK, Batch
<1>9. c.at \notin HomePages \cup ProfilePages
  <2>1. Proper(c, q)
    BY DEF PagesOK, Batch
  <2>2. c.user # NoOne
        \/ c.at \in {"/login", "/register"}
    BY <2>1 DEF Proper
  <2> QED
    BY <2>2 DEF Many, HomePages, ProfilePages
<1>10. NoneOf(d) /\ d.cups \subseteq DOMAIN b.cups
  BY <1>2, <1>9 DEF PagesOK, OwnProfile, NoneOf, OwnCup
<1>11. d.at = "/tournament" =>
         /\ d.arg[1] \in DOMAIN b.cups
         /\ HasCups(d) \/ d.cup.id = d.arg[1] \/ q.op = "tournament"
  BY <1>2, <1>4, <1>5 DEF PagesOK, OwnCup, HasCups, Asking
<1>12. q.phase = "ok" =>
         /\ q.op = "tournaments" => q.data = DOMAIN b.cups
         /\ q.op = "createTournament" => q.data \in DOMAIN b.cups
         /\ q.op = "tournament" => q.data.id = q.arg[1]
  BY DEF PagesOK, OwnCup, Oks
<1>13. o \cap {"failed", "swap"} = {} =>
         /\ q.op \in Reads => q.phase \in {"sent", "ok", "denied"}
         /\ d.at = "/tournament" =>
              IF q.phase = "ok" THEN b.cups[d.arg[1]] = Cupped(d.cup, q)
              ELSE q.op # "tournament" => b.cups[d.arg[1]] = d.cup
         /\ d.at \in {"/courses", "/course"} /\ q.phase = "ok" => q.data = Fitting(b, Filter(d))
  BY <1>2, <1>5, <1>8 DEF PagesOK, Stored, CupStored, ListsStored, Oks
<1>14. ViewOK(d) /\ WellRouted(d) /\ ~Many(d)
  BY <1>5 DEF ViewOK, WellRouted, Many
<1> QED
  BY <1>5, <1>6, <1>8, <1>10, <1>11, <1>12, <1>13, <1>14 DEF Due, d

-----------------------------------------------------------------------------
(* What the pages show: answers.                                             *)

ProfileReady(c, b) ==
    /\ \A i \in DOMAIN c.net : Proper(c, c.net[i])
    /\ OnlyOf(c, WhoseIs(c)) /\ c.cups \subseteq DOMAIN b.cups

LEMMA ProfilePagesOK ==
    ASSUME NEW c, c.user # NoOne, c.at \in ProfilePages, NEW b, NEW o
    PROVE  PagesOK(c, b, o) <=> ProfileReady(c, b)
<1>1. Many(c) /\ c.at \notin {"/tournament", "/tournaments", "/courses", "/course", "/"}
  BY DEF Many, HomePages, ProfilePages
<1>2. \A q : Proper(c, q) => q.op \notin Reads \cup {"createTournament"}
  BY DEF Proper, PageAsks, HomePages, ProfilePages, ProfileAsks, Reads
<1>3. PagesOK(c, b, o) => ProfileReady(c, b)
  BY DEF PagesOK, Batch, OwnProfile, OwnCup, ProfileReady
<1>4. ProfileReady(c, b) => Batch(c) /\ OwnProfile(c) /\ OwnCup(c, b)
  BY <1>1, <1>2 DEF ProfileReady, Batch, OwnProfile, OwnCup, Oks, Reads
<1>5. ProfileReady(c, b) => Stored(c, b)
  BY <1>1, <1>2 DEF ProfileReady, Stored, CupStored, ListsStored, HomeStored, Oks, Reads
<1> QED
  BY <1>3, <1>4, <1>5 DEF PagesOK

\* An answer about a profile is about the one shown.
LEMMA ProfileAnswered ==
    ASSUME NEW c, DOMAIN c = TabFields, c.user # NoOne, c.at \in ProfilePages, NEW b,
           ProfileReady(c, b), NEW q, Proper(c, q), NEW o
    PROVE  PagesOK(Succeeded(c, q), b, o) /\ PagesOK(Failed(c, q), b, o)
<1>1. q.op \in ProfileAsks /\ q.arg[1] = WhoseIs(c)
  BY DEF Proper, PageAsks, HomePages, ProfilePages
<1>2. \A d : d.net = c.net /\ d.user = c.user /\ d.saved = c.saved /\ d.at = c.at /\ d.arg = c.arg
             /\ d.cups = c.cups /\ d.view = c.view /\ OnlyOf(d, WhoseIs(c)) => PagesOK(d, b, o)
  <2> SUFFICES ASSUME NEW d, d.net = c.net, d.user = c.user, d.saved = c.saved, d.at = c.at,
                      d.arg = c.arg, d.cups = c.cups, d.view = c.view, OnlyOf(d, WhoseIs(c))
               PROVE  PagesOK(d, b, o)
    OBVIOUS
  <2>1. WhoseIs(d) = WhoseIs(c) /\ Filter(d) = Filter(c)
    BY DEF WhoseIs, Filter
  <2>2. \A x : Proper(c, x) => Proper(d, x)
    BY <2>1 DEF Proper
  <2>3. ProfileReady(d, b)
    BY <2>1, <2>2 DEF ProfileReady
  <2> QED
    BY <2>3, ProfilePagesOK
<1>3. OnlyOf(c, WhoseIs(c))
  BY DEF ProfileReady
<1>4. PagesOK(Succeeded(c, q), b, o)
  <2> DEFINE d == Succeeded(c, q)
  <2>1. \/ q.op = "profile" /\ d = Done([c EXCEPT !.profile.who = q.arg[1]], "profile")
        \/ q.op = "achievements" /\ d = [c EXCEPT !.profile.achievements = q.arg[1]]
        \/ q.op = "rounds" /\ d = [c EXCEPT !.profile.rounds = q.arg]
    BY <1>1 DEF Succeeded, OnPage, Lists, ProfileAsks
  <2> HIDE DEF d
  <2>2. /\ d.net = c.net /\ d.user = c.user /\ d.saved = c.saved /\ d.at = c.at /\ d.arg = c.arg
        /\ d.cups = c.cups /\ d.view = c.view
    BY <2>1 DEF Done, TabFields
  <2>3. \/ d.profile = [c.profile EXCEPT !.who = q.arg[1]]
        \/ d.profile = [c.profile EXCEPT !.achievements = q.arg[1]]
        \/ d.profile = [c.profile EXCEPT !.rounds = q.arg]
    BY <2>1 DEF Done, TabFields
  <2>4. OnlyOf(d, WhoseIs(c))
    BY <1>1, <1>3, <2>3 DEF OnlyOf, NoProfile
  <2> QED
    BY <1>2, <2>2, <2>4 DEF d
<1>5. PagesOK(Failed(c, q), b, o)
  <2> DEFINE d == Failed(c, q)
  <2>1. \/ d = Failing(c, "profile") \/ d = [c EXCEPT !.profile.achievements = NoOne] \/ d = c
    BY <1>1 DEF Failed, StoreOf, OnPage, Lists, ProfileAsks
  <2> HIDE DEF d
  <2>2. /\ d.net = c.net /\ d.user = c.user /\ d.saved = c.saved /\ d.at = c.at /\ d.arg = c.arg
        /\ d.cups = c.cups /\ d.view = c.view
    BY <2>1 DEF Failing, Done, TabFields
  <2>3. d.profile = c.profile \/ d.profile = [c.profile EXCEPT !.achievements = NoOne]
    BY <2>1 DEF Failing, Done, TabFields
  <2>4. OnlyOf(d, WhoseIs(c))
    BY <1>3, <2>3 DEF OnlyOf, NoProfile
  <2> QED
    BY <1>2, <2>2, <2>4 DEF d
<1> QED
  BY <1>4, <1>5

\* What is taken from the network of a page with a profile.
LEMMA TakenProfile ==
    ASSUME NEW c, IsTab(c), c.user # NoOne, c.at \in ProfilePages, NEW b, ProfileReady(c, b),
           NEW i \in DOMAIN c.net
    PROVE  LET d == [c EXCEPT !.net = RemoveAt(@, i)]
           IN  /\ DOMAIN d = TabFields /\ d.user # NoOne /\ d.at \in ProfilePages
               /\ ProfileReady(d, b) /\ Proper(d, c.net[i])
<1> DEFINE d == [c EXCEPT !.net = RemoveAt(@, i)]
<1>1. Taken(c, i, d)
  BY TakingIsTaken
<1>2. DOMAIN d = TabFields /\ d.profile = c.profile /\ d.cups = c.cups /\ d.arg = c.arg
  BY DEF IsTab, TabFields
<1> HIDE DEF d
<1>3. /\ d.at = c.at /\ d.view = c.view /\ d.user = c.user /\ d.saved = c.saved
      /\ \A j \in DOMAIN d.net : Was(i, j) \in DOMAIN c.net /\ d.net[j] = c.net[Was(i, j)]
  BY <1>1 DEF Taken
<1>4. WhoseIs(d) = WhoseIs(c) /\ Filter(d) = Filter(c)
  BY <1>2, <1>3 DEF WhoseIs, Filter
<1>5. \A q : Proper(c, q) => Proper(d, q)
  BY <1>2, <1>3, <1>4 DEF Proper
<1> QED
  BY <1>2, <1>3, <1>4, <1>5 DEF ProfileReady, OnlyOf, d

LEMMA OddPages ==
    ASSUME NEW c, NEW b, NEW o, PagesOK(c, b, o), NEW p, o \subseteq p PROVE PagesOK(c, b, p)
BY DEF PagesOK

\* What comes in is for the page that is open.
LEMMA AnswerPages ==
    ASSUME NEW c, IsTab(c), ViewOK(c), WellRouted(c), NEW b, TableOK(b), NEW o, PagesOK(c, b, o),
           "swap" \notin o => c.user = c.saved, NEW i \in DOMAIN c.net
    PROVE  LET d == [c EXCEPT !.net = RemoveAt(@, i)]
               q == c.net[i]
           IN  /\ q.to # "nobody"
               /\ q.phase = "ok" => PagesOK(Succeeded(d, q), b, o)
               /\ q.phase \notin {"sent", "ok", "denied"} => PagesOK(Failed(d, q), b, o)
<1> DEFINE d == [c EXCEPT !.net = RemoveAt(@, i)]
           q == c.net[i]
<1>1. Proper(c, q) /\ q.to # "nobody"
  BY DEF PagesOK, Batch, Proper
<1>2. CASE c.user # NoOne /\ c.at \in ProfilePages
  <2>1. ProfileReady(c, b)
    BY <1>2, ProfilePagesOK
  <2>2. /\ DOMAIN d = TabFields /\ d.user # NoOne /\ d.at \in ProfilePages
        /\ ProfileReady(d, b) /\ Proper(d, q)
    BY <1>2, <2>1, TakenProfile
  <2> HIDE DEF d, q
  <2>3. PagesOK(Succeeded(d, q), b, o) /\ PagesOK(Failed(d, q), b, o)
    BY <2>2, ProfileAnswered
  <2> QED
    BY <1>1, <2>3 DEF d, q
<1>3. CASE c.user # NoOne /\ c.at \in HomePages
  <2> DEFINE good == o \cap {"failed", "swap"} = {}
  <2>1. HomeReady(c, b, o) /\ (good => RecentShown(c) /\ DetailsShown(c))
    BY <1>3, HomePagesOK
  <2>2. /\ HomeReady(d, b, o)
        /\ q.op # "recent" /\ RecentShown(c) => RecentShown(d)
        /\ q.op # "details" /\ DetailsShown(c) => DetailsShown(d)
    BY <2>1, TakenHome
  <2>3. SamePage(c, d)
    BY DEF IsTab, TabFields, SamePage
  <2> HIDE DEF d
  <2>4. Proper(d, q)
    BY <1>1, <2>3 DEF SamePage, Proper, WhoseIs, Filter
  <2>5. q.phase = "ok" /\ good /\ q.op = "details" => q.data.who = d.user
    <3> SUFFICES ASSUME q.phase = "ok", good, q.op = "details" PROVE q.data.who = d.user
      OBVIOUS
    <3>1. q.data.who = q.who
      BY <2>1 DEF HomeReady, Oks
    <3>2. q.who = c.saved /\ c.saved = c.user /\ d.user = c.user
      BY <1>1, <2>3 DEF Proper, SamePage
    <3> QED
      BY <3>1, <3>2
  <2>6. good /\ q.phase \notin {"sent", "ok", "denied"} => q.op \notin Reads
    BY <2>1 DEF HomeReady
  <2>7. q.phase = "ok" => /\ HomeReady(Succeeded(d, q), b, o)
                          /\ good => RecentShown(Succeeded(d, q)) /\ DetailsShown(Succeeded(d, q))
    BY <2>1, <2>2, <2>4, <2>5, HomeSucceeded
  <2>8. q.phase \notin {"sent", "ok", "denied"} =>
          /\ HomeReady(Failed(d, q), b, o)
          /\ good => RecentShown(Failed(d, q)) /\ DetailsShown(Failed(d, q))
    BY <2>1, <2>2, <2>4, <2>6, HomeFailed DEF Reads
  <2>9. \A e : HomeReady(e, b, o) /\ (good => RecentShown(e) /\ DetailsShown(e)) => PagesOK(e, b, o)
    BY HomePagesOK DEF HomeReady
  <2> QED
    BY <1>1, <2>7, <2>8, <2>9 DEF d
<1>4. CASE ~Many(c)
  <2>1. Due(d, b, o, q)
    BY <1>4, TakenDue
  <2> HIDE DEF d, q
  <2> QED
    BY <1>1, <2>1, DueSucceeded, DueFailed DEF d, q
<1> QED
  BY <1>2, <1>3, <1>4 DEF Many

-----------------------------------------------------------------------------
(* What the pages show: requests on their way.                               *)

\* What the server makes of the tournaments.
CupOps == {"join", "addCourse", "calculatePrices"}
Joined(cup, q) ==
    CASE q.op = "join"      -> [cup EXCEPT !.players = @ \cup {q.who}]
      [] q.op = "addCourse" -> [cup EXCEPT !.courses = @ \cup {q.arg[2]}]
      [] q.op = "calculatePrices" -> [cup EXCEPT !.prices = cup.players]
CupsAfter(d, q, e) ==
    /\ TableOK(e) /\ DOMAIN d.cups \subseteq DOMAIN e.cups
    /\ q.op \notin CupOps \cup {"createTournament"} => e.cups = d.cups
    /\ q.op # "createCourse" => e.layouts = d.layouts
    /\ q.op = "createTournament" => Len(e.cups) \in DOMAIN e.cups
    /\ q.op \in CupOps /\ q.arg[1] \in DOMAIN d.cups =>
         e.cups[q.arg[1]] = Joined(d.cups[q.arg[1]], q)
LEMMA AfterCups ==
    ASSUME NEW d, StoreOK(d), TableOK(d), NEW q PROVE CupsAfter(d, q, After(d, q))
<1> DEFINE e == After(d, q)
<1>0. DOMAIN d = {"rounds", "likes", "layouts", "cups", "members"} /\ IsSequence(d.cups)
      /\ \A k \in DOMAIN d.cups : d.cups[k].id = k
  BY DEF StoreOK, TableOK
<1>1. CASE q.op = "createTournament"
  <2>1. e = [d EXCEPT !.cups = Append(@, NewCup(Len(@) + 1, q.who))]
    BY <1>1 DEF After, RoundOps
  <2>2. e.cups = Append(d.cups, NewCup(Len(d.cups) + 1, q.who)) /\ e.layouts = d.layouts
    BY <1>0, <2>1
  <2> HIDE DEF e
  <2>3. /\ IsSequence(e.cups) /\ DOMAIN d.cups = 1..Len(d.cups)
        /\ DOMAIN e.cups = 1..(Len(d.cups) + 1)
        /\ \A k \in 1..Len(d.cups) : e.cups[k] = d.cups[k]
        /\ e.cups[Len(d.cups) + 1] = NewCup(Len(d.cups) + 1, q.who)
    BY <1>0, <2>2, AppendToSequence
  <2>4. Len(d.cups) \in Nat /\ Len(e.cups) \in Nat /\ DOMAIN e.cups = 1..Len(e.cups)
    BY <1>0, <2>3 DEF IsSequence
  <2>5. Len(e.cups) \in DOMAIN e.cups
    BY <2>3, <2>4
  <2>6. TableOK(e)
    BY <1>0, <2>3, <2>4 DEF TableOK, NewCup
  <2> QED
    BY <1>1, <2>2, <2>3, <2>4, <2>5, <2>6 DEF CupOps, CupsAfter, e
<1>2. CASE q.op \in CupOps
  <2> DEFINE k == q.arg[1]
             cup == d.cups[k]
             new == Joined(cup, q)
  <2>1. e = [d EXCEPT !.cups[k] = new]
    <3>1. CASE q.op = "join"
      BY <1>0, <3>1 DEF After, RoundOps, Joined
    <3>2. CASE q.op = "addCourse"
      BY <1>0, <3>2 DEF After, RoundOps, Joined
    <3>3. CASE q.op = "calculatePrices"
      BY <1>0, <3>3 DEF After, RoundOps, Joined
    <3> QED
      BY <1>2, <3>1, <3>2, <3>3 DEF CupOps
  <2>2. new.id = cup.id
    BY <1>2 DEF CupOps, Joined
  <2> HIDE DEF new
  <2>3. e.cups = [d.cups EXCEPT ![k] = new] /\ e.layouts = d.layouts
    BY <1>0, <2>1
  <2> HIDE DEF e
  <2>4. DOMAIN d.cups = 1..Len(d.cups) /\ Len(d.cups) \in Nat
    BY <1>0 DEF IsSequence
  <2>5. IsSequence(e.cups)
    <3>1. DOMAIN e.cups = 1..Len(d.cups) /\ e.cups = [j \in 1..Len(d.cups) |-> e.cups[j]]
      BY <2>3, <2>4
    <3> QED
      BY <2>4, <3>1, FunctionIsSequence
  <2>6. \A j \in DOMAIN e.cups : e.cups[j].id = j
    BY <1>0, <2>2, <2>3
  <2>7. TableOK(e) /\ DOMAIN d.cups \subseteq DOMAIN e.cups
    BY <2>3, <2>5, <2>6 DEF TableOK
  <2>8. k \in DOMAIN d.cups => e.cups[k] = new
    BY <2>3
  <2>9. q.op # "createTournament"
    BY <1>2 DEF CupOps
  <2> QED
    BY <1>2, <2>3, <2>7, <2>8, <2>9 DEF CupsAfter, e, new
<1>3. CASE q.op \notin CupOps \cup {"createTournament"}
  <2>1. e.cups = d.cups /\ (q.op # "createCourse" => e.layouts = d.layouts)
    <3>1. \/ e = [d EXCEPT !.members = @ \cup {q.arg[1]}]
          \/ e = [d EXCEPT !.rounds[q.arg[1]] = Changed(@, q)]
          \/ e = [d EXCEPT !.rounds = Append(@, Round(Len(@) + 1,
                     IF q.arg[2] = {} THEN {q.who} ELSE q.arg[2], q.who))]
          \/ e = [d EXCEPT !.likes[q.arg[1]] = Toggled(@, q.who)]
          \/ q.op = "createCourse" /\ e = [d EXCEPT !.layouts = Append(@, q.arg[1])]
          \/ e = d
      BY <1>3 DEF After, CupOps, RoundOps
    <3> QED
      BY <1>0, <3>1
  <2> HIDE DEF e
  <2>2. TableOK(e)
    BY <1>0, <2>1 DEF TableOK
  <2> QED
    BY <1>3, <2>1, <2>2 DEF CupOps, CupsAfter, e
<1> QED
  BY <1>1, <1>2, <1>3

\* The request at i as the server or the network leaves it.
LEMMA RephasedPages ==
    ASSUME NEW c, IsTab(c), NEW b, NEW o, PagesOK(c, b, o), NEW i \in DOMAIN c.net,
           NEW r, r.op = c.net[i].op, r.arg = c.net[i].arg, r.who = c.net[i].who, r.to = c.net[i].to,
           NEW d, IsTab(d), Same(c, d), HasCups(d) <=> HasCups(c), DOMAIN d.net = DOMAIN c.net,
           d.net[i] = r, \A j \in DOMAIN c.net : j # i => d.net[j] = c.net[j],
           NEW p, o \subseteq p, NEW b2, DOMAIN b.cups \subseteq DOMAIN b2.cups,
           r.phase = "ok" =>
             /\ r.op = "tournaments" => r.data = DOMAIN b2.cups
             /\ r.op = "createTournament" => r.data \in DOMAIN b2.cups
             /\ r.op = "tournament" => r.data.id = r.arg[1],
           p \cap {"failed", "swap"} = {} =>
             /\ r.op \in Reads => r.phase \in {"sent", "ok", "denied"}
             /\ r.phase = "ok" /\ r.op = "details" => r.data.who = r.who
             /\ c.at = "/tournament" =>
                  IF r.phase = "ok" THEN b2.cups[c.arg[1]] = Cupped(c.cup, r)
                  ELSE r.op # "tournament" => b2.cups[c.arg[1]] = c.cup
             /\ c.at \in {"/courses", "/course"} /\ r.phase = "ok" => r.data = Fitting(b2, Filter(c))
    PROVE  PagesOK(d, b2, p)
<1> DEFINE good == p \cap {"failed", "swap"} = {}
<1>1. /\ \A q : Proper(d, q) <=> Proper(c, q)
      /\ WhoseIs(d) = WhoseIs(c) /\ Filter(d) = Filter(c) /\ (Many(d) <=> Many(c))
  BY SameProper
<1>2. Len(d.net) = Len(c.net) /\ DOMAIN c.net = 1..Len(c.net) /\ Len(c.net) \in Nat
  BY DEF IsTab, IsNet, IsSequence
<1>3. Proper(c, r)
  BY DEF PagesOK, Batch, Proper
<1>4. Batch(d)
  BY <1>1, <1>2, <1>3 DEF PagesOK, Batch
<1>5. OwnProfile(d)
  BY <1>1 DEF PagesOK, OwnProfile, OnlyOf, NoneOf, Same
<1>6. c.user # NoOne \/ c.at \in {"/login", "/register"}
  BY <1>3 DEF Proper
<1>7. \A j \in DOMAIN c.net \ {i} :
        /\ c.at \in HomePages \cup ProfilePages
        /\ c.net[j].op \notin {"tournament", "tournaments", "createTournament"}
  <2> SUFFICES ASSUME NEW j \in DOMAIN c.net \ {i}
               PROVE  /\ c.at \in HomePages \cup ProfilePages
                      /\ c.net[j].op \notin {"tournament", "tournaments", "createTournament"}
    OBVIOUS
  <2>1. ~(Len(c.net) <= 1)
    BY <1>2
  <2>2. c.at \in HomePages \cup ProfilePages
    BY <2>1 DEF PagesOK, Batch, Many
  <2>3. Proper(c, c.net[j])
    BY DEF PagesOK, Batch
  <2> QED
    BY <2>2, <2>3 DEF Proper, PageAsks, HomePages, ProfilePages, RoundAsks, ProfileAsks
<1>8. \A op : Asking(c, op) => Asking(d, op)
  BY DEF Asking
<1>9. OwnCup(d, b2)
  <2>1. \A j \in Oks(d) :
          /\ d.net[j].op = "tournaments" => d.net[j].data = DOMAIN b2.cups
          /\ d.net[j].op = "createTournament" => d.net[j].data \in DOMAIN b2.cups
          /\ d.net[j].op = "tournament" => d.net[j].data.id = d.net[j].arg[1]
    BY <1>7 DEF Oks
  <2> QED
    BY <1>8, <2>1 DEF PagesOK, OwnCup, Same
<1>10. good => Stored(d, b2)
  <2> SUFFICES ASSUME good PROVE Stored(d, b2)
    OBVIOUS
  <2>1. Stored(c, b)
    BY DEF PagesOK
  <2>2. \A j \in DOMAIN d.net : d.net[j].op \in Reads => d.net[j].phase \in {"sent", "ok", "denied"}
    BY <2>1 DEF Stored
  <2>3. d.net # <<>>
    OBVIOUS
  <2>4. CupStored(d, b2)
    BY <1>7, <2>3 DEF CupStored, HomePages, ProfilePages, Same
  <2>5. ListsStored(d, b2)
    BY <1>1, <1>7, <2>3 DEF ListsStored, HomePages, ProfilePages, Same, Oks
  <2>6. HomeStored(d)
    BY <1>8, <2>1 DEF Stored, HomeStored, Same, Oks
  <2> QED
    BY <2>2, <2>4, <2>5, <2>6 DEF Stored
<1> QED
  BY <1>4, <1>5, <1>9, <1>10 DEF PagesOK

-----------------------------------------------------------------------------
(* What the pages show: steps of the network.                                *)

\* d is c for what the pages show, and waits for the same.
Likewise(c, d) == Same(c, d) /\ d.net = c.net /\ (HasCups(d) <=> HasCups(c))

LEMMA ToldLikewise ==
    ASSUME NEW c, IsTab(c)
    PROVE  /\ \A by, kind, r : Likewise(c, Told(c, by, kind, r))
           /\ \A d, q : Likewise(c, ToldOf(c, d, q))
<1>1. \A m : Likewise(c, [c EXCEPT !.inbox = m])
  BY DEF IsTab, TabFields, Likewise, Same, HasCups
<1>2. Likewise(c, c)
  BY DEF Likewise, Same
<1>3. \A by, kind, r : Likewise(c, Told(c, by, kind, r))
  BY <1>1, <1>2 DEF Told
<1> QED
  BY <1>2, <1>3 DEF ToldOf

LEMMA LikewisePages ==
    ASSUME NEW c, NEW b, NEW o, PagesOK(c, b, o), NEW d, Likewise(c, d),
           NEW p, o \subseteq p, NEW b2, b2.cups = b.cups, b2.layouts = b.layouts
    PROVE  PagesOK(d, b2, p)
BY AlikePages DEF Likewise

OwnInv  == FeedInv /\ TableOK(db) /\ (calm => PagesOK(app, db, odd))
\* What a step has to keep of it.
OwnKept == TableOK(db') /\ (calm' => PagesOK(app', db', odd'))

LEMMA OwnFacts ==
    ASSUME OwnInv
    PROVE  /\ IsTab(app) /\ ViewOK(app) /\ WellRouted(app) /\ ListsOK(app)
           /\ StoreOK(db) /\ TableOK(db) /\ (calm => PagesOK(app, db, odd))
           /\ "swap" \notin odd => app.user = app.saved
BY FeedFacts DEF OwnInv, Good

\* A request whose phase changes, and nothing else in the tab.
LEMMA ChangedRequest ==
    ASSUME NEW c, IsTab(c), NEW i \in DOMAIN c.net, NEW r, DOMAIN r = RequestFields
    PROVE  LET d == [c EXCEPT !.net[i] = r]
           IN  /\ IsTab(d) /\ Same(c, d) /\ (HasCups(d) <=> HasCups(c))
               /\ DOMAIN d.net = DOMAIN c.net /\ d.net[i] = r
               /\ \A j \in DOMAIN c.net : j # i => d.net[j] = c.net[j]
<1> DEFINE d == [c EXCEPT !.net[i] = r]
<1>1. /\ DOMAIN d = TabFields /\ d.net = [c.net EXCEPT ![i] = r]
      /\ Same(c, d) /\ (HasCups(d) <=> HasCups(c))
  BY DEF IsTab, TabFields, Same, HasCups
<1>2. IsNet(d.net) /\ DOMAIN d.net = DOMAIN c.net
  <2>1. DOMAIN c.net = 1..Len(c.net) /\ Len(c.net) \in Nat
    BY DEF IsTab, IsNet, IsSequence
  <2>2. DOMAIN d.net = 1..Len(c.net) /\ d.net = [j \in 1..Len(c.net) |-> d.net[j]]
    BY <1>1, <2>1
  <2> HIDE DEF d
  <2>3. IsSequence(d.net)
    BY <2>1, <2>2, FunctionIsSequence
  <2>4. \A j \in DOMAIN d.net : DOMAIN d.net[j] = RequestFields
    BY <1>1, <2>1, <2>2 DEF IsTab, IsNet
  <2> QED
    BY <2>1, <2>2, <2>3, <2>4 DEF IsNet
<1> HIDE DEF d
<1> QED
  BY <1>1, <1>2 DEF IsTab, d

\* A request that the server refuses or cannot take, or that is lost.
LEMMA UnservedPages ==
    ASSUME OwnInv, calm, NEW i \in DOMAIN app.net, NEW phase, phase # "ok",
           NEW p, odd \subseteq p,
           p \cap {"failed", "swap"} = {} =>
              /\ app.net[i].phase # "ok"
              /\ app.net[i].op \in Reads => phase \in {"sent", "denied"}
    PROVE  PagesOK([app EXCEPT !.net[i].phase = phase], db, p)
<1> DEFINE q == app.net[i]
           r == [q EXCEPT !.phase = phase]
           d == [app EXCEPT !.net[i] = r]
<1>1. IsTab(app) /\ PagesOK(app, db, odd)
  BY OwnFacts
<1>2. DOMAIN q = RequestFields
  BY <1>1 DEF IsTab, IsNet
<1>3. /\ DOMAIN r = RequestFields /\ r.op = q.op /\ r.to = q.to /\ r.arg = q.arg
      /\ r.who = q.who /\ r.phase = phase
  BY <1>2 DEF RequestFields
<1>4. [app EXCEPT !.net[i].phase = phase] = d
  OBVIOUS
<1> HIDE DEF r
<1>5. /\ IsTab(d) /\ Same(app, d) /\ (HasCups(d) <=> HasCups(app))
      /\ DOMAIN d.net = DOMAIN app.net /\ d.net[i] = r
      /\ \A j \in DOMAIN app.net : j # i => d.net[j] = app.net[j]
  BY <1>1, <1>3, ChangedRequest
<1> HIDE DEF d
<1>6. ASSUME p \cap {"failed", "swap"} = {}, app.at = "/tournament", q.op # "tournament"
      PROVE  db.cups[app.arg[1]] = app.cup
  <2>1. Stored(app, db)
    BY <1>1, <1>6 DEF PagesOK
  <2> QED
    BY <1>6, <2>1 DEF Stored, CupStored
<1>7. PagesOK(d, db, p)
  BY <1>1, <1>3, <1>5, <1>6, RephasedPages
<1> QED
  BY <1>4, <1>7

\* The answer that the server makes is what it has by then.
LEMMA AnsweredWell ==
    ASSUME NEW c, IsTab(c), NEW b, StoreOK(b), TableOK(b), NEW o, PagesOK(c, b, o),
           "swap" \notin o => c.user = c.saved,
           NEW i \in DOMAIN c.net, c.net[i].phase = "sent",
           NEW r, r.op = c.net[i].op, r.arg = c.net[i].arg, r.who = c.net[i].who, r.phase = "ok",
           NEW b2, b2 = After(b, c.net[i]), r.data \in Answers(b2, c.net[i])
    PROVE  /\ r.op = "tournaments" => r.data = DOMAIN b2.cups
           /\ r.op = "createTournament" => r.data \in DOMAIN b2.cups
           /\ r.op = "tournament" => r.data.id = r.arg[1]
           /\ o \cap {"failed", "swap"} = {} =>
                /\ r.op = "details" => r.data.who = r.who
                /\ c.at = "/tournament" => b2.cups[c.arg[1]] = Cupped(c.cup, r)
                /\ c.at \in {"/courses", "/course"} => r.data = Fitting(b2, Filter(c))
<1> DEFINE q == c.net[i]
<1>0. CupsAfter(b, c.net[i], b2)
  BY AfterCups
<1>1. CupsAfter(b, q, b2)
  BY <1>0
<1>2. Proper(c, q) /\ OwnCup(c, b)
  BY DEF PagesOK, Batch
<1> HIDE DEF q
<1>3. r.op = q.op /\ r.arg = q.arg /\ r.who = q.who /\ q.phase = "sent" /\ r.data \in Answers(b2, q)
  BY DEF q
<1>4. r.op = "tournaments" => r.data = DOMAIN b2.cups
  BY <1>3 DEF Answers
<1>5. r.op = "createTournament" => r.data \in DOMAIN b2.cups
  BY <1>1, <1>3 DEF Answers, CupsAfter
<1>6. q.op \in CupAsks => c.at = "/tournament" /\ q.arg[1] = c.arg[1] /\ c.arg[1] \in DOMAIN b.cups
  <2>1. q.op \in CupAsks => c.at = "/tournament"
    BY <1>2 DEF Proper, PageAsks, CupAsks, HomePages, ProfilePages, RoundAsks, ProfileAsks
  <2> QED
    BY <1>2, <2>1 DEF Proper, OwnCup
<1>7. r.op = "tournament" => r.data.id = r.arg[1] /\ r.data = b2.cups[c.arg[1]]
  <2>1. r.op = "tournament" => r.data = b2.cups[q.arg[1]]
    BY <1>3 DEF Answers
  <2> QED
    BY <1>1, <1>3, <1>6, <2>1 DEF CupsAfter, TableOK, CupAsks
<1>8. r.op = "details" => r.data.who = r.who
  BY <1>3 DEF Answers
<1>9. ASSUME o \cap {"failed", "swap"} = {}, c.at = "/tournament"
      PROVE  b2.cups[c.arg[1]] = Cupped(c.cup, r)
  <2>1. q.op \in CupAsks \cup {"courses"}
    BY <1>2, <1>9 DEF Proper, PageAsks, HomePages, ProfilePages
  <2>2. q.op # "tournament" => b.cups[c.arg[1]] = c.cup
    <3>1. CupStored(c, b)
      BY <1>9 DEF PagesOK, Stored
    <3> QED
      BY <1>3, <1>9, <3>1 DEF CupStored, q
  <2>3. c.user = c.saved
    BY <1>9
  <2>4. CASE q.op = "tournament"
    BY <1>3, <1>7, <2>4 DEF Cupped
  <2>5. CASE q.op = "join"
    <3>1. q.arg[2] = q.who /\ q.arg[1] = c.arg[1]
      BY <1>2, <1>6, <2>3, <2>5 DEF Proper, CupAsks
    <3> QED
      BY <1>1, <1>3, <1>6, <2>2, <2>5, <3>1 DEF Cupped, CupsAfter, Joined, CupOps, CupAsks
  <2>6. CASE q.op = "addCourse"
    <3>1. b2.cups[c.arg[1]] = Joined(c.cup, q)
      BY <1>1, <1>6, <2>2, <2>6 DEF CupsAfter, CupOps, CupAsks
    <3>2. Joined(c.cup, q) = Cupped(c.cup, r)
      BY <1>3, <2>6 DEF Joined, Cupped
    <3> QED
      BY <3>1, <3>2
  <2>7. CASE q.op = "calculatePrices"
    <3> DEFINE cup == b.cups[c.arg[1]]
    <3>1. b2.cups[c.arg[1]] = [cup EXCEPT !.prices = cup.players] /\ q.arg[1] = c.arg[1]
      BY <1>1, <1>6, <2>7 DEF CupsAfter, Joined, CupOps, CupAsks
    <3>2. r.data = b2.cups[c.arg[1]].prices
      BY <1>3, <2>7, <3>1 DEF Answers
    <3>3. cup = c.cup /\ Cupped(c.cup, r) = [c.cup EXCEPT !.prices = r.data]
      BY <1>3, <2>2, <2>7 DEF Cupped
    <3> HIDE DEF cup
    <3>4. [cup EXCEPT !.prices = cup.players] = [cup EXCEPT !.prices = [cup EXCEPT !.prices = cup.players].prices]
      BY Zenon
    <3> QED
      BY <3>1, <3>2, <3>3, <3>4
  <2>8. CASE q.op = "courses"
    BY <1>1, <1>3, <2>2, <2>8 DEF Cupped, CupsAfter, CupOps
  <2> QED
    BY <2>1, <2>4, <2>5, <2>6, <2>7, <2>8 DEF CupAsks
<1>10. c.at \in {"/courses", "/course"} => r.data = Fitting(b2, Filter(c))
  <2>1. c.at \in {"/courses", "/course"} => q.op = "courses" /\ q.arg[1] = Filter(c)
    BY <1>2 DEF Proper, PageAsks, HomePages, ProfilePages
  <2> QED
    BY <1>3, <2>1 DEF Answers
<1> QED
  BY <1>4, <1>5, <1>7, <1>8, <1>9, <1>10

LEMMA ServedPages ==
    ASSUME OwnInv, NEW i \in DOMAIN app.net, Serve(i) PROVE OwnKept
<1> DEFINE q == app.net[i]
<1>0. IsTab(app) /\ StoreOK(db) /\ TableOK(db) /\ (calm => PagesOK(app, db, odd))
      /\ ("swap" \notin odd => app.user = app.saved)
  BY OwnFacts
<1>1. DOMAIN q = RequestFields
  BY <1>0 DEF IsTab, IsNet
<1>2. odd' = odd /\ calm' = calm /\ q.phase = "sent"
  BY DEF Serve, Still
<1>3. ASSUME calm, NEW phase \in {"denied", "error"}, phase = "error" => q.op \notin Reads,
             app' = [app EXCEPT !.net[i].phase = phase], db' = db
      PROVE  PagesOK(app', db', odd')
  <2>1. PagesOK([app EXCEPT !.net[i].phase = phase], db, odd)
    <3>1. phase # "ok" /\ (app.net[i].op \in Reads => phase \in {"sent", "denied"})
      BY <1>3
    <3> QED
      BY <1>2, <1>3, <3>1, UnservedPages
  <2> QED
    BY <1>2, <1>3, <2>1
<1>4. ASSUME NEW data \in Answers(db', q), db' = After(db, q), calm,
             app' = ToldOf([app EXCEPT !.net[i].phase = "ok", !.net[i].data = data], db, q)
      PROVE  PagesOK(app', db', odd')
  <2> DEFINE r == [q EXCEPT !.phase = "ok", !.data = data]
             a == [app EXCEPT !.net[i] = r]
  <2>1. /\ DOMAIN r = RequestFields /\ r.op = q.op /\ r.to = q.to /\ r.arg = q.arg
        /\ r.who = q.who /\ r.phase = "ok" /\ r.data = data
    BY <1>1 DEF RequestFields
  <2>2. [app EXCEPT !.net[i].phase = "ok", !.net[i].data = data] = a
    BY <1>0 DEF IsTab, TabFields
  <2> HIDE DEF r
  <2>3. /\ IsTab(a) /\ Same(app, a) /\ (HasCups(a) <=> HasCups(app))
        /\ DOMAIN a.net = DOMAIN app.net /\ a.net[i] = r
        /\ \A j \in DOMAIN app.net : j # i => a.net[j] = app.net[j]
    BY <1>0, <2>1, ChangedRequest
  <2>4. app' = ToldOf(a, db, q)
    BY <1>4, <2>2
  <2> HIDE DEF a
  <2>5. /\ r.op = "tournaments" => r.data = DOMAIN db'.cups
        /\ r.op = "createTournament" => r.data \in DOMAIN db'.cups
        /\ r.op = "tournament" => r.data.id = r.arg[1]
        /\ odd \cap {"failed", "swap"} = {} =>
             /\ r.op = "details" => r.data.who = r.who
             /\ app.at = "/tournament" => db'.cups[app.arg[1]] = Cupped(app.cup, r)
             /\ app.at \in {"/courses", "/course"} => r.data = Fitting(db', Filter(app))
    BY <1>0, <1>2, <1>4, <2>1, AnsweredWell
  <2>6. DOMAIN db.cups \subseteq DOMAIN db'.cups
    <3>1. CupsAfter(db, q, db')
      BY <1>0, <1>4, AfterCups
    <3> QED
      BY <3>1 DEF CupsAfter
  <2>7. PagesOK(app, db, odd)
    BY <1>0, <1>4
  <2>8. Likewise(a, app')
    BY <2>3, <2>4, ToldLikewise
  <2> HIDE DEF q
  <2>9. r.op = app.net[i].op /\ r.arg = app.net[i].arg /\ r.who = app.net[i].who /\ r.to = app.net[i].to
    BY <2>1 DEF q
  <2>10. PagesOK(a, db', odd)
    <3>1. odd \cap {"failed", "swap"} = {} =>
             /\ r.op \in Reads => r.phase \in {"sent", "ok", "denied"}
             /\ r.phase = "ok" /\ r.op = "details" => r.data.who = r.who
             /\ app.at = "/tournament" =>
                  IF r.phase = "ok" THEN db'.cups[app.arg[1]] = Cupped(app.cup, r)
                  ELSE r.op # "tournament" => db'.cups[app.arg[1]] = app.cup
             /\ app.at \in {"/courses", "/course"} /\ r.phase = "ok" => r.data = Fitting(db', Filter(app))
      BY <2>1, <2>5
    <3> HIDE DEF r
    <3> QED
      BY <1>0, <2>3, <2>5, <2>6, <2>7, <2>9, <3>1, RephasedPages
  <2> QED
    BY <1>2, <2>8, <2>10, LikewisePages
<1>5. TableOK(db')
  <2>1. CupsAfter(db, q, After(db, q))
    BY <1>0, AfterCups
  <2>2. db' = db \/ db' = After(db, q)
    BY DEF Serve
  <2> QED
    BY <1>0, <2>1, <2>2 DEF CupsAfter
<1>6. CASE app' = [app EXCEPT !.net[i].phase = "denied"] /\ db' = db
  <2>1. calm => PagesOK(app', db', odd')
    BY <1>3, <1>6
  <2> QED
    BY <1>2, <1>5, <2>1 DEF OwnKept
<1>7. CASE Refuses(db, q) /\ app' = [app EXCEPT !.net[i].phase = "error"] /\ db' = db
  <2>1. q.op \notin Reads
    BY <1>7 DEF Refuses, Reads
  <2>2. calm => PagesOK(app', db', odd')
    BY <1>3, <1>7, <2>1
  <2> QED
    BY <1>2, <1>5, <2>2 DEF OwnKept
<1>8. CASE /\ db' = After(db, q)
           /\ \E data \in Answers(db', q) :
                app' = ToldOf([app EXCEPT !.net[i].phase = "ok", !.net[i].data = data], db, q)
  <2>1. calm => PagesOK(app', db', odd')
    BY <1>4, <1>8
  <2> QED
    BY <1>2, <1>5, <2>1 DEF OwnKept
<1> QED
  BY <1>6, <1>7, <1>8 DEF Serve

LEMMA LostPages ==
    ASSUME OwnInv, NEW i \in DOMAIN app.net, NEW phase \in {"error", "denied", "lost"}, Fail(i, phase)
    PROVE  OwnKept
<1>1. /\ app' = [app EXCEPT !.net[i].phase = phase] /\ odd' = odd \cup {"failed", phase}
      /\ db' = db /\ calm' = calm
  BY DEF Fail, Fails
<1>2. calm => PagesOK([app EXCEPT !.net[i].phase = phase], db, odd')
  BY <1>1, UnservedPages
<1> QED
  BY <1>1, <1>2, OwnFacts DEF OwnKept

\* The login page has nothing to show.
LEMMA LoggedOutPages ==
    ASSUME NEW b, NEW net, net = <<>>
    PROVE  \A o : PagesOK([Load(NoOne, "/login", <<>>) EXCEPT !.net = net], b, o)
<1> DEFINE c == Load(NoOne, "/login", <<>>)
           d == [c EXCEPT !.net = net]
<1>1. c = StartStore(NoOne, "/login", <<>>)
  <2> DEFINE s == StartStore(NoOne, "/login", <<>>)
  <2>1. s.user = NoOne /\ s.at = "/login"
    BY DEF StartStore
  <2> HIDE DEF s
  <2>2. Routed(s) = s
    BY <2>1 DEF Routed, Open
  <2>3. Fetches(s) = <<>>
    BY <2>1 DEF Fetches
  <2>4. Started(s, <<>>, Range(<<>>)) = s
    BY DEF Started, Runs
  <2> QED
    BY <2>2, <2>3, <2>4 DEF Load, s
<1>2. c.net = <<>>
  BY <1>1 DEF StartStore
<1>3. (\A o : PagesOK(c, b, o)) /\ IsTab(c)
  <2>1. "/login" = "/tournament" => <<>>[1] \in DOMAIN b.cups
    OBVIOUS
  <2> QED
    BY <2>1, LoadFresh
<1> HIDE DEF c
<1>4. Same(c, d) /\ d.net = c.net /\ (HasCups(d) <=> HasCups(c))
  BY <1>2, <1>3 DEF IsTab, TabFields, Same, HasCups
<1> HIDE DEF d
<1>5. \A o : PagesOK(d, b, o)
  BY <1>3, <1>4, AlikePages
<1> QED
  BY <1>5 DEF c, d

LEMMA AnsweredPages ==
    ASSUME OwnInv, NEW i \in DOMAIN app.net, Answer(i) PROVE OwnKept
<1> DEFINE q == app.net[i]
           c == [app EXCEPT !.net = RemoveAt(@, i)]
           denied == q.phase = "denied" /\ q.to # "nobody"
<1>0. IsTab(app) /\ ViewOK(app) /\ WellRouted(app) /\ TableOK(db)
      /\ (calm => PagesOK(app, db, odd)) /\ ("swap" \notin odd => app.user = app.saved)
  BY OwnFacts
<1>1. db' = db /\ q.phase # "sent"
  BY DEF Answer
<1>2. CASE denied
  <2>1. app' = [Load(NoOne, "/login", <<>>) EXCEPT !.net = Left(c)] /\ calm' = (Left(c) = <<>>)
    BY <1>2 DEF Answer, Unauthorized
  <2>2. calm' => PagesOK(app', db, odd')
    BY <2>1, LoggedOutPages
  <2> QED
    BY <1>0, <1>1, <2>2 DEF OwnKept
<1>3. CASE ~denied
  <2>1. calm' = calm /\ odd \subseteq odd'
    BY <1>3 DEF Answer
  <2> SUFFICES ASSUME calm PROVE PagesOK(app', db, odd')
    BY <1>0, <1>1, <2>1 DEF OwnKept
  <2>2. /\ q.to # "nobody"
        /\ q.phase = "ok" => PagesOK(Succeeded(c, q), db, odd)
        /\ q.phase \notin {"sent", "ok", "denied"} => PagesOK(Failed(c, q), db, odd)
    BY <1>0, AnswerPages
  <2>3. app' = IF q.phase = "ok" THEN Succeeded(c, q) ELSE Failed(c, q)
    BY <1>3, <2>2 DEF Answer
  <2> HIDE DEF c, q
  <2>4. PagesOK(app', db, odd)
    BY <1>1, <1>3, <2>2, <2>3
  <2> QED
    BY <2>1, <2>4, OddPages
<1> QED
  BY <1>2, <1>3

LEMMA NetworkPages ==
    ASSUME OwnInv, Network PROVE OwnKept
BY ServedPages, LostPages, AnsweredPages DEF Network

-----------------------------------------------------------------------------
(* What the pages show: steps of the world around.                           *)

\* A page whose effects are those it had has none to run.
LEMMA SameEffects ==
    ASSUME NEW c0, NEW c1, c1.at = c0.at, Fetches(c1) = Fetches(c0)
    PROVE  Render(c0, c1) = c1
<1>1. Range(Fetches(c0)) \ Range(Fetches(c1)) = {} /\ Range(Fetches(c1)) \ Range(Fetches(c0)) = {}
  BY Zenon
<1>2. \A fs : Cleaned(c1, fs, {}) = c1 /\ Started(c1, fs, {}) = c1
  BY DEF Cleaned, Ends, Started, Runs
<1>3. Render(c0, c1) = Started(Cleaned(c1, Fetches(c0), {}), Fetches(c1), {})
  BY <1>1, Zenon DEF Render
<1> QED
  BY <1>2, <1>3

\* The round of a tab is another one.
LEMMA RoundPages ==
    ASSUME NEW c, IsTab(c), ViewOK(c), WellRouted(c), NEW b, NEW o, PagesOK(c, b, o),
           NEW d, DOMAIN d = TabFields, SamePage(c, d), Likewise(c, d), d.details = c.details
    PROVE  PagesOK(Dispatch(c, d), b, o)
<1>1. CASE c.user # NoOne /\ c.at \in HomePages
  <2> DEFINE r == Dispatch(c, d)
  <2>1. /\ HomeReady(c, b, o)
        /\ o \cap {"failed", "swap"} = {} => RecentShown(c) /\ DetailsShown(c)
    BY <1>1, HomePagesOK
  <2>2. d.net = c.net /\ d.profile = c.profile /\ d.cups = c.cups /\ d.recent = c.recent /\ d.at = c.at
        /\ d.user = c.user
    BY DEF Likewise, Same
  <2>3. /\ HomeReady(r, b, o) /\ r.at = c.at
        /\ RecentShown(d) => RecentShown(r)
        /\ DetailsShown(d) => DetailsShown(r)
    BY <2>1, <2>2, HomeDispatch
  <2>4. (RecentShown(d) <=> RecentShown(c)) /\ (DetailsShown(d) <=> DetailsShown(c))
    BY <2>2 DEF RecentShown, DetailsShown, Asking
  <2> HIDE DEF r
  <2>5. IsTab(r) /\ ViewOK(r) /\ r.user # NoOne /\ r.at \in HomePages
    BY <2>3 DEF HomeReady
  <2> QED
    BY <2>1, <2>3, <2>4, <2>5, HomePagesOK DEF r
<1>2. CASE ~(c.user # NoOne /\ c.at \in HomePages)
  <2>1. c.at # "/rounds" /\ ~(c.at = "/" /\ c.user # NoOne)
    BY <1>2 DEF HomePages, WellRouted, Open
  <2>2. Fetches(d) = Fetches(c)
    BY <2>1 DEF Fetches, SamePage, Wizard
  <2>3. Routed(d) = d
    BY DEF Routed, SamePage, WellRouted
  <2>4. Dispatch(c, d) = d
    BY <2>2, <2>3, SameEffects DEF Dispatch, SamePage
  <2> QED
    BY <2>4, LikewisePages
<1> QED
  BY <1>1, <1>2

LEMMA HeardPages ==
    ASSUME OwnInv, Hear PROVE OwnKept
<1> DEFINE m == Head(app.inbox)
           c == [app EXCEPT !.inbox = Tail(@)]
           d == IF m.kind = "deleted" THEN onRoundDeleted(c, m.round.id)
                ELSE onRoundUpdated(c, m.round)
<1>0. IsTab(app) /\ ViewOK(app) /\ WellRouted(app) /\ TableOK(db)
      /\ (calm => PagesOK(app, db, odd))
  BY OwnFacts
<1>1. app' = Dispatch(c, d) /\ odd \subseteq odd' /\ db' = db /\ calm' = calm
  BY DEF Hear, Still
<1>2. IsTab(c) /\ ViewOK(c) /\ WellRouted(c) /\ Likewise(app, c)
  BY <1>0 DEF IsTab, TabFields, ViewOK, WellRouted, Likewise, Same, HasCups
<1> HIDE DEF c
<1>3. \A r : LET e == [c EXCEPT !.round = r]
             IN  DOMAIN e = TabFields /\ SamePage(c, e) /\ Likewise(c, e) /\ e.details = c.details
  BY <1>2 DEF IsTab, TabFields, SamePage, Likewise, Same, HasCups
<1>4. DOMAIN c = TabFields /\ SamePage(c, c) /\ Likewise(c, c) /\ c.details = c.details
  BY <1>2 DEF IsTab, SamePage, Likewise, Same
<1>5. DOMAIN d = TabFields /\ SamePage(c, d) /\ Likewise(c, d) /\ d.details = c.details
  BY <1>3, <1>4 DEF onRoundDeleted, onRoundUpdated
<1> HIDE DEF d
<1>6. calm => PagesOK(c, db, odd')
  BY <1>0, <1>1, <1>2, LikewisePages
<1>7. calm => PagesOK(app', db, odd')
  BY <1>1, <1>2, <1>5, <1>6, RoundPages
<1> QED
  BY <1>0, <1>1, <1>7 DEF OwnKept

LEMMA OthersPages ==
    ASSUME OwnInv, NEW v, Others(v) PROVE OwnKept
<1>0. IsTab(app) /\ StoreOK(db) /\ TableOK(db) /\ (calm => PagesOK(app, db, odd))
  BY OwnFacts
<1>1. calm' => calm
  BY DEF Others
<1>2. \/ \E by, kind, r : app' = Told(app, by, kind, r)
      \/ \E d, q : app' = ToldOf(app, d, q)
  BY DEF Others
<1>3. Likewise(app, app') /\ odd \subseteq odd'
  <2>1. odd \subseteq odd'
    BY DEF Others
  <2> QED
    BY <1>0, <1>2, <2>1, ToldLikewise
<1>4. db'.cups = db.cups /\ db'.layouts = db.layouts
  <2>1. CASE \E r : db' = [db EXCEPT !.rounds = Append(@, r)]
    BY <1>0, <2>1 DEF StoreOK
  <2>2. CASE \E op \in {"score", "complete", "delete"} : \E arg, w : db' = After(db, Request(op, arg, w))
    <3>1. PICK op \in {"score", "complete", "delete"} : \E arg, w : db' = After(db, Request(op, arg, w))
      BY <2>2
    <3>2. PICK arg, w : db' = After(db, Request(op, arg, w))
      BY <3>1
    <3> DEFINE q == Request(op, arg, w)
    <3>3. q.op = op
      BY DEF Request
    <3> HIDE DEF q
    <3>4. CupsAfter(db, q, After(db, q))
      BY <1>0, AfterCups
    <3> QED
      BY <3>2, <3>3, <3>4 DEF CupsAfter, CupOps, q
  <2> QED
    BY <2>1, <2>2 DEF Others
<1>5. TableOK(db')
  BY <1>0, <1>4 DEF TableOK
<1>6. calm => PagesOK(app', db', odd')
  BY <1>0, <1>3, <1>4, LikewisePages
<1> QED
  BY <1>1, <1>5, <1>6 DEF OwnKept

LEMMA WorldPages ==
    ASSUME OwnInv, Hear \/ LosePush \/ (\E v \in Users : Others(v)) \/ OtherTab PROVE OwnKept
<1>0. IsTab(app) /\ TableOK(db) /\ (calm => PagesOK(app, db, odd))
  BY OwnFacts
<1>1. CASE LosePush
  <2>1. /\ app' = [app EXCEPT !.inbox = Tail(@)]
        /\ odd \subseteq odd' /\ db' = db /\ calm' = calm
    BY <1>1 DEF LosePush, Fails
  <2>2. Likewise(app, app')
    BY <1>0, <2>1 DEF IsTab, TabFields, Likewise, Same, HasCups
  <2> QED
    BY <1>0, <2>1, <2>2, LikewisePages DEF OwnKept
<1>2. CASE OtherTab
  <2>1. PICK u : Does([app EXCEPT !.saved = u], {"swap"})
    BY <1>2 DEF OtherTab
  <2>2. /\ app' = [app EXCEPT !.saved = u] /\ db' = db /\ "swap" \in odd'
        /\ calm' => calm /\ app.net = <<>>
    BY <2>1 DEF Does, InFlight
  <2>3. ASSUME calm' PROVE Shows(app', db', odd') /\ app'.net = <<>>
    <3>1. Shows(app, db, odd)
      BY <1>0, <2>2, <2>3, QuietPages
    <3>2. \A f \in TabFields \ {"saved"} : app'[f] = app[f]
      BY <1>0, <2>2 DEF IsTab
    <3>3. /\ app'.net = app.net /\ app'.at = app.at /\ app'.user = app.user /\ app'.arg = app.arg
          /\ app'.profile = app.profile /\ app'.cups = app.cups /\ app'.cup = app.cup /\ app'.err = app.err
      BY <3>2 DEF TabFields
    <3>4. OwnProfile(app')
      BY <3>1, <3>3 DEF Shows, OwnProfile, OnlyOf, NoneOf, WhoseIs
    <3> QED
      BY <2>2, <2>3, <3>1, <3>3, <3>4 DEF Shows, HasCups
  <2>4. calm' => PagesOK(app', db', odd')
    BY <2>3, QuietPages
  <2> QED
    BY <1>0, <2>2, <2>4 DEF OwnKept
<1> QED
  BY <1>1, <1>2, HeardPages, OthersPages

-----------------------------------------------------------------------------
(* What the pages show: what a person does.                                  *)

\* Somebody who waits for the answers does something.
LEMMA DoesOwn ==
    ASSUME OwnInv, NEW c, calm /\ app.net = <<>> => PagesOK(c, db, odd)
    PROVE  (\A what : Does(c, what) => OwnKept) /\ (Acts(c) => OwnKept)
<1>1. ASSUME NEW what, Does(c, what) PROVE OwnKept
  <2>1. app' = c /\ db' = db /\ odd \subseteq odd' /\ (calm' => calm /\ app.net = <<>>)
    BY <1>1 DEF Does, InFlight
  <2>2. calm' => PagesOK(app', db', odd')
    BY <2>1, OddPages
  <2> QED
    BY <2>1, <2>2, OwnFacts DEF OwnKept
<1> QED
  BY <1>1 DEF Acts

LEMMA QuietFacts ==
    ASSUME OwnInv, calm, app.net = <<>>
    PROVE  /\ PagesOK(app, db, odd) /\ Shows(app, db, odd)
           /\ OwnProfile(app) /\ app.cups \subseteq DOMAIN db.cups
<1>1. PagesOK(app, db, odd)
  BY OwnFacts
<1>2. Shows(app, db, odd)
  BY <1>1, QuietPages
<1> QED
  BY <1>1, <1>2 DEF Shows

\* A page with nothing under way asks for something.
LEMMA GrownPages ==
    ASSUME NEW c, IsTab(c), c.net = <<>>, NEW d, Grows(c, d), NEW b, NEW o,
           \/ Shows(c, b, o)
           \/ c.at = "/courses" /\ OwnProfile(c) /\ c.cups \subseteq DOMAIN b.cups /\ d.net # <<>>,
           ~Many(c) => Len(d.net) \in {0, 1},
           HasCups(d) <=> HasCups(c)
    PROVE  PagesOK(d, b, o)
<1>1. Same(c, d) /\ IsTab(d)
  BY DEF Grows
<1>2. DOMAIN c.net = {}
  OBVIOUS
<1>3. \A i \in DOMAIN d.net : Proper(c, d.net[i]) /\ d.net[i].phase = "sent"
  BY <1>2 DEF Grows
<1>4. Batch(d)
  <2>1. \A i \in DOMAIN d.net : Proper(d, d.net[i])
    BY <1>1, <1>3, SameProper
  <2>2. ~Many(d) => Len(d.net) <= 1
    <3>1. Many(d) <=> Many(c)
      BY <1>1, SameProper
    <3> DEFINE m == Len(d.net)
    <3>2. ~Many(d) => m \in {0, 1}
      BY <3>1
    <3> HIDE DEF m
    <3>3. ~Many(d) => m <= 1
      BY <3>2
    <3> QED
      BY <3>3 DEF m
  <2> QED
    BY <2>1, <2>2 DEF Batch
<1>5. OwnProfile(d)
  <2>1. OwnProfile(c)
    BY DEF Shows
  <2> QED
    BY <1>1, <2>1 DEF Same, OwnProfile, OnlyOf, NoneOf, WhoseIs
<1>6. Oks(d) = {}
  BY <1>3 DEF Oks
<1>7. OwnCup(d, b)
  BY <1>1, <1>6 DEF OwnCup, Same, Shows
<1>8. ASSUME o \cap {"failed", "swap"} = {} PROVE Stored(d, b)
  <2>1. CupStored(d, b)
    BY <1>1, <1>3, <1>8 DEF CupStored, Same, Shows
  <2>2. ListsStored(d, b)
    BY <1>1, <1>6, <1>8 DEF ListsStored, Same, Shows, Filter
  <2>3. HomeStored(d)
    BY <1>1, <1>6, <1>8 DEF HomeStored, Same, Shows
  <2> QED
    BY <1>3, <2>1, <2>2, <2>3 DEF Stored
<1> QED
  BY <1>4, <1>5, <1>7, <1>8 DEF PagesOK

\* The person asks for something that fits the page.
LEMMA AskPages ==
    ASSUME NEW c, IsTab(c), ViewOK(c), c.net = <<>>, NEW b, NEW o, Shows(c, b, o),
           NEW op, NEW arg, Proper(c, Request(op, arg, c.saved))
    PROVE  PagesOK(Asks(c, op, arg), b, o) /\ PagesOK(Starts(c, op, arg), b, o)
<1> DEFINE d == Asks(c, op, arg)
           e == Starts(c, op, arg)
<1>1. Len(c.net) = 0
  OBVIOUS
<1>2. Grows(c, d) /\ Len(d.net) = Len(c.net) + 1 /\ d.err = c.err
  BY AskingGrows
<1>3. Grows(c, e) /\ Len(e.net) = Len(c.net) + 1 /\ (HasCups(e) <=> HasCups(c))
  BY ViewGrows
<1> HIDE DEF d, e
<1>4. Len(d.net) \in {0, 1} /\ Len(e.net) \in {0, 1} /\ (HasCups(d) <=> HasCups(c))
  BY <1>1, <1>2, <1>3 DEF HasCups
<1>5. PagesOK(d, b, o) /\ PagesOK(e, b, o)
  BY <1>2, <1>3, <1>4, GrownPages
<1> QED
  BY <1>5 DEF d, e

LEMMA AskOwn ==
    ASSUME OwnInv, NEW op, NEW arg, Proper(app, Request(op, arg, app.saved))
    PROVE  /\ \A what : Does(Asks(app, op, arg), what) => OwnKept
           /\ Acts(Asks(app, op, arg)) => OwnKept
           /\ Acts(Starts(app, op, arg)) => OwnKept
<1>1. calm /\ app.net = <<>> =>
        PagesOK(Asks(app, op, arg), db, odd) /\ PagesOK(Starts(app, op, arg), db, odd)
  BY QuietFacts, OwnFacts, AskPages
<1> QED
  BY <1>1, DoesOwn

\* The pages that show the same whatever their address says.
PlainPages == {"/", "/feed", "/leaders", "/courses", "/tournaments", "/profile"}

LEMMA GoPages ==
    ASSUME OwnInv, NEW at, NEW arg, Go(at, arg), Meant(app, at),
           at # app.at \/ at \in PlainPages,
           at = "/tournament" /\ app.cups \subseteq DOMAIN db.cups => arg[1] \in DOMAIN db.cups
    PROVE  OwnKept
<1>0. IsTab(app) /\ ViewOK(app) /\ WellRouted(app)
  BY OwnFacts
<1>1. ASSUME calm, app.net = <<>> PROVE PagesOK(Push(app, at, arg), db, odd)
  <2>1. Shows(app, db, odd) /\ OwnProfile(app) /\ app.cups \subseteq DOMAIN db.cups
    BY <1>1, QuietFacts
  <2>2. CASE at # app.at
    <3>1. at = "/tournament" => arg[1] \in DOMAIN db.cups
      BY <2>1
    <3> QED
      BY <1>0, <1>1, <2>1, <2>2, <3>1, PushFresh
  <2>3. CASE at = app.at
    <3> DEFINE d == [app EXCEPT !.arg = arg]
    <3>1. \A f \in TabFields \ {"arg"} : d[f] = app[f]
      BY <1>0 DEF IsTab
    <3> HIDE DEF d
    <3>2. /\ d.net = app.net /\ d.at = app.at /\ d.user = app.user /\ d.saved = app.saved
          /\ d.profile = app.profile /\ d.cups = app.cups /\ d.cup = app.cup /\ d.err = app.err
          /\ d.courses = app.courses /\ d.recent = app.recent /\ d.details = app.details
          /\ d.view = app.view /\ d.round = app.round
      BY <3>1 DEF TabFields
    <3>3. Routed(d) = d
      BY <1>0, <3>2 DEF Routed, WellRouted
    <3>4. Fetches(d) = Fetches(app)
      BY <2>3, <3>2 DEF Fetches, Landing, Wizard, PlainPages
    <3>5. Push(app, at, arg) = d
      <4>1. Render(app, d) = d
        BY <3>2, <3>4, SameEffects
      <4> QED
        BY <2>3, <3>3, <4>1 DEF Push, Dispatch, d
    <3>6. OwnProfile(d)
      BY <2>1, <2>3, <3>2 DEF OwnProfile, OnlyOf, NoneOf, WhoseIs, PlainPages
    <3>7. Filter(d) = Filter(app)
      BY <2>3, <3>2 DEF Filter, PlainPages
    <3>8. Shows(d, db, odd)
      BY <2>1, <2>3, <3>2, <3>6, <3>7 DEF Shows, PlainPages
    <3> QED
      BY <1>1, <3>2, <3>5, <3>8, QuietPages
  <2> QED
    BY <2>2, <2>3
<1> QED
  BY <1>1, DoesOwn DEF Go

\* A choice on a page.
LocalViews == {"/feed", "/leaders", "/new-round", "/courses", "/tournament"}

LEMMA LocalPages ==
    ASSUME NEW c, IsTab(c), ViewOK(c), WellRouted(c), c.net = <<>>, c.user # NoOne,
           c.at \in LocalViews, NEW b, NEW o, Shows(c, b, o),
           NEW view, DOMAIN view = ViewFields, view.step \in {"course", "players", "confirm"}
    PROVE  PagesOK(Local(c, view), b, o)
<1> DEFINE s    == [c EXCEPT !.view = view]
           new  == Range(Fetches(s)) \ Range(Fetches(c))
           over == Range(Fetches(c)) \ Range(Fetches(s))
           e    == Cleaned(s, Fetches(c), over)
           r    == Started(e, Fetches(s), new)
<1>1. \A f \in TabFields \ {"view"} : s[f] = c[f]
  BY DEF IsTab
<1>2. DOMAIN s = TabFields /\ s.view = view
  BY DEF IsTab, TabFields
<1> HIDE DEF s
<1>3. /\ s.net = <<>> /\ s.at = c.at /\ s.user = c.user /\ s.saved = c.saved /\ s.arg = c.arg
      /\ s.profile = c.profile /\ s.cups = c.cups /\ s.cup = c.cup /\ s.err = c.err
      /\ s.courses = c.courses /\ s.recent = c.recent /\ s.details = c.details /\ s.net = c.net
  BY <1>1 DEF TabFields
<1>4. IsTab(s) /\ ViewOK(s) /\ WellRouted(s) /\ Routed(s) = s
  BY <1>2, <1>3 DEF IsTab, ViewOK, WellRouted, Routed
<1>5. Local(c, view) = r
  <2>1. Local(c, view) = Render(c, s)
    BY <1>4 DEF Local, Dispatch, s
  <2> QED
    BY <1>3, <2>1 DEF Render
<1>6. /\ c.at \notin HomePages \cup ProfilePages \cup {"/tournaments", "/course", "/"}
      /\ ~Many(c) /\ NoneOf(c)
  BY DEF HomePages, ProfilePages, Many, LocalViews, Shows, OwnProfile
<1>7. Swept(s, e) /\ IsTab(e) /\ e.profile = s.profile
  <2>1. \A n \in DOMAIN Fetches(c) : Fetches(c)[n].op # "profile"
    BY <1>6, FetchesBelong
  <2> QED
    BY <1>3, <1>4, <2>1, CleanedSweeps
<1>8. PageEffects(s, Fetches(s))
  BY <1>4, FetchesAre
<1>9. PageEffects(e, Fetches(s)) /\ ViewOK(e)
  BY <1>4, <1>7, <1>8, PageEffectsSame DEF Swept, ViewOK, SamePage
<1> HIDE DEF e
<1>10. /\ e.net = <<>> /\ e.at = c.at /\ e.user = c.user /\ e.saved = c.saved /\ e.arg = c.arg
       /\ e.profile = c.profile /\ e.cups = c.cups /\ e.cup = c.cup /\ (HasCups(e) <=> HasCups(c))
       /\ e.courses = c.courses /\ e.recent = c.recent /\ e.details = c.details /\ e.view = view
  BY <1>2, <1>3, <1>7 DEF Swept, SamePage, HasCups
<1>11. c.at = "/tournament" =>
         /\ Fetches(s)[1] = Fetch("tournament", c.arg) /\ Fetches(s)[1] \notin new
         /\ \A n \in DOMAIN Fetches(s) : Fetches(s)[n] \in new => Fetches(s)[n].op = "courses"
  <2> SUFFICES ASSUME c.at = "/tournament"
               PROVE  /\ Fetches(s)[1] = Fetch("tournament", c.arg) /\ Fetches(s)[1] \notin new
                      /\ \A n \in DOMAIN Fetches(s) : Fetches(s)[n] \in new => Fetches(s)[n].op = "courses"
    OBVIOUS
  <2> DEFINE t == Fetch("tournament", c.arg)
  <2>1. Fetches(s) = Maybe(t, s.view.ask # 0, Fetch("courses", <<s.view.ask>>))
    BY <1>3 DEF Fetches
  <2>2. Fetches(c) = Maybe(t, c.view.ask # 0, Fetch("courses", <<c.view.ask>>))
    BY DEF Fetches
  <2>3. \A f, g, test : Maybe(f, test, g)[1] = f /\ 1 \in DOMAIN Maybe(f, test, g)
                        /\ \A n \in DOMAIN Maybe(f, test, g) : n # 1 => Maybe(f, test, g)[n] = g
    BY DEF Maybe
  <2>4. Fetch("courses", <<s.view.ask>>).op = "courses"
    BY DEF Fetch
  <2> HIDE DEF t
  <2>5. t \in Range(Fetches(c))
    <3>1. \A fs : 1 \in DOMAIN fs => fs[1] \in Range(fs)
      BY DEF Range
    <3> QED
      BY <2>2, <2>3, <3>1
  <2> QED
    BY <2>1, <2>3, <2>4, <2>5 DEF t
<1> HIDE DEF new
<1>12. 2 \notin DOMAIN Fetches(s) \/ Fetches(s)[1] \notin new
  BY <1>3, <1>6, <1>8, <1>11 DEF PageEffects, HomePages
<1>13. \A n \in DOMAIN Fetches(s) : Fetches(s)[n] \in new => Fetches(s)[n].op \notin {"tournament", "tournaments"}
  <2>1. \A n \in DOMAIN Fetches(s) : Belongs(s, Fetches(s)[n])
    BY <1>8 DEF PageEffects
  <2> QED
    BY <1>3, <1>6, <1>11, <2>1 DEF Belongs
<1>14. /\ Grows(e, r) /\ Len(r.net) \in {Len(e.net), Len(e.net) + 1}
       /\ (HasCups(r) <=> HasCups(e))
       /\ \A n \in DOMAIN Fetches(s) : Fetches(s)[n] \in new =>
            (Fetches(s)[n].op \in {"courses", "tournaments", "tournament"} => Asking(r, Fetches(s)[n].op))
  BY <1>6, <1>7, <1>9, <1>10, <1>12, <1>13, StartedGrows
<1> HIDE DEF r
<1>15. Len(r.net) \in {0, 1}
  <2>1. Len(e.net) = 0
    BY <1>10
  <2> QED
    BY <1>14, <2>1
<1>16. ~Many(e) /\ NoneOf(e) /\ OwnProfile(e) /\ e.cups \subseteq DOMAIN b.cups
  BY <1>6, <1>10 DEF Many, NoneOf, OwnProfile, Shows
<1>17. CASE c.at # "/courses" \/ view.ask = c.view.ask
  <2>1. Filter(e) = Filter(c) \/ c.at \notin {"/courses", "/course"}
    BY <1>6, <1>10, <1>17 DEF Filter
  <2>2. Shows(e, b, o)
    BY <1>6, <1>10, <1>16, <2>1 DEF Shows
  <2> QED
    BY <1>5, <1>7, <1>10, <1>14, <1>15, <2>2, GrownPages
<1>18. CASE c.at = "/courses" /\ view.ask # c.view.ask
  <2>1. Fetches(s) = <<Fetch("courses", <<view.ask>>)>> /\ Fetches(c) = <<Fetch("courses", <<c.view.ask>>)>>
    BY <1>2, <1>3, <1>18 DEF Fetches
  <2>2. Fetch("courses", <<view.ask>>) # Fetch("courses", <<c.view.ask>>)
    <3>1. <<view.ask>>[1] = view.ask /\ <<c.view.ask>>[1] = c.view.ask
      OBVIOUS
    <3>2. Fetch("courses", <<view.ask>>).arg = <<view.ask>> /\ Fetch("courses", <<c.view.ask>>).arg = <<c.view.ask>>
      BY DEF Fetch
    <3> QED
      BY <1>18, <3>1, <3>2
  <2>3. \A f : Range(<<f>>) = {f} /\ 1 \in DOMAIN <<f>> /\ <<f>>[1] = f
    BY DEF Range
  <2>4. 1 \in DOMAIN Fetches(s) /\ Fetches(s)[1] \in new /\ Fetches(s)[1].op = "courses"
    BY <2>1, <2>2, <2>3 DEF new, Fetch
  <2>5. Asking(r, "courses")
    BY <1>14, <2>4
  <2>6. r.net # <<>>
    BY <2>5 DEF Asking
  <2> QED
    BY <1>5, <1>7, <1>10, <1>14, <1>15, <1>16, <1>18, <2>6, GrownPages
<1> QED
  BY <1>17, <1>18

LEMMA LocalOwn ==
    ASSUME OwnInv, At(LocalViews), NEW view, DOMAIN view = ViewFields,
           view.step \in {"course", "players", "confirm"}
    PROVE  (\A what : Does(Local(app, view), what) => OwnKept) /\ (Acts(Local(app, view)) => OwnKept)
<1>1. ASSUME calm, app.net = <<>> PROVE PagesOK(Local(app, view), db, odd)
  BY <1>1, OwnFacts, QuietFacts, LocalPages DEF At
<1> QED
  BY <1>1, DoesOwn

LEMMA ChooseOwn ==
    ASSUME OwnInv, At(LocalViews), NEW ask, Choose(ask) PROVE OwnKept
<1> DEFINE view == [app.view EXCEPT !.ask = ask]
<1>1. DOMAIN view = ViewFields /\ view.step \in {"course", "players", "confirm"}
  BY OwnFacts DEF ViewOK, ViewFields
<1> HIDE DEF view
<1>2. Acts(Local(app, view)) => OwnKept
  BY <1>1, LocalOwn
<1> QED
  BY <1>2 DEF Choose, view

\* Logging out leaves a page for nobody.
LEMMA LogoutPages ==
    ASSUME NEW c, IsTab(c), ViewOK(c), WellRouted(c), c.net = <<>>, c.user # NoOne,
           NEW b, NEW o, Shows(c, b, o)
    PROVE  PagesOK(Dispatch(c, logout(c)), b, o)
<1> DEFINE d == logout(c)
<1>1. \A f \in TabFields \ {"saved", "user", "details", "loginError"} : d[f] = c[f]
  BY DEF IsTab, logout
<1>2. DOMAIN d = TabFields /\ d.user = NoOne
  BY DEF IsTab, TabFields, logout
<1> HIDE DEF d
<1>3. /\ d.net = <<>> /\ d.net = c.net /\ d.at = c.at /\ d.profile = c.profile /\ d.cups = c.cups
      /\ d.view = c.view
  BY <1>1 DEF TabFields
<1>4. IsTab(d)
  BY <1>2, <1>3 DEF IsTab
<1>5. OwnProfile(c) /\ c.cups \subseteq DOMAIN b.cups
  BY DEF Shows
<1>6. CASE c.at = "/"
  <2> DEFINE over == Range(Fetches(c)) \ Range(Fetches(d))
             e == Cleaned(d, Fetches(c), over)
  <2>1. Fetches(d) = <<>>
    BY <1>2, <1>3, <1>6 DEF Fetches
  <2>2. Routed(d) = d
    BY <1>2, <1>3, <1>6 DEF Routed, Open
  <2>3. Dispatch(c, d) = e
    <3>1. \A x, new : Started(x, <<>>, new) = x
      BY DEF Started, Runs
    <3>2. Render(c, d) = Started(e, Fetches(d), Range(Fetches(d)) \ Range(Fetches(c)))
      BY <1>3 DEF Render
    <3> QED
      BY <2>1, <2>2, <3>1, <3>2 DEF Dispatch
  <2>4. Swept(d, e)
    BY <1>3, <1>4, CleanedSweeps
  <2> HIDE DEF e
  <2>5. e.net = <<>> /\ e.at = "/" /\ e.user = NoOne /\ e.cups = c.cups
    BY <1>2, <1>3, <1>6, <2>4 DEF Swept, SamePage
  <2>6. NoneOf(e)
    BY <1>3, <1>5, <1>6, <2>4 DEF Swept, NoneOf, OwnProfile, ProfilePages
  <2>7. Shows(e, b, o)
    BY <1>5, <2>5, <2>6 DEF Shows, OwnProfile, ProfilePages
  <2> QED
    BY <2>3, <2>5, <2>7, QuietPages DEF d
<1>7. CASE c.at # "/"
  <2> DEFINE e == Opened(d, "/login", <<>>)
  <2>1. c.at \notin Open
    BY <1>7 DEF WellRouted, Open
  <2>2. Routed(d) = e
    BY <1>2, <1>3, <2>1 DEF Routed
  <2>3. IsTab(e) /\ ViewOK(e) /\ e.net = <<>> /\ e.at = "/login"
    BY <1>3, <1>4, OpenedIs
  <2>4. e.user = NoOne /\ e.profile = c.profile /\ e.cups = c.cups /\ e.view.ask = 0
    BY <1>2, <1>3 DEF Opened, TabFields, Fresh
  <2> HIDE DEF e
  <2>5. WellRouted(e) /\ e.at # c.at /\ e.at # "/tournament"
    BY <2>1, <2>3, <2>4 DEF WellRouted, Open
  <2>6. c.at \notin ProfilePages => NoneOf(e)
    BY <1>5, <2>4 DEF OwnProfile, NoneOf
  <2>7. PagesOK(Render(c, e), b, o)
    BY <1>5, <2>3, <2>4, <2>5, <2>6, OpensFresh
  <2> QED
    BY <2>2, <2>7 DEF Dispatch, d
<1> QED
  BY <1>6, <1>7

\* Logging in is asked for on the login page, or on that of new users.
LEMMA LoginPages ==
    ASSUME NEW c, IsTab(c), ViewOK(c), c.net = <<>>, c.at \in {"/login", "/register"},
           NEW b, NEW o, Shows(c, b, o),
           NEW op \in {"login", "register"}, NEW arg, arg[1] # NoOne
    PROVE  PagesOK(Asks([c EXCEPT !.loginError = FALSE], op, arg), b, o)
<1> DEFINE d == [c EXCEPT !.loginError = FALSE]
           q == Request(op, arg, d.saved)
<1>1. Likewise(c, d) /\ DOMAIN d = TabFields /\ d.view = c.view
  BY DEF IsTab, TabFields, Likewise, Same, HasCups
<1> HIDE DEF d
<1>2. IsTab(d) /\ ViewOK(d) /\ d.net = <<>> /\ d.at = c.at
  BY <1>1 DEF IsTab, ViewOK, Likewise, Same
<1>3. Shows(d, b, o)
  BY <1>1, <1>2, QuietPages, LikewisePages
<1>4. q.op = op /\ q.arg = arg /\ q.who = d.saved /\ q.to = "page"
  BY DEF Request
<1> HIDE DEF q
<1>5. Proper(d, q)
  <2>1. q.op \in PageAsks(d.at)
    BY <1>2, <1>4 DEF PageAsks, HomePages, ProfilePages
  <2> QED
    BY <1>2, <1>4, <2>1 DEF Proper, ProfileAsks, CupAsks
<1> QED
  BY <1>2, <1>3, <1>5, AskPages DEF d, q

LEMMA AccountPages ==
    ASSUME OwnInv, AppHeader \/ Login \/ Register PROVE OwnKept
<1>0. IsTab(app) /\ ViewOK(app) /\ WellRouted(app)
  BY OwnFacts
<1>1. CASE AppHeader
  <2>1. app.user # NoOne /\ app.at # "/login"
    BY <1>0, <1>1 DEF AppHeader, At, Dashboard
  <2>2. CASE Go("/profile", <<>>)
    BY <2>1, <2>2, GoPages DEF Meant, PlainPages
  <2>3. CASE \E what : Does(Dispatch(app, logout(app)), what)
    <3>1. calm /\ app.net = <<>> => PagesOK(Dispatch(app, logout(app)), db, odd)
      BY <1>0, <2>1, QuietFacts, LogoutPages
    <3> QED
      BY <2>3, <3>1, DoesOwn
  <2> QED
    BY <1>1, <2>2, <2>3 DEF AppHeader
<1>2. CASE Login \/ Register
  <2>1. app.at \in {"/login", "/register"} /\ app.user = NoOne
    BY <1>0, <1>2 DEF Login, Register, WellRouted
  <2>2. ASSUME Go("/register", <<>>), app.at = "/login" PROVE OwnKept
    BY <2>1, <2>2, GoPages DEF Meant, Open
  <2>3. ASSUME Go("/login", <<>>), app.at = "/register" PROVE OwnKept
    BY <2>1, <2>3, GoPages DEF Meant, Open
  <2>4. ASSUME NEW op \in {"login", "register"}, NEW arg, arg[1] # NoOne, NEW what,
               Does(Asks([app EXCEPT !.loginError = FALSE], op, arg), what)
        PROVE  OwnKept
    <3> DEFINE d == Asks([app EXCEPT !.loginError = FALSE], op, arg)
    <3>1. calm /\ app.net = <<>> => PagesOK(d, db, odd)
      BY <1>0, <2>1, <2>4, QuietFacts, LoginPages
    <3> HIDE DEF d
    <3>2. Does(d, what) => OwnKept
      BY <3>1, DoesOwn
    <3> QED
      BY <2>4, <3>2 DEF d
  <2>5. \A u \in Users : u # NoOne
    BY NoOneAssumption
  <2>6. ASSUME NEW u \in Users, NEW right, NEW what, Does(login(app, u, right), what) PROVE OwnKept
    <3>1. <<u, right>>[1] # NoOne
      BY <2>5
    <3> QED
      BY <2>4, <2>6, <3>1 DEF login
  <2>7. ASSUME NEW u \in Users, NEW what, Does(register(app, u), what) PROVE OwnKept
    <3>1. <<u>>[1] # NoOne
      BY <2>5
    <3> QED
      BY <2>4, <2>7, <3>1 DEF register
  <2> QED
    BY <1>2, <2>2, <2>3, <2>6, <2>7 DEF Login, Register
<1> QED
  BY <1>1, <1>2

\* The page is loaded again, or another one from its address.
LEMMA LoadPagePages ==
    ASSUME OwnInv, LoadPage PROVE OwnKept
<1>1. PICK at, arg : /\ arg \in Addresses(at)
                     /\ app' = [Load(app.saved, at, arg) EXCEPT !.net = Left(app) \o @]
  BY DEF LoadPage
<1>2. db' = db /\ calm' = (Left(app) = <<>>)
  BY DEF LoadPage
<1> DEFINE c == Load(app.saved, at, arg)
<1>3. at = "/tournament" => arg[1] \in DOMAIN db.cups
  BY <1>1 DEF Addresses
<1>4. (\A o : PagesOK(c, db, o)) /\ IsTab(c)
  BY <1>3, LoadFresh
<1>5. app' = [c EXCEPT !.net = Left(app) \o @]
  BY <1>1
<1> HIDE DEF c
<1>6. ASSUME calm' PROVE PagesOK(app', db', odd')
  <2>1. <<>> \o c.net = c.net
    <3> DEFINE s == c.net
               S == {s[i] : i \in 1..Len(s)}
    <3>1. IsSequence(s)
      BY <1>4 DEF IsTab, IsNet
    <3> HIDE DEF s
    <3>2. s \in Seq(S)
      BY <3>1, SequenceIsSeq
    <3> HIDE DEF S
    <3> QED
      BY <3>2, ConcatEmptySeq DEF s
  <2>2. app' = [c EXCEPT !.net = c.net]
    BY <1>2, <1>5, <1>6, <2>1
  <2>3. Likewise(c, app')
    BY <1>4, <2>2 DEF IsTab, TabFields, Likewise, Same, HasCups
  <2> QED
    BY <1>2, <1>4, <2>3, LikewisePages
<1> QED
  BY <1>2, <1>6, OwnFacts DEF OwnKept

LEMMA FeedPages ==
    ASSUME OwnInv, FeedPage \/ LoadMore \/ RetryFeed PROVE OwnKept
<1>0. IsTab(app) /\ ViewOK(app) /\ WellRouted(app) /\ app.user # NoOne /\ app.at = "/feed"
  BY OwnFacts DEF FeedPage, LoadMore, RetryFeed, At
<1>1. CASE FeedPage
  <2>1. ASSUME NEW id, Acts(handleLike(app, id)) PROVE OwnKept
    <3> DEFINE d == Liked(app, id, app.user)
               q == Request("like", <<id, app.user>>, d.saved)
    <3>1. Likewise(app, d) /\ DOMAIN d = TabFields /\ ViewOK(d)
      <4>1. \A v : LET e == [app EXCEPT !.view.items = v]
                   IN  Likewise(app, e) /\ DOMAIN e = TabFields /\ ViewOK(e)
        BY <1>0 DEF IsTab, TabFields, ViewOK, ViewFields, Likewise, Same, HasCups
      <4> QED
        BY <4>1 DEF Liked
    <3>2. handleLike(app, id) = Asks(d, "like", <<id, app.user>>)
      BY DEF handleLike
    <3> HIDE DEF d
    <3>3. Proper(d, q)
      BY <1>0, <3>1 DEF Proper, Request, Likewise, Same, PageAsks, HomePages, ProfilePages, ProfileAsks, CupAsks
    <3>4. ASSUME calm, app.net = <<>> PROVE PagesOK(handleLike(app, id), db, odd)
      <4>1. IsTab(d) /\ d.net = <<>>
        BY <1>0, <3>1, <3>4 DEF IsTab, Likewise
      <4>2. Shows(d, db, odd)
        BY <3>1, <3>4, <4>1, QuietFacts, QuietPages, LikewisePages
      <4> QED
        BY <3>1, <3>2, <3>3, <4>1, <4>2, AskPages
    <3> QED
      BY <2>1, <3>4, DoesOwn
  <2>2. ASSUME NEW id, Go("/rounds", <<id>>) PROVE OwnKept
    BY <1>0, <2>2, GoPages DEF Meant
  <2> QED
    BY <1>1, <2>1, <2>2 DEF FeedPage
<1>2. CASE LoadMore
  <2> DEFINE view == [app.view EXCEPT !.page = @ + 1]
  <2>1. DOMAIN view = ViewFields /\ view.step \in {"course", "players", "confirm"}
    BY <1>0 DEF ViewOK, ViewFields
  <2>2. PICK what : Does(Local(app, view), what)
    BY <1>2 DEF LoadMore
  <2> HIDE DEF view
  <2> QED
    BY <1>0, <2>1, <2>2, LocalOwn DEF At, LocalViews
<1>3. CASE RetryFeed
  <2> DEFINE s == [app EXCEPT !.view.loaded = {}, !.view.page = 1]
             d == fetchPage(s, 1)
             t == [s EXCEPT !.view.loaded = @ \cup {1}]
             q == Request("feed", <<1>>, t.saved)
  <2>1. /\ Likewise(app, t) /\ DOMAIN t = TabFields /\ ViewOK(t)
        /\ s.view.loaded = {} /\ t.view.page = 1 /\ t.view.loaded = {1}
    BY <1>0 DEF IsTab, TabFields, ViewOK, ViewFields, Likewise, Same, HasCups
  <2>2. d = Waits(t, "feed", <<1>>)
    BY <2>1 DEF fetchPage
  <2>3. IsTab(t) /\ t.at = "/feed" /\ t.user # NoOne /\ t.net = app.net /\ t.user = app.user
    BY <1>0, <2>1 DEF IsTab, Likewise, Same
  <2> HIDE DEF s, t
  <2>4. Proper(t, q)
    BY <2>3 DEF Proper, Request, PageAsks, HomePages, ProfilePages, ProfileAsks, CupAsks
  <2>5. Grows(t, d) /\ Len(d.net) = Len(t.net) + 1 /\ (HasCups(d) <=> HasCups(t))
    BY <2>1, <2>2, <2>3, <2>4, ViewGrows
  <2>6. d.at = "/feed" /\ d.user # NoOne /\ d.view.page = 1 /\ d.view.loaded = {1}
    <3>1. d.at = "/feed" /\ d.user # NoOne
      BY <2>3, <2>5 DEF Grows, Same
    <3>2. d.view.page = t.view.page /\ d.view.loaded = t.view.loaded
      <4> DEFINE w == [t EXCEPT !.view.busy = TRUE, !.view.failed = FALSE]
      <4>1. IsTab(w) /\ w.view.page = t.view.page /\ w.view.loaded = t.view.loaded
        BY <2>1, <2>3 DEF IsTab, TabFields, ViewOK, ViewFields
      <4>2. d = Asks(w, "feed", <<1>>)
        BY <2>2 DEF Waits
      <4> HIDE DEF w, d
      <4>3. d.view = w.view
        BY <4>1, <4>2, AskingAppends DEF TabFields
      <4> QED
        BY <4>1, <4>3
    <3> QED
      BY <2>1, <3>1, <3>2
  <2>7. app' = Dispatch(app, d) /\ Acts(Dispatch(app, d))
    BY <1>3 DEF RetryFeed, Acts, Does, s
  <2> HIDE DEF d
  <2>8. Dispatch(app, d) = d
    <3>1. Routed(d) = d
      BY <2>6 DEF Routed
    <3>2. fetchPage(d, d.view.page) = d
      BY <2>6 DEF fetchPage
    <3> QED
      BY <1>0, <2>6, <3>1, <3>2, RenderTurned, RenderFeed DEF Dispatch
  <2>9. ASSUME calm, app.net = <<>> PROVE PagesOK(d, db, odd)
    <3>1. t.net = <<>> /\ Len(t.net) = 0
      BY <2>3, <2>9
    <3>2. Shows(t, db, odd)
      BY <2>1, <2>9, <3>1, QuietFacts, QuietPages, LikewisePages
    <3>3. Len(d.net) \in {0, 1}
      BY <2>5, <3>1
    <3> QED
      BY <2>3, <2>5, <3>1, <3>2, <3>3, GrownPages
  <2> QED
    BY <2>7, <2>8, <2>9, DoesOwn
<1> QED
  BY <1>1, <1>2, <1>3

LEMMA RoundsPages ==
    ASSUME OwnInv,
           BottomNav \/ LoggedOutLanding \/ LoggedInLanding \/ RoundPage \/ RoundMenu \/ RoundSummary
    PROVE  OwnKept
<1>1. CASE BottomNav
  BY <1>1, GoPages DEF BottomNav, At, Meant, PlainPages
<1>2. CASE LoggedOutLanding
  BY <1>2, GoPages DEF LoggedOutLanding, Meant, Open
<1>3. CASE LoggedInLanding \/ RoundSummary
  BY <1>3, GoPages DEF LoggedInLanding, RoundSummary, RoundIsShown, At, Meant
<1>4. CASE RoundPage \/ RoundMenu
  <2>1. app.user # NoOne /\ app.at \in HomePages
    BY <1>4 DEF RoundPage, RoundMenu, RoundIsShown, At, HomePages
  <2>2. ASSUME NEW op \in RoundAsks \ {"recent"}, NEW arg
        PROVE  /\ \A what : Does(Asks(app, op, arg), what) => OwnKept
               /\ Acts(Asks(app, op, arg)) => OwnKept
    BY <2>1, RoundProper, AskOwn
  <2> QED
    BY <1>4, <2>2 DEF RoundPage, RoundMenu, RoundAsks, setScore, fetchRoundStats, completeRound,
                      skipHole, leaveRound, deleteRound
<1> QED
  BY <1>1, <1>2, <1>3, <1>4

LEMMA ProfilePagePages ==
    ASSUME OwnInv, ProfilePage PROVE OwnKept
<1>0. /\ IsTab(app) /\ ViewOK(app) /\ app.user # NoOne /\ app.at \in ProfilePages
      /\ Whose = WhoseIs(app) /\ Many(app)
  BY OwnFacts DEF ProfilePage, At, ProfilePages, Whose, WhoseIs, Many
<1>1. ASSUME NEW c, c.at = app.at, c.user = app.user, c.saved = app.saved, c.arg = app.arg,
             NEW op \in ProfileAsks, NEW arg, arg[1] = Whose
      PROVE  Proper(c, Request(op, arg, c.saved))
  <2>1. op \in PageAsks(c.at)
    BY <1>0, <1>1 DEF PageAsks, HomePages, ProfilePages
  <2> QED
    BY <1>0, <1>1, <2>1 DEF Proper, Request, WhoseIs, ProfileAsks, CupAsks
<1>2. ASSUME NEW page, Acts(fetchRounds(app, Whose, page)) PROVE OwnKept
  <2>1. <<Whose, page>>[1] = Whose
    OBVIOUS
  <2>2. Proper(app, Request("rounds", <<Whose, page>>, app.saved))
    BY <1>1, <2>1 DEF ProfileAsks
  <2> QED
    BY <1>2, <2>2, AskOwn DEF fetchRounds
<1>3. ASSUME Acts(ProfileOf(app, Whose)) PROVE OwnKept
  <2> DEFINE u == Whose
             c == Loads(app, "profile", "profile", <<u>>)
             d == Asks(c, "achievements", <<u>>)
             e == Asks(d, "rounds", <<u, 1>>)
  <2>1. ProfileOf(app, Whose) = e
    BY DEF ProfileOf, fetchProfile, fetchAchievements, fetchRounds
  <2>2. <<u>>[1] = u /\ <<u, 1>>[1] = u
    OBVIOUS
  <2> HIDE DEF u
  <2>3. Proper(app, Request("profile", <<u>>, app.saved))
    BY <1>1, <2>2 DEF u, ProfileAsks
  <2>4. Grows(app, c) /\ (HasCups(c) <=> HasCups(app))
    BY <1>0, <2>3, LoadingGrows
  <2> HIDE DEF c
  <2>5. IsTab(c) /\ c.at = app.at /\ c.user = app.user /\ c.saved = app.saved /\ c.arg = app.arg
    BY <2>4 DEF Grows, Same
  <2>6. Proper(c, Request("achievements", <<u>>, c.saved))
    BY <1>1, <2>2, <2>5 DEF u, ProfileAsks
  <2>7. Grows(c, d) /\ d.err = c.err
    BY <2>5, <2>6, AskingGrows
  <2> HIDE DEF d
  <2>8. IsTab(d) /\ d.at = app.at /\ d.user = app.user /\ d.saved = app.saved /\ d.arg = app.arg
    BY <2>5, <2>7 DEF Grows, Same
  <2>9. Proper(d, Request("rounds", <<u, 1>>, d.saved))
    BY <1>1, <2>2, <2>8 DEF u, ProfileAsks
  <2>10. Grows(d, e) /\ e.err = d.err
    BY <2>8, <2>9, AskingGrows
  <2> HIDE DEF e
  <2>11. Grows(app, e) /\ (HasCups(e) <=> HasCups(app))
    BY <2>4, <2>7, <2>10, GrowsTransitive DEF HasCups
  <2>12. calm /\ app.net = <<>> => PagesOK(e, db, odd)
    BY <1>0, <2>11, QuietFacts, GrownPages
  <2> QED
    BY <1>3, <2>1, <2>12, DoesOwn
<1>4. ASSUME NEW id, Go("/rounds", <<id>>) PROVE OwnKept
  BY <1>0, <1>4, GoPages DEF Meant, ProfilePages
<1> QED
  BY <1>2, <1>3, <1>4 DEF ProfilePage

\* The pages where something is chosen.
LEMMA ChoicePages ==
    ASSUME OwnInv, LeadersPage \/ CoursesPage \/ CourseStep \/ PlayersStep \/ ConfirmStep PROVE OwnKept
<1>0. ViewOK(app)
  BY OwnFacts
<1>1. app.user # NoOne /\ app.at \in {"/leaders", "/courses", "/new-round"} /\ At(LocalViews)
  BY DEF LeadersPage, CoursesPage, CourseStep, PlayersStep, ConfirmStep, At, LocalViews
<1>2. ASSUME NEW view, DOMAIN view = ViewFields, view.step = app.view.step, Acts(Local(app, view))
      PROVE  OwnKept
  BY <1>0, <1>1, <1>2, LocalOwn DEF ViewOK
<1>3. \A page, layout, players :
         LET v == [app.view EXCEPT !.page = page]
             w == [app.view EXCEPT !.layout = layout]
             x == [app.view EXCEPT !.players = players]
         IN  /\ DOMAIN v = ViewFields /\ v.step = app.view.step
             /\ DOMAIN w = ViewFields /\ w.step = app.view.step
             /\ DOMAIN x = ViewFields /\ x.step = app.view.step
  BY <1>0 DEF ViewOK, ViewFields
<1>4. ASSUME NEW step \in {"course", "players", "confirm"}, Acts(Step(step)) PROVE OwnKept
  <2> DEFINE view == [app.view EXCEPT !.step = step, !.ask = 0, !.got = -1, !.busy = FALSE, !.failed = FALSE]
  <2>1. DOMAIN view = ViewFields /\ view.step = step
    BY <1>0 DEF ViewOK, ViewFields
  <2>2. Acts(Local(app, view))
    BY <1>4 DEF Step
  <2> HIDE DEF view
  <2> QED
    BY <1>1, <2>1, <2>2, LocalOwn
<1>5. ASSUME NEW ask, Choose(ask) PROVE OwnKept
  BY <1>1, <1>5, ChooseOwn
<1>6. ASSUME NEW at \in {"/course", "/new-course", "/"}, at # app.at, NEW arg, Go(at, arg) PROVE OwnKept
  BY <1>1, <1>6, GoPages DEF Meant
<1>7. CASE LeadersPage
  <2>1. ASSUME NEW page, Acts(Local(app, [app.view EXCEPT !.page = page])) PROVE OwnKept
    <3> DEFINE v == [app.view EXCEPT !.page = page]
    <3>1. DOMAIN v = ViewFields /\ v.step = app.view.step
      BY <1>3
    <3>2. Acts(Local(app, v))
      BY <2>1
    <3> HIDE DEF v
    <3> QED
      BY <1>2, <3>1, <3>2
  <2> QED
    BY <1>5, <1>7, <2>1 DEF LeadersPage
<1>8. CASE CoursesPage
  BY <1>5, <1>6, <1>8 DEF CoursesPage, At
<1>9. CASE CourseStep
  <2>1. ASSUME NEW l, Acts(Local(app, [app.view EXCEPT !.layout = l])) PROVE OwnKept
    <3> DEFINE v == [app.view EXCEPT !.layout = l]
    <3>1. DOMAIN v = ViewFields /\ v.step = app.view.step
      BY <1>3
    <3>2. Acts(Local(app, v))
      BY <2>1
    <3> HIDE DEF v
    <3> QED
      BY <1>2, <3>1, <3>2
  <2> QED
    BY <1>4, <1>5, <1>6, <1>9, <2>1 DEF CourseStep, At
<1>10. CASE PlayersStep
  <2>1. ASSUME NEW u, Acts(Local(app, [app.view EXCEPT !.players = Toggled(@, u)])) PROVE OwnKept
    <3> DEFINE v == [app.view EXCEPT !.players = Toggled(@, u)]
    <3>1. DOMAIN v = ViewFields /\ v.step = app.view.step
      BY <1>3
    <3>2. Acts(Local(app, v))
      BY <2>1
    <3> HIDE DEF v
    <3> QED
      BY <1>2, <3>1, <3>2
  <2> QED
    BY <1>4, <1>5, <1>10, <2>1 DEF PlayersStep
<1>11. CASE ConfirmStep
  <2>1. ASSUME NEW arg, Acts(Starts(app, "createRound", arg)) PROVE OwnKept
    <3>1. app.at = "/new-round"
      BY <1>11 DEF ConfirmStep, At
    <3>2. Proper(app, Request("createRound", arg, app.saved))
      BY <1>1, <3>1 DEF Proper, Request, PageAsks, HomePages, ProfilePages, ProfileAsks, CupAsks
    <3> QED
      BY <2>1, <3>2, AskOwn
  <2> QED
    BY <1>4, <1>11, <2>1 DEF ConfirmStep
<1> QED
  BY <1>7, <1>8, <1>9, <1>10, <1>11

\* The pages of a course and of the tournaments.
LEMMA CupPages ==
    ASSUME OwnInv,
           CourseDetailPage \/ CreateCoursePage \/ TournamentsPage \/ CreateTournamentPage
             \/ TournamentDetailPage \/ AdminOfTournament
    PROVE  OwnKept
<1>0. app.user # NoOne
  BY DEF CourseDetailPage, CreateCoursePage, TournamentsPage, CreateTournamentPage,
         TournamentDetailPage, AdminOfTournament, CupIsShown, At
<1>1. CASE CourseDetailPage
  BY <1>0, <1>1, GoPages DEF CourseDetailPage, At, Meant
<1>2. CASE CreateCoursePage
  <2>1. PICK n : Acts(Starts(app, "createCourse", <<n>>)) /\ app.at = "/new-course"
    BY <1>2 DEF CreateCoursePage, createCourse, At
  <2>2. Proper(app, Request("createCourse", <<n>>, app.saved))
    BY <1>0, <2>1 DEF Proper, Request, PageAsks, HomePages, ProfilePages, ProfileAsks, CupAsks
  <2> QED
    BY <2>1, <2>2, AskOwn
<1>3. CASE TournamentsPage
  <2>1. app.at = "/tournaments"
    BY <1>3 DEF TournamentsPage, At
  <2>2. ASSUME NEW id \in app.cups, Go("/tournament", <<id>>) PROVE OwnKept
    <3>1. "/tournament" = "/tournament" /\ app.cups \subseteq DOMAIN db.cups => <<id>>[1] \in DOMAIN db.cups
      BY <2>2
    <3> QED
      BY <1>0, <2>1, <2>2, <3>1, GoPages DEF Meant
  <2>3. ASSUME Go("/new-tournament", <<>>) PROVE OwnKept
    BY <1>0, <2>1, <2>3, GoPages DEF Meant
  <2> QED
    BY <1>3, <2>2, <2>3 DEF TournamentsPage
<1>4. CASE CreateTournamentPage
  <2>1. Acts(Starts(app, "createTournament", <<>>)) /\ app.at = "/new-tournament"
    BY <1>4 DEF CreateTournamentPage, createTournament, At
  <2>2. Proper(app, Request("createTournament", <<>>, app.saved))
    BY <1>0, <2>1 DEF Proper, Request, PageAsks, HomePages, ProfilePages, ProfileAsks, CupAsks
  <2> QED
    BY <2>1, <2>2, AskOwn
<1>5. CASE TournamentDetailPage \/ AdminOfTournament
  <2>1. app.at = "/tournament" /\ At(LocalViews)
    BY <1>5 DEF TournamentDetailPage, AdminOfTournament, CupIsShown, At, LocalViews
  <2>2. ASSUME NEW op \in CupOps, NEW arg, arg[1] = app.arg[1], op = "join" => arg[2] = app.user,
               Acts(Asks(app, op, arg))
        PROVE  OwnKept
    <3>1. op \in PageAsks(app.at)
      BY <2>1 DEF PageAsks, HomePages, ProfilePages, CupAsks, CupOps
    <3>2. Proper(app, Request(op, arg, app.saved))
      BY <1>0, <2>1, <2>2, <3>1 DEF Proper, Request, ProfileAsks, CupAsks, CupOps
    <3> QED
      BY <2>2, <3>2, AskOwn
  <2>3. ASSUME NEW at \in {"/users", "/course"}, NEW arg, Go(at, arg) PROVE OwnKept
    BY <1>0, <2>1, <2>3, GoPages DEF Meant
  <2>4. ASSUME NEW ask, Choose(ask) PROVE OwnKept
    BY <2>1, <2>4, ChooseOwn
  <2>5. ASSUME Acts(joinTournament(app, app.arg[1])) PROVE OwnKept
    <3>1. <<app.arg[1], app.user>>[1] = app.arg[1] /\ <<app.arg[1], app.user>>[2] = app.user
      OBVIOUS
    <3> QED
      BY <2>2, <2>5, <3>1 DEF joinTournament, CupOps
  <2>6. ASSUME NEW l, Acts(addCourse(app, app.arg[1], l)) PROVE OwnKept
    <3>1. <<app.arg[1], l>>[1] = app.arg[1]
      OBVIOUS
    <3> QED
      BY <2>2, <2>6, <3>1 DEF addCourse, CupOps
  <2>7. ASSUME Acts(calculatePrices(app, app.arg[1])) PROVE OwnKept
    <3>1. <<app.arg[1]>>[1] = app.arg[1]
      OBVIOUS
    <3> QED
      BY <2>2, <2>7, <3>1 DEF calculatePrices, CupOps
  <2> QED
    BY <1>5, <2>3, <2>4, <2>5, <2>6, <2>7 DEF TournamentDetailPage, AdminOfTournament
<1> QED
  BY <1>1, <1>2, <1>3, <1>4, <1>5

LEMMA PersonPages ==
    ASSUME OwnInv, Person PROVE OwnKept
BY FeedPages, RoundsPages, AccountPages, LoadPagePages, ProfilePagePages, ChoicePages, CupPages DEF Person

LEMMA OwnInitially == Init => OwnInv
<1> SUFFICES ASSUME Init PROVE OwnInv
  OBVIOUS
<1>1. FeedInv
  BY FeedInitially
<1>2. PICK u \in Users : db.cups = <<NewCup(1, u)>>
  BY DEF Init
<1>3. TableOK(db)
  <2> DEFINE cup == NewCup(1, u)
  <2>1. cup.id = 1
    BY DEF NewCup
  <2> HIDE DEF cup
  <2>2. IsSequence(<<cup>>) /\ DOMAIN <<cup>> = {1} /\ <<cup>>[1] = cup
    BY DEF IsSequence
  <2> QED
    BY <1>2, <2>1, <2>2 DEF TableOK, cup
<1>4. PICK arg \in Addresses(visit.from) : \E who : app = Load(who, visit.from, arg)
  BY DEF Init
<1>5. PICK who : app = Load(who, visit.from, arg)
  BY <1>4
<1>6. visit.from = "/tournament" => arg[1] \in DOMAIN db.cups
  BY <1>4 DEF Addresses
<1>7. PagesOK(app, db, odd)
  BY <1>4, <1>5, <1>6, LoadFresh
<1> QED
  BY <1>1, <1>3, <1>7 DEF OwnInv

LEMMA OwnAlways == OwnInv /\ [Next]_vars => OwnInv'
<1> SUFFICES ASSUME OwnInv, [Next]_vars PROVE OwnInv'
  OBVIOUS
<1>1. FeedInv'
  BY FeedAlways DEF OwnInv
<1>2. CASE UNCHANGED vars
  <2>1. app' = app /\ db' = db /\ odd' = odd /\ calm' = calm
    BY <1>2 DEF vars
  <2>2. TableOK(db') /\ (calm' => PagesOK(app', db', odd'))
    BY <2>1, OwnFacts
  <2> QED
    BY <1>1, <2>2 DEF OwnInv
<1>3. CASE Next
  <2>1. OwnKept
    BY <1>3, NetworkPages, PersonPages, WorldPages DEF Next
  <2> QED
    BY <1>1, <2>1 DEF OwnInv, OwnKept
<1> QED
  BY <1>2, <1>3

\* Nobody sees the profile of somebody else, and once all answers are in the
\* other pages show what their address says and the server has, whatever was
\* answered in whatever order (userProfileStore.ts clear, tournamentStore.ts,
\* courseStore.ts, Landing.tsx). Whatever is under way fits the page that is
\* open, one request at most on the pages of the courses and tournaments; what
\* is not shown yet is on its way; and a page leaves no profile behind.
THEOREM PagesAreTheirOwn == Spec => []PagesShowTheirOwn
<1>1. OwnInv => PagesShowTheirOwn
  <2> SUFFICES ASSUME OwnInv, Settled PROVE PagesShowTheirOwn
    BY DEF PagesShowTheirOwn
  <2>1. Shows(app, db, odd)
    <3>1. calm /\ app.net = <<>>
      BY DEF Settled, InFlight
    <3> QED
      BY <3>1, QuietFacts
  <2>2. At({"/profile", "/users"}) =>
          /\ {app.profile.who, app.profile.achievements} \subseteq {NoOne, Whose}
          /\ app.profile.rounds # <<>> => app.profile.rounds[1] = Whose
    BY <2>1 DEF At, Shows, OwnProfile, OnlyOf, ProfilePages, WhoseIs, Whose
  <2>3. At({"/tournament"}) /\ "cups" \notin app.err => app.cup.id = app.arg[1]
    BY <2>1 DEF At, Shows, HasCups
  <2>4. odd \cap {"failed", "swap"} = {} =>
          /\ At({"/tournament"})  => app.cup = db.cups[app.arg[1]]
          /\ At({"/tournaments"}) => app.cups = DOMAIN db.cups
          /\ At({"/courses"})     => app.courses = Fitting(db, app.view.ask)
          /\ At({"/course"})      => app.courses = Fitting(db, app.arg[1])
          /\ At({"/"})            => app.recent = app.user /\ app.details.who = app.user
    BY <2>1 DEF At, Shows, Filter
  <2> QED
    BY <2>2, <2>3, <2>4 DEF PagesShowTheirOwn
<1> QED
  BY <1>1, OwnInitially, OwnAlways, PTL DEF Spec
=============================================================================
