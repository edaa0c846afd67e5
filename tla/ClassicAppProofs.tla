-------------------------- MODULE ClassicAppProofs --------------------------
(***************************************************************************)
(* Proofs about ClassicApp, for any number of people, whatever they do on  *)
(* the pages, and whatever answers fail or come late.                      *)
(***************************************************************************)
EXTENDS ClassicApp, SequenceTheorems, FiniteSetTheorems, TLAPS

ClientFields == {"loggedIn", "user", "failed", "details", "profiles", "searched", "feed",
                 "shown", "courses", "cup", "notes", "alarms", "logouts", "hub", "saved",
                 "net", "at", "arg", "view"}
RequestFields == {"op", "arg", "who", "phase", "data", "page"}

\* A sequence of whatever.
IsSequence(s) == Len(s) \in Nat /\ s = [i \in 1..Len(s) |-> s[i]]

LEMMA SequenceIsSeq ==
    ASSUME NEW s, IsSequence(s), NEW S, \A i \in 1..Len(s) : s[i] \in S
    PROVE  s \in Seq(S) /\ DOMAIN s = 1..Len(s)
<1>1. DOMAIN s = 1..Len(s) /\ s \in [1..Len(s) -> S]
  BY DEF IsSequence
<1> QED
  BY <1>1, SeqDef DEF IsSequence

LEMMA SeqIsSequence ==
    ASSUME NEW S, NEW s \in Seq(S)
    PROVE  IsSequence(s) /\ DOMAIN s = 1..Len(s) /\ Len(s) \in Nat
BY LenProperties DEF IsSequence

LEMMA FunctionIsSequence ==
    ASSUME NEW n \in Nat, NEW s, DOMAIN s = 1..n, s = [i \in 1..n |-> s[i]]
    PROVE  IsSequence(s) /\ Len(s) = n
<1> DEFINE S == {s[i] : i \in 1..n}
<1>1. s \in [1..n -> S]
  OBVIOUS
<1> HIDE DEF S
<1>2. s \in Seq(S)
  BY <1>1, SeqDef
<1>3. IsSequence(s) /\ DOMAIN s = 1..Len(s) /\ Len(s) \in Nat
  BY <1>2, SeqIsSequence
<1>4. Len(s) = n
  BY <1>1, <1>2, LenProperties
<1> QED
  BY <1>3, <1>4

LEMMA AppendToSequence ==
    ASSUME NEW s, IsSequence(s), NEW e
    PROVE  /\ IsSequence(Append(s, e))
           /\ DOMAIN s = 1..Len(s)
           /\ DOMAIN Append(s, e) = 1..(Len(s) + 1)
           /\ \A i \in 1..Len(s) : Append(s, e)[i] = s[i]
           /\ Append(s, e)[Len(s) + 1] = e
<1> DEFINE S == {s[i] : i \in 1..Len(s)} \cup {e}
<1>1. s \in Seq(S) /\ e \in S /\ DOMAIN s = 1..Len(s)
  BY SequenceIsSeq
<1> HIDE DEF S
<1>2. Append(s, e) \in Seq(S)
  BY <1>1, AppendProperties
<1>3. IsSequence(Append(s, e))
  BY <1>2, SeqIsSequence
<1> QED
  BY <1>1, <1>3, AppendProperties DEF IsSequence

LEMMA RemoveFromSequence ==
    ASSUME NEW s, IsSequence(s), NEW n \in DOMAIN s
    PROVE  /\ IsSequence(RemoveAt(s, n))
           /\ DOMAIN RemoveAt(s, n) = 1..(Len(s) - 1)
           /\ \A i \in 1..(Len(s) - 1) :
                RemoveAt(s, n)[i] = IF i < n THEN s[i] ELSE s[i + 1]
<1> DEFINE S == {s[i] : i \in 1..Len(s)}
<1>1. s \in Seq(S) /\ DOMAIN s = 1..Len(s) /\ Len(s) \in Nat /\ n \in 1..Len(s)
  BY SequenceIsSeq DEF IsSequence
<1> HIDE DEF S
<1> DEFINE a == SubSeq(s, 1, n - 1)
           b == SubSeq(s, n + 1, Len(s))
<1>2. a \in Seq(S) /\ Len(a) = n - 1 /\ \A i \in 1..(n - 1) : a[i] = s[i]
  BY <1>1, SubSeqProperties
<1>3. b \in Seq(S) /\ Len(b) = Len(s) - n /\ \A i \in 1..(Len(s) - n) : b[i] = s[n + i]
  BY <1>1, SubSeqProperties
<1>4. RemoveAt(s, n) = a \o b
  BY DEF RemoveAt
<1> HIDE DEF a, b
<1>5. /\ a \o b \in Seq(S) /\ Len(a \o b) = Len(s) - 1
      /\ \A i \in 1..(Len(s) - 1) : (a \o b)[i] = IF i < n THEN s[i] ELSE s[i + 1]
  <2>1. /\ a \o b \in Seq(S) /\ Len(a \o b) = Len(a) + Len(b)
        /\ \A i \in 1..(Len(a) + Len(b)) :
              (a \o b)[i] = IF i <= Len(a) THEN a[i] ELSE b[i - Len(a)]
    BY <1>2, <1>3, ConcatProperties
  <2>2. ASSUME NEW i \in 1..(Len(s) - 1), ~(i < n)
        PROVE  (a \o b)[i] = s[i + 1]
    <3>1. i - Len(a) \in 1..(Len(s) - n) /\ n + (i - Len(a)) = i + 1
      BY <1>1, <1>2, <2>2
    <3>2. i \in 1..(Len(a) + Len(b)) /\ ~(i <= Len(a))
      BY <1>1, <1>2, <1>3, <2>2
    <3>3. (a \o b)[i] = b[i - Len(a)]
      BY <2>1, <3>2
    <3>4. b[i - Len(a)] = s[n + (i - Len(a))]
      BY <1>3, <3>1
    <3> QED
      BY <3>1, <3>3, <3>4
  <2> QED
    BY <1>1, <1>2, <1>3, <2>1, <2>2
<1>6. IsSequence(a \o b) /\ DOMAIN (a \o b) = 1..(Len(s) - 1)
  BY <1>5, SeqIsSequence
<1> QED
  BY <1>4, <1>5, <1>6

LEMMA ConcatSequences ==
    ASSUME NEW m, IsSequence(m), NEW n, IsSequence(n)
    PROVE  /\ IsSequence(m \o n)
           /\ \A i \in DOMAIN (m \o n) :
                \/ i \in DOMAIN m /\ (m \o n)[i] = m[i]
                \/ i \notin DOMAIN m /\ \E j \in DOMAIN n : (m \o n)[i] = n[j]
           /\ \A j \in DOMAIN n : \E i \in DOMAIN (m \o n) : (m \o n)[i] = n[j]
<1> DEFINE S == {m[i] : i \in 1..Len(m)} \cup {n[i] : i \in 1..Len(n)}
<1>1. m \in Seq(S) /\ n \in Seq(S) /\ DOMAIN m = 1..Len(m) /\ DOMAIN n = 1..Len(n)
  BY SequenceIsSeq
<1> HIDE DEF S
<1>2. Len(m) \in Nat /\ Len(n) \in Nat
  BY DEF IsSequence
<1>3. /\ m \o n \in Seq(S) /\ Len(m \o n) = Len(m) + Len(n)
      /\ \A i \in 1..(Len(m) + Len(n)) :
            (m \o n)[i] = IF i <= Len(m) THEN m[i] ELSE n[i - Len(m)]
  BY <1>1, ConcatProperties
<1>4. IsSequence(m \o n) /\ DOMAIN (m \o n) = 1..(Len(m) + Len(n))
  BY <1>3, SeqIsSequence
<1>5. ASSUME NEW i \in DOMAIN (m \o n)
      PROVE  \/ i \in DOMAIN m /\ (m \o n)[i] = m[i]
             \/ i \notin DOMAIN m /\ \E j \in DOMAIN n : (m \o n)[i] = n[j]
  <2>0. i \in 1..(Len(m) + Len(n))
    BY <1>4
  <2>1. CASE i <= Len(m)
    BY <1>1, <1>2, <1>3, <2>0, <2>1
  <2>2. CASE ~(i <= Len(m))
    <3>1. i - Len(m) \in DOMAIN n /\ i \notin DOMAIN m
      BY <1>1, <1>2, <2>0, <2>2
    <3>2. (m \o n)[i] = n[i - Len(m)]
      BY <1>3, <2>0, <2>2
    <3> QED
      BY <3>1, <3>2
  <2> QED
    BY <2>1, <2>2
<1>6. ASSUME NEW j \in DOMAIN n PROVE \E i \in DOMAIN (m \o n) : (m \o n)[i] = n[j]
  <2>1. /\ Len(m) + j \in 1..(Len(m) + Len(n)) /\ ~(Len(m) + j <= Len(m))
        /\ Len(m) + j - Len(m) = j
    BY <1>1, <1>2
  <2> QED
    BY <1>3, <1>4, <2>1
<1> QED
  BY <1>4, <1>5, <1>6

\* The members of a sequence that are picked, each from its place.
PickedFrom(s, S, p) ==
    /\ IsSequence(p)
    /\ \E f \in [DOMAIN p -> S] :
         /\ \A n \in DOMAIN p : p[n] = s[f[n]]
         /\ \A m, n \in DOMAIN p : f[m] = f[n] => m = n
         /\ \A i \in S : \E n \in DOMAIN p : f[n] = i

LEMMA PickedMembers ==
    ASSUME NEW s, IsSequence(s), NEW S \in SUBSET DOMAIN s
    PROVE  PickedFrom(s, S, Picked(s, S))
<1> DEFINE UpTo(i) == {j \in S : j <= i}
           rank == [i \in S |-> Cardinality(UpTo(i))]
           K == Cardinality(S)
           f == [n \in 1..K |-> CHOOSE i \in S : Cardinality(UpTo(i)) = n]
<1>1. S \subseteq Nat /\ IsFiniteSet(S) /\ K \in Nat
  <2>1. DOMAIN s = 1..Len(s) /\ Len(s) \in Nat
    BY DEF IsSequence
  <2>2. IsFiniteSet(1..Len(s))
    BY <2>1, FS_Interval
  <2>3. IsFiniteSet(S)
    BY <2>1, <2>2, FS_Subset
  <2> QED
    BY <2>1, <2>3, FS_CardinalityType
<1>2. ASSUME NEW i \in S PROVE IsFiniteSet(UpTo(i)) /\ Cardinality(UpTo(i)) \in 1..K
  <2>1. UpTo(i) \in SUBSET S /\ i \in UpTo(i)
    BY <1>1
  <2> HIDE DEF UpTo
  <2>2. IsFiniteSet(UpTo(i)) /\ Cardinality(UpTo(i)) <= K
    BY <1>1, <2>1, FS_Subset
  <2>3. Cardinality(UpTo(i)) \in Nat /\ Cardinality(UpTo(i)) # 0
    BY <2>1, <2>2, FS_CardinalityType, FS_EmptySet
  <2> QED
    BY <1>1, <2>2, <2>3
<1>3. ASSUME NEW i \in S, NEW j \in S, i < j PROVE Cardinality(UpTo(i)) # Cardinality(UpTo(j))
  <2>1. UpTo(i) \in SUBSET UpTo(j) /\ j \in UpTo(j) /\ j \notin UpTo(i)
    BY <1>1, <1>3
  <2> HIDE DEF UpTo
  <2> QED
    BY <1>2, <2>1, FS_Subset
<1> HIDE DEF UpTo
<1>4. rank \in Injection(S, 1..K)
  <2>1. rank \in [S -> 1..K]
    BY <1>2
  <2>2. ASSUME NEW i \in S, NEW j \in S, rank[i] = rank[j] PROVE i = j
    BY <1>1, <1>3, <2>2
  <2> QED
    BY <2>1, <2>2 DEF Injection, IsInjective
<1>5. IsFiniteSet(1..K) /\ Cardinality(1..K) = K
  BY <1>1, FS_Interval
<1>6. rank \in Surjection(S, 1..K)
  BY <1>4, <1>5, FS_Injection
<1>7. ASSUME NEW n \in 1..K PROVE f[n] \in S /\ Cardinality(UpTo(f[n])) = n
  <2>1. \E i \in S : rank[i] = n
    BY <1>6 DEF Surjection
  <2> QED
    BY <2>1
<1>8. Picked(s, S) = [n \in 1..K |-> s[f[n]]]
  BY DEF Picked, UpTo
<1>9. IsSequence(Picked(s, S)) /\ DOMAIN Picked(s, S) = 1..K
  BY <1>1, <1>8, FunctionIsSequence
<1>10. \A m, n \in 1..K : f[m] = f[n] => m = n
  BY <1>7
<1>11. ASSUME NEW i \in S PROVE \E n \in 1..K : f[n] = i
  <2>1. rank[i] \in 1..K
    BY <1>2
  <2>2. f[rank[i]] \in S /\ Cardinality(UpTo(f[rank[i]])) = rank[i]
    BY <1>7, <2>1
  <2>3. f[rank[i]] = i
    BY <1>1, <1>3, <2>2
  <2> QED
    BY <2>1, <2>3
<1>12. f \in [1..K -> S]
  BY <1>7
<1> HIDE DEF f
<1> QED
  BY <1>8, <1>9, <1>10, <1>11, <1>12 DEF PickedFrom

-----------------------------------------------------------------------------
(* One client.                                                               *)

Single(a) == a = <<a[1]>>
Couple(a) == a = <<a[1], a[2]>>

\* What is asked for without anybody's doing: queries, which change nothing on the
\* server.
FetchOps == {"feed", "rounds", "stats", "achievements", "tournaments", "yearSummary",
             "previousYear", "leaderboard", "courses", "tournament"}
Background == FetchOps \cup {"details", "moreDetails"}

\* The answers after which the browser goes to another page.
Turning == {"login", "createUser", "setPassword", "createTournament"}
CupOps  == {"tournament", "addCourse", "addPlayer", "calculatePrices"}
Requests == Background \cup Turning \cup CupOps \cup
            {"set", "changeEmail", "addFriend", "searchUsers", "toggleLike", "createCourse",
             "updateCourse", "forgotPassword", "changePassword"}

\* Who logs in or signs up is somebody who may have an account.
IsRequest(r) ==
    /\ DOMAIN r = RequestFields /\ r.op \in Requests
    /\ r.op \in {"login", "createUser"} => r.arg[1] \in Users
IsNet(net) == IsSequence(net) /\ \A i \in DOMAIN net : IsRequest(net[i])
\* What the addresses of the pages name.
ArgOK(c) ==
    /\ c.at = "/year" => Couple(c.arg)
    /\ c.at = "/tournament" => Single(c.arg)
    /\ c.at = "/courses" => c.arg = <<>> \/ Single(c.arg) \/ Couple(c.arg)
IsUser(c) ==
    /\ c.loggedIn \in BOOLEAN /\ c.user \in Users \cup {NoOne}
    /\ c.loggedIn => c.user # NoOne
\* What a client is as far as the proofs need it.
IsClient(c) ==
    /\ DOMAIN c = ClientFields /\ IsNet(c.net) /\ IsUser(c) /\ ArgOK(c)
    /\ DOMAIN c.shown = DOMAIN NothingShown
    /\ DOMAIN c.feed = DOMAIN NoFeed
    /\ DOMAIN c.view = DOMAIN Fresh /\ c.view.tab \in 1..5

\* A request of the person who uses c, for their details or somebody's country,
\* or one of F.
Asked(c, r, F) ==
    /\ r = Request(r.op, r.arg, c.user) /\ r.op \in Background
    /\ c.user # NoOne /\ (c.loggedIn \/ r.op = "previousYear")
    /\ r.op \in {"details", "moreDetails"} \/ Fetch(r.op, r.arg) \in F
\* d has the requests of c, and others.
Extends(c, d, F) ==
    /\ DOMAIN c.net \subseteq DOMAIN d.net
    /\ \A i \in DOMAIN c.net : d.net[i] = c.net[i]
    /\ \A i \in DOMAIN d.net \ DOMAIN c.net : Asked(c, d.net[i], F)
\* Of the feed it has one at most.
OnceTheFeed(c, d) ==
    \A i, j \in DOMAIN d.net \ DOMAIN c.net :
        d.net[i].op = "feed" /\ d.net[j].op = "feed" => i = j
\* What the effects of a page leave alone.
Same(c, d) ==
    /\ d.loggedIn = c.loggedIn /\ d.user = c.user /\ d.failed = c.failed
    /\ d.details = c.details /\ d.courses = c.courses /\ d.cup = c.cup
    /\ d.logouts = c.logouts /\ d.hub = c.hub /\ d.saved = c.saved
    /\ d.at = c.at /\ d.arg = c.arg /\ d.view = c.view
\* What they do to the rest.
ShowsLess(c, d, F) ==
    \A op \in DOMAIN NothingShown :
        \/ d.shown[op] = c.shown[op]
        \/ /\ op = "previousYear" /\ d.shown[op] = <<>>
           /\ Fetch(op, <<>>) \in F \/ ~c.loggedIn
\* d is c after effects that ask for members of F.
Grows(c, d, F) ==
    /\ IsClient(d) /\ Same(c, d) /\ Extends(c, d, F) /\ ShowsLess(c, d, F)
    /\ OnceTheFeed(c, d) /\ d.feed \in {c.feed, NoFeed}
    /\ Fetch("feed", << 1 >>) \notin F => d.feed = c.feed
NoFeedIn(F) == \A f \in F : f.op # "feed"
\* A request for f is new in d, or there is nothing to ask for; the first page of
\* the feed is asked for onto nothing.
Makes(c, d, f) ==
    \/ /\ \E i \in DOMAIN d.net \ DOMAIN c.net : d.net[i].op = f.op /\ d.net[i].arg = f.arg
       /\ f = Fetch("feed", << 1 >>) => ~d.feed.loaded
    \/ f.op = "previousYear" /\ f.arg = <<>> /\ d.shown.previousYear = <<>>

LEMMA GrowsTransitive ==
    ASSUME NEW c, NEW d, NEW e, NEW F, NEW G, NEW H, Grows(c, d, F), Grows(d, e, G),
           F \subseteq H, G \subseteq H, NoFeedIn(F) \/ NoFeedIn(G)
    PROVE  Grows(c, e, H)
<1>1. Same(c, e)
  BY DEF Grows, Same
<1>2. Extends(c, e, H)
  <2>1. DOMAIN c.net \subseteq DOMAIN e.net
    BY DEF Grows, Extends
  <2>2. \A i \in DOMAIN c.net : e.net[i] = c.net[i]
    BY DEF Grows, Extends
  <2>3. ASSUME NEW i \in DOMAIN e.net \ DOMAIN c.net PROVE Asked(c, e.net[i], H)
    <3>1. CASE i \in DOMAIN d.net
      <4>1. Asked(c, d.net[i], F) /\ e.net[i] = d.net[i]
        BY <2>3, <3>1 DEF Grows, Extends
      <4> QED
        BY <4>1 DEF Asked
    <3>2. CASE i \notin DOMAIN d.net
      <4>1. Asked(d, e.net[i], G)
        BY <2>3, <3>2 DEF Grows, Extends
      <4>2. d.user = c.user /\ d.loggedIn = c.loggedIn
        BY DEF Grows, Same
      <4> QED
        BY <4>1, <4>2 DEF Asked
    <3> QED
      BY <3>1, <3>2
  <2> QED
    BY <2>1, <2>2, <2>3 DEF Extends
<1>3. ShowsLess(c, e, H)
  <2>1. ShowsLess(c, d, F) /\ ShowsLess(d, e, G) /\ d.loggedIn = c.loggedIn
    BY DEF Grows, Same
  <2> QED
    BY <2>1 DEF ShowsLess
<1>4. OnceTheFeed(c, e)
  <2> SUFFICES ASSUME NEW i \in DOMAIN e.net \ DOMAIN c.net, NEW j \in DOMAIN e.net \ DOMAIN c.net,
                      e.net[i].op = "feed", e.net[j].op = "feed"
               PROVE  i = j
    BY DEF OnceTheFeed
  <2>1. ASSUME NEW k \in DOMAIN e.net \ DOMAIN c.net, e.net[k].op = "feed", NoFeedIn(F)
        PROVE  k \notin DOMAIN d.net
    <3>1. CASE k \in DOMAIN d.net
      <4>1. Asked(c, d.net[k], F) /\ e.net[k] = d.net[k]
        BY <2>1, <3>1 DEF Grows, Extends
      <4> QED
        BY <2>1, <4>1 DEF Asked, NoFeedIn, Fetch
    <3> QED
      BY <3>1
  <2>2. ASSUME NEW k \in DOMAIN e.net \ DOMAIN c.net, e.net[k].op = "feed", NoFeedIn(G)
        PROVE  k \in DOMAIN d.net /\ d.net[k] = e.net[k]
    <3>1. CASE k \notin DOMAIN d.net
      <4>1. Asked(d, e.net[k], G)
        BY <2>2, <3>1 DEF Grows, Extends
      <4> QED
        BY <2>2, <4>1 DEF Asked, NoFeedIn, Fetch
    <3> QED
      BY <2>2, <3>1 DEF Grows, Extends
  <2>3. OnceTheFeed(c, d) /\ OnceTheFeed(d, e)
    BY DEF Grows
  <2>4. CASE NoFeedIn(F)
    BY <2>1, <2>3, <2>4 DEF OnceTheFeed
  <2>5. CASE NoFeedIn(G)
    BY <2>2, <2>3, <2>5 DEF OnceTheFeed
  <2> QED
    BY <2>4, <2>5
<1>5. e.feed \in {c.feed, NoFeed}
  BY DEF Grows
<1>6. Fetch("feed", << 1 >>) \notin H => e.feed = c.feed
  BY DEF Grows
<1> QED
  BY <1>1, <1>2, <1>3, <1>4, <1>5, <1>6 DEF Grows

LEMMA LargerGrows ==
    ASSUME NEW c, NEW d, NEW F, NEW G, Grows(c, d, F), F \subseteq G PROVE Grows(c, d, G)
<1>1. Extends(c, d, G)
  BY DEF Grows, Extends, Asked
<1>2. ShowsLess(c, d, G)
  <2>1. ShowsLess(c, d, F)
    BY DEF Grows
  <2> QED
    BY <2>1 DEF ShowsLess
<1> QED
  BY <1>1, <1>2 DEF Grows

LEMMA MakesStays ==
    ASSUME NEW c, NEW d, NEW e, NEW F, NEW G, NEW f, Grows(c, d, F), Grows(d, e, G),
           Makes(c, d, f)
    PROVE  Makes(c, e, f)
<1>1. DOMAIN d.net \subseteq DOMAIN e.net /\ \A i \in DOMAIN d.net : e.net[i] = d.net[i]
  BY DEF Grows, Extends
<1>2. d.shown.previousYear = <<>> => e.shown.previousYear = <<>>
  BY DEF Grows, ShowsLess, NothingShown
<1>3. ~d.feed.loaded => ~e.feed.loaded
  BY DEF Grows, NoFeed
<1> QED
  BY <1>1, <1>2, <1>3 DEF Makes

LEMMA MakesLater ==
    ASSUME NEW c, NEW d, NEW e, NEW F, NEW f, Grows(c, d, F), Makes(d, e, f)
    PROVE  Makes(c, e, f)
BY DEF Makes, Grows, Extends

LEMMA SameGrows ==
    ASSUME NEW c, IsClient(c), NEW F PROVE Grows(c, c, F)
BY DEF Grows, Same, Extends, ShowsLess, OnceTheFeed

\* d is c with one more request.
Appends(c, d, r) ==
    /\ IsClient(d) /\ Same(c, d) /\ d.feed = c.feed /\ d.shown = c.shown
    /\ \E k : /\ k \notin DOMAIN c.net /\ DOMAIN d.net = DOMAIN c.net \cup {k}
              /\ d.net[k] = r
    /\ \A i \in DOMAIN c.net : d.net[i] = c.net[i]

LEMMA Appending ==
    ASSUME NEW c, IsClient(c), NEW op \in Requests, NEW arg, NEW who,
           op \in {"login", "createUser"} => arg[1] \in Users,
           NEW d, d = [c EXCEPT !.net = Append(@, Request(op, arg, who))]
    PROVE  Appends(c, d, Request(op, arg, who))
<1> DEFINE r == Request(op, arg, who)
<1>1. /\ DOMAIN d = ClientFields /\ d.net = Append(c.net, r)
      /\ d.shown = c.shown /\ d.feed = c.feed /\ Same(c, d)
  BY DEF IsClient, ClientFields, Same
<1>2. r.op = op /\ r.arg = arg /\ DOMAIN r = RequestFields
  BY DEF Request, RequestFields
<1>3. /\ IsSequence(d.net) /\ DOMAIN c.net = 1..Len(c.net)
      /\ DOMAIN d.net = 1..(Len(c.net) + 1) /\ Len(c.net) \in Nat
      /\ \A i \in 1..Len(c.net) : d.net[i] = c.net[i]
      /\ d.net[Len(c.net) + 1] = r
  BY <1>1, AppendToSequence DEF IsClient, IsNet, IsSequence
<1> HIDE DEF r
<1>4. IsRequest(r)
  BY <1>2 DEF IsRequest
<1>5. IsNet(d.net)
  BY <1>3, <1>4 DEF IsClient, IsNet
<1>6. IsClient(d)
  BY <1>1, <1>5 DEF IsClient, Same, IsUser, ArgOK
<1>7. /\ Len(c.net) + 1 \notin DOMAIN c.net
      /\ DOMAIN d.net = DOMAIN c.net \cup {Len(c.net) + 1}
  BY <1>3
<1>8. Appends(c, d, r)
  BY <1>1, <1>3, <1>6, <1>7 DEF Appends
<1> QED
  BY <1>8 DEF r

LEMMA AppendingGrows ==
    ASSUME NEW c, IsClient(c), NEW op \in Background, NEW arg, NEW F,
           c.user # NoOne, c.loggedIn \/ op = "previousYear",
           op \in {"details", "moreDetails"} \/ Fetch(op, arg) \in F,
           op = "feed" /\ arg = << 1 >> => ~c.feed.loaded,
           NEW d, d = [c EXCEPT !.net = Append(@, Request(op, arg, c.user))]
    PROVE  Grows(c, d, F) /\ Makes(c, d, Fetch(op, arg))
<1> DEFINE r == Request(op, arg, c.user)
<1>1. Appends(c, d, r)
  BY Appending DEF Requests, Background, FetchOps
<1>2. r.op = op /\ r.arg = arg /\ r = Request(r.op, r.arg, c.user)
  BY DEF Request
<1> HIDE DEF r
<1>3. Asked(c, r, F)
  BY <1>2 DEF Asked
<1>4. Extends(c, d, F)
  BY <1>1, <1>3 DEF Extends, Appends
<1>7. OnceTheFeed(c, d)
  BY <1>1 DEF OnceTheFeed, Appends
<1>5. Grows(c, d, F)
  BY <1>1, <1>4, <1>7 DEF Grows, ShowsLess, Appends
<1>6. Makes(c, d, Fetch(op, arg))
  BY <1>1, <1>2 DEF Makes, Fetch, Appends
<1> QED
  BY <1>5, <1>6

LEMMA AskingGrows ==
    ASSUME NEW c, IsClient(c), NEW op \in Background, NEW arg, NEW F,
           op \in {"details", "moreDetails"} \/ Fetch(op, arg) \in F,
           op = "feed" /\ arg = << 1 >> /\ c.loggedIn => ~c.feed.loaded
    PROVE  /\ Grows(c, Asks(c, op, arg), F)
           /\ c.loggedIn => Makes(c, Asks(c, op, arg), Fetch(op, arg))
<1> DEFINE d == Asks(c, op, arg)
<1>1. CASE c.loggedIn /\ c.user # NoOne
  <2>1. d = [c EXCEPT !.net = Append(@, Request(op, arg, c.user))]
    BY <1>1 DEF Asks
  <2> HIDE DEF d
  <2>2. Grows(c, d, F) /\ Makes(c, d, Fetch(op, arg))
    BY <1>1, <2>1, AppendingGrows
  <2> QED
    BY <2>2 DEF d
<1>2. CASE ~(c.loggedIn /\ c.user # NoOne)
  <2>1. d = c /\ ~c.loggedIn
    BY <1>2 DEF Asks, IsClient, IsUser
  <2> QED
    BY <2>1, SameGrows
<1> QED
  BY <1>1, <1>2

-----------------------------------------------------------------------------
(* What pages ask for.                                                       *)

\* A fetch whose argument is as the thunk makes it.
Normal(c, f) ==
    /\ f = Fetch(f.op, f.arg) /\ f.op \in FetchOps
    /\ f.op \in {"feed", "leaderboard", "courses", "tournament", "tournaments"} => Single(f.arg)
    /\ f.op \in {"rounds", "stats"} => f.arg = <<f.arg[1], Whose(c, f.arg[2])>>
    /\ f.op = "achievements" => f.arg = <<Whose(c, f.arg[1])>>
    /\ f.op = "yearSummary" => Couple(f.arg)

LEMMA WhoseIsWhose ==
    ASSUME NEW c, NEW u PROVE Whose(c, Whose(c, u)) = Whose(c, u)
BY DEF Whose

LEMMA TabsFacts ==
    ASSUME NEW c, IsClient(c), c.at \in {"/user", "/users"}
    PROVE  \/ UserTabs(c) = <<>>
           \/ \E f : Normal(c, f) /\ f.op # "feed" /\ UserTabs(c) = <<f>>
<1> DEFINE u == Whose(c, Owner(c))
<1>0. Whose(c, u) = u
  BY WhoseIsWhose
<1> HIDE DEF u
<1>1. CASE c.view.tab = 1
  <2> DEFINE f == Fetch("rounds", <<c.view.rounds, u>>)
  <2>1. UserTabs(c) = <<f>>
    BY <1>1 DEF UserTabs, u
  <2>2. Normal(c, f) /\ f.op # "feed"
    BY <1>0 DEF Normal, FetchOps, Fetch
  <2> QED
    BY <2>1, <2>2
<1>2. CASE c.view.tab = 2
  BY <1>2 DEF UserTabs
<1>3. CASE c.view.tab = 3
  <2> DEFINE f == Fetch("stats", <<c.view.months, u>>)
  <2>1. UserTabs(c) = <<f>>
    BY <1>3 DEF UserTabs, u
  <2>2. Normal(c, f) /\ f.op # "feed"
    BY <1>0 DEF Normal, FetchOps, Fetch
  <2> QED
    BY <2>1, <2>2
<1>4. CASE c.view.tab = 4
  <2> DEFINE f == Fetch("achievements", <<u>>)
  <2>1. UserTabs(c) = <<f>>
    BY <1>4 DEF UserTabs, u
  <2>2. Normal(c, f) /\ f.op # "feed"
    BY <1>0 DEF Normal, FetchOps, Fetch
  <2> QED
    BY <2>1, <2>2
<1>5. CASE c.view.tab = 5
  <2> DEFINE f == Fetch("tournaments", <<u>>)
  <2>1. UserTabs(c) = <<f>>
    BY <1>5 DEF UserTabs, u
  <2>2. Normal(c, f) /\ f.op # "feed"
    BY DEF Normal, FetchOps, Fetch, Single
  <2> QED
    BY <2>1, <2>2
<1>6. c.view.tab \in {1, 2, 3, 4, 5}
  BY DEF IsClient
<1> QED
  BY <1>1, <1>2, <1>3, <1>4, <1>5, <1>6

LEMMA YearFacts ==
    ASSUME NEW c, IsClient(c), c.at = "/year"
    PROVE  \E f, g : /\ Normal(c, f) /\ Normal(c, g) /\ f.op = "yearSummary" /\ f.arg = c.arg
                     /\ g.op = "previousYear" /\ YearPage(c) = <<f, g>>
<1> DEFINE f == Fetch("yearSummary", c.arg)
           g == Fetch("previousYear", IF c.arg[2] = 1 THEN <<>> ELSE <<c.arg[1], c.arg[2] - 1>>)
<1>1. YearPage(c) = <<f, g>>
  BY DEF YearPage
<1>2. Couple(c.arg)
  BY DEF IsClient, ArgOK
<1>3. Normal(c, f) /\ f.op = "yearSummary" /\ f.arg = c.arg
  BY <1>2 DEF Normal, FetchOps, Fetch
<1>4. Normal(c, g) /\ g.op = "previousYear"
  BY DEF Normal, FetchOps, Fetch
<1> HIDE DEF f, g
<1> QED
  BY <1>1, <1>3, <1>4

\* A page asks for one thing at most, but for the page of a year.
LEMMA FetchesFacts ==
    ASSUME NEW c, IsClient(c)
    PROVE  \/ Fetches(c) = <<>>
           \/ \E f : /\ Normal(c, f) /\ Fetches(c) = <<f>>
                     /\ f.op = "feed" => c.at = "/" /\ c.loggedIn
           \/ \E f, g : /\ Normal(c, f) /\ Normal(c, g) /\ f.op = "yearSummary"
                        /\ g.op = "previousYear" /\ Fetches(c) = <<f, g>>
<1>1. CASE c.at = "/" /\ c.loggedIn
  <2> DEFINE f == Fetch("feed", <<c.view.feed>>)
  <2>1. Fetches(c) = <<f>>
    BY <1>1 DEF Fetches
  <2>2. Normal(c, f) /\ f.op = "feed"
    BY DEF Normal, FetchOps, Fetch, Single
  <2> HIDE DEF f
  <2> QED
    BY <1>1, <2>1, <2>2
<1>2. CASE c.at \in {"/user", "/users"}
  <2>1. Fetches(c) = UserTabs(c)
    BY <1>2 DEF Fetches
  <2> QED
    BY <1>2, <2>1, TabsFacts
<1>3. CASE c.at = "/year"
  <2>1. Fetches(c) = YearPage(c)
    BY <1>3 DEF Fetches
  <2> QED
    BY <1>3, <2>1, YearFacts
<1>4. CASE c.at = "/leaders" /\ c.loggedIn
  <2> DEFINE f == Fetch("leaderboard", <<c.view.month>>)
  <2>1. Fetches(c) = <<f>>
    BY <1>4 DEF Fetches
  <2>2. Normal(c, f) /\ f.op # "feed"
    BY DEF Normal, FetchOps, Fetch, Single
  <2> QED
    BY <2>1, <2>2
<1>5. CASE c.at = "/courses"
  <2> DEFINE f == Fetch("courses", <<"">>)
  <2>1. Fetches(c) = <<f>>
    BY <1>5 DEF Fetches
  <2>2. Normal(c, f) /\ f.op # "feed"
    BY DEF Normal, FetchOps, Fetch, Single
  <2> QED
    BY <2>1, <2>2
<1>6. CASE c.at = "/tournaments"
  <2> DEFINE f == Fetch("tournaments", <<NoOne>>)
  <2>1. Fetches(c) = <<f>>
    BY <1>6 DEF Fetches
  <2>2. Normal(c, f) /\ f.op # "feed"
    BY DEF Normal, FetchOps, Fetch, Single
  <2> QED
    BY <2>1, <2>2
<1>7. CASE c.at = "/tournament"
  <2> DEFINE f == Fetch("tournament", c.arg)
  <2>1. Fetches(c) = <<f>>
    BY <1>7 DEF Fetches
  <2>2. Normal(c, f) /\ f.op # "feed"
    BY <1>7 DEF Normal, FetchOps, Fetch, Single, IsClient, ArgOK
  <2> QED
    BY <2>1, <2>2
<1>8. CASE /\ ~(c.at = "/" /\ c.loggedIn) /\ c.at \notin {"/user", "/users"}
           /\ c.at # "/year" /\ ~(c.at = "/leaders" /\ c.loggedIn) /\ c.at # "/courses"
           /\ c.at # "/tournaments" /\ c.at # "/tournament"
  BY <1>8 DEF Fetches
<1> QED
  BY <1>1, <1>2, <1>3, <1>4, <1>5, <1>6, <1>7, <1>8

-----------------------------------------------------------------------------
(* Effects.                                                                  *)

LEMMA AskingForIt ==
    ASSUME NEW c, IsClient(c), NEW f, Normal(c, f), NEW d, d = Asks(c, f.op, f.arg),
           f = Fetch("feed", << 1 >>) /\ c.loggedIn => ~c.feed.loaded
    PROVE  Grows(c, d, {f}) /\ (c.loggedIn => Makes(c, d, f))
<1>1. f = Fetch(f.op, f.arg) /\ f.op \in Background
  BY DEF Normal, Background
<1>2. Fetch(f.op, f.arg) \in {f}
  BY <1>1
<1>3. /\ Grows(c, Asks(c, f.op, f.arg), {f})
      /\ c.loggedIn => Makes(c, Asks(c, f.op, f.arg), Fetch(f.op, f.arg))
  BY <1>1, <1>2, AskingGrows DEF Fetch
<1> QED
  BY <1>1, <1>3

LEMMA ClearingFeed ==
    ASSUME NEW c, IsClient(c), NEW d, d = [c EXCEPT !.feed = NoFeed]
    PROVE  Grows(c, d, {Fetch("feed", << 1 >>)}) /\ d.feed = NoFeed /\ d.net = c.net
<1>1. /\ DOMAIN d = ClientFields /\ d.net = c.net /\ d.shown = c.shown /\ d.feed = NoFeed
      /\ Same(c, d)
  BY DEF IsClient, ClientFields, Same
<1>2. IsClient(d)
  BY <1>1 DEF IsClient, Same, IsUser, ArgOK
<1> DEFINE F == {Fetch("feed", << 1 >>)}
<1>3. Extends(c, d, F) /\ ShowsLess(c, d, F) /\ OnceTheFeed(c, d)
  BY <1>1 DEF Extends, ShowsLess, OnceTheFeed
<1> QED
  BY <1>1, <1>2, <1>3 DEF Grows

LEMMA FeedEffect ==
    ASSUME NEW c, IsClient(c), NEW f, Normal(c, f), f.op = "feed", NEW d, d = fetchFeed(c, f.arg[1])
    PROVE  Grows(c, d, {f}) /\ (c.loggedIn => Makes(c, d, f))
<1>1. f.arg = <<f.arg[1]>> /\ f = Fetch(f.op, f.arg)
  BY DEF Normal, Single
<1>2. CASE c.loggedIn /\ c.feed.loaded /\ f.arg[1] = 1
  <2> DEFINE b == [c EXCEPT !.feed = NoFeed]
  <2>1. d = Asks(b, f.op, f.arg)
    BY <1>1, <1>2 DEF fetchFeed
  <2>2. f = Fetch("feed", << 1 >>)
    BY <1>1, <1>2
  <2>3. Grows(c, b, {f}) /\ b.feed = NoFeed /\ b.net = c.net
    BY <2>2, ClearingFeed
  <2> HIDE DEF b
  <2>4. IsClient(b) /\ Normal(b, f) /\ b.loggedIn = c.loggedIn /\ ~b.feed.loaded
    BY <2>3 DEF Grows, Same, Normal, NoFeed
  <2>5. Grows(b, d, {f}) /\ (b.loggedIn => Makes(b, d, f))
    BY <2>1, <2>4, AskingForIt
  <2>6. Makes(c, d, f)
    BY <1>2, <2>3, <2>4, <2>5, MakesLater
  <2>7. Same(c, d) /\ ShowsLess(c, d, {f})
    BY <2>3, <2>5 DEF Grows, Same, ShowsLess
  <2>8. Extends(c, d, {f}) /\ OnceTheFeed(c, d)
    <3>1. Extends(b, d, {f}) /\ OnceTheFeed(b, d) /\ b.user = c.user /\ b.loggedIn = c.loggedIn
      BY <2>3, <2>5 DEF Grows, Same
    <3> QED
      BY <2>3, <3>1 DEF Extends, OnceTheFeed, Asked
  <2>9. IsClient(d) /\ d.feed \in {c.feed, NoFeed}
    BY <2>3, <2>5 DEF Grows
  <2> QED
    BY <2>2, <2>6, <2>7, <2>8, <2>9 DEF Grows
<1>3. CASE ~(c.loggedIn /\ c.feed.loaded /\ f.arg[1] = 1)
  <2>1. d = Asks(c, f.op, f.arg)
    BY <1>1, <1>3 DEF fetchFeed
  <2>2. f = Fetch("feed", << 1 >>) => f.arg[1] = 1
    BY DEF Fetch
  <2> QED
    BY <1>3, <2>1, <2>2, AskingForIt
<1> QED
  BY <1>2, <1>3

LEMMA PreviousYearEffect ==
    ASSUME NEW c, IsClient(c), NEW f, Normal(c, f), f.op = "previousYear",
           NEW d, d = fetchPreviousYear(c, f.arg)
    PROVE  Grows(c, d, {f}) /\ (c.loggedIn => Makes(c, d, f))
<1>1. CASE f.arg = <<>> \/ c.user = NoOne
  <2>1. d = Shows(c, "previousYear", <<>>)
    BY <1>1 DEF fetchPreviousYear
  <2> DEFINE sh == [c.shown EXCEPT !["previousYear"] = <<>>]
  <2>2. d = [c EXCEPT !.shown = sh]
    BY <2>1 DEF Shows
  <2>3. /\ DOMAIN sh = DOMAIN NothingShown /\ sh.previousYear = <<>>
        /\ \A op \in DOMAIN NothingShown : op # "previousYear" => sh[op] = c.shown[op]
    BY DEF IsClient, NothingShown
  <2> HIDE DEF sh
  <2>4. /\ DOMAIN d = ClientFields /\ d.net = c.net /\ d.shown = sh /\ d.feed = c.feed
        /\ Same(c, d)
    BY <2>2 DEF IsClient, ClientFields, Same
  <2>5. IsClient(d)
    BY <2>3, <2>4 DEF IsClient, Same, IsUser, ArgOK
  <2>6. c.loggedIn => Makes(c, d, f)
    BY <1>1, <2>3, <2>4 DEF Makes, IsClient, IsUser
  <2>7. Fetch("previousYear", <<>>) \in {f} \/ ~c.loggedIn
    BY <1>1 DEF Normal, IsClient, IsUser
  <2>8. Extends(c, d, {f}) /\ ShowsLess(c, d, {f}) /\ OnceTheFeed(c, d)
    BY <2>3, <2>4, <2>7 DEF Extends, ShowsLess, OnceTheFeed
  <2> QED
    BY <2>4, <2>5, <2>6, <2>8 DEF Grows
<1>2. CASE f.arg # <<>> /\ c.user # NoOne
  <2>1. d = [c EXCEPT !.net = Append(@, Request("previousYear", f.arg, c.user))]
    BY <1>2 DEF fetchPreviousYear
  <2>2. Fetch("previousYear", f.arg) = f
    BY DEF Normal
  <2>3. Grows(c, d, {f}) /\ Makes(c, d, Fetch("previousYear", f.arg))
    BY <1>2, <2>1, <2>2, AppendingGrows DEF Background, FetchOps
  <2> QED
    BY <2>2, <2>3
<1> QED
  BY <1>1, <1>2

LEMMA EffectGrows ==
    ASSUME NEW c, IsClient(c), NEW f, Normal(c, f), NEW d, d = Effect(c, f)
    PROVE  Grows(c, d, {f}) /\ (c.loggedIn => Makes(c, d, f))
<1>1. CASE f.op = "feed"
  BY <1>1, FeedEffect DEF Effect
<1>2. CASE f.op = "previousYear"
  <2>1. d = fetchPreviousYear(c, f.arg)
    BY <1>2 DEF Effect
  <2> QED
    BY <1>2, <2>1, PreviousYearEffect
<1>3. CASE f.op \notin {"feed", "previousYear"}
  <2>1. d = Asks(c, f.op, f.arg)
    <3>1. CASE f.op \in {"rounds", "stats"}
      <4>1. f.arg = <<f.arg[1], Whose(c, f.arg[2])>>
        BY <3>1 DEF Normal
      <4>2. CASE f.op = "rounds"
        <5>1. d = fetchUserRounds(c, f.arg[1], f.arg[2])
          BY <4>2 DEF Effect
        <5> QED
          BY <4>1, <4>2, <5>1 DEF fetchUserRounds
      <4>3. CASE f.op = "stats"
        <5>1. d = fetchUserStats(c, f.arg[1], f.arg[2])
          BY <4>3 DEF Effect
        <5> QED
          BY <4>1, <4>3, <5>1 DEF fetchUserStats
      <4> QED
        BY <3>1, <4>2, <4>3
    <3>2. CASE f.op = "achievements"
      <4>1. d = fetchUserAchievements(c, f.arg[1])
        BY <3>2 DEF Effect
      <4> QED
        BY <3>2, <4>1 DEF fetchUserAchievements, Normal
    <3>3. CASE f.op = "tournaments"
      <4>1. d = fetchTournaments(c, f.arg[1])
        BY <3>3 DEF Effect
      <4> QED
        BY <3>3, <4>1 DEF fetchTournaments, Normal, Single
    <3>4. CASE f.op = "yearSummary"
      <4>1. d = fetchUserYearSummary(c, f.arg[1], f.arg[2])
        BY <3>4 DEF Effect
      <4> QED
        BY <3>4, <4>1 DEF fetchUserYearSummary, Normal, Couple
    <3>5. CASE f.op = "leaderboard"
      <4>1. d = fetchLeaderboard(c, f.arg[1])
        BY <3>5 DEF Effect
      <4> QED
        BY <3>5, <4>1 DEF fetchLeaderboard, Normal, Single
    <3>6. CASE f.op = "courses"
      <4>1. d = fetchCourses(c, f.arg[1])
        BY <3>6 DEF Effect
      <4> QED
        BY <3>6, <4>1 DEF fetchCourses, Normal, Single
    <3>7. CASE f.op = "tournament"
      <4>1. d = fetchTournament(c, f.arg[1])
        BY <3>7 DEF Effect
      <4> QED
        BY <3>7, <4>1 DEF fetchTournament, Normal, Single
    <3> QED
      BY <1>3, <3>1, <3>2, <3>3, <3>4, <3>5, <3>6, <3>7 DEF Normal, FetchOps
  <2>2. f # Fetch("feed", << 1 >>)
    BY <1>3 DEF Fetch
  <2> QED
    BY <2>1, <2>2, AskingForIt
<1> QED
  BY <1>1, <1>2, <1>3

LEMMA SameNormal ==
    ASSUME NEW c, NEW d, d.user = c.user, NEW f, Normal(c, f) PROVE Normal(d, f)
BY DEF Normal, Whose

\* b is the client whose page has effects, those in new run.
LEMMA StartedGrows ==
    ASSUME NEW b, IsClient(b), NEW c, IsClient(c), c.user = b.user,
           NEW new, new \subseteq Range(Fetches(b)),
           NEW d, d = Started(c, Fetches(b), new)
    PROVE  Grows(c, d, new) /\ (c.loggedIn => \A f \in new : Makes(c, d, f))
<1> DEFINE fs == Fetches(b)
           a == Runs(c, fs, 1, new)
<1>0. d = Runs(a, fs, 2, new)
  BY DEF Started
<1>1. \A n \in DOMAIN fs : n \in 1..2 /\ Normal(b, fs[n])
  BY FetchesFacts
<1>2. Range(fs) = {fs[n] : n \in DOMAIN fs}
  BY DEF Range
<1> HIDE DEF fs
<1>3. ASSUME NEW p, IsClient(p), p.user = b.user, NEW n, NEW q, q = Runs(p, fs, n, new)
      PROVE  /\ Grows(p, q, new)
             /\ p.loggedIn /\ n \in DOMAIN fs /\ fs[n] \in new => Makes(p, q, fs[n])
  <2>1. CASE n \in DOMAIN fs /\ fs[n] \in new
    <3>1. q = Effect(p, fs[n])
      BY <1>3, <2>1 DEF Runs
    <3>2. Normal(p, fs[n])
      BY <1>1, <1>3, <2>1, SameNormal
    <3>3. Grows(p, q, {fs[n]}) /\ (p.loggedIn => Makes(p, q, fs[n]))
      BY <1>3, <3>1, <3>2, EffectGrows
    <3>4. Grows(p, p, new) /\ {fs[n]} \subseteq new
      BY <1>3, <2>1, SameGrows
    <3>5. Grows(p, q, new)
      BY <3>3, <3>4, LargerGrows
    <3> QED
      BY <3>3, <3>5
  <2>2. CASE ~(n \in DOMAIN fs /\ fs[n] \in new)
    <3>1. q = p
      BY <1>3, <2>2 DEF Runs
    <3> QED
      BY <1>3, <2>2, <3>1, SameGrows
  <2> QED
    BY <2>1, <2>2
<1>4. Grows(c, a, new) /\ (c.loggedIn /\ 1 \in DOMAIN fs /\ fs[1] \in new => Makes(c, a, fs[1]))
  BY <1>3
<1> HIDE DEF a
<1>5. IsClient(a) /\ a.user = b.user /\ a.loggedIn = c.loggedIn
  BY <1>4 DEF Grows, Same
<1>6. Grows(a, d, new) /\ (a.loggedIn /\ 2 \in DOMAIN fs /\ fs[2] \in new => Makes(a, d, fs[2]))
  BY <1>0, <1>3, <1>5
<1>7. Grows(c, d, new)
  <2>1. CASE 2 \notin DOMAIN fs
    <3>1. d = a
      BY <1>0, <2>1 DEF Runs
    <3> QED
      BY <1>4, <3>1
  <2>2. CASE 2 \in DOMAIN fs
    <3>1. \A n \in DOMAIN fs : fs[n].op # "feed"
      BY <2>2, FetchesFacts DEF fs
    <3>2. NoFeedIn(new)
      BY <1>2, <3>1 DEF NoFeedIn, fs
    <3> QED
      BY <1>4, <1>6, <3>2, GrowsTransitive
  <2> QED
    BY <2>1, <2>2
<1>8. ASSUME c.loggedIn, NEW f \in new PROVE Makes(c, d, f)
  <2>1. PICK n \in DOMAIN fs : f = fs[n]
    BY <1>2 DEF fs
  <2>2. CASE n = 1
    <3>1. Makes(c, a, f)
      BY <1>4, <1>8, <2>1, <2>2
    <3> QED
      BY <1>4, <1>6, <3>1, MakesStays
  <2>3. CASE n = 2
    <3>1. Makes(a, d, f)
      BY <1>5, <1>6, <1>8, <2>1, <2>3
    <3> QED
      BY <1>4, <3>1, MakesLater
  <2> QED
    BY <1>1, <2>1, <2>2, <2>3
<1> QED
  BY <1>7, <1>8

\* The request of the App for the user's details.
Details == Fetch("details", <<>>)

LEMMA AppUpdatedGrows ==
    ASSUME NEW c0, NEW c, IsClient(c), NEW moved, NEW d, d = AppUpdated(c0, c, moved)
    PROVE  Grows(c, d, {}) /\ (c.loggedIn /\ (moved \/ ~c0.loggedIn) => Makes(c, d, Details))
<1>1. CASE c.loggedIn /\ (moved \/ ~c0.loggedIn)
  <2>1. d = Asks(c, "details", <<>>)
    BY <1>1 DEF AppUpdated, fetchUserDetails
  <2> QED
    BY <1>1, <2>1, AskingGrows DEF Details, Background
<1>2. CASE ~(c.loggedIn /\ (moved \/ ~c0.loggedIn))
  <2>1. d = c
    BY <1>2 DEF AppUpdated
  <2> QED
    BY <1>2, <2>1, SameGrows
<1> QED
  BY <1>1, <1>2

LEMMA UserPageGrows ==
    ASSUME NEW c, IsClient(c), NEW d, d = UserPageShown(c)
    PROVE  Grows(c, d, {}) /\ (c.at \notin {"/user", "/users"} => d = c)
<1>1. CASE d = c
  BY <1>1, SameGrows
<1>2. CASE d # c
  <2>1. PICK u : d = Asks(c, "moreDetails", <<u>>)
    BY <1>2 DEF UserPageShown, fetchMoreUserDetails
  <2>2. Grows(c, d, {})
    BY <2>1, AskingGrows DEF Background
  <2>3. c.at \in {"/user", "/users"}
    BY <1>2 DEF UserPageShown
  <2> QED
    BY <2>2, <2>3
<1> QED
  BY <1>1, <1>2

LEMMA RenderGrows ==
    ASSUME NEW c0, NEW c, IsClient(c), NEW moved, NEW d, d = Render(c0, c, moved)
    PROVE  /\ Grows(c, d, EffectsOf(c0, c))
           /\ c.loggedIn => \A f \in EffectsOf(c0, c) : Makes(c, d, f)
           /\ c.loggedIn /\ (moved \/ ~c0.loggedIn) => Makes(c, d, Details)
<1> DEFINE F == EffectsOf(c0, c)
           a == AppUpdated(c0, c, moved)
           b == Started(a, Fetches(c), F)
<1>1. d = UserPageShown(b)
  BY DEF Render
<1>2. F \subseteq Range(Fetches(c))
  BY DEF EffectsOf
<1>3. Grows(c, a, {}) /\ (c.loggedIn /\ (moved \/ ~c0.loggedIn) => Makes(c, a, Details))
  BY AppUpdatedGrows
<1> HIDE DEF F, a
<1>4. IsClient(a) /\ a.user = c.user /\ a.loggedIn = c.loggedIn
  BY <1>3 DEF Grows, Same
<1>5. Grows(a, b, F) /\ (a.loggedIn => \A f \in F : Makes(a, b, f))
  BY <1>2, <1>4, StartedGrows
<1> HIDE DEF b
<1>6. IsClient(b)
  BY <1>5 DEF Grows
<1>7. Grows(b, d, {})
  BY <1>1, <1>6, UserPageGrows
<1>8. Grows(c, b, F)
  BY <1>3, <1>5, GrowsTransitive DEF NoFeedIn
<1>9. Grows(c, d, F)
  BY <1>7, <1>8, GrowsTransitive DEF NoFeedIn
<1>10. ASSUME c.loggedIn, NEW f \in F PROVE Makes(c, d, f)
  <2>1. Makes(a, b, f)
    BY <1>4, <1>5, <1>10
  <2>2. Makes(c, b, f)
    BY <1>3, <2>1, MakesLater
  <2> QED
    BY <1>7, <1>8, <2>2, MakesStays
<1>11. ASSUME c.loggedIn, moved \/ ~c0.loggedIn PROVE Makes(c, d, Details)
  <2>1. Makes(c, a, Details)
    BY <1>3, <1>11
  <2>2. Makes(c, b, Details)
    BY <1>3, <1>5, <2>1, MakesStays
  <2> QED
    BY <1>7, <1>8, <2>2, MakesStays
<1> QED
  BY <1>9, <1>10, <1>11 DEF F

-----------------------------------------------------------------------------
(* A change of the store, another page, another state of the page.           *)

\* The client c1 after a change to c, with what the components lose.
Adjusted(c, c1) ==
    IF c.loggedIn = c1.loggedIn THEN c1 ELSE [c1 EXCEPT !.view.feed = 1, !.view.month = 0]
\* The client at another address.
Turned(c, at, arg) ==
    [c EXCEPT !.at = at, !.arg = arg,
              !.view = IF c.at = at THEN @ ELSE Fresh,
              !.shown.previousYear = IF c.at = at THEN @ ELSE <<>>]
Addressed(at, arg) ==
    /\ at = "/year" => Couple(arg)
    /\ at = "/tournament" => Single(arg)
    /\ at = "/courses" => arg = <<>> \/ Single(arg) \/ Couple(arg)
\* d is c with another view.
Looks(c, d, view) ==
    /\ IsClient(d) /\ d.net = c.net /\ d.shown = c.shown /\ d.feed = c.feed
    /\ d.loggedIn = c.loggedIn /\ d.user = c.user /\ d.failed = c.failed
    /\ d.details = c.details /\ d.courses = c.courses /\ d.cup = c.cup
    /\ d.logouts = c.logouts /\ d.hub = c.hub /\ d.saved = c.saved
    /\ d.at = c.at /\ d.arg = c.arg /\ d.view = view

LEMMA LookingIs ==
    ASSUME NEW c, IsClient(c), NEW view, DOMAIN view = DOMAIN Fresh, view.tab \in 1..5,
           NEW d, d = [c EXCEPT !.view = view]
    PROVE  Looks(c, d, view)
<1>1. /\ DOMAIN d = ClientFields /\ d.net = c.net /\ d.shown = c.shown /\ d.feed = c.feed
      /\ d.loggedIn = c.loggedIn /\ d.user = c.user /\ d.failed = c.failed
      /\ d.details = c.details /\ d.courses = c.courses /\ d.cup = c.cup
      /\ d.logouts = c.logouts /\ d.hub = c.hub /\ d.saved = c.saved
      /\ d.at = c.at /\ d.arg = c.arg /\ d.view = view
  BY DEF IsClient, ClientFields
<1>2. IsClient(d)
  BY <1>1 DEF IsClient, IsUser, ArgOK
<1> QED
  BY <1>1, <1>2 DEF Looks

LEMMA AdjustedIs ==
    ASSUME NEW c, NEW c1, IsClient(c1), NEW d, d = Adjusted(c, c1)
    PROVE  /\ Looks(c1, d, d.view)
           /\ d.view.hole = c1.view.hole /\ d.view.tab = c1.view.tab
           /\ c.loggedIn = c1.loggedIn => d = c1
           /\ c.loggedIn # c1.loggedIn => d.view.feed = 1
<1>1. CASE c.loggedIn = c1.loggedIn
  BY <1>1 DEF Adjusted, Looks
<1>2. CASE c.loggedIn # c1.loggedIn
  <2> DEFINE view == [c1.view EXCEPT !.feed = 1, !.month = 0]
  <2>1. d = [c1 EXCEPT !.view = view]
    BY <1>2 DEF Adjusted
  <2>2. /\ DOMAIN view = DOMAIN Fresh /\ view.tab \in 1..5
        /\ view.hole = c1.view.hole /\ view.tab = c1.view.tab /\ view.feed = 1
    BY DEF IsClient, Fresh
  <2> HIDE DEF view
  <2>3. Looks(c1, d, view)
    BY <2>1, <2>2, LookingIs
  <2> QED
    BY <1>2, <2>2, <2>3 DEF Looks
<1> QED
  BY <1>1, <1>2

LEMMA TurnedIs ==
    ASSUME NEW c, IsClient(c), NEW at, NEW arg, Addressed(at, arg), NEW d, d = Turned(c, at, arg)
    PROVE  /\ IsClient(d) /\ d.net = c.net /\ d.feed = c.feed
           /\ d.loggedIn = c.loggedIn /\ d.user = c.user /\ d.failed = c.failed
           /\ d.details = c.details /\ d.courses = c.courses /\ d.cup = c.cup
           /\ d.logouts = c.logouts /\ d.hub = c.hub /\ d.saved = c.saved
           /\ d.at = at /\ d.arg = arg
           /\ d.view = IF c.at = at THEN c.view ELSE Fresh
           /\ \A op \in DOMAIN NothingShown : op # "previousYear" => d.shown[op] = c.shown[op]
           /\ d.shown.previousYear = IF c.at = at THEN c.shown.previousYear ELSE <<>>
<1> DEFINE sh == [c.shown EXCEPT !.previousYear = IF c.at = at THEN @ ELSE <<>>]
           view == IF c.at = at THEN c.view ELSE Fresh
<1>1. d = [c EXCEPT !.at = at, !.arg = arg, !.view = view, !.shown = sh]
  BY DEF Turned
<1>2. /\ DOMAIN sh = DOMAIN NothingShown
      /\ \A op \in DOMAIN NothingShown : op # "previousYear" => sh[op] = c.shown[op]
      /\ sh.previousYear = IF c.at = at THEN c.shown.previousYear ELSE <<>>
  BY DEF IsClient, NothingShown
<1>3. DOMAIN view = DOMAIN Fresh /\ view.tab \in 1..5
  BY DEF IsClient, Fresh
<1> HIDE DEF sh, view
<1>4. /\ DOMAIN d = ClientFields /\ d.net = c.net /\ d.feed = c.feed
      /\ d.loggedIn = c.loggedIn /\ d.user = c.user /\ d.failed = c.failed
      /\ d.details = c.details /\ d.courses = c.courses /\ d.cup = c.cup
      /\ d.logouts = c.logouts /\ d.hub = c.hub /\ d.saved = c.saved
      /\ d.at = at /\ d.arg = arg /\ d.view = view /\ d.shown = sh
  BY <1>1 DEF IsClient, ClientFields
<1>5. IsClient(d)
  BY <1>2, <1>3, <1>4 DEF IsClient, IsUser, ArgOK, Addressed
<1> QED
  BY <1>2, <1>4, <1>5 DEF view

-----------------------------------------------------------------------------
(* Changes of the store.                                                     *)

\* The parts of a client that are of no type in particular.
Loose == {"details", "profiles", "searched", "courses", "cup", "notes", "alarms", "logouts",
          "hub", "saved", "failed"}
\* d is c but for the parts in S.
Only(c, d, S) == IsClient(d) /\ \A p \in ClientFields \ S : d[p] = c[p]

LEMMA LooseOnly ==
    ASSUME NEW c, IsClient(c), NEW S \in SUBSET Loose, NEW d, DOMAIN d = ClientFields,
           \A p \in ClientFields \ S : d[p] = c[p]
    PROVE  Only(c, d, S)
<1>1. /\ d.net = c.net /\ d.shown = c.shown /\ d.feed = c.feed /\ d.loggedIn = c.loggedIn
      /\ d.user = c.user /\ d.at = c.at /\ d.arg = c.arg /\ d.view = c.view
  BY DEF Loose, ClientFields
<1>2. IsClient(d)
  BY <1>1 DEF IsClient, IsUser, ArgOK
<1> QED
  BY <1>2 DEF Only

LEMMA Notified ==
    ASSUME NEW c, IsClient(c), NEW n
    PROVE  /\ Only(c, showNotification(c, n), {"notes", "alarms"})
           /\ Only(c, hideNotification(c, n), {"notes"})
<1>1. ASSUME NEW d, d = showNotification(c, n) PROVE Only(c, d, {"notes", "alarms"})
  <2> DEFINE a == [c.notes EXCEPT ![n] = @ + 1]
             b == [c.alarms EXCEPT ![n] = @ + 1]
  <2>1. d = [c EXCEPT !.notes = a, !.alarms = b]
    BY <1>1 DEF showNotification
  <2> HIDE DEF a, b
  <2>2. DOMAIN d = ClientFields /\ \A p \in ClientFields \ {"notes", "alarms"} : d[p] = c[p]
    BY <2>1 DEF IsClient, ClientFields
  <2> QED
    BY <2>2, LooseOnly DEF Loose
<1>2. ASSUME NEW d, d = hideNotification(c, n) PROVE Only(c, d, {"notes"})
  <2> DEFINE a == [c.notes EXCEPT ![n] = 0]
  <2>1. d = [c EXCEPT !.notes = a]
    BY <1>2 DEF hideNotification
  <2> HIDE DEF a
  <2>2. DOMAIN d = ClientFields /\ \A p \in ClientFields \ {"notes"} : d[p] = c[p]
    BY <2>1 DEF IsClient, ClientFields
  <2> QED
    BY <2>2, LooseOnly DEF Loose
<1> QED
  BY <1>1, <1>2

LEMMA DetailsSet ==
    ASSUME NEW c, IsClient(c), NEW x, NEW d, d = [c EXCEPT !.details = x]
    PROVE  Only(c, d, {"details"}) /\ d.details = x
<1>1. DOMAIN d = ClientFields /\ (\A p \in ClientFields \ {"details"} : d[p] = c[p]) /\ d.details = x
  BY DEF IsClient, ClientFields
<1> QED
  BY <1>1, LooseOnly DEF Loose

LEMMA SettingKnown ==
    ASSUME NEW c, IsClient(c), NEW s, NEW v
    PROVE  Only(c, SetDetail(c, s, v), {"details"})
<1> DEFINE x == [c.details EXCEPT !.set[s] = v]
<1>1. SetDetail(c, s, v) = [c EXCEPT !.details = x]
  BY DEF SetDetail
<1> HIDE DEF x
<1> QED
  BY <1>1, DetailsSet

LEMMA RoundKnown ==
    ASSUME NEW c, IsClient(c)
    PROVE  /\ Only(c, NewRoundCreated(c), {"details"})
           /\ Only(c, RoundWasDeleted(c), {"details"})
<1> DEFINE x(b) == [c.details EXCEPT !.active = b]
<1>1. NewRoundCreated(c) = [c EXCEPT !.details = x(TRUE)]
  BY DEF NewRoundCreated
<1>2. RoundWasDeleted(c) = [c EXCEPT !.details = x(FALSE)]
  BY DEF RoundWasDeleted
<1> HIDE DEF x
<1> QED
  BY <1>1, <1>2, DetailsSet

LEMMA FriendsKnown ==
    ASSUME NEW c, IsClient(c), NEW u
    PROVE  /\ Only(c, FriendAdded(c, u), {"details", "searched"})
           /\ Only(c, UsersFound(c, u), {"searched"})
<1>1. ASSUME NEW d, d = FriendAdded(c, u) PROVE Only(c, d, {"details", "searched"})
  <2> DEFINE x == [c.details EXCEPT !.friends = @ \cup {u}]
  <2>1. d = [c EXCEPT !.searched = {}, !.details = x]
    BY <1>1 DEF FriendAdded
  <2> HIDE DEF x
  <2>2. DOMAIN d = ClientFields /\ \A p \in ClientFields \ {"details", "searched"} : d[p] = c[p]
    BY <2>1 DEF IsClient, ClientFields
  <2> QED
    BY <2>2, LooseOnly DEF Loose
<1>2. ASSUME NEW d, d = UsersFound(c, u) PROVE Only(c, d, {"searched"})
  <2>2. DOMAIN d = ClientFields /\ \A p \in ClientFields \ {"searched"} : d[p] = c[p]
    BY <1>2 DEF IsClient, ClientFields, UsersFound
  <2> QED
    BY <2>2, LooseOnly DEF Loose
<1> QED
  BY <1>1, <1>2

LEMMA ProfileKnown ==
    ASSUME NEW c, IsClient(c), NEW u, NEW v
    PROVE  Only(c, WithProfile(c, u, v), {"profiles"})
<1> DEFINE x == [c.profiles EXCEPT ![u] = IF @ = <<>> THEN <<v>> ELSE @]
           d == WithProfile(c, u, v)
<1>1. d = [c EXCEPT !.profiles = x]
  BY DEF WithProfile
<1> HIDE DEF x, d
<1>2. DOMAIN d = ClientFields /\ \A p \in ClientFields \ {"profiles"} : d[p] = c[p]
  BY <1>1 DEF IsClient, ClientFields
<1>3. Only(c, d, {"profiles"})
  BY <1>2, LooseOnly DEF Loose
<1> QED
  BY <1>3 DEF d

LEMMA DetailsKnown ==
    ASSUME NEW c, IsClient(c), NEW u, NEW d
    PROVE  /\ Only(c, DetailsFetched(c, u, d), {"details", "profiles"})
           /\ DetailsFetched(c, u, d).details =
                [fetched |-> TRUE, friends |-> d.friends, active |-> d.active, set |-> d.set]
<1> DEFINE x == [fetched |-> TRUE, friends |-> d.friends, active |-> d.active, set |-> d.set]
           a == [c EXCEPT !.details = x]
           b == WithProfile(a, u, d.set.country)
<1>1. DetailsFetched(c, u, d) = b
  BY DEF DetailsFetched
<1> HIDE DEF x
<1>2. Only(c, a, {"details"}) /\ a.details = x
  BY DetailsSet
<1> HIDE DEF a
<1>3. IsClient(a)
  BY <1>2 DEF Only
<1>4. Only(a, b, {"profiles"})
  BY <1>3, ProfileKnown
<1> HIDE DEF b
<1>5. Only(c, b, {"details", "profiles"})
  BY <1>2, <1>4 DEF Only
<1>6. b.details = x
  BY <1>2, <1>4 DEF Only, ClientFields
<1> QED
  BY <1>1, <1>5, <1>6 DEF x

LEMMA LoggingKnown ==
    ASSUME NEW c, IsClient(c), NEW u \in Users
    PROVE  /\ Only(c, LoginSucceed(c, u), {"loggedIn", "user", "failed"})
           /\ LoginSucceed(c, u).loggedIn /\ LoginSucceed(c, u).user = u
           /\ ~LoginSucceed(c, u).failed
<1> DEFINE d == LoginSucceed(c, u)
<1>1. /\ DOMAIN d = ClientFields /\ d.loggedIn = TRUE /\ d.user = u /\ d.failed = FALSE
      /\ d.net = c.net /\ d.shown = c.shown /\ d.feed = c.feed
      /\ d.at = c.at /\ d.arg = c.arg /\ d.view = c.view
      /\ \A p \in ClientFields \ {"loggedIn", "user", "failed"} : d[p] = c[p]
  BY DEF IsClient, ClientFields, LoginSucceed
<1> HIDE DEF d
<1>2. u # NoOne
  BY ClassicAppAssumption
<1>3. IsClient(d)
  BY <1>1, <1>2 DEF IsClient, IsUser, ArgOK
<1>4. Only(c, d, {"loggedIn", "user", "failed"}) /\ d.loggedIn /\ d.user = u /\ ~d.failed
  BY <1>1, <1>3 DEF Only
<1> QED
  BY <1>4 DEF d

LEMMA LoggingOutKnown ==
    ASSUME NEW c, IsClient(c)
    PROVE  /\ Only(c, LoginFailed(c), {"loggedIn", "failed"}) /\ ~LoginFailed(c).loggedIn
           /\ LoginFailed(c).failed
           /\ Only(c, LogUserOut(c), {"loggedIn", "failed"}) /\ ~LogUserOut(c).loggedIn
<1>2. ASSUME NEW d, DOMAIN d = ClientFields, d.loggedIn = FALSE,
             \A p \in ClientFields \ {"loggedIn", "failed"} : d[p] = c[p]
      PROVE  Only(c, d, {"loggedIn", "failed"})
  <2>1. /\ d.net = c.net /\ d.shown = c.shown /\ d.feed = c.feed /\ d.user = c.user
        /\ d.at = c.at /\ d.arg = c.arg /\ d.view = c.view
    BY <1>2 DEF ClientFields
  <2>2. IsClient(d)
    BY <1>2, <2>1 DEF IsClient, IsUser, ArgOK
  <2> QED
    BY <1>2, <2>2 DEF Only
<1>3. ASSUME NEW d, d = LoginFailed(c)
      PROVE  Only(c, d, {"loggedIn", "failed"}) /\ ~d.loggedIn /\ d.failed
  <2>1. /\ DOMAIN d = ClientFields /\ d.loggedIn = FALSE /\ d.failed = TRUE
        /\ \A p \in ClientFields \ {"loggedIn", "failed"} : d[p] = c[p]
    BY <1>3 DEF IsClient, ClientFields, LoginFailed
  <2> QED
    BY <1>2, <2>1
<1>4. ASSUME NEW d, d = LogUserOut(c)
      PROVE  Only(c, d, {"loggedIn", "failed"}) /\ ~d.loggedIn
  <2>1. /\ DOMAIN d = ClientFields /\ d.loggedIn = FALSE
        /\ \A p \in ClientFields \ {"loggedIn", "failed"} : d[p] = c[p]
    BY <1>4 DEF IsClient, ClientFields, LogUserOut
  <2> QED
    BY <1>2, <2>1
<1> QED
  BY <1>3, <1>4

LEMMA FeedKnown ==
    ASSUME NEW c, IsClient(c), NEW x
    PROVE  Only(c, FeedFetched(c, x), {"feed"}) /\ Only(c, LikeToggled(c, x), {"feed"})
<1>1. ASSUME NEW y, DOMAIN y = DOMAIN NoFeed, NEW d, d = [c EXCEPT !.feed = y]
      PROVE  Only(c, d, {"feed"})
  <2>1. /\ DOMAIN d = ClientFields /\ d.feed = y
        /\ \A p \in ClientFields \ {"feed"} : d[p] = c[p]
    BY <1>1 DEF IsClient, ClientFields
  <2>2. /\ d.net = c.net /\ d.shown = c.shown /\ d.loggedIn = c.loggedIn /\ d.user = c.user
        /\ d.at = c.at /\ d.arg = c.arg /\ d.view = c.view
    BY <2>1 DEF ClientFields
  <2>3. IsClient(d)
    BY <1>1, <2>1, <2>2 DEF IsClient, IsUser, ArgOK
  <2> QED
    BY <2>1, <2>3 DEF Only
<1>2. Only(c, FeedFetched(c, x), {"feed"})
  <2> DEFINE y == [loaded |-> TRUE, items |-> c.feed.items \o x.items, last |-> x.last]
  <2>1. FeedFetched(c, x) = [c EXCEPT !.feed = y]
    BY DEF FeedFetched
  <2>2. DOMAIN y = DOMAIN NoFeed
    BY DEF NoFeed
  <2> HIDE DEF y
  <2> QED
    BY <1>1, <2>1, <2>2
<1>3. Only(c, LikeToggled(c, x), {"feed"})
  <2> DEFINE T(i) == [i EXCEPT !.likes = IF c.user \in @ THEN @ \ {c.user} ELSE @ \cup {c.user}]
             z == [n \in DOMAIN c.feed.items |->
                     IF c.feed.items[n].id = x THEN T(c.feed.items[n]) ELSE c.feed.items[n]]
             y == [c.feed EXCEPT !.items = z]
  <2>1. LikeToggled(c, x) = [c EXCEPT !.feed = y]
    BY DEF LikeToggled
  <2> HIDE DEF z
  <2>2. DOMAIN y = DOMAIN NoFeed
    BY DEF IsClient
  <2> HIDE DEF y
  <2> QED
    BY <1>1, <2>1, <2>2
<1> QED
  BY <1>2, <1>3

LEMMA ShownKnown ==
    ASSUME NEW c, IsClient(c), NEW op \in DOMAIN NothingShown, NEW arg
    PROVE  /\ Only(c, Shows(c, op, arg), {"shown"})
           /\ Shows(c, op, arg).shown = [c.shown EXCEPT ![op] = arg]
<1> DEFINE y == [c.shown EXCEPT ![op] = arg]
           d == Shows(c, op, arg)
<1>1. d = [c EXCEPT !.shown = y]
  BY DEF Shows
<1>2. DOMAIN y = DOMAIN NothingShown
  BY DEF IsClient
<1> HIDE DEF y, d
<1>3. /\ DOMAIN d = ClientFields /\ d.shown = y
      /\ \A p \in ClientFields \ {"shown"} : d[p] = c[p]
  BY <1>1 DEF IsClient, ClientFields
<1>4. /\ d.net = c.net /\ d.feed = c.feed /\ d.loggedIn = c.loggedIn /\ d.user = c.user
      /\ d.at = c.at /\ d.arg = c.arg /\ d.view = c.view
  BY <1>3 DEF ClientFields
<1>5. IsClient(d)
  BY <1>2, <1>3, <1>4 DEF IsClient, IsUser, ArgOK
<1> QED
  BY <1>3, <1>5 DEF Only, d, y

LEMMA CupKnown ==
    ASSUME NEW c, IsClient(c), NEW r
    PROVE  Only(c, TournamentReduced(c, r), {"cup"})
<1>1. ASSUME NEW x, NEW d, d = [c EXCEPT !.cup = x] PROVE Only(c, d, {"cup"})
  <2>1. DOMAIN d = ClientFields /\ \A p \in ClientFields \ {"cup"} : d[p] = c[p]
    BY <1>1 DEF IsClient, ClientFields
  <2> QED
    BY <2>1, LooseOnly DEF Loose
<1>2. Only(c, c, {"cup"})
  BY DEF Only
<1>3. TournamentReduced(c, r) = c \/ \E x : TournamentReduced(c, r) = [c EXCEPT !.cup = x]
  <2>1. CASE c.cup = NoCup /\ r.op # "tournament"
    BY <2>1 DEF TournamentReduced
  <2>2. CASE r.op = "tournament"
    <3>1. TournamentReduced(c, r) = [c EXCEPT !.cup = r.data]
      BY <2>2 DEF TournamentReduced
    <3> QED
      BY <3>1
  <2>3. CASE ~(c.cup = NoCup /\ r.op # "tournament") /\ r.op = "addCourse"
    <3> DEFINE x == [c.cup EXCEPT !.courses = @ \cup {r.data}]
    <3>1. TournamentReduced(c, r) = [c EXCEPT !.cup = x]
      BY <2>3 DEF TournamentReduced
    <3> QED
      BY <3>1
  <2>4. CASE ~(c.cup = NoCup /\ r.op # "tournament") /\ r.op = "addPlayer"
    <3> DEFINE x == [c.cup EXCEPT !.players = @ \cup {r.who}]
    <3>1. TournamentReduced(c, r) = [c EXCEPT !.cup = x]
      BY <2>4 DEF TournamentReduced
    <3> QED
      BY <3>1
  <2>5. CASE ~(c.cup = NoCup /\ r.op # "tournament") /\ r.op = "calculatePrices"
    <3> DEFINE x == [c.cup EXCEPT !.prices = r.data]
    <3>1. TournamentReduced(c, r) = [c EXCEPT !.cup = x]
      BY <2>5 DEF TournamentReduced
    <3> QED
      BY <3>1
  <2>6. CASE /\ ~(c.cup = NoCup /\ r.op # "tournament")
             /\ r.op \notin {"tournament", "addCourse", "addPlayer", "calculatePrices"}
    BY <2>6 DEF TournamentReduced
  <2> QED
    BY <2>1, <2>2, <2>3, <2>4, <2>5, <2>6
<1> QED
  BY <1>1, <1>2, <1>3

LEMMA CoursesKnown ==
    ASSUME NEW c, IsClient(c), NEW x, NEW d, d = [c EXCEPT !.courses = x]
    PROVE  Only(c, d, {"courses"}) /\ d.courses = x
<1>1. DOMAIN d = ClientFields /\ (\A p \in ClientFields \ {"courses"} : d[p] = c[p]) /\ d.courses = x
  BY DEF IsClient, ClientFields
<1> QED
  BY <1>1, LooseOnly DEF Loose

-----------------------------------------------------------------------------
(* The requests of a client, and its pages.                                  *)

\* d is c without its request i.
Takes(c, d, i) ==
    /\ Only(c, d, {"net"})
    /\ \E w \in [DOMAIN d.net -> DOMAIN c.net \ {i}] :
         /\ \A j \in DOMAIN d.net : d.net[j] = c.net[w[j]]
         /\ \A j, k \in DOMAIN d.net : w[j] = w[k] => j = k
         /\ \A k \in DOMAIN c.net \ {i} : \E j \in DOMAIN d.net : w[j] = k

LEMMA RequestTaken ==
    ASSUME NEW c, IsClient(c), NEW i \in DOMAIN c.net,
           NEW d, d = [c EXCEPT !.net = RemoveAt(@, i)]
    PROVE  Takes(c, d, i)
<1>1. /\ DOMAIN d = ClientFields /\ d.net = RemoveAt(c.net, i)
      /\ \A p \in ClientFields \ {"net"} : d[p] = c[p]
  BY DEF IsClient, ClientFields
<1>2. IsSequence(c.net) /\ DOMAIN c.net = 1..Len(c.net) /\ Len(c.net) \in Nat
  BY DEF IsClient, IsNet, IsSequence
<1>3. /\ IsSequence(d.net) /\ DOMAIN d.net = 1..(Len(c.net) - 1)
      /\ \A j \in 1..(Len(c.net) - 1) : d.net[j] = IF j < i THEN c.net[j] ELSE c.net[j + 1]
  BY <1>1, <1>2, RemoveFromSequence
<1> DEFINE w == [j \in DOMAIN d.net |-> IF j < i THEN j ELSE j + 1]
<1>4. w \in [DOMAIN d.net -> DOMAIN c.net \ {i}]
  BY <1>2, <1>3
<1>5. \A j \in DOMAIN d.net : d.net[j] = c.net[w[j]]
  BY <1>3
<1>6. \A j, k \in DOMAIN d.net : w[j] = w[k] => j = k
  BY <1>2, <1>3
<1>7. ASSUME NEW k \in DOMAIN c.net \ {i} PROVE \E j \in DOMAIN d.net : w[j] = k
  <2>1. CASE k < i
    <3>1. k \in DOMAIN d.net
      BY <1>2, <1>3, <2>1
    <3> QED
      BY <2>1, <3>1
  <2>2. CASE k > i
    <3>1. k - 1 \in DOMAIN d.net /\ ~(k - 1 < i) /\ k - 1 + 1 = k
      BY <1>2, <1>3, <2>2
    <3> QED
      BY <3>1
  <2> QED
    BY <1>2, <2>1, <2>2
<1> HIDE DEF w
<1>8. IsNet(d.net)
  BY <1>3, <1>4, <1>5 DEF IsNet, IsClient
<1>9. /\ d.shown = c.shown /\ d.feed = c.feed /\ d.loggedIn = c.loggedIn /\ d.user = c.user
      /\ d.at = c.at /\ d.arg = c.arg /\ d.view = c.view
  BY <1>1 DEF ClientFields
<1>10. IsClient(d)
  BY <1>1, <1>8, <1>9 DEF IsClient, IsUser, ArgOK
<1> QED
  BY <1>1, <1>4, <1>5, <1>6, <1>7, <1>10 DEF Only, Takes

LEMMA RequestChanged ==
    ASSUME NEW c, IsClient(c), NEW i \in DOMAIN c.net, NEW q, IsRequest(q),
           NEW d, d = [c EXCEPT !.net[i] = q]
    PROVE  /\ Only(c, d, {"net"}) /\ DOMAIN d.net = DOMAIN c.net /\ d.net[i] = q
           /\ \A j \in DOMAIN c.net : j # i => d.net[j] = c.net[j]
<1>1. /\ DOMAIN d = ClientFields /\ d.net = [c.net EXCEPT ![i] = q]
      /\ \A p \in ClientFields \ {"net"} : d[p] = c[p]
  BY DEF IsClient, ClientFields
<1>2. /\ DOMAIN d.net = DOMAIN c.net /\ d.net[i] = q
      /\ \A j \in DOMAIN c.net : j # i => d.net[j] = c.net[j]
      /\ d.net = [j \in DOMAIN c.net |-> d.net[j]]
  BY <1>1
<1>3. DOMAIN c.net = 1..Len(c.net) /\ Len(c.net) \in Nat
  BY DEF IsClient, IsNet, IsSequence
<1>4. IsSequence(d.net)
  BY <1>2, <1>3, FunctionIsSequence
<1>5. IsNet(d.net)
  BY <1>2, <1>4 DEF IsClient, IsNet
<1>6. /\ d.shown = c.shown /\ d.feed = c.feed /\ d.loggedIn = c.loggedIn /\ d.user = c.user
      /\ d.at = c.at /\ d.arg = c.arg /\ d.view = c.view
  BY <1>1 DEF ClientFields
<1>7. IsClient(d)
  BY <1>1, <1>5, <1>6 DEF IsClient, IsUser, ArgOK
<1> QED
  BY <1>1, <1>2, <1>7 DEF Only

\* The same page for the same person.
SamePage(c, d) ==
    /\ d.loggedIn = c.loggedIn /\ d.user = c.user
    /\ d.at = c.at /\ d.arg = c.arg /\ d.view = c.view

LEMMA SamePageFetches ==
    ASSUME NEW c, NEW d, SamePage(c, d)
    PROVE  Fetches(d) = Fetches(c) /\ EffectsOf(c, d) = {}
<1>1. Owner(d) = Owner(c) /\ \A u : Whose(d, u) = Whose(c, u)
  BY DEF SamePage, Owner, Whose
<1>2. UserTabs(d) = UserTabs(c) /\ YearPage(d) = YearPage(c)
  BY <1>1 DEF SamePage, UserTabs, YearPage
<1>3. Fetches(d) = Fetches(c)
  BY <1>2 DEF SamePage, Fetches
<1> QED
  BY <1>3 DEF EffectsOf, SamePage

\* A change of the store that leaves the page as it is.
LEMMA DispatchQuietly ==
    ASSUME NEW c, NEW c1, IsClient(c1), SamePage(c, c1), NEW d, d = Dispatch(c, c1)
    PROVE  Grows(c1, d, {})
<1>1. d = Render(c, c1, FALSE)
  BY DEF Dispatch, SamePage
<1>2. EffectsOf(c, c1) = {}
  BY SamePageFetches
<1> QED
  BY <1>1, <1>2, RenderGrows

LEMMA DispatchGrows ==
    ASSUME NEW c, NEW c1, IsClient(c1), NEW d, d = Dispatch(c, c1),
           NEW a, a = Adjusted(c, c1)
    PROVE  /\ IsClient(a)
           /\ Grows(a, d, EffectsOf(c, a))
           /\ c1.loggedIn => \A f \in EffectsOf(c, a) : Makes(a, d, f)
           /\ c1.loggedIn /\ ~c.loggedIn => Makes(a, d, Details)
<1>1. d = Render(c, a, FALSE)
  BY DEF Dispatch, Adjusted
<1>2. IsClient(a) /\ a.loggedIn = c1.loggedIn
  BY AdjustedIs DEF Looks
<1> QED
  BY <1>1, <1>2, RenderGrows

LEMMA PushGrows ==
    ASSUME NEW c, IsClient(c), NEW at, NEW arg, Addressed(at, arg), NEW d, d = Push(c, at, arg),
           NEW a, a = Turned(c, at, arg)
    PROVE  /\ IsClient(a)
           /\ Grows(a, d, EffectsOf(c, a))
           /\ c.loggedIn => \A f \in EffectsOf(c, a) : Makes(a, d, f)
           /\ c.loggedIn => Makes(a, d, Details)
<1>1. d = Render(c, a, TRUE)
  BY DEF Push, Turned
<1>2. IsClient(a) /\ a.loggedIn = c.loggedIn
  BY TurnedIs
<1> QED
  BY <1>1, <1>2, RenderGrows

LEMMA LocalGrows ==
    ASSUME NEW c, IsClient(c), NEW view, DOMAIN view = DOMAIN Fresh, view.tab \in 1..5,
           NEW d, d = Local(c, view), NEW a, a = [c EXCEPT !.view = view]
    PROVE  /\ Looks(c, a, view)
           /\ Grows(a, d, EffectsOf(c, a))
           /\ c.loggedIn => \A f \in EffectsOf(c, a) : Makes(a, d, f)
<1>1. d = Render(c, a, FALSE)
  BY DEF Local
<1>2. Looks(c, a, view)
  BY LookingIs
<1>3. IsClient(a) /\ a.loggedIn = c.loggedIn
  BY <1>2 DEF Looks
<1> QED
  BY <1>1, <1>2, <1>3, RenderGrows

-----------------------------------------------------------------------------
(* A page that is loaded.                                                    *)

Starts(c, saved, at) ==
    /\ IsClient(c) /\ c.net = <<>> /\ c.loggedIn = (saved # NoOne) /\ c.user = saved
    /\ c.courses = <<>> /\ c.view = Fresh /\ c.at = at /\ c.arg = <<>> /\ c.feed = NoFeed
    /\ c.shown = NothingShown /\ c.failed = FALSE /\ c.logouts = 0 /\ c.saved = saved
    /\ c.hub = saved /\ c.details = Unknown

LEMMA StartIs ==
    ASSUME NEW saved \in Users \cup {NoOne}, NEW at, at \notin {"/year", "/users", "/tournament"},
           NEW c, c = StartStore(saved, at)
    PROVE  Starts(c, saved, at)
<1>1. /\ DOMAIN c = ClientFields /\ c.net = <<>> /\ c.loggedIn = (saved # NoOne) /\ c.user = saved
      /\ c.courses = <<>> /\ c.view = Fresh /\ c.at = at /\ c.arg = <<>> /\ c.feed = NoFeed
      /\ c.shown = NothingShown /\ c.failed = FALSE /\ c.logouts = 0 /\ c.saved = saved
      /\ c.hub = saved /\ c.details = Unknown
  BY DEF StartStore, ClientFields
<1>2. IsSequence(<<>>)
  BY DEF IsSequence
<1>3. IsNet(c.net)
  BY <1>1, <1>2 DEF IsNet
<1>4. DOMAIN c.view = DOMAIN Fresh /\ c.view.tab \in 1..5
  BY <1>1 DEF Fresh
<1>5. IsUser(c) /\ ArgOK(c)
  BY <1>1 DEF IsUser, ArgOK
<1> QED
  BY <1>1, <1>3, <1>4, <1>5 DEF IsClient, Starts

\* The page d that starts as c, maybe through somebody's link: the App asks for the
\* details of who is remembered, logs in who is in the link, and shows the page.
Loads(c, link, d) ==
    \E m, l :
       /\ Grows(c, m, {}) /\ (c.loggedIn => Makes(c, m, Details))
       /\ IsClient(l)
       /\ link = NoOne => l = m
       /\ link # NoOne => /\ Only(m, l, {"loggedIn", "user", "failed", "saved"})
                          /\ l.loggedIn /\ l.user = link /\ l.saved = link /\ ~l.failed
       /\ Grows(l, d, Range(Fetches(l)))
       /\ l.loggedIn => \A f \in Range(Fetches(l)) : Makes(l, d, f)
       /\ l.loggedIn /\ ~c.loggedIn => Makes(l, d, Details)

LEMMA LoadFacts ==
    ASSUME NEW saved \in Users \cup {NoOne}, NEW link \in Users \cup {NoOne},
           NEW at, at \notin {"/year", "/users", "/tournament"},
           NEW c, c = StartStore(saved, at), NEW d, d = Load(saved, at, link)
    PROVE  Loads(c, link, d)
<1> DEFINE e == [c EXCEPT !.loggedIn = FALSE]
           m == AppUpdated(e, c, FALSE)
           k == LoginSucceed(m, link)
           l == IF link = NoOne THEN m ELSE [k EXCEPT !.saved = link]
           a == AppUpdated(c, l, FALSE)
           b == Started(a, Fetches(l), Range(Fetches(l)))
<1>1. d = UserPageShown(b)
  BY DEF Load
<1>2. IsClient(c)
  BY StartIs DEF Starts
<1>3. ~e.loggedIn
  BY <1>2 DEF IsClient, ClientFields
<1> HIDE DEF e
<1>4. Grows(c, m, {}) /\ (c.loggedIn => Makes(c, m, Details))
  BY <1>2, <1>3, AppUpdatedGrows
<1> HIDE DEF m
<1>5. IsClient(m)
  BY <1>4 DEF Grows
<1>6. ASSUME link # NoOne
      PROVE  /\ Only(m, l, {"loggedIn", "user", "failed", "saved"})
             /\ l.loggedIn /\ l.user = link /\ l.saved = link /\ ~l.failed
  <2>1. /\ Only(m, k, {"loggedIn", "user", "failed"})
        /\ k.loggedIn /\ k.user = link /\ ~k.failed
    BY <1>5, <1>6, LoggingKnown
  <2> HIDE DEF k
  <2>2. l = [k EXCEPT !.saved = link]
    BY <1>6
  <2> HIDE DEF l
  <2>3. DOMAIN l = ClientFields /\ \A p \in ClientFields \ {"saved"} : l[p] = k[p]
    BY <2>1, <2>2 DEF Only, IsClient, ClientFields
  <2>7. IsClient(k) /\ {"saved"} \in SUBSET Loose
    BY <2>1 DEF Only, Loose
  <2>4. Only(k, l, {"saved"})
    BY <2>3, <2>7, LooseOnly
  <2>5. l.saved = link
    BY <2>1, <2>2 DEF Only, IsClient, ClientFields
  <2>6. l.loggedIn = k.loggedIn /\ l.user = k.user /\ l.failed = k.failed
    BY <2>4 DEF Only, ClientFields
  <2> QED
    BY <2>1, <2>4, <2>5, <2>6 DEF Only
<1>7. link = NoOne => l = m
  OBVIOUS
<1>8. IsClient(l)
  BY <1>5, <1>6, <1>7 DEF Only
<1> HIDE DEF l, k
<1>9. Grows(l, a, {}) /\ (l.loggedIn /\ ~c.loggedIn => Makes(l, a, Details))
  BY <1>8, AppUpdatedGrows
<1> HIDE DEF a
<1>10. IsClient(a) /\ a.user = l.user /\ a.loggedIn = l.loggedIn
  BY <1>9 DEF Grows, Same
<1> DEFINE F == Range(Fetches(l))
<1>11. Grows(a, b, F) /\ (a.loggedIn => \A f \in F : Makes(a, b, f))
  BY <1>8, <1>10, StartedGrows
<1> HIDE DEF b, F
<1>12. IsClient(b)
  BY <1>11 DEF Grows
<1>13. Grows(b, d, {})
  BY <1>1, <1>12, UserPageGrows
<1>14. Grows(l, b, F)
  BY <1>9, <1>11, GrowsTransitive DEF NoFeedIn
<1>15. Grows(l, d, F)
  BY <1>13, <1>14, GrowsTransitive DEF NoFeedIn
<1>16. ASSUME l.loggedIn, NEW f \in F PROVE Makes(l, d, f)
  <2>1. Makes(l, b, f)
    BY <1>9, <1>10, <1>11, <1>16, MakesLater
  <2> QED
    BY <1>13, <1>14, <2>1, MakesStays
<1>17. ASSUME l.loggedIn, ~c.loggedIn PROVE Makes(l, d, Details)
  <2>1. Makes(l, a, Details)
    BY <1>9, <1>17
  <2>2. Makes(l, b, Details)
    BY <1>9, <1>11, <2>1, MakesStays
  <2> QED
    BY <1>13, <1>14, <2>2, MakesStays
<1> QED
  BY <1>4, <1>6, <1>7, <1>8, <1>15, <1>16, <1>17 DEF F, Loads

\* The requests that the page before had sent, answered to nobody.
LeftOver(c, old) ==
    /\ IsNet(old)
    /\ \A i \in DOMAIN old : \E j \in DOMAIN c.net :
          c.net[j].phase = "sent" /\ old[i] = [c.net[j] EXCEPT !.page = FALSE]

LEMMA SentIs ==
    ASSUME IsClient(app), NEW old, old = [i \in DOMAIN Sent |-> [Sent[i] EXCEPT !.page = FALSE]]
    PROVE  LeftOver(app, old) /\ (Sent = <<>> => DOMAIN old = {})
<1> DEFINE S == {i \in DOMAIN app.net : app.net[i].phase = "sent"}
<1>1. IsSequence(app.net)
  BY DEF IsClient, IsNet
<1>2. Sent = Picked(app.net, S)
  BY DEF Sent
<1> DEFINE n == app.net
<1>3. /\ IsSequence(Sent)
      /\ \E f \in [DOMAIN Sent -> S] : \A k \in DOMAIN Sent : Sent[k] = app.net[f[k]]
  <2>1. S \in SUBSET DOMAIN n
    OBVIOUS
  <2>2. IsSequence(n) /\ Sent = Picked(n, S)
    BY <1>1, <1>2
  <2> HIDE DEF S, n
  <2>3. PickedFrom(n, S, Sent)
    BY <2>1, <2>2, PickedMembers
  <2> QED
    BY <2>3 DEF n, PickedFrom
<1>4. DOMAIN Sent = 1..Len(Sent) /\ Len(Sent) \in Nat
  BY <1>3 DEF IsSequence
<1>5. DOMAIN old = 1..Len(Sent) /\ old = [i \in 1..Len(Sent) |-> old[i]]
  BY <1>4
<1>6. IsSequence(old)
  BY <1>4, <1>5, FunctionIsSequence
<1>7. ASSUME NEW i \in DOMAIN old
      PROVE  \E j \in DOMAIN app.net :
                app.net[j].phase = "sent" /\ old[i] = [app.net[j] EXCEPT !.page = FALSE]
  <2>1. PICK f \in [DOMAIN Sent -> S] : \A k \in DOMAIN Sent : Sent[k] = app.net[f[k]]
    BY <1>3
  <2>2. i \in DOMAIN Sent /\ old[i] = [Sent[i] EXCEPT !.page = FALSE]
    BY <1>7
  <2>3. f[i] \in S /\ Sent[i] = app.net[f[i]]
    BY <2>1, <2>2
  <2> QED
    BY <2>2, <2>3
<1>8. \A i \in DOMAIN old : IsRequest(old[i])
  <2> SUFFICES ASSUME NEW i \in DOMAIN old PROVE IsRequest(old[i])
    OBVIOUS
  <2>1. PICK j \in DOMAIN app.net : old[i] = [app.net[j] EXCEPT !.page = FALSE]
    BY <1>7
  <2>2. IsRequest(app.net[j])
    BY DEF IsClient, IsNet
  <2> QED
    BY <2>1, <2>2 DEF IsRequest, RequestFields
<1>9. Sent = <<>> => DOMAIN old = {}
  OBVIOUS
<1> QED
  BY <1>6, <1>7, <1>8, <1>9 DEF IsNet, LeftOver

Joins(c, d, old) ==
    /\ Only(c, d, {"net"})
    /\ \A i \in DOMAIN d.net :
         \/ i \in DOMAIN old /\ d.net[i] = old[i]
         \/ \E j \in DOMAIN c.net : d.net[i] = c.net[j]
    /\ \A j \in DOMAIN c.net : \E i \in DOMAIN d.net : d.net[i] = c.net[j]

LEMMA Prepending ==
    ASSUME NEW c, IsClient(c), NEW old, IsNet(old), NEW d, d = [c EXCEPT !.net = old \o @]
    PROVE  Joins(c, d, old)
<1>1. /\ DOMAIN d = ClientFields /\ d.net = old \o c.net
      /\ \A p \in ClientFields \ {"net"} : d[p] = c[p]
  BY DEF IsClient, ClientFields
<1>2. IsSequence(old) /\ IsSequence(c.net)
  BY DEF IsClient, IsNet
<1> DEFINE n == c.net
<1>7. /\ IsSequence(old \o n)
      /\ \A i \in DOMAIN (old \o n) :
           \/ i \in DOMAIN old /\ (old \o n)[i] = old[i]
           \/ i \notin DOMAIN old /\ \E j \in DOMAIN n : (old \o n)[i] = n[j]
      /\ \A j \in DOMAIN n : \E i \in DOMAIN (old \o n) : (old \o n)[i] = n[j]
  <2> HIDE DEF n
  <2>1. IsSequence(n)
    BY <1>2 DEF n
  <2> QED
    BY <1>2, <2>1, ConcatSequences
<1>3. /\ IsSequence(d.net)
      /\ \A i \in DOMAIN d.net :
           \/ i \in DOMAIN old /\ d.net[i] = old[i]
           \/ \E j \in DOMAIN c.net : d.net[i] = c.net[j]
      /\ \A j \in DOMAIN c.net : \E i \in DOMAIN d.net : d.net[i] = c.net[j]
  BY <1>1, <1>7
<1>4. IsNet(d.net)
  BY <1>3 DEF IsNet, IsClient
<1>5. /\ d.shown = c.shown /\ d.feed = c.feed /\ d.loggedIn = c.loggedIn /\ d.user = c.user
      /\ d.at = c.at /\ d.arg = c.arg /\ d.view = c.view
  BY <1>1 DEF ClientFields
<1>6. IsClient(d)
  BY <1>1, <1>4, <1>5 DEF IsClient, IsUser, ArgOK
<1> QED
  BY <1>1, <1>3, <1>6 DEF Only, Joins

-----------------------------------------------------------------------------
(* What a person may do to the client.                                       *)

\* Another page, or another address of the same one.
Turns ==
    \E at, arg : /\ Addressed(at, arg) /\ app.view.hole = <<>>
                 /\ at = "/tournament" => arg[1] \in DOMAIN db.cups
                 /\ app' = Push(app, at, arg)
\* Another view of the page; of the feed its next page or the first.
Views(view) ==
    /\ DOMAIN view = DOMAIN Fresh /\ view.tab \in 1..5 /\ view.hole = app.view.hole
    /\ \/ view.feed = app.view.feed
       \/ /\ app.at = "/" /\ app.loggedIn
          /\ (view.feed = app.view.feed + 1 /\ ~app.feed.last) \/ view.feed = 1
LooksElsewhere == \E view : Views(view) /\ app' = Local(app, view)
\* A request of somebody who need not be logged in.
AllowedFreely(op, arg) ==
    \/ /\ op = "login" /\ arg[1] \in Users
       /\ app.at \in {"/login", "/leaders"} /\ ~app.failed
    \/ op = "createUser" /\ arg[1] \in Users /\ app.at = "/signup" /\ ~app.failed
    \/ op = "forgotPassword"
    \/ op = "setPassword" /\ app.at = "/resetpassword"
\* A request of whoever is logged in.
Allowed(op, arg) ==
    \/ op \in {"set", "changeEmail"} /\ arg[1] \in Settings
    \/ op \in {"changePassword", "searchUsers", "addFriend", "createCourse"}
    \/ op = "courses" /\ Single(arg)
    \/ op = "toggleLike" /\ \E i \in DOMAIN app.feed.items : arg = <<app.feed.items[i].id>>
    \/ op = "createTournament" /\ app.at \in {"/tournaments", "/user", "/users"}
    \/ /\ op \in {"addPlayer", "addCourse", "calculatePrices"}
       /\ app.at = "/tournament" /\ arg[1] = app.arg[1]
       /\ op = "addCourse" => app.user = app.cup.admin
AsksFor ==
    \/ \E op, arg : AllowedFreely(op, arg) /\ app' = AsksFreely(app, op, arg)
    \/ \E op, arg : Allowed(op, arg) /\ app' = Asks(app, op, arg)
\* The dialogue of a hole is opened or closed.
OpensHole ==
    \E h \in 1..2 : /\ CourseIsShown
                    /\ app' = [app EXCEPT !.view.hole = <<h, ShownLayout.holes[h]>>]
ClosesHole == app' = [app EXCEPT !.view.hole = <<>>]
\* What has to do with nothing else.
Aside ==
    \/ \E n \in Ids : app' = hideNotification(app, n)
    \/ app' = connectToHub(fetchUserDetails(app, TRUE))
    \/ app' = [app EXCEPT !.hub = NoOne]

Deed == \/ Turns \/ LooksElsewhere \/ AsksFor \/ OpensHole \/ ClosesHole \/ Aside
        \/ app.loggedIn /\ app' = logout(app)
Does == Deed /\ Moves /\ calm' = (calm /\ ~InFlight) /\ UNCHANGED <<db, plainSave>>

LEMMA ActsDoes ==
    ASSUME NEW c, Acts(c)
    PROVE  /\ app' = c
           /\ Deed => Does
BY DEF Acts, Does

LEMMA GoToDoes ==
    ASSUME NEW at, NEW arg, Addressed(at, arg), ~Covered,
           at = "/tournament" => arg[1] \in DOMAIN db.cups, GoTo(at, arg)
    PROVE  Does
<1>1. Acts(Push(app, at, arg))
  BY DEF GoTo
<1>2. app' = Push(app, at, arg)
  BY <1>1, ActsDoes
<1>3. app.view.hole = <<>>
  BY DEF Covered
<1>4. Turns
  BY <1>2, <1>3 DEF Turns
<1> QED
  BY <1>1, <1>4, ActsDoes DEF Deed

LEMMA PlainGoToDoes ==
    ASSUME NEW at, at \notin {"/year", "/tournament"}, ~Covered, GoTo(at, <<>>) PROVE Does
BY GoToDoes DEF Addressed

LEMMA YearDoes ==
    ASSUME NEW u, NEW y, ~Covered, GoTo("/year", <<u, y>>) PROVE Does
<1>1. Addressed("/year", <<u, y>>)
  BY DEF Addressed, Couple
<1> QED
  BY <1>1, GoToDoes

LEMMA AskDoes ==
    ASSUME NEW op, NEW arg,
           \/ Allowed(op, arg) /\ Acts(Asks(app, op, arg))
           \/ AllowedFreely(op, arg) /\ Acts(AsksFreely(app, op, arg))
    PROVE  Does
<1>1. CASE Allowed(op, arg) /\ Acts(Asks(app, op, arg))
  <2>1. app' = Asks(app, op, arg) /\ (Deed => Does)
    BY <1>1, ActsDoes
  <2>2. AsksFor
    BY <1>1, <2>1 DEF AsksFor
  <2> QED
    BY <2>1, <2>2 DEF Deed
<1>2. CASE AllowedFreely(op, arg) /\ Acts(AsksFreely(app, op, arg))
  <2>1. app' = AsksFreely(app, op, arg) /\ (Deed => Does)
    BY <1>2, ActsDoes
  <2>2. AsksFor
    BY <1>2, <2>1 DEF AsksFor
  <2> QED
    BY <2>1, <2>2 DEF Deed
<1> QED
  BY <1>1, <1>2

LEMMA LocalDoes ==
    ASSUME NEW view, Views(view), Acts(Local(app, view)) PROVE Does
<1>1. app' = Local(app, view) /\ (Deed => Does)
  BY ActsDoes
<1>2. LooksElsewhere
  BY <1>1 DEF LooksElsewhere
<1> QED
  BY <1>1, <1>2 DEF Deed

LEMMA ViewsOf ==
    ASSUME IsClient(app), NEW view,
           \/ \E t \in 1..5 : view = [app.view EXCEPT !.tab = t, !.rounds = 1, !.months = 1]
           \/ view = [app.view EXCEPT !.rounds = 3 - @]
           \/ view = [app.view EXCEPT !.months = 3 - @]
           \/ view = [app.view EXCEPT !.month = 1 - @]
           \/ /\ view = [app.view EXCEPT !.feed = @ + 1]
              /\ app.at = "/" /\ app.loggedIn /\ ~app.feed.last
           \/ view = [app.view EXCEPT !.feed = 1] /\ app.at = "/" /\ app.loggedIn
    PROVE  Views(view)
<1>1. DOMAIN app.view = {"feed", "tab", "rounds", "months", "month", "hole"} /\ app.view.tab \in 1..5
  BY DEF IsClient, Fresh
<1>2. DOMAIN Fresh = {"feed", "tab", "rounds", "months", "month", "hole"}
  BY DEF Fresh
<1>3. /\ DOMAIN view = DOMAIN Fresh /\ view.tab \in 1..5 /\ view.hole = app.view.hole
      /\ \/ view.feed = app.view.feed
         \/ /\ app.at = "/" /\ app.loggedIn
            /\ (view.feed = app.view.feed + 1 /\ ~app.feed.last) \/ view.feed = 1
  <2>1. ASSUME NEW t \in 1..5, view = [app.view EXCEPT !.tab = t, !.rounds = 1, !.months = 1]
        PROVE  /\ DOMAIN view = DOMAIN Fresh /\ view.tab \in 1..5 /\ view.hole = app.view.hole
               /\ view.feed = app.view.feed
    BY <1>1, <1>2, <2>1
  <2>2. ASSUME view = [app.view EXCEPT !.rounds = 3 - @]
        PROVE  /\ DOMAIN view = DOMAIN Fresh /\ view.tab \in 1..5 /\ view.hole = app.view.hole
               /\ view.feed = app.view.feed
    BY <1>1, <1>2, <2>2
  <2>3. ASSUME view = [app.view EXCEPT !.months = 3 - @]
        PROVE  /\ DOMAIN view = DOMAIN Fresh /\ view.tab \in 1..5 /\ view.hole = app.view.hole
               /\ view.feed = app.view.feed
    BY <1>1, <1>2, <2>3
  <2>4. ASSUME view = [app.view EXCEPT !.month = 1 - @]
        PROVE  /\ DOMAIN view = DOMAIN Fresh /\ view.tab \in 1..5 /\ view.hole = app.view.hole
               /\ view.feed = app.view.feed
    BY <1>1, <1>2, <2>4
  <2>5. ASSUME view = [app.view EXCEPT !.feed = @ + 1]
        PROVE  /\ DOMAIN view = DOMAIN Fresh /\ view.tab \in 1..5 /\ view.hole = app.view.hole
               /\ view.feed = app.view.feed + 1
    BY <1>1, <1>2, <2>5
  <2>6. ASSUME view = [app.view EXCEPT !.feed = 1]
        PROVE  /\ DOMAIN view = DOMAIN Fresh /\ view.tab \in 1..5 /\ view.hole = app.view.hole
               /\ view.feed = 1
    BY <1>1, <1>2, <2>6
  <2> QED
    BY <2>1, <2>2, <2>3, <2>4, <2>5, <2>6
<1> QED
  BY <1>3 DEF Views

LEMMA PagesDo ==
    ASSUME IsClient(app), ~Covered, Pages PROVE Does
<1>1. CASE NavBar
  <2>1. PICK at \in {"/", "/leaders"} : GoTo(at, <<>>)
    BY <1>1 DEF NavBar
  <2> QED
    BY <2>1, PlainGoToDoes
<1>2. CASE NavMenu
  <2>1. CASE \E at \in {"/courses", "/tournaments", "/friends", "/user", "/settings"} : GoTo(at, <<>>)
    BY <2>1, PlainGoToDoes
  <2>2. CASE GoTo("/year", <<app.user, NumYears>>)
    BY <2>2, YearDoes
  <2>3. CASE app.loggedIn /\ Acts(logout(app))
    BY <2>3, ActsDoes DEF Deed
  <2> QED
    BY <1>2, <2>1, <2>2, <2>3 DEF NavMenu
<1>3. CASE Home
  <2>1. PICK at \in {"/login", "/signup"} : GoTo(at, <<>>)
    BY <1>3 DEF Home
  <2> QED
    BY <2>1, PlainGoToDoes
<1>4. CASE Feed
  <2>1. ASSUME NEW i \in DOMAIN app.feed.items, Acts(toggleLike(app, app.feed.items[i].id))
        PROVE  Does
    <3>1. Allowed("toggleLike", <<app.feed.items[i].id>>)
      BY DEF Allowed
    <3> QED
      BY <2>1, <3>1, AskDoes DEF toggleLike
  <2>2. ASSUME ~app.feed.last, Acts(Local(app, [app.view EXCEPT !.feed = @ + 1])) PROVE Does
    BY <1>4, <2>2, ViewsOf, LocalDoes DEF Feed
  <2>3. ASSUME Acts(Local(app, [app.view EXCEPT !.feed = 1])) PROVE Does
    BY <1>4, <2>3, ViewsOf, LocalDoes DEF Feed
  <2> QED
    BY <1>4, <2>1, <2>2, <2>3 DEF Feed
<1>5. CASE AddFriends
  <2>1. CASE Acts(searchUsers(app, 3))
    <3>1. Allowed("searchUsers", <<>>)
      BY DEF Allowed
    <3>2. searchUsers(app, 3) = Asks(app, "searchUsers", <<>>)
      BY DEF searchUsers
    <3> QED
      BY <2>1, <3>1, <3>2, AskDoes
  <2>2. CASE \E u \in app.searched : Acts(searchUsers(addFriend(app, u), 0))
    <3>1. PICK u : Acts(searchUsers(addFriend(app, u), 0))
      BY <2>2
    <3>2. searchUsers(addFriend(app, u), 0) = Asks(app, "addFriend", <<u>>)
      BY DEF searchUsers, addFriend
    <3>3. Allowed("addFriend", <<u>>)
      BY DEF Allowed
    <3> QED
      BY <3>1, <3>2, <3>3, AskDoes
  <2> QED
    BY <1>5, <2>1, <2>2 DEF AddFriends
<1>6. CASE Friends
  <2>1. PICK u : GoTo("/users", <<u>>)
    BY <1>6 DEF Friends
  <2>2. Addressed("/users", <<u>>)
    BY DEF Addressed
  <2> QED
    BY <2>1, <2>2, GoToDoes
<1>7. CASE Login
  <2>1. app.at \in {"/login", "/leaders"} /\ ~app.failed
    BY <1>7 DEF Login
  <2>2. ASSUME NEW u \in Users, NEW right, Acts(requestLogin(app, u, right)) PROVE Does
    <3>1. AllowedFreely("login", <<u, right>>)
      BY <2>1 DEF AllowedFreely
    <3> QED
      BY <2>2, <3>1, AskDoes DEF requestLogin
  <2>3. ASSUME Acts(forgotPassword(app)) PROVE Does
    <3>1. AllowedFreely("forgotPassword", <<>>)
      BY DEF AllowedFreely
    <3> QED
      BY <2>3, <3>1, AskDoes DEF forgotPassword
  <2> QED
    BY <1>7, <2>2, <2>3 DEF Login
<1>8. CASE Signup
  <2>1. PICK u \in Users : app.at = "/signup" /\ ~app.failed /\ Acts(createUser(app, u))
    BY <1>8 DEF Signup
  <2>2. AllowedFreely("createUser", <<u>>)
    BY <2>1 DEF AllowedFreely
  <2> QED
    BY <2>1, <2>2, AskDoes DEF createUser
<1>9. CASE ResetPassword
  <2>1. AllowedFreely("setPassword", <<>>)
    BY <1>9 DEF ResetPassword, AllowedFreely
  <2> QED
    BY <1>9, <2>1, AskDoes DEF ResetPassword, setPassword
<1>10. \A s \in Settings : \A v : Allowed("set", <<s, v>>) /\ Allowed("changeEmail", <<s, v>>)
  BY DEF Allowed
<1>11. CASE CountryPicker
  <2>1. PICK v : Acts(setCountry(app, v))
    BY <1>11 DEF CountryPicker
  <2> QED
    BY <1>10, <2>1, AskDoes DEF setCountry, Settings
<1>12. CASE EmojiPicker
  <2>1. PICK v : Acts(setEmoji(app, v))
    BY <1>12 DEF EmojiPicker
  <2> QED
    BY <1>10, <2>1, AskDoes DEF setEmoji, Settings
<1>13. CASE UserSettings
  <2>1. CASE Acts(setSimpleScoring(app, 1 - app.details.set.simpleScoring))
    BY <1>10, <2>1, AskDoes DEF setSimpleScoring, Settings
  <2>2. CASE Acts(changePassword(app))
    <3>1. Allowed("changePassword", <<>>)
      BY DEF Allowed
    <3> QED
      BY <2>2, <3>1, AskDoes DEF changePassword
  <2> QED
    BY <1>11, <1>12, <1>13, <2>1, <2>2 DEF UserSettings
<1>14. CASE UpdateEmailForm
  <2>1. PICK v : Acts(changeEmail(app, v))
    BY <1>14 DEF UpdateEmailForm
  <2> QED
    BY <1>10, <2>1, AskDoes DEF changeEmail, Settings
<1>15. CASE User
  <2>1. ASSUME NEW t \in 1..5,
               Acts(Local(app, [app.view EXCEPT !.tab = t, !.rounds = 1, !.months = 1]))
        PROVE  Does
    BY <2>1, ViewsOf, LocalDoes
  <2>2. CASE GoTo("/year", <<Whose(app, Owner(app)), NumYears>>)
    BY <2>2, YearDoes
  <2> QED
    BY <1>15, <2>1, <2>2 DEF User
<1>16. CASE UserRounds
  BY <1>16, ViewsOf, LocalDoes DEF UserRounds
<1>17. CASE UserStats
  BY <1>17, ViewsOf, LocalDoes DEF UserStats
<1>18. CASE UserYearSummary
  <2>1. PICK y : GoTo("/year", <<app.arg[1], y>>)
    BY <1>18 DEF UserYearSummary
  <2> QED
    BY <2>1, YearDoes
<1>19. CASE LeaderBoard
  BY <1>19, ViewsOf, LocalDoes DEF LeaderBoard
<1>20. \A n : Addressed("/courses", <<n>>)
  BY DEF Addressed, Single
<1>21. \A m, n : Addressed("/courses", <<m, n>>)
  BY DEF Addressed, Couple
<1>22. \A f : Allowed("courses", <<f>>)
  BY DEF Allowed, Single
<1>23. CASE CoursesPage
  <2>1. CASE \E f \in Courses \cup {""} : Acts(fetchCourses(app, f))
    BY <1>22, <2>1, AskDoes DEF fetchCourses
  <2>2. CASE \E g \in Range(app.courses) : GoTo("/courses", <<g.name>>)
    BY <1>20, <2>2, GoToDoes
  <2> QED
    BY <1>23, <2>1, <2>2 DEF CoursesPage
<1>24. CASE CourseComponent
  <2>1. PICK l : GoTo("/courses", <<app.arg[1], l.id>>)
    BY <1>24 DEF CourseComponent
  <2> QED
    BY <1>21, <2>1, GoToDoes
<1>25. CASE NewCourse
  <2>1. PICK name : Acts(createCourse(app, name))
    BY <1>25 DEF NewCourse
  <2>2. Allowed("createCourse", <<name>>)
    BY DEF Allowed
  <2> QED
    BY <2>1, <2>2, AskDoes DEF createCourse
<1>26. CASE \E h \in 1..2 : EditHole(h)
  <2>1. PICK h \in 1..2 : EditHole(h)
    BY <1>26
  <2>2. CourseIsShown /\ Acts([app EXCEPT !.view.hole = <<h, ShownLayout.holes[h]>>])
    BY <2>1 DEF EditHole
  <2>3. OpensHole
    BY <2>2, ActsDoes DEF OpensHole
  <2> QED
    BY <2>2, <2>3, ActsDoes DEF Deed
<1>27. CASE Tournaments
  <2>1. PICK id \in DOMAIN db.cups : GoTo("/tournament", <<id>>)
    BY <1>27 DEF Tournaments
  <2>2. Addressed("/tournament", <<id>>)
    BY DEF Addressed, Single
  <2> QED
    BY <2>1, <2>2, GoToDoes
<1>28. CASE NewTournament
  <2>1. Allowed("createTournament", <<>>)
    BY <1>28 DEF NewTournament, Allowed
  <2> QED
    BY <1>28, <2>1, AskDoes DEF NewTournament, createTournament
<1>29. ASSUME app.at = "/tournament"
       PROVE  /\ Allowed("addPlayer", <<app.arg[1]>>)
              /\ Allowed("calculatePrices", <<app.arg[1]>>)
              /\ app.user = app.cup.admin => \A l : Allowed("addCourse", <<app.arg[1], l>>)
  BY <1>29 DEF Allowed
<1>30. CASE Tournament
  <2>1. CASE Acts(addPlayerToTournament(app, app.arg[1]))
    BY <1>29, <1>30, <2>1, AskDoes DEF Tournament, addPlayerToTournament
  <2>2. CASE Acts(calculatePrices(app, app.arg[1]))
    BY <1>29, <1>30, <2>2, AskDoes DEF Tournament, calculatePrices
  <2> QED
    BY <1>30, <2>1, <2>2 DEF Tournament
<1>31. CASE AddCourse
  <2>1. CASE \E f \in Courses : Acts(fetchCourses(app, f))
    BY <1>22, <2>1, AskDoes DEF fetchCourses
  <2>2. ASSUME NEW l, Acts(addCourseToTournament(app, app.arg[1], l)) PROVE Does
    BY <1>29, <1>31, <2>2, AskDoes DEF AddCourse, addCourseToTournament
  <2> QED
    BY <1>31, <2>1, <2>2 DEF AddCourse
<1> QED
  BY <1>1, <1>2, <1>3, <1>4, <1>5, <1>6, <1>7, <1>8, <1>9, <1>13, <1>14, <1>15, <1>16, <1>17,
     <1>18, <1>19, <1>23, <1>24, <1>25, <1>26, <1>27, <1>28, <1>30, <1>31 DEF Pages

LEMMA PersonDoes ==
    ASSUME IsClient(app), Person \/ HubLost
    PROVE  \/ Does \/ SaveAndNext
           \/ \E at \in visit.pages, link \in Users \cup {NoOne} : LoadPage(at, link)
<1>1. CASE ~Covered /\ Pages
  BY <1>1, PagesDo
<1>2. \A s \in Settings : \A v : Allowed("set", <<s, v>>)
  BY DEF Allowed
<1>3. CASE NewsMessages
  <2>1. Acts(setNewsSeen(app))
    BY <1>3 DEF NewsMessages
  <2> QED
    BY <1>2, <2>1, AskDoes DEF setNewsSeen, Settings
<1>4. CASE InitSettings
  <2>1. CASE CountryPicker
    <3>1. PICK v : Acts(setCountry(app, v))
      BY <2>1 DEF CountryPicker
    <3> QED
      BY <1>2, <3>1, AskDoes DEF setCountry, Settings
  <2>2. CASE EmojiPicker
    <3>1. PICK v : Acts(setEmoji(app, v))
      BY <2>2 DEF EmojiPicker
    <3> QED
      BY <1>2, <3>1, AskDoes DEF setEmoji, Settings
  <2>3. CASE Acts(setSettingsInitialized(app))
    BY <1>2, <2>3, AskDoes DEF setSettingsInitialized, Settings
  <2> QED
    BY <1>4, <2>1, <2>2, <2>3 DEF InitSettings
<1>5. CASE CloseHole
  <2>1. Acts([app EXCEPT !.view.hole = <<>>])
    BY <1>5 DEF CloseHole
  <2>2. app' = [app EXCEPT !.view.hole = <<>>] /\ (Deed => Does)
    BY <2>1, ActsDoes
  <2>3. Deed
    BY <2>2 DEF Deed, ClosesHole
  <2> QED
    BY <2>2, <2>3
<1>6. CASE Notifications
  <2>1. PICK n \in Ids : Acts(hideNotification(app, n))
    BY <1>6 DEF Notifications
  <2>2. app' = hideNotification(app, n) /\ (Deed => Does)
    BY <2>1, ActsDoes
  <2>3. Deed
    BY <2>2 DEF Deed, Aside
  <2> QED
    BY <2>2, <2>3
<1>7. CASE Focus
  <2>1. Acts(connectToHub(fetchUserDetails(app, TRUE)))
    BY <1>7 DEF Focus
  <2>2. app' = connectToHub(fetchUserDetails(app, TRUE)) /\ (Deed => Does)
    BY <2>1, ActsDoes
  <2>3. Deed
    BY <2>2 DEF Deed, Aside
  <2> QED
    BY <2>2, <2>3
<1>8. CASE HubLost
  <2>1. Acts([app EXCEPT !.hub = NoOne])
    BY <1>8 DEF HubLost
  <2>2. app' = [app EXCEPT !.hub = NoOne] /\ (Deed => Does)
    BY <2>1, ActsDoes
  <2>3. Deed
    BY <2>2 DEF Deed, Aside
  <2> QED
    BY <2>2, <2>3
<1> QED
  BY <1>1, <1>3, <1>4, <1>5, <1>6, <1>7, <1>8 DEF Person

-----------------------------------------------------------------------------
(* What an answer makes of the client.                                       *)

\* What the reducers make of the client, before the components notice.
Reduced(c, r, n) ==
    IF NeedsDetails(r) /\ ~c.details.fetched THEN showNotification(c, n) ELSE
    CASE r.op \in {"set", "changeEmail"} -> SetDetail(c, r.arg[1], r.arg[2])
      [] r.op = "addFriend"     -> FriendAdded(c, r.arg[1])
      [] r.op = "searchUsers"   -> UsersFound(c, r.data)
      [] r.op = "toggleLike"    -> LikeToggled(c, r.arg[1])
      [] r.op = "feed"          -> FeedFetched(c, r.data)
      [] r.op = "details"       -> DetailsFetched(c, r.who, r.data)
      [] r.op = "moreDetails"   -> WithProfile(c, r.arg[1], r.data)
      [] r.op \in DOMAIN NothingShown -> Shows(c, r.op, r.arg)
      [] r.op = "courses"       -> [c EXCEPT !.courses = Grouped(r.data)]
      [] r.op = "createCourse"  -> [c EXCEPT !.courses = CourseCreated(@, r.data)]
      [] r.op = "updateCourse"  -> [c EXCEPT !.courses = CourseUpdated(@, r.data)]
      [] r.op \in {"forgotPassword", "changePassword"} -> c
      [] OTHER                  -> TournamentReduced(c, r)
\* The parts of the client an answer to op may change.
Parts(op) ==
    {"notes", "alarms", "profiles", "searched"} \cup
    (IF op \in {"set", "changeEmail", "addFriend", "details"} THEN {"details"}
     ELSE IF op \in {"toggleLike", "feed"} THEN {"feed"}
     ELSE IF op \in DOMAIN NothingShown THEN {"shown"}
     ELSE IF op \in {"courses", "createCourse", "updateCourse"} THEN {"courses"}
     ELSE IF op \in CupOps THEN {"cup"} ELSE {})

LEMMA OnlyMore ==
    ASSUME NEW c, NEW d, NEW S, NEW T, Only(c, d, S), S \subseteq T PROVE Only(c, d, T)
BY DEF Only

LEMMA ReducedIs ==
    ASSUME NEW c, IsClient(c), NEW r, r.op \in Requests \ Turning, NEW n, NEW d, d = Reduced(c, r, n)
    PROVE  Only(c, d, Parts(r.op))
<1>1. CASE NeedsDetails(r) /\ ~c.details.fetched
  <2>1. d = showNotification(c, n)
    BY <1>1 DEF Reduced
  <2>2. Only(c, d, {"notes", "alarms"})
    BY <2>1, Notified
  <2>3. {"notes", "alarms"} \subseteq Parts(r.op)
    BY DEF Parts
  <2> QED
    BY <2>2, <2>3, OnlyMore
<1>2. CASE ~(NeedsDetails(r) /\ ~c.details.fetched)
  <2>1. CASE r.op \in {"set", "changeEmail"}
    <3>1. d = SetDetail(c, r.arg[1], r.arg[2])
      BY <1>2, <2>1 DEF Reduced, NothingShown
    <3>2. Only(c, d, {"details"})
      BY <3>1, SettingKnown
    <3>3. {"details"} \subseteq Parts(r.op)
      BY <2>1 DEF Parts
    <3> QED
      BY <3>2, <3>3, OnlyMore
  <2>2. CASE r.op \in {"addFriend", "searchUsers"}
    <3>1. CASE r.op = "addFriend"
      <4>1. d = FriendAdded(c, r.arg[1])
        BY <1>2, <3>1 DEF Reduced, NothingShown
      <4>2. Only(c, d, {"details", "searched"})
        BY <4>1, FriendsKnown
      <4>3. {"details", "searched"} \subseteq Parts(r.op)
        BY <3>1 DEF Parts
      <4> QED
        BY <4>2, <4>3, OnlyMore
    <3>2. CASE r.op = "searchUsers"
      <4>1. d = UsersFound(c, r.data)
        BY <1>2, <3>2 DEF Reduced, NothingShown
      <4>2. Only(c, d, {"searched"})
        BY <4>1, FriendsKnown
      <4>3. {"searched"} \subseteq Parts(r.op)
        BY DEF Parts
      <4> QED
        BY <4>2, <4>3, OnlyMore
    <3> QED
      BY <2>2, <3>1, <3>2
  <2>3. CASE r.op \in {"toggleLike", "feed"}
    <3>1. d = LikeToggled(c, r.arg[1]) \/ d = FeedFetched(c, r.data)
      BY <1>2, <2>3 DEF Reduced, NothingShown
    <3>2. Only(c, d, {"feed"})
      BY <3>1, FeedKnown
    <3>3. {"feed"} \subseteq Parts(r.op)
      BY <2>3 DEF Parts
    <3> QED
      BY <3>2, <3>3, OnlyMore
  <2>4. CASE r.op = "details"
    <3>1. d = DetailsFetched(c, r.who, r.data)
      BY <1>2, <2>4 DEF Reduced, NothingShown
    <3>2. Only(c, DetailsFetched(c, r.who, r.data), {"details", "profiles"})
      BY DetailsKnown
    <3>3. {"details", "profiles"} \subseteq Parts(r.op)
      BY <2>4 DEF Parts
    <3> QED
      BY <3>1, <3>2, <3>3, OnlyMore
  <2>5. CASE r.op = "moreDetails"
    <3>1. d = WithProfile(c, r.arg[1], r.data)
      BY <1>2, <2>5 DEF Reduced, NothingShown
    <3>2. Only(c, d, {"profiles"})
      BY <3>1, ProfileKnown
    <3>3. {"profiles"} \subseteq Parts(r.op)
      BY DEF Parts
    <3> QED
      BY <3>2, <3>3, OnlyMore
  <2>6. CASE r.op \in DOMAIN NothingShown
    <3>1. d = Shows(c, r.op, r.arg)
      BY <1>2, <2>6 DEF Reduced, NothingShown
    <3>2. Only(c, Shows(c, r.op, r.arg), {"shown"})
      BY <2>6, ShownKnown
    <3>3. {"shown"} \subseteq Parts(r.op)
      BY <2>6 DEF Parts, NothingShown
    <3> QED
      BY <3>1, <3>2, <3>3, OnlyMore
  <2>7. CASE r.op \in {"courses", "createCourse", "updateCourse"}
    <3>1. \E x : d = [c EXCEPT !.courses = x]
      <4>1. CASE r.op = "courses"
        <5>1. d = [c EXCEPT !.courses = Grouped(r.data)]
          BY <1>2, <4>1 DEF Reduced, NothingShown
        <5> QED
          BY <5>1
      <4>2. CASE r.op = "createCourse"
        <5>1. d = [c EXCEPT !.courses = CourseCreated(c.courses, r.data)]
          BY <1>2, <4>2 DEF Reduced, NothingShown
        <5> QED
          BY <5>1
      <4>3. CASE r.op = "updateCourse"
        <5>1. d = [c EXCEPT !.courses = CourseUpdated(c.courses, r.data)]
          BY <1>2, <4>3 DEF Reduced, NothingShown
        <5> QED
          BY <5>1
      <4> QED
        BY <2>7, <4>1, <4>2, <4>3
    <3>2. Only(c, d, {"courses"})
      BY <3>1, CoursesKnown
    <3>3. {"courses"} \subseteq Parts(r.op)
      BY <2>7 DEF Parts, NothingShown
    <3> QED
      BY <3>2, <3>3, OnlyMore
  <2>8. CASE r.op \in {"forgotPassword", "changePassword"}
    <3>1. d = c
      BY <1>2, <2>8 DEF Reduced, NothingShown
    <3> QED
      BY <3>1 DEF Only
  <2>9. CASE r.op \in CupOps
    <3>1. d = TournamentReduced(c, r)
      BY <1>2, <2>9 DEF Reduced, NothingShown, CupOps
    <3>2. Only(c, d, {"cup"})
      BY <3>1, CupKnown
    <3>3. {"cup"} \subseteq Parts(r.op)
      BY <2>9 DEF Parts, NothingShown, CupOps
    <3> QED
      BY <3>2, <3>3, OnlyMore
  <2> QED
    BY <2>1, <2>2, <2>3, <2>4, <2>5, <2>6, <2>7, <2>8, <2>9
       DEF Requests, Background, FetchOps, Turning, CupOps, NothingShown
<1> QED
  BY <1>1, <1>2

LEMMA PartsArePage ==
    ASSUME NEW c, NEW d, NEW op, Only(c, d, Parts(op))
    PROVE  SamePage(c, d) /\ d.net = c.net /\ d.failed = c.failed /\ d.logouts = c.logouts
           /\ d.hub = c.hub /\ d.saved = c.saved
BY DEF Only, Parts, ClientFields, SamePage

LEMMA SucceededIs ==
    ASSUME NEW c, IsClient(c), NEW r, r.op \in Requests \ Turning, NEW n,
           NEW d, d = Succeeded(c, r, n), NEW b, b = Reduced(c, r, n)
    PROVE  Only(c, b, Parts(r.op)) /\ Grows(b, d, {})
<1>1. Only(c, b, Parts(r.op))
  BY ReducedIs
<1>2. IsClient(b) /\ SamePage(c, b)
  BY <1>1, PartsArePage DEF Only
<1>3. d = b \/ d = Dispatch(c, b)
  BY DEF Succeeded, Reduced, Requests, Turning, NothingShown, Background, FetchOps, CupOps
<1> QED
  BY <1>1, <1>2, <1>3, SameGrows, DispatchQuietly

\* What a failure makes of the client.
Fails(c, d) ==
    \E b, e : /\ Only(c, b, {"shown", "cup", "logouts"}) /\ Grows(b, e, {})
              /\ Only(e, d, {"notes", "alarms"})

LEMMA FailedIs ==
    ASSUME NEW c, IsClient(c), NEW r, NEW n, NEW d, d = Failed(c, r, n),
           r.op \notin {"login", "createUser"},
           ~(r.op \in {"courses", "createCourse", "updateCourse"} /\ r.phase = "denied")
    PROVE  Fails(c, d)
<1>1. CASE r.op \in {"forgotPassword", "setPassword"}
  <2>1. d = LogoutSoon(c)
    BY <1>1 DEF Failed
  <2>2. DOMAIN d = ClientFields /\ \A p \in ClientFields \ {"logouts"} : d[p] = c[p]
    BY <2>1 DEF LogoutSoon, IsClient, ClientFields
  <2>3. Only(c, d, {"logouts"})
    BY <2>2, LooseOnly DEF Loose
  <2>4. Only(c, d, {"shown", "cup", "logouts"}) /\ IsClient(d) /\ Only(d, d, {"notes", "alarms"})
    BY <2>3 DEF Only
  <2> QED
    BY <2>4, SameGrows DEF Fails
<1>2. ASSUME d = c \/ d = showNotification(c, n) PROVE Only(c, d, {"notes", "alarms"})
  BY <1>2, Notified DEF Only
<1>3. ASSUME Only(c, d, {"notes", "alarms"})
      PROVE  Fails(c, d)
  <2>1. Only(c, c, {"shown", "cup", "logouts"}) /\ Grows(c, c, {})
    BY SameGrows DEF Only
  <2> QED
    BY <1>3, <2>1 DEF Fails
<1>4. ASSUME IsClient(d), Only(c, d, {"shown", "cup", "logouts"})
      PROVE  Fails(c, d)
  <2>1. Only(d, d, {"notes", "alarms"}) /\ Grows(d, d, {})
    BY <1>4, SameGrows DEF Only
  <2> QED
    BY <1>4, <2>1 DEF Fails
<1>5. CASE r.op = "previousYear"
  <2>1. d = Shows(c, "previousYear", <<>>)
    BY <1>5 DEF Failed
  <2>2. "previousYear" \in DOMAIN NothingShown
    BY DEF NothingShown
  <2>3. Only(c, Shows(c, "previousYear", <<>>), {"shown"})
    BY <2>2, ShownKnown
  <2>4. IsClient(d) /\ Only(c, d, {"shown", "cup", "logouts"})
    BY <2>1, <2>3 DEF Only
  <2> QED
    BY <1>4, <2>4
<1>6. CASE r.op = "yearSummary"
  <2> DEFINE b == Shows(c, "yearSummary", <<>>)
             e == Dispatch(c, b)
  <2>1. d = showNotification(e, n)
    BY <1>6 DEF Failed
  <2>2. "yearSummary" \in DOMAIN NothingShown
    BY DEF NothingShown
  <2>3. Only(c, b, {"shown"})
    BY <2>2, ShownKnown
  <2> HIDE DEF b
  <2>4. IsClient(b) /\ SamePage(c, b) /\ Only(c, b, {"shown", "cup", "logouts"})
    BY <2>3 DEF Only, SamePage, ClientFields
  <2>5. Grows(b, e, {})
    BY <2>4, DispatchQuietly
  <2> HIDE DEF e
  <2>6. Only(e, d, {"notes", "alarms"})
    BY <2>1, <2>5, Notified DEF Grows
  <2> QED
    BY <2>4, <2>5, <2>6 DEF Fails
<1>7. CASE r.op \in {"addPlayer", "addCourse"}
  <2>1. (\E q : d = TournamentReduced(c, q)) \/ d = showNotification(c, n)
    <3>1. CASE r.op = "addPlayer"
      BY <1>7, <3>1 DEF Failed
    <3>2. CASE r.op = "addCourse" /\ r.phase = "error"
      <4> DEFINE q == [r EXCEPT !.data = 0]
      <4>1. d = TournamentReduced(c, q)
        BY <1>7, <3>2 DEF Failed
      <4> QED
        BY <4>1
    <3>3. CASE r.op = "addCourse" /\ r.phase # "error"
      BY <1>7, <3>3 DEF Failed
    <3> QED
      BY <1>7, <3>1, <3>2, <3>3
  <2>2. CASE \E q : d = TournamentReduced(c, q)
    <3>1. Only(c, d, {"cup"})
      BY <2>2, CupKnown
    <3>2. IsClient(d) /\ Only(c, d, {"shown", "cup", "logouts"})
      BY <3>1 DEF Only
    <3> QED
      BY <1>4, <3>2
  <2> QED
    BY <1>2, <1>3, <2>1, <2>2
<1>8. CASE r.op \notin {"forgotPassword", "setPassword", "previousYear", "yearSummary",
                        "addPlayer", "addCourse"}
  <2>1. d = c \/ d = showNotification(c, n)
    BY <1>8 DEF Failed
  <2> QED
    BY <1>2, <1>3, <2>1
<1> QED
  BY <1>1, <1>5, <1>6, <1>7, <1>8

-----------------------------------------------------------------------------
(* The server.                                                               *)

DbFields == {"account", "members", "likes", "layouts", "cups"}
AccountFields == {"set", "friends", "active"}
CupFields == {"id", "players", "courses", "prices", "admin"}
IsDb(d) ==
    /\ DOMAIN d = DbFields
    /\ DOMAIN d.account = Users /\ \A u \in Users : DOMAIN d.account[u] = AccountFields
    /\ DOMAIN d.likes = 1..NumItems
    /\ IsSequence(d.layouts) /\ IsSequence(d.cups)
    /\ \A k \in DOMAIN d.cups : DOMAIN d.cups[k] = CupFields /\ d.cups[k].id = k
CupChanges == {"createTournament", "addPlayer", "addCourse", "calculatePrices"}
\* What a request makes of the parts of the server.
AccountAfter(d, r) ==
    IF r.op = "addFriend"
    THEN [d.account EXCEPT ![r.who].friends = @ \cup {r.arg[1]},
                           ![r.arg[1]].friends = @ \cup {r.who}]
    ELSE [d.account EXCEPT ![r.who].set[r.arg[1]] = r.arg[2]]
LikesAfterwards(d, r) ==
    [d.likes EXCEPT ![r.arg[1]] = IF r.who \in @ THEN @ \ {r.who} ELSE @ \cup {r.who}]
LayoutsAfterwards(d, r) ==
    IF r.op = "createCourse" THEN <<NewLayout(Len(d.layouts) + 1, r.arg[1], r.who)>> \o d.layouts
    ELSE [i \in DOMAIN d.layouts |->
            IF d.layouts[i].id = r.arg[1]
            THEN [d.layouts[i] EXCEPT !.holes = r.arg[2]] ELSE d.layouts[i]]
CupAfter(d, r) ==
    LET q == d.cups[r.arg[1]]
    IN  CASE r.op = "addPlayer" -> [q EXCEPT !.players = @ \cup {r.who}]
          [] r.op = "addCourse" -> [q EXCEPT !.courses = @ \cup {r.arg[2]}]
          [] r.op = "calculatePrices" -> [q EXCEPT !.prices = q.players]

LEMMA AccountsAfter ==
    ASSUME NEW d, IsDb(d), NEW r, r.op \in {"set", "changeEmail", "addFriend"},
           NEW e, e = After(d, r)
    PROVE  /\ IsDb(e) /\ e.likes = d.likes /\ e.layouts = d.layouts /\ e.cups = d.cups
           /\ e.account = AccountAfter(d, r)
<1>1. CASE r.op # "addFriend"
  <2> DEFINE a == [d.account EXCEPT ![r.who].set[r.arg[1]] = r.arg[2]]
  <2>1. e = [d EXCEPT !.account = a]
    BY <1>1 DEF After
  <2>2. DOMAIN a = Users /\ \A u \in Users : DOMAIN a[u] = AccountFields
    BY DEF IsDb, AccountFields
  <2> HIDE DEF a
  <2>3. /\ DOMAIN e = DbFields /\ e.account = a
        /\ e.likes = d.likes /\ e.layouts = d.layouts /\ e.cups = d.cups
    BY <2>1 DEF IsDb, DbFields
  <2>4. IsDb(e)
    BY <2>2, <2>3 DEF IsDb
  <2> QED
    BY <1>1, <2>3, <2>4 DEF a, AccountAfter
<1>2. CASE r.op = "addFriend"
  <2> DEFINE u == r.who
             v == r.arg[1]
             b == [d.account EXCEPT ![u].friends = @ \cup {v}]
             a == [b EXCEPT ![v].friends = @ \cup {u}]
             m == [d EXCEPT !.account[u].friends = @ \cup {v}]
  <2>6. e = [m EXCEPT !.account[v].friends = @ \cup {u}]
    BY <1>2 DEF After, Befriends
  <2>7. DOMAIN m = DbFields /\ m.account = b /\ \A p \in DbFields \ {"account"} : m[p] = d[p]
    BY DEF IsDb, DbFields
  <2> HIDE DEF m
  <2>5. DOMAIN b = Users /\ \A w \in Users : DOMAIN b[w] = AccountFields
    BY DEF IsDb, AccountFields
  <2>8. e = [m EXCEPT !.account = [m.account EXCEPT ![v].friends = @ \cup {u}]]
    BY <2>6
  <2>3. /\ DOMAIN e = DbFields /\ e.account = a
        /\ e.likes = d.likes /\ e.layouts = d.layouts /\ e.cups = d.cups
    BY <2>7, <2>8 DEF DbFields
  <2> HIDE DEF b
  <2>2. DOMAIN a = Users /\ \A w \in Users : DOMAIN a[w] = AccountFields
    BY <2>5 DEF AccountFields
  <2> HIDE DEF a
  <2>4. IsDb(e)
    BY <2>2, <2>3 DEF IsDb
  <2>9. AccountAfter(d, r) = a
    BY <1>2 DEF a, b, AccountAfter
  <2> QED
    BY <2>3, <2>4, <2>9
<1> QED
  BY <1>1, <1>2

LEMMA LikesAfter ==
    ASSUME NEW d, IsDb(d), NEW r, r.op = "toggleLike", NEW e, e = After(d, r)
    PROVE  /\ IsDb(e) /\ e.account = d.account /\ e.layouts = d.layouts /\ e.cups = d.cups
           /\ e.likes = LikesAfterwards(d, r)
<1> DEFINE a == [d.likes EXCEPT ![r.arg[1]] = IF r.who \in @ THEN @ \ {r.who} ELSE @ \cup {r.who}]
<1>1. e = [d EXCEPT !.likes = a]
  BY DEF After
<1>2. DOMAIN a = DOMAIN d.likes
  OBVIOUS
<1> HIDE DEF a
<1>3. /\ DOMAIN e = DbFields /\ e.likes = a
      /\ e.account = d.account /\ e.layouts = d.layouts /\ e.cups = d.cups
  BY <1>1 DEF IsDb, DbFields
<1>4. IsDb(e)
  BY <1>2, <1>3 DEF IsDb
<1> QED
  BY <1>3, <1>4 DEF a, LikesAfterwards

\* One sequence after another one's only element.
LEMMA PrependToSequence ==
    ASSUME NEW s, IsSequence(s), NEW e
    PROVE  /\ IsSequence(<<e>> \o s) /\ DOMAIN s = 1..Len(s) /\ Len(s) \in Nat
           /\ DOMAIN (<<e>> \o s) = 1..(Len(s) + 1) /\ (<<e>> \o s)[1] = e
           /\ \A i \in 1..Len(s) : (<<e>> \o s)[i + 1] = s[i]
<1> DEFINE S == {s[i] : i \in 1..Len(s)} \cup {e}
<1>1. s \in Seq(S) /\ e \in S /\ DOMAIN s = 1..Len(s) /\ Len(s) \in Nat
  BY SequenceIsSeq DEF IsSequence
<1> HIDE DEF S
<1> DEFINE o == <<e>>
           t == o \o s
<1>2. o \in Seq(S) /\ Len(o) = 1 /\ o[1] = e
  BY <1>1
<1> HIDE DEF o
<1>7. /\ t \in Seq(S) /\ Len(t) = Len(o) + Len(s)
      /\ \A i \in 1..(Len(o) + Len(s)) : t[i] = IF i <= Len(o) THEN o[i] ELSE s[i - Len(o)]
  BY <1>1, <1>2, ConcatProperties
<1>3. /\ t \in Seq(S) /\ Len(t) = 1 + Len(s)
      /\ \A i \in 1..(1 + Len(s)) : t[i] = IF i <= 1 THEN o[i] ELSE s[i - 1]
  BY <1>2, <1>7
<1> HIDE DEF t
<1>4. IsSequence(t) /\ DOMAIN t = 1..(Len(s) + 1)
  BY <1>1, <1>3, SeqIsSequence
<1>5. ASSUME NEW i \in 1..Len(s) PROVE t[i + 1] = s[i]
  <2>1. i + 1 \in 1..(1 + Len(s)) /\ ~(i + 1 <= 1) /\ i + 1 - 1 = i
    BY <1>1
  <2> QED
    BY <1>3, <2>1
<1>6. t[1] = e
  BY <1>1, <1>2, <1>3
<1> QED
  BY <1>1, <1>4, <1>5, <1>6 DEF t, o

LEMMA LayoutsAfter ==
    ASSUME NEW d, IsDb(d), NEW r, r.op \in {"createCourse", "updateCourse"},
           NEW e, e = After(d, r)
    PROVE  /\ IsDb(e) /\ e.account = d.account /\ e.likes = d.likes /\ e.cups = d.cups
           /\ e.layouts = LayoutsAfterwards(d, r)
<1>1. ASSUME NEW a, IsSequence(a), e = [d EXCEPT !.layouts = a]
      PROVE  /\ IsDb(e) /\ e.account = d.account /\ e.likes = d.likes /\ e.cups = d.cups
             /\ e.layouts = a
  <2>1. /\ DOMAIN e = DbFields /\ e.layouts = a
        /\ e.account = d.account /\ e.likes = d.likes /\ e.cups = d.cups
    BY <1>1 DEF IsDb, DbFields
  <2> QED
    BY <1>1, <2>1 DEF IsDb
<1>2. CASE r.op = "createCourse"
  <2> DEFINE l == NewLayout(Len(d.layouts) + 1, r.arg[1], r.who)
             a == <<l>> \o d.layouts
  <2>1. e = [d EXCEPT !.layouts = a]
    BY <1>2 DEF After
  <2> HIDE DEF l
  <2>2. IsSequence(a)
    BY PrependToSequence DEF IsDb
  <2> HIDE DEF a
  <2>3. /\ IsDb(e) /\ e.account = d.account /\ e.likes = d.likes /\ e.cups = d.cups
        /\ e.layouts = a
    BY <1>1, <2>1, <2>2
  <2> QED
    BY <1>2, <2>3 DEF a, l, LayoutsAfterwards
<1>3. CASE r.op = "updateCourse"
  <2> DEFINE a == [i \in DOMAIN d.layouts |->
                     IF d.layouts[i].id = r.arg[1]
                     THEN [d.layouts[i] EXCEPT !.holes = r.arg[2]] ELSE d.layouts[i]]
  <2>1. e = [d EXCEPT !.layouts = a]
    BY <1>3 DEF After
  <2>2. DOMAIN d.layouts = 1..Len(d.layouts) /\ Len(d.layouts) \in Nat
    BY DEF IsDb, IsSequence
  <2>3. DOMAIN a = 1..Len(d.layouts) /\ a = [i \in 1..Len(d.layouts) |-> a[i]]
    BY <2>2
  <2> HIDE DEF a
  <2>4. IsSequence(a)
    BY <2>2, <2>3, FunctionIsSequence
  <2>5. /\ IsDb(e) /\ e.account = d.account /\ e.likes = d.likes /\ e.cups = d.cups
        /\ e.layouts = a
    BY <1>1, <2>1, <2>4
  <2> QED
    BY <1>3, <2>5 DEF a, LayoutsAfterwards
<1> QED
  BY <1>2, <1>3

LEMMA CupsAfter ==
    ASSUME NEW d, IsDb(d), NEW r, r.op \in CupChanges, NEW e, e = After(d, r)
    PROVE  /\ IsDb(e) /\ e.account = d.account /\ e.likes = d.likes /\ e.layouts = d.layouts
           /\ DOMAIN d.cups \subseteq DOMAIN e.cups
           /\ r.op = "createTournament" => /\ \A k \in DOMAIN d.cups : e.cups[k] = d.cups[k]
                                           /\ Len(e.cups) \in DOMAIN e.cups
           /\ \A k \in DOMAIN d.cups : k # r.arg[1] => e.cups[k] = d.cups[k]
           /\ r.op # "createTournament" /\ r.arg[1] \in DOMAIN d.cups =>
                e.cups[r.arg[1]] = CupAfter(d, r)
<1>1. ASSUME NEW a, IsSequence(a), e = [d EXCEPT !.cups = a],
             \A k \in DOMAIN a : DOMAIN a[k] = CupFields /\ a[k].id = k
      PROVE  /\ IsDb(e) /\ e.account = d.account /\ e.likes = d.likes /\ e.layouts = d.layouts
             /\ e.cups = a
  <2>1. /\ DOMAIN e = DbFields /\ e.cups = a
        /\ e.account = d.account /\ e.likes = d.likes /\ e.layouts = d.layouts
    BY <1>1 DEF IsDb, DbFields
  <2> QED
    BY <1>1, <2>1 DEF IsDb
<1>2. DOMAIN d.cups = 1..Len(d.cups) /\ Len(d.cups) \in Nat
  BY DEF IsDb, IsSequence
<1>3. CASE r.op = "createTournament"
  <2> DEFINE c == NewCup(Len(d.cups) + 1, r.who)
             a == Append(d.cups, c)
  <2>1. e = [d EXCEPT !.cups = a]
    BY <1>3 DEF After
  <2>2. DOMAIN c = CupFields /\ c.id = Len(d.cups) + 1
    BY DEF NewCup, CupFields
  <2> HIDE DEF c
  <2>3. /\ IsSequence(a) /\ DOMAIN a = 1..(Len(d.cups) + 1)
        /\ \A k \in 1..Len(d.cups) : a[k] = d.cups[k]
        /\ a[Len(d.cups) + 1] = c
    BY <1>2, AppendToSequence DEF IsDb
  <2> HIDE DEF a
  <2>4. \A k \in DOMAIN a : DOMAIN a[k] = CupFields /\ a[k].id = k
    <3> SUFFICES ASSUME NEW k \in DOMAIN a PROVE DOMAIN a[k] = CupFields /\ a[k].id = k
      OBVIOUS
    <3>1. k \in 1..Len(d.cups) \/ k = Len(d.cups) + 1
      BY <1>2, <2>3
    <3> QED
      BY <1>2, <2>2, <2>3, <3>1 DEF IsDb
  <2>5. /\ IsDb(e) /\ e.account = d.account /\ e.likes = d.likes /\ e.layouts = d.layouts
        /\ e.cups = a
    BY <1>1, <2>1, <2>3, <2>4
  <2>6. Len(a) \in DOMAIN a
    <3>1. DOMAIN a = 1..Len(a) /\ Len(a) \in Nat
      BY <2>3 DEF IsSequence
    <3> QED
      BY <1>2, <2>3, <3>1
  <2> QED
    BY <1>2, <1>3, <2>3, <2>5, <2>6
<1>4. CASE r.op # "createTournament"
  <2> DEFINE c == CupAfter(d, r)
             a == [d.cups EXCEPT ![r.arg[1]] = c]
  <2>1. e = [d EXCEPT !.cups = a]
    BY <1>4 DEF After, CupChanges, CupAfter
  <2>2. r.arg[1] \in DOMAIN d.cups => DOMAIN c = CupFields /\ c.id = r.arg[1]
    BY <1>4 DEF IsDb, CupFields, CupChanges, CupAfter
  <2> HIDE DEF c
  <2>3. /\ DOMAIN a = 1..Len(d.cups) /\ a = [k \in 1..Len(d.cups) |-> a[k]]
        /\ \A k \in DOMAIN a : k # r.arg[1] => a[k] = d.cups[k]
        /\ r.arg[1] \in DOMAIN d.cups => a[r.arg[1]] = c
    BY <1>2
  <2> HIDE DEF a
  <2>4. IsSequence(a)
    BY <1>2, <2>3, FunctionIsSequence
  <2>5. \A k \in DOMAIN a : DOMAIN a[k] = CupFields /\ a[k].id = k
    BY <1>2, <2>2, <2>3 DEF IsDb
  <2>6. /\ IsDb(e) /\ e.account = d.account /\ e.likes = d.likes /\ e.layouts = d.layouts
        /\ e.cups = a
    BY <1>1, <2>1, <2>4, <2>5
  <2> QED
    BY <1>2, <1>4, <2>3, <2>6 DEF c
<1> QED
  BY <1>3, <1>4

LEMMA NothingAfter ==
    ASSUME NEW d, IsDb(d), NEW r,
           r.op \notin {"set", "changeEmail", "addFriend", "toggleLike", "createCourse",
                        "updateCourse"} \cup CupChanges,
           NEW e, e = After(d, r)
    PROVE  /\ IsDb(e) /\ e.account = d.account /\ e.likes = d.likes /\ e.layouts = d.layouts
           /\ e.cups = d.cups
<1>1. CASE r.op = "createUser"
  <2> DEFINE a == d.members \cup {r.arg[1]}
  <2>1. e = [d EXCEPT !.members = a]
    BY <1>1 DEF After
  <2> HIDE DEF a
  <2>2. /\ DOMAIN e = DbFields /\ e.account = d.account /\ e.likes = d.likes
        /\ e.layouts = d.layouts /\ e.cups = d.cups
    BY <2>1 DEF IsDb, DbFields
  <2> QED
    BY <2>2 DEF IsDb
<1>2. CASE r.op # "createUser"
  <2>1. e = d
    BY <1>2 DEF After, CupChanges
  <2> QED
    BY <2>1
<1> QED
  BY <1>1, <1>2

\* What a request leaves alone.
LEMMA AfterIs ==
    ASSUME NEW d, IsDb(d), NEW r, NEW e, e = After(d, r)
    PROVE  /\ IsDb(e)
           /\ r.op \notin {"set", "changeEmail", "addFriend"} => e.account = d.account
           /\ r.op # "toggleLike" => e.likes = d.likes
           /\ r.op \notin {"createCourse", "updateCourse"} => e.layouts = d.layouts
           /\ r.op \notin CupChanges => e.cups = d.cups
           /\ DOMAIN d.cups \subseteq DOMAIN e.cups
<1>1. CASE r.op \in {"set", "changeEmail", "addFriend"}
  <2>1. IsDb(e) /\ e.likes = d.likes /\ e.layouts = d.layouts /\ e.cups = d.cups
    BY <1>1, AccountsAfter
  <2> QED
    BY <1>1, <2>1 DEF CupChanges
<1>2. CASE r.op = "toggleLike"
  <2>1. IsDb(e) /\ e.account = d.account /\ e.layouts = d.layouts /\ e.cups = d.cups
    BY <1>2, LikesAfter
  <2> QED
    BY <1>2, <2>1 DEF CupChanges
<1>3. CASE r.op \in {"createCourse", "updateCourse"}
  <2>1. IsDb(e) /\ e.account = d.account /\ e.likes = d.likes /\ e.cups = d.cups
    BY <1>3, LayoutsAfter
  <2> QED
    BY <1>3, <2>1 DEF CupChanges
<1>4. CASE r.op \in CupChanges
  <2>1. /\ IsDb(e) /\ e.account = d.account /\ e.likes = d.likes /\ e.layouts = d.layouts
        /\ DOMAIN d.cups \subseteq DOMAIN e.cups
    BY <1>4, CupsAfter
  <2> QED
    BY <1>4, <2>1 DEF CupChanges
<1>5. CASE r.op \notin {"set", "changeEmail", "addFriend", "toggleLike", "createCourse",
                        "updateCourse"} \cup CupChanges
  BY <1>5, NothingAfter
<1> QED
  BY <1>1, <1>2, <1>3, <1>4, <1>5

-----------------------------------------------------------------------------
(* Courses.                                                                  *)

GroupFields == {"name", "layouts"}
IsGroup(g) == DOMAIN g = GroupFields /\ IsSequence(g.layouts) /\ 1 \in DOMAIN g.layouts
IsCourses(gs) == IsSequence(gs) /\ \A n \in DOMAIN gs : IsGroup(gs[n])

\* Each layout of a group is one of those that were grouped, from a place of its own.
LEMMA GroupedIs ==
    ASSUME NEW ls, IsSequence(ls), NEW gs, gs = Grouped(ls)
    PROVE  /\ IsCourses(gs)
           /\ \A n \in DOMAIN gs :
                \E w \in [DOMAIN gs[n].layouts -> DOMAIN ls] :
                   /\ \A k \in DOMAIN gs[n].layouts : /\ gs[n].layouts[k] = ls[w[k]]
                                                      /\ ls[w[k]].course = gs[n].name
                   /\ \A j, k \in DOMAIN gs[n].layouts : w[j] = w[k] => j = k
<1> DEFINE Of(name) == {i \in DOMAIN ls : ls[i].course = name}
           firsts == {i \in DOMAIN ls : \A j \in Of(ls[i].course) : i <= j}
           Group(l) == [name |-> l.course, layouts |-> Picked(ls, Of(l.course))]
           all == [i \in DOMAIN ls |-> Group(ls[i])]
<1>1. gs = Picked(all, firsts)
  BY DEF Grouped
<1>2. DOMAIN ls = 1..Len(ls) /\ Len(ls) \in Nat
  BY DEF IsSequence
<1>3. DOMAIN all = 1..Len(ls) /\ all = [i \in 1..Len(ls) |-> all[i]] /\ firsts \in SUBSET DOMAIN all
  BY <1>2
<1>4. \A i \in DOMAIN ls : all[i] = [name |-> ls[i].course, layouts |-> Picked(ls, Of(ls[i].course))]
  OBVIOUS
<1>5. /\ \A name : Of(name) \in SUBSET DOMAIN ls /\ \A i \in Of(name) : ls[i].course = name
      /\ \A i \in DOMAIN ls : i \in Of(ls[i].course)
  OBVIOUS
<1> HIDE DEF Of, firsts, all
<1>6. IsSequence(all)
  BY <1>2, <1>3, FunctionIsSequence
<1>7. /\ IsSequence(gs)
      /\ \E f \in [DOMAIN gs -> firsts] : \A n \in DOMAIN gs : gs[n] = all[f[n]]
  <2>1. PickedFrom(all, firsts, gs)
    BY <1>1, <1>3, <1>6, PickedMembers
  <2> QED
    BY <2>1 DEF PickedFrom
<1>8. ASSUME NEW n \in DOMAIN gs
      PROVE  /\ IsGroup(gs[n])
             /\ \E w \in [DOMAIN gs[n].layouts -> DOMAIN ls] :
                   /\ \A k \in DOMAIN gs[n].layouts : /\ gs[n].layouts[k] = ls[w[k]]
                                                      /\ ls[w[k]].course = gs[n].name
                   /\ \A j, k \in DOMAIN gs[n].layouts : w[j] = w[k] => j = k
  <2>1. PICK i \in DOMAIN ls : gs[n] = all[i]
    BY <1>2, <1>3, <1>7
  <2> DEFINE g == gs[n]
             name == ls[i].course
             S == Of(name)
  <2>2. DOMAIN g = GroupFields /\ g.name = name /\ g.layouts = Picked(ls, S)
    <3>1. g = [name |-> name, layouts |-> Picked(ls, S)]
      BY <1>4, <2>1
    <3> QED
      BY <3>1 DEF GroupFields
  <2>3. S \in SUBSET DOMAIN ls /\ (\A k \in S : ls[k].course = name) /\ i \in S
    BY <1>5
  <2> HIDE DEF g, name, S
  <2>4. PickedFrom(ls, S, g.layouts)
    BY <2>2, <2>3, PickedMembers
  <2>5. PICK w \in [DOMAIN g.layouts -> S] :
           /\ \A k \in DOMAIN g.layouts : g.layouts[k] = ls[w[k]]
           /\ \A j, k \in DOMAIN g.layouts : w[j] = w[k] => j = k
    BY <2>4 DEF PickedFrom
  <2>6. w \in [DOMAIN g.layouts -> DOMAIN ls]
    BY <2>3, <2>5
  <2>7. \A k \in DOMAIN g.layouts : g.layouts[k] = ls[w[k]] /\ ls[w[k]].course = g.name
    BY <2>2, <2>3, <2>5
  <2>8. IsSequence(g.layouts) /\ 1 \in DOMAIN g.layouts
    <3>1. IsSequence(g.layouts) /\ \E k \in DOMAIN g.layouts : TRUE
      BY <2>3, <2>4 DEF PickedFrom
    <3> QED
      BY <3>1 DEF IsSequence
  <2> QED
    BY <2>2, <2>5, <2>6, <2>7, <2>8 DEF g, IsGroup
<1> QED
  BY <1>7, <1>8 DEF IsCourses

\* The layouts ms are ls with l, if ls has a layout of its number: l at the end, and
\* the others from places of their own.
Renews(ls, ms, l) ==
    /\ IsSequence(ms) /\ (1 \in DOMAIN ls => 1 \in DOMAIN ms)
    /\ \E w \in [DOMAIN ms -> DOMAIN ls \cup {0}] :
         /\ \A k \in DOMAIN ms :
              IF w[k] = 0 THEN ms[k] = l /\ \E j \in DOMAIN ls : ls[j].id = l.id
              ELSE w[k] \in DOMAIN ls /\ ms[k] = ls[w[k]] /\ ms[k].id # l.id
         /\ \A j, k \in DOMAIN ms : w[j] = w[k] => j = k

LEMMA SavedIs ==
    ASSUME NEW ls, IsSequence(ls), NEW l, NEW S, S = {i \in DOMAIN ls : ls[i].id # l.id},
           NEW ms, ms = IF S = DOMAIN ls THEN ls ELSE Append(Picked(ls, S), l)
    PROVE  Renews(ls, ms, l)
<1>1. DOMAIN ls = 1..Len(ls) /\ Len(ls) \in Nat
  BY DEF IsSequence
<1>2. CASE S = DOMAIN ls
  <2> DEFINE w == [k \in DOMAIN ls |-> k]
  <2>1. w \in [DOMAIN ls -> DOMAIN ls \cup {0}] /\ \A k \in DOMAIN ls : w[k] = k
    OBVIOUS
  <2>2. 0 \notin DOMAIN ls
    BY <1>1
  <2>3. ms = ls /\ \A k \in DOMAIN ls : ls[k].id # l.id
    BY <1>2
  <2> HIDE DEF w
  <2> QED
    BY <2>1, <2>2, <2>3 DEF Renews
<1>3. CASE S # DOMAIN ls
  <2> DEFINE p == Picked(ls, S)
  <2>1. S \in SUBSET DOMAIN ls
    OBVIOUS
  <2>3. PickedFrom(ls, S, p)
    BY <2>1, PickedMembers
  <2>4. ms = Append(p, l)
    BY <1>3
  <2> HIDE DEF p
  <2>2. PICK f \in [DOMAIN p -> S] :
           /\ \A k \in DOMAIN p : p[k] = ls[f[k]]
           /\ \A j, k \in DOMAIN p : f[j] = f[k] => j = k
    BY <2>3 DEF PickedFrom
  <2>12. IsSequence(p)
    BY <2>3 DEF PickedFrom
  <2>13. Len(p) \in Nat
    BY <2>12 DEF IsSequence
  <2>5. /\ IsSequence(ms) /\ DOMAIN p = 1..Len(p) /\ Len(p) \in Nat
        /\ DOMAIN ms = 1..(Len(p) + 1)
        /\ \A i \in 1..Len(p) : ms[i] = p[i]
        /\ ms[Len(p) + 1] = l
    <3>1. /\ IsSequence(Append(p, l)) /\ DOMAIN p = 1..Len(p)
          /\ DOMAIN Append(p, l) = 1..(Len(p) + 1)
          /\ \A i \in 1..Len(p) : Append(p, l)[i] = p[i]
          /\ Append(p, l)[Len(p) + 1] = l
      BY <2>12, AppendToSequence
    <3> QED
      BY <2>4, <2>13, <3>1
  <2>14. 1 \in DOMAIN ms
    BY <2>5
  <2> DEFINE w == [k \in DOMAIN ms |-> IF k \in DOMAIN p THEN f[k] ELSE 0]
  <2>6. w \in [DOMAIN ms -> DOMAIN ls \cup {0}]
    BY <2>1, <2>2
  <2>7. 0 \notin DOMAIN ls
    BY <1>1
  <2>8. \A k \in DOMAIN ms :
           IF k \in DOMAIN p THEN w[k] = f[k] /\ w[k] \in S /\ ms[k] = ls[w[k]]
           ELSE w[k] = 0 /\ k = Len(p) + 1 /\ ms[k] = l
    BY <2>2, <2>5
  <2>9. \E j \in DOMAIN ls : ls[j].id = l.id
    BY <1>3
  <2> HIDE DEF w
  <2>10. ASSUME NEW j \in DOMAIN ms, NEW k \in DOMAIN ms, w[j] = w[k] PROVE j = k
    <3>1. w[j] # 0 <=> j \in DOMAIN p
      BY <2>1, <2>7, <2>8
    <3>2. w[k] # 0 <=> k \in DOMAIN p
      BY <2>1, <2>7, <2>8
    <3> QED
      BY <2>2, <2>8, <2>10, <3>1, <3>2
  <2>11. \A k \in DOMAIN ms :
           IF w[k] = 0 THEN ms[k] = l /\ \E j \in DOMAIN ls : ls[j].id = l.id
           ELSE w[k] \in DOMAIN ls /\ ms[k] = ls[w[k]] /\ ms[k].id # l.id
    BY <2>7, <2>8, <2>9
  <2> QED
    BY <2>5, <2>6, <2>10, <2>11, <2>14 DEF Renews
<1> QED
  BY <1>2, <1>3

LEMMA CourseUpdatedIs ==
    ASSUME NEW gs, IsCourses(gs), NEW l, NEW hs, hs = CourseUpdated(gs, l)
    PROVE  /\ IsCourses(hs) /\ DOMAIN hs = DOMAIN gs
           /\ \A n \in DOMAIN gs : /\ hs[n].name = gs[n].name
                                   /\ Renews(gs[n].layouts, hs[n].layouts, l)
<1> DEFINE Others(ls) == {i \in DOMAIN ls : ls[i].id # l.id}
           Saved(ls) == IF Others(ls) = DOMAIN ls THEN ls ELSE Append(Picked(ls, Others(ls)), l)
<1>1. hs = [i \in DOMAIN gs |-> [gs[i] EXCEPT !.layouts = Saved(gs[i].layouts)]]
  BY DEF CourseUpdated
<1>2. ASSUME NEW ls, IsSequence(ls) PROVE Renews(ls, Saved(ls), l)
  BY <1>2, SavedIs
<1> HIDE DEF Saved, Others
<1>3. ASSUME NEW n \in DOMAIN gs
      PROVE  /\ IsGroup(hs[n]) /\ hs[n].name = gs[n].name
             /\ Renews(gs[n].layouts, hs[n].layouts, l)
  <2>1. DOMAIN gs[n] = GroupFields /\ IsSequence(gs[n].layouts) /\ 1 \in DOMAIN gs[n].layouts
    BY <1>3 DEF IsCourses, IsGroup
  <2> DEFINE ms == Saved(gs[n].layouts)
  <2>2. Renews(gs[n].layouts, ms, l)
    BY <1>2, <2>1
  <2>3. hs[n] = [gs[n] EXCEPT !.layouts = ms]
    BY <1>1
  <2> HIDE DEF ms
  <2>4. DOMAIN hs[n] = GroupFields /\ hs[n].name = gs[n].name /\ hs[n].layouts = ms
    BY <2>1, <2>3 DEF GroupFields
  <2> QED
    BY <2>1, <2>2, <2>4 DEF IsGroup, Renews
<1>4. DOMAIN gs = 1..Len(gs) /\ Len(gs) \in Nat /\ DOMAIN hs = DOMAIN gs
  BY <1>1 DEF IsCourses, IsSequence
<1>5. hs = [i \in 1..Len(gs) |-> hs[i]]
  BY <1>1, <1>4
<1>6. IsSequence(hs)
  BY <1>4, <1>5, FunctionIsSequence
<1> QED
  BY <1>3, <1>4, <1>6 DEF IsCourses

\* A group of hs is one of gs, or one that begins with l.
Creates(gs, hs, l) ==
    /\ IsCourses(hs)
    /\ \A n \in DOMAIN hs :
         \/ \E m \in DOMAIN gs : hs[n] = gs[m]
         \/ hs[n].name = l.course /\ hs[n].layouts = <<l>>
         \/ \E m \in DOMAIN gs : /\ hs[n].name = l.course /\ gs[m].name = l.course
                                 /\ hs[n].layouts = <<l>> \o gs[m].layouts

LEMMA CourseCreatedIs ==
    ASSUME NEW gs, IsCourses(gs), NEW l, NEW hs, hs = CourseCreated(gs, l)
    PROVE  Creates(gs, hs, l)
<1>0. IsSequence(gs) /\ DOMAIN gs = 1..Len(gs) /\ Len(gs) \in Nat
  BY DEF IsCourses, IsSequence
<1>1. CASE \E i \in DOMAIN gs : gs[i].name = l.course
  <2>1. hs = [i \in DOMAIN gs |->
                IF gs[i].name = l.course THEN [gs[i] EXCEPT !.layouts = <<l>> \o @] ELSE gs[i]]
    BY <1>1 DEF CourseCreated
  <2>2. DOMAIN hs = 1..Len(gs) /\ hs = [i \in 1..Len(gs) |-> hs[i]]
    BY <1>0, <2>1
  <2>3. IsSequence(hs)
    BY <1>0, <2>2, FunctionIsSequence
  <2>4. ASSUME NEW n \in DOMAIN gs
        PROVE  /\ IsGroup(hs[n])
               /\ \/ hs[n] = gs[n]
                  \/ /\ hs[n].name = l.course /\ gs[n].name = l.course
                     /\ hs[n].layouts = <<l>> \o gs[n].layouts
    <3>0. DOMAIN gs[n] = GroupFields /\ IsSequence(gs[n].layouts) /\ 1 \in DOMAIN gs[n].layouts
      BY <2>4 DEF IsCourses, IsGroup
    <3>1. CASE gs[n].name = l.course
      <4> DEFINE ms == <<l>> \o gs[n].layouts
      <4>1. hs[n] = [gs[n] EXCEPT !.layouts = ms]
        BY <2>1, <3>1
      <4>2. IsSequence(ms) /\ 1 \in DOMAIN ms
        BY <3>0, PrependToSequence
      <4> HIDE DEF ms
      <4>3. DOMAIN hs[n] = GroupFields /\ hs[n].name = gs[n].name /\ hs[n].layouts = ms
        BY <3>0, <4>1 DEF GroupFields
      <4> QED
        BY <3>1, <4>2, <4>3 DEF IsGroup, ms
    <3>2. CASE gs[n].name # l.course
      BY <2>1, <3>0, <3>2 DEF IsGroup
    <3> QED
      BY <3>1, <3>2
  <2> QED
    BY <1>0, <2>2, <2>3, <2>4 DEF IsCourses, Creates
<1>2. CASE ~(\E i \in DOMAIN gs : gs[i].name = l.course)
  <2> DEFINE o == <<l>>
             g == [name |-> l.course, layouts |-> o]
  <2>1. hs = <<g>> \o gs
    BY <1>2 DEF CourseCreated
  <2>2. DOMAIN g = GroupFields /\ g.name = l.course /\ g.layouts = o
    BY DEF GroupFields
  <2>3. IsSequence(o) /\ 1 \in DOMAIN o
    BY AppendToSequence DEF IsSequence
  <2> HIDE DEF o, g
  <2>4. /\ IsSequence(hs) /\ DOMAIN hs = 1..(Len(gs) + 1) /\ hs[1] = g
        /\ \A i \in 1..Len(gs) : hs[i + 1] = gs[i]
    BY <1>0, <2>1, PrependToSequence
  <2>5. ASSUME NEW n \in DOMAIN hs PROVE hs[n] = g \/ \E m \in DOMAIN gs : hs[n] = gs[m]
    <3>1. CASE n = 1
      BY <2>4, <3>1
    <3>2. CASE n # 1
      <4>1. n - 1 \in 1..Len(gs) /\ n - 1 + 1 = n
        BY <1>0, <2>4, <3>2
      <4> QED
        BY <1>0, <2>4, <4>1
    <3> QED
      BY <3>1, <3>2
  <2>6. \A n \in DOMAIN hs : IsGroup(hs[n])
    BY <2>2, <2>3, <2>5 DEF IsGroup, IsCourses
  <2> QED
    BY <2>2, <2>4, <2>5, <2>6 DEF IsCourses, Creates, o
<1> QED
  BY <1>1, <1>2

-----------------------------------------------------------------------------
(* The layouts the server has.                                               *)

LayoutFields == {"id", "course", "admin", "holes"}
\* t is s behind x.
Prepends(s, t, x) ==
    /\ DOMAIN s = 1..Len(s) /\ Len(s) \in Nat /\ DOMAIN t = 1..(Len(s) + 1) /\ t[1] = x
    /\ \A i \in 1..Len(s) : t[i + 1] = s[i]

InFront(s, t, x) ==
    /\ Prepends(s, t, x)
    /\ \A i \in DOMAIN t : t[i] = x \/ \E j \in DOMAIN s : t[i] = s[j]
    /\ \A j \in DOMAIN s : \E i \in DOMAIN t : t[i] = s[j]
    /\ 1 \in DOMAIN t /\ t[1] = x

LEMMA PrependedIs ==
    ASSUME NEW s, IsSequence(s), NEW x, NEW t, t = <<x>> \o s
    PROVE  InFront(s, t, x)
<1>1. Prepends(s, t, x)
  BY PrependToSequence DEF Prepends
<1>2. ASSUME NEW i \in DOMAIN t PROVE t[i] = x \/ \E j \in DOMAIN s : t[i] = s[j]
  <2>1. CASE i = 1
    BY <1>1, <2>1 DEF Prepends
  <2>2. CASE i # 1
    <3>1. i - 1 \in DOMAIN s /\ i - 1 + 1 = i
      BY <1>1, <1>2, <2>2 DEF Prepends
    <3> QED
      BY <1>1, <3>1 DEF Prepends
  <2> QED
    BY <2>1, <2>2
<1>3. ASSUME NEW j \in DOMAIN s PROVE \E i \in DOMAIN t : t[i] = s[j]
  <2>1. j + 1 \in DOMAIN t /\ t[j + 1] = s[j]
    BY <1>1, <1>3 DEF Prepends
  <2> QED
    BY <2>1
<1>4. 1 \in DOMAIN t /\ t[1] = x
  BY <1>1 DEF Prepends
<1> QED
  BY <1>1, <1>2, <1>3, <1>4 DEF InFront

\* The layout that is created comes first.
Created(d, r) == NewLayout(Len(d.layouts) + 1, r.arg[1], r.who)
CreatedFirst(d, r, e) == InFront(d.layouts, e.layouts, Created(d, r))
\* The one that is saved stays where it is.
SavedInPlace(d, r, e) ==
    /\ DOMAIN e.layouts = DOMAIN d.layouts
    /\ \A i \in DOMAIN d.layouts :
          DOMAIN d.layouts[i] = LayoutFields =>
            /\ DOMAIN e.layouts[i] = LayoutFields
            /\ e.layouts[i].id = d.layouts[i].id /\ e.layouts[i].course = d.layouts[i].course
            /\ e.layouts[i].holes = IF d.layouts[i].id = r.arg[1] THEN r.arg[2]
                                    ELSE d.layouts[i].holes
            /\ d.layouts[i].id # r.arg[1] => e.layouts[i] = d.layouts[i]

LEMMA CourseAfter ==
    ASSUME NEW d, IsDb(d), NEW r, r.op \in {"createCourse", "updateCourse"},
           NEW e, e = After(d, r)
    PROVE  /\ r.op = "createCourse" => CreatedFirst(d, r, e)
           /\ r.op = "updateCourse" => SavedInPlace(d, r, e)
<1>1. e.layouts = LayoutsAfterwards(d, r)
  BY LayoutsAfter
<1>2. CASE r.op = "createCourse"
  <2> DEFINE l == Created(d, r)
             s == d.layouts
             t == e.layouts
  <2>1. t = <<l>> \o s
    BY <1>1, <1>2 DEF LayoutsAfterwards, Created
  <2>2. IsSequence(s)
    BY DEF IsDb
  <2> HIDE DEF l, s, t
  <2>3. InFront(s, t, l)
    BY <2>1, <2>2, PrependedIs
  <2> QED
    BY <1>2, <2>3 DEF l, s, t, CreatedFirst
<1>3. CASE r.op = "updateCourse"
  <2>1. e.layouts = [i \in DOMAIN d.layouts |->
                       IF d.layouts[i].id = r.arg[1]
                       THEN [d.layouts[i] EXCEPT !.holes = r.arg[2]] ELSE d.layouts[i]]
    BY <1>1, <1>3 DEF LayoutsAfterwards
  <2> QED
    BY <1>3, <2>1 DEF SavedInPlace, LayoutFields
<1> QED
  BY <1>2, <1>3

-----------------------------------------------------------------------------
(* Holes that are edited stay in their layout; `plain` says that one was     *)
(* saved from an address that names no layout.                               *)

IdsOf(d) == {d.layouts[i].id : i \in DOMAIN d.layouts}
HolesOf(id) == [of : {id}, edited : BOOLEAN]
\* A layout with a number of ids, whose holes are its own.
GoodLayout(l, ids, plain) ==
    /\ DOMAIN l = LayoutFields /\ l.id \in ids
    /\ ~plain => l.holes \in [1..2 -> HolesOf(l.id)]
GoodLayouts(ls, ids, plain) ==
    IsSequence(ls) /\ \A i \in DOMAIN ls : GoodLayout(ls[i], ids, plain)
GoodCourses(gs, ids, plain) ==
    IsCourses(gs) /\ \A n \in DOMAIN gs : GoodLayouts(gs[n].layouts, ids, plain)
\* A request to save a layout saves its own holes, and answers bring good layouts.
GoodRequest(r, ids, plain) ==
    /\ r.op = "updateCourse" =>
          r.arg[1] \in ids /\ (~plain => r.arg[2] \in [1..2 -> HolesOf(r.arg[1])])
    /\ r.op = "courses" /\ r.phase = "ok" => GoodLayouts(r.data, ids, plain)
    /\ r.op \in {"createCourse", "updateCourse"} /\ r.phase = "ok" => GoodLayout(r.data, ids, plain)
\* The hole in the dialogue is one of the layout in the address.
GoodHole(c) ==
    c.view.hole # <<>> =>
      /\ c.at = "/courses" /\ c.arg # <<>>
      /\ Len(c.arg) = 2 => c.view.hole[1] \in 1..2 /\ c.view.hole[2] \in HolesOf(c.arg[2])
\* Whoever is logged in is the one whom the browser remembers.
Session(c) == /\ c.saved \in Users \cup {NoOne}
              /\ c.loggedIn => c.saved = c.user
Sound(c, ids, plain) ==
    /\ IsClient(c) /\ Session(c) /\ GoodCourses(c.courses, ids, plain)
    /\ \A i \in DOMAIN c.net : GoodRequest(c.net[i], ids, plain)
    /\ ~plain => GoodHole(c)
SoundDb(d, plain) == IsDb(d) /\ GoodLayouts(d.layouts, IdsOf(d), plain)

\* What Sound does not look at.
Unseen == ClientFields \ {"net", "courses", "saved", "loggedIn", "user", "at", "arg", "view"}

LEMMA SoundOnly ==
    ASSUME NEW ids, NEW plain, NEW c, Sound(c, ids, plain), NEW S, NEW d, Only(c, d, S),
           S \subseteq Unseen
    PROVE  Sound(d, ids, plain)
<1>1. /\ IsClient(d) /\ d.net = c.net /\ d.courses = c.courses /\ d.saved = c.saved
      /\ d.loggedIn = c.loggedIn /\ d.user = c.user
      /\ d.at = c.at /\ d.arg = c.arg /\ d.view = c.view
  BY DEF Only, Unseen, ClientFields
<1> QED
  BY <1>1 DEF Sound, Session, GoodHole

LEMMA SoundGrows ==
    ASSUME NEW ids, NEW plain, NEW c, Sound(c, ids, plain), NEW d, NEW F, Grows(c, d, F)
    PROVE  Sound(d, ids, plain)
<1>1. IsClient(d) /\ Same(c, d) /\ Extends(c, d, F)
  BY DEF Grows
<1>2. ASSUME NEW i \in DOMAIN d.net PROVE GoodRequest(d.net[i], ids, plain)
  <2>1. CASE i \in DOMAIN c.net
    BY <1>1, <2>1 DEF Extends, Sound
  <2>2. CASE i \notin DOMAIN c.net
    <3>1. Asked(c, d.net[i], F)
      BY <1>1, <2>2 DEF Extends
    <3> DEFINE r == d.net[i]
    <3>2. r.op \in Background /\ r.phase = "sent"
      BY <3>1 DEF Asked, Request
    <3> QED
      BY <3>2 DEF GoodRequest, Background, FetchOps
  <2> QED
    BY <2>1, <2>2
<1> QED
  BY <1>1, <1>2 DEF Sound, Same, Session, GoodHole

LEMMA SoundLooks ==
    ASSUME NEW ids, NEW plain, NEW c, Sound(c, ids, plain), NEW d, NEW view, Looks(c, d, view),
           view.hole = c.view.hole
    PROVE  Sound(d, ids, plain)
BY DEF Sound, Looks, Session, GoodHole

LEMMA SoundDispatch ==
    ASSUME NEW ids, NEW plain, NEW c, NEW b, Sound(b, ids, plain), NEW d, d = Dispatch(c, b)
    PROVE  Sound(d, ids, plain)
<1> DEFINE a == Adjusted(c, b)
<1>1. IsClient(b)
  BY DEF Sound
<1>2. Looks(b, a, a.view) /\ a.view.hole = b.view.hole
  BY <1>1, AdjustedIs
<1>3. Grows(a, d, EffectsOf(c, a))
  BY <1>1, DispatchGrows
<1> HIDE DEF a
<1>4. Sound(a, ids, plain)
  BY <1>2, SoundLooks
<1> QED
  BY <1>3, <1>4, SoundGrows

LEMMA SoundPush ==
    ASSUME NEW ids, NEW plain, NEW c, Sound(c, ids, plain), NEW at, NEW arg, Addressed(at, arg),
           c.view.hole = <<>> \/ at # "/courses", NEW d, d = Push(c, at, arg)
    PROVE  Sound(d, ids, plain)
<1> DEFINE a == Turned(c, at, arg)
<1>1. IsClient(c)
  BY DEF Sound
<1>2. /\ IsClient(a) /\ a.net = c.net /\ a.courses = c.courses /\ a.saved = c.saved
      /\ a.loggedIn = c.loggedIn /\ a.user = c.user /\ a.at = at /\ a.arg = arg
      /\ a.view = IF c.at = at THEN c.view ELSE Fresh
  BY <1>1, TurnedIs
<1>3. Grows(a, d, EffectsOf(c, a))
  BY <1>1, PushGrows
<1> HIDE DEF a
<1>4. ~plain => a.view.hole = <<>>
  BY <1>2 DEF Sound, GoodHole, Fresh
<1>5. Sound(a, ids, plain)
  BY <1>2, <1>4 DEF Sound, Session, GoodHole
<1> QED
  BY <1>3, <1>5, SoundGrows

\* The layouts there are may grow in number.
LEMMA SoundMore ==
    ASSUME NEW ids, NEW plain \in BOOLEAN, NEW ids2, NEW plain2 \in BOOLEAN, ids \subseteq ids2,
           plain => plain2
    PROVE  /\ \A l : GoodLayout(l, ids, plain) => GoodLayout(l, ids2, plain2)
           /\ \A ls : GoodLayouts(ls, ids, plain) => GoodLayouts(ls, ids2, plain2)
           /\ \A r : GoodRequest(r, ids, plain) => GoodRequest(r, ids2, plain2)
           /\ \A c : Sound(c, ids, plain) => Sound(c, ids2, plain2)
<1>1. \A l : GoodLayout(l, ids, plain) => GoodLayout(l, ids2, plain2)
  BY DEF GoodLayout
<1>2. \A ls : GoodLayouts(ls, ids, plain) => GoodLayouts(ls, ids2, plain2)
  BY <1>1 DEF GoodLayouts
<1>3. \A r : GoodRequest(r, ids, plain) => GoodRequest(r, ids2, plain2)
  BY <1>1, <1>2 DEF GoodRequest
<1>4. \A gs : GoodCourses(gs, ids, plain) => GoodCourses(gs, ids2, plain2)
  BY <1>2 DEF GoodCourses
<1>5. \A c : Sound(c, ids, plain) => Sound(c, ids2, plain2)
  BY <1>3, <1>4 DEF Sound
<1> QED
  BY <1>1, <1>2, <1>3, <1>5

LEMMA GoodGrouped ==
    ASSUME NEW ids, NEW plain, NEW ls, GoodLayouts(ls, ids, plain)
    PROVE  GoodCourses(Grouped(ls), ids, plain)
<1> DEFINE gs == Grouped(ls)
<1>1. /\ IsCourses(gs)
      /\ \A n \in DOMAIN gs :
           \E w \in [DOMAIN gs[n].layouts -> DOMAIN ls] :
              /\ \A k \in DOMAIN gs[n].layouts : /\ gs[n].layouts[k] = ls[w[k]]
                                                 /\ ls[w[k]].course = gs[n].name
              /\ \A j, k \in DOMAIN gs[n].layouts : w[j] = w[k] => j = k
  BY GroupedIs DEF GoodLayouts
<1> HIDE DEF gs
<1>2. ASSUME NEW n \in DOMAIN gs, NEW k \in DOMAIN gs[n].layouts
      PROVE  GoodLayout(gs[n].layouts[k], ids, plain)
  <2>1. PICK i \in DOMAIN ls : gs[n].layouts[k] = ls[i]
    BY <1>1, <1>2
  <2> QED
    BY <2>1 DEF GoodLayouts
<1>3. \A n \in DOMAIN gs : IsSequence(gs[n].layouts)
  BY <1>1 DEF IsCourses, IsGroup
<1>4. GoodCourses(gs, ids, plain)
  BY <1>1, <1>2, <1>3 DEF GoodCourses, GoodLayouts
<1> QED
  BY <1>4 DEF gs

LEMMA GoodUpdated ==
    ASSUME NEW ids, NEW plain, NEW gs, GoodCourses(gs, ids, plain), NEW l,
           GoodLayout(l, ids, plain)
    PROVE  GoodCourses(CourseUpdated(gs, l), ids, plain)
<1> DEFINE hs == CourseUpdated(gs, l)
<1>1. /\ IsCourses(hs) /\ DOMAIN hs = DOMAIN gs
      /\ \A n \in DOMAIN gs : /\ hs[n].name = gs[n].name
                              /\ Renews(gs[n].layouts, hs[n].layouts, l)
  BY CourseUpdatedIs DEF GoodCourses
<1> HIDE DEF hs
<1>2. ASSUME NEW n \in DOMAIN hs, NEW k \in DOMAIN hs[n].layouts
      PROVE  GoodLayout(hs[n].layouts[k], ids, plain)
  <2>1. hs[n].layouts[k] = l \/ \E i \in DOMAIN gs[n].layouts : hs[n].layouts[k] = gs[n].layouts[i]
    BY <1>1, <1>2 DEF Renews
  <2> QED
    BY <1>1, <2>1 DEF GoodCourses, GoodLayouts
<1>3. \A n \in DOMAIN hs : IsSequence(hs[n].layouts)
  BY <1>1 DEF IsCourses, IsGroup
<1>4. GoodCourses(hs, ids, plain)
  BY <1>1, <1>2, <1>3 DEF GoodCourses, GoodLayouts
<1> QED
  BY <1>4 DEF hs

LEMMA GoodCreated ==
    ASSUME NEW ids, NEW plain, NEW gs, GoodCourses(gs, ids, plain), NEW l,
           GoodLayout(l, ids, plain)
    PROVE  GoodCourses(CourseCreated(gs, l), ids, plain)
<1> DEFINE hs == CourseCreated(gs, l)
<1>5. Creates(gs, hs, l)
  BY CourseCreatedIs DEF GoodCourses
<1> HIDE DEF hs
<1>1. /\ IsCourses(hs)
      /\ \A n \in DOMAIN hs :
           \/ \E m \in DOMAIN gs : hs[n] = gs[m]
           \/ hs[n].layouts = <<l>>
           \/ \E m \in DOMAIN gs : hs[n].layouts = <<l>> \o gs[m].layouts
  BY <1>5 DEF Creates
<1>2. ASSUME NEW n \in DOMAIN hs, NEW k \in DOMAIN hs[n].layouts
      PROVE  GoodLayout(hs[n].layouts[k], ids, plain)
  <2>1. CASE \E m \in DOMAIN gs : hs[n] = gs[m]
    BY <1>2, <2>1 DEF GoodCourses, GoodLayouts
  <2>2. CASE hs[n].layouts = <<l>>
    <3>1. hs[n].layouts[k] = l
      BY <1>2, <2>2
    <3> QED
      BY <3>1
  <2>3. ASSUME NEW m \in DOMAIN gs, hs[n].layouts = <<l>> \o gs[m].layouts
        PROVE  GoodLayout(hs[n].layouts[k], ids, plain)
    <3> DEFINE ms == gs[m].layouts
    <3>1. IsSequence(ms) /\ \A i \in DOMAIN ms : GoodLayout(ms[i], ids, plain)
      BY <2>3 DEF GoodCourses, GoodLayouts
    <3>2. hs[n].layouts = <<l>> \o ms
      BY <2>3
    <3> HIDE DEF ms
    <3>3. /\ DOMAIN hs[n].layouts = 1..(Len(ms) + 1) /\ hs[n].layouts[1] = l
          /\ DOMAIN ms = 1..Len(ms) /\ Len(ms) \in Nat
          /\ \A i \in 1..Len(ms) : hs[n].layouts[i + 1] = ms[i]
      BY <3>1, <3>2, PrependToSequence
    <3>4. CASE k = 1
      BY <3>3, <3>4
    <3>5. CASE k # 1
      <4>1. k - 1 \in 1..Len(ms) /\ k - 1 + 1 = k
        BY <1>2, <3>3, <3>5
      <4> QED
        BY <3>1, <3>3, <4>1
    <3> QED
      BY <3>4, <3>5
  <2> QED
    BY <1>1, <1>2, <2>1, <2>2, <2>3
<1>3. \A n \in DOMAIN hs : IsSequence(hs[n].layouts)
  BY <1>1 DEF IsCourses, IsGroup
<1>4. GoodCourses(hs, ids, plain)
  BY <1>1, <1>2, <1>3 DEF GoodCourses, GoodLayouts
<1> QED
  BY <1>4 DEF hs

-----------------------------------------------------------------------------
(* The steps keep a client sound.                                            *)

\* A request more, less, or answered.
LEMMA SoundAsks ==
    ASSUME NEW ids, NEW plain, NEW c, Sound(c, ids, plain), NEW op \in Requests, NEW arg, NEW who,
           op \in {"login", "createUser"} => arg[1] \in Users,
           GoodRequest(Request(op, arg, who), ids, plain),
           NEW d, d = [c EXCEPT !.net = Append(@, Request(op, arg, who))]
    PROVE  Sound(d, ids, plain)
<1> DEFINE r == Request(op, arg, who)
<1>1. IsClient(c)
  BY DEF Sound
<1>2. Appends(c, d, r)
  BY <1>1, Appending
<1> HIDE DEF r
<1>3. \A i \in DOMAIN d.net : d.net[i] = r \/ (i \in DOMAIN c.net /\ d.net[i] = c.net[i])
  BY <1>2 DEF Appends
<1>4. \A i \in DOMAIN d.net : GoodRequest(d.net[i], ids, plain)
  BY <1>3 DEF Sound, r
<1> QED
  BY <1>2, <1>4 DEF Sound, Appends, Same, Session, GoodHole

LEMMA SoundNet ==
    ASSUME NEW ids, NEW plain, NEW c, Sound(c, ids, plain), NEW d, Only(c, d, {"net"}),
           \A i \in DOMAIN d.net : GoodRequest(d.net[i], ids, plain)
    PROVE  Sound(d, ids, plain)
<1>1. /\ IsClient(d) /\ d.courses = c.courses /\ d.saved = c.saved
      /\ d.loggedIn = c.loggedIn /\ d.user = c.user
      /\ d.at = c.at /\ d.arg = c.arg /\ d.view = c.view
  BY DEF Only, ClientFields
<1> QED
  BY <1>1 DEF Sound, Session, GoodHole

LEMMA SoundTaken ==
    ASSUME NEW ids, NEW plain, NEW c, Sound(c, ids, plain), NEW i \in DOMAIN c.net,
           NEW d, d = [c EXCEPT !.net = RemoveAt(@, i)]
    PROVE  Sound(d, ids, plain)
<1>1. IsClient(c)
  BY DEF Sound
<1>2. Takes(c, d, i)
  BY <1>1, RequestTaken
<1>3. \A j \in DOMAIN d.net : \E k \in DOMAIN c.net : d.net[j] = c.net[k]
  BY <1>2 DEF Takes
<1>4. \A j \in DOMAIN d.net : GoodRequest(d.net[j], ids, plain)
  BY <1>3 DEF Sound
<1> QED
  BY <1>2, <1>4, SoundNet DEF Takes

LEMMA SoundCourses ==
    ASSUME NEW ids, NEW plain, NEW c, Sound(c, ids, plain), NEW d, Only(c, d, {"courses"}),
           GoodCourses(d.courses, ids, plain)
    PROVE  Sound(d, ids, plain)
<1>1. /\ IsClient(d) /\ d.net = c.net /\ d.saved = c.saved
      /\ d.loggedIn = c.loggedIn /\ d.user = c.user
      /\ d.at = c.at /\ d.arg = c.arg /\ d.view = c.view
  BY DEF Only, ClientFields
<1> QED
  BY <1>1 DEF Sound, Session, GoodHole

\* The part of a client that is remembered.
LEMMA SavedKnown ==
    ASSUME NEW c, IsClient(c), NEW u, NEW d, d = [c EXCEPT !.saved = u]
    PROVE  Only(c, d, {"saved"}) /\ d.saved = u
<1>1. DOMAIN d = ClientFields /\ (\A p \in ClientFields \ {"saved"} : d[p] = c[p]) /\ d.saved = u
  BY DEF IsClient, ClientFields
<1> QED
  BY <1>1, LooseOnly DEF Loose

\* Logging in, as it goes: the reducer, the components, localStorage.
LogsIn(c, u, d) ==
    \E b, a, m :
       /\ Only(c, b, {"loggedIn", "user", "failed"})
       /\ b.loggedIn /\ b.user = u /\ ~b.failed
       /\ Looks(b, a, a.view) /\ a.view.hole = b.view.hole
       /\ Grows(a, m, EffectsOf(c, a))
       /\ c.loggedIn => a = b
       /\ ~c.loggedIn => Makes(a, m, Details)
       /\ Only(m, d, {"saved"}) /\ d.saved = u

LEMMA LoggedInIs ==
    ASSUME NEW c, IsClient(c), NEW u \in Users, NEW d, d = LoggedIn(c, u)
    PROVE  LogsIn(c, u, d)
<1> DEFINE b == LoginSucceed(c, u)
           a == Adjusted(c, b)
           m == Dispatch(c, b)
<1>1. d = [m EXCEPT !.saved = u]
  BY DEF LoggedIn
<1>2. /\ Only(c, b, {"loggedIn", "user", "failed"}) /\ b.loggedIn /\ b.user = u /\ ~b.failed
  BY LoggingKnown
<1> HIDE DEF b
<1>3. IsClient(b)
  BY <1>2 DEF Only
<1>9. c.loggedIn \in BOOLEAN /\ b.loggedIn \in BOOLEAN
  BY <1>3 DEF IsClient, IsUser
<1>4. /\ Looks(b, a, a.view) /\ a.view.hole = b.view.hole
      /\ c.loggedIn = b.loggedIn => a = b
  BY <1>3, AdjustedIs
<1>5. /\ Grows(a, m, EffectsOf(c, a))
      /\ b.loggedIn /\ ~c.loggedIn => Makes(a, m, Details)
  BY <1>3, DispatchGrows
<1> HIDE DEF a, m
<1>6. IsClient(m)
  BY <1>5 DEF Grows
<1>7. Only(m, d, {"saved"}) /\ d.saved = u
  BY <1>1, <1>6, SavedKnown
<1> QED
  BY <1>2, <1>4, <1>5, <1>7, <1>9 DEF LogsIn

LEMMA SoundLoggedIn ==
    ASSUME NEW ids, NEW plain, NEW c, Sound(c, ids, plain), NEW u \in Users,
           NEW d, d = LoggedIn(c, u)
    PROVE  Sound(d, ids, plain) /\ d.loggedIn /\ d.user = u /\ d.at = c.at
<1>0. LogsIn(c, u, d)
  BY LoggedInIs DEF Sound
<1>1. PICK b, a, m :
         /\ Only(c, b, {"loggedIn", "user", "failed"})
         /\ b.loggedIn /\ b.user = u /\ ~b.failed
         /\ Looks(b, a, a.view) /\ a.view.hole = b.view.hole
         /\ Grows(a, m, EffectsOf(c, a))
         /\ c.loggedIn => a = b
         /\ ~c.loggedIn => Makes(a, m, Details)
         /\ Only(m, d, {"saved"}) /\ d.saved = u
  BY <1>0 DEF LogsIn
<1>2. /\ b.net = c.net /\ b.courses = c.courses /\ b.at = c.at /\ b.arg = c.arg /\ b.view = c.view
      /\ b.saved = c.saved
  BY <1>1 DEF Only, ClientFields
<1>3. /\ a.net = c.net /\ a.courses = c.courses /\ a.at = c.at /\ a.arg = c.arg
      /\ a.view.hole = c.view.hole /\ a.loggedIn /\ a.user = u
  BY <1>1, <1>2 DEF Looks
<1>4. IsClient(m) /\ Same(a, m) /\ Extends(a, m, EffectsOf(c, a))
  BY <1>1 DEF Grows
<1>5. /\ IsClient(d) /\ d.net = m.net /\ d.courses = c.courses /\ d.at = c.at /\ d.arg = c.arg
      /\ d.view.hole = c.view.hole /\ d.loggedIn /\ d.user = u /\ d.saved = u
  BY <1>1, <1>3, <1>4 DEF Only, ClientFields, Same
<1>6. ASSUME NEW i \in DOMAIN d.net PROVE GoodRequest(d.net[i], ids, plain)
  <2>1. CASE i \in DOMAIN c.net
    BY <1>3, <1>4, <1>5, <2>1 DEF Extends, Sound
  <2>2. CASE i \notin DOMAIN c.net
    <3> DEFINE r == d.net[i]
    <3>1. Asked(a, r, EffectsOf(c, a))
      BY <1>3, <1>4, <1>5, <1>6, <2>2 DEF Extends
    <3>2. r.op \in Background /\ r.phase = "sent"
      BY <3>1 DEF Asked, Request
    <3> QED
      BY <3>2 DEF GoodRequest, Background, FetchOps
  <2> QED
    BY <2>1, <2>2
<1> QED
  BY <1>5, <1>6 DEF Sound, Session, GoodHole

\* Logging out.
LogsOut(c, d) ==
    \E b, a, m :
       /\ Only(c, b, {"loggedIn", "failed", "saved"}) /\ ~b.loggedIn /\ b.saved = NoOne
       /\ Looks(b, a, a.view) /\ a.view.hole = b.view.hole
       /\ Grows(a, m, EffectsOf(c, a))
       /\ d = Push(m, "/", <<>>)

LEMMA LoggedOutIs ==
    ASSUME NEW c, IsClient(c), NEW d, d = logout(c)
    PROVE  LogsOut(c, d)
<1> DEFINE l == LogUserOut(c)
           b == [l EXCEPT !.saved = NoOne]
           a == Adjusted(c, b)
           m == Dispatch(c, b)
<1>1. d = Push(m, "/", <<>>)
  BY DEF logout
<1>2. Only(c, l, {"loggedIn", "failed"}) /\ ~l.loggedIn
  BY LoggingOutKnown
<1> HIDE DEF l
<1>3. IsClient(l)
  BY <1>2 DEF Only
<1>4. Only(l, b, {"saved"}) /\ b.saved = NoOne
  BY <1>3, SavedKnown
<1> HIDE DEF b
<1>5. Only(c, b, {"loggedIn", "failed", "saved"}) /\ ~b.loggedIn /\ IsClient(b)
  BY <1>2, <1>4 DEF Only, ClientFields
<1>6. Looks(b, a, a.view) /\ a.view.hole = b.view.hole
  BY <1>5, AdjustedIs
<1>7. Grows(a, m, EffectsOf(c, a))
  BY <1>5, DispatchGrows
<1> HIDE DEF a, m
<1> QED
  BY <1>1, <1>4, <1>5, <1>6, <1>7 DEF LogsOut

LEMMA SoundLoggedOut ==
    ASSUME NEW ids, NEW plain, NEW c, Sound(c, ids, plain), NEW d, d = logout(c)
    PROVE  Sound(d, ids, plain)
<1>0. LogsOut(c, d)
  BY LoggedOutIs DEF Sound
<1>1. PICK b, a, m :
         /\ Only(c, b, {"loggedIn", "failed", "saved"}) /\ ~b.loggedIn /\ b.saved = NoOne
         /\ Looks(b, a, a.view) /\ a.view.hole = b.view.hole
         /\ Grows(a, m, EffectsOf(c, a))
         /\ d = Push(m, "/", <<>>)
  BY <1>0 DEF LogsOut
<1>2. /\ IsClient(b) /\ b.net = c.net /\ b.courses = c.courses /\ b.at = c.at /\ b.arg = c.arg
      /\ b.view = c.view /\ b.saved = NoOne /\ ~b.loggedIn
  BY <1>1 DEF Only, ClientFields
<1>3. Sound(b, ids, plain)
  BY <1>2 DEF Sound, Session, GoodHole
<1>4. Sound(a, ids, plain)
  BY <1>1, <1>3, SoundLooks
<1>5. Sound(m, ids, plain)
  BY <1>1, <1>4, SoundGrows
<1>6. Addressed("/", <<>>)
  BY DEF Addressed
<1> QED
  BY <1>1, <1>5, <1>6, SoundPush

LEMMA SoundLeft ==
    ASSUME NEW ids, NEW plain, NEW c, Sound(c, ids, plain), NEW d,
           Only(c, d, {"loggedIn", "failed", "logouts"}), ~d.loggedIn
    PROVE  Sound(d, ids, plain)
<1>1. /\ IsClient(d) /\ d.net = c.net /\ d.courses = c.courses /\ d.saved = c.saved
      /\ d.user = c.user /\ d.at = c.at /\ d.arg = c.arg /\ d.view = c.view
  BY DEF Only, ClientFields
<1> QED
  BY <1>1 DEF Sound, Session, GoodHole

LEMMA LogoutSoonIs ==
    ASSUME NEW c, IsClient(c), NEW d, d = LogoutSoon(c)
    PROVE  Only(c, d, {"logouts"}) /\ d.logouts = c.logouts + 1
<1>1. /\ DOMAIN d = ClientFields /\ (\A p \in ClientFields \ {"logouts"} : d[p] = c[p])
      /\ d.logouts = c.logouts + 1
  BY DEF LogoutSoon, IsClient, ClientFields
<1>2. {"logouts"} \in SUBSET Loose
  BY DEF Loose
<1> QED
  BY <1>1, <1>2, LooseOnly

\* An answer.
LEMMA SoundReduced ==
    ASSUME NEW ids, NEW plain, NEW c, Sound(c, ids, plain),
           NEW r, r.op \in Requests \ Turning, GoodRequest(r, ids, plain), r.phase = "ok", NEW n,
           NEW d, d = Reduced(c, r, n)
    PROVE  Sound(d, ids, plain)
<1>1. IsClient(c) /\ GoodCourses(c.courses, ids, plain)
  BY DEF Sound
<1>2. CASE r.op \notin {"courses", "createCourse", "updateCourse"}
  <2>1. Only(c, d, Parts(r.op))
    BY <1>1, ReducedIs
  <2>2. Parts(r.op) \subseteq Unseen
    BY <1>2 DEF Parts, Unseen, ClientFields
  <2> QED
    BY <2>1, <2>2, SoundOnly
<1>3. ASSUME NEW x, GoodCourses(x, ids, plain), d = [c EXCEPT !.courses = x]
      PROVE  Sound(d, ids, plain)
  <2>1. Only(c, d, {"courses"}) /\ d.courses = x
    BY <1>1, <1>3, CoursesKnown
  <2> QED
    BY <1>3, <2>1, SoundCourses
<1>4. CASE r.op = "courses"
  <2> DEFINE x == Grouped(r.data)
  <2>1. GoodLayouts(r.data, ids, plain)
    BY <1>4 DEF GoodRequest
  <2>2. GoodCourses(x, ids, plain)
    BY <2>1, GoodGrouped
  <2>3. d = [c EXCEPT !.courses = x]
    BY <1>4 DEF Reduced, NothingShown, NeedsDetails
  <2> HIDE DEF x
  <2> QED
    BY <1>3, <2>2, <2>3
<1>5. CASE r.op = "createCourse"
  <2> DEFINE x == CourseCreated(c.courses, r.data)
  <2>1. GoodLayout(r.data, ids, plain)
    BY <1>5 DEF GoodRequest
  <2>2. GoodCourses(x, ids, plain)
    BY <1>1, <2>1, GoodCreated
  <2>3. d = [c EXCEPT !.courses = x]
    BY <1>5 DEF Reduced, NothingShown, NeedsDetails
  <2> HIDE DEF x
  <2> QED
    BY <1>3, <2>2, <2>3
<1>6. CASE r.op = "updateCourse"
  <2> DEFINE x == CourseUpdated(c.courses, r.data)
  <2>1. GoodLayout(r.data, ids, plain)
    BY <1>6 DEF GoodRequest
  <2>2. GoodCourses(x, ids, plain)
    BY <1>1, <2>1, GoodUpdated
  <2>3. d = [c EXCEPT !.courses = x]
    BY <1>6 DEF Reduced, NothingShown, NeedsDetails
  <2> HIDE DEF x
  <2> QED
    BY <1>3, <2>2, <2>3
<1> QED
  BY <1>2, <1>4, <1>5, <1>6

\* Answers that lead to another page.
LEMMA TurningIs ==
    ASSUME NEW c, NEW r, NEW n, NEW d, d = Succeeded(c, r, n)
    PROVE  /\ r.op = "login" => d = Push(LoggedIn(c, r.arg[1]), "/", <<>>)
           /\ r.op = "createUser" =>
                d = Push(Asks(LoggedIn(c, r.arg[1]), "details", <<>>), "/", <<>>)
           /\ r.op = "setPassword" => d = Push(showNotification(c, n), "/", <<>>)
           /\ r.op = "createTournament" => d = Push(c, "/tournament", <<r.data>>)
BY DEF Succeeded, NeedsDetails, NothingShown, fetchUserDetails

LEMMA SoundSucceeded ==
    ASSUME NEW ids, NEW plain, NEW c, Sound(c, ids, plain),
           NEW r, IsRequest(r), GoodRequest(r, ids, plain), r.phase = "ok", NEW n,
           NEW d, d = Succeeded(c, r, n)
    PROVE  Sound(d, ids, plain)
<1>0. Addressed("/", <<>>) /\ IsClient(c)
  BY DEF Addressed, Sound
<1>1. CASE r.op \in Requests \ Turning
  <2> DEFINE b == Reduced(c, r, n)
  <2>1. Sound(b, ids, plain)
    BY <1>1, SoundReduced
  <2>2. Grows(b, d, {})
    BY <1>0, <1>1, SucceededIs
  <2> HIDE DEF b
  <2> QED
    BY <2>1, <2>2, SoundGrows
<1>2. CASE r.op \in {"login", "createUser"}
  <2> DEFINE e == LoggedIn(c, r.arg[1])
             f == Asks(e, "details", <<>>)
  <2>1. r.arg[1] \in Users
    BY <1>2 DEF IsRequest
  <2>2. Sound(e, ids, plain)
    BY <2>1, SoundLoggedIn
  <2>3. d = Push(e, "/", <<>>) \/ d = Push(f, "/", <<>>)
    BY <1>2, TurningIs
  <2> HIDE DEF e
  <2>4. Grows(e, f, {})
    BY <2>2, AskingGrows DEF Sound, Background
  <2> HIDE DEF f
  <2>5. Sound(f, ids, plain)
    BY <2>2, <2>4, SoundGrows
  <2> QED
    BY <1>0, <2>2, <2>3, <2>5, SoundPush
<1>3. CASE r.op = "setPassword"
  <2> DEFINE e == showNotification(c, n)
  <2>1. d = Push(e, "/", <<>>)
    BY <1>3, TurningIs
  <2>2. Only(c, e, {"notes", "alarms"})
    BY <1>0, Notified
  <2> HIDE DEF e
  <2>3. Sound(e, ids, plain)
    BY <2>2, SoundOnly DEF Unseen, ClientFields
  <2> QED
    BY <1>0, <2>1, <2>3, SoundPush
<1>4. CASE r.op = "createTournament"
  <2> DEFINE arg == <<r.data>>
  <2>1. d = Push(c, "/tournament", arg)
    BY <1>4, TurningIs
  <2>2. Addressed("/tournament", arg)
    BY DEF Addressed, Single
  <2> HIDE DEF arg
  <2> QED
    BY <2>1, <2>2, SoundPush
<1> QED
  BY <1>1, <1>2, <1>3, <1>4 DEF IsRequest, Turning

LEMMA SoundFailed ==
    ASSUME NEW ids, NEW plain, NEW c, Sound(c, ids, plain), NEW r, NEW n, NEW d, d = Failed(c, r, n)
    PROVE  Sound(d, ids, plain)
<1>0. IsClient(c)
  BY DEF Sound
<1>1. CASE r.op \in {"login", "createUser"}
  <2> DEFINE b == LoginFailed(c)
             e == Dispatch(c, b)
  <2>1. d = LogoutSoon(e)
    BY <1>1 DEF Failed
  <2>2. Only(c, b, {"loggedIn", "failed"}) /\ ~b.loggedIn
    BY <1>0, LoggingOutKnown
  <2> HIDE DEF b
  <2>3. Sound(b, ids, plain)
    BY <2>2, SoundLeft DEF Only
  <2>4. Sound(e, ids, plain)
    BY <2>3, SoundDispatch
  <2> HIDE DEF e
  <2>5. Only(e, d, {"logouts"})
    BY <2>1, <2>4, LogoutSoonIs DEF Sound
  <2> QED
    BY <2>4, <2>5, SoundOnly DEF Unseen, ClientFields
<1>2. CASE r.op \in {"courses", "createCourse", "updateCourse"} /\ r.phase = "denied"
  <2> DEFINE e == logout(c)
  <2>1. d = showNotification(e, n)
    BY <1>2 DEF Failed
  <2>2. Sound(e, ids, plain)
    BY SoundLoggedOut
  <2> HIDE DEF e
  <2>3. Only(e, d, {"notes", "alarms"})
    BY <2>1, <2>2, Notified DEF Sound
  <2> QED
    BY <2>2, <2>3, SoundOnly DEF Unseen, ClientFields
<1>3. CASE /\ r.op \notin {"login", "createUser"}
           /\ ~(r.op \in {"courses", "createCourse", "updateCourse"} /\ r.phase = "denied")
  <2>1. Fails(c, d)
    BY <1>0, <1>3, FailedIs
  <2>2. PICK b, e : /\ Only(c, b, {"shown", "cup", "logouts"}) /\ Grows(b, e, {})
                    /\ Only(e, d, {"notes", "alarms"})
    BY <2>1 DEF Fails
  <2>3. Sound(b, ids, plain)
    BY <2>2, SoundOnly DEF Unseen, ClientFields
  <2>4. Sound(e, ids, plain)
    BY <2>2, <2>3, SoundGrows
  <2> QED
    BY <2>2, <2>4, SoundOnly DEF Unseen, ClientFields
<1> QED
  BY <1>1, <1>2, <1>3

-----------------------------------------------------------------------------
(* The server keeps its layouts sound, and answers with sound ones.          *)

LEMMA SoundLayouts ==
    ASSUME NEW plain, NEW d, SoundDb(d, plain), NEW r, GoodRequest(r, IdsOf(d), plain),
           NEW e, e = After(d, r)
    PROVE  SoundDb(e, plain) /\ IdsOf(d) \subseteq IdsOf(e)
<1>0. IsDb(d) /\ IsDb(e)
  BY AfterIs DEF SoundDb
<1>1. CASE r.op \notin {"createCourse", "updateCourse"}
  <2>1. e.layouts = d.layouts
    BY <1>0, <1>1, AfterIs
  <2> QED
    BY <1>0, <2>1 DEF SoundDb, IdsOf
<1>2. IsSequence(d.layouts) /\ \A i \in DOMAIN d.layouts : GoodLayout(d.layouts[i], IdsOf(d), plain)
  BY DEF SoundDb, GoodLayouts
<1>3. IsSequence(e.layouts)
  BY <1>0 DEF IsDb
<1>4. CASE r.op = "createCourse"
  <2> DEFINE l == Created(d, r)
  <2>1. CreatedFirst(d, r, e)
    BY <1>0, <1>4, CourseAfter
  <2>2. DOMAIN l = LayoutFields /\ l.holes \in [1..2 -> HolesOf(l.id)]
    BY DEF Created, NewLayout, LayoutFields, HolesOf
  <2>3. l.id \in IdsOf(e) /\ IdsOf(d) \subseteq IdsOf(e)
    BY <2>1 DEF IdsOf, CreatedFirst, InFront
  <2>4. GoodLayout(l, IdsOf(e), plain)
    BY <2>2, <2>3 DEF GoodLayout
  <2>5. \A i \in DOMAIN d.layouts : GoodLayout(d.layouts[i], IdsOf(e), plain)
    BY <1>2, <2>3 DEF GoodLayout
  <2>6. \A i \in DOMAIN e.layouts : GoodLayout(e.layouts[i], IdsOf(e), plain)
    BY <2>1, <2>4, <2>5 DEF CreatedFirst, InFront
  <2> QED
    BY <1>0, <1>3, <2>3, <2>6 DEF SoundDb, GoodLayouts
<1>5. CASE r.op = "updateCourse"
  <2>1. SavedInPlace(d, r, e)
    BY <1>0, <1>5, CourseAfter
  <2>2. \A i \in DOMAIN d.layouts : DOMAIN d.layouts[i] = LayoutFields
    BY <1>2 DEF GoodLayout
  <2>3. IdsOf(e) = IdsOf(d)
    BY <2>1, <2>2 DEF IdsOf, SavedInPlace
  <2>4. ~plain => r.arg[2] \in [1..2 -> HolesOf(r.arg[1])]
    BY <1>5 DEF GoodRequest
  <2>5. \A i \in DOMAIN e.layouts : GoodLayout(e.layouts[i], IdsOf(e), plain)
    BY <1>2, <2>1, <2>2, <2>3, <2>4 DEF GoodLayout, SavedInPlace
  <2> QED
    BY <1>0, <1>3, <2>3, <2>5 DEF SoundDb, GoodLayouts
<1> QED
  BY <1>1, <1>4, <1>5

\* Courses that are asked for are layouts there are, each from its place.
LEMMA CoursesData ==
    ASSUME NEW d, IsDb(d), NEW r, r.op = "courses"
    PROVE  \E S \in SUBSET DOMAIN d.layouts : PickedFrom(d.layouts, S, Data(d, r))
<1> DEFINE ls == d.layouts
           S == {i \in DOMAIN ls : r.arg[1] \in {"", ls[i].course}}
<1>1. Data(d, r) = Picked(ls, S)
  BY DEF Data
<1>2. S \in SUBSET DOMAIN ls /\ IsSequence(ls)
  BY DEF IsDb
<1> HIDE DEF S
<1>3. PickedFrom(ls, S, Picked(ls, S))
  BY <1>2, PickedMembers
<1> QED
  BY <1>1, <1>2, <1>3

LEMMA LayoutOfIs ==
    ASSUME NEW d, NEW id \in IdsOf(d)
    PROVE  \E i \in DOMAIN d.layouts : LayoutOf(d, id) = d.layouts[i] /\ d.layouts[i].id = id
<1>1. \E l \in Range(d.layouts) : l.id = id
  BY DEF IdsOf, Range
<1>2. LayoutOf(d, id) \in Range(d.layouts) /\ LayoutOf(d, id).id = id
  BY <1>1 DEF LayoutOf
<1> QED
  BY <1>2 DEF Range

LEMMA GoodServed ==
    ASSUME NEW plain, NEW d, SoundDb(d, plain), NEW r, IsRequest(r), GoodRequest(r, IdsOf(d), plain),
           NEW e, e = After(d, r), NEW q, q = [r EXCEPT !.phase = "ok", !.data = Data(e, r)]
    PROVE  IsRequest(q) /\ GoodRequest(q, IdsOf(e), plain)
<1>1. SoundDb(e, plain) /\ IdsOf(d) \subseteq IdsOf(e) /\ IsDb(e) /\ IsDb(d)
  BY SoundLayouts DEF SoundDb
<1>2. /\ DOMAIN q = RequestFields /\ q.op = r.op /\ q.arg = r.arg /\ q.who = r.who
      /\ q.data = Data(e, r)
  BY DEF IsRequest, RequestFields
<1>3. \A i \in DOMAIN e.layouts : GoodLayout(e.layouts[i], IdsOf(e), plain)
  BY <1>1 DEF SoundDb, GoodLayouts
<1>4. ASSUME r.op = "courses" PROVE GoodLayouts(q.data, IdsOf(e), plain)
  <2>1. PICK S \in SUBSET DOMAIN e.layouts : PickedFrom(e.layouts, S, q.data)
    BY <1>1, <1>2, <1>4, CoursesData
  <2>2. IsSequence(q.data) /\ \A k \in DOMAIN q.data : \E i \in DOMAIN e.layouts : q.data[k] = e.layouts[i]
    BY <2>1 DEF PickedFrom
  <2> QED
    BY <1>3, <2>2 DEF GoodLayouts
<1>5. ASSUME r.op = "createCourse" PROVE GoodLayout(q.data, IdsOf(e), plain)
  <2>1. q.data = e.layouts[1]
    BY <1>2, <1>5 DEF Data
  <2>2. 1 \in DOMAIN e.layouts
    BY <1>1, <1>5, CourseAfter DEF CreatedFirst, InFront
  <2> QED
    BY <1>3, <2>1, <2>2
<1>6. ASSUME r.op = "updateCourse" PROVE GoodLayout(q.data, IdsOf(e), plain)
  <2>1. q.data = LayoutOf(e, r.arg[1])
    BY <1>2, <1>6 DEF Data
  <2>2. r.arg[1] \in IdsOf(e)
    BY <1>1, <1>6 DEF GoodRequest
  <2> QED
    BY <1>3, <2>1, <2>2, LayoutOfIs
<1>7. r.op = "updateCourse" =>
        r.arg[1] \in IdsOf(e) /\ (~plain => r.arg[2] \in [1..2 -> HolesOf(r.arg[1])])
  BY <1>1 DEF GoodRequest
<1>8. GoodRequest(q, IdsOf(e), plain)
  BY <1>2, <1>4, <1>5, <1>6, <1>7 DEF GoodRequest
<1>9. IsRequest(q)
  BY <1>2 DEF IsRequest
<1> QED
  BY <1>8, <1>9

-----------------------------------------------------------------------------
(* Every step keeps the client and the server sound.                         *)

EditsInv ==
    /\ plainSave \in BOOLEAN
    /\ SoundDb(db, plainSave)
    /\ Sound(app, IdsOf(db), plainSave)

LEMMA SoundChanged ==
    ASSUME NEW ids, NEW plain, NEW c, Sound(c, ids, plain), NEW i \in DOMAIN c.net,
           NEW q, IsRequest(q), GoodRequest(q, ids, plain), NEW d, d = [c EXCEPT !.net[i] = q]
    PROVE  Sound(d, ids, plain)
<1>1. /\ Only(c, d, {"net"}) /\ DOMAIN d.net = DOMAIN c.net /\ d.net[i] = q
      /\ \A j \in DOMAIN c.net : j # i => d.net[j] = c.net[j]
  BY RequestChanged DEF Sound
<1>2. \A j \in DOMAIN d.net : GoodRequest(d.net[j], ids, plain)
  BY <1>1 DEF Sound
<1> QED
  BY <1>1, <1>2, SoundNet

\* A request that failed.
LEMMA FailedRequest ==
    ASSUME NEW ids, NEW plain, NEW r, IsRequest(r), GoodRequest(r, ids, plain),
           NEW phase, phase # "ok", NEW q, q = [r EXCEPT !.phase = phase]
    PROVE  IsRequest(q) /\ GoodRequest(q, ids, plain)
<1>1. /\ DOMAIN q = RequestFields /\ q.op = r.op /\ q.arg = r.arg /\ q.phase = phase
  BY DEF IsRequest, RequestFields
<1> QED
  BY <1>1 DEF IsRequest, GoodRequest

LEMMA ServeKeepsEdits ==
    ASSUME EditsInv, NEW i \in DOMAIN app.net, Serve(i) PROVE EditsInv'
<1> DEFINE r == app.net[i]
<1>1. /\ plainSave \in BOOLEAN /\ SoundDb(db, plainSave) /\ Sound(app, IdsOf(db), plainSave)
      /\ IsClient(app)
  BY DEF EditsInv, Sound
<1>2. IsRequest(r) /\ GoodRequest(r, IdsOf(db), plainSave)
  BY <1>1 DEF Sound, IsClient, IsNet
<1>3. UNCHANGED plainSave
  BY DEF Serve
<1>4. CASE Refuses(db, r)
  <2> DEFINE q == [r EXCEPT !.phase = "error"]
  <2>1. UNCHANGED db /\ app' = [app EXCEPT !.net[i] = q]
    BY <1>4 DEF Serve
  <2>2. IsRequest(q) /\ GoodRequest(q, IdsOf(db), plainSave)
    BY <1>2, FailedRequest
  <2> HIDE DEF q
  <2>3. Sound(app', IdsOf(db), plainSave)
    BY <1>1, <2>1, <2>2, SoundChanged
  <2> QED
    BY <1>1, <1>3, <2>1, <2>3 DEF EditsInv
<1>5. CASE ~Refuses(db, r)
  <2> DEFINE q == [r EXCEPT !.phase = "ok", !.data = Data(db', r)]
  <2>1. db' = After(db, r) /\ app' = [app EXCEPT !.net[i] = q]
    BY <1>5 DEF Serve
  <2>2. IsRequest(q) /\ GoodRequest(q, IdsOf(db'), plainSave)
    BY <1>1, <1>2, <2>1, GoodServed
  <2>3. SoundDb(db', plainSave) /\ IdsOf(db) \subseteq IdsOf(db')
    BY <1>1, <1>2, <2>1, SoundLayouts
  <2> HIDE DEF q
  <2>4. Sound(app, IdsOf(db'), plainSave)
    BY <1>1, <2>3, SoundMore
  <2>5. Sound(app', IdsOf(db'), plainSave)
    BY <2>1, <2>2, <2>4, SoundChanged
  <2> QED
    BY <1>1, <1>3, <2>3, <2>5 DEF EditsInv
<1> QED
  BY <1>4, <1>5

LEMMA FailKeepsEdits ==
    ASSUME EditsInv, NEW i \in DOMAIN app.net, NEW phase \in {"error", "denied", "lost"},
           Fail(i, phase)
    PROVE  EditsInv'
<1> DEFINE r == app.net[i]
           q == [r EXCEPT !.phase = phase]
<1>1. /\ plainSave \in BOOLEAN /\ SoundDb(db, plainSave) /\ Sound(app, IdsOf(db), plainSave)
      /\ IsClient(app)
  BY DEF EditsInv, Sound
<1>2. IsRequest(r) /\ GoodRequest(r, IdsOf(db), plainSave)
  BY <1>1 DEF Sound, IsClient, IsNet
<1>3. UNCHANGED <<db, plainSave>> /\ app' = [app EXCEPT !.net[i] = q]
  BY DEF Fail
<1>4. IsRequest(q) /\ GoodRequest(q, IdsOf(db), plainSave)
  BY <1>2, FailedRequest
<1> HIDE DEF q
<1>5. Sound(app', IdsOf(db), plainSave)
  BY <1>1, <1>3, <1>4, SoundChanged
<1> QED
  BY <1>1, <1>3, <1>5 DEF EditsInv

\* A step of the client alone.
LEMMA ClientKeepsEdits ==
    ASSUME EditsInv, UNCHANGED <<db, plainSave>>, Sound(app', IdsOf(db), plainSave)
    PROVE  EditsInv'
BY DEF EditsInv

LEMMA AnswerKeepsEdits ==
    ASSUME EditsInv, NEW i \in DOMAIN app.net, NEW n, Answer(i, n) PROVE EditsInv'
<1> DEFINE r == app.net[i]
           c == [app EXCEPT !.net = RemoveAt(@, i)]
<1>1. Sound(app, IdsOf(db), plainSave) /\ IsClient(app)
  BY DEF EditsInv, Sound
<1>2. IsRequest(r) /\ GoodRequest(r, IdsOf(db), plainSave)
  BY <1>1 DEF Sound, IsClient, IsNet
<1>3. /\ UNCHANGED <<db, plainSave>>
      /\ \/ app' = c
         \/ r.phase = "ok" /\ app' = Succeeded(c, r, n)
         \/ app' = Failed(c, r, n)
  BY DEF Answer
<1>4. Sound(c, IdsOf(db), plainSave)
  BY <1>1, SoundTaken
<1> HIDE DEF c, r
<1>5. Sound(app', IdsOf(db), plainSave)
  BY <1>2, <1>3, <1>4, SoundSucceeded, SoundFailed
<1> QED
  BY <1>3, <1>5, ClientKeepsEdits

LEMMA TimersKeepEdits ==
    ASSUME EditsInv, LogoutTimer \/ \E n \in Ids : ExpireNotification(n) PROVE EditsInv'
<1>1. Sound(app, IdsOf(db), plainSave) /\ IsClient(app)
  BY DEF EditsInv, Sound
<1>2. CASE LogoutTimer
  <2> DEFINE b == LogUserOut(app)
             e == [b EXCEPT !.logouts = @ - 1]
  <2>1. UNCHANGED <<db, plainSave>> /\ app' = Dispatch(app, e)
    BY <1>2 DEF LogoutTimer
  <2>2. Only(app, b, {"loggedIn", "failed"}) /\ ~b.loggedIn
    BY <1>1, LoggingOutKnown
  <2> HIDE DEF b
  <2>3. Only(b, e, {"logouts"})
    <3>1. DOMAIN e = ClientFields /\ \A p \in ClientFields \ {"logouts"} : e[p] = b[p]
      BY <2>2 DEF Only, IsClient, ClientFields
    <3>2. IsClient(b) /\ {"logouts"} \in SUBSET Loose
      BY <2>2 DEF Only, Loose
    <3> QED
      BY <3>1, <3>2, LooseOnly
  <2> HIDE DEF e
  <2>4. Only(app, e, {"loggedIn", "failed", "logouts"}) /\ ~e.loggedIn
    BY <2>2, <2>3 DEF Only, ClientFields
  <2>5. Sound(e, IdsOf(db), plainSave)
    BY <1>1, <2>4, SoundLeft
  <2>6. Sound(app', IdsOf(db), plainSave)
    BY <2>1, <2>5, SoundDispatch
  <2> QED
    BY <2>1, <2>6, ClientKeepsEdits
<1>3. ASSUME NEW n \in Ids, ExpireNotification(n) PROVE EditsInv'
  <2> DEFINE b == hideNotification(app, n)
             x == [b.alarms EXCEPT ![n] = @ - 1]
  <2>1. UNCHANGED <<db, plainSave>> /\ app' = [b EXCEPT !.alarms = x]
    BY <1>3 DEF ExpireNotification
  <2>2. Only(app, b, {"notes"})
    BY <1>1, Notified
  <2> HIDE DEF b, x
  <2>3. DOMAIN app' = ClientFields /\ \A p \in ClientFields \ {"alarms"} : app'[p] = b[p]
    BY <2>1, <2>2 DEF Only, IsClient, ClientFields
  <2>4. IsClient(b) /\ {"alarms"} \in SUBSET Loose
    BY <2>2 DEF Only, Loose
  <2>5. Only(b, app', {"alarms"})
    BY <2>3, <2>4, LooseOnly
  <2>6. Only(app, app', {"notes", "alarms"})
    BY <2>2, <2>5 DEF Only
  <2>7. Sound(app', IdsOf(db), plainSave)
    BY <1>1, <2>6, SoundOnly DEF Unseen, ClientFields
  <2> QED
    BY <2>1, <2>7, ClientKeepsEdits
<1> QED
  BY <1>2, <1>3

LEMMA ViewSet ==
    ASSUME NEW c, IsClient(c), NEW x, NEW d, d = [c EXCEPT !.view.hole = x],
           NEW view, view = [c.view EXCEPT !.hole = x]
    PROVE  Looks(c, d, view) /\ view.hole = x /\ view.feed = c.view.feed
<1>1. d = [c EXCEPT !.view = view]
  OBVIOUS
<1>2. DOMAIN view = DOMAIN Fresh /\ view.tab \in 1..5 /\ view.hole = x /\ view.feed = c.view.feed
  BY DEF IsClient, Fresh
<1> QED
  BY <1>1, <1>2, LookingIs

\* The layout that is shown is one of those the client has.
LEMMA ShownIs ==
    ASSUME NEW ids, NEW plain, Sound(app, ids, plain), CourseIsShown
    PROVE  /\ app.at = "/courses" /\ app.arg # <<>> /\ Len(app.arg) \in {1, 2}
           /\ GoodLayout(ShownLayout, ids, plain)
           /\ Len(app.arg) = 2 => ShownLayout.id = app.arg[2]
<1>1. app.at = "/courses" /\ app.arg # <<>> /\ LayoutsShown # {}
  BY DEF CourseIsShown, LayoutsShown
<1>2. LayoutsShown = UNION {Range(g.layouts) : g \in {g \in Range(app.courses) : g.name = app.arg[1]}}
  BY <1>1 DEF LayoutsShown
<1>3. /\ IsCourses(app.courses)
      /\ \A n \in DOMAIN app.courses : \A i \in DOMAIN app.courses[n].layouts :
            GoodLayout(app.courses[n].layouts[i], ids, plain)
  BY DEF Sound, GoodCourses, GoodLayouts
<1>4. \A l \in LayoutsShown : GoodLayout(l, ids, plain)
  BY <1>2, <1>3 DEF Range
<1>5. Single(app.arg) \/ Couple(app.arg)
  BY <1>1 DEF Sound, IsClient, ArgOK
<1>6. Len(app.arg) \in {1, 2}
  BY <1>5 DEF Single, Couple
<1>7. CASE Len(app.arg) = 2
  <2>1. \E l \in LayoutsShown : l.id = app.arg[2]
    BY <1>7 DEF CourseIsShown
  <2>2. ShownLayout = CHOOSE l \in LayoutsShown : l.id = app.arg[2]
    BY <1>7 DEF ShownLayout
  <2>3. ShownLayout \in LayoutsShown /\ ShownLayout.id = app.arg[2]
    BY <2>1, <2>2
  <2> QED
    BY <1>1, <1>4, <1>6, <2>3
<1>8. CASE Len(app.arg) # 2
  <2> DEFINE g == CHOOSE g \in Range(app.courses) : g.name = app.arg[1]
  <2>1. \E h \in Range(app.courses) : h.name = app.arg[1]
    BY <1>1, <1>2
  <2>2. g \in Range(app.courses)
    BY <2>1
  <2>3. ShownLayout = g.layouts[1]
    BY <1>8 DEF ShownLayout
  <2> HIDE DEF g
  <2>4. PICK n \in DOMAIN app.courses : g = app.courses[n]
    BY <2>2 DEF Range
  <2>5. 1 \in DOMAIN g.layouts
    BY <1>3, <2>4 DEF IsCourses, IsGroup
  <2> QED
    BY <1>1, <1>3, <1>6, <1>8, <2>3, <2>4, <2>5
<1> QED
  BY <1>7, <1>8

LEMMA SoundHole ==
    ASSUME NEW ids, NEW plain, NEW c, Sound(c, ids, plain), NEW x,
           NEW d, d = [c EXCEPT !.view.hole = x],
           ~plain /\ x # <<>> =>
             /\ c.at = "/courses" /\ c.arg # <<>>
             /\ Len(c.arg) = 2 => x[1] \in 1..2 /\ x[2] \in HolesOf(c.arg[2])
    PROVE  Sound(d, ids, plain)
<1> DEFINE view == [c.view EXCEPT !.hole = x]
<1>1. Looks(c, d, view) /\ view.hole = x
  BY ViewSet DEF Sound
<1> HIDE DEF view
<1> QED
  BY <1>1 DEF Sound, Looks, Session, GoodHole

LEMMA SoundAsking ==
    ASSUME NEW ids, NEW plain, NEW c, Sound(c, ids, plain), NEW op \in Requests, NEW arg,
           op \notin {"login", "createUser"},
           \A who : GoodRequest(Request(op, arg, who), ids, plain),
           NEW d, d = Asks(c, op, arg)
    PROVE  Sound(d, ids, plain)
<1>1. CASE d = c
  BY <1>1
<1>2. CASE d # c
  <2>1. d = [c EXCEPT !.net = Append(@, Request(op, arg, c.user))]
    BY <1>2 DEF Asks
  <2> QED
    BY <2>1, SoundAsks
<1> QED
  BY <1>1, <1>2

\* A request that does not save a layout.
LEMMA PlainRequest ==
    ASSUME NEW ids, NEW plain, NEW op, op # "updateCourse", NEW arg, NEW who
    PROVE  GoodRequest(Request(op, arg, who), ids, plain)
BY DEF GoodRequest, Request

LEMMA HubSet ==
    ASSUME NEW c, IsClient(c), NEW x, NEW d, d = [c EXCEPT !.hub = x]
    PROVE  Only(c, d, {"hub"}) /\ d.hub = x
<1>1. DOMAIN d = ClientFields /\ (\A p \in ClientFields \ {"hub"} : d[p] = c[p]) /\ d.hub = x
  BY DEF IsClient, ClientFields
<1>2. {"hub"} \in SUBSET Loose
  BY DEF Loose
<1> QED
  BY <1>1, <1>2, LooseOnly

LEMMA HubKnown ==
    ASSUME NEW c, IsClient(c)
    PROVE  Only(c, connectToHub(c), {"hub"})
<1>1. CASE connectToHub(c) = c
  BY <1>1 DEF Only
<1>2. CASE connectToHub(c) # c
  <2>1. connectToHub(c) = [c EXCEPT !.hub = c.saved]
    BY <1>2 DEF connectToHub
  <2> QED
    BY <2>1, HubSet
<1> QED
  BY <1>1, <1>2

LEMMA DoesKeepsEdits ==
    ASSUME EditsInv, Does PROVE EditsInv'
<1>1. Sound(app, IdsOf(db), plainSave) /\ IsClient(app)
  BY DEF EditsInv, Sound
<1>2. UNCHANGED <<db, plainSave>>
  BY DEF Does
<1> DEFINE Kept == Sound(app', IdsOf(db), plainSave)
<1> SUFFICES Kept
  BY <1>2, ClientKeepsEdits
<1>3. CASE Turns
  <2>1. PICK at, arg : /\ Addressed(at, arg) /\ app.view.hole = <<>>
                       /\ app' = Push(app, at, arg)
    BY <1>3 DEF Turns
  <2> QED
    BY <1>1, <2>1, SoundPush
<1>4. CASE LooksElsewhere
  <2>1. PICK view : Views(view) /\ app' = Local(app, view)
    BY <1>4 DEF LooksElsewhere
  <2> DEFINE a == [app EXCEPT !.view = view]
  <2>2. Looks(app, a, view) /\ Grows(a, app', EffectsOf(app, a))
    BY <1>1, <2>1, LocalGrows DEF Views
  <2> HIDE DEF a
  <2>3. view.hole = app.view.hole
    BY <2>1 DEF Views
  <2>4. Sound(a, IdsOf(db), plainSave)
    BY <1>1, <2>2, <2>3, SoundLooks
  <2> QED
    BY <2>2, <2>4, SoundGrows
<1>5. CASE AsksFor
  <2>1. ASSUME NEW op, NEW arg, AllowedFreely(op, arg), app' = AsksFreely(app, op, arg) PROVE Kept
    <3>1. op \in Requests /\ op # "updateCourse" /\ (op \in {"login", "createUser"} => arg[1] \in Users)
      BY <2>1 DEF AllowedFreely, Requests, Turning
    <3>2. app' = [app EXCEPT !.net = Append(@, Request(op, arg, NoOne))]
      BY <2>1 DEF AsksFreely
    <3>3. GoodRequest(Request(op, arg, NoOne), IdsOf(db), plainSave)
      BY <3>1, PlainRequest
    <3> QED
      BY <1>1, <3>1, <3>2, <3>3, SoundAsks
  <2>2. ASSUME NEW op, NEW arg, Allowed(op, arg), app' = Asks(app, op, arg) PROVE Kept
    <3>1. op \in Requests /\ op \notin {"updateCourse", "login", "createUser"}
      BY <2>2 DEF Allowed, Requests, Turning, CupOps, Background, FetchOps
    <3>2. \A who : GoodRequest(Request(op, arg, who), IdsOf(db), plainSave)
      BY <3>1, PlainRequest
    <3> QED
      BY <1>1, <2>2, <3>1, <3>2, SoundAsking
  <2> QED
    BY <1>5, <2>1, <2>2 DEF AsksFor
<1>6. CASE OpensHole
  <2>1. PICK h \in 1..2 : /\ CourseIsShown
                          /\ app' = [app EXCEPT !.view.hole = <<h, ShownLayout.holes[h]>>]
    BY <1>6 DEF OpensHole
  <2>2. /\ app.at = "/courses" /\ app.arg # <<>>
        /\ GoodLayout(ShownLayout, IdsOf(db), plainSave)
        /\ Len(app.arg) = 2 => ShownLayout.id = app.arg[2]
    BY <1>1, <2>1, ShownIs
  <2> DEFINE x == <<h, ShownLayout.holes[h]>>
  <2>3. ~plainSave => ShownLayout.holes[h] \in HolesOf(ShownLayout.id)
    BY <2>2 DEF GoodLayout
  <2>4. x[1] = h /\ x[2] = ShownLayout.holes[h] /\ app' = [app EXCEPT !.view.hole = x]
    BY <2>1
  <2> HIDE DEF x
  <2> QED
    BY <1>1, <2>2, <2>3, <2>4, SoundHole
<1>7. CASE ClosesHole
  <2>1. app' = [app EXCEPT !.view.hole = <<>>]
    BY <1>7 DEF ClosesHole
  <2> QED
    BY <1>1, <2>1, SoundHole
<1>8. CASE Aside
  <2>1. CASE \E n \in Ids : app' = hideNotification(app, n)
    <3>1. Only(app, app', {"notes"})
      BY <1>1, <2>1, Notified
    <3> QED
      BY <1>1, <3>1, SoundOnly DEF Unseen, ClientFields
  <2>2. CASE app' = connectToHub(fetchUserDetails(app, TRUE))
    <3> DEFINE e == fetchUserDetails(app, TRUE)
    <3>1. e = app \/ e = Asks(app, "details", <<>>)
      BY DEF fetchUserDetails
    <3>2. app' = connectToHub(e)
      BY <2>2
    <3> HIDE DEF e
    <3>3. Grows(app, e, {})
      BY <1>1, <3>1, SameGrows, AskingGrows DEF Background
    <3>4. Sound(e, IdsOf(db), plainSave)
      BY <1>1, <3>3, SoundGrows
    <3>5. Only(e, app', {"hub"})
      BY <3>2, <3>4, HubKnown DEF Sound
    <3> QED
      BY <3>4, <3>5, SoundOnly DEF Unseen, ClientFields
  <2>3. CASE app' = [app EXCEPT !.hub = NoOne]
    <3>1. Only(app, app', {"hub"})
      BY <1>1, <2>3, HubSet
    <3> QED
      BY <1>1, <3>1, SoundOnly DEF Unseen, ClientFields
  <2> QED
    BY <1>8, <2>1, <2>2, <2>3 DEF Aside
<1>9. CASE app' = logout(app)
  BY <1>1, <1>9, SoundLoggedOut
<1> QED
  BY <1>3, <1>4, <1>5, <1>6, <1>7, <1>8, <1>9 DEF Does, Deed

\* "Save and next" saves the holes of the layout shown, unless the address names
\* none, and opens another hole of it.
LEMMA SaveKeepsEdits ==
    ASSUME EditsInv, SaveAndNext PROVE EditsInv'
<1> DEFINE ids == IdsOf(db)
           h == app.view.hole[1]
           holes == [ShownLayout.holes EXCEPT ![h] = [app.view.hole[2] EXCEPT !.edited = TRUE]]
           next == IF h = 2 THEN app.view.hole ELSE <<h + 1, ShownLayout.holes[h + 1]>>
           e == [app EXCEPT !.view.hole = next]
           arg == <<ShownLayout.id, holes>>
<1>1. /\ CourseIsShown /\ app.view.hole # <<>> /\ UNCHANGED db
      /\ plainSave' = (plainSave \/ Len(app.arg) = 1)
      /\ app' = Asks(e, "updateCourse", arg)
  BY DEF SaveAndNext, updateCourse
<1>2. plainSave \in BOOLEAN /\ SoundDb(db, plainSave) /\ Sound(app, ids, plainSave)
  BY DEF EditsInv
<1>3. plainSave' \in BOOLEAN /\ (plainSave => plainSave')
  BY <1>1, <1>2
<1>4. Sound(app, ids, plainSave')
  BY <1>2, <1>3, SoundMore
<1>5. SoundDb(db, plainSave')
  BY <1>2, <1>3, SoundMore DEF SoundDb
<1>6. /\ app.at = "/courses" /\ app.arg # <<>> /\ Len(app.arg) \in {1, 2}
      /\ GoodLayout(ShownLayout, ids, plainSave')
      /\ Len(app.arg) = 2 => ShownLayout.id = app.arg[2]
  BY <1>1, <1>4, ShownIs
<1>7. ASSUME ~plainSave'
      PROVE  /\ ShownLayout.id = app.arg[2] /\ h \in 1..2
             /\ ShownLayout.holes \in [1..2 -> HolesOf(ShownLayout.id)]
             /\ app.view.hole[2] \in HolesOf(ShownLayout.id)
  <2>1. ~plainSave /\ Len(app.arg) = 2
    BY <1>1, <1>2, <1>6, <1>7
  <2>2. h \in 1..2 /\ app.view.hole[2] \in HolesOf(app.arg[2])
    BY <1>1, <1>2, <2>1 DEF Sound, GoodHole
  <2> QED
    BY <1>6, <1>7, <2>1, <2>2 DEF GoodLayout
<1>8. ~plainSave' => next[1] \in 1..2 /\ next[2] \in HolesOf(app.arg[2])
  <2> SUFFICES ASSUME ~plainSave' PROVE next[1] \in 1..2 /\ next[2] \in HolesOf(app.arg[2])
    OBVIOUS
  <2>1. CASE h = 2
    BY <1>7, <2>1
  <2>2. CASE h # 2
    <3>1. h = 1
      BY <1>7, <2>2
    <3>2. next = <<2, ShownLayout.holes[2]>>
      BY <3>1
    <3> QED
      BY <1>7, <3>2
  <2> QED
    BY <2>1, <2>2
<1>9. ~plainSave' => holes \in [1..2 -> HolesOf(ShownLayout.id)]
  BY <1>7 DEF HolesOf
<1>10. arg[1] = ShownLayout.id /\ arg[2] = holes /\ ShownLayout.id \in ids
  BY <1>6 DEF GoodLayout
<1> HIDE DEF next, holes, arg, h
<1>11. Sound(e, ids, plainSave')
  BY <1>4, <1>6, <1>8, SoundHole
<1> HIDE DEF e
<1>12. \A who : GoodRequest(Request("updateCourse", arg, who), ids, plainSave')
  BY <1>9, <1>10 DEF GoodRequest, Request
<1>13. Sound(app', ids, plainSave')
  BY <1>1, <1>11, <1>12, SoundAsking DEF Requests
<1> QED
  BY <1>1, <1>3, <1>5, <1>13 DEF EditsInv

\* A page that is loaded is sound, with what the old page had asked.
LEMMA SoundLoaded ==
    ASSUME NEW ids, NEW plain, NEW saved \in Users \cup {NoOne}, NEW link \in Users \cup {NoOne},
           NEW at, at \notin {"/year", "/users", "/tournament"}, NEW d, d = Load(saved, at, link)
    PROVE  Sound(d, ids, plain)
<1>0. PICK c : c = StartStore(saved, at)
  OBVIOUS
<1>7. Starts(c, saved, at)
  BY <1>0, StartIs
<1>1. /\ IsClient(c) /\ c.net = <<>> /\ c.loggedIn = (saved # NoOne) /\ c.user = saved
      /\ c.courses = <<>> /\ c.view = Fresh /\ c.saved = saved
  BY <1>7 DEF Starts
<1>2. Loads(c, link, d)
  BY <1>0, LoadFacts
<1>3. PICK m, l :
         /\ Grows(c, m, {}) /\ IsClient(l)
         /\ link = NoOne => l = m
         /\ link # NoOne => /\ Only(m, l, {"loggedIn", "user", "failed", "saved"})
                            /\ l.loggedIn /\ l.user = link /\ l.saved = link
         /\ Grows(l, d, Range(Fetches(l)))
  BY <1>2 DEF Loads
<1>4. Sound(c, ids, plain)
  <2>1. IsSequence(<<>>)
    BY DEF IsSequence
  <2>2. GoodCourses(c.courses, ids, plain) /\ Session(c) /\ GoodHole(c)
    BY <1>1, <2>1 DEF GoodCourses, IsCourses, Session, GoodHole, Fresh
  <2> QED
    BY <1>1, <2>2 DEF Sound
<1>5. Sound(m, ids, plain)
  BY <1>3, <1>4, SoundGrows
<1>6. Sound(l, ids, plain)
  <2>1. CASE link = NoOne
    BY <1>3, <1>5, <2>1
  <2>2. CASE link # NoOne
    <3>1. /\ l.net = m.net /\ l.courses = m.courses /\ l.at = m.at /\ l.arg = m.arg
          /\ l.view = m.view /\ l.user = l.saved /\ l.saved \in Users \cup {NoOne}
      BY <1>3, <2>2 DEF Only, ClientFields
    <3> QED
      BY <1>3, <1>5, <3>1 DEF Sound, Session, GoodHole
  <2> QED
    BY <2>1, <2>2
<1> QED
  BY <1>3, <1>6, SoundGrows

LEMMA LoadKeepsEdits ==
    ASSUME EditsInv, NEW at, NEW link \in Users \cup {NoOne}, LoadPage(at, link) PROVE EditsInv'
<1> DEFINE old == [i \in DOMAIN Sent |-> [Sent[i] EXCEPT !.page = FALSE]]
           d == Load(app.saved, at, link)
<1>1. Sound(app, IdsOf(db), plainSave) /\ IsClient(app) /\ app.saved \in Users \cup {NoOne}
  BY DEF EditsInv, Sound, Session
<1>2. /\ UNCHANGED <<db, plainSave>> /\ at \notin {"/year", "/users", "/tournament"}
      /\ app' = [d EXCEPT !.net = old \o @]
  BY DEF LoadPage
<1>3. Sound(d, IdsOf(db), plainSave)
  BY <1>1, <1>2, SoundLoaded
<1>4. LeftOver(app, old)
  BY <1>1, SentIs
<1> HIDE DEF d, old
<1>5. Joins(d, app', old)
  BY <1>2, <1>3, <1>4, Prepending DEF Sound, LeftOver
<1>6. ASSUME NEW i \in DOMAIN app'.net PROVE GoodRequest(app'.net[i], IdsOf(db), plainSave)
  <2>1. CASE \E j \in DOMAIN d.net : app'.net[i] = d.net[j]
    BY <1>3, <2>1 DEF Sound
  <2>2. ASSUME NEW j \in DOMAIN app.net, app.net[j].phase = "sent",
               app'.net[i] = [app.net[j] EXCEPT !.page = FALSE]
        PROVE  GoodRequest(app'.net[i], IdsOf(db), plainSave)
    <3> DEFINE r == app.net[j]
               q == app'.net[i]
    <3>1. IsRequest(r) /\ GoodRequest(r, IdsOf(db), plainSave)
      BY <1>1 DEF Sound, IsClient, IsNet
    <3>2. q.op = r.op /\ q.arg = r.arg /\ q.phase = "sent"
      BY <2>2, <3>1 DEF IsRequest, RequestFields
    <3> QED
      BY <3>1, <3>2 DEF GoodRequest
  <2> QED
    BY <1>4, <1>5, <1>6, <2>1, <2>2 DEF Joins, LeftOver
<1>7. Sound(app', IdsOf(db), plainSave)
  BY <1>3, <1>5, <1>6, SoundNet DEF Joins
<1> QED
  BY <1>2, <1>7, ClientKeepsEdits

\* The server's account of a round.
Knows(d, e, u, b) ==
    /\ IsDb(e) /\ e.likes = d.likes /\ e.layouts = d.layouts /\ e.cups = d.cups
    /\ e.account = [d.account EXCEPT ![u].active = b]

LEMMA AccountSet ==
    ASSUME NEW d, IsDb(d), NEW u \in Users, NEW b, NEW e, e = [d EXCEPT !.account[u].active = b]
    PROVE  Knows(d, e, u, b)
<1> DEFINE a == [d.account EXCEPT ![u].active = b]
<1>1. e = [d EXCEPT !.account = a]
  OBVIOUS
<1>2. DOMAIN a = Users /\ \A v \in Users : DOMAIN a[v] = AccountFields
  BY DEF IsDb, AccountFields
<1> HIDE DEF a
<1>3. /\ DOMAIN e = DbFields /\ e.account = a
      /\ e.likes = d.likes /\ e.layouts = d.layouts /\ e.cups = d.cups
  BY <1>1 DEF IsDb, DbFields
<1>4. IsDb(e)
  BY <1>2, <1>3 DEF IsDb
<1> QED
  BY <1>3, <1>4 DEF a, Knows

LEMMA RoundsKeepEdits ==
    ASSUME EditsInv, NEW u \in Users, RoundStarts(u) \/ RoundDeleted(u) PROVE EditsInv'
<1>1. Sound(app, IdsOf(db), plainSave) /\ IsClient(app) /\ SoundDb(db, plainSave) /\ IsDb(db)
  BY DEF EditsInv, Sound, SoundDb
<1>2. UNCHANGED plainSave /\ \E b : db' = [db EXCEPT !.account[u].active = b]
  BY DEF RoundStarts, RoundDeleted
<1>3. IsDb(db') /\ db'.layouts = db.layouts
  <2>1. PICK b : db' = [db EXCEPT !.account[u].active = b]
    BY <1>2
  <2>2. Knows(db, db', u, b)
    BY <1>1, <2>1, AccountSet
  <2> QED
    BY <2>2 DEF Knows
<1>4. IdsOf(db') = IdsOf(db) /\ SoundDb(db', plainSave)
  BY <1>1, <1>3 DEF SoundDb, IdsOf
<1>5. Sound(app', IdsOf(db), plainSave)
  <2>1. CASE app' = app
    BY <1>1, <2>1
  <2>2. ASSUME NEW n, app' = showNotification(Dispatch(app, NewRoundCreated(app)), n)
        PROVE  Sound(app', IdsOf(db), plainSave)
    <3> DEFINE b == NewRoundCreated(app)
               e == Dispatch(app, b)
    <3>1. Only(app, b, {"details"})
      BY <1>1, RoundKnown
    <3>2. app' = showNotification(e, n)
      BY <2>2
    <3> HIDE DEF b
    <3>3. Sound(b, IdsOf(db), plainSave)
      BY <1>1, <3>1, SoundOnly DEF Unseen, ClientFields
    <3>4. Sound(e, IdsOf(db), plainSave)
      BY <3>3, SoundDispatch
    <3> HIDE DEF e
    <3>5. Only(e, app', {"notes", "alarms"})
      BY <3>2, <3>4, Notified DEF Sound
    <3> QED
      BY <3>4, <3>5, SoundOnly DEF Unseen, ClientFields
  <2>3. CASE app' = Push(Dispatch(app, RoundWasDeleted(app)), "/", <<>>)
    <3> DEFINE b == RoundWasDeleted(app)
               e == Dispatch(app, b)
    <3>1. Only(app, b, {"details"})
      BY <1>1, RoundKnown
    <3>2. app' = Push(e, "/", <<>>)
      BY <2>3
    <3> HIDE DEF b
    <3>3. Sound(b, IdsOf(db), plainSave)
      BY <1>1, <3>1, SoundOnly DEF Unseen, ClientFields
    <3>4. Sound(e, IdsOf(db), plainSave)
      BY <3>3, SoundDispatch
    <3> HIDE DEF e
    <3>5. Addressed("/", <<>>)
      BY DEF Addressed
    <3> QED
      BY <3>2, <3>4, <3>5, SoundPush
  <2>4. \/ app' = app
        \/ \E n : app' = showNotification(Dispatch(app, NewRoundCreated(app)), n)
        \/ app' = Push(Dispatch(app, RoundWasDeleted(app)), "/", <<>>)
    BY DEF RoundStarts, RoundDeleted
  <2> QED
    BY <2>1, <2>2, <2>3, <2>4
<1> QED
  BY <1>2, <1>4, <1>5, <1>1 DEF EditsInv

LEMMA InitIsSound == Init => EditsInv
<1> SUFFICES ASSUME Init PROVE EditsInv
  OBVIOUS
<1>1. PICK saved \in Users \cup {NoOne}, at \in visit.pages \ {"/year", "/users", "/tournament"} :
         app = Load(saved, at, NoOne)
  BY DEF Init
<1>2. Sound(app, IdsOf(db), plainSave)
  BY <1>1, SoundLoaded
<1>3. PICK admin \in Users, members \in SUBSET Users :
         db = [account |-> [u \in Users |-> IF u \in members THEN OldAccount ELSE NewAccount],
               members |-> members,
                likes |-> [i \in 1..NumItems |-> {}],
                layouts |-> <<NewLayout(2, Oak, admin), NewLayout(1, Oak, admin)>>,
                cups |-> <<NewCup(1, admin)>>]
  BY DEF Init
<1> DEFINE l1 == NewLayout(1, Oak, admin)
           l2 == NewLayout(2, Oak, admin)
           q == NewCup(1, admin)
           acc == [u \in Users |-> IF u \in members THEN OldAccount ELSE NewAccount]
<1>4. DOMAIN OldAccount = AccountFields /\ DOMAIN NewAccount = AccountFields
  BY DEF OldAccount, NewAccount, AccountFields
<1>5. DOMAIN acc = Users /\ \A u \in Users : DOMAIN acc[u] = AccountFields
  BY <1>4
<1>6. /\ DOMAIN l1 = LayoutFields /\ l1.id = 1 /\ l1.holes \in [1..2 -> HolesOf(1)]
      /\ DOMAIN l2 = LayoutFields /\ l2.id = 2 /\ l2.holes \in [1..2 -> HolesOf(2)]
  BY DEF NewLayout, LayoutFields, HolesOf
<1>7. DOMAIN q = CupFields /\ q.id = 1
  BY DEF NewCup, CupFields
<1>8. /\ DOMAIN db = DbFields /\ db.account = acc /\ DOMAIN db.likes = 1..NumItems
      /\ db.layouts = <<l2, l1>> /\ db.cups = <<q>>
  BY <1>3 DEF DbFields
<1> HIDE DEF acc, l1, l2, q
<1>9. IsSequence(<<l2, l1>>) /\ IsSequence(<<q>>)
  <2>1. <<l2, l1>> \in Seq({l2, l1}) /\ <<q>> \in Seq({q})
    OBVIOUS
  <2> QED
    BY <2>1, SeqIsSequence
<1>10. \A k \in DOMAIN db.cups : DOMAIN db.cups[k] = CupFields /\ db.cups[k].id = k
  BY <1>7, <1>8
<1>11. IsDb(db)
  BY <1>5, <1>8, <1>9, <1>10 DEF IsDb
<1>12. \A i \in DOMAIN db.layouts : /\ DOMAIN db.layouts[i] = LayoutFields
                                    /\ db.layouts[i].holes \in [1..2 -> HolesOf(db.layouts[i].id)]
  BY <1>6, <1>8
<1>13. SoundDb(db, plainSave)
  BY <1>8, <1>9, <1>11, <1>12 DEF SoundDb, GoodLayouts, GoodLayout, IdsOf
<1>14. plainSave = FALSE
  BY DEF Init
<1> QED
  BY <1>2, <1>13, <1>14 DEF EditsInv

LEMMA NextKeepsEdits == EditsInv /\ [Next]_vars => EditsInv'
<1> SUFFICES ASSUME EditsInv, [Next]_vars PROVE EditsInv'
  OBVIOUS
<1>1. IsClient(app)
  BY DEF EditsInv, Sound
<1>2. CASE UNCHANGED vars
  BY <1>2 DEF vars, EditsInv
<1>3. ASSUME NEW i \in DOMAIN app.net,
             \/ Serve(i)
             \/ \E phase \in {"error", "denied", "lost"} : Fail(i, phase)
             \/ \E n \in Ids : Answer(i, n)
      PROVE  EditsInv'
  BY <1>3, ServeKeepsEdits, FailKeepsEdits, AnswerKeepsEdits
<1>4. CASE LogoutTimer \/ \E n \in Ids : ExpireNotification(n)
  BY <1>4, TimersKeepEdits
<1>5. CASE Person \/ HubLost
  BY <1>1, <1>5, PersonDoes, DoesKeepsEdits, SaveKeepsEdits, LoadKeepsEdits
<1>6. CASE \E u \in Users : RoundStarts(u) \/ RoundDeleted(u)
  BY <1>6, RoundsKeepEdits
<1> QED
  BY <1>2, <1>3, <1>4, <1>5, <1>6 DEF Next

\* A hole that is edited is one of the layout that is saved.
THEOREM HolesStayInTheirLayout == Spec => []EditsStayInTheirLayout
<1>1. EditsInv => EditsStayInTheirLayout
  <2> SUFFICES ASSUME EditsInv, ~plainSave, NEW l \in Range(db.layouts), NEW h \in 1..2
               PROVE  l.holes[h].of = l.id
    BY DEF EditsStayInTheirLayout
  <2>1. PICK i \in DOMAIN db.layouts : l = db.layouts[i]
    BY DEF Range
  <2>2. GoodLayout(l, IdsOf(db), plainSave)
    BY <2>1 DEF EditsInv, SoundDb, GoodLayouts
  <2> QED
    BY <2>2 DEF GoodLayout, HolesOf
<1> QED
  BY <1>1, InitIsSound, NextKeepsEdits, PTL DEF Spec

-----------------------------------------------------------------------------
(* While the person waits, one thing happens at a time.                      *)

\* Requests without a token, and those the server may refuse.
Free == {"login", "createUser", "setPassword", "forgotPassword"}
Refusable == {"login", "createUser", "updateCourse", "addCourse"}

Idle(c) == DOMAIN c.net = {}
\* Nothing but queries is under way.
Waits(c) == \A i \in DOMAIN c.net : c.net[i].op \in Background

\* A request that the page there is made for whoever uses it; the page does not go
\* away before the answers that lead to another one.
InTime(c, r) ==
    /\ r.page
    /\ r.phase \in {"sent", "ok"} \/ (r.phase = "error" /\ r.op \in Refusable)
    /\ r.op \in Free \/ r.who = c.user
    /\ r.op = "login" => c.at \in {"/login", "/leaders"}
    /\ r.op = "createUser" => c.at = "/signup"
    /\ r.op = "setPassword" => c.at = "/resetpassword"
    /\ r.op = "createTournament" => c.at \in {"/tournaments", "/user", "/users"}

\* All requests are of that kind, what is not a query is alone, and the timer of a
\* login that failed runs out while nobody is logged in.
Orderly(c) ==
    /\ \A i \in DOMAIN c.net : InTime(c, c.net[i])
    /\ Waits(c) \/ \A i, j \in DOMAIN c.net : i = j
    /\ c.logouts \in {0, 1}
    /\ c.logouts = 1 => /\ c.failed /\ ~c.loggedIn
                        /\ \A i \in DOMAIN c.net : c.net[i].op \notin {"login", "createUser"}

LEMMA BackgroundIs ==
    ASSUME NEW op \in Background
    PROVE  op \notin Free /\ op \notin Turning /\ op \notin Refusable
BY DEF Background, FetchOps, Free, Turning, Refusable

LEMMA OrderlyIdle ==
    ASSUME NEW c, Idle(c), c.logouts = 0 PROVE Orderly(c) /\ Waits(c)
BY DEF Orderly, Idle, Waits

LEMMA IdleWaits ==
    ASSUME NEW c, Idle(c) PROVE Waits(c)
BY DEF Idle, Waits

LEMMA OrderlySame ==
    ASSUME NEW c, Orderly(c), Waits(c), NEW d, d.net = c.net, d.user = c.user,
           d.logouts = c.logouts, c.logouts = 1 => d.failed /\ ~d.loggedIn
    PROVE  Orderly(d) /\ Waits(d)
<1>1. Waits(d)
  BY DEF Waits
<1>2. ASSUME NEW i \in DOMAIN d.net PROVE InTime(d, d.net[i])
  <2>1. InTime(c, d.net[i]) /\ d.net[i].op \in Background
    BY <1>2 DEF Orderly, Waits
  <2>2. d.net[i].op \notin Free /\ d.net[i].op \notin Turning
    BY <2>1, BackgroundIs
  <2> QED
    BY <2>1, <2>2 DEF InTime, Turning
<1> QED
  BY <1>1, <1>2 DEF Orderly

LEMMA OrderlyGrows ==
    ASSUME NEW c, Orderly(c), Waits(c), NEW d, NEW F, Grows(c, d, F)
    PROVE  Orderly(d) /\ Waits(d)
<1>1. Same(c, d) /\ Extends(c, d, F)
  BY DEF Grows
<1>2. ASSUME NEW i \in DOMAIN d.net
      PROVE  d.net[i].op \in Background /\ InTime(d, d.net[i])
  <2>1. CASE i \in DOMAIN c.net
    <3>1. d.net[i] = c.net[i] /\ InTime(c, c.net[i]) /\ c.net[i].op \in Background
      BY <1>1, <2>1 DEF Extends, Orderly, Waits
    <3>2. c.net[i].op \notin Free /\ c.net[i].op \notin Turning
      BY <3>1, BackgroundIs
    <3> QED
      BY <1>1, <3>1, <3>2 DEF InTime, Turning, Same
  <2>2. CASE i \notin DOMAIN c.net
    <3>1. Asked(c, d.net[i], F)
      BY <1>1, <1>2, <2>2 DEF Extends
    <3>2. /\ d.net[i].op \in Background /\ d.net[i].page = TRUE /\ d.net[i].phase = "sent"
          /\ d.net[i].who = c.user
      BY <3>1 DEF Asked, Request
    <3>3. d.net[i].op \notin Free /\ d.net[i].op \notin Turning
      BY <3>2, BackgroundIs
    <3> QED
      BY <1>1, <3>2, <3>3 DEF InTime, Turning, Same
  <2> QED
    BY <2>1, <2>2
<1>3. \A i \in DOMAIN d.net : d.net[i].op \notin {"login", "createUser"}
  BY <1>2, BackgroundIs DEF Free
<1> QED
  BY <1>1, <1>2, <1>3 DEF Orderly, Waits, Same

LEMMA OrderlyTakes ==
    ASSUME NEW c, Orderly(c), NEW i \in DOMAIN c.net, NEW d, Takes(c, d, i)
    PROVE  Orderly(d) /\ Waits(d) /\ (c.net[i].op \notin Background => Idle(d))
<1>1. /\ d.user = c.user /\ d.at = c.at /\ d.logouts = c.logouts /\ d.failed = c.failed
      /\ d.loggedIn = c.loggedIn
  BY DEF Takes, Only, ClientFields
<1>2. PICK w \in [DOMAIN d.net -> DOMAIN c.net \ {i}] : \A j \in DOMAIN d.net : d.net[j] = c.net[w[j]]
  BY DEF Takes
<1>3. ASSUME NEW j \in DOMAIN d.net
      PROVE  InTime(d, d.net[j]) /\ w[j] \in DOMAIN c.net \ {i} /\ d.net[j] = c.net[w[j]]
  BY <1>1, <1>2, <1>3 DEF Orderly, InTime
<1>4. CASE Waits(c)
  BY <1>1, <1>3, <1>4 DEF Orderly, Waits
<1>5. CASE ~Waits(c)
  <2>1. Idle(d)
    BY <1>3, <1>5 DEF Orderly, Idle
  <2> QED
    BY <1>1, <1>3, <2>1 DEF Orderly, Waits, Idle
<1> QED
  BY <1>4, <1>5 DEF Waits

LEMMA OrderlyAppends ==
    ASSUME NEW c, Orderly(c), Idle(c), NEW r, InTime(c, r), NEW d, Appends(c, d, r),
           r.op \in {"login", "createUser"} => c.logouts = 0
    PROVE  Orderly(d)
<1>1. Same(c, d)
  BY DEF Appends
<1>2. PICK k : DOMAIN d.net = {k} /\ d.net[k] = r
  BY DEF Appends, Idle
<1>3. InTime(d, r)
  BY <1>1 DEF InTime, Same
<1> QED
  BY <1>1, <1>2, <1>3 DEF Orderly, Same

LEMMA OrderlyPush ==
    ASSUME NEW c, IsClient(c), Orderly(c), Waits(c), NEW at, NEW arg, Addressed(at, arg),
           NEW d, d = Push(c, at, arg)
    PROVE  Orderly(d) /\ Waits(d)
<1> DEFINE a == Turned(c, at, arg)
<1>1. Grows(a, d, EffectsOf(c, a))
  BY PushGrows
<1>2. /\ a.net = c.net /\ a.user = c.user /\ a.logouts = c.logouts /\ a.failed = c.failed
      /\ a.loggedIn = c.loggedIn
  BY TurnedIs
<1> HIDE DEF a
<1>3. Orderly(a) /\ Waits(a)
  BY <1>2, OrderlySame DEF Orderly
<1> QED
  BY <1>1, <1>3, OrderlyGrows

LEMMA OrderlyDispatch ==
    ASSUME NEW c, NEW b, IsClient(b), Orderly(b), Waits(b), NEW d, d = Dispatch(c, b)
    PROVE  Orderly(d) /\ Waits(d) /\ d.loggedIn = b.loggedIn /\ d.failed = b.failed
           /\ d.logouts = b.logouts
<1> DEFINE a == Adjusted(c, b)
<1>1. Grows(a, d, EffectsOf(c, a))
  BY DispatchGrows
<1>2. Looks(b, a, a.view)
  BY AdjustedIs
<1> HIDE DEF a
<1>3. Orderly(a) /\ Waits(a)
  BY <1>2, OrderlySame DEF Orderly, Looks
<1>4. Orderly(d) /\ Waits(d)
  BY <1>1, <1>3, OrderlyGrows
<1> QED
  BY <1>1, <1>2, <1>4 DEF Grows, Same, Looks

\* Changes of other parts of the client.
LEMMA OrderlyOnly ==
    ASSUME NEW c, Orderly(c), NEW S, NEW d, Only(c, d, S),
           S \cap {"net", "user", "at", "logouts", "failed", "loggedIn"} = {}
    PROVE  Orderly(d) /\ (Waits(c) => Waits(d))
<1>1. /\ d.net = c.net /\ d.user = c.user /\ d.at = c.at /\ d.logouts = c.logouts
      /\ d.failed = c.failed /\ d.loggedIn = c.loggedIn
  BY DEF Only, ClientFields
<1>2. \A i \in DOMAIN c.net : InTime(d, c.net[i])
  BY <1>1 DEF Orderly, InTime
<1> QED
  BY <1>1, <1>2 DEF Orderly, Waits

\* Logging in and out.
LEMMA OrderlyLogsIn ==
    ASSUME NEW c, IsClient(c), Idle(c), c.logouts = 0, NEW u \in Users, NEW d, LogsIn(c, u, d)
    PROVE  IsClient(d) /\ Orderly(d) /\ Waits(d)
<1>1. PICK b, a, m :
         /\ Only(c, b, {"loggedIn", "user", "failed"})
         /\ Looks(b, a, a.view) /\ Grows(a, m, EffectsOf(c, a)) /\ Only(m, d, {"saved"})
  BY DEF LogsIn
<1>2. Idle(a) /\ a.logouts = 0
  BY <1>1 DEF Only, ClientFields, Looks, Idle
<1>3. Orderly(m) /\ Waits(m)
  BY <1>1, <1>2, OrderlyIdle, OrderlyGrows
<1>4. IsClient(d)
  BY <1>1 DEF Only
<1> QED
  BY <1>1, <1>3, <1>4, OrderlyOnly

LEMMA OrderlyLogsOut ==
    ASSUME NEW c, IsClient(c), Orderly(c), Waits(c), c.logouts = 0, NEW d, d = logout(c)
    PROVE  Orderly(d) /\ Waits(d)
<1>1. LogsOut(c, d)
  BY LoggedOutIs
<1>2. PICK b, a, m :
         /\ Only(c, b, {"loggedIn", "failed", "saved"})
         /\ Looks(b, a, a.view) /\ Grows(a, m, EffectsOf(c, a)) /\ d = Push(m, "/", <<>>)
  BY <1>1 DEF LogsOut
<1>3. a.net = c.net /\ a.user = c.user /\ a.logouts = c.logouts
  BY <1>2 DEF Only, ClientFields, Looks
<1>4. Orderly(a) /\ Waits(a)
  BY <1>3, OrderlySame
<1>5. Orderly(m) /\ Waits(m) /\ IsClient(m)
  BY <1>2, <1>4, OrderlyGrows DEF Grows
<1>6. Addressed("/", <<>>)
  BY DEF Addressed
<1> QED
  BY <1>2, <1>5, <1>6, OrderlyPush

\* An answer, to a client that has taken it from its requests.
LEMMA OrderlySucceeded ==
    ASSUME NEW c, IsClient(c), Orderly(c), Waits(c), NEW r, IsRequest(r),
           r.op \in Turning => Idle(c),
           r.op \in {"login", "createUser"} => c.logouts = 0, NEW n, NEW d, d = Succeeded(c, r, n)
    PROVE  Orderly(d)
<1>0. Addressed("/", <<>>)
  BY DEF Addressed
<1>1. CASE r.op \in Requests \ Turning
  <2> DEFINE b == Reduced(c, r, n)
  <2>1. Only(c, b, Parts(r.op)) /\ Grows(b, d, {})
    BY <1>1, SucceededIs
  <2> HIDE DEF b
  <2>2. Orderly(b) /\ Waits(b)
    BY <2>1, OrderlyOnly DEF Parts
  <2> QED
    BY <2>1, <2>2, OrderlyGrows
<1>2. CASE r.op \in {"login", "createUser"}
  <2> DEFINE e == LoggedIn(c, r.arg[1])
             f == Asks(e, "details", <<>>)
  <2>1. r.arg[1] \in Users
    BY <1>2 DEF IsRequest
  <2>2. d = Push(e, "/", <<>>) \/ d = Push(f, "/", <<>>)
    BY <1>2, TurningIs
  <2>3. LogsIn(c, r.arg[1], e)
    BY <2>1, LoggedInIs
  <2> HIDE DEF e
  <2>4. IsClient(e) /\ Orderly(e) /\ Waits(e)
    BY <1>2, <2>1, <2>3, OrderlyLogsIn DEF Turning
  <2>5. Grows(e, f, {})
    BY <2>4, AskingGrows DEF Background
  <2> HIDE DEF f
  <2>6. IsClient(f) /\ Orderly(f) /\ Waits(f)
    BY <2>4, <2>5, OrderlyGrows DEF Grows
  <2> QED
    BY <1>0, <2>2, <2>4, <2>6, OrderlyPush
<1>3. CASE r.op = "setPassword"
  <2> DEFINE e == showNotification(c, n)
  <2>1. d = Push(e, "/", <<>>)
    BY <1>3, TurningIs
  <2>2. Only(c, e, {"notes", "alarms"})
    BY Notified
  <2> HIDE DEF e
  <2>3. Orderly(e) /\ Waits(e) /\ IsClient(e)
    BY <2>2, OrderlyOnly DEF Only
  <2> QED
    BY <1>0, <2>1, <2>3, OrderlyPush
<1>4. CASE r.op = "createTournament"
  <2> DEFINE arg == <<r.data>>
  <2>1. d = Push(c, "/tournament", arg)
    BY <1>4, TurningIs
  <2>2. Addressed("/tournament", arg)
    BY DEF Addressed, Single
  <2> HIDE DEF arg
  <2> QED
    BY <2>1, <2>2, OrderlyPush
<1> QED
  BY <1>1, <1>2, <1>3, <1>4 DEF IsRequest, Turning

\* What was refused: a login leaves nobody logged in, the rest a note or the cup.
LEMMA RefusedIs ==
    ASSUME NEW c, IsClient(c), NEW r, r.op \in {"updateCourse", "addCourse"}, r.phase = "error",
           NEW n, NEW d, d = Failed(c, r, n)
    PROVE  Only(c, d, {"notes", "alarms", "cup"}) /\ (r.op = "updateCourse" => d.cup = c.cup)
<1>1. CASE r.op = "updateCourse"
  <2>1. d = showNotification(c, n)
    BY <1>1 DEF Failed
  <2>2. Only(c, d, {"notes", "alarms"})
    BY <2>1, Notified
  <2> QED
    BY <1>1, <2>2 DEF Only, ClientFields
<1>2. CASE r.op = "addCourse"
  <2> DEFINE q == [r EXCEPT !.data = 0]
  <2>1. d = TournamentReduced(c, q)
    BY <1>2 DEF Failed
  <2> HIDE DEF q
  <2>2. Only(c, d, {"cup"})
    BY <2>1, CupKnown
  <2> QED
    BY <1>2, <2>2 DEF Only
<1> QED
  BY <1>1, <1>2

LEMMA OrderlyFailed ==
    ASSUME NEW c, IsClient(c), Orderly(c), Waits(c), NEW r, r.op \in Refusable, r.phase = "error",
           r.op \in {"login", "createUser"} => Idle(c) /\ c.logouts = 0, NEW n,
           NEW d, d = Failed(c, r, n)
    PROVE  Orderly(d)
<1>1. CASE r.op \in {"login", "createUser"}
  <2> DEFINE b == LoginFailed(c)
             e == Dispatch(c, b)
  <2>1. d = LogoutSoon(e)
    BY <1>1 DEF Failed
  <2>2. Only(c, b, {"loggedIn", "failed"}) /\ ~b.loggedIn /\ b.failed
    BY LoggingOutKnown
  <2> HIDE DEF b
  <2>3. Idle(b) /\ b.logouts = 0 /\ IsClient(b)
    BY <1>1, <2>2 DEF Only, ClientFields, Idle
  <2>4. Orderly(e) /\ Waits(e) /\ ~e.loggedIn /\ e.failed /\ e.logouts = 0
    BY <2>2, <2>3, OrderlyIdle, OrderlyDispatch
  <2>5. IsClient(e)
    BY <2>3, DispatchGrows DEF Grows
  <2> HIDE DEF e
  <2>6. Only(e, d, {"logouts"}) /\ d.logouts = 1
    BY <2>1, <2>4, <2>5, LogoutSoonIs
  <2>7. /\ d.net = e.net /\ d.user = e.user /\ d.at = e.at /\ d.failed /\ ~d.loggedIn
    BY <2>4, <2>6 DEF Only, ClientFields
  <2>8. \A i \in DOMAIN d.net : InTime(d, d.net[i]) /\ d.net[i].op \notin Free
    <3> SUFFICES ASSUME NEW i \in DOMAIN d.net
                 PROVE  InTime(d, d.net[i]) /\ d.net[i].op \notin Free
      OBVIOUS
    <3>1. InTime(e, e.net[i]) /\ e.net[i].op \in Background
      BY <2>4, <2>7 DEF Orderly, Waits
    <3> QED
      BY <2>7, <3>1, BackgroundIs DEF InTime
  <2> QED
    BY <2>4, <2>6, <2>7, <2>8 DEF Orderly, Waits, Free
<1>2. CASE r.op \in {"updateCourse", "addCourse"}
  <2>1. Only(c, d, {"notes", "alarms", "cup"})
    BY <1>2, RefusedIs
  <2> QED
    BY <2>1, OrderlyOnly
<1> QED
  BY <1>1, <1>2 DEF Refusable

\* The answer r, and the client c without it.
AnswersTo(r, c, d, n) ==
    \/ r.phase = "ok" /\ d = Succeeded(c, r, n)
    \/ r.phase = "error" /\ r.op \in Refusable /\ d = Failed(c, r, n)

LEMMA AnswerIs ==
    ASSUME IsClient(app), Orderly(app), NEW i \in DOMAIN app.net, NEW n, Answer(i, n)
    PROVE  /\ UNCHANGED <<db, calm>>
           /\ \E c : Takes(app, c, i) /\ AnswersTo(app.net[i], c, app', n)
<1> DEFINE r == app.net[i]
           c == [app EXCEPT !.net = RemoveAt(@, i)]
<1>1. InTime(app, r)
  BY DEF Orderly
<1>2. /\ UNCHANGED <<db, calm>> /\ r.phase # "sent"
      /\ app' = IF ~r.page THEN c
                ELSE IF r.phase = "ok" THEN Succeeded(c, r, n) ELSE Failed(c, r, n)
  BY DEF Answer
<1>3. Takes(app, c, i)
  BY RequestTaken
<1> HIDE DEF c, r
<1>4. AnswersTo(r, c, app', n)
  BY <1>1, <1>2 DEF InTime, AnswersTo
<1> QED
  BY <1>2, <1>3, <1>4 DEF r

LEMMA AnswerKeepsOrder ==
    ASSUME IsClient(app), Orderly(app), NEW i \in DOMAIN app.net, NEW n, Answer(i, n)
    PROVE  Orderly(app')
<1> DEFINE r == app.net[i]
<1>1. PICK c : Takes(app, c, i) /\ AnswersTo(r, c, app', n)
  BY AnswerIs
<1>2. IsRequest(r)
  BY DEF IsClient, IsNet
<1>3. Orderly(c) /\ Waits(c) /\ (r.op \notin Background => Idle(c))
  BY <1>1, OrderlyTakes
<1>4. r.op \in {"login", "createUser"} => c.logouts = 0
  <2>1. c.logouts = app.logouts
    BY <1>1 DEF Takes, Only, ClientFields
  <2> QED
    BY <2>1 DEF Orderly
<1>5. IsClient(c)
  BY <1>1 DEF Takes, Only
<1>6. r.op \in Turning \cup {"login", "createUser"} => Idle(c)
  BY <1>3, BackgroundIs DEF Turning
<1> HIDE DEF r
<1> QED
  BY <1>1, <1>2, <1>3, <1>4, <1>5, <1>6, OrderlySucceeded, OrderlyFailed DEF AnswersTo

\* Serving a request.
Changes(c, d, i, q) ==
    /\ Only(c, d, {"net"}) /\ DOMAIN d.net = DOMAIN c.net /\ d.net[i] = q
    /\ \A j \in DOMAIN c.net : j # i => d.net[j] = c.net[j]
Served(r, q, d, e) ==
    /\ q.op = r.op /\ q.arg = r.arg /\ q.who = r.who /\ q.page = r.page
    /\ \/ Refuses(d, r) /\ r.op \in Refusable /\ q.phase = "error" /\ e = d
       \/ ~Refuses(d, r) /\ q.phase = "ok" /\ q.data = Data(e, r) /\ e = After(d, r)

LEMMA ServeIs ==
    ASSUME IsClient(app), NEW i \in DOMAIN app.net, Serve(i)
    PROVE  /\ app.net[i].phase = "sent" /\ UNCHANGED calm
           /\ \E q : Served(app.net[i], q, db, db') /\ Changes(app, app', i, q)
<1> DEFINE r == app.net[i]
<1>1. IsRequest(r) /\ DOMAIN r = RequestFields
  BY DEF IsClient, IsNet, IsRequest
<1>2. r.phase = "sent" /\ UNCHANGED calm
  BY DEF Serve
<1>3. CASE Refuses(db, r)
  <2> DEFINE q == [r EXCEPT !.phase = "error"]
  <2>1. app' = [app EXCEPT !.net[i] = q] /\ db' = db
    BY <1>3 DEF Serve
  <2>2. /\ q.op = r.op /\ q.arg = r.arg /\ q.who = r.who /\ q.page = r.page
        /\ q.phase = "error" /\ DOMAIN q = RequestFields
    BY <1>1 DEF RequestFields
  <2> HIDE DEF q
  <2>3. IsRequest(q)
    BY <1>1, <2>2 DEF IsRequest
  <2>4. r.op \in Refusable
    BY <1>3 DEF Refuses, Refusable
  <2> HIDE DEF r
  <2>5. Served(r, q, db, db')
    BY <1>3, <2>1, <2>2, <2>4 DEF Served
  <2>6. Changes(app, app', i, q)
    BY <2>1, <2>3, RequestChanged DEF Changes
  <2> QED
    BY <1>2, <2>5, <2>6 DEF r
<1>4. CASE ~Refuses(db, r)
  <2> DEFINE q == [r EXCEPT !.phase = "ok", !.data = Data(db', r)]
  <2>1. app' = [app EXCEPT !.net[i] = q] /\ db' = After(db, r)
    <3>1. app' = [app EXCEPT !.net[i].phase = "ok", !.net[i].data = Data(db', r)] /\ db' = After(db, r)
      BY <1>4 DEF Serve
    <3> QED
      BY <1>1, <3>1 DEF IsClient, ClientFields
  <2>2. /\ q.op = r.op /\ q.arg = r.arg /\ q.who = r.who /\ q.page = r.page
        /\ q.phase = "ok" /\ q.data = Data(db', r) /\ DOMAIN q = RequestFields
    BY <1>1 DEF RequestFields
  <2> HIDE DEF q
  <2>3. IsRequest(q)
    BY <1>1, <2>2 DEF IsRequest
  <2> HIDE DEF r
  <2>5. Served(r, q, db, db')
    BY <1>4, <2>1, <2>2 DEF Served
  <2>6. Changes(app, app', i, q)
    BY <2>1, <2>3, RequestChanged DEF Changes
  <2> QED
    BY <1>2, <2>5, <2>6 DEF r
<1> QED
  BY <1>3, <1>4

LEMMA ServeKeepsOrder ==
    ASSUME IsClient(app), Orderly(app), NEW i \in DOMAIN app.net, Serve(i)
    PROVE  Orderly(app')
<1>1. PICK q : Served(app.net[i], q, db, db') /\ Changes(app, app', i, q)
  BY ServeIs
<1>2. /\ app'.user = app.user /\ app'.at = app.at /\ app'.logouts = app.logouts
      /\ app'.failed = app.failed /\ app'.loggedIn = app.loggedIn
      /\ DOMAIN app'.net = DOMAIN app.net /\ app'.net[i] = q
      /\ \A j \in DOMAIN app.net : j # i => app'.net[j] = app.net[j]
  BY <1>1 DEF Changes, Only, ClientFields
<1>3. \A j \in DOMAIN app.net : app'.net[j].op = app.net[j].op
  BY <1>1, <1>2 DEF Served
<1>4. InTime(app', q)
  BY <1>1, <1>2 DEF Orderly, InTime, Served
<1>5. \A j \in DOMAIN app.net : InTime(app', app'.net[j])
  BY <1>2, <1>4 DEF Orderly, InTime
<1> QED
  BY <1>2, <1>3, <1>5 DEF Orderly, Waits

\* Nothing is asked for by itself while nobody is logged in.
LEMMA NothingAsked ==
    ASSUME NEW c, NEW d, Grows(c, d, {}), ~c.loggedIn
    PROVE  /\ DOMAIN d.net = DOMAIN c.net
           /\ \A i \in DOMAIN c.net : d.net[i] = c.net[i]
<1>1. ASSUME NEW i \in DOMAIN d.net \ DOMAIN c.net PROVE FALSE
  <2>1. Asked(c, d.net[i], {})
    BY <1>1 DEF Grows, Extends
  <2> QED
    BY <2>1 DEF Asked
<1> QED
  BY <1>1 DEF Grows, Extends

LogsOutLater(c, d) ==
    \E e : /\ Only(c, e, {"loggedIn", "failed", "logouts"})
           /\ ~e.loggedIn /\ e.logouts = c.logouts - 1 /\ d = Dispatch(c, e)

LEMMA TimerIs ==
    ASSUME IsClient(app), LogoutTimer
    PROVE  app.logouts > 0 /\ LogsOutLater(app, app') /\ UNCHANGED <<db, calm>>
<1> DEFINE b == LogUserOut(app)
           e == [b EXCEPT !.logouts = @ - 1]
<1>1. app.logouts > 0 /\ UNCHANGED <<db, calm>> /\ app' = Dispatch(app, e)
  BY DEF LogoutTimer
<1>2. Only(app, b, {"loggedIn", "failed"}) /\ ~b.loggedIn
  BY LoggingOutKnown
<1> HIDE DEF b
<1>3. /\ DOMAIN e = ClientFields /\ \A p \in ClientFields \ {"logouts"} : e[p] = b[p]
      /\ e.logouts = b.logouts - 1
  BY <1>2 DEF Only, IsClient, ClientFields
<1>4. IsClient(b) /\ {"logouts"} \in SUBSET Loose
  BY <1>2 DEF Only, Loose
<1>5. Only(b, e, {"logouts"})
  BY <1>3, <1>4, LooseOnly
<1>6. /\ Only(app, e, {"loggedIn", "failed", "logouts"}) /\ ~e.loggedIn
      /\ e.logouts = app.logouts - 1
  BY <1>2, <1>3, <1>5 DEF Only, ClientFields
<1> HIDE DEF e
<1> QED
  BY <1>1, <1>6 DEF LogsOutLater

\* In good order it runs out for nobody.
LEMMA TimerQuiet ==
    ASSUME IsClient(app), Orderly(app), LogoutTimer
    PROVE  \E e : /\ Only(app, e, {"loggedIn", "failed", "logouts"}) /\ Grows(e, app', {})
                  /\ ~app.loggedIn /\ ~e.loggedIn /\ e.logouts = 0
<1>1. app.logouts = 1 /\ ~app.loggedIn
  BY TimerIs DEF Orderly
<1>2. PICK e : /\ Only(app, e, {"loggedIn", "failed", "logouts"})
               /\ ~e.loggedIn /\ e.logouts = app.logouts - 1 /\ app' = Dispatch(app, e)
  BY TimerIs DEF LogsOutLater
<1>3. SamePage(app, e) /\ IsClient(e)
  <2>1. /\ e.user = app.user /\ e.at = app.at /\ e.arg = app.arg /\ e.view = app.view
        /\ IsClient(e)
    BY <1>2 DEF Only, ClientFields
  <2>2. e.loggedIn = app.loggedIn
    BY <1>1, <1>2, <2>1 DEF IsClient, IsUser
  <2> QED
    BY <2>1, <2>2 DEF SamePage
<1>4. Grows(e, app', {})
  BY <1>2, <1>3, DispatchQuietly
<1> QED
  BY <1>1, <1>2, <1>4

LEMMA TimerKeepsOrder ==
    ASSUME IsClient(app), Orderly(app), LogoutTimer PROVE Orderly(app')
<1>1. PICK e : /\ Only(app, e, {"loggedIn", "failed", "logouts"}) /\ Grows(e, app', {})
               /\ ~e.loggedIn /\ e.logouts = 0
  BY TimerQuiet
<1>2. e.net = app.net /\ e.user = app.user /\ e.at = app.at
  BY <1>1 DEF Only, ClientFields
<1>3. /\ DOMAIN app'.net = DOMAIN app.net /\ \A i \in DOMAIN app.net : app'.net[i] = app.net[i]
      /\ app'.user = app.user /\ app'.at = app.at /\ app'.logouts = 0
  BY <1>1, <1>2, NothingAsked DEF Grows, Same
<1>4. \A i \in DOMAIN app.net : InTime(app', app.net[i])
  BY <1>3 DEF Orderly, InTime
<1> QED
  BY <1>3, <1>4 DEF Orderly, Waits

LEMMA ExpiryIs ==
    ASSUME IsClient(app), NEW n \in Ids, ExpireNotification(n)
    PROVE  Only(app, app', {"notes", "alarms"}) /\ UNCHANGED <<db, calm>>
<1> DEFINE b == hideNotification(app, n)
           x == [b.alarms EXCEPT ![n] = @ - 1]
<1>1. UNCHANGED <<db, calm>> /\ app' = [b EXCEPT !.alarms = x]
  BY DEF ExpireNotification
<1>2. Only(app, b, {"notes"})
  BY Notified
<1> HIDE DEF b, x
<1>3. DOMAIN app' = ClientFields /\ \A p \in ClientFields \ {"alarms"} : app'[p] = b[p]
  BY <1>1, <1>2 DEF Only, IsClient, ClientFields
<1>4. IsClient(b) /\ {"alarms"} \in SUBSET Loose
  BY <1>2 DEF Only, Loose
<1>5. Only(b, app', {"alarms"})
  BY <1>3, <1>4, LooseOnly
<1> QED
  BY <1>1, <1>2, <1>5 DEF Only

-----------------------------------------------------------------------------
(* What a person who waits for the answers does.                             *)

\* The client a is c at another address, or with another hole in the dialogue.
Elsewhere(c, a, at, arg) ==
    /\ IsClient(a) /\ a.net = c.net /\ a.feed = c.feed
    /\ a.loggedIn = c.loggedIn /\ a.user = c.user /\ a.failed = c.failed
    /\ a.details = c.details /\ a.courses = c.courses /\ a.cup = c.cup
    /\ a.logouts = c.logouts /\ a.hub = c.hub /\ a.saved = c.saved
    /\ a.at = at /\ a.arg = arg
    /\ a.view = IF c.at = at THEN c.view ELSE Fresh
    /\ \A op \in DOMAIN NothingShown : op # "previousYear" => a.shown[op] = c.shown[op]
    /\ a.shown.previousYear = IF c.at = at THEN c.shown.previousYear ELSE <<>>
OtherHole(c, a) ==
    /\ Looks(c, a, a.view)
    /\ \A p \in DOMAIN Fresh \ {"hole"} : a.view[p] = c.view[p]
\* The effects of a have made d of it, for somebody who is logged in.
Shown(c, a, d) ==
    /\ Grows(a, d, EffectsOf(c, a))
    /\ \A f \in EffectsOf(c, a) : Makes(a, d, f)
Goes(c, d, at, arg) ==
    \E a : Elsewhere(c, a, at, arg) /\ Shown(c, a, d) /\ Makes(a, d, Details)
LooksAt(c, d, view) == \E a : Looks(c, a, view) /\ Shown(c, a, d)
\* One request, which the page may make.
Mine(op, arg, who) ==
    \/ who = app.user /\ (Allowed(op, arg) \/ op = "updateCourse")
    \/ who = NoOne /\ AllowedFreely(op, arg)
AsksOne(c, d) ==
    \E a : /\ OtherHole(c, a)
           /\ d = a \/ \E op, arg, who : Mine(op, arg, who) /\ Appends(a, d, Request(op, arg, who))
\* A note is closed, the hub is lost, or connected again while the details are asked
\* for.
Quietly(c, d) ==
    \E e : /\ Grows(c, e, {}) /\ Only(e, d, {"notes", "hub"})
           /\ d.hub \in {c.hub, NoOne} \/ Makes(c, e, Details)

LEMMA GoesIs ==
    ASSUME NEW c, IsClient(c), c.loggedIn, NEW at, NEW arg, Addressed(at, arg),
           NEW d, d = Push(c, at, arg)
    PROVE  Goes(c, d, at, arg)
<1> DEFINE a == Turned(c, at, arg)
<1>1. /\ Grows(a, d, EffectsOf(c, a)) /\ Makes(a, d, Details)
      /\ \A f \in EffectsOf(c, a) : Makes(a, d, f)
  BY PushGrows
<1>2. Elsewhere(c, a, at, arg)
  BY TurnedIs DEF Elsewhere
<1> HIDE DEF a
<1> QED
  BY <1>1, <1>2 DEF Goes, Shown

LEMMA SameHole ==
    ASSUME NEW c, IsClient(c) PROVE OtherHole(c, c)
BY DEF OtherHole, Looks

LEMMA HoleIs ==
    ASSUME NEW c, IsClient(c), NEW x, NEW d, d = [c EXCEPT !.view.hole = x]
    PROVE  OtherHole(c, d)
<1> DEFINE view == [c.view EXCEPT !.hole = x]
<1>1. Looks(c, d, view)
  BY ViewSet
<1>2. \A p \in DOMAIN Fresh \ {"hole"} : view[p] = c.view[p]
  BY DEF IsClient
<1> HIDE DEF view
<1>3. d.view = view
  BY <1>1 DEF Looks
<1> QED
  BY <1>1, <1>2, <1>3 DEF OtherHole

\* Requests are appended for whoever is logged in.
LEMMA AppendsIs ==
    ASSUME NEW c, IsClient(c), NEW op \in Requests, NEW arg,
           op \notin {"login", "createUser"}, NEW d, d = Asks(c, op, arg)
    PROVE  d = c \/ Appends(c, d, Request(op, arg, c.user))
<1>1. CASE d # c
  <2>1. d = [c EXCEPT !.net = Append(@, Request(op, arg, c.user))]
    BY <1>1 DEF Asks
  <2> QED
    BY <2>1, Appending
<1> QED
  BY <1>1

LEMMA AllowedIs ==
    ASSUME NEW op, NEW arg
    PROVE  /\ Allowed(op, arg) => op \in Requests \ {"login", "createUser", "updateCourse"}
           /\ AllowedFreely(op, arg) => /\ op \in Free /\ op \in Requests
                                        /\ op \in {"login", "createUser"} => arg[1] \in Users
BY DEF Allowed, AllowedFreely, Requests, Turning, CupOps, Background, FetchOps, Free

LEMMA AsksForIs ==
    ASSUME IsClient(app), AsksFor PROVE AsksOne(app, app')
<1>1. ASSUME NEW op, NEW arg, AllowedFreely(op, arg), app' = AsksFreely(app, op, arg)
      PROVE  Appends(app, app', Request(op, arg, NoOne)) /\ Mine(op, arg, NoOne)
  <2>1. app' = [app EXCEPT !.net = Append(@, Request(op, arg, NoOne))]
    BY <1>1 DEF AsksFreely
  <2> QED
    BY <1>1, <2>1, AllowedIs, Appending DEF Mine
<1>2. ASSUME NEW op, NEW arg, Allowed(op, arg), app' = Asks(app, op, arg)
      PROVE  \/ app' = app
             \/ Appends(app, app', Request(op, arg, app.user)) /\ Mine(op, arg, app.user)
  BY <1>2, AllowedIs, AppendsIs DEF Mine
<1>3. OtherHole(app, app)
  BY SameHole
<1> QED
  BY <1>1, <1>2, <1>3 DEF AsksFor, AsksOne

LEMMA AsideIs ==
    ASSUME IsClient(app), Aside, app.loggedIn PROVE Quietly(app, app')
<1>0. Grows(app, app, {})
  BY SameGrows
<1>1. CASE \E n \in Ids : app' = hideNotification(app, n)
  <2>1. Only(app, app', {"notes"})
    BY <1>1, Notified
  <2>2. Only(app, app', {"notes", "hub"}) /\ app'.hub = app.hub
    BY <2>1 DEF Only, ClientFields
  <2> QED
    BY <1>0, <2>2 DEF Quietly
<1>2. CASE app' = connectToHub(fetchUserDetails(app, TRUE))
  <2> DEFINE e == fetchUserDetails(app, TRUE)
  <2>1. IF app.hub # NoOne THEN e = app ELSE e = Asks(app, "details", <<>>)
    BY DEF fetchUserDetails
  <2>2. app' = connectToHub(e)
    BY <1>2
  <2> HIDE DEF e
  <2>3. Grows(app, e, {}) /\ (app.hub = NoOne => Makes(app, e, Details))
    BY <1>0, <2>1, AskingGrows DEF Background, Details
  <2>4. IsClient(e) /\ e.hub = app.hub
    BY <2>3 DEF Grows, Same
  <2>5. Only(e, app', {"hub"})
    BY <2>2, <2>4, HubKnown
  <2>6. Only(e, app', {"notes", "hub"})
    BY <2>5 DEF Only
  <2>7. app.hub # NoOne => app' = e
    BY <2>2, <2>4 DEF connectToHub
  <2> QED
    BY <2>3, <2>4, <2>6, <2>7 DEF Quietly
<1>3. CASE app' = [app EXCEPT !.hub = NoOne]
  <2>1. Only(app, app', {"hub"}) /\ app'.hub = NoOne
    BY <1>3, HubSet
  <2>2. Only(app, app', {"notes", "hub"})
    BY <2>1 DEF Only
  <2> QED
    BY <1>0, <2>1, <2>2 DEF Quietly
<1> QED
  BY <1>1, <1>2, <1>3 DEF Aside

LEMMA CalmIsIdle ==
    ASSUME IsClient(app), calm', calm' = (calm /\ ~InFlight) PROVE calm /\ Idle(app)
<1>1. calm /\ app.net = <<>>
  BY DEF InFlight
<1> QED
  BY <1>1 DEF Idle

LEMMA MineInTime ==
    ASSUME NEW op, NEW arg, NEW who, Mine(op, arg, who), NEW r, r = Request(op, arg, who)
    PROVE  InTime(app, r)
<1>1. r.op = op /\ r.who = who /\ r.page = TRUE /\ r.phase = "sent"
  BY DEF Request
<1>2. CASE who = app.user /\ (Allowed(op, arg) \/ op = "updateCourse")
  BY <1>1, <1>2 DEF Allowed, InTime
<1>3. CASE who = NoOne /\ AllowedFreely(op, arg)
  BY <1>1, <1>3 DEF AllowedFreely, InTime, Free
<1> QED
  BY <1>2, <1>3 DEF Mine

LEMMA MineEarly ==
    ASSUME Orderly(app), NEW op, NEW arg, NEW who, Mine(op, arg, who),
           op \in {"login", "createUser"}
    PROVE  app.logouts = 0
<1>1. ~app.failed
  BY DEF Mine, Allowed, AllowedFreely
<1> QED
  BY <1>1 DEF Orderly

LEMMA AsksOneInOrder ==
    ASSUME IsClient(app), Orderly(app), Idle(app), AsksOne(app, app') PROVE Orderly(app')
<1>1. PICK a : /\ OtherHole(app, a)
               /\ \/ app' = a
                  \/ \E op, arg, who : Mine(op, arg, who) /\ Appends(a, app', Request(op, arg, who))
  BY DEF AsksOne
<1>2. /\ a.net = app.net /\ a.user = app.user /\ a.at = app.at /\ a.logouts = app.logouts
      /\ a.failed = app.failed /\ a.loggedIn = app.loggedIn
  BY <1>1 DEF OtherHole, Looks
<1>3. Orderly(a) /\ Idle(a)
  BY <1>2, OrderlySame DEF Idle, Waits, Orderly
<1>4. ASSUME NEW op, NEW arg, NEW who, Mine(op, arg, who), Appends(a, app', Request(op, arg, who))
      PROVE  Orderly(app')
  <2> DEFINE r == Request(op, arg, who)
  <2>1. InTime(app, r) /\ r.op = op
    BY <1>4, MineInTime DEF Request
  <2> HIDE DEF r
  <2>2. InTime(a, r)
    BY <1>2, <2>1 DEF InTime
  <2>3. op \in {"login", "createUser"} => a.logouts = 0
    BY <1>2, <1>4, MineEarly
  <2>4. Appends(a, app', r)
    BY <1>4 DEF r
  <2> QED
    BY <1>3, <2>1, <2>2, <2>3, <2>4, OrderlyAppends
<1> QED
  BY <1>1, <1>3, <1>4

LEMMA DoesKeepsOrder ==
    ASSUME IsClient(app), Orderly(app), Idle(app), Deed PROVE Orderly(app')
<1>0. Waits(app)
  BY IdleWaits
<1>1. CASE Turns
  BY <1>0, <1>1, OrderlyPush DEF Turns
<1>2. CASE LooksElsewhere
  <2>1. PICK view : Views(view) /\ app' = Local(app, view)
    BY <1>2 DEF LooksElsewhere
  <2> DEFINE a == [app EXCEPT !.view = view]
  <2>2. Looks(app, a, view) /\ Grows(a, app', EffectsOf(app, a))
    BY <2>1, LocalGrows DEF Views
  <2> HIDE DEF a
  <2>3. Orderly(a) /\ Waits(a)
    BY <1>0, <2>2, OrderlySame DEF Looks, Orderly
  <2> QED
    BY <2>2, <2>3, OrderlyGrows
<1>3. CASE AsksFor
  BY <1>3, AsksForIs, AsksOneInOrder
<1>4. CASE OpensHole \/ ClosesHole
  <2>1. \E x : app' = [app EXCEPT !.view.hole = x]
    BY <1>4 DEF OpensHole, ClosesHole
  <2>2. AsksOne(app, app')
    BY <2>1, HoleIs DEF AsksOne
  <2> QED
    BY <2>2, AsksOneInOrder
<1>5. CASE Aside
  <2>1. PICK e : Grows(app, e, {}) /\ Only(e, app', {"notes", "hub"})
    <3>1. Grows(app, app, {})
      BY SameGrows
    <3>2. CASE \E n \in Ids : app' = hideNotification(app, n)
      <4>1. Only(app, app', {"notes"})
        BY <3>2, Notified
      <4>2. Only(app, app', {"notes", "hub"})
        BY <4>1 DEF Only
      <4> QED
        BY <3>1, <4>2
    <3>3. CASE app' = connectToHub(fetchUserDetails(app, TRUE))
      <4> DEFINE e == fetchUserDetails(app, TRUE)
      <4>1. e = app \/ e = Asks(app, "details", <<>>)
        BY DEF fetchUserDetails
      <4>2. app' = connectToHub(e)
        BY <3>3
      <4> HIDE DEF e
      <4>3. Grows(app, e, {})
        BY <3>1, <4>1, AskingGrows DEF Background
      <4>4. Only(e, app', {"hub"})
        BY <4>2, <4>3, HubKnown DEF Grows
      <4>5. Only(e, app', {"notes", "hub"})
        BY <4>4 DEF Only
      <4> QED
        BY <4>3, <4>5
    <3>4. CASE app' = [app EXCEPT !.hub = NoOne]
      <4>1. Only(app, app', {"hub"})
        BY <3>4, HubSet
      <4>2. Only(app, app', {"notes", "hub"})
        BY <4>1 DEF Only
      <4> QED
        BY <3>1, <4>2
    <3> QED
      BY <1>5, <3>2, <3>3, <3>4 DEF Aside
  <2>2. Orderly(e)
    BY <1>0, <2>1, OrderlyGrows
  <2> QED
    BY <2>1, <2>2, OrderlyOnly
<1>6. CASE app.loggedIn /\ app' = logout(app)
  <2>1. app.logouts = 0
    BY <1>6 DEF Orderly
  <2> QED
    BY <1>0, <1>6, <2>1, OrderlyLogsOut
<1> QED
  BY <1>1, <1>2, <1>3, <1>4, <1>5, <1>6 DEF Deed

\* "Save and next".
LEMMA SaveIs ==
    ASSUME IsClient(app), SaveAndNext
    PROVE  AsksOne(app, app') /\ UNCHANGED db /\ calm' = (calm /\ ~InFlight)
<1>1. PICK next, arg :
         app' = Asks([app EXCEPT !.view.hole = next], "updateCourse", arg)
  BY DEF SaveAndNext, updateCourse
<1> DEFINE e == [app EXCEPT !.view.hole = next]
<1>2. app' = Asks(e, "updateCourse", arg)
  BY <1>1
<1>3. OtherHole(app, e)
  BY HoleIs
<1> HIDE DEF e
<1>4. IsClient(e) /\ e.user = app.user
  BY <1>3 DEF OtherHole, Looks
<1>5. app' = e \/ Appends(e, app', Request("updateCourse", arg, app.user))
  BY <1>2, <1>4, AppendsIs DEF Requests
<1>6. Mine("updateCourse", arg, app.user)
  BY DEF Mine
<1>7. AsksOne(app, app')
  BY <1>3, <1>5, <1>6 DEF AsksOne
<1> QED
  BY <1>7 DEF SaveAndNext

\* What somebody does who is logged in and stays it.
Doing(c, d) ==
    \/ \E at, arg : /\ at = "/tournament" => arg[1] \in DOMAIN db.cups
                    /\ Addressed(at, arg) /\ Goes(c, d, at, arg)
    \/ \E view : Views(view) /\ LooksAt(c, d, view)
    \/ AsksOne(c, d)
    \/ Quietly(c, d)

LEMMA DoesIs ==
    ASSUME IsClient(app), Deed PROVE ~app'.loggedIn \/ (app.loggedIn /\ Doing(app, app'))
<1>1. CASE Turns
  <2>1. PICK at, arg : /\ at = "/tournament" => arg[1] \in DOMAIN db.cups
                       /\ Addressed(at, arg) /\ app' = Push(app, at, arg)
    BY <1>1 DEF Turns
  <2>2. CASE app.loggedIn
    <3>1. Goes(app, app', at, arg)
      BY <2>1, <2>2, GoesIs
    <3> QED
      BY <2>1, <2>2, <3>1 DEF Doing
  <2>3. CASE ~app.loggedIn
    <3> DEFINE a == Turned(app, at, arg)
    <3>1. Grows(a, app', EffectsOf(app, a)) /\ a.loggedIn = app.loggedIn
      BY <2>1, PushGrows, TurnedIs
    <3> QED
      BY <2>3, <3>1 DEF Grows, Same
  <2> QED
    BY <2>2, <2>3
<1>2. CASE LooksElsewhere
  <2>1. PICK view : Views(view) /\ app' = Local(app, view)
    BY <1>2 DEF LooksElsewhere
  <2> DEFINE a == [app EXCEPT !.view = view]
  <2>2. /\ Looks(app, a, view) /\ Grows(a, app', EffectsOf(app, a))
        /\ app.loggedIn => \A f \in EffectsOf(app, a) : Makes(a, app', f)
    BY <2>1, LocalGrows DEF Views
  <2> HIDE DEF a
  <2>3. app'.loggedIn = app.loggedIn
    BY <2>2 DEF Looks, Grows, Same
  <2>4. app.loggedIn => LooksAt(app, app', view)
    BY <2>2 DEF LooksAt, Shown
  <2> QED
    BY <2>1, <2>3, <2>4 DEF Doing, IsClient, IsUser
<1>3. CASE AsksFor \/ OpensHole \/ ClosesHole
  <2>1. AsksOne(app, app')
    <3>1. CASE AsksFor
      BY <3>1, AsksForIs
    <3>2. CASE OpensHole \/ ClosesHole
      <4>1. \E x : app' = [app EXCEPT !.view.hole = x]
        BY <3>2 DEF OpensHole, ClosesHole
      <4> QED
        BY <4>1, HoleIs DEF AsksOne
    <3> QED
      BY <1>3, <3>1, <3>2
  <2>2. app'.loggedIn = app.loggedIn
    BY <2>1 DEF AsksOne, OtherHole, Looks, Appends, Same
  <2> QED
    BY <2>1, <2>2 DEF Doing, IsClient, IsUser
<1>4. CASE Aside
  <2>1. CASE app.loggedIn
    BY <1>4, <2>1, AsideIs DEF Doing
  <2>2. CASE ~app.loggedIn
    <3>1. CASE \E n \in Ids : app' = hideNotification(app, n)
      <4>1. Only(app, app', {"notes"})
        BY <3>1, Notified
      <4> QED
        BY <2>2, <4>1 DEF Only, ClientFields
    <3>2. CASE app' = connectToHub(fetchUserDetails(app, TRUE))
      <4>1. app' = app
        BY <2>2, <3>2 DEF connectToHub, fetchUserDetails, Asks
      <4> QED
        BY <2>2, <4>1
    <3>3. CASE app' = [app EXCEPT !.hub = NoOne]
      <4>1. Only(app, app', {"hub"})
        BY <3>3, HubSet
      <4> QED
        BY <2>2, <4>1 DEF Only, ClientFields
    <3> QED
      BY <1>4, <3>1, <3>2, <3>3 DEF Aside
  <2> QED
    BY <2>1, <2>2 DEF IsClient, IsUser
<1>5. CASE app' = logout(app)
  <2>1. LogsOut(app, app')
    BY <1>5, LoggedOutIs
  <2>2. PICK b, a, m :
           /\ Only(app, b, {"loggedIn", "failed", "saved"}) /\ ~b.loggedIn
           /\ Looks(b, a, a.view) /\ Grows(a, m, EffectsOf(app, a)) /\ app' = Push(m, "/", <<>>)
    BY <2>1 DEF LogsOut
  <2>3. ~m.loggedIn /\ IsClient(m)
    BY <2>2 DEF Looks, Grows, Same
  <2> DEFINE e == Turned(m, "/", <<>>)
  <2>4. Addressed("/", <<>>)
    BY DEF Addressed
  <2>5. Grows(e, app', EffectsOf(m, e)) /\ e.loggedIn = m.loggedIn
    BY <2>2, <2>3, <2>4, PushGrows, TurnedIs
  <2> QED
    BY <2>3, <2>5 DEF Grows, Same
<1> QED
  BY <1>1, <1>2, <1>3, <1>4, <1>5 DEF Deed

-----------------------------------------------------------------------------
(* Rounds that start and are deleted, and pages that are loaded.             *)

\* The hub tells the browser of it.
Tells(c, d, b) ==
    \E e, m : /\ Only(c, e, {"details"}) /\ e.details = [c.details EXCEPT !.active = b]
              /\ Grows(e, m, {})
              /\ Only(m, d, {"notes", "alarms"}) \/ d = Push(m, "/", <<>>)

LEMMA TellsIs ==
    ASSUME NEW c, IsClient(c), NEW b, NEW e, e = [c EXCEPT !.details.active = b],
           NEW m, m = Dispatch(c, e), NEW d,
           (\E n : d = showNotification(m, n)) \/ d = Push(m, "/", <<>>)
    PROVE  Tells(c, d, b)
<1> DEFINE x == [c.details EXCEPT !.active = b]
<1>1. e = [c EXCEPT !.details = x]
  OBVIOUS
<1> HIDE DEF x
<1>2. Only(c, e, {"details"}) /\ e.details = x
  BY <1>1, DetailsSet
<1>3. SamePage(c, e) /\ IsClient(e)
  BY <1>2 DEF Only, ClientFields, SamePage
<1>4. Grows(e, m, {})
  BY <1>3, DispatchQuietly
<1>5. IsClient(m)
  BY <1>4 DEF Grows
<1>6. Only(m, d, {"notes", "alarms"}) \/ d = Push(m, "/", <<>>)
  BY <1>5, Notified
<1> QED
  BY <1>2, <1>4, <1>6 DEF Tells, x

LEMMA RoundsAre ==
    ASSUME IsClient(app), IsDb(db), NEW u \in Users, RoundStarts(u) \/ RoundDeleted(u)
    PROVE  /\ calm' = (calm /\ ~InFlight)
           /\ \E b \in BOOLEAN :
                /\ Knows(db, db', u, b)
                /\ IF app.hub = u THEN Tells(app, app', b) ELSE app' = app
<1>1. CASE RoundStarts(u)
  <2>1. /\ calm' = (calm /\ ~InFlight) /\ db' = [db EXCEPT !.account[u].active = TRUE]
        /\ IF app.hub = u
           THEN \E n \in Ids : app' = showNotification(Dispatch(app, NewRoundCreated(app)), n)
           ELSE app' = app
    BY <1>1 DEF RoundStarts
  <2>2. Knows(db, db', u, TRUE)
    BY <2>1, AccountSet
  <2>3. ASSUME app.hub = u PROVE Tells(app, app', TRUE)
    <3> DEFINE e == [app EXCEPT !.details.active = TRUE]
               m == Dispatch(app, e)
    <3>1. \E n : app' = showNotification(m, n)
      BY <2>1, <2>3 DEF NewRoundCreated
    <3> HIDE DEF m
    <3> QED
      BY <3>1, TellsIs DEF m
  <2> QED
    BY <2>1, <2>2, <2>3
<1>2. CASE RoundDeleted(u)
  <2>1. /\ calm' = (calm /\ ~InFlight) /\ db' = [db EXCEPT !.account[u].active = FALSE]
        /\ app' = IF app.hub = u THEN Push(Dispatch(app, RoundWasDeleted(app)), "/", <<>>) ELSE app
    BY <1>2 DEF RoundDeleted
  <2>2. Knows(db, db', u, FALSE)
    BY <2>1, AccountSet
  <2>3. ASSUME app.hub = u PROVE Tells(app, app', FALSE)
    <3> DEFINE e == [app EXCEPT !.details.active = FALSE]
               m == Dispatch(app, e)
    <3>1. app' = Push(m, "/", <<>>)
      BY <2>1, <2>3 DEF RoundWasDeleted
    <3> HIDE DEF m
    <3> QED
      BY <3>1, TellsIs DEF m
  <2> QED
    BY <2>1, <2>2, <2>3
<1> QED
  BY <1>1, <1>2

LEMMA TellsInOrder ==
    ASSUME NEW c, Orderly(c), Waits(c), NEW d, NEW b, Tells(c, d, b) PROVE Orderly(d)
<1>1. PICK e, m : /\ Only(c, e, {"details"}) /\ Grows(e, m, {})
                  /\ Only(m, d, {"notes", "alarms"}) \/ d = Push(m, "/", <<>>)
  BY DEF Tells
<1>2. Orderly(e) /\ Waits(e)
  BY <1>1, OrderlyOnly
<1>3. Orderly(m) /\ Waits(m) /\ IsClient(m)
  BY <1>1, <1>2, OrderlyGrows DEF Grows
<1>4. Addressed("/", <<>>)
  BY DEF Addressed
<1> QED
  BY <1>1, <1>3, <1>4, OrderlyPush, OrderlyOnly

\* The page d is new: l, before it asks for anything but somebody's details.
OnlyDetails(l) ==
    \A i \in DOMAIN l.net : l.net[i].op \in {"details", "moreDetails"} /\ l.net[i].phase = "sent"
Opened(l) ==
    /\ IsClient(l) /\ OnlyDetails(l) /\ Orderly(l) /\ Waits(l)
    /\ l.at \notin {"/year", "/users", "/tournament"} /\ l.arg = <<>> /\ l.view = Fresh
    /\ l.feed = NoFeed /\ l.courses = <<>> /\ l.details = Unknown
Opens(d) ==
    \E l : /\ Opened(l) /\ Grows(l, d, Range(Fetches(l)))
           /\ l.loggedIn => \A f \in Range(Fetches(l)) : Makes(l, d, f)
           /\ l.loggedIn => \E i \in DOMAIN d.net : d.net[i].op = "details"

LEMMA AsksDetails ==
    ASSUME NEW c, NEW d, Makes(c, d, Details)
    PROVE  \E i \in DOMAIN d.net : d.net[i].op = "details"
BY DEF Makes, Details, Fetch

LEMMA LoadOpens ==
    ASSUME NEW saved \in Users \cup {NoOne}, NEW link \in Users \cup {NoOne},
           NEW at, at \notin {"/year", "/users", "/tournament"},
           link \in {NoOne, saved} \/ saved = NoOne, NEW d, d = Load(saved, at, link)
    PROVE  Opens(d)
<1>0. PICK c : c = StartStore(saved, at)
  OBVIOUS
<1>1. Starts(c, saved, at) /\ Loads(c, link, d)
  BY <1>0, StartIs, LoadFacts
<1>2. PICK m, l :
         /\ Grows(c, m, {}) /\ (c.loggedIn => Makes(c, m, Details))
         /\ IsClient(l)
         /\ link = NoOne => l = m
         /\ link # NoOne => /\ Only(m, l, {"loggedIn", "user", "failed", "saved"})
                            /\ l.loggedIn /\ l.user = link
         /\ Grows(l, d, Range(Fetches(l)))
         /\ l.loggedIn => \A f \in Range(Fetches(l)) : Makes(l, d, f)
         /\ l.loggedIn /\ ~c.loggedIn => Makes(l, d, Details)
  BY <1>1 DEF Loads
<1>3. /\ IsClient(c) /\ DOMAIN c.net = {} /\ c.logouts = 0 /\ c.loggedIn = (saved # NoOne)
      /\ c.user = saved
  BY <1>1 DEF Starts
<1>4. Orderly(m) /\ Waits(m)
  BY <1>2, <1>3, OrderlyIdle, OrderlyGrows DEF Idle
<1>5. Same(c, m) /\ m.feed = c.feed
  BY <1>2 DEF Grows
<1>6. OnlyDetails(m)
  <2> SUFFICES ASSUME NEW i \in DOMAIN m.net
               PROVE  m.net[i].op \in {"details", "moreDetails"} /\ m.net[i].phase = "sent"
    BY DEF OnlyDetails
  <2>1. Asked(c, m.net[i], {})
    BY <1>2, <1>3 DEF Grows, Extends
  <2> QED
    BY <2>1 DEF Asked, Request
<1>7. /\ l.net = m.net /\ l.at = at /\ l.arg = <<>> /\ l.view = Fresh /\ l.feed = NoFeed
      /\ l.courses = <<>> /\ l.details = Unknown /\ l.logouts = 0
  <2>1. /\ m.at = at /\ m.arg = <<>> /\ m.view = Fresh /\ m.feed = NoFeed
        /\ m.courses = <<>> /\ m.details = Unknown /\ m.logouts = 0
    BY <1>1, <1>5 DEF Starts, Same
  <2> QED
    BY <1>2, <2>1 DEF Only, ClientFields
<1>8. Orderly(l) /\ Waits(l)
  <2>1. CASE link = NoOne
    BY <1>2, <1>4, <2>1
  <2>2. CASE link # NoOne /\ link = saved
    <3>1. l.user = m.user /\ m.logouts = 0
      BY <1>2, <1>3, <1>5, <2>2 DEF Same
    <3> QED
      BY <1>4, <1>7, <3>1, OrderlySame
  <2>3. CASE saved = NoOne
    <3>1. DOMAIN m.net = {}
      BY <1>2, <1>3, <2>3, NothingAsked
    <3> QED
      BY <1>7, <3>1, OrderlyIdle DEF Idle
  <2> QED
    BY <2>1, <2>2, <2>3
<1>9. Opened(l)
  BY <1>2, <1>6, <1>7, <1>8 DEF Opened, OnlyDetails
<1>10. ASSUME l.loggedIn PROVE \E i \in DOMAIN d.net : d.net[i].op = "details"
  <2>1. CASE ~c.loggedIn
    BY <1>2, <1>10, <2>1, AsksDetails
  <2>2. CASE c.loggedIn
    <3>1. PICK i \in DOMAIN l.net : l.net[i].op = "details"
      BY <1>2, <1>7, <2>2, AsksDetails
    <3>2. i \in DOMAIN d.net /\ d.net[i] = l.net[i]
      BY <1>2, <3>1 DEF Grows, Extends
    <3> QED
      BY <3>1, <3>2
  <2> QED
    BY <2>1, <2>2
<1> QED
  BY <1>2, <1>9, <1>10 DEF Opens

LEMMA OpensInOrder ==
    ASSUME NEW d, Opens(d) PROVE Orderly(d)
<1>1. PICK l : Opened(l) /\ Grows(l, d, Range(Fetches(l)))
  BY DEF Opens
<1> QED
  BY <1>1, OrderlyGrows DEF Opened

\* Nothing of the page before is left.
LEMMA NothingBefore ==
    ASSUME NEW c, IsClient(c), NEW d, d = [c EXCEPT !.net = <<>> \o @] PROVE Only(c, d, {})
<1> DEFINE S == {c.net[i] : i \in 1..Len(c.net)}
<1>1. c.net \in Seq(S)
  BY SequenceIsSeq DEF IsClient, IsNet
<1> HIDE DEF S
<1>2. <<>> \o c.net = c.net
  BY <1>1
<1>3. DOMAIN d = ClientFields /\ \A p \in ClientFields : d[p] = c[p]
  BY <1>2 DEF IsClient, ClientFields
<1>4. {} \in SUBSET Loose
  OBVIOUS
<1> QED
  BY <1>3, <1>4, LooseOnly

LEMMA SameOpens ==
    ASSUME NEW c, Opens(c), NEW d, Only(c, d, {}) PROVE Opens(d)
<1>1. /\ IsClient(d) /\ d.net = c.net /\ d.shown = c.shown /\ d.feed = c.feed
      /\ d.loggedIn = c.loggedIn /\ d.user = c.user /\ d.failed = c.failed
      /\ d.details = c.details /\ d.courses = c.courses /\ d.cup = c.cup
      /\ d.logouts = c.logouts /\ d.hub = c.hub /\ d.saved = c.saved
      /\ d.at = c.at /\ d.arg = c.arg /\ d.view = c.view
  BY DEF Only, ClientFields
<1>2. PICK l : /\ Opened(l) /\ Grows(l, c, Range(Fetches(l)))
               /\ l.loggedIn => \A f \in Range(Fetches(l)) : Makes(l, c, f)
               /\ l.loggedIn => \E i \in DOMAIN c.net : c.net[i].op = "details"
  BY DEF Opens
<1>3. Grows(l, d, Range(Fetches(l)))
  BY <1>1, <1>2 DEF Grows, Same, Extends, ShowsLess, OnceTheFeed
<1>4. \A f : Makes(l, c, f) => Makes(l, d, f)
  BY <1>1 DEF Makes
<1> QED
  BY <1>1, <1>2, <1>3, <1>4 DEF Opens

LEMMA LoadPageOpens ==
    ASSUME IsClient(app), Session(app), NEW at, NEW link \in Users \cup {NoOne},
           LoadPage(at, link), calm'
    PROVE  Opens(app') /\ UNCHANGED db
<1> DEFINE old == [i \in DOMAIN Sent |-> [Sent[i] EXCEPT !.page = FALSE]]
           d == Load(app.saved, at, link)
<1>1. /\ UNCHANGED db /\ at \notin {"/year", "/users", "/tournament"}
      /\ app' = [d EXCEPT !.net = old \o @]
      /\ Sent = <<>> /\ (link \in {NoOne, app.saved} \/ app.saved = NoOne)
  BY DEF LoadPage
<1>2. old = <<>>
  BY <1>1
<1>3. Opens(d)
  BY <1>1, LoadOpens DEF Session
<1> HIDE DEF d, old
<1>4. IsClient(d)
  BY <1>3 DEF Opens, Grows
<1>5. app' = [d EXCEPT !.net = <<>> \o @]
  BY <1>1, <1>2
<1>6. Only(d, app', {})
  BY <1>4, <1>5, NothingBefore
<1> QED
  BY <1>1, <1>3, <1>6, SameOpens

-----------------------------------------------------------------------------
(* The steps of a person who waits for the answers, and of the world around. *)

OrderInv == EditsInv /\ (calm => Orderly(app))

LEMMA OrderIs ==
    ASSUME OrderInv, calm PROVE Orderly(app) /\ IsClient(app) /\ Session(app) /\ IsDb(db)
BY DEF OrderInv, EditsInv, Sound, SoundDb

LEMMA InitOpens == Init => Opens(app)
<1> SUFFICES ASSUME Init PROVE Opens(app)
  OBVIOUS
<1>1. PICK saved \in Users \cup {NoOne}, at \in visit.pages \ {"/year", "/users", "/tournament"} :
         app = Load(saved, at, NoOne)
  BY DEF Init
<1> QED
  BY <1>1, LoadOpens

\* The steps after which nothing has failed or been done early.
CalmStep ==
    \/ UNCHANGED <<app, db>>
    \/ \E i \in DOMAIN app.net : Serve(i)
    \/ \E i \in DOMAIN app.net, n \in Ids : Answer(i, n)
    \/ LogoutTimer
    \/ Only(app, app', {"notes", "alarms"}) /\ UNCHANGED db
    \/ Idle(app) /\ UNCHANGED db /\ (Deed \/ AsksOne(app, app'))
    \/ /\ Idle(app)
       /\ \E u \in Users, b \in BOOLEAN :
             /\ Knows(db, db', u, b)
             /\ IF app.hub = u THEN Tells(app, app', b) ELSE app' = app

LEMMA StepsAre ==
    ASSUME EditsInv, [Next]_vars, calm' PROVE (Opens(app') /\ UNCHANGED db) \/ (calm /\ CalmStep)
<1>0. IsClient(app) /\ Session(app) /\ IsDb(db)
  BY DEF EditsInv, Sound, SoundDb
<1>1. CASE UNCHANGED vars
  BY <1>1 DEF vars, CalmStep
<1>2. ASSUME NEW i \in DOMAIN app.net,
             \/ Serve(i)
             \/ \E phase \in {"error", "denied", "lost"} : Fail(i, phase)
             \/ \E n \in Ids : Answer(i, n)
      PROVE  calm /\ CalmStep
  BY <1>2 DEF CalmStep, Serve, Fail, Answer
<1>3. CASE LogoutTimer
  BY <1>3 DEF CalmStep, LogoutTimer
<1>4. ASSUME NEW n \in Ids, ExpireNotification(n) PROVE calm /\ CalmStep
  <2>1. Only(app, app', {"notes", "alarms"}) /\ UNCHANGED <<db, calm>>
    BY <1>0, <1>4, ExpiryIs
  <2> QED
    BY <2>1 DEF CalmStep
<1>5. CASE Does
  <2>1. calm /\ Idle(app)
    BY <1>0, <1>5, CalmIsIdle DEF Does
  <2> QED
    BY <1>5, <2>1 DEF CalmStep, Does
<1>6. CASE SaveAndNext
  <2>1. AsksOne(app, app') /\ UNCHANGED db /\ calm' = (calm /\ ~InFlight)
    BY <1>0, <1>6, SaveIs
  <2>2. calm /\ Idle(app)
    BY <1>0, <2>1, CalmIsIdle
  <2> QED
    BY <2>1, <2>2 DEF CalmStep
<1>7. ASSUME NEW at, NEW link \in Users \cup {NoOne}, LoadPage(at, link)
      PROVE  Opens(app') /\ UNCHANGED db
  BY <1>0, <1>7, LoadPageOpens
<1>8. ASSUME NEW u \in Users, RoundStarts(u) \/ RoundDeleted(u) PROVE calm /\ CalmStep
  <2>1. /\ calm' = (calm /\ ~InFlight)
        /\ \E b \in BOOLEAN :
             /\ Knows(db, db', u, b)
             /\ IF app.hub = u THEN Tells(app, app', b) ELSE app' = app
    BY <1>0, <1>8, RoundsAre
  <2>2. calm /\ Idle(app)
    BY <1>0, <2>1, CalmIsIdle
  <2> QED
    BY <2>1, <2>2 DEF CalmStep
<1>9. CASE Person \/ HubLost
  BY <1>0, <1>5, <1>6, <1>7, <1>9, PersonDoes
<1> QED
  BY <1>1, <1>2, <1>3, <1>4, <1>8, <1>9 DEF Next

LEMMA NextKeepsOrder ==
    ASSUME OrderInv, [Next]_vars PROVE OrderInv'
<1>1. EditsInv /\ EditsInv'
  BY NextKeepsEdits DEF OrderInv
<1> SUFFICES ASSUME calm' PROVE Orderly(app')
  BY <1>1 DEF OrderInv
<1>2. CASE Opens(app')
  BY <1>2, OpensInOrder
<1>3. CASE calm /\ CalmStep
  <2>0. Orderly(app) /\ IsClient(app)
    BY <1>3, OrderIs
  <2>1. CASE UNCHANGED <<app, db>>
    BY <2>0, <2>1
  <2>2. ASSUME NEW i \in DOMAIN app.net, Serve(i) PROVE Orderly(app')
    BY <2>0, <2>2, ServeKeepsOrder
  <2>3. ASSUME NEW i \in DOMAIN app.net, NEW n \in Ids, Answer(i, n) PROVE Orderly(app')
    BY <2>0, <2>3, AnswerKeepsOrder
  <2>4. CASE LogoutTimer
    BY <2>0, <2>4, TimerKeepsOrder
  <2>5. CASE Only(app, app', {"notes", "alarms"})
    BY <2>0, <2>5, OrderlyOnly
  <2>6. CASE Idle(app) /\ (Deed \/ AsksOne(app, app'))
    BY <2>0, <2>6, DoesKeepsOrder, AsksOneInOrder
  <2>7. CASE /\ Idle(app)
             /\ \E u \in Users, b \in BOOLEAN :
                   /\ Knows(db, db', u, b)
                   /\ IF app.hub = u THEN Tells(app, app', b) ELSE app' = app
    BY <2>0, <2>7, IdleWaits, TellsInOrder
  <2> QED
    BY <1>3, <2>1, <2>2, <2>3, <2>4, <2>5, <2>6, <2>7 DEF CalmStep
<1> QED
  BY <1>1, <1>2, <1>3, StepsAre

-----------------------------------------------------------------------------
(* What an answer leads to.                                                  *)

\* Nothing but queries of other pages than the front page.
Away(c) ==
    /\ IsClient(c) /\ c.at # "/"
    /\ \A i \in DOMAIN c.net : c.net[i].op \in Background \ {"feed"} /\ c.net[i].phase = "sent"
\* The front page, for somebody who was on another one.
Arrives(d) ==
    /\ IsClient(d) /\ d.at = "/" /\ d.view.feed = 1 /\ ~d.feed.loaded
    /\ \A i \in DOMAIN d.net : d.net[i].op \in Background /\ d.net[i].phase = "sent"
    /\ \E i \in DOMAIN d.net : d.net[i].op = "details"
    /\ \E k \in DOMAIN d.net : /\ d.net[k].op = "feed" /\ d.net[k].arg = << 1 >>
                               /\ \A i \in DOMAIN d.net : d.net[i].op = "feed" => i = k
Receives(c, r, d, n) ==
    /\ r.op \in Requests \ Turning /\ r.phase = "ok"
    /\ \E b : b = Reduced(c, r, n) /\ Only(c, b, Parts(r.op)) /\ Grows(b, d, {})
IsRefused(c, r, d) ==
    /\ r.op \in {"updateCourse", "addCourse"} /\ r.phase = "error"
    /\ Only(c, d, {"notes", "alarms", "cup"}) /\ (r.op = "updateCourse" => d.cup = c.cup)
TurnsToCup(c, r, d) ==
    /\ r.op = "createTournament" /\ r.phase = "ok" /\ Idle(c) /\ c.loggedIn
    /\ c.at # "/tournament" /\ Goes(c, d, "/tournament", <<r.data>>)
Leads(c, r, d, n) ==
    \/ ~d.loggedIn
    \/ Arrives(d)
    \/ Receives(c, r, d, n)
    \/ IsRefused(c, r, d)
    \/ TurnsToCup(c, r, d)

LEMMA NoFeedElsewhere ==
    ASSUME NEW c, NEW a, IsClient(a), a.at # "/" PROVE NoFeedIn(EffectsOf(c, a))
<1>1. \A f \in Range(Fetches(a)) : f.op # "feed"
  <2>1. CASE Fetches(a) = <<>>
    BY <2>1 DEF Range
  <2>2. CASE \E f : /\ Normal(a, f) /\ Fetches(a) = <<f>>
                    /\ f.op = "feed" => a.at = "/" /\ a.loggedIn
    BY <2>2 DEF Range
  <2>3. CASE \E f, g : /\ Normal(a, f) /\ Normal(a, g) /\ f.op = "yearSummary"
                       /\ g.op = "previousYear" /\ Fetches(a) = <<f, g>>
    <3>1. PICK f, g : f.op = "yearSummary" /\ g.op = "previousYear" /\ Fetches(a) = <<f, g>>
      BY <2>3
    <3>2. Range(Fetches(a)) = {f, g}
      BY <3>1 DEF Range
    <3> QED
      BY <3>1, <3>2
  <2> QED
    BY <2>1, <2>2, <2>3, FetchesFacts
<1> QED
  BY <1>1 DEF EffectsOf, NoFeedIn

LEMMA AwayGrows ==
    ASSUME NEW c, Away(c), NEW d, NEW F, Grows(c, d, F), NoFeedIn(F) PROVE Away(d)
<1>1. IsClient(d) /\ d.at = c.at /\ Extends(c, d, F)
  BY DEF Grows, Same
<1> SUFFICES ASSUME NEW i \in DOMAIN d.net
             PROVE  d.net[i].op \in Background \ {"feed"} /\ d.net[i].phase = "sent"
  BY <1>1 DEF Away
<1>2. CASE i \in DOMAIN c.net
  BY <1>1, <1>2 DEF Extends, Away
<1>3. CASE i \notin DOMAIN c.net
  <2>1. Asked(c, d.net[i], F)
    BY <1>1, <1>3 DEF Extends
  <2>2. d.net[i].phase = "sent" /\ d.net[i].op \in Background
    BY <2>1 DEF Asked, Request
  <2>3. d.net[i].op # "feed"
    <3> SUFFICES ASSUME d.net[i].op = "feed" PROVE FALSE
      OBVIOUS
    <3>1. Fetch("feed", d.net[i].arg) \in F
      BY <2>1 DEF Asked
    <3> QED
      BY <3>1 DEF NoFeedIn, Fetch
  <2> QED
    BY <2>2, <2>3
<1> QED
  BY <1>2, <1>3

LEMMA LoggedInAway ==
    ASSUME NEW c, IsClient(c), Idle(c), c.at # "/", NEW u \in Users, NEW d, d = LoggedIn(c, u)
    PROVE  Away(d) /\ d.loggedIn
<1>1. LogsIn(c, u, d)
  BY LoggedInIs
<1>2. PICK b, a, m :
         /\ Only(c, b, {"loggedIn", "user", "failed"}) /\ b.loggedIn
         /\ Looks(b, a, a.view) /\ Grows(a, m, EffectsOf(c, a)) /\ Only(m, d, {"saved"})
  BY <1>1 DEF LogsIn
<1>3. a.net = c.net /\ a.at = c.at /\ IsClient(a) /\ a.loggedIn
  BY <1>2 DEF Only, ClientFields, Looks
<1>4. Away(a)
  BY <1>3 DEF Away, Idle
<1>5. Away(m)
  BY <1>2, <1>3, <1>4, AwayGrows, NoFeedElsewhere
<1>6. m.loggedIn
  BY <1>2, <1>3 DEF Grows, Same
<1>7. d.net = m.net /\ d.at = m.at /\ IsClient(d) /\ d.loggedIn = m.loggedIn
  BY <1>2 DEF Only, ClientFields
<1> QED
  BY <1>5, <1>6, <1>7 DEF Away

LEMMA HomeArrives ==
    ASSUME NEW c, Away(c), c.loggedIn, NEW d, d = Push(c, "/", <<>>) PROVE Arrives(d)
<1>1. Addressed("/", <<>>) /\ IsClient(c)
  BY DEF Addressed, Away
<1>2. Goes(c, d, "/", <<>>)
  BY <1>1, GoesIs
<1>3. PICK a : Elsewhere(c, a, "/", <<>>) /\ Shown(c, a, d) /\ Makes(a, d, Details)
  BY <1>2 DEF Goes
<1>4. a.at = "/" /\ a.loggedIn /\ a.view = Fresh /\ a.net = c.net /\ c.at # "/"
  BY <1>3 DEF Elsewhere, Away
<1> DEFINE f == Fetch("feed", << 1 >>)
<1>5. Fetches(a) = <<f>>
  BY <1>4 DEF Fetches, Fresh
<1>6. EffectsOf(c, a) = {f}
  BY <1>4, <1>5 DEF EffectsOf, Range
<1>7. Grows(a, d, {f}) /\ Makes(a, d, f)
  BY <1>3, <1>6 DEF Shown
<1>8. PICK k \in DOMAIN d.net \ DOMAIN a.net :
         d.net[k].op = "feed" /\ d.net[k].arg = << 1 >> /\ ~d.feed.loaded
  BY <1>7 DEF Makes, Fetch
<1>9. ASSUME NEW i \in DOMAIN d.net
      PROVE  /\ d.net[i].op \in Background /\ d.net[i].phase = "sent"
             /\ d.net[i].op = "feed" => i = k
  <2>1. CASE i \in DOMAIN a.net
    BY <1>4, <1>7, <2>1 DEF Grows, Extends, Away
  <2>2. CASE i \notin DOMAIN a.net
    <3>1. Asked(a, d.net[i], {f})
      BY <1>7, <2>2 DEF Grows, Extends
    <3>2. d.net[i].op \in Background /\ d.net[i].phase = "sent"
      BY <3>1 DEF Asked, Request
    <3>3. d.net[i].op = "feed" => i = k
      BY <1>7, <1>8, <2>2 DEF Grows, OnceTheFeed
    <3> QED
      BY <3>2, <3>3
  <2> QED
    BY <2>1, <2>2
<1>10. \E i \in DOMAIN d.net : d.net[i].op = "details"
  BY <1>3, AsksDetails
<1>11. IsClient(d) /\ d.at = "/" /\ d.view.feed = 1
  BY <1>4, <1>7 DEF Grows, Same, Fresh
<1> QED
  BY <1>8, <1>9, <1>10, <1>11 DEF Arrives

\* The request and the client that takes it.
Took(c, i) ==
    /\ Takes(app, c, i) /\ IsClient(c) /\ Orderly(c) /\ Waits(c)
    /\ app.net[i].op \notin Background => Idle(c)

LEMMA AnswerLeads ==
    ASSUME IsClient(app), Orderly(app), NEW i \in DOMAIN app.net, NEW n, Answer(i, n)
    PROVE  UNCHANGED <<db, calm>> /\ \E c : Took(c, i) /\ Leads(c, app.net[i], app', n)
<1> DEFINE r == app.net[i]
<1>1. UNCHANGED <<db, calm>> /\ \E c : Takes(app, c, i) /\ AnswersTo(r, c, app', n)
  BY AnswerIs
<1>2. PICK c : Takes(app, c, i) /\ AnswersTo(r, c, app', n)
  BY <1>1
<1>3. Took(c, i)
  BY <1>2, OrderlyTakes DEF Took, Takes, Only
<1>4. IsRequest(r) /\ IsClient(c) /\ c.at = app.at
  BY <1>2, <1>3 DEF IsClient, IsNet, Took, Takes, Only, ClientFields
<1>5. InTime(c, r) /\ (r.op \in Turning => Idle(c)) /\ (r.op \in {"login", "createUser"} => r.arg[1] \in Users)
  <2>1. c.user = app.user
    BY <1>2 DEF Takes, Only, ClientFields
  <2>2. InTime(app, r)
    BY DEF Orderly
  <2>3. InTime(c, r)
    BY <1>4, <2>1, <2>2 DEF InTime
  <2>4. r.op \in Turning => r.op \notin Background
    BY BackgroundIs
  <2> QED
    BY <1>3, <1>4, <2>3, <2>4 DEF Took, IsRequest
<1> HIDE DEF r
<1>6. CASE r.phase = "ok" /\ app' = Succeeded(c, r, n) /\ r.op \in Requests \ Turning
  <2> DEFINE b == Reduced(c, r, n)
  <2>1. Only(c, b, Parts(r.op)) /\ Grows(b, app', {})
    BY <1>4, <1>6, SucceededIs
  <2> HIDE DEF b
  <2>2. Receives(c, r, app', n)
    BY <1>6, <2>1 DEF Receives, b
  <2> QED
    BY <1>1, <1>3, <2>2 DEF Leads, r
<1>7. CASE r.phase = "ok" /\ app' = Succeeded(c, r, n) /\ r.op \in {"login", "createUser"}
  <2> DEFINE e == LoggedIn(c, r.arg[1])
             f == Asks(e, "details", <<>>)
  <2>1. app' = Push(e, "/", <<>>) \/ app' = Push(f, "/", <<>>)
    BY <1>7, TurningIs
  <2>2. c.at # "/" /\ Idle(c) /\ r.arg[1] \in Users
    BY <1>5, <1>7 DEF InTime, Turning
  <2>3. Away(e) /\ e.loggedIn
    BY <1>4, <2>2, LoggedInAway
  <2> HIDE DEF e
  <2>4. Grows(e, f, {})
    BY <2>3, AskingGrows DEF Background, Away
  <2> HIDE DEF f
  <2>7. NoFeedIn({})
    BY DEF NoFeedIn
  <2>8. Away(f)
    BY <2>3, <2>4, <2>7, AwayGrows
  <2>5. Away(f) /\ f.loggedIn
    BY <2>3, <2>4, <2>8 DEF Grows, Same
  <2>6. Arrives(app')
    BY <2>1, <2>3, <2>5, HomeArrives
  <2> QED
    BY <1>1, <1>3, <2>6 DEF Leads, r
<1>8. CASE r.phase = "ok" /\ app' = Succeeded(c, r, n) /\ r.op = "setPassword"
  <2> DEFINE e == showNotification(c, n)
  <2>1. app' = Push(e, "/", <<>>)
    BY <1>8, TurningIs
  <2>2. c.at # "/" /\ Idle(c)
    BY <1>5, <1>8 DEF InTime, Turning
  <2>3. Only(c, e, {"notes", "alarms"})
    BY <1>4, Notified
  <2> HIDE DEF e
  <2>4. IsClient(e) /\ e.net = c.net /\ e.at = c.at
    BY <2>3 DEF Only, ClientFields
  <2>5. Away(e)
    BY <2>2, <2>4 DEF Away, Idle
  <2>6. CASE e.loggedIn
    <3>1. Arrives(app')
      BY <2>1, <2>5, <2>6, HomeArrives
    <3> QED
      BY <1>1, <1>3, <3>1 DEF Leads, r
  <2>7. CASE ~e.loggedIn
    <3> DEFINE a == Turned(e, "/", <<>>)
    <3>1. Addressed("/", <<>>)
      BY DEF Addressed
    <3>2. Grows(a, app', EffectsOf(e, a)) /\ a.loggedIn = e.loggedIn
      BY <2>1, <2>4, <3>1, PushGrows, TurnedIs
    <3>3. ~app'.loggedIn
      BY <2>7, <3>2 DEF Grows, Same
    <3> QED
      BY <1>1, <1>3, <3>3 DEF Leads, r
  <2> QED
    BY <2>6, <2>7
<1>9. CASE r.phase = "ok" /\ app' = Succeeded(c, r, n) /\ r.op = "createTournament"
  <2> DEFINE arg == <<r.data>>
  <2>1. app' = Push(c, "/tournament", arg) /\ Addressed("/tournament", arg)
    BY <1>9, TurningIs DEF Addressed, Single
  <2> HIDE DEF arg
  <2>2. Idle(c) /\ c.at # "/tournament"
    BY <1>5, <1>9 DEF InTime, Turning
  <2>3. CASE c.loggedIn
    <3>1. Goes(c, app', "/tournament", arg)
      BY <1>4, <2>1, <2>3, GoesIs
    <3>2. TurnsToCup(c, r, app')
      BY <1>9, <2>2, <2>3, <3>1 DEF TurnsToCup, arg
    <3> QED
      BY <1>1, <1>3, <3>2 DEF Leads, r
  <2>4. CASE ~c.loggedIn
    <3> DEFINE a == Turned(c, "/tournament", arg)
    <3>1. Grows(a, app', EffectsOf(c, a)) /\ a.loggedIn = c.loggedIn
      BY <1>4, <2>1, PushGrows, TurnedIs
    <3>2. ~app'.loggedIn
      BY <2>4, <3>1 DEF Grows, Same
    <3> QED
      BY <1>1, <1>3, <3>2 DEF Leads, r
  <2> QED
    BY <2>3, <2>4
<1>10. CASE r.phase = "error" /\ r.op \in Refusable /\ app' = Failed(c, r, n)
  <2>1. CASE r.op \in {"updateCourse", "addCourse"}
    <3>1. IsRefused(c, r, app')
      BY <1>4, <1>10, <2>1, RefusedIs DEF IsRefused
    <3> QED
      BY <1>1, <1>3, <3>1 DEF Leads, r
  <2>2. CASE r.op \in {"login", "createUser"}
    <3> DEFINE b == LoginFailed(c)
               e == Dispatch(c, b)
    <3>1. app' = LogoutSoon(e)
      BY <1>10, <2>2 DEF Failed
    <3>2. Only(c, b, {"loggedIn", "failed"}) /\ ~b.loggedIn
      BY <1>4, LoggingOutKnown
    <3> HIDE DEF b
    <3>3. IsClient(b)
      BY <3>2 DEF Only
    <3> DEFINE a == Adjusted(c, b)
    <3>4. Grows(a, e, EffectsOf(c, a)) /\ a.loggedIn = b.loggedIn
      BY <3>3, DispatchGrows, AdjustedIs DEF Looks
    <3> HIDE DEF e
    <3>5. IsClient(e) /\ ~e.loggedIn
      BY <3>2, <3>4 DEF Grows, Same
    <3>6. Only(e, app', {"logouts"})
      BY <3>1, <3>5, LogoutSoonIs
    <3>7. ~app'.loggedIn
      BY <3>5, <3>6 DEF Only, ClientFields
    <3> QED
      BY <1>1, <1>3, <3>7 DEF Leads, r
  <2> QED
    BY <1>10, <2>1, <2>2 DEF Refusable
<1> QED
  BY <1>2, <1>4, <1>6, <1>7, <1>8, <1>9, <1>10 DEF AnswersTo, IsRequest, Turning

\* A step after which somebody is logged in.
TellsIn(c, d, b) ==
    \E e, m : /\ Only(c, e, {"details"}) /\ e.details = [c.details EXCEPT !.active = b]
              /\ Grows(e, m, {}) /\ c.loggedIn /\ m.loggedIn /\ Idle(c)
              /\ Only(m, d, {"notes", "alarms"}) \/ Goes(m, d, "/", <<>>)
Heard(u) ==
    /\ Idle(app) /\ app.loggedIn
    /\ \E b \in BOOLEAN : /\ Knows(db, db', u, b)
                          /\ IF app.hub = u THEN TellsIn(app, app', b) ELSE app' = app
Answered(i, n) ==
    \E c : /\ Took(c, i) /\ UNCHANGED db
           /\ \/ Arrives(app')
              \/ c.loggedIn /\ Receives(c, app.net[i], app', n)
              \/ c.loggedIn /\ IsRefused(c, app.net[i], app')
              \/ TurnsToCup(c, app.net[i], app')
Member ==
    \/ UNCHANGED <<app, db>>
    \/ \E i \in DOMAIN app.net : Serve(i) /\ app.loggedIn
    \/ \E i \in DOMAIN app.net, n \in Ids : Answered(i, n)
    \/ Only(app, app', {"notes", "alarms"}) /\ UNCHANGED db
    \/ Idle(app) /\ UNCHANGED db /\ app.loggedIn /\ Doing(app, app')
    \/ \E u \in Users : Heard(u)

LEMMA PushKeepsLogin ==
    ASSUME NEW c, IsClient(c), NEW at, NEW arg, Addressed(at, arg), NEW d, d = Push(c, at, arg)
    PROVE  d.loggedIn = c.loggedIn
<1> DEFINE a == Turned(c, at, arg)
<1>1. Grows(a, d, EffectsOf(c, a)) /\ a.loggedIn = c.loggedIn
  BY PushGrows, TurnedIs
<1> QED
  BY <1>1 DEF Grows, Same

LEMMA TellsMember ==
    ASSUME NEW c, IsClient(c), Idle(c), NEW d, d.loggedIn, NEW b, Tells(c, d, b)
    PROVE  c.loggedIn /\ TellsIn(c, d, b)
<1>1. PICK e, m : /\ Only(c, e, {"details"}) /\ e.details = [c.details EXCEPT !.active = b]
                  /\ Grows(e, m, {})
                  /\ Only(m, d, {"notes", "alarms"}) \/ d = Push(m, "/", <<>>)
  BY DEF Tells
<1>2. IsClient(m) /\ m.loggedIn = c.loggedIn
  BY <1>1 DEF Grows, Same, Only, ClientFields
<1>3. Addressed("/", <<>>)
  BY DEF Addressed
<1>4. d.loggedIn = m.loggedIn
  <2>1. CASE Only(m, d, {"notes", "alarms"})
    BY <2>1 DEF Only, ClientFields
  <2>2. CASE d = Push(m, "/", <<>>)
    BY <1>2, <1>3, <2>2, PushKeepsLogin
  <2> QED
    BY <1>1, <2>1, <2>2
<1>5. Only(m, d, {"notes", "alarms"}) \/ Goes(m, d, "/", <<>>)
  BY <1>1, <1>2, <1>3, <1>4, GoesIs
<1> QED
  BY <1>1, <1>2, <1>4, <1>5 DEF TellsIn

LEMMA MemberIs ==
    ASSUME OrderInv, calm, CalmStep, app'.loggedIn PROVE Member
<1>0. Orderly(app) /\ IsClient(app)
  BY OrderIs
<1>1. CASE UNCHANGED <<app, db>>
  BY <1>1 DEF Member
<1>2. ASSUME NEW i \in DOMAIN app.net, Serve(i) PROVE Member
  <2>1. app.loggedIn
    <3>1. PICK q : Changes(app, app', i, q)
      BY <1>0, <1>2, ServeIs
    <3> QED
      BY <3>1 DEF Changes, Only, ClientFields
  <2> QED
    BY <1>2, <2>1 DEF Member
<1>3. ASSUME NEW i \in DOMAIN app.net, NEW n \in Ids, Answer(i, n) PROVE Member
  <2>1. UNCHANGED <<db, calm>> /\ \E c : Took(c, i) /\ Leads(c, app.net[i], app', n)
    BY <1>0, <1>3, AnswerLeads
  <2>2. PICK c : Took(c, i) /\ Leads(c, app.net[i], app', n)
    BY <2>1
  <2>3. Receives(c, app.net[i], app', n) => c.loggedIn
    BY DEF Receives, Grows, Same, Only, ClientFields, Parts
  <2>4. IsRefused(c, app.net[i], app') => c.loggedIn
    BY DEF IsRefused, Only, ClientFields
  <2>5. Answered(i, n)
    BY <2>1, <2>2, <2>3, <2>4 DEF Leads, Answered
  <2> QED
    BY <2>5 DEF Member
<1>4. CASE LogoutTimer
  <2>1. PICK e : Grows(e, app', {}) /\ ~e.loggedIn
    BY <1>0, <1>4, TimerQuiet
  <2> QED
    BY <2>1 DEF Grows, Same
<1>5. CASE Only(app, app', {"notes", "alarms"}) /\ UNCHANGED db
  BY <1>5 DEF Member
<1>6. CASE Idle(app) /\ UNCHANGED db /\ (Deed \/ AsksOne(app, app'))
  <2>1. CASE Deed
    BY <1>0, <1>6, <2>1, DoesIs DEF Member
  <2>2. CASE AsksOne(app, app')
    <3>1. app'.loggedIn = app.loggedIn
      BY <2>2 DEF AsksOne, OtherHole, Looks, Appends, Same
    <3> QED
      BY <1>6, <2>2, <3>1 DEF Member, Doing
  <2> QED
    BY <1>6, <2>1, <2>2
<1>7. ASSUME NEW u \in Users, NEW b \in BOOLEAN, Idle(app), Knows(db, db', u, b),
             IF app.hub = u THEN Tells(app, app', b) ELSE app' = app
      PROVE  Member
  <2>1. app.loggedIn /\ (app.hub = u => TellsIn(app, app', b))
    BY <1>0, <1>7, TellsMember
  <2>2. Heard(u)
    BY <1>7, <2>1 DEF Heard
  <2> QED
    BY <2>2 DEF Member
<1> QED
  BY <1>1, <1>2, <1>3, <1>4, <1>5, <1>6, <1>7 DEF CalmStep

-----------------------------------------------------------------------------
(* Pages show what they ask for.                                             *)

\* What f asks for is shown, or under way, and nothing else in its place.
AsAsked(c, f) ==
    /\ \A i \in DOMAIN c.net : c.net[i].op = f.op => c.net[i].arg = f.arg
    /\ c.shown[f.op] = f.arg \/ \E i \in DOMAIN c.net : c.net[i].op = f.op
PagesOK(c) ==
    \A f \in Range(Fetches(c)) : f.op \in DOMAIN NothingShown => AsAsked(c, f)

\* The requests for op are the same in c and d, and so is what is shown of it.
Alike(c, d, op) ==
    /\ d.shown[op] = c.shown[op]
    /\ \A i \in DOMAIN d.net : d.net[i].op = op =>
          \E j \in DOMAIN c.net : c.net[j].op = op /\ c.net[j].arg = d.net[i].arg
    /\ \A j \in DOMAIN c.net : c.net[j].op = op => \E i \in DOMAIN d.net : d.net[i].op = op
AllAlike(c, d) == \A op \in DOMAIN NothingShown : Alike(c, d, op)

LEMMA AskedAlike ==
    ASSUME NEW c, NEW d, NEW f, AsAsked(c, f), Alike(c, d, f.op) PROVE AsAsked(d, f)
BY DEF AsAsked, Alike

LEMMA PagesAlike ==
    ASSUME NEW c, PagesOK(c), NEW d, Fetches(d) = Fetches(c), AllAlike(c, d)
    PROVE  PagesOK(d)
BY AskedAlike DEF PagesOK, AllAlike

LEMMA GrowsAlike ==
    ASSUME NEW c, c.loggedIn, NEW d, Grows(c, d, {})
    PROVE  AllAlike(c, d) /\ Fetches(d) = Fetches(c)
<1>1. Fetches(d) = Fetches(c)
  BY SamePageFetches DEF SamePage, Grows, Same
<1> SUFFICES ASSUME NEW op \in DOMAIN NothingShown PROVE Alike(c, d, op)
  BY <1>1 DEF AllAlike
<1>2. d.shown[op] = c.shown[op]
  BY DEF Grows, ShowsLess
<1>3. ASSUME NEW i \in DOMAIN d.net, d.net[i].op = op PROVE i \in DOMAIN c.net /\ d.net[i] = c.net[i]
  <2>1. CASE i \in DOMAIN c.net
    BY <2>1 DEF Grows, Extends
  <2>2. CASE i \notin DOMAIN c.net
    <3>1. Asked(c, d.net[i], {})
      BY <2>2 DEF Grows, Extends
    <3>2. d.net[i].op \in {"details", "moreDetails"}
      BY <3>1 DEF Asked
    <3> QED
      BY <1>3, <3>2 DEF NothingShown
  <2> QED
    BY <2>1, <2>2
<1>4. \A j \in DOMAIN c.net : j \in DOMAIN d.net /\ d.net[j] = c.net[j]
  BY DEF Grows, Extends
<1> QED
  BY <1>2, <1>3, <1>4 DEF Alike

LEMMA OnlyAlike ==
    ASSUME NEW c, NEW S, NEW d, Only(c, d, S),
           S \cap {"net", "shown", "loggedIn", "user", "at", "arg", "view"} = {}
    PROVE  AllAlike(c, d) /\ Fetches(d) = Fetches(c)
<1>1. d.net = c.net /\ d.shown = c.shown /\ SamePage(c, d)
  BY DEF Only, ClientFields, SamePage
<1> QED
  BY <1>1, SamePageFetches DEF AllAlike, Alike

LEMMA OtherHoleFetches ==
    ASSUME NEW c, NEW d, OtherHole(c, d) PROVE Fetches(d) = Fetches(c)
<1>1. /\ d.view.tab = c.view.tab /\ d.view.rounds = c.view.rounds /\ d.view.months = c.view.months
      /\ d.view.feed = c.view.feed /\ d.view.month = c.view.month
      /\ d.at = c.at /\ d.arg = c.arg /\ d.user = c.user /\ d.loggedIn = c.loggedIn
  BY DEF OtherHole, Looks, Fresh
<1>2. Owner(d) = Owner(c) /\ \A u : Whose(d, u) = Whose(c, u)
  BY <1>1 DEF Owner, Whose
<1>3. UserTabs(d) = UserTabs(c) /\ YearPage(d) = YearPage(c)
  BY <1>1, <1>2 DEF UserTabs, YearPage
<1> QED
  BY <1>1, <1>3 DEF Fetches

LEMMA MineIsNotShown ==
    ASSUME NEW op, NEW arg, NEW who, Mine(op, arg, who) PROVE op \notin DOMAIN NothingShown
BY DEF Mine, Allowed, AllowedFreely, NothingShown

LEMMA AsksOneAlike ==
    ASSUME NEW c, IsClient(c), NEW d, AsksOne(c, d) PROVE AllAlike(c, d) /\ Fetches(d) = Fetches(c)
<1>1. PICK a : /\ OtherHole(c, a)
               /\ \/ d = a
                  \/ \E op, arg, who : Mine(op, arg, who) /\ Appends(a, d, Request(op, arg, who))
  BY DEF AsksOne
<1>2. Fetches(a) = Fetches(c) /\ a.net = c.net /\ a.shown = c.shown
  BY <1>1, OtherHoleFetches DEF OtherHole, Looks
<1>3. CASE d = a
  BY <1>2, <1>3 DEF AllAlike, Alike
<1>4. ASSUME NEW op, NEW arg, NEW who, Mine(op, arg, who), Appends(a, d, Request(op, arg, who))
      PROVE  AllAlike(c, d) /\ Fetches(d) = Fetches(c)
  <2>1. op \notin DOMAIN NothingShown
    BY <1>4, MineIsNotShown
  <2>2. Fetches(d) = Fetches(a)
    BY <1>4, SamePageFetches DEF SamePage, Appends, Same
  <2> DEFINE r == Request(op, arg, who)
  <2>3. r.op = op
    BY DEF Request
  <2>4. PICK k : /\ k \notin DOMAIN a.net /\ DOMAIN d.net = DOMAIN a.net \cup {k} /\ d.net[k] = r
                 /\ \A i \in DOMAIN a.net : d.net[i] = a.net[i]
    BY <1>4 DEF Appends
  <2> HIDE DEF r
  <2>5. d.shown = a.shown
    BY <1>4 DEF Appends
  <2> QED
    BY <1>2, <2>1, <2>2, <2>3, <2>4, <2>5 DEF AllAlike, Alike
<1> QED
  BY <1>1, <1>3, <1>4

\* Pages without components that show an answer.
LEMMA PlainPages ==
    ASSUME NEW c, c.at \in {"/", "/tournament"} PROVE PagesOK(c)
<1>1. \A f \in Range(Fetches(c)) : f.op \in {"feed", "tournament"}
  <2>1. CASE c.at = "/" /\ c.loggedIn
    BY <2>1 DEF Fetches, Fetch, Range
  <2>2. CASE c.at = "/tournament"
    BY <2>2 DEF Fetches, Fetch, Range
  <2>3. CASE c.at = "/" /\ ~c.loggedIn
    BY <2>3 DEF Fetches, Range
  <2> QED
    BY <2>1, <2>2, <2>3
<1> QED
  BY <1>1 DEF PagesOK, NothingShown

\* A page asks for one thing of a kind.
LEMMA FetchesOnce ==
    ASSUME NEW c, IsClient(c), NEW f \in Range(Fetches(c)), NEW g \in Range(Fetches(c)), f.op = g.op
    PROVE  f = g /\ f = Fetch(f.op, f.arg) /\ f.op \in FetchOps
<1>1. CASE Fetches(c) = <<>>
  BY <1>1 DEF Range
<1>2. CASE \E h : Normal(c, h) /\ Fetches(c) = <<h>>
  BY <1>2 DEF Range, Normal
<1>3. CASE \E h, k : /\ Normal(c, h) /\ Normal(c, k) /\ h.op = "yearSummary"
                     /\ k.op = "previousYear" /\ Fetches(c) = <<h, k>>
  <2>1. PICK h, k : /\ Normal(c, h) /\ Normal(c, k) /\ h.op = "yearSummary"
                    /\ k.op = "previousYear" /\ Fetches(c) = <<h, k>>
    BY <1>3
  <2>2. Range(Fetches(c)) = {h, k}
    BY <2>1 DEF Range
  <2> QED
    BY <2>1, <2>2 DEF Normal
<1> QED
  BY <1>1, <1>2, <1>3, FetchesFacts

\* Effects that were run: d has asked for f.
LEMMA MadeAsked ==
    ASSUME NEW a, IsClient(a), NEW f \in Range(Fetches(a)), f.op \in DOMAIN NothingShown,
           NEW d, NEW F \in SUBSET Range(Fetches(a)), Grows(a, d, F), Makes(a, d, f),
           \A i \in DOMAIN a.net : a.net[i].op # f.op
    PROVE  AsAsked(d, f)
<1>1. ASSUME NEW i \in DOMAIN d.net, d.net[i].op = f.op PROVE d.net[i].arg = f.arg
  <2>1. Asked(a, d.net[i], F)
    BY <1>1 DEF Grows, Extends
  <2> DEFINE g == Fetch(d.net[i].op, d.net[i].arg)
  <2>2. d.net[i].op \notin {"details", "moreDetails"}
    BY <1>1 DEF NothingShown
  <2>3. g \in Range(Fetches(a)) /\ g.op = f.op /\ g.arg = d.net[i].arg
    BY <1>1, <2>1, <2>2 DEF Asked, Fetch
  <2> HIDE DEF g
  <2> QED
    BY <2>3, FetchesOnce
<1>2. d.shown[f.op] = f.arg \/ \E i \in DOMAIN d.net : d.net[i].op = f.op
  BY DEF Makes
<1> QED
  BY <1>1, <1>2 DEF AsAsked

\* Another page, or another view of the page, of somebody who waited.
LEMMA PagesShown ==
    ASSUME NEW c, PagesOK(c), Idle(c), c.loggedIn, NEW a, IsClient(a), a.net = c.net,
           a.loggedIn, c.at = a.at => \A op \in DOMAIN NothingShown : a.shown[op] = c.shown[op],
           NEW d, Shown(c, a, d)
    PROVE  PagesOK(d)
<1> DEFINE F == EffectsOf(c, a)
<1>1. Grows(a, d, F) /\ (\A f \in F : Makes(a, d, f)) /\ F \in SUBSET Range(Fetches(a))
  BY DEF Shown, EffectsOf
<1>2. Fetches(d) = Fetches(a)
  BY <1>1, SamePageFetches DEF Grows, Same, SamePage
<1>3. DOMAIN a.net = {}
  BY DEF Idle
<1> SUFFICES ASSUME NEW f \in Range(Fetches(a)), f.op \in DOMAIN NothingShown PROVE AsAsked(d, f)
  BY <1>2 DEF PagesOK
<1>4. CASE f \in F
  BY <1>1, <1>3, <1>4, MadeAsked
<1>5. CASE f \notin F
  <2>1. PICK g \in Range(Fetches(c)) : c.at = a.at /\ g.op = f.op /\ g.arg = f.arg
    BY <1>5 DEF EffectsOf
  <2>2. c.shown[f.op] = f.arg
    BY <2>1 DEF PagesOK, AsAsked, Idle
  <2>3. a.shown[f.op] = f.arg
    BY <2>1, <2>2
  <2>4. d.shown[f.op] = f.arg
    <3>1. CASE d.shown[f.op] = a.shown[f.op]
      BY <2>3, <3>1
    <3>2. CASE f.op = "previousYear" /\ d.shown[f.op] = <<>> /\ Fetch(f.op, <<>>) \in F
      <4> DEFINE h == Fetch(f.op, <<>>)
      <4>1. h \in Range(Fetches(a)) /\ h.op = f.op /\ h.arg = <<>>
        BY <1>1, <3>2 DEF Fetch
      <4> HIDE DEF h
      <4>2. h = f
        BY <4>1, FetchesOnce
      <4> QED
        BY <3>2, <4>1, <4>2
    <3> QED
      BY <1>1, <3>1, <3>2 DEF Grows, ShowsLess
  <2>5. ASSUME NEW i \in DOMAIN d.net, d.net[i].op = f.op PROVE d.net[i].arg = f.arg
    <3>1. Asked(a, d.net[i], F)
      BY <1>1, <1>3 DEF Grows, Extends
    <3> DEFINE g2 == Fetch(d.net[i].op, d.net[i].arg)
    <3>2. d.net[i].op \notin {"details", "moreDetails"}
      BY <2>5 DEF NothingShown
    <3>3. g2 \in Range(Fetches(a)) /\ g2.op = f.op /\ g2.arg = d.net[i].arg
      BY <1>1, <2>5, <3>1, <3>2 DEF Asked, Fetch
    <3> HIDE DEF g2
    <3> QED
      BY <3>3, FetchesOnce
  <2> QED
    BY <2>4, <2>5 DEF AsAsked
<1> QED
  BY <1>4, <1>5

LEMMA GoesShown ==
    ASSUME NEW c, PagesOK(c), Idle(c), c.loggedIn, NEW d,
           (\E at, arg : Goes(c, d, at, arg)) \/ (\E view : LooksAt(c, d, view))
    PROVE  PagesOK(d)
<1>1. ASSUME NEW at, NEW arg, Goes(c, d, at, arg) PROVE PagesOK(d)
  <2>1. PICK a : Elsewhere(c, a, at, arg) /\ Shown(c, a, d)
    BY <1>1 DEF Goes
  <2>2. /\ IsClient(a) /\ a.net = c.net /\ a.loggedIn
        /\ c.at = a.at => \A op \in DOMAIN NothingShown : a.shown[op] = c.shown[op]
    BY <2>1 DEF Elsewhere
  <2> QED
    BY <2>1, <2>2, PagesShown
<1>2. ASSUME NEW view, LooksAt(c, d, view) PROVE PagesOK(d)
  <2>1. PICK a : Looks(c, a, view) /\ Shown(c, a, d)
    BY <1>2 DEF LooksAt
  <2>2. IsClient(a) /\ a.net = c.net /\ a.loggedIn /\ a.shown = c.shown
    BY <2>1 DEF Looks
  <2> QED
    BY <2>1, <2>2, PagesShown
<1> QED
  BY <1>1, <1>2

LEMMA DoingShown ==
    ASSUME IsClient(app), PagesOK(app), Idle(app), app.loggedIn, Doing(app, app')
    PROVE  PagesOK(app')
<1>1. CASE \E at, arg : Goes(app, app', at, arg)
  BY <1>1, GoesShown
<1>2. CASE \E view : LooksAt(app, app', view)
  BY <1>2, GoesShown
<1>3. CASE AsksOne(app, app')
  BY <1>3, AsksOneAlike, PagesAlike
<1>4. CASE Quietly(app, app')
  <2>1. PICK e : Grows(app, e, {}) /\ Only(e, app', {"notes", "hub"})
    BY <1>4 DEF Quietly
  <2>2. PagesOK(e)
    BY <2>1, GrowsAlike, PagesAlike
  <2> QED
    BY <2>1, <2>2, OnlyAlike, PagesAlike
<1> QED
  BY <1>1, <1>2, <1>3, <1>4 DEF Doing

LEMMA ServeShown ==
    ASSUME IsClient(app), PagesOK(app), NEW i \in DOMAIN app.net, Serve(i) PROVE PagesOK(app')
<1>1. PICK q : Served(app.net[i], q, db, db') /\ Changes(app, app', i, q)
  BY ServeIs
<1>2. /\ app'.shown = app.shown /\ SamePage(app, app') /\ DOMAIN app'.net = DOMAIN app.net
      /\ app'.net[i] = q /\ \A j \in DOMAIN app.net : j # i => app'.net[j] = app.net[j]
  BY <1>1 DEF Changes, Only, ClientFields, SamePage
<1>3. \A j \in DOMAIN app.net : app'.net[j].op = app.net[j].op /\ app'.net[j].arg = app.net[j].arg
  BY <1>1, <1>2 DEF Served
<1>4. AllAlike(app, app')
  BY <1>2, <1>3 DEF AllAlike, Alike
<1> QED
  BY <1>2, <1>4, SamePageFetches, PagesAlike

\* The client that takes an answer has the other requests.
LEMMA TakesAlike ==
    ASSUME NEW c, NEW i \in DOMAIN c.net, NEW d, Takes(c, d, i)
    PROVE  /\ Fetches(d) = Fetches(c) /\ d.shown = c.shown /\ d.loggedIn = c.loggedIn
           /\ \A op \in DOMAIN NothingShown : op # c.net[i].op => Alike(c, d, op)
<1>1. SamePage(c, d) /\ d.shown = c.shown
  BY DEF Takes, Only, ClientFields, SamePage
<1>2. PICK w \in [DOMAIN d.net -> DOMAIN c.net \ {i}] :
         /\ \A j \in DOMAIN d.net : d.net[j] = c.net[w[j]]
         /\ \A k \in DOMAIN c.net \ {i} : \E j \in DOMAIN d.net : w[j] = k
  BY DEF Takes
<1> SUFFICES ASSUME NEW op \in DOMAIN NothingShown, op # c.net[i].op PROVE Alike(c, d, op)
  BY <1>1, SamePageFetches DEF SamePage
<1>3. ASSUME NEW k \in DOMAIN c.net, c.net[k].op = op
      PROVE  \E j \in DOMAIN d.net : d.net[j].op = op
  <2>1. PICK j \in DOMAIN d.net : w[j] = k
    BY <1>2, <1>3
  <2>2. d.net[j] = c.net[k]
    BY <1>2, <2>1
  <2> QED
    BY <1>3, <2>2
<1>4. ASSUME NEW j \in DOMAIN d.net, d.net[j].op = op
      PROVE  \E k \in DOMAIN c.net : c.net[k].op = op /\ c.net[k].arg = d.net[j].arg
  <2>1. w[j] \in DOMAIN c.net /\ d.net[j] = c.net[w[j]]
    BY <1>2
  <2> QED
    BY <1>4, <2>1
<1> QED
  BY <1>1, <1>3, <1>4 DEF Alike

LEMMA ReceivesShown ==
    ASSUME IsClient(app), PagesOK(app), NEW i \in DOMAIN app.net, NEW c, Took(c, i), c.loggedIn,
           NEW n, Receives(c, app.net[i], app', n)
    PROVE  PagesOK(app')
<1> DEFINE r == app.net[i]
<1>1. PICK b : b = Reduced(c, r, n) /\ Only(c, b, Parts(r.op)) /\ Grows(b, app', {})
  BY DEF Receives
<1>2. /\ Fetches(c) = Fetches(app) /\ c.shown = app.shown
      /\ \A op \in DOMAIN NothingShown : op # r.op => Alike(app, c, op)
  BY TakesAlike DEF Took
<1>9. Only(c, b, Parts(r.op))
  BY <1>1
<1>3. b.net = c.net /\ SamePage(c, b) /\ b.loggedIn
  <2>1. b.net = c.net /\ SamePage(c, b)
    BY <1>9, PartsArePage
  <2> QED
    BY <2>1 DEF SamePage
<1>4. r.op \notin DOMAIN NothingShown => b.shown = c.shown
  BY <1>1 DEF Only, ClientFields, Parts
<1>5. r.op \in DOMAIN NothingShown => b.shown = [c.shown EXCEPT ![r.op] = r.arg]
  <2> SUFFICES ASSUME r.op \in DOMAIN NothingShown PROVE b.shown = [c.shown EXCEPT ![r.op] = r.arg]
    OBVIOUS
  <2>1. b = Shows(c, r.op, r.arg)
    BY <1>1 DEF Reduced, NeedsDetails, NothingShown
  <2>2. IsClient(c)
    BY DEF Took
  <2> QED
    BY <2>1, <2>2, ShownKnown
<1>6. Fetches(b) = Fetches(app)
  BY <1>2, <1>3, SamePageFetches
<1>7. ASSUME NEW f \in Range(Fetches(app)), f.op \in DOMAIN NothingShown PROVE AsAsked(b, f)
  <2>1. AsAsked(app, f)
    BY <1>7 DEF PagesOK
  <2>2. CASE f.op # r.op
    <3>1. Alike(app, c, f.op)
      BY <1>2, <1>7, <2>2
    <3>4. ASSUME r.op \notin DOMAIN NothingShown PROVE b.shown[f.op] = c.shown[f.op]
      BY <1>4, <3>4
    <3>5. ASSUME r.op \in DOMAIN NothingShown PROVE b.shown[f.op] = c.shown[f.op]
      <4>1. b.shown = [c.shown EXCEPT ![r.op] = r.arg]
        BY <1>5, <3>5
      <4>2. DOMAIN c.shown = DOMAIN NothingShown
        BY DEF Took, IsClient
      <4> QED
        BY <1>7, <2>2, <4>1, <4>2
    <3>2. b.shown[f.op] = c.shown[f.op]
      BY <3>4, <3>5
    <3>3. Alike(app, b, f.op)
      BY <1>3, <3>1, <3>2 DEF Alike
    <3> QED
      BY <2>1, <3>3, AskedAlike
  <2>3. CASE f.op = r.op
    <3>1. r.arg = f.arg
      BY <2>1, <2>3 DEF AsAsked
    <3>2. DOMAIN c.shown = DOMAIN NothingShown
      BY DEF Took, IsClient
    <3>3. b.shown[f.op] = f.arg
      BY <1>5, <1>7, <2>3, <3>1, <3>2
    <3>4. ASSUME NEW j \in DOMAIN b.net, b.net[j].op = f.op PROVE b.net[j].arg = f.arg
      <4>1. PICK w \in [DOMAIN c.net -> DOMAIN app.net \ {i}] :
                 \A k \in DOMAIN c.net : c.net[k] = app.net[w[k]]
        BY DEF Took, Takes
      <4>2. w[j] \in DOMAIN app.net /\ b.net[j] = app.net[w[j]]
        BY <1>3, <3>4, <4>1
      <4> QED
        BY <2>1, <3>4, <4>2 DEF AsAsked
    <3> QED
      BY <3>3, <3>4 DEF AsAsked
  <2> QED
    BY <2>2, <2>3
<1>8. PagesOK(b)
  BY <1>6, <1>7 DEF PagesOK
<1> QED
  BY <1>1, <1>3, <1>8, GrowsAlike, PagesAlike

LEMMA AnsweredShown ==
    ASSUME IsClient(app), PagesOK(app), NEW i \in DOMAIN app.net, NEW n, Answered(i, n)
    PROVE  PagesOK(app')
<1>1. PICK c : /\ Took(c, i)
               /\ \/ Arrives(app')
                  \/ c.loggedIn /\ Receives(c, app.net[i], app', n)
                  \/ c.loggedIn /\ IsRefused(c, app.net[i], app')
                  \/ TurnsToCup(c, app.net[i], app')
  BY DEF Answered
<1>2. CASE Arrives(app')
  BY <1>2, PlainPages DEF Arrives
<1>3. CASE c.loggedIn /\ Receives(c, app.net[i], app', n)
  BY <1>1, <1>3, ReceivesShown
<1>4. CASE IsRefused(c, app.net[i], app')
  <2>1. app.net[i].op \in {"updateCourse", "addCourse"} /\ Only(c, app', {"notes", "alarms", "cup"})
    BY <1>4 DEF IsRefused
  <2>2. AllAlike(app, c) /\ Fetches(c) = Fetches(app)
    BY <1>1, <2>1, TakesAlike DEF Took, AllAlike, NothingShown
  <2>3. PagesOK(c)
    BY <2>2, PagesAlike
  <2> QED
    BY <2>1, <2>3, OnlyAlike, PagesAlike
<1>5. CASE TurnsToCup(c, app.net[i], app')
  <2>1. \E arg : Goes(c, app', "/tournament", arg)
    BY <1>5 DEF TurnsToCup
  <2>2. app'.at = "/tournament"
    BY <2>1 DEF Goes, Elsewhere, Shown, Grows, Same
  <2> QED
    BY <2>2, PlainPages
<1> QED
  BY <1>1, <1>2, <1>3, <1>4, <1>5

LEMMA HeardShown ==
    ASSUME IsClient(app), PagesOK(app), NEW u \in Users, Heard(u) PROVE PagesOK(app')
<1>1. PICK b \in BOOLEAN : IF app.hub = u THEN TellsIn(app, app', b) ELSE app' = app
  BY DEF Heard
<1>2. CASE app' = app
  BY <1>2
<1>3. CASE TellsIn(app, app', b)
  <2>1. PICK e, m : /\ Only(app, e, {"details"}) /\ Grows(e, m, {}) /\ app.loggedIn
                    /\ Only(m, app', {"notes", "alarms"}) \/ Goes(m, app', "/", <<>>)
    BY <1>3 DEF TellsIn
  <2>6. PagesOK(e)
    BY <2>1, OnlyAlike, PagesAlike
  <2>2. PagesOK(e) /\ e.loggedIn
    BY <2>1, <2>6 DEF Only, ClientFields
  <2>3. PagesOK(m)
    BY <2>1, <2>2, GrowsAlike, PagesAlike
  <2>4. CASE Only(m, app', {"notes", "alarms"})
    BY <2>3, <2>4, OnlyAlike, PagesAlike
  <2>5. CASE Goes(m, app', "/", <<>>)
    <3>1. app'.at = "/"
      BY <2>5 DEF Goes, Elsewhere, Shown, Grows, Same
    <3> QED
      BY <3>1, PlainPages
  <2> QED
    BY <2>1, <2>4, <2>5
<1> QED
  BY <1>1, <1>2, <1>3

LEMMA OpensShown ==
    ASSUME NEW d, Opens(d), d.loggedIn PROVE PagesOK(d)
<1>1. PICK l : /\ Opened(l) /\ Grows(l, d, Range(Fetches(l)))
               /\ l.loggedIn => \A f \in Range(Fetches(l)) : Makes(l, d, f)
  BY DEF Opens
<1>2. l.loggedIn /\ Fetches(d) = Fetches(l)
  BY <1>1, SamePageFetches DEF Grows, Same, SamePage
<1> SUFFICES ASSUME NEW f \in Range(Fetches(l)), f.op \in DOMAIN NothingShown PROVE AsAsked(d, f)
  BY <1>2 DEF PagesOK
<1>3. \A i \in DOMAIN l.net : l.net[i].op # f.op
  BY <1>1 DEF Opened, OnlyDetails, NothingShown
<1> QED
  BY <1>1, <1>2, <1>3, MadeAsked DEF Opened

PagesInv == OrderInv /\ (calm /\ app.loggedIn => PagesOK(app))

LEMMA NextKeepsPages ==
    ASSUME PagesInv, [Next]_vars PROVE PagesInv'
<1>1. OrderInv /\ OrderInv'
  BY NextKeepsOrder DEF PagesInv
<1> SUFFICES ASSUME calm', app'.loggedIn PROVE PagesOK(app')
  BY <1>1 DEF PagesInv
<1>2. CASE Opens(app')
  BY <1>2, OpensShown
<1>3. CASE calm /\ CalmStep
  <2>1. Member
    BY <1>1, <1>3, MemberIs
  <2>2. app.loggedIn => PagesOK(app)
    BY <1>3 DEF PagesInv
  <2>3. IsClient(app)
    BY <1>1, <1>3, OrderIs
  <2>4. CASE UNCHANGED <<app, db>>
    BY <2>2, <2>4
  <2>5. ASSUME NEW i \in DOMAIN app.net, Serve(i), app.loggedIn PROVE PagesOK(app')
    BY <2>2, <2>3, <2>5, ServeShown
  <2>6. ASSUME NEW i \in DOMAIN app.net, NEW n \in Ids, Answered(i, n) PROVE PagesOK(app')
    <3>1. CASE app.loggedIn
      BY <2>2, <2>3, <2>6, <3>1, AnsweredShown
    <3>2. CASE ~app.loggedIn
      <4>1. PICK c : /\ Took(c, i)
                     /\ c.loggedIn \/ Arrives(app') \/ TurnsToCup(c, app.net[i], app')
        BY <2>6 DEF Answered
      <4>2. ~c.loggedIn
        BY <3>2, <4>1 DEF Took, Takes, Only, ClientFields
      <4>3. Arrives(app')
        BY <4>1, <4>2 DEF TurnsToCup
      <4> QED
        BY <4>3, PlainPages DEF Arrives
    <3> QED
      BY <3>1, <3>2
  <2>7. CASE Only(app, app', {"notes", "alarms"})
    <3>1. app.loggedIn
      BY <2>7 DEF Only, ClientFields
    <3> QED
      BY <2>2, <2>7, <3>1, OnlyAlike, PagesAlike
  <2>8. CASE Idle(app) /\ app.loggedIn /\ Doing(app, app')
    BY <2>2, <2>3, <2>8, DoingShown
  <2>9. ASSUME NEW u \in Users, Heard(u) PROVE PagesOK(app')
    <3>1. app.loggedIn
      BY <2>9 DEF Heard
    <3> QED
      BY <2>2, <2>3, <2>9, <3>1, HeardShown
  <2> QED
    BY <2>1, <2>4, <2>5, <2>6, <2>7, <2>8, <2>9 DEF Member
<1> QED
  BY <1>1, <1>2, <1>3, StepsAre DEF OrderInv

LEMMA InitInOrder == Init => PagesInv
<1> SUFFICES ASSUME Init PROVE PagesInv
  OBVIOUS
<1>1. EditsInv /\ Opens(app)
  BY InitIsSound, InitOpens
<1> QED
  BY <1>1, OpensInOrder, OpensShown DEF PagesInv, OrderInv

\* Every component shows the answer to what it asked for last.
THEOREM AnswersReachTheirPages == Spec => []PagesShowWhatTheyAsk
<1>1. PagesInv => PagesShowWhatTheyAsk
  <2> SUFFICES ASSUME PagesInv, Settled, NEW f \in Range(Fetches(app)), f.op \in DOMAIN NothingShown
               PROVE  app.shown[f.op] = f.arg
    BY DEF PagesShowWhatTheyAsk
  <2>1. PagesOK(app)
    BY DEF PagesInv, Settled
  <2>2. DOMAIN app.net = {}
    BY DEF Settled, InFlight
  <2> QED
    BY <2>1, <2>2 DEF PagesOK, AsAsked
<1>2. PagesInv /\ [Next]_vars => PagesInv'
  BY NextKeepsPages
<1> QED
  BY <1>1, <1>2, InitInOrder, PTL DEF Spec

-----------------------------------------------------------------------------
(* What is shown of the account of whoever is logged in.                     *)

Mends == {"set", "changeEmail", "addFriend"}
\* The details x after the answer r.
Mended(x, r) ==
    IF r.op = "addFriend" THEN [x EXCEPT !.friends = @ \cup {r.arg[1]}]
    ELSE [x EXCEPT !.set[r.arg[1]] = r.arg[2]]
Agrees(c, x, acc) ==
    /\ DOMAIN x = DOMAIN Unknown /\ x.fetched
    /\ x.set = acc.set /\ x.friends = acc.friends
    /\ c.hub = c.user => x.active = acc.active
\* The details are on their way; or an answer will mend them; or they agree.
HasDetails(c) == \E i \in DOMAIN c.net : c.net[i].op = "details"
WillAgree(c, acc) ==
    \E i \in DOMAIN c.net : /\ c.net[i].op \in Mends /\ c.net[i].phase = "ok"
                            /\ Agrees(c, Mended(c.details, c.net[i]), acc)
AgreesNow(c, acc) ==
    /\ \A i \in DOMAIN c.net : c.net[i].op \in Mends => c.net[i].phase = "sent"
    /\ Agrees(c, c.details, acc)
DetailsOK(c, acc) ==
    /\ \A i \in DOMAIN c.net : c.net[i].op = "details" /\ c.net[i].phase = "ok" => c.net[i].data = acc
    /\ HasDetails(c) \/ WillAgree(c, acc) \/ AgreesNow(c, acc)

LEMMA TakesRest ==
    ASSUME NEW c, NEW i \in DOMAIN c.net, NEW d, Takes(c, d, i)
    PROVE  /\ \A j \in DOMAIN d.net : \E k \in DOMAIN c.net \ {i} : d.net[j] = c.net[k]
           /\ \A k \in DOMAIN c.net \ {i} : \E j \in DOMAIN d.net : d.net[j] = c.net[k]
<1>1. PICK w \in [DOMAIN d.net -> DOMAIN c.net \ {i}] :
         /\ \A j \in DOMAIN d.net : d.net[j] = c.net[w[j]]
         /\ \A k \in DOMAIN c.net \ {i} : \E j \in DOMAIN d.net : w[j] = k
  BY DEF Takes
<1>2. ASSUME NEW k \in DOMAIN c.net \ {i} PROVE \E j \in DOMAIN d.net : d.net[j] = c.net[k]
  <2>1. PICK j \in DOMAIN d.net : w[j] = k
    BY <1>1
  <2>2. d.net[j] = c.net[k]
    BY <1>1, <2>1
  <2> QED
    BY <2>2
<1>3. ASSUME NEW j \in DOMAIN d.net PROVE \E k \in DOMAIN c.net \ {i} : d.net[j] = c.net[k]
  <2>1. w[j] \in DOMAIN c.net \ {i} /\ d.net[j] = c.net[w[j]]
    BY <1>1
  <2> QED
    BY <2>1
<1> QED
  BY <1>2, <1>3

\* d has the requests of c that touch the details, and others just made.
Keeps(c, d) ==
    /\ d.details = c.details /\ d.user = c.user
    /\ d.hub = c.hub \/ d.hub = NoOne
    /\ \A j \in DOMAIN d.net :
          \/ d.net[j].phase = "sent"
          \/ d.net[j].op \notin Mends \cup {"details"}
          \/ \E k \in DOMAIN c.net : d.net[j] = c.net[k]
    /\ \A k \in DOMAIN c.net :
          c.net[k].op \in Mends \cup {"details"} => \E j \in DOMAIN d.net : d.net[j] = c.net[k]

LEMMA KeepsDetails ==
    ASSUME NEW acc, NEW c, DetailsOK(c, acc), c.user # NoOne, NEW d, Keeps(c, d)
    PROVE  DetailsOK(d, acc)
<1>1. \A x : Agrees(c, x, acc) => Agrees(d, x, acc)
  BY DEF Keeps, Agrees
<1>2. ASSUME NEW i \in DOMAIN d.net, d.net[i].op = "details", d.net[i].phase = "ok"
      PROVE  d.net[i].data = acc
  BY <1>2 DEF Keeps, DetailsOK
<1>3. ASSUME HasDetails(c) PROVE HasDetails(d)
  BY <1>3 DEF Keeps, HasDetails
<1>4. ASSUME WillAgree(c, acc) PROVE WillAgree(d, acc)
  <2>1. PICK i \in DOMAIN c.net : /\ c.net[i].op \in Mends /\ c.net[i].phase = "ok"
                                  /\ Agrees(c, Mended(c.details, c.net[i]), acc)
    BY <1>4 DEF WillAgree
  <2>2. PICK j \in DOMAIN d.net : d.net[j] = c.net[i]
    BY <2>1 DEF Keeps
  <2>3. d.details = c.details
    BY DEF Keeps
  <2> QED
    BY <1>1, <2>1, <2>2, <2>3 DEF WillAgree
<1>5. ASSUME AgreesNow(c, acc) PROVE AgreesNow(d, acc)
  <2>1. d.details = c.details
    BY DEF Keeps
  <2>2. ASSUME NEW i \in DOMAIN d.net, d.net[i].op \in Mends PROVE d.net[i].phase = "sent"
    BY <1>5, <2>2 DEF Keeps, AgreesNow
  <2> QED
    BY <1>1, <1>5, <2>1, <2>2 DEF AgreesNow
<1> QED
  BY <1>2, <1>3, <1>4, <1>5 DEF DetailsOK

LEMMA GrowsKeeps ==
    ASSUME NEW c, NEW d, NEW F, Grows(c, d, F) PROVE Keeps(c, d)
<1>1. Same(c, d) /\ Extends(c, d, F)
  BY DEF Grows
<1>2. ASSUME NEW j \in DOMAIN d.net
      PROVE  d.net[j].phase = "sent" \/ \E k \in DOMAIN c.net : d.net[j] = c.net[k]
  <2>1. CASE j \in DOMAIN c.net
    BY <1>1, <2>1 DEF Extends
  <2>2. CASE j \notin DOMAIN c.net
    <3>1. Asked(c, d.net[j], F)
      BY <1>1, <2>2 DEF Extends
    <3> QED
      BY <3>1 DEF Asked, Request
  <2> QED
    BY <2>1, <2>2
<1> QED
  BY <1>1, <1>2 DEF Keeps, Same, Extends

LEMMA OnlyKeeps ==
    ASSUME NEW c, NEW S, NEW d, Only(c, d, S), S \cap {"net", "details", "hub", "user"} = {}
    PROVE  Keeps(c, d)
BY DEF Only, ClientFields, Keeps

\* Requests just made, the details among them.
JustAsked(d) == HasDetails(d) /\ \A i \in DOMAIN d.net : d.net[i].phase = "sent"

LEMMA AskedDetails ==
    ASSUME NEW d, JustAsked(d), NEW acc PROVE DetailsOK(d, acc)
BY DEF JustAsked, DetailsOK

\* Whoever goes to another page asks again.
AllSent(c) == \A i \in DOMAIN c.net : c.net[i].phase = "sent"
LEMMA SentAsks ==
    ASSUME NEW c, AllSent(c), NEW d, NEW F, Grows(c, d, F), HasDetails(d) PROVE JustAsked(d)
<1> SUFFICES ASSUME NEW i \in DOMAIN d.net PROVE d.net[i].phase = "sent"
  BY DEF JustAsked
<1>1. CASE i \in DOMAIN c.net
  BY <1>1 DEF Grows, Extends, AllSent
<1>2. CASE i \notin DOMAIN c.net
  <2>1. Asked(c, d.net[i], F)
    BY <1>2 DEF Grows, Extends
  <2> QED
    BY <2>1 DEF Asked, Request
<1> QED
  BY <1>1, <1>2

LEMMA GoesAsks ==
    ASSUME NEW c, AllSent(c), NEW d, NEW at, NEW arg, Goes(c, d, at, arg)
    PROVE  JustAsked(d) /\ d.user = c.user
<1>1. PICK a : Elsewhere(c, a, at, arg) /\ Shown(c, a, d) /\ Makes(a, d, Details)
  BY DEF Goes
<1>2. a.net = c.net /\ a.user = c.user /\ Grows(a, d, EffectsOf(c, a))
  BY <1>1 DEF Elsewhere, Shown
<1>3. HasDetails(d)
  BY <1>1, AsksDetails DEF HasDetails
<1>4. AllSent(a) /\ d.user = c.user
  BY <1>2 DEF AllSent, Grows, Same
<1> QED
  BY <1>2, <1>3, <1>4, SentAsks

LEMMA OpensAsks ==
    ASSUME NEW d, Opens(d), d.loggedIn PROVE JustAsked(d)
<1>1. PICK l : /\ Opened(l) /\ Grows(l, d, Range(Fetches(l)))
               /\ l.loggedIn => \E i \in DOMAIN d.net : d.net[i].op = "details"
  BY DEF Opens
<1>2. HasDetails(d)
  BY <1>1 DEF Grows, Same, HasDetails
<1> SUFFICES ASSUME NEW i \in DOMAIN d.net PROVE d.net[i].phase = "sent"
  BY <1>2 DEF JustAsked
<1>3. CASE i \in DOMAIN l.net
  BY <1>1, <1>3 DEF Grows, Extends, Opened, OnlyDetails
<1>4. CASE i \notin DOMAIN l.net
  <2>1. Asked(l, d.net[i], Range(Fetches(l)))
    BY <1>1, <1>4 DEF Grows, Extends
  <2> QED
    BY <2>1 DEF Asked, Request
<1> QED
  BY <1>3, <1>4

\* The account of whoever is logged in.
Account(c, d) == d.account[c.user]

LEMMA MendedAfter ==
    ASSUME NEW d, IsDb(d), NEW r, r.op \in Mends, r.who \in Users, NEW e, e = After(d, r)
    PROVE  LET old == d.account[r.who]
               new == e.account[r.who]
           IN  /\ new.active = old.active
               /\ r.op = "addFriend" => new.set = old.set /\ new.friends = old.friends \cup {r.arg[1]}
               /\ r.op # "addFriend" => /\ new.friends = old.friends
                                        /\ new.set = [old.set EXCEPT ![r.arg[1]] = r.arg[2]]
<1>1. e.account = AccountAfter(d, r)
  BY AccountsAfter DEF Mends
<1>2. DOMAIN d.account = Users /\ DOMAIN d.account[r.who] = AccountFields
  BY DEF IsDb
<1>3. CASE r.op = "addFriend"
  <2>1. e.account = [d.account EXCEPT ![r.who].friends = @ \cup {r.arg[1]},
                                      ![r.arg[1]].friends = @ \cup {r.who}]
    BY <1>1, <1>3 DEF AccountAfter
  <2> QED
    BY <1>2, <1>3, <2>1 DEF AccountFields
<1>4. CASE r.op # "addFriend"
  <2>1. e.account = [d.account EXCEPT ![r.who].set[r.arg[1]] = r.arg[2]]
    BY <1>1, <1>4 DEF AccountAfter
  <2> QED
    BY <1>2, <1>4, <2>1 DEF AccountFields
<1> QED
  BY <1>3, <1>4

LEMMA MendedAgrees ==
    ASSUME NEW c, NEW x, NEW d, IsDb(d), Agrees(c, x, Account(c, d)), NEW r, r.op \in Mends,
           r.who = c.user, c.user \in Users, NEW e, e = After(d, r)
    PROVE  Agrees(c, Mended(x, r), Account(c, e))
<1> DEFINE old == d.account[r.who]
           new == e.account[r.who]
           y == Mended(x, r)
<1>1. /\ new.active = old.active
      /\ r.op = "addFriend" => new.set = old.set /\ new.friends = old.friends \cup {r.arg[1]}
      /\ r.op # "addFriend" => /\ new.friends = old.friends
                               /\ new.set = [old.set EXCEPT ![r.arg[1]] = r.arg[2]]
  BY MendedAfter
<1>2. /\ DOMAIN x = DOMAIN Unknown /\ x.fetched
      /\ x.set = old.set /\ x.friends = old.friends
      /\ c.hub = c.user => x.active = old.active
  BY DEF Agrees, Account
<1>3. CASE r.op = "addFriend"
  <2>1. y = [x EXCEPT !.friends = @ \cup {r.arg[1]}]
    BY <1>3 DEF Mended
  <2>2. /\ DOMAIN y = DOMAIN Unknown /\ y.fetched = x.fetched /\ y.set = x.set
        /\ y.active = x.active /\ y.friends = x.friends \cup {r.arg[1]}
    BY <1>2, <2>1 DEF Unknown
  <2> HIDE DEF new, old, y
  <2>3. Agrees(c, y, new)
    BY <1>1, <1>2, <1>3, <2>2 DEF Agrees
  <2> QED
    BY <2>3 DEF y, new, Account
<1>4. CASE r.op # "addFriend"
  <2>1. y = [x EXCEPT !.set[r.arg[1]] = r.arg[2]]
    BY <1>4 DEF Mended
  <2>2. /\ DOMAIN y = DOMAIN Unknown /\ y.fetched = x.fetched /\ y.friends = x.friends
        /\ y.active = x.active /\ y.set = [x.set EXCEPT ![r.arg[1]] = r.arg[2]]
    BY <1>2, <2>1 DEF Unknown
  <2> HIDE DEF new, old, y
  <2>3. Agrees(c, y, new)
    BY <1>1, <1>2, <1>4, <2>2 DEF Agrees
  <2> QED
    BY <2>3 DEF y, new, Account
<1> QED
  BY <1>3, <1>4

LEMMA MemberOfUsers ==
    ASSUME NEW c, IsClient(c), c.loggedIn PROVE c.user \in Users /\ c.user # NoOne
BY DEF IsClient, IsUser

LEMMA MendAlone ==
    ASSUME NEW c, Orderly(c), NEW i \in DOMAIN c.net, c.net[i].op \in Mends
    PROVE  (\A j \in DOMAIN c.net : j = i) /\ c.net[i].who = c.user /\ c.net[i].op \notin Background
<1>1. c.net[i].op \notin Background /\ c.net[i].op \notin Free
  BY DEF Mends, Background, FetchOps, Free
<1> QED
  BY <1>1 DEF Orderly, Waits, InTime

LEMMA ServeDetails ==
    ASSUME IsClient(app), Orderly(app), app.loggedIn, IsDb(db), DetailsOK(app, Account(app, db)),
           NEW i \in DOMAIN app.net, Serve(i)
    PROVE  DetailsOK(app', Account(app', db'))
<1> DEFINE r == app.net[i]
<1>1. r.phase = "sent" /\ \E q : Served(r, q, db, db') /\ Changes(app, app', i, q)
  BY ServeIs
<1>2. PICK q : Served(r, q, db, db') /\ Changes(app, app', i, q)
  BY <1>1
<1>3. /\ app'.details = app.details /\ app'.user = app.user /\ app'.hub = app.hub
      /\ DOMAIN app'.net = DOMAIN app.net /\ app'.net[i] = q
      /\ \A j \in DOMAIN app.net : j # i => app'.net[j] = app.net[j]
  BY <1>2 DEF Changes, Only, ClientFields
<1>4. app.user \in Users /\ app.user # NoOne
  BY MemberOfUsers
<1>5. q.op = r.op /\ q.arg = r.arg /\ q.who = r.who
  BY <1>2 DEF Served
<1>6. \A x, acc : Agrees(app, x, acc) => Agrees(app', x, acc)
  BY <1>3 DEF Agrees
<1> HIDE DEF r
<1>7. CASE r.op \in Mends
  <2>1. (\A j \in DOMAIN app.net : j = i) /\ r.who = app.user
    BY <1>7, MendAlone DEF r
  <2>2. Agrees(app, app.details, Account(app, db))
    <3>1. ~HasDetails(app)
      BY <1>7, <2>1 DEF HasDetails, Mends, r
    <3>2. ~WillAgree(app, Account(app, db))
      BY <1>1, <2>1 DEF WillAgree, r
    <3> QED
      BY <3>1, <3>2 DEF DetailsOK, AgreesNow
  <2>3. db' = After(db, r) /\ q.phase = "ok"
    BY <1>2, <1>7 DEF Served, Refusable, Mends
  <2>4. Agrees(app, Mended(app.details, r), Account(app, db'))
    BY <1>4, <1>7, <2>1, <2>2, <2>3, MendedAgrees
  <2>5. Mended(app'.details, q) = Mended(app.details, r)
    BY <1>3, <1>5 DEF Mended
  <2>6. Account(app', db') = Account(app, db')
    BY <1>3 DEF Account
  <2>7. Agrees(app', Mended(app'.details, q), Account(app', db'))
    BY <1>6, <2>4, <2>5, <2>6
  <2>8. WillAgree(app', Account(app', db'))
    BY <1>3, <1>5, <1>7, <2>3, <2>7 DEF WillAgree
  <2>9. \A j \in DOMAIN app'.net : app'.net[j].op # "details"
    BY <1>3, <1>5, <1>7, <2>1 DEF Mends
  <2> QED
    BY <2>8, <2>9 DEF DetailsOK
<1>8. CASE r.op \notin Mends
  <2>1. Account(app', db') = Account(app, db)
    <3>1. db'.account = db.account
      BY <1>2, <1>8, AfterIs DEF Served, Mends
    <3> QED
      BY <1>3, <3>1 DEF Account
  <2>2. r.op = "details" => q.phase # "ok" \/ q.data = Account(app, db)
    <3> SUFFICES ASSUME r.op = "details", q.phase = "ok" PROVE q.data = Account(app, db)
      OBVIOUS
    <3>1. q.data = Data(db', r) /\ db'.account = db.account
      BY <1>2, <1>8, AfterIs DEF Served, Mends
    <3>2. r.who = app.user
      BY DEF Orderly, InTime, Free, r
    <3> QED
      BY <3>1, <3>2 DEF Data, Account
  <2>3. ASSUME NEW j \in DOMAIN app'.net, app'.net[j].op = "details", app'.net[j].phase = "ok"
        PROVE  app'.net[j].data = Account(app, db)
    BY <1>3, <1>5, <2>2, <2>3 DEF DetailsOK
  <2>4. HasDetails(app) => HasDetails(app')
    BY <1>3, <1>5 DEF HasDetails, r
  <2>5. ASSUME WillAgree(app, Account(app, db)) PROVE WillAgree(app', Account(app, db))
    <3>1. PICK k \in DOMAIN app.net : /\ app.net[k].op \in Mends /\ app.net[k].phase = "ok"
                                      /\ Agrees(app, Mended(app.details, app.net[k]), Account(app, db))
      BY <2>5 DEF WillAgree
    <3>2. k # i
      BY <1>8, <3>1 DEF r
    <3>3. app'.net[k] = app.net[k] /\ app'.details = app.details /\ k \in DOMAIN app'.net
      BY <1>3, <3>2
    <3> QED
      BY <1>6, <3>1, <3>3 DEF WillAgree
  <2>6. ASSUME AgreesNow(app, Account(app, db)) PROVE AgreesNow(app', Account(app, db))
    <3>1. ASSUME NEW j \in DOMAIN app'.net, app'.net[j].op \in Mends PROVE app'.net[j].phase = "sent"
      BY <1>3, <1>5, <1>8, <2>6, <3>1 DEF AgreesNow
    <3> QED
      BY <1>3, <1>6, <2>6, <3>1 DEF AgreesNow
  <2> QED
    BY <2>1, <2>3, <2>4, <2>5, <2>6 DEF DetailsOK
<1> QED
  BY <1>7, <1>8

\* An answer that mends the details, brings them, or leaves them alone.
LEMMA ReceivesDetails ==
    ASSUME IsClient(app), Orderly(app), app.loggedIn, NEW acc, DetailsOK(app, acc),
           NEW i \in DOMAIN app.net, NEW c, Took(c, i), NEW n, Receives(c, app.net[i], app', n)
    PROVE  DetailsOK(app', acc)
<1> DEFINE r == app.net[i]
<1>1. PICK b : b = Reduced(c, r, n) /\ Only(c, b, Parts(r.op)) /\ Grows(b, app', {})
  BY DEF Receives
<1>2. /\ c.details = app.details /\ c.user = app.user /\ c.hub = app.hub /\ IsClient(c)
      /\ Waits(c) /\ (r.op \notin Background => Idle(c))
  BY DEF Took, Takes, Only, ClientFields
<1>3. /\ \A j \in DOMAIN c.net : \E k \in DOMAIN app.net \ {i} : c.net[j] = app.net[k]
      /\ \A k \in DOMAIN app.net \ {i} : \E j \in DOMAIN c.net : c.net[j] = app.net[k]
  BY TakesRest DEF Took
<1>9. Only(c, b, Parts(r.op))
  BY <1>1
<1>4. b.net = c.net /\ b.user = c.user /\ b.hub = c.hub
  BY <1>9, PartsArePage DEF SamePage
<1>5. r.phase = "ok"
  BY DEF Receives
<1>6. app.user \in Users /\ app.user # NoOne
  BY MemberOfUsers
<1> HIDE DEF r
<1>7. DetailsOK(b, acc)
  <2>1. CASE r.op = "details"
    <3>1. r.data = acc
      BY <1>5, <2>1 DEF DetailsOK, r
    <3>2. b = DetailsFetched(c, r.who, acc)
      BY <1>1, <2>1, <3>1 DEF Reduced, NeedsDetails, NothingShown
    <3>3. b.details = [fetched |-> TRUE, friends |-> acc.friends, active |-> acc.active, set |-> acc.set]
      BY <1>2, <3>2, DetailsKnown
    <3>4. Agrees(b, b.details, acc)
      BY <3>3 DEF Agrees, Unknown
    <3>5. \A j \in DOMAIN b.net : b.net[j].op \notin Mends
      BY <1>2, <1>4 DEF Waits, Mends, Background, FetchOps
    <3>6. \A j \in DOMAIN b.net : b.net[j].op = "details" /\ b.net[j].phase = "ok" => b.net[j].data = acc
      BY <1>3, <1>4 DEF DetailsOK
    <3> QED
      BY <3>4, <3>5, <3>6 DEF DetailsOK, AgreesNow
  <2>2. CASE r.op \in Mends
    <3>1. (\A j \in DOMAIN app.net : j = i) /\ Idle(c)
      BY <1>2, <2>2, MendAlone DEF r
    <3>2. Agrees(app, Mended(app.details, r), acc)
      <4>1. ~HasDetails(app)
        BY <2>2, <3>1 DEF HasDetails, Mends, r
      <4>2. ~AgreesNow(app, acc)
        BY <1>5, <2>2 DEF AgreesNow, r
      <4> QED
        BY <3>1, <4>1, <4>2 DEF DetailsOK, WillAgree, r
    <3>3. DOMAIN Mended(c.details, r) = DOMAIN Unknown /\ Mended(c.details, r).fetched
      BY <1>2, <3>2 DEF Agrees
    <3>4. c.details.fetched
      <4>1. DOMAIN Mended(c.details, r) = DOMAIN c.details
        BY DEF Mended
      <4> QED
        BY <3>3, <4>1 DEF Mended, Unknown
    <3>5. b.details = Mended(c.details, r)
      <4>1. CASE r.op = "addFriend"
        <5>1. b = FriendAdded(c, r.arg[1])
          BY <1>1, <3>4, <4>1 DEF Reduced, NothingShown
        <5> QED
          BY <1>2, <4>1, <5>1 DEF FriendAdded, Mended, IsClient, ClientFields
      <4>2. CASE r.op \in {"set", "changeEmail"}
        <5>1. b = SetDetail(c, r.arg[1], r.arg[2])
          BY <1>1, <3>4, <4>2 DEF Reduced, NothingShown
        <5> QED
          BY <1>2, <4>2, <5>1 DEF SetDetail, Mended, IsClient, ClientFields
      <4> QED
        BY <2>2, <4>1, <4>2 DEF Mends
    <3>6. Agrees(b, b.details, acc)
      BY <1>2, <1>4, <3>2, <3>5 DEF Agrees
    <3> QED
      BY <1>4, <3>1, <3>6 DEF DetailsOK, AgreesNow, Idle
  <2>3. CASE r.op \notin Mends \cup {"details"}
    <3>1. b.details = c.details
      BY <1>9, <2>3 DEF Only, ClientFields, Parts, Mends
    <3>2. ASSUME NEW k \in DOMAIN app.net, app.net[k].op \in Mends \cup {"details"}
          PROVE  \E j \in DOMAIN b.net : b.net[j] = app.net[k]
      BY <1>3, <1>4, <2>3, <3>2 DEF r
    <3>3. Keeps(app, b)
      BY <1>2, <1>3, <1>4, <3>1, <3>2 DEF Keeps
    <3> QED
      BY <1>6, <3>3, KeepsDetails
  <2> QED
    BY <2>1, <2>2, <2>3
<1>8. b.user # NoOne
  BY <1>2, <1>4, <1>6
<1> QED
  BY <1>1, <1>7, <1>8, GrowsKeeps, KeepsDetails

\* What somebody does who is logged in.
LEMMA DoingDetails ==
    ASSUME IsClient(app), Idle(app), app.loggedIn, NEW acc, DetailsOK(app, acc), Doing(app, app')
    PROVE  DetailsOK(app', acc) /\ app'.user = app.user
<1>1. AllSent(app) /\ app.user # NoOne
  BY MemberOfUsers DEF AllSent, Idle
<1>2. ASSUME NEW at, NEW arg, Goes(app, app', at, arg)
      PROVE  DetailsOK(app', acc) /\ app'.user = app.user
  BY <1>1, <1>2, GoesAsks, AskedDetails
<1>3. ASSUME NEW view, LooksAt(app, app', view)
      PROVE  DetailsOK(app', acc) /\ app'.user = app.user
  <2>1. PICK a : Looks(app, a, view) /\ Shown(app, a, app')
    BY <1>3 DEF LooksAt
  <2>2. Keeps(app, a) /\ a.user = app.user
    BY <2>1 DEF Looks, Keeps
  <2>3. DetailsOK(a, acc)
    BY <1>1, <2>2, KeepsDetails
  <2>4. Grows(a, app', EffectsOf(app, a))
    BY <2>1 DEF Shown
  <2>5. Keeps(a, app')
    BY <2>4, GrowsKeeps
  <2>6. DetailsOK(app', acc)
    BY <1>1, <2>2, <2>3, <2>5, KeepsDetails
  <2> QED
    BY <2>2, <2>5, <2>6 DEF Keeps
<1>4. CASE AsksOne(app, app')
  <2>1. PICK a : /\ OtherHole(app, a)
                 /\ \/ app' = a
                    \/ \E op, arg, who : Mine(op, arg, who) /\ Appends(a, app', Request(op, arg, who))
    BY <1>4 DEF AsksOne
  <2>2. Keeps(app, a) /\ a.user = app.user
    BY <2>1 DEF OtherHole, Looks, Keeps
  <2>3. DetailsOK(a, acc)
    BY <1>1, <2>2, KeepsDetails
  <2>4. ASSUME NEW op, NEW arg, NEW who, Appends(a, app', Request(op, arg, who))
        PROVE  Keeps(a, app')
    <3> DEFINE r == Request(op, arg, who)
    <3>1. r.phase = "sent"
      BY DEF Request
    <3>2. PICK k : /\ k \notin DOMAIN a.net /\ DOMAIN app'.net = DOMAIN a.net \cup {k}
                   /\ app'.net[k] = r
      BY <2>4 DEF Appends
    <3>3. Same(a, app') /\ \A i \in DOMAIN a.net : app'.net[i] = a.net[i]
      BY <2>4 DEF Appends
    <3> HIDE DEF r
    <3> QED
      BY <3>1, <3>2, <3>3 DEF Keeps, Same
  <2>5. app' = a \/ Keeps(a, app')
    BY <2>1, <2>4
  <2>6. DetailsOK(app', acc)
    BY <1>1, <2>2, <2>3, <2>5, KeepsDetails
  <2> QED
    BY <2>2, <2>5, <2>6 DEF Keeps
<1>5. CASE Quietly(app, app')
  <2>1. PICK e : /\ Grows(app, e, {}) /\ Only(e, app', {"notes", "hub"})
                 /\ app'.hub \in {app.hub, NoOne} \/ Makes(app, e, Details)
    BY <1>5 DEF Quietly
  <2>2. Keeps(app, e)
    BY <2>1, GrowsKeeps
  <2>3. DetailsOK(e, acc) /\ e.user = app.user /\ e.hub = app.hub
    <3>1. e.user = app.user /\ e.hub = app.hub
      BY <2>1 DEF Grows, Same
    <3> QED
      BY <1>1, <2>2, <3>1, KeepsDetails
  <2>4. app'.net = e.net /\ app'.details = e.details /\ app'.user = e.user
    BY <2>1 DEF Only, ClientFields
  <2>5. CASE app'.hub \in {app.hub, NoOne}
    <3>1. Keeps(e, app')
      BY <2>3, <2>4, <2>5 DEF Keeps
    <3> QED
      BY <1>1, <2>3, <2>4, <3>1, KeepsDetails
  <2>6. CASE Makes(app, e, Details)
    <3>1. HasDetails(e)
      BY <2>6, AsksDetails DEF HasDetails
    <3>2. JustAsked(e)
      BY <1>1, <2>1, <3>1, SentAsks
    <3>3. JustAsked(app')
      BY <2>4, <3>2 DEF JustAsked, HasDetails
    <3> QED
      BY <2>3, <2>4, <3>3, AskedDetails
  <2> QED
    BY <2>1, <2>5, <2>6
<1> QED
  BY <1>2, <1>3, <1>4, <1>5 DEF Doing

LEMMA AnsweredDetails ==
    ASSUME IsClient(app), Orderly(app), NEW i \in DOMAIN app.net, NEW n, Answered(i, n),
           app.loggedIn => DetailsOK(app, Account(app, db))
    PROVE  DetailsOK(app', Account(app', db'))
<1>1. PICK c : /\ Took(c, i) /\ UNCHANGED db
               /\ \/ Arrives(app')
                  \/ c.loggedIn /\ Receives(c, app.net[i], app', n)
                  \/ c.loggedIn /\ IsRefused(c, app.net[i], app')
                  \/ TurnsToCup(c, app.net[i], app')
  BY DEF Answered
<1>2. c.details = app.details /\ c.user = app.user /\ c.hub = app.hub /\ c.loggedIn = app.loggedIn
  BY <1>1 DEF Took, Takes, Only, ClientFields
<1>3. CASE Arrives(app')
  BY <1>3, AskedDetails DEF Arrives, JustAsked, HasDetails
<1>4. CASE c.loggedIn /\ Receives(c, app.net[i], app', n)
  <2>1. app'.user = app.user
    <3>1. PICK b : Only(c, b, Parts(app.net[i].op)) /\ Grows(b, app', {})
      BY <1>4 DEF Receives
    <3>9. Only(c, b, Parts(app.net[i].op))
      BY <3>1
    <3>2. b.user = c.user
      BY <3>9, PartsArePage DEF SamePage
    <3> QED
      BY <1>2, <3>1, <3>2 DEF Grows, Same
  <2>2. DetailsOK(app', Account(app, db))
    BY <1>1, <1>2, <1>4, ReceivesDetails
  <2> QED
    BY <1>1, <2>1, <2>2 DEF Account
<1>5. CASE c.loggedIn /\ IsRefused(c, app.net[i], app')
  <2>1. /\ app.net[i].op \in {"updateCourse", "addCourse"} /\ Only(c, app', {"notes", "alarms", "cup"})
    BY <1>5 DEF IsRefused
  <2>2. /\ \A j \in DOMAIN c.net : \E k \in DOMAIN app.net \ {i} : c.net[j] = app.net[k]
        /\ \A k \in DOMAIN app.net \ {i} : \E j \in DOMAIN c.net : c.net[j] = app.net[k]
    BY <1>1, TakesRest DEF Took
  <2>3. app.net[i].op \notin Mends \cup {"details"}
    BY <2>1 DEF Mends
  <2>4. app'.net = c.net /\ app'.details = c.details /\ app'.user = c.user /\ app'.hub = c.hub
    BY <2>1 DEF Only, ClientFields
  <2>5. Keeps(app, app')
    BY <1>2, <2>2, <2>3, <2>4 DEF Keeps
  <2>6. DetailsOK(app', Account(app, db))
    BY <1>2, <1>5, <2>5, KeepsDetails, MemberOfUsers
  <2> QED
    BY <1>1, <1>2, <2>4, <2>6 DEF Account
<1>6. CASE TurnsToCup(c, app.net[i], app')
  <2>1. Idle(c) /\ \E arg : Goes(c, app', "/tournament", arg)
    BY <1>6 DEF TurnsToCup
  <2>2. AllSent(c)
    BY <2>1 DEF AllSent, Idle
  <2>3. JustAsked(app')
    BY <2>1, <2>2, GoesAsks
  <2> QED
    BY <2>3, AskedDetails
<1> QED
  BY <1>1, <1>3, <1>4, <1>5, <1>6

LEMMA HeardDetails ==
    ASSUME IsClient(app), IsDb(db), NEW u \in Users, Heard(u), DetailsOK(app, Account(app, db))
    PROVE  DetailsOK(app', Account(app', db'))
<1>1. PICK b \in BOOLEAN : /\ Knows(db, db', u, b)
                           /\ IF app.hub = u THEN TellsIn(app, app', b) ELSE app' = app
  BY DEF Heard
<1>2. Idle(app) /\ app.user \in Users /\ app.user # NoOne
  BY MemberOfUsers DEF Heard
<1> DEFINE old == Account(app, db)
           new == Account(app, db')
<1>3. /\ new.set = old.set /\ new.friends = old.friends
      /\ new.active = IF app.user = u THEN b ELSE old.active
  <2>1. db'.account = [db.account EXCEPT ![u].active = b]
    BY <1>1 DEF Knows
  <2>2. DOMAIN db.account = Users /\ DOMAIN db.account[app.user] = AccountFields
    BY <1>2 DEF IsDb
  <2> QED
    BY <1>2, <2>1, <2>2 DEF Account, AccountFields
<1> HIDE DEF new
<1>4. Agrees(app, app.details, old)
  BY <1>2 DEF DetailsOK, HasDetails, WillAgree, AgreesNow, Idle
<1> HIDE DEF old
<1>5. CASE app.hub # u
  <2>1. Agrees(app, app.details, new)
    BY <1>3, <1>4, <1>5 DEF Agrees
  <2>2. DetailsOK(app, new)
    BY <1>2, <2>1 DEF DetailsOK, AgreesNow, Idle
  <2>3. app' = app
    BY <1>1, <1>5
  <2>4. Account(app', db') = new
    BY <2>3 DEF new, Account
  <2> QED
    BY <2>2, <2>3, <2>4
<1>6. CASE app.hub = u
  <2>1. PICK e, m : /\ Only(app, e, {"details"}) /\ e.details = [app.details EXCEPT !.active = b]
                    /\ Grows(e, m, {})
                    /\ Only(m, app', {"notes", "alarms"}) \/ Goes(m, app', "/", <<>>)
    BY <1>1, <1>6 DEF TellsIn
  <2>2. e.net = app.net /\ e.user = app.user /\ e.hub = app.hub
    BY <2>1 DEF Only, ClientFields
  <2>3. Agrees(e, e.details, new)
    BY <1>3, <1>4, <1>6, <2>1, <2>2 DEF Agrees, Unknown
  <2>4. DetailsOK(e, new) /\ AllSent(e)
    BY <1>2, <2>2, <2>3 DEF DetailsOK, AgreesNow, Idle, AllSent
  <2>5. Keeps(e, m)
    BY <2>1, GrowsKeeps
  <2>6. DetailsOK(m, new) /\ m.user = app.user
    BY <1>2, <2>2, <2>4, <2>5, KeepsDetails DEF Keeps
  <2>7. CASE Only(m, app', {"notes", "alarms"})
    <3>1. Keeps(m, app')
      BY <2>7, OnlyKeeps
    <3>2. DetailsOK(app', new) /\ app'.user = app.user
      BY <1>2, <2>6, <3>1, KeepsDetails DEF Keeps
    <3> QED
      BY <3>2 DEF new, Account
  <2>8. CASE Goes(m, app', "/", <<>>)
    <3>1. \A i \in DOMAIN m.net : m.net[i].phase = "sent"
      <4> SUFFICES ASSUME NEW i \in DOMAIN m.net PROVE m.net[i].phase = "sent"
        OBVIOUS
      <4>1. Asked(e, m.net[i], {})
        BY <1>2, <2>1, <2>2 DEF Grows, Extends, Idle
      <4> QED
        BY <4>1 DEF Asked, Request
    <3>2. AllSent(m)
      BY <3>1 DEF AllSent
    <3>3. JustAsked(app')
      BY <2>8, <3>2, GoesAsks
    <3> QED
      BY <3>3, AskedDetails
  <2> QED
    BY <2>1, <2>7, <2>8
<1> QED
  BY <1>5, <1>6

DetailsInv == OrderInv /\ (calm /\ app.loggedIn => DetailsOK(app, Account(app, db)))

LEMMA NextKeepsDetails ==
    ASSUME DetailsInv, [Next]_vars PROVE DetailsInv'
<1>1. OrderInv /\ OrderInv'
  BY NextKeepsOrder DEF DetailsInv
<1> SUFFICES ASSUME calm', app'.loggedIn PROVE DetailsOK(app', Account(app', db'))
  BY <1>1 DEF DetailsInv
<1>2. CASE Opens(app')
  BY <1>2, OpensAsks, AskedDetails
<1>3. CASE calm /\ CalmStep
  <2>1. Member
    BY <1>1, <1>3, MemberIs
  <2>2. app.loggedIn => DetailsOK(app, Account(app, db))
    BY <1>3 DEF DetailsInv
  <2>3. IsClient(app) /\ Orderly(app) /\ IsDb(db)
    BY <1>1, <1>3, OrderIs
  <2>4. CASE UNCHANGED <<app, db>>
    BY <2>2, <2>4
  <2>5. ASSUME NEW i \in DOMAIN app.net, Serve(i), app.loggedIn
        PROVE  DetailsOK(app', Account(app', db'))
    BY <2>2, <2>3, <2>5, ServeDetails
  <2>6. ASSUME NEW i \in DOMAIN app.net, NEW n \in Ids, Answered(i, n)
        PROVE  DetailsOK(app', Account(app', db'))
    BY <2>2, <2>3, <2>6, AnsweredDetails
  <2>7. CASE Only(app, app', {"notes", "alarms"}) /\ UNCHANGED db
    <3>1. app.loggedIn /\ app'.user = app.user
      BY <2>7 DEF Only, ClientFields
    <3>2. Keeps(app, app') /\ app.user # NoOne
      BY <2>3, <2>7, <3>1, OnlyKeeps, MemberOfUsers
    <3>3. DetailsOK(app', Account(app, db))
      BY <2>2, <3>1, <3>2, KeepsDetails
    <3> QED
      BY <2>7, <3>1, <3>3 DEF Account
  <2>8. CASE Idle(app) /\ UNCHANGED db /\ app.loggedIn /\ Doing(app, app')
    <3>1. DetailsOK(app', Account(app, db)) /\ app'.user = app.user
      BY <2>2, <2>3, <2>8, DoingDetails
    <3> QED
      BY <2>8, <3>1 DEF Account
  <2>9. ASSUME NEW u \in Users, Heard(u) PROVE DetailsOK(app', Account(app', db'))
    <3>1. app.loggedIn
      BY <2>9 DEF Heard
    <3> QED
      BY <2>2, <2>3, <2>9, <3>1, HeardDetails
  <2> QED
    BY <2>1, <2>4, <2>5, <2>6, <2>7, <2>8, <2>9 DEF Member
<1> QED
  BY <1>1, <1>2, <1>3, StepsAre DEF OrderInv

\* People read of their own account what is stored, whoever used the browser before.
THEOREM PeopleSeeTheirAccount == Spec => []DetailsAgree
<1>1. Init => DetailsInv
  <2> SUFFICES ASSUME Init PROVE DetailsInv
    OBVIOUS
  <2>1. PagesInv /\ Opens(app)
    BY InitInOrder, InitOpens
  <2> QED
    BY <2>1, OpensAsks, AskedDetails DEF PagesInv, DetailsInv
<1>2. DetailsInv => DetailsAgree
  <2> SUFFICES ASSUME DetailsInv, Settled
               PROVE  Agrees(app, app.details, db.account[app.user])
    BY DEF DetailsAgree, Agrees
  <2>1. DetailsOK(app, Account(app, db))
    BY DEF DetailsInv, Settled
  <2>2. DOMAIN app.net = {}
    BY DEF Settled, InFlight
  <2> QED
    BY <2>1, <2>2 DEF DetailsOK, HasDetails, WillAgree, AgreesNow, Account
<1>3. DetailsInv /\ [Next]_vars => DetailsInv'
  BY NextKeepsDetails
<1> QED
  BY <1>1, <1>2, <1>3, PTL DEF Spec

-----------------------------------------------------------------------------
(* The tournament that is shown.                                             *)

CupMends == {"addPlayer", "addCourse", "calculatePrices"}
\* The tournament x after the answer r.
CupMended(x, r) ==
    CASE r.op = "addPlayer"       -> [x EXCEPT !.players = @ \cup {r.who}]
      [] r.op = "addCourse"       -> [x EXCEPT !.courses = @ \cup {r.data}]
      [] r.op = "calculatePrices" -> [x EXCEPT !.prices = r.data]
\* It is on its way; or an answer will mend it; or it is there.
HasCup(c) == \E i \in DOMAIN c.net : c.net[i].op = "tournament"
WillShowCup(c, x) ==
    \E i \in DOMAIN c.net : /\ c.net[i].op \in CupMends /\ c.net[i].phase = "ok"
                            /\ c.cup # NoCup /\ CupMended(c.cup, c.net[i]) = x
ShowsCup(c, x) ==
    /\ \A i \in DOMAIN c.net : c.net[i].op \in CupMends => c.net[i].phase = "sent"
    /\ c.cup = x
\* Requests are for the tournament in the address; who adds a course is its admin.
CupRequest(c, r, cups) ==
    /\ r.op = "tournament" => r.arg = c.arg /\ (r.phase = "ok" => r.data = cups[c.arg[1]])
    /\ r.op \in CupMends => r.arg[1] = c.arg[1]
    /\ r.op = "addCourse" => r.who = cups[c.arg[1]].admin /\ r.phase # "error"
CupThere(c, cups) ==
    /\ c.arg[1] \in DOMAIN cups
    /\ \A i \in DOMAIN c.net : CupRequest(c, c.net[i], cups)
    /\ HasCup(c) \/ WillShowCup(c, cups[c.arg[1]]) \/ ShowsCup(c, cups[c.arg[1]])
CupsMade(c, cups) ==
    \A i \in DOMAIN c.net :
        c.net[i].op = "createTournament" /\ c.net[i].phase = "ok" => c.net[i].data \in DOMAIN cups
CupOK(c, cups) == CupsMade(c, cups) /\ (c.at = "/tournament" => CupThere(c, cups))

\* d has the requests of c that touch tournaments.
KeepsCup(c, d) ==
    /\ d.cup = c.cup /\ d.at = c.at /\ d.arg = c.arg
    /\ \A j \in DOMAIN d.net : \/ d.net[j].op \notin CupOps \cup {"createTournament"}
                               \/ \E k \in DOMAIN c.net : d.net[j] = c.net[k]
    /\ \A k \in DOMAIN c.net :
          c.net[k].op \in CupOps => \E j \in DOMAIN d.net : d.net[j] = c.net[k]

LEMMA CupKept ==
    ASSUME NEW cups, NEW c, CupOK(c, cups), NEW d, KeepsCup(c, d) PROVE CupOK(d, cups)
<1>1. CupsMade(d, cups)
  <2> SUFFICES ASSUME NEW j \in DOMAIN d.net, d.net[j].op = "createTournament", d.net[j].phase = "ok"
               PROVE  d.net[j].data \in DOMAIN cups
    BY DEF CupsMade
  <2>1. PICK k \in DOMAIN c.net : d.net[j] = c.net[k]
    BY DEF KeepsCup
  <2> QED
    BY <2>1 DEF CupOK, CupsMade
<1> SUFFICES ASSUME d.at = "/tournament" PROVE CupThere(d, cups)
  BY <1>1 DEF CupOK
<1>2. CupThere(c, cups) /\ d.cup = c.cup /\ d.arg = c.arg
  BY DEF CupOK, KeepsCup
<1>3. ASSUME NEW j \in DOMAIN d.net PROVE CupRequest(d, d.net[j], cups)
  <2>1. CASE d.net[j].op \notin CupOps
    BY <2>1 DEF CupRequest, CupOps, CupMends
  <2>2. CASE d.net[j].op \in CupOps
    <3>1. PICK k \in DOMAIN c.net : d.net[j] = c.net[k]
      BY <2>2 DEF KeepsCup
    <3> QED
      BY <1>2, <3>1 DEF CupThere, CupRequest
  <2> QED
    BY <2>1, <2>2
<1>4. ASSUME NEW k \in DOMAIN c.net, c.net[k].op \in CupMends \cup {"tournament"}
      PROVE  \E j \in DOMAIN d.net : d.net[j] = c.net[k]
  BY <1>4 DEF KeepsCup, CupOps, CupMends
<1>5. HasCup(c) => HasCup(d)
  BY <1>4 DEF HasCup
<1>6. ASSUME WillShowCup(c, cups[c.arg[1]]) PROVE WillShowCup(d, cups[c.arg[1]])
  <2>1. PICK i \in DOMAIN c.net : /\ c.net[i].op \in CupMends /\ c.net[i].phase = "ok"
                                  /\ c.cup # NoCup /\ CupMended(c.cup, c.net[i]) = cups[c.arg[1]]
    BY <1>6 DEF WillShowCup
  <2>2. PICK j \in DOMAIN d.net : d.net[j] = c.net[i]
    BY <1>4, <2>1
  <2> QED
    BY <1>2, <2>1, <2>2 DEF WillShowCup
<1>7. ASSUME ShowsCup(c, cups[c.arg[1]]) PROVE ShowsCup(d, cups[c.arg[1]])
  <2>1. ASSUME NEW j \in DOMAIN d.net, d.net[j].op \in CupMends PROVE d.net[j].phase = "sent"
    <3>1. PICK k \in DOMAIN c.net : d.net[j] = c.net[k]
      BY <2>1 DEF KeepsCup, CupOps, CupMends
    <3> QED
      BY <1>7, <2>1, <3>1 DEF ShowsCup
  <2> QED
    BY <1>2, <1>7, <2>1 DEF ShowsCup
<1> QED
  BY <1>2, <1>3, <1>5, <1>6, <1>7 DEF CupThere

LEMMA GrowsCup ==
    ASSUME NEW c, NEW d, Grows(c, d, {}) PROVE KeepsCup(c, d)
<1>1. Same(c, d) /\ Extends(c, d, {})
  BY DEF Grows
<1>2. ASSUME NEW j \in DOMAIN d.net
      PROVE  \/ d.net[j].op \notin CupOps \cup {"createTournament"}
             \/ \E k \in DOMAIN c.net : d.net[j] = c.net[k]
  <2>1. CASE j \in DOMAIN c.net
    BY <1>1, <2>1 DEF Extends
  <2>2. CASE j \notin DOMAIN c.net
    <3>1. Asked(c, d.net[j], {})
      BY <1>1, <2>2 DEF Extends
    <3>2. d.net[j].op \in {"details", "moreDetails"}
      BY <3>1 DEF Asked
    <3> QED
      BY <3>2 DEF CupOps
  <2> QED
    BY <2>1, <2>2
<1> QED
  BY <1>1, <1>2 DEF KeepsCup, Same, Extends

LEMMA OnlyCup ==
    ASSUME NEW c, NEW S, NEW d, Only(c, d, S), S \cap {"net", "cup", "at", "arg"} = {}
    PROVE  KeepsCup(c, d)
BY DEF Only, ClientFields, KeepsCup

\* Elsewhere nothing but what was just asked for.
LEMMA ElsewhereCup ==
    ASSUME NEW d, AllSent(d), d.at # "/tournament", NEW cups PROVE CupOK(d, cups)
BY DEF AllSent, CupOK, CupsMade

\* Somebody who waited goes to a page, or looks at another part of it.
LEMMA ShownCup ==
    ASSUME NEW cups, NEW c, Idle(c), c.loggedIn, CupOK(c, cups), NEW a, IsClient(a), a.net = c.net,
           a.cup = c.cup, a.at = "/tournament" => a.arg[1] \in DOMAIN cups,
           NEW d, Shown(c, a, d)
    PROVE  CupOK(d, cups)
<1> DEFINE F == EffectsOf(c, a)
<1>1. Grows(a, d, F) /\ (\A f \in F : Makes(a, d, f)) /\ F \in SUBSET Range(Fetches(a))
  BY DEF Shown, EffectsOf
<1> HIDE DEF F
<1>2. DOMAIN a.net = {}
  BY DEF Idle
<1>3. d.at = a.at /\ d.arg = a.arg /\ d.cup = a.cup
  BY <1>1 DEF Grows, Same
<1>4. ASSUME NEW i \in DOMAIN d.net PROVE Asked(a, d.net[i], F)
  BY <1>1, <1>2 DEF Grows, Extends
<1>5. AllSent(d)
  <2> SUFFICES ASSUME NEW i \in DOMAIN d.net PROVE d.net[i].phase = "sent"
    BY DEF AllSent
  <2>1. Asked(a, d.net[i], F)
    BY <1>4
  <2> QED
    BY <2>1 DEF Asked, Request
<1>6. CASE d.at # "/tournament"
  BY <1>5, <1>6, ElsewhereCup
<1>7. CASE d.at = "/tournament"
  <2> DEFINE f == Fetch("tournament", a.arg)
  <2>1. Fetches(a) = <<f>>
    BY <1>3, <1>7 DEF Fetches
  <2>2. Range(Fetches(a)) = {f} /\ f.op = "tournament" /\ f.arg = a.arg
    BY <2>1 DEF Range, Fetch
  <2> HIDE DEF f
  <2>3. ASSUME NEW i \in DOMAIN d.net
        PROVE  /\ d.net[i].op \notin CupMends /\ d.net[i].phase = "sent"
               /\ d.net[i].op = "tournament" => d.net[i].arg = d.arg
    <3> DEFINE g == Fetch(d.net[i].op, d.net[i].arg)
    <3>1. Asked(a, d.net[i], F)
      BY <1>4
    <3>2. d.net[i].op \in Background
      BY <3>1 DEF Asked
    <3>3. d.net[i].op = "tournament" => g \in {f}
      BY <1>1, <2>2, <3>1 DEF Asked
    <3>4. g.op = d.net[i].op /\ g.arg = d.net[i].arg
      BY DEF Fetch
    <3> HIDE DEF g
    <3>5. d.net[i].op = "tournament" => d.net[i].arg = d.arg
      BY <1>3, <2>2, <3>3, <3>4
    <3>6. d.net[i].op \notin CupMends
      BY <3>2 DEF CupMends, Background, FetchOps
    <3> QED
      BY <1>5, <3>5, <3>6 DEF AllSent
  <2>4. ASSUME NEW i \in DOMAIN d.net PROVE CupRequest(d, d.net[i], cups)
    BY <2>3 DEF CupRequest, CupMends
  <2>5. CASE f \in F
    <3>1. Makes(a, d, f)
      BY <1>1, <2>5
    <3>2. HasCup(d)
      BY <2>2, <3>1 DEF Makes, HasCup
    <3>3. CupThere(d, cups)
      BY <1>3, <1>7, <2>4, <3>2 DEF CupThere
    <3> QED
      BY <1>5, <3>3 DEF CupOK, CupsMade, AllSent
  <2>6. CASE f \notin F
    <3>1. PICK g \in Range(Fetches(c)) : c.at = a.at /\ g.op = f.op /\ g.arg = f.arg
      BY <2>2, <2>6 DEF EffectsOf, F
    <3>2. c.at = "/tournament" /\ Fetches(c) = <<Fetch("tournament", c.arg)>>
      BY <1>3, <1>7, <3>1 DEF Fetches
    <3>3. g = Fetch("tournament", c.arg)
      BY <3>1, <3>2 DEF Range
    <3>4. c.arg = a.arg
      BY <2>2, <3>1, <3>3 DEF Fetch
    <3>5. c.cup = cups[c.arg[1]] /\ c.arg[1] \in DOMAIN cups
      BY <1>2, <3>2 DEF CupOK, CupThere, HasCup, WillShowCup, ShowsCup
    <3>6. ShowsCup(d, cups[d.arg[1]])
      BY <1>3, <2>3, <3>4, <3>5 DEF ShowsCup
    <3>7. CupThere(d, cups)
      BY <1>3, <2>4, <3>4, <3>5, <3>6 DEF CupThere
    <3> QED
      BY <1>5, <3>7 DEF CupOK, CupsMade, AllSent
  <2> QED
    BY <2>5, <2>6
<1> QED
  BY <1>6, <1>7

\* What the request does to the cup on the server and, answered, in the store.
LEMMA CupAfterwards ==
    ASSUME NEW d, IsDb(d), NEW r, r.op \in CupMends, r.arg[1] \in DOMAIN d.cups,
           NEW e, e = After(d, r), NEW q, q.op = r.op, q.who = r.who, q.arg = r.arg,
           q.data = Data(e, r)
    PROVE  e.cups[r.arg[1]] = CupMended(d.cups[r.arg[1]], q)
<1> DEFINE k == r.arg[1]
           x == d.cups[k]
<1>1. IsDb(e) /\ e.cups[k] = CupAfter(d, r)
  BY CupsAfter DEF CupMends, CupChanges
<1>2. DOMAIN x = CupFields
  BY DEF IsDb
<1>3. CASE r.op = "addPlayer"
  BY <1>1, <1>3 DEF CupAfter, CupMended
<1>4. CASE r.op = "addCourse"
  <2>1. q.data = r.arg[2]
    BY <1>4 DEF Data
  <2> QED
    BY <1>1, <1>4, <2>1 DEF CupAfter, CupMended
<1>5. CASE r.op = "calculatePrices"
  <2>1. q.data = e.cups[k].prices
    BY <1>5 DEF Data
  <2>2. e.cups[k] = [x EXCEPT !.prices = x.players]
    BY <1>1, <1>5 DEF CupAfter
  <2>3. e.cups[k].prices = x.players
    BY <1>2, <2>2 DEF CupFields
  <2> QED
    BY <1>5, <2>1, <2>2, <2>3 DEF CupMended
<1> QED
  BY <1>3, <1>4, <1>5 DEF CupMends

LEMMA CupReceived ==
    ASSUME NEW c, IsClient(c), NEW r, r.op \in CupMends, c.cup # NoCup
    PROVE  TournamentReduced(c, r).cup = CupMended(c.cup, r)
<1>1. "cup" \in DOMAIN c
  BY DEF IsClient, ClientFields
<1>2. CASE r.op = "addPlayer"
  BY <1>1, <1>2 DEF TournamentReduced, CupMended
<1>3. CASE r.op = "addCourse"
  BY <1>1, <1>3 DEF TournamentReduced, CupMended
<1>4. CASE r.op = "calculatePrices"
  BY <1>1, <1>4 DEF TournamentReduced, CupMended
<1> QED
  BY <1>2, <1>3, <1>4 DEF CupMends

LEMMA CupIsNamed ==
    ASSUME NEW d, IsDb(d), NEW k \in DOMAIN d.cups PROVE d.cups[k] # NoCup
<1>1. k \in 1..Len(d.cups) /\ Len(d.cups) \in Nat
  BY DEF IsDb, IsSequence
<1>2. d.cups[k].id = k
  BY DEF IsDb
<1> QED
  BY <1>1, <1>2 DEF NoCup

LEMMA CupAlone ==
    ASSUME NEW c, Orderly(c), NEW i \in DOMAIN c.net, c.net[i].op \in CupMends
    PROVE  (\A j \in DOMAIN c.net : j = i) /\ c.net[i].who = c.user /\ c.net[i].op \notin Background
<1>1. c.net[i].op \notin Background /\ c.net[i].op \notin Free
  BY DEF CupMends, Background, FetchOps, Free
<1> QED
  BY <1>1 DEF Orderly, Waits, InTime

\* The admin of a tournament stays the same.
LEMMA AdminStays ==
    ASSUME NEW d, IsDb(d), NEW r, NEW e, e = After(d, r), NEW k \in DOMAIN d.cups
    PROVE  /\ k \in DOMAIN e.cups /\ e.cups[k].admin = d.cups[k].admin
           /\ ~(r.op \in CupMends /\ r.arg[1] = k) => e.cups[k] = d.cups[k]
<1>1. DOMAIN d.cups \subseteq DOMAIN e.cups /\ (r.op \notin CupChanges => e.cups = d.cups)
  BY AfterIs
<1>2. CASE r.op \notin CupChanges
  BY <1>1, <1>2 DEF CupChanges, CupMends
<1>3. CASE r.op \in CupChanges
  <2>1. /\ r.op = "createTournament" => \A j \in DOMAIN d.cups : e.cups[j] = d.cups[j]
        /\ \A j \in DOMAIN d.cups : j # r.arg[1] => e.cups[j] = d.cups[j]
        /\ r.op # "createTournament" /\ r.arg[1] \in DOMAIN d.cups =>
             e.cups[r.arg[1]] = CupAfter(d, r)
    BY <1>3, CupsAfter
  <2>2. CASE k # r.arg[1] \/ r.op = "createTournament"
    BY <1>1, <2>1, <2>2 DEF CupMends
  <2>3. CASE k = r.arg[1] /\ r.op # "createTournament"
    <3>1. e.cups[k] = CupAfter(d, r) /\ r.op \in CupMends
      BY <1>3, <2>1, <2>3 DEF CupMends, CupChanges
    <3>2. DOMAIN d.cups[k] = CupFields
      BY DEF IsDb
    <3>3. e.cups[k].admin = d.cups[k].admin
      BY <2>3, <3>1, <3>2 DEF CupAfter, CupFields, CupMends
    <3> QED
      BY <1>1, <2>3, <3>1, <3>3
  <2> QED
    BY <2>2, <2>3
<1> QED
  BY <1>2, <1>3

LEMMA ServeCup ==
    ASSUME IsClient(app), Orderly(app), IsDb(db), CupOK(app, db.cups),
           NEW i \in DOMAIN app.net, Serve(i)
    PROVE  CupOK(app', db'.cups)
<1> DEFINE r == app.net[i]
           k == app.arg[1]
<1>1. r.phase = "sent" /\ \E q : Served(r, q, db, db') /\ Changes(app, app', i, q)
  BY ServeIs
<1>2. PICK q : Served(r, q, db, db') /\ Changes(app, app', i, q)
  BY <1>1
<1>3. /\ app'.cup = app.cup /\ app'.at = app.at /\ app'.arg = app.arg
      /\ DOMAIN app'.net = DOMAIN app.net /\ app'.net[i] = q
      /\ \A j \in DOMAIN app.net : j # i => app'.net[j] = app.net[j]
  BY <1>2 DEF Changes, Only, ClientFields
<1>4. q.op = r.op /\ q.arg = r.arg /\ q.who = r.who
  BY <1>2 DEF Served
<1> HIDE DEF r
<1>5. \/ r.op \in Refusable /\ Refuses(db, r) /\ q.phase = "error" /\ db' = db
      \/ q.phase = "ok" /\ q.data = Data(db', r) /\ db' = After(db, r)
  BY <1>2 DEF Served
<1>6. IsDb(db') /\ DOMAIN db.cups \subseteq DOMAIN db'.cups
  BY <1>5, AfterIs
<1>7. CupsMade(app', db'.cups)
  <2> SUFFICES ASSUME NEW j \in DOMAIN app'.net, app'.net[j].op = "createTournament",
                      app'.net[j].phase = "ok"
               PROVE  app'.net[j].data \in DOMAIN db'.cups
    BY DEF CupsMade
  <2>1. CASE j # i
    BY <1>3, <1>6, <2>1 DEF CupOK, CupsMade
  <2>2. CASE j = i
    <3>1. r.op = "createTournament" /\ q.data = Data(db', r) /\ db' = After(db, r)
      BY <1>3, <1>4, <1>5, <2>2
    <3>2. Len(db'.cups) \in DOMAIN db'.cups
      BY <3>1, CupsAfter DEF CupChanges
    <3>3. q.data = Len(db'.cups)
      BY <3>1 DEF Data
    <3> QED
      BY <1>3, <2>2, <3>2, <3>3
  <2> QED
    BY <2>1, <2>2
<1> SUFFICES ASSUME app'.at = "/tournament" PROVE CupThere(app', db'.cups)
  BY <1>7 DEF CupOK
<1>8. CupThere(app, db.cups)
  BY <1>3 DEF CupOK
<1>9. k \in DOMAIN db.cups /\ k \in DOMAIN db'.cups
  BY <1>6, <1>8 DEF CupThere
<1>10. db'.cups[k].admin = db.cups[k].admin
  BY <1>5, <1>9, AdminStays
<1>11. r.op \in CupMends => q.phase = "ok" /\ r.arg[1] = k
  <2> SUFFICES ASSUME r.op \in CupMends PROVE q.phase = "ok" /\ r.arg[1] = k
    OBVIOUS
  <2>1. CupRequest(app, r, db.cups)
    BY <1>8 DEF CupThere, r
  <2>2. r.arg[1] = k
    BY <2>1 DEF CupRequest
  <2>3. ~(Refuses(db, r) /\ r.op \in Refusable)
    <3>1. r.op = "addCourse" => r.who = db.cups[k].admin
      BY <2>1 DEF CupRequest
    <3> QED
      BY <2>2, <3>1 DEF Refuses, Refusable, CupMends
  <2> QED
    BY <1>5, <2>2, <2>3
<1> HIDE DEF k
<1>12. CASE r.op \in CupMends
  <2>1. \A j \in DOMAIN app.net : j = i
    BY <1>12, CupAlone DEF r
  <2>2. app.cup = db.cups[k]
    BY <1>1, <1>8, <1>12, <2>1 DEF CupThere, HasCup, WillShowCup, ShowsCup, CupMends, r, k
  <2>3. db' = After(db, r) /\ q.data = Data(db', r) /\ q.phase = "ok"
    BY <1>5, <1>11, <1>12
  <2>4. db'.cups[k] = CupMended(app'.cup, q)
    BY <1>3, <1>4, <1>9, <1>11, <1>12, <2>2, <2>3, CupAfterwards
  <2>5. app'.cup # NoCup
    BY <1>3, <1>9, <2>2, CupIsNamed
  <2>6. WillShowCup(app', db'.cups[k])
    BY <1>3, <1>4, <1>12, <2>3, <2>4, <2>5 DEF WillShowCup
  <2>7. CupRequest(app', q, db'.cups)
    <3>1. CupRequest(app, r, db.cups)
      BY <1>8 DEF CupThere, r
    <3> QED
      BY <1>3, <1>4, <1>10, <1>12, <2>3, <3>1 DEF CupRequest, CupMends, k
  <2>8. \A j \in DOMAIN app'.net : CupRequest(app', app'.net[j], db'.cups)
    BY <1>3, <2>1, <2>7
  <2> QED
    BY <1>3, <1>9, <2>6, <2>8 DEF CupThere, k
<1>13. CASE r.op \notin CupMends
  <2>1. db'.cups[k] = db.cups[k]
    BY <1>5, <1>9, <1>13, AdminStays
  <2>2. ASSUME NEW j \in DOMAIN app'.net PROVE CupRequest(app', app'.net[j], db'.cups)
    <3>1. CupRequest(app, app.net[j], db.cups)
      BY <1>3, <1>8 DEF CupThere
    <3>2. CASE j # i
      BY <1>3, <1>10, <2>1, <3>1, <3>2 DEF CupRequest, k
    <3>3. CASE j = i
      <4>1. q.op = "tournament" => q.arg = app.arg /\ (q.phase = "ok" => q.data = db'.cups[k])
        <5> SUFFICES ASSUME q.op = "tournament"
                     PROVE  q.arg = app.arg /\ (q.phase = "ok" => q.data = db'.cups[k])
          OBVIOUS
        <5>1. q.arg = app.arg
          BY <1>4, <3>1, <3>3 DEF CupRequest, r
        <5>2. Data(db', r) = db'.cups[r.arg[1]]
          BY <1>4 DEF Data
        <5> QED
          BY <1>4, <1>5, <5>1, <5>2 DEF k, Refusable
      <4> QED
        BY <1>3, <1>4, <1>13, <3>3, <4>1 DEF CupRequest, CupMends, k
    <3> QED
      BY <3>2, <3>3
  <2>3. HasCup(app) => HasCup(app')
    BY <1>3, <1>4 DEF HasCup, r
  <2>4. ASSUME WillShowCup(app, db.cups[k]) PROVE WillShowCup(app', db.cups[k])
    <3>1. PICK j \in DOMAIN app.net : /\ app.net[j].op \in CupMends /\ app.net[j].phase = "ok"
                                      /\ app.cup # NoCup /\ CupMended(app.cup, app.net[j]) = db.cups[k]
      BY <2>4 DEF WillShowCup
    <3>2. j # i
      BY <1>13, <3>1 DEF r
    <3> QED
      BY <1>3, <3>1, <3>2 DEF WillShowCup
  <2>5. ASSUME ShowsCup(app, db.cups[k]) PROVE ShowsCup(app', db.cups[k])
    BY <1>3, <1>4, <1>13, <2>5 DEF ShowsCup
  <2> QED
    BY <1>3, <1>8, <1>9, <2>1, <2>2, <2>3, <2>4, <2>5 DEF CupThere, k
<1> QED
  BY <1>12, <1>13

\* An answer that brings the tournament, mends it or leaves it alone.
LEMMA ReceivesCup ==
    ASSUME IsClient(app), Orderly(app), IsDb(db), CupOK(app, db.cups),
           NEW i \in DOMAIN app.net, NEW c, Took(c, i), NEW n, Receives(c, app.net[i], app', n)
    PROVE  CupOK(app', db.cups)
<1> DEFINE r == app.net[i]
           k == app.arg[1]
<1>1. PICK b : b = Reduced(c, r, n) /\ Only(c, b, Parts(r.op)) /\ Grows(b, app', {})
  BY DEF Receives
<1>2. /\ c.cup = app.cup /\ c.at = app.at /\ c.arg = app.arg /\ IsClient(c)
      /\ Waits(c) /\ (r.op \notin Background => Idle(c))
  BY DEF Took, Takes, Only, ClientFields
<1>3. /\ \A j \in DOMAIN c.net : \E m \in DOMAIN app.net \ {i} : c.net[j] = app.net[m]
      /\ \A m \in DOMAIN app.net \ {i} : \E j \in DOMAIN c.net : c.net[j] = app.net[m]
  BY TakesRest DEF Took
<1>9. Only(c, b, Parts(r.op))
  BY <1>1
<1>4. b.net = c.net /\ b.at = c.at /\ b.arg = c.arg
  BY <1>9, PartsArePage DEF SamePage
<1>5. r.phase = "ok"
  BY DEF Receives
<1>10. CupsMade(b, db.cups)
  <2> SUFFICES ASSUME NEW j \in DOMAIN b.net, b.net[j].op = "createTournament", b.net[j].phase = "ok"
               PROVE  b.net[j].data \in DOMAIN db.cups
    BY DEF CupsMade
  <2>1. PICK m \in DOMAIN app.net : b.net[j] = app.net[m]
    BY <1>3, <1>4
  <2> QED
    BY <2>1 DEF CupOK, CupsMade
<1>11. ASSUME b.at = "/tournament", NEW j \in DOMAIN b.net PROVE CupRequest(b, b.net[j], db.cups)
  <2>1. PICK m \in DOMAIN app.net : b.net[j] = app.net[m]
    BY <1>3, <1>4, <1>11
  <2>2. CupRequest(app, app.net[m], db.cups)
    BY <1>2, <1>4, <1>11 DEF CupOK, CupThere
  <2> QED
    BY <1>2, <1>4, <2>1, <2>2 DEF CupRequest
<1>6. \A j \in DOMAIN b.net : b.net[j].op \notin CupMends
  BY <1>2, <1>4 DEF Waits, CupMends, Background, FetchOps
<1>7. CupOK(b, db.cups)
  <2>1. CASE r.op \in CupOps
    <3> SUFFICES ASSUME b.at = "/tournament" PROVE CupThere(b, db.cups)
      BY <1>10 DEF CupOK
    <3>1. CupThere(app, db.cups)
      BY <1>2, <1>4 DEF CupOK
    <3>2. b = TournamentReduced(c, r)
      BY <1>1, <2>1 DEF Reduced, CupOps, NeedsDetails, NothingShown
    <3> HIDE DEF r
    <3>3. b.cup = db.cups[k]
      <4>1. CASE r.op = "tournament"
        <5>1. r.data = db.cups[k]
          BY <1>5, <3>1, <4>1 DEF CupThere, CupRequest, r
        <5>2. b = [c EXCEPT !.cup = r.data]
          BY <3>2, <4>1 DEF TournamentReduced
        <5> QED
          BY <1>2, <5>1, <5>2 DEF IsClient, ClientFields
      <4>2. CASE r.op \in CupMends
        <5>1. \A j \in DOMAIN app.net : j = i
          BY <4>2, CupAlone DEF r
        <5>2. app.cup # NoCup /\ CupMended(app.cup, r) = db.cups[k]
          BY <1>5, <3>1, <4>2, <5>1 DEF CupThere, HasCup, WillShowCup, ShowsCup, CupMends, r
        <5> QED
          BY <1>2, <3>2, <4>2, <5>2, CupReceived
      <4> QED
        BY <2>1, <4>1, <4>2 DEF CupOps, CupMends
    <3>4. ShowsCup(b, db.cups[k])
      BY <1>6, <3>3 DEF ShowsCup
    <3> QED
      BY <1>2, <1>4, <1>11, <3>1, <3>4 DEF CupThere
  <2>2. CASE r.op \notin CupOps
    <3>1. b.cup = c.cup
      BY <1>9, <2>2 DEF Only, ClientFields, Parts
    <3>2. ASSUME NEW m \in DOMAIN app.net, app.net[m].op \in CupOps
          PROVE  \E j \in DOMAIN b.net : b.net[j] = app.net[m]
      BY <1>3, <1>4, <2>2, <3>2
    <3>3. KeepsCup(app, b)
      BY <1>2, <1>3, <1>4, <3>1, <3>2 DEF KeepsCup
    <3> QED
      BY <3>3, CupKept
  <2> QED
    BY <2>1, <2>2
<1>8. KeepsCup(b, app')
  BY <1>1, GrowsCup
<1> QED
  BY <1>7, <1>8, CupKept

LEMMA AnsweredCup ==
    ASSUME IsClient(app), Orderly(app), IsDb(db), NEW i \in DOMAIN app.net, NEW n, Answered(i, n),
           app.loggedIn => CupOK(app, db.cups)
    PROVE  CupOK(app', db'.cups)
<1>1. PICK c : /\ Took(c, i) /\ UNCHANGED db
               /\ \/ Arrives(app')
                  \/ c.loggedIn /\ Receives(c, app.net[i], app', n)
                  \/ c.loggedIn /\ IsRefused(c, app.net[i], app')
                  \/ TurnsToCup(c, app.net[i], app')
  BY DEF Answered
<1>2. c.cup = app.cup /\ c.at = app.at /\ c.arg = app.arg /\ c.loggedIn = app.loggedIn
  BY <1>1 DEF Took, Takes, Only, ClientFields
<1>3. CASE Arrives(app')
  <2>1. AllSent(app') /\ app'.at # "/tournament"
    BY <1>3 DEF Arrives, AllSent
  <2> QED
    BY <2>1, ElsewhereCup
<1>4. CASE c.loggedIn /\ Receives(c, app.net[i], app', n)
  BY <1>1, <1>2, <1>4, ReceivesCup
<1>5. CASE c.loggedIn /\ IsRefused(c, app.net[i], app')
  <2>1. /\ app.net[i].op \in {"updateCourse", "addCourse"} /\ app.net[i].phase = "error"
        /\ Only(c, app', {"notes", "alarms", "cup"})
        /\ app.net[i].op = "updateCourse" => app'.cup = c.cup
    BY <1>5 DEF IsRefused
  <2>2. /\ \A j \in DOMAIN c.net : \E k \in DOMAIN app.net \ {i} : c.net[j] = app.net[k]
        /\ \A k \in DOMAIN app.net \ {i} : \E j \in DOMAIN c.net : c.net[j] = app.net[k]
    BY <1>1, TakesRest DEF Took
  <2>3. app'.net = c.net /\ app'.at = c.at /\ app'.arg = c.arg
    BY <2>1 DEF Only, ClientFields
  <2>4. CASE app.net[i].op = "updateCourse"
    <3>1. ASSUME NEW m \in DOMAIN app.net, app.net[m].op \in CupOps
          PROVE  \E j \in DOMAIN app'.net : app'.net[j] = app.net[m]
      BY <2>2, <2>3, <2>4, <3>1 DEF CupOps
    <3>2. KeepsCup(app, app')
      BY <1>2, <2>1, <2>2, <2>3, <2>4, <3>1 DEF KeepsCup
    <3> QED
      BY <1>1, <1>2, <1>5, <3>2, CupKept
  <2>5. CASE app.net[i].op = "addCourse"
    <3>1. app.at # "/tournament"
      BY <1>2, <1>5, <2>1, <2>5 DEF CupOK, CupThere, CupRequest
    <3>2. DOMAIN app'.net = {}
      <4>1. app.net[i].op \notin Background
        BY <2>5 DEF Background, FetchOps
      <4> QED
        BY <1>1, <2>3, <4>1 DEF Took, Idle
    <3> QED
      BY <1>2, <2>3, <3>1, <3>2 DEF CupOK, CupsMade
  <2> QED
    BY <2>1, <2>4, <2>5
<1>6. CASE TurnsToCup(c, app.net[i], app')
  <2> DEFINE arg == <<app.net[i].data>>
  <2>1. /\ app.net[i].op = "createTournament" /\ app.net[i].phase = "ok" /\ Idle(c) /\ c.loggedIn
        /\ c.at # "/tournament" /\ Goes(c, app', "/tournament", arg)
    BY <1>6 DEF TurnsToCup
  <2>2. arg[1] \in DOMAIN db.cups
    BY <1>2, <2>1 DEF CupOK, CupsMade
  <2>3. CupOK(c, db.cups)
    BY <2>1 DEF CupOK, CupsMade, Idle
  <2> HIDE DEF arg
  <2>4. PICK a : Elsewhere(c, a, "/tournament", arg) /\ Shown(c, a, app')
    BY <2>1 DEF Goes
  <2>5. IsClient(a) /\ a.net = c.net /\ a.cup = c.cup /\ a.arg = arg
    BY <2>4 DEF Elsewhere
  <2>6. CupOK(app', db.cups)
    BY <2>1, <2>2, <2>3, <2>4, <2>5, ShownCup
  <2> QED
    BY <1>1, <2>6
<1> QED
  BY <1>1, <1>3, <1>4, <1>5, <1>6

LEMMA DoingCup ==
    ASSUME IsClient(app), Idle(app), app.loggedIn, CupOK(app, db.cups), Doing(app, app')
    PROVE  CupOK(app', db.cups)
<1>1. ASSUME NEW at, NEW arg, at = "/tournament" => arg[1] \in DOMAIN db.cups,
             Goes(app, app', at, arg)
      PROVE  CupOK(app', db.cups)
  <2>1. PICK a : Elsewhere(app, a, at, arg) /\ Shown(app, a, app')
    BY <1>1 DEF Goes
  <2>2. IsClient(a) /\ a.net = app.net /\ a.cup = app.cup /\ a.arg = arg /\ a.at = at
    BY <2>1 DEF Elsewhere
  <2> QED
    BY <1>1, <2>1, <2>2, ShownCup
<1>2. ASSUME NEW view, LooksAt(app, app', view) PROVE CupOK(app', db.cups)
  <2>1. PICK a : Looks(app, a, view) /\ Shown(app, a, app')
    BY <1>2 DEF LooksAt
  <2>2. IsClient(a) /\ a.net = app.net /\ a.cup = app.cup /\ a.arg = app.arg /\ a.at = app.at
    BY <2>1 DEF Looks
  <2>3. a.at = "/tournament" => a.arg[1] \in DOMAIN db.cups
    BY <2>2 DEF CupOK, CupThere
  <2> QED
    BY <2>1, <2>2, <2>3, ShownCup
<1>3. CASE AsksOne(app, app')
  <2>1. PICK a : /\ OtherHole(app, a)
                 /\ \/ app' = a
                    \/ \E op, arg, who : Mine(op, arg, who) /\ Appends(a, app', Request(op, arg, who))
    BY <1>3 DEF AsksOne
  <2>2. KeepsCup(app, a) /\ DOMAIN a.net = {}
    BY <2>1 DEF OtherHole, Looks, KeepsCup, Idle
  <2>3. CupOK(a, db.cups)
    BY <2>2, CupKept
  <2>4. ASSUME NEW op, NEW arg, NEW who, Mine(op, arg, who), Appends(a, app', Request(op, arg, who))
        PROVE  CupOK(app', db.cups)
    <3> DEFINE r == Request(op, arg, who)
    <3>1. r.phase = "sent" /\ r.op = op /\ r.arg = arg /\ r.who = who
      BY DEF Request
    <3>2. PICK k : DOMAIN app'.net = {k} /\ app'.net[k] = r
      BY <2>2, <2>4 DEF Appends
    <3>3. app'.cup = a.cup /\ app'.at = a.at /\ app'.arg = a.arg
      BY <2>4 DEF Appends, Same
    <3> HIDE DEF r
    <3>4. AllSent(app') /\ CupsMade(app', db.cups)
      BY <3>1, <3>2 DEF AllSent, CupsMade
    <3> SUFFICES ASSUME app'.at = "/tournament" PROVE CupThere(app', db.cups)
      BY <3>4 DEF CupOK
    <3>5. a.arg = app.arg /\ a.at = app.at /\ a.cup = app.cup
      BY <2>2 DEF KeepsCup
    <3>6. a.arg[1] \in DOMAIN db.cups /\ a.cup = db.cups[a.arg[1]]
      BY <2>2, <2>3, <3>3 DEF CupOK, CupThere, HasCup, WillShowCup, ShowsCup
    <3>7. op # "tournament"
      BY <2>4 DEF Mine, Allowed, AllowedFreely
    <3>8. op \in CupMends => arg[1] = app.arg[1]
      BY <2>4 DEF Mine, Allowed, AllowedFreely, CupMends
    <3>9. op = "addCourse" => who = app.user /\ app.user = app.cup.admin
      BY <2>4 DEF Mine, Allowed, AllowedFreely
    <3>10. CupRequest(app', r, db.cups)
      BY <3>1, <3>3, <3>5, <3>6, <3>7, <3>8, <3>9 DEF CupRequest
    <3>11. ShowsCup(app', db.cups[app'.arg[1]])
      BY <3>3, <3>4, <3>6 DEF ShowsCup, AllSent
    <3> QED
      BY <3>2, <3>3, <3>6, <3>10, <3>11 DEF CupThere
  <2> QED
    BY <2>1, <2>3, <2>4
<1>4. CASE Quietly(app, app')
  <2>1. PICK e : Grows(app, e, {}) /\ Only(e, app', {"notes", "hub"})
    BY <1>4 DEF Quietly
  <2>2. KeepsCup(app, e)
    BY <2>1, GrowsCup
  <2>3. KeepsCup(e, app')
    BY <2>1, OnlyCup
  <2>4. CupOK(e, db.cups)
    BY <2>2, CupKept
  <2> QED
    BY <2>3, <2>4, CupKept
<1> QED
  BY <1>1, <1>2, <1>3, <1>4 DEF Doing

LEMMA HeardCup ==
    ASSUME IsClient(app), NEW u \in Users, Heard(u), CupOK(app, db.cups) PROVE CupOK(app', db'.cups)
<1>1. PICK b \in BOOLEAN : /\ Knows(db, db', u, b)
                           /\ IF app.hub = u THEN TellsIn(app, app', b) ELSE app' = app
  BY DEF Heard
<1>2. db'.cups = db.cups
  BY <1>1 DEF Knows
<1>3. CASE app' = app
  BY <1>2, <1>3
<1>4. CASE TellsIn(app, app', b)
  <2>1. PICK e, m : /\ Only(app, e, {"details"}) /\ Grows(e, m, {}) /\ Idle(app)
                    /\ Only(m, app', {"notes", "alarms"}) \/ Goes(m, app', "/", <<>>)
    BY <1>4 DEF TellsIn
  <2>2. KeepsCup(app, e)
    BY <2>1, OnlyCup
  <2>3. KeepsCup(e, m)
    BY <2>1, GrowsCup
  <2>4. CupOK(e, db.cups)
    BY <2>2, CupKept
  <2>5. CupOK(m, db.cups)
    BY <2>3, <2>4, CupKept
  <2>6. CASE Only(m, app', {"notes", "alarms"})
    <3>1. KeepsCup(m, app')
      BY <2>6, OnlyCup
    <3> QED
      BY <1>2, <2>5, <3>1, CupKept
  <2>7. CASE Goes(m, app', "/", <<>>)
    <3>1. DOMAIN e.net = {}
      BY <2>1 DEF Only, ClientFields, Idle
    <3>2. \A j \in DOMAIN m.net : m.net[j].phase = "sent"
      <4> SUFFICES ASSUME NEW j \in DOMAIN m.net PROVE m.net[j].phase = "sent"
        OBVIOUS
      <4>1. Asked(e, m.net[j], {})
        BY <2>1, <3>1 DEF Grows, Extends
      <4> QED
        BY <4>1 DEF Asked, Request
    <3>3. AllSent(m)
      BY <3>2 DEF AllSent
    <3>4. AllSent(app')
      BY <2>7, <3>3, GoesAsks DEF JustAsked, AllSent
    <3>5. app'.at = "/"
      BY <2>7 DEF Goes, Elsewhere, Shown, Grows, Same
    <3> QED
      BY <3>4, <3>5, ElsewhereCup
  <2> QED
    BY <2>1, <2>6, <2>7
<1> QED
  BY <1>1, <1>3, <1>4

LEMMA OpensCup ==
    ASSUME NEW d, Opens(d), d.loggedIn, NEW cups PROVE CupOK(d, cups)
<1>1. AllSent(d)
  BY OpensAsks DEF JustAsked, AllSent
<1>2. d.at # "/tournament"
  BY DEF Opens, Opened, Grows, Same
<1> QED
  BY <1>1, <1>2, ElsewhereCup

CupInv == OrderInv /\ (calm /\ app.loggedIn => CupOK(app, db.cups))

LEMMA NextKeepsCup ==
    ASSUME CupInv, [Next]_vars PROVE CupInv'
<1>1. OrderInv /\ OrderInv'
  BY NextKeepsOrder DEF CupInv
<1> SUFFICES ASSUME calm', app'.loggedIn PROVE CupOK(app', db'.cups)
  BY <1>1 DEF CupInv
<1>2. CASE Opens(app')
  BY <1>2, OpensCup
<1>3. CASE calm /\ CalmStep
  <2>1. Member
    BY <1>1, <1>3, MemberIs
  <2>2. app.loggedIn => CupOK(app, db.cups)
    BY <1>3 DEF CupInv
  <2>3. IsClient(app) /\ Orderly(app) /\ IsDb(db)
    BY <1>1, <1>3, OrderIs
  <2>4. CASE UNCHANGED <<app, db>>
    BY <2>2, <2>4
  <2>5. ASSUME NEW i \in DOMAIN app.net, Serve(i), app.loggedIn PROVE CupOK(app', db'.cups)
    BY <2>2, <2>3, <2>5, ServeCup
  <2>6. ASSUME NEW i \in DOMAIN app.net, NEW n \in Ids, Answered(i, n) PROVE CupOK(app', db'.cups)
    BY <2>2, <2>3, <2>6, AnsweredCup
  <2>7. CASE Only(app, app', {"notes", "alarms"}) /\ UNCHANGED db
    <3>1. app.loggedIn
      BY <2>7 DEF Only, ClientFields
    <3>2. KeepsCup(app, app')
      BY <2>7, OnlyCup
    <3> QED
      BY <2>2, <2>7, <3>1, <3>2, CupKept
  <2>8. CASE Idle(app) /\ UNCHANGED db /\ app.loggedIn /\ Doing(app, app')
    BY <2>2, <2>3, <2>8, DoingCup
  <2>9. ASSUME NEW u \in Users, Heard(u) PROVE CupOK(app', db'.cups)
    <3>1. app.loggedIn
      BY <2>9 DEF Heard
    <3> QED
      BY <2>2, <2>3, <2>9, <3>1, HeardCup
  <2> QED
    BY <2>1, <2>4, <2>5, <2>6, <2>7, <2>8, <2>9 DEF Member
<1> QED
  BY <1>1, <1>2, <1>3, StepsAre DEF OrderInv

-----------------------------------------------------------------------------
(* Steps that carry over the courses and the feed, whoever is logged in.     *)

Carries(c, d) ==
    /\ d.courses = c.courses /\ d.feed \in {c.feed, NoFeed}
    /\ \A j \in DOMAIN d.net : \/ d.net[j].phase = "sent"
                               \/ \E k \in DOMAIN c.net : d.net[j] = c.net[k]
    /\ \A k \in DOMAIN c.net : c.net[k].op = "updateCourse" /\ c.net[k].phase = "ok" =>
                                 \E j \in DOMAIN d.net : d.net[j] = c.net[k]

LEMMA CarriesOn ==
    ASSUME NEW c, NEW d, NEW e, Carries(c, d), Carries(d, e) PROVE Carries(c, e)
<1>1. ASSUME NEW j \in DOMAIN e.net
      PROVE  e.net[j].phase = "sent" \/ \E k \in DOMAIN c.net : e.net[j] = c.net[k]
  BY DEF Carries
<1>2. ASSUME NEW k \in DOMAIN c.net, c.net[k].op = "updateCourse", c.net[k].phase = "ok"
      PROVE  \E j \in DOMAIN e.net : e.net[j] = c.net[k]
  <2>1. PICK j \in DOMAIN d.net : d.net[j] = c.net[k]
    BY <1>2 DEF Carries
  <2> QED
    BY <1>2, <2>1 DEF Carries
<1>3. e.courses = c.courses /\ e.feed \in {c.feed, NoFeed}
  BY DEF Carries
<1> QED
  BY <1>1, <1>2, <1>3 DEF Carries

LEMMA AlikeCarries ==
    ASSUME NEW c, NEW d, d.net = c.net, d.courses = c.courses, d.feed = c.feed PROVE Carries(c, d)
BY DEF Carries

LEMMA OnlyCarries ==
    ASSUME NEW c, NEW S, NEW d, Only(c, d, S), S \cap {"net", "courses", "feed"} = {}
    PROVE  Carries(c, d)
<1>1. d.net = c.net /\ d.courses = c.courses /\ d.feed = c.feed
  BY DEF Only, ClientFields
<1> QED
  BY <1>1, AlikeCarries

LEMMA GrowsCarries ==
    ASSUME NEW c, NEW d, NEW F, Grows(c, d, F) PROVE Carries(c, d)
<1>1. Keeps(c, d) /\ Extends(c, d, F)
  BY GrowsKeeps DEF Grows
<1>2. ASSUME NEW j \in DOMAIN d.net
      PROVE  d.net[j].phase = "sent" \/ \E k \in DOMAIN c.net : d.net[j] = c.net[k]
  <2>1. CASE j \in DOMAIN c.net
    BY <1>1, <2>1 DEF Extends
  <2>2. CASE j \notin DOMAIN c.net
    <3>1. Asked(c, d.net[j], F)
      BY <1>1, <2>2 DEF Extends
    <3> QED
      BY <3>1 DEF Asked, Request
  <2> QED
    BY <2>1, <2>2
<1> QED
  BY <1>1, <1>2 DEF Carries, Grows, Same, Extends

LEMMA LooksCarries ==
    ASSUME NEW c, NEW d, NEW view, Looks(c, d, view) PROVE Carries(c, d)
BY AlikeCarries DEF Looks

LEMMA PushCarries ==
    ASSUME NEW c, IsClient(c), NEW at, NEW arg, Addressed(at, arg), NEW d, d = Push(c, at, arg)
    PROVE  Carries(c, d)
<1>1. PICK a : a = Turned(c, at, arg)
  OBVIOUS
<1>2. IsClient(a) /\ a.net = c.net /\ a.courses = c.courses /\ a.feed = c.feed
  BY <1>1, TurnedIs
<1>3. Grows(a, d, EffectsOf(c, a))
  BY <1>1, PushGrows
<1> QED
  BY <1>2, <1>3, AlikeCarries, GrowsCarries, CarriesOn

LEMMA HomeCarries ==
    ASSUME NEW c, IsClient(c), NEW d, d = Push(c, "/", <<>>) PROVE Carries(c, d)
<1>1. Addressed("/", <<>>)
  BY DEF Addressed
<1> QED
  BY <1>1, PushCarries

LEMMA DispatchCarries ==
    ASSUME NEW c, NEW b, IsClient(b), NEW d, d = Dispatch(c, b) PROVE Carries(b, d) /\ IsClient(d)
<1>1. PICK a : a = Adjusted(c, b)
  OBVIOUS
<1>2. Looks(b, a, a.view)
  BY <1>1, AdjustedIs
<1>3. Grows(a, d, EffectsOf(c, a))
  BY <1>1, DispatchGrows
<1>4. Carries(b, a) /\ Carries(a, d)
  BY <1>2, <1>3, LooksCarries, GrowsCarries
<1>5. IsClient(d)
  BY <1>3 DEF Grows
<1> QED
  BY <1>4, <1>5, CarriesOn

LEMMA LogsInCarries ==
    ASSUME NEW c, IsClient(c), NEW u \in Users, NEW d, d = LoggedIn(c, u)
    PROVE  Carries(c, d) /\ IsClient(d)
<1>1. PICK b, a, m :
         /\ Only(c, b, {"loggedIn", "user", "failed"}) /\ Looks(b, a, a.view)
         /\ Grows(a, m, EffectsOf(c, a)) /\ Only(m, d, {"saved"})
  BY LoggedInIs DEF LogsIn
<1>2. Carries(c, b)
  BY <1>1, OnlyCarries
<1>3. Carries(b, a)
  BY <1>1, LooksCarries
<1>4. Carries(a, m)
  BY <1>1, GrowsCarries
<1>5. Carries(m, d)
  BY <1>1, OnlyCarries
<1>6. Carries(c, a) /\ Carries(a, d)
  BY <1>2, <1>3, <1>4, <1>5, CarriesOn
<1>7. IsClient(d)
  BY <1>1 DEF Only
<1> QED
  BY <1>6, <1>7, CarriesOn

LEMMA LogsOutCarries ==
    ASSUME NEW c, IsClient(c), NEW d, d = logout(c) PROVE Carries(c, d)
<1>1. PICK b, a, m :
         /\ Only(c, b, {"loggedIn", "failed", "saved"}) /\ Looks(b, a, a.view)
         /\ Grows(a, m, EffectsOf(c, a)) /\ d = Push(m, "/", <<>>)
  BY LoggedOutIs DEF LogsOut
<1>2. Carries(c, b)
  BY <1>1, OnlyCarries
<1>3. Carries(b, a)
  BY <1>1, LooksCarries
<1>4. Carries(a, m) /\ IsClient(m)
  BY <1>1, GrowsCarries DEF Grows
<1>5. Carries(m, d)
  BY <1>1, <1>4, HomeCarries
<1>6. Carries(c, a) /\ Carries(a, d)
  BY <1>2, <1>3, <1>4, <1>5, CarriesOn
<1> QED
  BY <1>6, CarriesOn

LEMMA TakesCarries ==
    ASSUME NEW c, NEW i \in DOMAIN c.net, NEW d, Takes(c, d, i),
           ~(c.net[i].op = "updateCourse" /\ c.net[i].phase = "ok")
    PROVE  Carries(c, d)
<1>1. /\ \A j \in DOMAIN d.net : \E k \in DOMAIN c.net \ {i} : d.net[j] = c.net[k]
      /\ \A k \in DOMAIN c.net \ {i} : \E j \in DOMAIN d.net : d.net[j] = c.net[k]
  BY TakesRest
<1>2. d.courses = c.courses /\ d.feed = c.feed
  BY DEF Takes, Only, ClientFields
<1> QED
  BY <1>1, <1>2 DEF Carries

LEMMA AsksOneCarries ==
    ASSUME NEW c, NEW d, AsksOne(c, d) PROVE Carries(c, d)
<1>1. PICK a : /\ OtherHole(c, a)
               /\ \/ d = a
                  \/ \E op, arg, who : Mine(op, arg, who) /\ Appends(a, d, Request(op, arg, who))
  BY DEF AsksOne
<1>2. Carries(c, a)
  BY <1>1, AlikeCarries DEF OtherHole, Looks
<1>3. ASSUME NEW op, NEW arg, NEW who, Appends(a, d, Request(op, arg, who)) PROVE Carries(a, d)
  <2> DEFINE r == Request(op, arg, who)
  <2>1. r.phase = "sent"
    BY DEF Request
  <2>2. PICK k : DOMAIN d.net = DOMAIN a.net \cup {k} /\ d.net[k] = r
    BY <1>3 DEF Appends
  <2>3. Same(a, d) /\ d.feed = a.feed /\ \A i \in DOMAIN a.net : d.net[i] = a.net[i]
    BY <1>3 DEF Appends
  <2> HIDE DEF r
  <2> QED
    BY <2>1, <2>2, <2>3 DEF Carries, Same
<1>4. d = a \/ Carries(a, d)
  BY <1>1, <1>3
<1> QED
  BY <1>2, <1>4, CarriesOn

LEMMA AsideCarries ==
    ASSUME IsClient(app), Aside PROVE Carries(app, app')
<1>1. CASE \E n \in Ids : app' = hideNotification(app, n)
  <2>1. Only(app, app', {"notes"})
    BY <1>1, Notified
  <2> QED
    BY <2>1, OnlyCarries
<1>2. CASE app' = connectToHub(fetchUserDetails(app, TRUE))
  <2> DEFINE e == fetchUserDetails(app, TRUE)
  <2>1. e = app \/ e = Asks(app, "details", <<>>)
    BY DEF fetchUserDetails
  <2>2. app' = connectToHub(e)
    BY <1>2
  <2> HIDE DEF e
  <2>3. Grows(app, e, {})
    BY <2>1, SameGrows, AskingGrows DEF Background
  <2>4. IsClient(e)
    BY <2>3 DEF Grows
  <2>5. Only(e, app', {"hub"})
    BY <2>2, <2>4, HubKnown
  <2> QED
    BY <2>3, <2>5, GrowsCarries, OnlyCarries, CarriesOn
<1>3. CASE app' = [app EXCEPT !.hub = NoOne]
  <2>1. Only(app, app', {"hub"})
    BY <1>3, HubSet
  <2> QED
    BY <2>1, OnlyCarries
<1> QED
  BY <1>1, <1>2, <1>3 DEF Aside

LEMMA DeedCarries ==
    ASSUME IsClient(app), Deed PROVE Carries(app, app')
<1>1. CASE Turns
  BY <1>1, PushCarries DEF Turns
<1>2. CASE LooksElsewhere
  <2>1. PICK view : Views(view) /\ app' = Local(app, view)
    BY <1>2 DEF LooksElsewhere
  <2>2. DOMAIN view = DOMAIN Fresh /\ view.tab \in 1..5
    BY <2>1 DEF Views
  <2>3. PICK a : a = [app EXCEPT !.view = view]
    OBVIOUS
  <2>4. Looks(app, a, view) /\ Grows(a, app', EffectsOf(app, a))
    BY <2>1, <2>2, <2>3, LocalGrows
  <2> QED
    BY <2>4, LooksCarries, GrowsCarries, CarriesOn
<1>3. CASE AsksFor
  BY <1>3, AsksForIs, AsksOneCarries
<1>4. CASE OpensHole \/ ClosesHole
  <2>1. PICK x : app' = [app EXCEPT !.view.hole = x]
    BY <1>4 DEF OpensHole, ClosesHole
  <2>2. OtherHole(app, app')
    BY <2>1, HoleIs
  <2> QED
    BY <2>2, AlikeCarries DEF OtherHole, Looks
<1>5. CASE Aside
  BY <1>5, AsideCarries
<1>6. CASE app' = logout(app)
  BY <1>6, LogsOutCarries
<1> QED
  BY <1>1, <1>2, <1>3, <1>4, <1>5, <1>6 DEF Deed

\* Answers: what the reducers make of them is another matter.
LEMMA AnswerCarries ==
    ASSUME IsClient(app), Orderly(app), NEW i \in DOMAIN app.net, NEW n, Answer(i, n)
    PROVE  /\ UNCHANGED db
           /\ \/ Carries(app, app')
              \/ \E c : Took(c, i) /\ Receives(c, app.net[i], app', n)
<1> DEFINE r == app.net[i]
<1>1. UNCHANGED db /\ \E c : Takes(app, c, i) /\ AnswersTo(r, c, app', n)
  BY AnswerIs
<1>2. PICK c : Takes(app, c, i) /\ AnswersTo(r, c, app', n)
  BY <1>1
<1>3. Took(c, i) /\ IsClient(c)
  BY <1>2, OrderlyTakes DEF Took, Takes, Only
<1>4. IsRequest(r)
  BY DEF IsClient, IsNet
<1>5. ~(r.op = "updateCourse" /\ r.phase = "ok") => Carries(app, c)
  BY <1>2, TakesCarries
<1> HIDE DEF r
<1>6. CASE r.phase = "ok" /\ app' = Succeeded(c, r, n) /\ r.op \in Requests \ Turning
  <2> DEFINE b == Reduced(c, r, n)
  <2>1. Only(c, b, Parts(r.op)) /\ Grows(b, app', {})
    BY <1>3, <1>6, SucceededIs
  <2> HIDE DEF b
  <2>2. Receives(c, r, app', n)
    BY <1>6, <2>1 DEF Receives, b
  <2> QED
    BY <1>1, <1>3, <2>2 DEF r
<1>7. CASE r.phase = "ok" /\ app' = Succeeded(c, r, n) /\ r.op \in {"login", "createUser"}
  <2> DEFINE e == LoggedIn(c, r.arg[1])
             f == Asks(e, "details", <<>>)
  <2>1. app' = Push(e, "/", <<>>) \/ app' = Push(f, "/", <<>>)
    BY <1>7, TurningIs
  <2>2. r.arg[1] \in Users
    BY <1>4, <1>7 DEF IsRequest
  <2>3. Carries(c, e) /\ IsClient(e)
    BY <1>3, <2>2, LogsInCarries
  <2> HIDE DEF e
  <2>4. Grows(e, f, {})
    BY <2>3, AskingGrows DEF Background
  <2> HIDE DEF f
  <2>5. Carries(e, f) /\ IsClient(f)
    BY <2>4, GrowsCarries DEF Grows
  <2>6. Carries(c, f)
    BY <2>3, <2>5, CarriesOn
  <2>7. Carries(e, app') \/ Carries(f, app')
    BY <2>1, <2>3, <2>5, HomeCarries
  <2>8. Carries(c, app')
    BY <2>3, <2>6, <2>7, CarriesOn
  <2> QED
    BY <1>1, <1>5, <1>7, <2>8, CarriesOn
<1>8. CASE r.phase = "ok" /\ app' = Succeeded(c, r, n) /\ r.op = "setPassword"
  <2> DEFINE e == showNotification(c, n)
  <2>1. app' = Push(e, "/", <<>>)
    BY <1>8, TurningIs
  <2>2. Only(c, e, {"notes", "alarms"})
    BY <1>3, Notified
  <2> HIDE DEF e
  <2>3. Carries(c, e) /\ IsClient(e)
    BY <2>2, OnlyCarries DEF Only
  <2>4. Carries(e, app')
    BY <2>1, <2>3, HomeCarries
  <2>5. Carries(c, app')
    BY <2>3, <2>4, CarriesOn
  <2> QED
    BY <1>1, <1>5, <1>8, <2>5, CarriesOn
<1>9. CASE r.phase = "ok" /\ app' = Succeeded(c, r, n) /\ r.op = "createTournament"
  <2>1. app' = Push(c, "/tournament", <<r.data>>)
    BY <1>9, TurningIs
  <2>2. Addressed("/tournament", <<r.data>>)
    BY DEF Addressed, Single
  <2>3. Carries(c, app')
    BY <1>3, <2>1, <2>2, PushCarries
  <2> QED
    BY <1>1, <1>5, <1>9, <2>3, CarriesOn
<1>10. CASE r.phase = "error" /\ r.op \in {"login", "createUser"} /\ app' = Failed(c, r, n)
  <2> DEFINE b == LoginFailed(c)
             d == Dispatch(c, b)
  <2>1. app' = LogoutSoon(d)
    BY <1>10 DEF Failed
  <2>2. Only(c, b, {"loggedIn", "failed"})
    BY <1>3, LoggingOutKnown
  <2> HIDE DEF b
  <2>3. Carries(c, b) /\ IsClient(b)
    BY <2>2, OnlyCarries DEF Only
  <2>4. Carries(b, d) /\ IsClient(d)
    BY <2>3, DispatchCarries
  <2> HIDE DEF d
  <2>5. Only(d, app', {"logouts"})
    BY <2>1, <2>4, LogoutSoonIs
  <2>6. Carries(d, app')
    BY <2>5, OnlyCarries
  <2>7. Carries(c, d)
    BY <2>3, <2>4, CarriesOn
  <2>8. Carries(c, app')
    BY <2>6, <2>7, CarriesOn
  <2> QED
    BY <1>1, <1>5, <1>10, <2>8, CarriesOn
<1>11. CASE r.phase = "error" /\ r.op \in {"updateCourse", "addCourse"} /\ app' = Failed(c, r, n)
  <2>1. Only(c, app', {"notes", "alarms", "cup"})
    BY <1>3, <1>11, RefusedIs
  <2>2. Carries(c, app')
    BY <2>1, OnlyCarries
  <2> QED
    BY <1>1, <1>5, <1>11, <2>2, CarriesOn
<1> QED
  BY <1>2, <1>4, <1>6, <1>7, <1>8, <1>9, <1>10, <1>11
  DEF AnswersTo, IsRequest, Turning, Refusable

LEMMA TellsCarries ==
    ASSUME NEW c, NEW d, NEW b, Tells(c, d, b) PROVE Carries(c, d)
<1>1. PICK e, m : /\ Only(c, e, {"details"}) /\ Grows(e, m, {})
                  /\ Only(m, d, {"notes", "alarms"}) \/ d = Push(m, "/", <<>>)
  BY DEF Tells
<1>2. Carries(c, e)
  BY <1>1, OnlyCarries
<1>3. Carries(e, m) /\ IsClient(m)
  BY <1>1, GrowsCarries DEF Grows
<1>4. Carries(m, d)
  BY <1>1, <1>3, OnlyCarries, HomeCarries
<1> QED
  BY <1>2, <1>3, <1>4, CarriesOn

LEMMA CalmCarries ==
    ASSUME OrderInv, calm, CalmStep
    PROVE  \/ \E i \in DOMAIN app.net : Serve(i)
           \/ /\ UNCHANGED db
              /\ \E i \in DOMAIN app.net, n \in Ids :
                    \E c : Took(c, i) /\ Receives(c, app.net[i], app', n)
           \/ Carries(app, app') /\ db'.layouts = db.layouts /\ db'.likes = db.likes
<1>0. IsClient(app) /\ Orderly(app)
  BY OrderIs
<1>1. CASE UNCHANGED <<app, db>>
  BY <1>1, AlikeCarries
<1>2. CASE \E i \in DOMAIN app.net, n \in Ids : Answer(i, n)
  BY <1>0, <1>2, AnswerCarries
<1>3. CASE LogoutTimer
  <2>1. PICK e : Only(app, e, {"loggedIn", "failed", "logouts"}) /\ Grows(e, app', {})
    BY <1>0, <1>3, TimerQuiet
  <2>2. Carries(app, e) /\ Carries(e, app')
    BY <2>1, OnlyCarries, GrowsCarries
  <2>3. UNCHANGED db
    BY <1>3 DEF LogoutTimer
  <2> QED
    BY <2>2, <2>3, CarriesOn
<1>4. CASE Only(app, app', {"notes", "alarms"}) /\ UNCHANGED db
  BY <1>4, OnlyCarries
<1>5. CASE UNCHANGED db /\ (Deed \/ AsksOne(app, app'))
  BY <1>0, <1>5, DeedCarries, AsksOneCarries
<1>6. ASSUME NEW u \in Users, NEW b \in BOOLEAN, Knows(db, db', u, b),
             IF app.hub = u THEN Tells(app, app', b) ELSE app' = app
      PROVE  Carries(app, app') /\ db'.layouts = db.layouts /\ db'.likes = db.likes
  BY <1>6, TellsCarries, AlikeCarries DEF Knows
<1> QED
  BY <1>1, <1>2, <1>3, <1>4, <1>5, <1>6 DEF CalmStep

-----------------------------------------------------------------------------
(* Courses that are shown are courses there are.                             *)

\* No two layouts with one number.
Apart(ls) == \A i, j \in DOMAIN ls : ls[i].id = ls[j].id => i = j
Numbered(d) == Apart(d.layouts) /\ \A i \in DOMAIN d.layouts : d.layouts[i].id \in DOMAIN d.layouts
Has(d, l) == \E i \in DOMAIN d.layouts : d.layouts[i] = l
\* A layout of the client is one the server has, or one that was saved since then and
\* is on its way.
Saving(c, id) == \E i \in DOMAIN c.net : /\ c.net[i].op = "updateCourse" /\ c.net[i].phase = "ok"
                                         /\ c.net[i].arg[1] = id
InDb(c, d, l) ==
    \E i \in DOMAIN d.layouts : /\ d.layouts[i].id = l.id /\ d.layouts[i].course = l.course
                                /\ d.layouts[i] = l \/ Saving(c, l.id)
GroupOK(c, d, g) ==
    /\ Apart(g.layouts)
    /\ \A k \in DOMAIN g.layouts : g.layouts[k].course = g.name /\ InDb(c, d, g.layouts[k])
\* An answer brings layouts the server has.
Brings(c, d, r) ==
    r.phase = "ok" =>
      /\ r.op = "courses" => /\ IsSequence(r.data) /\ Apart(r.data)
                             /\ \A i \in DOMAIN r.data : Has(d, r.data[i])
      /\ r.op = "updateCourse" => Has(d, r.data) /\ r.data.id = r.arg[1]
      /\ r.op = "createCourse" =>
           /\ Has(d, r.data)
           /\ \A n \in DOMAIN c.courses : \A k \in DOMAIN c.courses[n].layouts :
                 c.courses[n].layouts[k].id # r.data.id
CoursesOK(c, d) ==
    /\ \A n \in DOMAIN c.courses : GroupOK(c, d, c.courses[n])
    /\ \A i \in DOMAIN c.net : Brings(c, d, c.net[i])

\* Numbers are given once.
LEMMA NumberedAfter ==
    ASSUME NEW plain, NEW d, SoundDb(d, plain), Numbered(d), NEW r, NEW e, e = After(d, r)
    PROVE  Numbered(e)
<1>0. IsDb(d) /\ \A i \in DOMAIN d.layouts : DOMAIN d.layouts[i] = LayoutFields
  BY DEF SoundDb, GoodLayouts, GoodLayout
<1>1. CASE r.op \notin {"createCourse", "updateCourse"}
  <2>1. e.layouts = d.layouts
    BY <1>0, <1>1, AfterIs
  <2> QED
    BY <2>1 DEF Numbered
<1>2. CASE r.op = "createCourse"
  <2> DEFINE l == Created(d, r)
             N == Len(d.layouts)
  <2>1. Prepends(d.layouts, e.layouts, l)
    BY <1>0, <1>2, CourseAfter DEF CreatedFirst, InFront
  <2>2. l.id = N + 1
    BY DEF Created, NewLayout
  <2>3. /\ DOMAIN d.layouts = 1..N /\ N \in Nat /\ DOMAIN e.layouts = 1..(N + 1)
        /\ e.layouts[1] = l /\ \A i \in 1..N : e.layouts[i + 1] = d.layouts[i]
    BY <2>1 DEF Prepends
  <2> HIDE DEF l, N
  <2>4. ASSUME NEW i \in 1..(N + 1), i # 1
        PROVE  i - 1 \in 1..N /\ e.layouts[i] = d.layouts[i - 1]
    BY <2>3, <2>4
  <2>5. \A i \in 1..N : d.layouts[i].id \in 1..N
    BY <2>3 DEF Numbered
  <2>6. ASSUME NEW i \in DOMAIN e.layouts PROVE e.layouts[i].id \in DOMAIN e.layouts
    <3>1. CASE i = 1
      BY <2>2, <2>3, <3>1
    <3>2. CASE i # 1
      BY <2>3, <2>4, <2>5, <3>2
    <3> QED
      BY <3>1, <3>2
  <2>7. ASSUME NEW i \in DOMAIN e.layouts, NEW j \in DOMAIN e.layouts,
               e.layouts[i].id = e.layouts[j].id
        PROVE  i = j
    <3>0. /\ \A k \in DOMAIN e.layouts : k # 1 => e.layouts[k].id \in 1..N
          /\ e.layouts[1].id = N + 1
      BY <2>2, <2>3, <2>4, <2>5
    <3>1. ~(i = 1 /\ j # 1)
      <4> HIDE DEF N
      <4> SUFFICES ASSUME i = 1, j # 1 PROVE FALSE
        OBVIOUS
      <4>1. e.layouts[j].id \in 1..N /\ e.layouts[i].id = N + 1
        BY <3>0
      <4> QED
        BY <2>3, <2>7, <4>1
    <3>2. ~(i # 1 /\ j = 1)
      <4> SUFFICES ASSUME i # 1, j = 1 PROVE FALSE
        OBVIOUS
      <4>1. e.layouts[i].id \in 1..N /\ e.layouts[j].id = N + 1
        BY <3>0
      <4> QED
        BY <2>3, <2>7, <4>1
    <3>3. CASE i # 1 /\ j # 1
      <4>1. /\ i - 1 \in DOMAIN d.layouts /\ j - 1 \in DOMAIN d.layouts
            /\ d.layouts[i - 1].id = d.layouts[j - 1].id
        BY <2>3, <2>4, <2>7, <3>3
      <4>2. i - 1 = j - 1
        BY <4>1 DEF Numbered, Apart
      <4> QED
        BY <2>3, <4>2
    <3> QED
      BY <3>1, <3>2, <3>3
  <2> QED
    BY <2>6, <2>7 DEF Numbered, Apart
<1>3. CASE r.op = "updateCourse"
  <2>1. SavedInPlace(d, r, e)
    BY <1>0, <1>3, CourseAfter
  <2>2. DOMAIN e.layouts = DOMAIN d.layouts /\ \A i \in DOMAIN d.layouts : e.layouts[i].id = d.layouts[i].id
    BY <1>0, <2>1 DEF SavedInPlace
  <2> QED
    BY <2>2 DEF Numbered, Apart
<1> QED
  BY <1>1, <1>2, <1>3

LEMMA NextKeepsNumbers ==
    ASSUME EditsInv, Numbered(db), [Next]_vars PROVE Numbered(db')
<1>0. IsClient(app) /\ SoundDb(db, plainSave) /\ IsDb(db)
  BY DEF EditsInv, Sound, SoundDb
<1>1. CASE UNCHANGED db
  BY <1>1
<1>2. ASSUME NEW i \in DOMAIN app.net, Serve(i) PROVE Numbered(db')
  <2>1. UNCHANGED db \/ db' = After(db, app.net[i])
    BY <1>2 DEF Serve
  <2> QED
    BY <1>0, <1>1, <2>1, NumberedAfter
<1>3. ASSUME NEW i \in DOMAIN app.net,
             \/ \E phase \in {"error", "denied", "lost"} : Fail(i, phase)
             \/ \E n \in Ids : Answer(i, n)
      PROVE  UNCHANGED db
  BY <1>3 DEF Fail, Answer
<1>4. CASE LogoutTimer \/ \E n \in Ids : ExpireNotification(n)
  BY <1>1, <1>4 DEF LogoutTimer, ExpireNotification
<1>5. ASSUME Person \/ HubLost PROVE UNCHANGED db
  <2>1. \/ Does \/ SaveAndNext
        \/ \E at \in visit.pages, link \in Users \cup {NoOne} : LoadPage(at, link)
    BY <1>0, <1>5, PersonDoes
  <2> QED
    BY <2>1 DEF Does, SaveAndNext, LoadPage
<1>6. ASSUME NEW u \in Users, RoundStarts(u) \/ RoundDeleted(u) PROVE Numbered(db')
  <2>1. PICK b \in BOOLEAN : Knows(db, db', u, b)
    BY <1>0, <1>6, RoundsAre
  <2> QED
    BY <2>1 DEF Knows, Numbered
<1> QED
  BY <1>1, <1>2, <1>3, <1>4, <1>5, <1>6 DEF Next, vars

LEMMA HasInDb ==
    ASSUME NEW c, NEW d, NEW l, Has(d, l) PROVE InDb(c, d, l)
BY DEF Has, InDb
LEMMA InDbHas ==
    ASSUME NEW c, NEW d, NEW l, InDb(c, d, l), ~Saving(c, l.id) PROVE Has(d, l)
BY DEF Has, InDb

\* d has the courses of c, and the answers that bring some.
HandsOn(c, d) ==
    /\ d.courses = c.courses
    /\ \A j \in DOMAIN d.net : \/ d.net[j].phase = "sent"
                               \/ \E k \in DOMAIN c.net : d.net[j] = c.net[k]
    /\ \A k \in DOMAIN c.net : c.net[k].op = "updateCourse" /\ c.net[k].phase = "ok" =>
                                 \E j \in DOMAIN d.net : d.net[j] = c.net[k]

LEMMA CoursesHanded ==
    ASSUME NEW c, NEW d, CoursesOK(c, d), NEW a, HandsOn(c, a), NEW e, e.layouts = d.layouts
    PROVE  CoursesOK(a, e)
<1>1. ASSUME NEW id, Saving(c, id) PROVE Saving(a, id)
  <2>1. PICK k \in DOMAIN c.net : /\ c.net[k].op = "updateCourse" /\ c.net[k].phase = "ok"
                                  /\ c.net[k].arg[1] = id
    BY <1>1 DEF Saving
  <2>2. PICK j \in DOMAIN a.net : a.net[j] = c.net[k]
    BY <2>1 DEF HandsOn
  <2> QED
    BY <2>1, <2>2 DEF Saving
<1>2. ASSUME NEW l, InDb(c, d, l) PROVE InDb(a, e, l)
  BY <1>1, <1>2 DEF InDb
<1>3. a.courses = c.courses
  BY DEF HandsOn
<1>4. ASSUME NEW n \in DOMAIN a.courses PROVE GroupOK(a, e, a.courses[n])
  <2>1. GroupOK(c, d, a.courses[n])
    BY <1>3 DEF CoursesOK
  <2> QED
    BY <1>2, <2>1 DEF GroupOK
<1>5. ASSUME NEW j \in DOMAIN a.net PROVE Brings(a, e, a.net[j])
  <2>1. CASE a.net[j].phase = "sent"
    BY <2>1 DEF Brings
  <2>2. CASE a.net[j].phase # "sent"
    <3>1. PICK k \in DOMAIN c.net : a.net[j] = c.net[k]
      BY <2>2 DEF HandsOn
    <3>2. Brings(c, d, a.net[j])
      BY <3>1 DEF CoursesOK
    <3> QED
      BY <1>3, <3>2 DEF Brings, Has
  <2> QED
    BY <2>1, <2>2
<1> QED
  BY <1>4, <1>5 DEF CoursesOK

\* What the server answers when asked for courses.
LEMMA CoursesBrought ==
    ASSUME NEW d, IsDb(d), Numbered(d), NEW r, r.op = "courses", NEW s, s = Data(d, r)
    PROVE  IsSequence(s) /\ Apart(s) /\ \A i \in DOMAIN s : Has(d, s[i])
<1>1. PICK S \in SUBSET DOMAIN d.layouts : PickedFrom(d.layouts, S, s)
  BY CoursesData
<1>2. PICK f \in [DOMAIN s -> S] : /\ \A n \in DOMAIN s : s[n] = d.layouts[f[n]]
                                   /\ \A m, n \in DOMAIN s : f[m] = f[n] => m = n
  BY <1>1 DEF PickedFrom
<1>3. \A n \in DOMAIN s : f[n] \in DOMAIN d.layouts /\ s[n] = d.layouts[f[n]]
  BY <1>1, <1>2
<1>4. \A i \in DOMAIN s : Has(d, s[i])
  BY <1>3 DEF Has
<1>5. Apart(s)
  BY <1>2, <1>3 DEF Numbered, Apart
<1> QED
  BY <1>1, <1>4, <1>5 DEF PickedFrom

LEMMA CourseAlone ==
    ASSUME NEW c, Orderly(c), NEW i \in DOMAIN c.net, c.net[i].op \in {"createCourse", "updateCourse"}
    PROVE  (\A j \in DOMAIN c.net : j = i) /\ c.net[i].op \notin Background
BY DEF Orderly, Waits, Background, FetchOps

\* Serving a request that leaves the layouts as they are.
LEMMA CoursesServed ==
    ASSUME NEW c, NEW i \in DOMAIN c.net, NEW a, NEW q, Changes(c, a, i, q), c.net[i].phase = "sent",
           NEW d, CoursesOK(c, d), NEW e, e.layouts = d.layouts, Brings(c, e, q)
    PROVE  CoursesOK(a, e)
<1>1. /\ a.courses = c.courses /\ DOMAIN a.net = DOMAIN c.net /\ a.net[i] = q
      /\ \A j \in DOMAIN c.net : j # i => a.net[j] = c.net[j]
  BY DEF Changes, Only, ClientFields
<1>2. ASSUME NEW id, Saving(c, id) PROVE Saving(a, id)
  <2>1. PICK k \in DOMAIN c.net : /\ c.net[k].op = "updateCourse" /\ c.net[k].phase = "ok"
                                  /\ c.net[k].arg[1] = id
    BY <1>2 DEF Saving
  <2>2. k # i
    BY <2>1
  <2> QED
    BY <1>1, <2>1, <2>2 DEF Saving
<1>3. ASSUME NEW l, InDb(c, d, l) PROVE InDb(a, e, l)
  BY <1>2, <1>3 DEF InDb
<1>4. ASSUME NEW n \in DOMAIN a.courses PROVE GroupOK(a, e, a.courses[n])
  <2>1. GroupOK(c, d, a.courses[n])
    BY <1>1 DEF CoursesOK
  <2> QED
    BY <1>3, <2>1 DEF GroupOK
<1>5. ASSUME NEW r, Brings(c, e, r) PROVE Brings(a, e, r)
  BY <1>1, <1>5 DEF Brings
<1>6. ASSUME NEW j \in DOMAIN a.net PROVE Brings(c, e, a.net[j])
  <2>1. CASE j = i
    BY <1>1, <2>1
  <2>2. CASE j # i
    <3>1. Brings(c, d, c.net[j]) /\ a.net[j] = c.net[j]
      BY <1>1, <2>2 DEF CoursesOK
    <3> QED
      BY <3>1 DEF Brings, Has
  <2> QED
    BY <2>1, <2>2
<1> QED
  BY <1>4, <1>5, <1>6 DEF CoursesOK

\* The one request under way, when it changes courses, saves nothing before it is served.
LEMMA NothingSaved ==
    ASSUME NEW c, NEW d, CoursesOK(c, d), NEW i \in DOMAIN c.net, \A j \in DOMAIN c.net : j = i,
           ~(c.net[i].op = "updateCourse" /\ c.net[i].phase = "ok"),
           NEW n \in DOMAIN c.courses, NEW k \in DOMAIN c.courses[n].layouts
    PROVE  Has(d, c.courses[n].layouts[k])
<1>1. InDb(c, d, c.courses[n].layouts[k])
  BY DEF CoursesOK, GroupOK
<1>2. \A id : ~Saving(c, id)
  BY DEF Saving
<1> QED
  BY <1>1, <1>2, InDbHas

LEMMA ServeCourses ==
    ASSUME IsClient(app), Orderly(app), NEW plain, SoundDb(db, plain), Sound(app, IdsOf(db), plain),
           Numbered(db), Numbered(db'), CoursesOK(app, db), NEW i \in DOMAIN app.net, Serve(i)
    PROVE  CoursesOK(app', db')
<1> DEFINE r == app.net[i]
<1>0. IsDb(db) /\ \A k \in DOMAIN db.layouts : DOMAIN db.layouts[k] = LayoutFields
  BY DEF SoundDb, GoodLayouts, GoodLayout
<1>1. r.phase = "sent" /\ \E q : Served(r, q, db, db') /\ Changes(app, app', i, q)
  BY ServeIs
<1>2. PICK q : Served(r, q, db, db') /\ Changes(app, app', i, q)
  BY <1>1
<1>3. q.op = r.op /\ q.arg = r.arg
  BY <1>2 DEF Served
<1>4. Changes(app, app', i, q)
  BY <1>2
<1>5. CASE q.phase = "error" /\ db' = db
  <2>1. Brings(app, db', q)
    BY <1>5 DEF Brings
  <2> QED
    BY <1>1, <1>4, <1>5, <2>1, CoursesServed
<1>6. CASE q.phase = "ok" /\ r.op \notin {"createCourse", "updateCourse"}
  <2>0. db' = After(db, r) /\ q.data = Data(db', r)
    BY <1>2, <1>6 DEF Served
  <2>1. db'.layouts = db.layouts /\ IsDb(db')
    BY <1>0, <1>6, <2>0, AfterIs
  <2>2. r.op = "courses" => /\ IsSequence(q.data) /\ Apart(q.data)
                            /\ \A k \in DOMAIN q.data : Has(db', q.data[k])
    BY <2>0, <2>1, CoursesBrought
  <2>3. Brings(app, db', q)
    BY <1>3, <1>6, <2>2 DEF Brings
  <2> QED
    BY <1>1, <1>4, <2>1, <2>3, CoursesServed
<1>7. /\ app'.courses = app.courses /\ DOMAIN app'.net = DOMAIN app.net /\ app'.net[i] = q
  BY <1>2 DEF Changes, Only, ClientFields
<1>8. ASSUME r.op \in {"createCourse", "updateCourse"}
      PROVE  /\ \A j \in DOMAIN app.net : j = i
             /\ \A n \in DOMAIN app.courses : \A k \in DOMAIN app.courses[n].layouts :
                   Has(db, app.courses[n].layouts[k])
  <2>1. \A j \in DOMAIN app.net : j = i
    BY <1>8, CourseAlone
  <2> QED
    BY <1>1, <2>1, NothingSaved
<1>9. ASSUME r.op \in {"createCourse", "updateCourse"},
             \A l : Has(db, l) => InDb(app', db', l), Brings(app', db', q)
      PROVE  CoursesOK(app', db')
  <2>1. ASSUME NEW n \in DOMAIN app'.courses PROVE GroupOK(app', db', app'.courses[n])
    <3>1. GroupOK(app, db, app'.courses[n])
      BY <1>7 DEF CoursesOK
    <3>2. \A k \in DOMAIN app'.courses[n].layouts : Has(db, app'.courses[n].layouts[k])
      BY <1>7, <1>8, <1>9
    <3> QED
      BY <1>9, <3>1, <3>2 DEF GroupOK
  <2>2. \A j \in DOMAIN app'.net : app'.net[j] = q
    BY <1>7, <1>8, <1>9
  <2> QED
    BY <1>9, <2>1, <2>2 DEF CoursesOK
<1>10. CASE q.phase = "ok" /\ r.op = "createCourse"
  <2> DEFINE N == Len(db.layouts)
  <2>1. db' = After(db, r) /\ q.data = Data(db', r)
    BY <1>2, <1>10 DEF Served
  <2>2. CreatedFirst(db, r, db')
    BY <1>0, <1>10, <2>1, CourseAfter
  <2>3. /\ DOMAIN db.layouts = 1..N /\ N \in Nat /\ 1 \in DOMAIN db'.layouts
        /\ db'.layouts[1] = Created(db, r)
        /\ \A j \in DOMAIN db.layouts : \E k \in DOMAIN db'.layouts : db'.layouts[k] = db.layouts[j]
    BY <2>2 DEF CreatedFirst, InFront, Prepends
  <2>4. q.data = db'.layouts[1] /\ q.data.id = N + 1
    BY <1>10, <2>1, <2>3 DEF Data, Created, NewLayout
  <2>5. \A l : Has(db, l) => Has(db', l)
    BY <2>3 DEF Has
  <2>6. \A l : Has(db, l) => InDb(app', db', l)
    BY <2>5, HasInDb
  <2>7. Has(db', q.data)
    BY <2>3, <2>4 DEF Has
  <2>8. \A l : Has(db, l) => l.id \in 1..N
    BY <2>3 DEF Has, Numbered
  <2> HIDE DEF N
  <2>9. \A l : Has(db, l) => l.id # q.data.id
    BY <2>3, <2>4, <2>8
  <2>10. Brings(app', db', q)
    BY <1>3, <1>7, <1>8, <1>10, <2>7, <2>9 DEF Brings
  <2> QED
    BY <1>9, <1>10, <2>6, <2>10
<1>11. CASE q.phase = "ok" /\ r.op = "updateCourse"
  <2>1. db' = After(db, r) /\ q.data = Data(db', r)
    BY <1>2, <1>11 DEF Served
  <2>2. SavedInPlace(db, r, db')
    BY <1>0, <1>11, <2>1, CourseAfter
  <2>3. r.arg[1] \in IdsOf(db)
    BY <1>11 DEF Sound, GoodRequest
  <2>4. r.arg[1] \in IdsOf(db')
    BY <1>0, <2>2, <2>3 DEF IdsOf, SavedInPlace
  <2>5. q.data = LayoutOf(db', r.arg[1])
    BY <1>11, <2>1 DEF Data
  <2>6. Has(db', q.data) /\ q.data.id = r.arg[1]
    BY <2>4, <2>5, LayoutOfIs DEF Has
  <2>7. Saving(app', r.arg[1])
    BY <1>3, <1>7, <1>11 DEF Saving
  <2>8. ASSUME NEW l, Has(db, l) PROVE InDb(app', db', l)
    <3>1. PICK k \in DOMAIN db.layouts : db.layouts[k] = l
      BY <2>8 DEF Has
    <3>2. /\ k \in DOMAIN db'.layouts /\ db'.layouts[k].id = l.id
          /\ db'.layouts[k].course = l.course
          /\ l.id # r.arg[1] => db'.layouts[k] = l
      BY <1>0, <2>2, <3>1 DEF SavedInPlace
    <3> QED
      BY <2>7, <3>2 DEF InDb
  <2>9. Brings(app', db', q)
    BY <1>3, <1>11, <2>6 DEF Brings
  <2> QED
    BY <1>9, <1>11, <2>8, <2>9
<1> QED
  BY <1>2, <1>5, <1>6, <1>10, <1>11 DEF Served

\* An answer: what the reducers make of the courses.
LEMMA CoursesGrouped ==
    ASSUME NEW d, NEW ls, IsSequence(ls), Apart(ls), \A i \in DOMAIN ls : Has(d, ls[i]),
           NEW b, NEW gs, gs = Grouped(ls), NEW n \in DOMAIN gs
    PROVE  GroupOK(b, d, gs[n])
<1>1. PICK w \in [DOMAIN gs[n].layouts -> DOMAIN ls] :
           /\ \A k \in DOMAIN gs[n].layouts : /\ gs[n].layouts[k] = ls[w[k]]
                                              /\ ls[w[k]].course = gs[n].name
           /\ \A j, k \in DOMAIN gs[n].layouts : w[j] = w[k] => j = k
  BY GroupedIs
<1>2. Apart(gs[n].layouts)
  <2> SUFFICES ASSUME NEW j \in DOMAIN gs[n].layouts, NEW k \in DOMAIN gs[n].layouts,
                      gs[n].layouts[j].id = gs[n].layouts[k].id
               PROVE  j = k
    BY DEF Apart
  <2>1. w[j] = w[k]
    BY <1>1 DEF Apart
  <2> QED
    BY <1>1, <2>1
<1>3. ASSUME NEW k \in DOMAIN gs[n].layouts
      PROVE  gs[n].layouts[k].course = gs[n].name /\ InDb(b, d, gs[n].layouts[k])
  <2>1. Has(d, gs[n].layouts[k])
    BY <1>1
  <2> QED
    BY <1>1, <2>1, HasInDb
<1> QED
  BY <1>2, <1>3 DEF GroupOK

\* A group of which the server has all layouts, whoever has it.
LEMMA GroupHad ==
    ASSUME NEW c, NEW d, NEW g, GroupOK(c, d, g),
           \A k \in DOMAIN g.layouts : Has(d, g.layouts[k]), NEW b
    PROVE  GroupOK(b, d, g)
BY HasInDb DEF GroupOK

LEMMA LayoutAlone ==
    ASSUME NEW d, NEW l, Has(d, l), NEW b, NEW g, g.name = l.course, g.layouts = <<l>>
    PROVE  GroupOK(b, d, g)
<1>1. DOMAIN g.layouts = {1} /\ g.layouts[1] = l
  OBVIOUS
<1>2. InDb(b, d, l)
  BY HasInDb
<1> QED
  BY <1>1, <1>2 DEF GroupOK, Apart

LEMMA LayoutInFront ==
    ASSUME NEW c, NEW d, NEW f, GroupOK(c, d, f), IsSequence(f.layouts),
           \A k \in DOMAIN f.layouts : Has(d, f.layouts[k]),
           NEW l, Has(d, l), \A k \in DOMAIN f.layouts : f.layouts[k].id # l.id,
           NEW b, NEW g, f.name = l.course, g.name = l.course, g.layouts = <<l>> \o f.layouts
    PROVE  GroupOK(b, d, g)
<1> DEFINE N == Len(f.layouts)
<1>0. /\ DOMAIN f.layouts = 1..Len(f.layouts) /\ Len(f.layouts) \in Nat
      /\ DOMAIN (<<l>> \o f.layouts) = 1..(Len(f.layouts) + 1) /\ (<<l>> \o f.layouts)[1] = l
      /\ \A k \in 1..Len(f.layouts) : (<<l>> \o f.layouts)[k + 1] = f.layouts[k]
  BY PrependToSequence
<1>1. /\ DOMAIN f.layouts = 1..N /\ N \in Nat /\ DOMAIN g.layouts = 1..(N + 1)
      /\ g.layouts[1] = l /\ \A k \in 1..N : g.layouts[k + 1] = f.layouts[k]
  BY <1>0
<1> HIDE DEF N
<1>2. ASSUME NEW k \in DOMAIN g.layouts, k # 1
      PROVE  k - 1 \in DOMAIN f.layouts /\ g.layouts[k] = f.layouts[k - 1]
  <2>1. k - 1 \in 1..N /\ (k - 1) + 1 = k
    BY <1>1, <1>2
  <2> QED
    BY <1>1, <2>1
<1>3. ASSUME NEW j \in DOMAIN g.layouts, NEW k \in DOMAIN g.layouts,
             g.layouts[j].id = g.layouts[k].id
      PROVE  j = k
  <2>1. CASE j # 1 /\ k # 1
    <3>1. j - 1 = k - 1
      BY <1>2, <1>3, <2>1 DEF GroupOK, Apart
    <3> QED
      BY <1>1, <3>1
  <2>2. j # 1 => g.layouts[j].id # l.id
    BY <1>2
  <2>3. k # 1 => g.layouts[k].id # l.id
    BY <1>2
  <2> QED
    BY <1>1, <1>3, <2>1, <2>2, <2>3
<1>4. ASSUME NEW k \in DOMAIN g.layouts
      PROVE  g.layouts[k].course = g.name /\ InDb(b, d, g.layouts[k])
  <2>1. CASE k = 1
    BY <1>1, <2>1, HasInDb
  <2>2. CASE k # 1
    BY <1>2, <2>2, HasInDb DEF GroupOK
  <2> QED
    BY <2>1, <2>2
<1> QED
  BY <1>3, <1>4 DEF GroupOK, Apart

\* The layout that was saved is the one with its number.
LEMMA LayoutRenewed ==
    ASSUME NEW c, NEW d, Numbered(d), NEW f, GroupOK(c, d, f), NEW l, Has(d, l),
           \A id : Saving(c, id) => id = l.id,
           NEW b, NEW g, g.name = f.name, Renews(f.layouts, g.layouts, l)
    PROVE  GroupOK(b, d, g)
<1>1. PICK w \in [DOMAIN g.layouts -> DOMAIN f.layouts \cup {0}] :
         /\ \A k \in DOMAIN g.layouts :
              IF w[k] = 0 THEN g.layouts[k] = l /\ \E j \in DOMAIN f.layouts : f.layouts[j].id = l.id
              ELSE w[k] \in DOMAIN f.layouts /\ g.layouts[k] = f.layouts[w[k]] /\ g.layouts[k].id # l.id
         /\ \A j, k \in DOMAIN g.layouts : w[j] = w[k] => j = k
  BY DEF Renews
<1>2. ASSUME NEW j \in DOMAIN g.layouts, NEW k \in DOMAIN g.layouts,
             g.layouts[j].id = g.layouts[k].id
      PROVE  j = k
  <2>1. CASE w[j] # 0 /\ w[k] # 0
    BY <1>1, <1>2, <2>1 DEF GroupOK, Apart
  <2>2. (w[j] = 0) <=> (w[k] = 0)
    BY <1>1, <1>2
  <2> QED
    BY <1>1, <2>1, <2>2
<1>3. ASSUME NEW k \in DOMAIN g.layouts, w[k] = 0
      PROVE  g.layouts[k].course = g.name /\ InDb(b, d, g.layouts[k])
  <2>1. PICK j \in DOMAIN f.layouts : f.layouts[j].id = l.id
    BY <1>1, <1>3
  <2>2. f.layouts[j].course = f.name /\ InDb(c, d, f.layouts[j])
    BY DEF GroupOK
  <2>3. PICK m \in DOMAIN d.layouts : d.layouts[m].id = l.id /\ d.layouts[m].course = f.name
    BY <2>1, <2>2 DEF InDb
  <2>4. PICK p \in DOMAIN d.layouts : d.layouts[p] = l
    BY DEF Has
  <2>5. m = p
    BY <2>3, <2>4 DEF Numbered, Apart
  <2> QED
    BY <1>1, <1>3, <2>3, <2>4, <2>5, HasInDb
<1>4. ASSUME NEW k \in DOMAIN g.layouts, w[k] # 0
      PROVE  g.layouts[k].course = g.name /\ InDb(b, d, g.layouts[k])
  <2>1. w[k] \in DOMAIN f.layouts /\ g.layouts[k] = f.layouts[w[k]] /\ g.layouts[k].id # l.id
    BY <1>1, <1>4
  <2>2. InDb(c, d, g.layouts[k]) /\ g.layouts[k].course = f.name
    BY <2>1 DEF GroupOK
  <2>3. Has(d, g.layouts[k])
    BY <2>1, <2>2, InDbHas
  <2> QED
    BY <2>2, <2>3, HasInDb
<1> QED
  BY <1>2, <1>3, <1>4 DEF GroupOK, Apart

LEMMA ReceivesCourses ==
    ASSUME IsClient(app), Orderly(app), NEW plain, Sound(app, IdsOf(db), plain), Numbered(db),
           CoursesOK(app, db), NEW i \in DOMAIN app.net, NEW c, Took(c, i),
           NEW n, Receives(c, app.net[i], app', n)
    PROVE  CoursesOK(app', db)
<1> DEFINE r == app.net[i]
<1>1. PICK b : b = Reduced(c, r, n) /\ Only(c, b, Parts(r.op)) /\ Grows(b, app', {})
  BY DEF Receives
<1>2. r.op \in Requests \ Turning /\ r.phase = "ok" /\ Brings(app, db, r)
  BY DEF Receives, CoursesOK
<1>3. Took(c, i) /\ Takes(app, c, i) /\ IsClient(c) /\ Waits(c)
  BY DEF Took
<1>4. /\ \A j \in DOMAIN c.net : \E k \in DOMAIN app.net \ {i} : c.net[j] = app.net[k]
      /\ \A k \in DOMAIN app.net \ {i} : \E j \in DOMAIN c.net : c.net[j] = app.net[k]
  BY <1>3, TakesRest
<1>5. c.courses = app.courses /\ IsCourses(app.courses)
  BY <1>3 DEF Takes, Only, ClientFields, Sound, GoodCourses
<1>6. Only(c, b, Parts(r.op)) /\ Grows(b, app', {})
  BY <1>1
<1>7. b.net = c.net
  BY <1>6, PartsArePage
<1>8. ASSUME CoursesOK(b, db) PROVE CoursesOK(app', db)
  <2>1. Carries(b, app')
    BY <1>6, GrowsCarries
  <2>2. HandsOn(b, app')
    BY <2>1 DEF Carries, HandsOn
  <2> QED
    BY <1>8, <2>2, CoursesHanded
<1>9. r.op \in {"createCourse", "updateCourse"} => /\ DOMAIN b.net = {}
                                                   /\ \A j \in DOMAIN app.net : j = i
  <2> SUFFICES ASSUME r.op \in {"createCourse", "updateCourse"}
               PROVE  DOMAIN b.net = {} /\ \A j \in DOMAIN app.net : j = i
    OBVIOUS
  <2>1. (\A j \in DOMAIN app.net : j = i) /\ r.op \notin Background
    BY CourseAlone
  <2> QED
    BY <1>3, <1>7, <2>1 DEF Took, Idle
<1>10. CASE r.op \notin {"courses", "createCourse", "updateCourse"}
  <2>1. b.courses = app.courses
    BY <1>5, <1>6, <1>10 DEF Only, Parts, ClientFields, CupOps, NothingShown
  <2>2. HandsOn(app, b)
    BY <1>4, <1>7, <1>10, <2>1 DEF HandsOn
  <2>3. CoursesOK(b, db)
    BY <2>2, CoursesHanded
  <2> QED
    BY <1>8, <2>3
<1>11. CASE r.op = "courses"
  <2>1. b = [c EXCEPT !.courses = Grouped(r.data)]
    BY <1>1, <1>11 DEF Reduced, NothingShown, NeedsDetails
  <2>2. b.courses = Grouped(r.data)
    BY <1>3, <2>1, CoursesKnown
  <2>3. /\ IsSequence(r.data) /\ Apart(r.data)
        /\ \A k \in DOMAIN r.data : Has(db, r.data[k])
    BY <1>2, <1>11 DEF Brings
  <2>4. ASSUME NEW m \in DOMAIN b.courses PROVE GroupOK(b, db, b.courses[m])
    BY <2>2, <2>3, CoursesGrouped
  <2>5. ASSUME NEW j \in DOMAIN b.net PROVE Brings(b, db, b.net[j])
    <3>1. b.net[j].op # "createCourse"
      BY <1>3, <1>7 DEF Waits, Background, FetchOps
    <3>2. Brings(app, db, b.net[j])
      BY <1>4, <1>7 DEF CoursesOK
    <3> QED
      BY <3>1, <3>2 DEF Brings
  <2>6. CoursesOK(b, db)
    BY <2>4, <2>5 DEF CoursesOK
  <2> QED
    BY <1>8, <2>6
<1>12. CASE r.op = "createCourse"
  <2>1. b = [c EXCEPT !.courses = CourseCreated(@, r.data)]
    BY <1>1, <1>12 DEF Reduced, NothingShown, NeedsDetails
  <2>2. b.courses = CourseCreated(app.courses, r.data)
    BY <1>3, <1>5, <2>1, CoursesKnown
  <2>3. Creates(app.courses, b.courses, r.data)
    BY <1>5, <2>2, CourseCreatedIs
  <2>4. /\ Has(db, r.data)
        /\ \A m \in DOMAIN app.courses : \A k \in DOMAIN app.courses[m].layouts :
              app.courses[m].layouts[k].id # r.data.id
    BY <1>2, <1>12 DEF Brings
  <2>5. ASSUME NEW m \in DOMAIN app.courses
        PROVE  /\ GroupOK(app, db, app.courses[m]) /\ IsSequence(app.courses[m].layouts)
               /\ \A k \in DOMAIN app.courses[m].layouts : Has(db, app.courses[m].layouts[k])
    BY <1>5, <1>9, <1>12, NothingSaved DEF CoursesOK, IsCourses, IsGroup
  <2>6. ASSUME NEW m \in DOMAIN b.courses PROVE GroupOK(b, db, b.courses[m])
    <3>1. CASE \E k \in DOMAIN app.courses : b.courses[m] = app.courses[k]
      BY <2>5, <3>1, GroupHad
    <3>2. CASE b.courses[m].name = r.data.course /\ b.courses[m].layouts = <<r.data>>
      BY <2>4, <3>2, LayoutAlone
    <3>3. CASE \E k \in DOMAIN app.courses :
                  /\ b.courses[m].name = r.data.course /\ app.courses[k].name = r.data.course
                  /\ b.courses[m].layouts = <<r.data>> \o app.courses[k].layouts
      BY <2>4, <2>5, <3>3, LayoutInFront
    <3> QED
      BY <2>3, <3>1, <3>2, <3>3 DEF Creates
  <2>7. CoursesOK(b, db)
    BY <1>9, <1>12, <2>6 DEF CoursesOK
  <2> QED
    BY <1>8, <2>7
<1>13. CASE r.op = "updateCourse"
  <2>1. b = [c EXCEPT !.courses = CourseUpdated(@, r.data)]
    BY <1>1, <1>13 DEF Reduced, NothingShown, NeedsDetails
  <2>2. b.courses = CourseUpdated(app.courses, r.data)
    BY <1>3, <1>5, <2>1, CoursesKnown
  <2>3. /\ DOMAIN b.courses = DOMAIN app.courses
        /\ \A m \in DOMAIN app.courses :
              /\ b.courses[m].name = app.courses[m].name
              /\ Renews(app.courses[m].layouts, b.courses[m].layouts, r.data)
    BY <1>5, <2>2, CourseUpdatedIs
  <2>4. Has(db, r.data) /\ r.data.id = r.arg[1]
    BY <1>2, <1>13 DEF Brings
  <2>5. \A id : Saving(app, id) => id = r.data.id
    BY <1>9, <1>13, <2>4 DEF Saving
  <2>6. ASSUME NEW m \in DOMAIN b.courses PROVE GroupOK(b, db, b.courses[m])
    <3>1. GroupOK(app, db, app.courses[m])
      BY <2>3 DEF CoursesOK
    <3> QED
      BY <2>3, <2>4, <2>5, <3>1, LayoutRenewed
  <2>7. CoursesOK(b, db)
    BY <1>9, <1>13, <2>6 DEF CoursesOK
  <2> QED
    BY <1>8, <2>7
<1> QED
  BY <1>10, <1>11, <1>12, <1>13

\* A page that is loaded has no courses yet.
LEMMA OpensCourses ==
    ASSUME NEW d, Opens(d), NEW e PROVE CoursesOK(d, e)
<1>1. PICK l : Opened(l) /\ Grows(l, d, Range(Fetches(l)))
  BY DEF Opens
<1>2. DOMAIN d.courses = {}
  BY <1>1 DEF Opened, Grows, Same
<1> DEFINE F == Range(Fetches(l))
<1>3. Grows(l, d, F)
  BY <1>1
<1> HIDE DEF F
<1>4. ASSUME NEW j \in DOMAIN d.net PROVE d.net[j].phase = "sent"
  <2>1. CASE j \in DOMAIN l.net
    BY <1>1, <1>3, <2>1 DEF Opened, OnlyDetails, Grows, Extends
  <2>2. CASE j \notin DOMAIN l.net
    <3>1. Asked(l, d.net[j], F)
      BY <1>3, <2>2 DEF Grows, Extends
    <3> QED
      BY <3>1 DEF Asked, Request
  <2> QED
    BY <2>1, <2>2
<1> QED
  BY <1>2, <1>4 DEF CoursesOK, Brings

CoursesInv == OrderInv /\ Numbered(db) /\ (calm => CoursesOK(app, db))

LEMMA NextKeepsCourses ==
    ASSUME CoursesInv, [Next]_vars PROVE CoursesInv'
<1>1. OrderInv /\ OrderInv' /\ EditsInv /\ Numbered(db)
  BY NextKeepsOrder DEF CoursesInv, OrderInv
<1>2. Numbered(db')
  BY <1>1, NextKeepsNumbers
<1> SUFFICES ASSUME calm' PROVE CoursesOK(app', db')
  BY <1>1, <1>2 DEF CoursesInv
<1>3. CASE Opens(app')
  BY <1>3, OpensCourses
<1>4. CASE calm /\ CalmStep
  <2>1. IsClient(app) /\ Orderly(app) /\ CoursesOK(app, db)
    BY <1>1, <1>4, OrderIs DEF CoursesInv
  <2>2. SoundDb(db, plainSave) /\ Sound(app, IdsOf(db), plainSave)
    BY <1>1 DEF EditsInv
  <2>3. ASSUME NEW i \in DOMAIN app.net, Serve(i) PROVE CoursesOK(app', db')
    BY <1>1, <1>2, <2>1, <2>2, <2>3, ServeCourses
  <2>4. ASSUME UNCHANGED db, NEW i \in DOMAIN app.net, NEW n \in Ids, NEW c, Took(c, i),
               Receives(c, app.net[i], app', n)
        PROVE  CoursesOK(app', db')
    BY <1>1, <2>1, <2>2, <2>4, ReceivesCourses
  <2>5. CASE Carries(app, app') /\ db'.layouts = db.layouts
    <3>1. HandsOn(app, app')
      BY <2>5 DEF Carries, HandsOn
    <3> QED
      BY <2>1, <2>5, <3>1, CoursesHanded
  <2>6. \/ \E i \in DOMAIN app.net : Serve(i)
        \/ /\ UNCHANGED db
           /\ \E i \in DOMAIN app.net, n \in Ids :
                 \E c : Took(c, i) /\ Receives(c, app.net[i], app', n)
        \/ Carries(app, app') /\ db'.layouts = db.layouts
    BY <1>1, <1>4, CalmCarries
  <2> QED
    BY <2>3, <2>4, <2>5, <2>6
<1> QED
  BY <1>1, <1>3, <1>4, StepsAre

LEMMA InitHasCatalog == Init => CupInv /\ CoursesInv
<1> SUFFICES ASSUME Init PROVE CupInv /\ CoursesInv
  OBVIOUS
<1>1. OrderInv /\ Opens(app)
  BY InitInOrder, InitOpens DEF PagesInv
<1>2. ASSUME app.loggedIn PROVE CupOK(app, db.cups)
  BY <1>1, <1>2, OpensCup
<1>3. CoursesOK(app, db)
  BY <1>1, OpensCourses
<1>4. Numbered(db)
  <2>1. PICK u \in Users : db.layouts = <<NewLayout(2, Oak, u), NewLayout(1, Oak, u)>>
    BY DEF Init
  <2>2. DOMAIN db.layouts = 1..2 /\ db.layouts[1].id = 2 /\ db.layouts[2].id = 1
    BY <2>1 DEF NewLayout
  <2> QED
    BY <2>2 DEF Numbered, Apart
<1> QED
  BY <1>1, <1>2, <1>3, <1>4 DEF CupInv, CoursesInv

\* The tournament of the page is shown as it is stored, and so are the courses: every
\* layout once, under its course.
THEOREM CatalogIsShown == Spec => []CatalogAgrees
<1>1. CupInv /\ CoursesInv => CatalogAgrees
  <2> SUFFICES ASSUME CupInv, CoursesInv, Settled PROVE CatalogAgrees
    BY DEF CatalogAgrees
  <2>1. CupOK(app, db.cups) /\ CoursesOK(app, db) /\ DOMAIN app.net = {}
    BY DEF CupInv, CoursesInv, Settled, InFlight
  <2>2. app.at = "/tournament" => app.cup = db.cups[app.arg[1]]
    BY <2>1 DEF CupOK, CupThere, HasCup, WillShowCup, ShowsCup
  <2>3. ASSUME NEW g \in Range(app.courses)
        PROVE  /\ Range(g.layouts) \subseteq {l \in Range(db.layouts) : l.course = g.name}
               /\ IsInjective(g.layouts)
    <3>1. GroupOK(app, db, g)
      BY <2>1 DEF CoursesOK, Range
    <3>2. ASSUME NEW k \in DOMAIN g.layouts
          PROVE  Has(db, g.layouts[k]) /\ g.layouts[k].course = g.name
      BY <2>1, <3>1, InDbHas DEF GroupOK, Saving
    <3>3. Range(g.layouts) \subseteq {l \in Range(db.layouts) : l.course = g.name}
      BY <3>2 DEF Has, Range
    <3>4. IsInjective(g.layouts)
      BY <3>1 DEF GroupOK, Apart, IsInjective
    <3> QED
      BY <3>3, <3>4
  <2> QED
    BY <2>2, <2>3 DEF CatalogAgrees
<1>2. CupInv /\ [Next]_vars => CupInv'
  BY NextKeepsCup
<1>3. CoursesInv /\ [Next]_vars => CoursesInv'
  BY NextKeepsCourses
<1> QED
  BY <1>1, <1>2, <1>3, InitHasCatalog, PTL DEF Spec

-----------------------------------------------------------------------------
(* The feed.                                                                 *)
Items(d, n) == [k \in 1..n \cap 1..NumItems |-> [id |-> k, likes |-> d.likes[k]]]
ShowsFeed(f, d, n) == f.items = Items(d, n) /\ f.last = (n >= NumItems)
\* The feed f after u liked an item, or no longer does.
Toggled(likes, u) == IF u \in likes THEN likes \ {u} ELSE likes \cup {u}
ItemLiked(x, u) == [x EXCEPT !.likes = Toggled(@, u)]
Liked(f, u, id) ==
    [f EXCEPT !.items =
        [n \in DOMAIN f.items |-> IF f.items[n].id = id THEN ItemLiked(f.items[n], u) ELSE f.items[n]]]
FeedNew(c) == ~c.feed.loaded => c.feed.items = <<>>
\* The next page is on its way; or a like that was stored is; or the feed is there.
HasFeed(c) == \E i \in DOMAIN c.net : c.net[i].op = "feed"
OneFeed(c) == \A i, j \in DOMAIN c.net : c.net[i].op = "feed" /\ c.net[j].op = "feed" => i = j
FeedRequest(c, r, d) ==
    r.op = "feed" => /\ r.arg = <<c.view.feed>>
                     /\ r.phase = "ok" => r.data = PageOfFeed(d, c.view.feed)
FeedComes(c, d) == HasFeed(c) /\ c.feed.items = Items(d, c.view.feed - 1)
WillShowFeed(c, d) ==
    \E i \in DOMAIN c.net : /\ c.net[i].op = "toggleLike" /\ c.net[i].phase = "ok"
                            /\ ShowsFeed(Liked(c.feed, c.user, c.net[i].arg[1]), d, c.view.feed)
FeedShown(c, d) ==
    /\ \A i \in DOMAIN c.net : c.net[i].op = "toggleLike" => c.net[i].phase = "sent"
    /\ ~HasFeed(c)
    /\ ShowsFeed(c.feed, d, c.view.feed)
FeedThere(c, d) ==
    /\ c.view.feed \in {1} \cup 1..NumItems
    /\ OneFeed(c) /\ \A i \in DOMAIN c.net : FeedRequest(c, c.net[i], d)
    /\ FeedComes(c, d) \/ WillShowFeed(c, d) \/ FeedShown(c, d)
FeedOK(c, d) == c.at = "/" => FeedThere(c, d)

LEMMA NoItems ==
    ASSUME NEW d PROVE Items(d, 0) = <<>>
<1>1. 1..0 \cap 1..NumItems = {}
  BY ClassicAppAssumption
<1>2. Items(d, 0) = [k \in {} |-> [id |-> k, likes |-> d.likes[k]]]
  BY <1>1 DEF Items
<1> QED
  BY <1>2

\* A page after those before it.
LEMMA ItemsAppended ==
    ASSUME NEW d, NEW n \in {1} \cup 1..NumItems
    PROVE  /\ Items(d, n - 1) \o PageOfFeed(d, n).items = Items(d, n)
           /\ PageOfFeed(d, n).last = (n >= NumItems)
<1>0. n \in Nat /\ NumItems \in Nat
  BY ClassicAppAssumption
<1>1. CASE n > NumItems
  <2>1. n = 1 /\ NumItems = 0
    BY <1>0, <1>1
  <2>2. Items(d, n - 1) = <<>>
    BY <2>1, NoItems
  <2>3. 1..1 \cap 1..0 = {}
    OBVIOUS
  <2>4. Items(d, n) = [k \in {} |-> [id |-> k, likes |-> d.likes[k]]]
    BY <2>1, <2>3 DEF Items
  <2>5. Items(d, n) = <<>>
    BY <2>4
  <2>6. PageOfFeed(d, n).items = <<>> /\ PageOfFeed(d, n).last = (n >= NumItems)
    BY <1>1 DEF PageOfFeed
  <2>7. <<>> \o <<>> = <<>>
    OBVIOUS
  <2> QED
    BY <2>2, <2>5, <2>6, <2>7
<1>2. CASE n <= NumItems
  <2> DEFINE x == [id |-> n, likes |-> d.likes[n]]
             R == {[id |-> k, likes |-> d.likes[k]] : k \in 1..NumItems}
             s == Items(d, n - 1)
             t == Items(d, n)
  <2>1. 1..(n - 1) \cap 1..NumItems = 1..(n - 1) /\ 1..n \cap 1..NumItems = 1..n /\ n \in 1..NumItems
    BY <1>0, <1>2
  <2>2. /\ s \in [1..(n - 1) -> R] /\ \A k \in 1..(n - 1) : s[k] = [id |-> k, likes |-> d.likes[k]]
        /\ t \in [1..n -> R] /\ \A k \in 1..n : t[k] = [id |-> k, likes |-> d.likes[k]]
    BY <2>1 DEF Items
  <2>3. x \in R /\ t[n] = x
    BY <2>1, <2>2
  <2>4. PageOfFeed(d, n).items = <<x>> /\ PageOfFeed(d, n).last = (n >= NumItems)
    BY <1>0, <1>2 DEF PageOfFeed
  <2> HIDE DEF R, s, t, x
  <2>5. s \in Seq(R) /\ Len(s) = n - 1 /\ n - 1 \in Nat
    BY <2>1, <2>2
  <2>6. <<x>> \in Seq(R) /\ Len(<<x>>) = 1
    BY <2>3
  <2>7. s \o <<x>> \in Seq(R) /\ Len(s \o <<x>>) = n
    BY <1>0, <2>5, <2>6
  <2>8. ASSUME NEW k \in 1..n PROVE (s \o <<x>>)[k] = t[k]
    BY <2>2, <2>3, <2>5, <2>8, <2>6
  <2>9. s \o <<x>> = t
    BY <2>2, <2>7, <2>8
  <2> QED
    BY <2>4, <2>9 DEF s, t
<1>3. n > NumItems \/ n <= NumItems
  BY <1>0
<1> QED
  BY <1>1, <1>2, <1>3

\* A like in the store and on the server.
LEMMA ItemsLiked ==
    ASSUME NEW d, IsDb(d), NEW r, r.op = "toggleLike", NEW e, e = After(d, r),
           NEW f, DOMAIN f = DOMAIN NoFeed, NEW n, ShowsFeed(f, d, n)
    PROVE  ShowsFeed(Liked(f, r.who, r.arg[1]), e, n)
<1> DEFINE id == r.arg[1]
           u == r.who
           g == Liked(f, u, id)
           S == 1..n \cap 1..NumItems
<1>1. DOMAIN d.likes = 1..NumItems /\ e.likes = LikesAfterwards(d, r)
  BY LikesAfter DEF IsDb
<1>2. ASSUME NEW k \in DOMAIN d.likes
      PROVE  e.likes[k] = IF k = id THEN Toggled(d.likes[k], u) ELSE d.likes[k]
  BY <1>1 DEF LikesAfterwards, Toggled
<1>3. g.last = f.last
  BY DEF Liked, NoFeed
<1>4. g.items = [k \in DOMAIN f.items |->
                   IF f.items[k].id = id THEN ItemLiked(f.items[k], u) ELSE f.items[k]]
  BY DEF Liked, NoFeed
<1>5. f.items = [k \in S |-> [id |-> k, likes |-> d.likes[k]]]
  BY DEF ShowsFeed, Items
<1> HIDE DEF g, S, id, u
<1>6. ASSUME NEW k \in S
      PROVE  (IF f.items[k].id = id THEN ItemLiked(f.items[k], u) ELSE f.items[k])
               = [id |-> k, likes |-> e.likes[k]]
  <2>1. f.items[k] = [id |-> k, likes |-> d.likes[k]] /\ k \in DOMAIN d.likes
    BY <1>1, <1>5 DEF S
  <2>2. ItemLiked(f.items[k], u) = [id |-> k, likes |-> Toggled(d.likes[k], u)]
    BY <2>1 DEF ItemLiked
  <2>3. e.likes[k] = IF k = id THEN Toggled(d.likes[k], u) ELSE d.likes[k]
    BY <1>2, <2>1
  <2> QED
    BY <2>1, <2>2, <2>3
<1>7. DOMAIN f.items = S
  BY <1>5
<1>8. g.items = [k \in S |-> [id |-> k, likes |-> e.likes[k]]]
  BY <1>4, <1>6, <1>7
<1> QED
  BY <1>3, <1>8 DEF ShowsFeed, Items, S, g, id, u

LEMMA LikeReduced ==
    ASSUME NEW c, IsClient(c), NEW x
    PROVE  LikeToggled(c, x).feed = Liked(c.feed, c.user, x)
BY DEF LikeToggled, Liked, ItemLiked, Toggled, NoFeed, IsClient, ClientFields

LEMMA FeedReduced ==
    ASSUME NEW c, IsClient(c), NEW x
    PROVE  /\ FeedFetched(c, x).feed.items = c.feed.items \o x.items
           /\ FeedFetched(c, x).feed.last = x.last /\ FeedFetched(c, x).feed.loaded
BY DEF FeedFetched, IsClient, ClientFields

\* d has the requests of c that touch the feed.
KeepsFeed(c, d) ==
    /\ d.feed = c.feed /\ d.at = c.at /\ d.user = c.user /\ d.view.feed = c.view.feed
    /\ OneFeed(c) => OneFeed(d)
    /\ \A j \in DOMAIN d.net : \/ d.net[j].op \notin {"feed", "toggleLike"}
                               \/ \E k \in DOMAIN c.net : d.net[j] = c.net[k]
    /\ \A k \in DOMAIN c.net :
          c.net[k].op \in {"feed", "toggleLike"} => \E j \in DOMAIN d.net : d.net[j] = c.net[k]

LEMMA FeedKept ==
    ASSUME NEW d, NEW c, FeedOK(c, d), NEW a, KeepsFeed(c, a), NEW e, e.likes = d.likes
    PROVE  FeedOK(a, e)
<1> SUFFICES ASSUME a.at = "/" PROVE FeedThere(a, e)
  BY DEF FeedOK
<1>1. FeedThere(c, d)
  BY DEF KeepsFeed, FeedOK
<1>2. /\ \A n : Items(e, n) = Items(d, n)
      /\ \A n : PageOfFeed(e, n) = PageOfFeed(d, n)
  BY DEF Items, PageOfFeed
<1>3. OneFeed(a) /\ a.view.feed = c.view.feed /\ a.feed = c.feed /\ a.user = c.user
  BY <1>1 DEF KeepsFeed, FeedThere
<1>4. ASSUME NEW j \in DOMAIN a.net PROVE FeedRequest(a, a.net[j], e)
  <2>1. CASE a.net[j].op \notin {"feed", "toggleLike"}
    BY <2>1 DEF FeedRequest
  <2>2. CASE \E k \in DOMAIN c.net : a.net[j] = c.net[k]
    BY <1>1, <1>2, <1>3, <2>2 DEF FeedThere, FeedRequest
  <2> QED
    BY <2>1, <2>2 DEF KeepsFeed
<1>5. CASE FeedComes(c, d)
  <2>1. FeedComes(a, e)
    BY <1>2, <1>3, <1>5 DEF FeedComes, HasFeed, KeepsFeed
  <2> QED
    BY <1>1, <1>3, <1>4, <2>1 DEF FeedThere
<1>6. \A f, n : ShowsFeed(f, d, n) => ShowsFeed(f, e, n)
  BY <1>2 DEF ShowsFeed
<1>7. CASE WillShowFeed(c, d)
  <2>1. PICK k \in DOMAIN c.net :
             /\ c.net[k].op = "toggleLike" /\ c.net[k].phase = "ok"
             /\ ShowsFeed(Liked(c.feed, c.user, c.net[k].arg[1]), d, c.view.feed)
    BY <1>7 DEF WillShowFeed
  <2>2. PICK j \in DOMAIN a.net : a.net[j] = c.net[k]
    BY <2>1 DEF KeepsFeed
  <2>3. WillShowFeed(a, e)
    BY <1>3, <1>6, <2>1, <2>2 DEF WillShowFeed
  <2> QED
    BY <1>1, <1>3, <1>4, <2>3 DEF FeedThere
<1>8. CASE FeedShown(c, d)
  <2>1. ASSUME NEW j \in DOMAIN a.net, a.net[j].op = "toggleLike" PROVE a.net[j].phase = "sent"
    <3>1. PICK k \in DOMAIN c.net : a.net[j] = c.net[k]
      BY <2>1 DEF KeepsFeed
    <3> QED
      BY <1>8, <2>1, <3>1 DEF FeedShown
  <2>2. ~HasFeed(a)
    BY <1>8 DEF FeedShown, HasFeed, KeepsFeed
  <2>3. FeedShown(a, e)
    BY <1>3, <1>6, <1>8, <2>1, <2>2 DEF FeedShown
  <2> QED
    BY <1>1, <1>3, <1>4, <2>3 DEF FeedThere
<1> QED
  BY <1>1, <1>5, <1>7, <1>8 DEF FeedThere

LEMMA GrowsFeed ==
    ASSUME NEW c, NEW F, NoFeedIn(F), NEW d, Grows(c, d, F) PROVE KeepsFeed(c, d)
<1>1. /\ d.at = c.at /\ d.user = c.user /\ d.view = c.view /\ DOMAIN c.net \subseteq DOMAIN d.net
      /\ \A i \in DOMAIN c.net : d.net[i] = c.net[i]
  BY DEF Grows, Same, Extends
<1>2. d.feed = c.feed
  BY DEF Grows, NoFeedIn, Fetch
<1>3. ASSUME NEW i \in DOMAIN d.net \ DOMAIN c.net
      PROVE  d.net[i].op \notin {"feed", "toggleLike"}
  <2>1. Asked(c, d.net[i], F)
    BY DEF Grows, Extends
  <2> QED
    BY <2>1 DEF Asked, NoFeedIn, Fetch, Background, FetchOps
<1> QED
  BY <1>1, <1>2, <1>3 DEF KeepsFeed, OneFeed

LEMMA OnlyFeed ==
    ASSUME NEW c, NEW S, NEW d, Only(c, d, S), S \cap {"net", "feed", "at", "view", "user"} = {}
    PROVE  KeepsFeed(c, d)
BY DEF Only, ClientFields, KeepsFeed, OneFeed

LEMMA TakesFeed ==
    ASSUME NEW c, NEW i \in DOMAIN c.net, NEW d, Takes(c, d, i)
    PROVE  /\ c.net[i].op \notin {"feed", "toggleLike"} => KeepsFeed(c, d)
           /\ OneFeed(c) /\ c.net[i].op = "feed" => ~HasFeed(d)
<1>1. PICK w \in [DOMAIN d.net -> DOMAIN c.net \ {i}] :
         /\ \A j \in DOMAIN d.net : d.net[j] = c.net[w[j]]
         /\ \A j, k \in DOMAIN d.net : w[j] = w[k] => j = k
         /\ \A k \in DOMAIN c.net \ {i} : \E j \in DOMAIN d.net : w[j] = k
  BY DEF Takes
<1>2. d.feed = c.feed /\ d.at = c.at /\ d.user = c.user /\ d.view = c.view
  BY DEF Takes, Only, ClientFields
<1>3. OneFeed(c) => OneFeed(d)
  BY <1>1 DEF OneFeed
<1>4. OneFeed(c) /\ c.net[i].op = "feed" => ~HasFeed(d)
  BY <1>1 DEF OneFeed, HasFeed
<1>5. \A j \in DOMAIN d.net : \E k \in DOMAIN c.net : d.net[j] = c.net[k]
  BY <1>1
<1>6. ASSUME c.net[i].op \notin {"feed", "toggleLike"},
             NEW k \in DOMAIN c.net, c.net[k].op \in {"feed", "toggleLike"}
      PROVE  \E j \in DOMAIN d.net : d.net[j] = c.net[k]
  BY <1>1, <1>6
<1> QED
  BY <1>2, <1>3, <1>4, <1>5, <1>6 DEF KeepsFeed

\* Likes and pages of the feed, served and answered.
LEMMA LikeAlone ==
    ASSUME NEW c, Orderly(c), NEW i \in DOMAIN c.net, c.net[i].op = "toggleLike"
    PROVE  (\A j \in DOMAIN c.net : j = i) /\ c.net[i].who = c.user /\ c.net[i].op \notin Background
BY DEF Orderly, Waits, InTime, Free, Background, FetchOps

LEMMA ServeFeed ==
    ASSUME IsClient(app), Orderly(app), IsDb(db), FeedOK(app, db), NEW i \in DOMAIN app.net, Serve(i)
    PROVE  FeedOK(app', db')
<1> DEFINE r == app.net[i]
<1>1. r.phase = "sent" /\ \E q : Served(r, q, db, db') /\ Changes(app, app', i, q)
  BY ServeIs
<1>2. PICK q : Served(r, q, db, db') /\ Changes(app, app', i, q)
  BY <1>1
<1>3. /\ app'.feed = app.feed /\ app'.at = app.at /\ app'.view = app.view /\ app'.user = app.user
      /\ DOMAIN app'.net = DOMAIN app.net /\ app'.net[i] = q
      /\ \A j \in DOMAIN app.net : j # i => app'.net[j] = app.net[j]
  BY <1>2 DEF Changes, Only, ClientFields
<1>4. q.op = r.op /\ q.arg = r.arg /\ q.who = r.who
  BY <1>2 DEF Served
<1> HIDE DEF r
<1>5. \/ r.op \in Refusable /\ q.phase = "error" /\ db' = db
      \/ q.phase = "ok" /\ q.data = Data(db', r) /\ db' = After(db, r)
  BY <1>2 DEF Served
<1> SUFFICES ASSUME app.at = "/" PROVE FeedThere(app', db')
  BY <1>3 DEF FeedOK
<1>6. FeedThere(app, db)
  BY DEF FeedOK
<1>7. OneFeed(app')
  BY <1>3, <1>4, <1>6 DEF FeedThere, OneFeed, r
<1>8. CASE r.op = "toggleLike"
  <2>1. (\A j \in DOMAIN app.net : j = i) /\ r.who = app.user
    BY <1>8, LikeAlone DEF r
  <2>2. ShowsFeed(app.feed, db, app.view.feed)
    BY <1>1, <1>6, <1>8, <2>1
    DEF FeedThere, FeedComes, HasFeed, WillShowFeed, FeedShown, r
  <2>3. q.phase = "ok" /\ db' = After(db, r)
    BY <1>5, <1>8 DEF Refusable
  <2>4. ShowsFeed(Liked(app.feed, r.who, r.arg[1]), db', app.view.feed)
    BY <1>8, <2>2, <2>3, ItemsLiked DEF IsClient
  <2>5. WillShowFeed(app', db')
    BY <1>3, <1>4, <1>8, <2>1, <2>3, <2>4 DEF WillShowFeed
  <2>6. \A j \in DOMAIN app'.net : FeedRequest(app', app'.net[j], db')
    BY <1>3, <1>4, <1>8, <2>1 DEF FeedRequest
  <2> QED
    BY <1>3, <1>6, <1>7, <2>5, <2>6 DEF FeedThere
<1>9. CASE r.op # "toggleLike"
  <2>1. db'.likes = db.likes
    BY <1>5, <1>9, AfterIs
  <2>2. /\ \A n : Items(db', n) = Items(db, n)
        /\ \A n : PageOfFeed(db', n) = PageOfFeed(db, n)
    BY <2>1 DEF Items, PageOfFeed
  <2>3. \A f, n : ShowsFeed(f, db, n) => ShowsFeed(f, db', n)
    BY <2>2 DEF ShowsFeed
  <2>4. ASSUME NEW j \in DOMAIN app'.net PROVE FeedRequest(app', app'.net[j], db')
    <3>1. FeedRequest(app, app.net[j], db)
      BY <1>3, <1>6 DEF FeedThere
    <3>2. CASE j # i
      BY <1>3, <2>2, <3>1, <3>2 DEF FeedRequest
    <3>3. CASE j = i
      <4> SUFFICES ASSUME r.op = "feed"
                   PROVE  /\ q.arg = <<app.view.feed>>
                          /\ q.phase = "ok" => q.data = PageOfFeed(db', app.view.feed)
        BY <1>3, <1>4, <3>3 DEF FeedRequest
      <4>1. r.arg = <<app.view.feed>>
        BY <3>1, <3>3 DEF FeedRequest, r
      <4>2. Data(db', r) = PageOfFeed(db', r.arg[1])
        BY DEF Data
      <4> QED
        BY <1>4, <1>5, <4>1, <4>2 DEF Refusable
    <3> QED
      BY <3>2, <3>3
  <2>5. FeedComes(app, db) => FeedComes(app', db')
    BY <1>3, <1>4, <2>2 DEF FeedComes, HasFeed, r
  <2>6. WillShowFeed(app, db) => WillShowFeed(app', db')
    BY <1>3, <1>9, <2>3 DEF WillShowFeed, r
  <2>7. FeedShown(app, db) => FeedShown(app', db')
    BY <1>3, <1>4, <1>9, <2>3 DEF FeedShown, HasFeed, r
  <2> QED
    BY <1>3, <1>6, <1>7, <2>4, <2>5, <2>6, <2>7 DEF FeedThere
<1> QED
  BY <1>8, <1>9

LEMMA ReceivesFeed ==
    ASSUME IsClient(app), Orderly(app), FeedOK(app, db),
           NEW i \in DOMAIN app.net, NEW c, Took(c, i), NEW n, Receives(c, app.net[i], app', n)
    PROVE  FeedOK(app', db)
<1> DEFINE r == app.net[i]
<1>1. PICK b : b = Reduced(c, r, n) /\ Only(c, b, Parts(r.op)) /\ Grows(b, app', {})
  BY DEF Receives
<1>2. Only(c, b, Parts(r.op)) /\ Grows(b, app', {})
  BY <1>1
<1>3. Took(c, i) /\ Takes(app, c, i) /\ IsClient(c)
  BY DEF Took
<1>4. /\ c.feed = app.feed /\ c.at = app.at /\ c.view = app.view /\ c.user = app.user
  BY <1>3 DEF Takes, Only, ClientFields
<1>5. b.net = c.net /\ b.at = c.at /\ b.view = c.view /\ b.user = c.user
  BY <1>2, PartsArePage DEF SamePage
<1>6. r.phase = "ok" /\ r.op \in Requests \ Turning
  BY DEF Receives
<1>7. ASSUME FeedOK(b, db) PROVE FeedOK(app', db)
  <2>1. NoFeedIn({})
    BY DEF NoFeedIn
  <2>2. KeepsFeed(b, app')
    BY <1>2, <2>1, GrowsFeed
  <2> QED
    BY <1>7, <2>2, FeedKept
<1>8. CASE r.op \notin {"feed", "toggleLike"}
  <2>1. KeepsFeed(app, c)
    BY <1>3, <1>8, TakesFeed
  <2>2. FeedOK(c, db)
    BY <2>1, FeedKept
  <2>3. Parts(r.op) \cap {"net", "feed", "at", "view", "user"} = {}
    BY <1>8 DEF Parts
  <2>4. KeepsFeed(c, b)
    BY <1>2, <2>3, OnlyFeed
  <2> QED
    BY <1>7, <2>2, <2>4, FeedKept
<1>9. ASSUME r.op \in {"feed", "toggleLike"}, b.at = "/",
             ShowsFeed(b.feed, db, b.view.feed),
             \A j \in DOMAIN b.net : b.net[j].op \notin {"feed", "toggleLike"}
      PROVE  FeedOK(app', db)
  <2>1. b.view.feed \in {1} \cup 1..NumItems
    BY <1>4, <1>5, <1>9 DEF FeedOK, FeedThere
  <2>2. FeedThere(b, db)
    BY <1>9, <2>1 DEF FeedThere, FeedShown, OneFeed, FeedRequest, HasFeed
  <2> QED
    BY <1>7, <2>2 DEF FeedOK
<1>10. ASSUME b.at # "/" PROVE FeedOK(app', db)
  BY <1>7, <1>10 DEF FeedOK
<1>11. b.at = "/" => FeedThere(app, db)
  BY <1>4, <1>5 DEF FeedOK
<1>12. CASE r.op = "feed"
  <2> SUFFICES ASSUME b.at = "/" PROVE FeedOK(app', db)
    BY <1>10
  <2> DEFINE m == app.view.feed
  <2>1. OneFeed(app) /\ FeedRequest(app, r, db) /\ m \in {1} \cup 1..NumItems
    BY <1>11 DEF FeedThere
  <2>2. r.data = PageOfFeed(db, m)
    BY <1>6, <1>12, <2>1 DEF FeedRequest
  <2>3. ~HasFeed(c)
    BY <1>3, <1>12, <2>1, TakesFeed
  <2>4. Waits(app)
    BY <1>12 DEF Orderly, Waits, Background, FetchOps
  <2>5. app.feed.items = Items(db, m - 1)
    <3>1. ~FeedShown(app, db)
      BY <1>12 DEF FeedShown, HasFeed
    <3>2. ~WillShowFeed(app, db)
      BY <2>4 DEF WillShowFeed, Waits, Background, FetchOps
    <3> QED
      BY <1>11, <3>1, <3>2 DEF FeedThere, FeedComes
  <2>6. b = FeedFetched(c, r.data)
    BY <1>1, <1>12 DEF Reduced, NeedsDetails, NothingShown
  <2>7. b.feed.items = app.feed.items \o r.data.items /\ b.feed.last = r.data.last
    <3> HIDE DEF r
    <3>1. /\ FeedFetched(c, r.data).feed.items = c.feed.items \o r.data.items
          /\ FeedFetched(c, r.data).feed.last = r.data.last
      BY <1>3, FeedReduced
    <3> QED
      BY <1>4, <2>6, <3>1
  <2>8. ShowsFeed(b.feed, db, m)
    <3> HIDE DEF m, r
    <3>1. /\ Items(db, m - 1) \o PageOfFeed(db, m).items = Items(db, m)
          /\ PageOfFeed(db, m).last = (m >= NumItems)
      BY <2>1, ItemsAppended
    <3>3. b.feed.items = Items(db, m)
      BY <2>2, <2>5, <2>7, <3>1
    <3>4. b.feed.last = (m >= NumItems)
      BY <2>2, <2>7, <3>1
    <3> QED
      BY <3>3, <3>4 DEF ShowsFeed
  <2>9. \A j \in DOMAIN b.net : b.net[j].op \notin {"feed", "toggleLike"}
    BY <1>3, <1>5, <2>3 DEF HasFeed, Took, Waits, Background, FetchOps
  <2> QED
    BY <1>4, <1>5, <1>9, <1>12, <2>8, <2>9
<1>13. CASE r.op = "toggleLike"
  <2> SUFFICES ASSUME b.at = "/" PROVE FeedOK(app', db)
    BY <1>10
  <2>1. (\A j \in DOMAIN app.net : j = i) /\ r.op \notin Background
    BY <1>13, LikeAlone
  <2>2. ShowsFeed(Liked(app.feed, app.user, r.arg[1]), db, app.view.feed)
    BY <1>6, <1>11, <1>13, <2>1 DEF FeedThere, FeedComes, HasFeed, FeedShown, WillShowFeed
  <2>3. b = LikeToggled(c, r.arg[1])
    BY <1>1, <1>13 DEF Reduced, NeedsDetails, NothingShown
  <2>4. b.feed = Liked(app.feed, app.user, r.arg[1])
    <3> HIDE DEF r
    <3>1. LikeToggled(c, r.arg[1]).feed = Liked(c.feed, c.user, r.arg[1])
      BY <1>3, LikeReduced
    <3> QED
      BY <1>4, <2>3, <3>1
  <2>5. DOMAIN b.net = {}
    BY <1>3, <1>5, <2>1 DEF Took, Idle
  <2> QED
    BY <1>4, <1>5, <1>9, <1>13, <2>2, <2>4, <2>5
<1> QED
  BY <1>8, <1>12, <1>13

\* Somebody who waited goes to a page, or looks at another part of it.
FeedView(c, a) ==
    a.at = "/" =>
      \/ a.view.feed = 1
      \/ /\ c.at = "/"
         /\ a.view.feed = c.view.feed \/ (a.view.feed = c.view.feed + 1 /\ ~c.feed.last)
LEMMA ShownFeed ==
    ASSUME NEW e, NEW c, OnlyDetails(c), c.loggedIn, FeedOK(c, e), NEW a, IsClient(a),
           a.net = c.net, a.feed = c.feed, a.user = c.user, a.loggedIn, FeedView(c, a),
           NEW d, Shown(c, a, d), FeedNew(d)
    PROVE  FeedOK(d, e)
<1> DEFINE F == EffectsOf(c, a)
           f == Fetch("feed", <<a.view.feed>>)
           m == a.view.feed
<1>1. Grows(a, d, F) /\ (\A g \in F : Makes(a, d, g)) /\ F \in SUBSET Range(Fetches(a))
  BY DEF Shown, EffectsOf
<1>2. d.at = a.at /\ d.view = a.view /\ d.user = a.user
  BY <1>1 DEF Grows, Same
<1> SUFFICES ASSUME a.at = "/" PROVE FeedThere(d, e)
  BY <1>2 DEF FeedOK
<1>3. Fetches(a) = <<f>>
  BY DEF Fetches
<1>4. Range(Fetches(a)) = {f} /\ f.op = "feed" /\ f.arg = <<m>>
  BY <1>3 DEF Range, Fetch
<1>5. c.at = "/" => Fetches(c) = <<Fetch("feed", <<c.view.feed>>)>>
  BY DEF Fetches
<1>6. c.at = "/" => FeedThere(c, e)
  BY DEF FeedOK
<1>7. CASE c.at = "/" /\ m = c.view.feed
  <2>1. F = {}
    BY <1>3, <1>5, <1>7 DEF EffectsOf
  <2>2. NoFeedIn(F)
    BY <2>1 DEF NoFeedIn
  <2> HIDE DEF F
  <2>3. KeepsFeed(a, d)
    BY <1>1, <2>2, GrowsFeed
  <2>4. KeepsFeed(c, a)
    BY <1>7 DEF KeepsFeed, OneFeed
  <2>5. FeedOK(a, e)
    BY <2>4, FeedKept
  <2>6. FeedOK(d, e)
    BY <2>3, <2>5, FeedKept
  <2> QED
    BY <1>2, <2>6 DEF FeedOK
<1>8. CASE c.at # "/" \/ m # c.view.feed
  <2>1. f \in F
    <3>1. ASSUME c.at = "/", NEW g \in Range(Fetches(c)) PROVE g.arg # f.arg
      BY <1>5, <1>8, <3>1 DEF Range, Fetch
    <3> QED
      BY <1>4, <3>1 DEF EffectsOf
  <2> HIDE DEF F
  <2>2. Makes(a, d, f)
    BY <1>1, <2>1
  <2>3. PICK k \in DOMAIN d.net \ DOMAIN a.net : d.net[k].op = "feed" /\ d.net[k].arg = <<m>>
    BY <1>4, <2>2 DEF Makes
  <2>4. \A i \in DOMAIN a.net : d.net[i] = a.net[i] /\ a.net[i].op \in {"details", "moreDetails"}
    BY <1>1 DEF Grows, Extends, OnlyDetails
  <2>5. ASSUME NEW i \in DOMAIN d.net, d.net[i].op = "feed" PROVE i = k /\ i \notin DOMAIN a.net
    BY <1>1, <2>3, <2>4, <2>5 DEF Grows, OnceTheFeed
  <2>6. OneFeed(d) /\ HasFeed(d)
    BY <2>3, <2>5 DEF OneFeed, HasFeed
  <2>7. ASSUME NEW i \in DOMAIN d.net PROVE FeedRequest(d, d.net[i], e)
    <3>1. d.net[k].phase = "sent"
      <4>1. Asked(a, d.net[k], F)
        BY <1>1, <2>3 DEF Grows, Extends
      <4> QED
        BY <4>1 DEF Asked, Request
    <3> QED
      BY <1>2, <2>3, <2>5, <3>1 DEF FeedRequest
  <2>8. m \in {1} \cup 1..NumItems /\ d.feed.items = Items(e, m - 1)
    <3>1. CASE m = 1
      <4>1. f = Fetch("feed", << 1 >>)
        BY <3>1
      <4>2. ~d.feed.loaded
        BY <1>4, <2>2, <4>1 DEF Makes
      <4>3. d.feed.items = <<>> /\ Items(e, 0) = <<>>
        BY <4>2, NoItems DEF FeedNew
      <4> QED
        BY <3>1, <4>3
    <3>2. CASE m # 1
      <4>1. c.at = "/" /\ m = c.view.feed + 1 /\ ~c.feed.last
        BY <1>8, <3>2 DEF FeedView
      <4>2. ShowsFeed(c.feed, e, c.view.feed) /\ c.view.feed \in {1} \cup 1..NumItems
        BY <1>6, <4>1 DEF FeedThere, FeedComes, HasFeed, WillShowFeed, FeedShown, OnlyDetails
      <4>3. c.feed.items = Items(e, c.view.feed) /\ ~(c.view.feed >= NumItems)
        BY <4>1, <4>2 DEF ShowsFeed
      <4>4. c.view.feed < NumItems /\ c.feed.items = Items(e, c.view.feed) /\ c.view.feed \in Nat
        BY <4>2, <4>3, ClassicAppAssumption
      <4>5. m \in 1..NumItems /\ m - 1 = c.view.feed
        BY <4>1, <4>4, ClassicAppAssumption
      <4>6. Fetch("feed", << 1 >>) \notin F
        <5>1. <<m>> # << 1 >>
          BY <3>2
        <5> QED
          BY <1>1, <1>4, <5>1 DEF Fetch
      <4>7. d.feed = c.feed
        BY <1>1, <4>6 DEF Grows
      <4> QED
        BY <4>4, <4>5, <4>7
    <3> QED
      BY <3>1, <3>2
  <2>9. FeedComes(d, e)
    BY <1>2, <2>6, <2>8 DEF FeedComes
  <2> QED
    BY <1>2, <2>6, <2>7, <2>8, <2>9 DEF FeedThere
<1> QED
  BY <1>7, <1>8

LEMMA ElsewhereFeed ==
    ASSUME NEW e, NEW c, OnlyDetails(c), c.loggedIn, FeedOK(c, e), NEW d, NEW at, NEW arg,
           Goes(c, d, at, arg), FeedNew(d)
    PROVE  FeedOK(d, e)
<1>1. PICK a : Elsewhere(c, a, at, arg) /\ Shown(c, a, d)
  BY DEF Goes
<1>2. /\ IsClient(a) /\ a.net = c.net /\ a.feed = c.feed /\ a.user = c.user /\ a.loggedIn
      /\ a.at = at /\ a.view = IF c.at = at THEN c.view ELSE Fresh
  BY <1>1 DEF Elsewhere
<1>3. FeedView(c, a)
  BY <1>2 DEF FeedView, Fresh
<1> QED
  BY <1>1, <1>2, <1>3, ShownFeed

LEMMA IdleDetails ==
    ASSUME NEW c, Idle(c) PROVE OnlyDetails(c)
BY DEF Idle, OnlyDetails

LEMMA DoingFeed ==
    ASSUME IsClient(app), Idle(app), app.loggedIn, FeedOK(app, db), Doing(app, app'), FeedNew(app')
    PROVE  FeedOK(app', db)
<1>0. OnlyDetails(app)
  BY IdleDetails
<1>1. ASSUME NEW at, NEW arg, Goes(app, app', at, arg) PROVE FeedOK(app', db)
  BY <1>0, <1>1, ElsewhereFeed
<1>2. ASSUME NEW view, Views(view), LooksAt(app, app', view) PROVE FeedOK(app', db)
  <2>1. PICK a : Looks(app, a, view) /\ Shown(app, a, app')
    BY <1>2 DEF LooksAt
  <2>2. /\ IsClient(a) /\ a.net = app.net /\ a.feed = app.feed /\ a.user = app.user /\ a.loggedIn
        /\ a.at = app.at /\ a.view = view
    BY <2>1 DEF Looks
  <2>3. FeedView(app, a)
    BY <1>2, <2>2 DEF FeedView, Views
  <2> QED
    BY <1>0, <2>1, <2>2, <2>3, ShownFeed
<1>3. CASE AsksOne(app, app')
  <2>1. PICK a : /\ OtherHole(app, a)
                 /\ \/ app' = a
                    \/ \E op, arg, who : Mine(op, arg, who) /\ Appends(a, app', Request(op, arg, who))
    BY <1>3 DEF AsksOne
  <2>2. KeepsFeed(app, a) /\ DOMAIN a.net = {}
    BY <2>1 DEF OtherHole, Looks, KeepsFeed, Idle, OneFeed, Fresh
  <2>3. FeedOK(a, db)
    BY <2>2, FeedKept
  <2>4. ASSUME NEW op, NEW arg, NEW who, Mine(op, arg, who), Appends(a, app', Request(op, arg, who))
        PROVE  FeedOK(app', db)
    <3> DEFINE r == Request(op, arg, who)
    <3>1. r.phase = "sent" /\ r.op = op
      BY DEF Request
    <3>2. PICK k : DOMAIN app'.net = {k} /\ app'.net[k] = r
      BY <2>2, <2>4 DEF Appends
    <3>3. app'.feed = a.feed /\ app'.at = a.at /\ app'.view = a.view
      BY <2>4 DEF Appends, Same
    <3> HIDE DEF r
    <3> SUFFICES ASSUME app'.at = "/" PROVE FeedThere(app', db)
      BY DEF FeedOK
    <3>4. a.view.feed \in {1} \cup 1..NumItems /\ ShowsFeed(a.feed, db, a.view.feed)
      BY <2>2, <2>3, <3>3 DEF FeedOK, FeedThere, FeedComes, HasFeed, WillShowFeed, FeedShown
    <3>5. op # "feed"
      BY <2>4 DEF Mine, Allowed, AllowedFreely
    <3>6. OneFeed(app') /\ \A i \in DOMAIN app'.net : FeedRequest(app', app'.net[i], db)
      BY <3>1, <3>2, <3>5 DEF OneFeed, FeedRequest
    <3>7. FeedShown(app', db)
      BY <3>1, <3>2, <3>3, <3>4, <3>5 DEF FeedShown, HasFeed
    <3> QED
      BY <3>3, <3>4, <3>6, <3>7 DEF FeedThere
  <2> QED
    BY <2>1, <2>3, <2>4
<1>4. CASE Quietly(app, app')
  <2>1. PICK e : Grows(app, e, {}) /\ Only(e, app', {"notes", "hub"})
    BY <1>4 DEF Quietly
  <2>2. NoFeedIn({})
    BY DEF NoFeedIn
  <2>3. KeepsFeed(app, e)
    BY <2>1, <2>2, GrowsFeed
  <2>4. KeepsFeed(e, app')
    BY <2>1, OnlyFeed
  <2>5. FeedOK(e, db)
    BY <2>3, FeedKept
  <2> QED
    BY <2>4, <2>5, FeedKept
<1> QED
  BY <1>1, <1>2, <1>3, <1>4 DEF Doing

\* The first page of the feed, asked for by somebody who comes to the front page.
LEMMA FirstFeed ==
    ASSUME NEW d, NEW e, FeedNew(d), ~d.feed.loaded, d.view.feed = 1, NEW k \in DOMAIN d.net,
           d.net[k].op = "feed", d.net[k].arg = << 1 >>, d.net[k].phase = "sent",
           \A i \in DOMAIN d.net : d.net[i].op = "feed" => i = k
    PROVE  FeedOK(d, e)
<1>1. d.feed.items = Items(e, d.view.feed - 1)
  <2>1. d.feed.items = <<>> /\ Items(e, 0) = <<>> /\ d.view.feed - 1 = 0
    BY NoItems DEF FeedNew
  <2> QED
    BY <2>1
<1>2. FeedComes(d, e)
  BY <1>1 DEF FeedComes, HasFeed
<1>3. OneFeed(d) /\ \A i \in DOMAIN d.net : FeedRequest(d, d.net[i], e)
  BY DEF OneFeed, FeedRequest
<1> QED
  BY <1>2, <1>3 DEF FeedOK, FeedThere

LEMMA AnsweredFeed ==
    ASSUME IsClient(app), Orderly(app), IsDb(db), NEW i \in DOMAIN app.net, NEW n, Answered(i, n),
           app.loggedIn => FeedOK(app, db), FeedNew(app')
    PROVE  FeedOK(app', db')
<1>1. PICK c : /\ Took(c, i) /\ UNCHANGED db
               /\ \/ Arrives(app')
                  \/ c.loggedIn /\ Receives(c, app.net[i], app', n)
                  \/ c.loggedIn /\ IsRefused(c, app.net[i], app')
                  \/ TurnsToCup(c, app.net[i], app')
  BY DEF Answered
<1>2. Takes(app, c, i) /\ c.loggedIn = app.loggedIn
  BY <1>1 DEF Took, Takes, Only, ClientFields
<1>3. CASE Arrives(app')
  <2>1. PICK k \in DOMAIN app'.net :
             /\ app'.net[k].op = "feed" /\ app'.net[k].arg = << 1 >>
             /\ \A j \in DOMAIN app'.net : app'.net[j].op = "feed" => j = k
    BY <1>3 DEF Arrives
  <2>2. app'.net[k].phase = "sent" /\ ~app'.feed.loaded /\ app'.view.feed = 1
    BY <1>3, <2>1 DEF Arrives
  <2> QED
    BY <2>1, <2>2, FirstFeed
<1>4. CASE c.loggedIn /\ Receives(c, app.net[i], app', n)
  <2>1. FeedOK(app', db)
    BY <1>1, <1>2, <1>4, ReceivesFeed
  <2> QED
    BY <1>1, <2>1
<1>5. CASE c.loggedIn /\ IsRefused(c, app.net[i], app')
  <2>1. app.net[i].op \in {"updateCourse", "addCourse"} /\ Only(c, app', {"notes", "alarms", "cup"})
    BY <1>5 DEF IsRefused
  <2>2. KeepsFeed(app, c)
    BY <1>2, <2>1, TakesFeed
  <2>3. FeedOK(c, db)
    BY <1>2, <1>5, <2>2, FeedKept
  <2>4. KeepsFeed(c, app')
    BY <2>1, OnlyFeed
  <2> QED
    BY <1>1, <2>3, <2>4, FeedKept
<1>6. CASE TurnsToCup(c, app.net[i], app')
  <2>1. app'.at = "/tournament"
    BY <1>6 DEF TurnsToCup, Goes, Elsewhere, Shown, Grows, Same
  <2> QED
    BY <2>1 DEF FeedOK
<1> QED
  BY <1>1, <1>3, <1>4, <1>5, <1>6

LEMMA HeardFeed ==
    ASSUME IsClient(app), NEW u \in Users, Heard(u), FeedOK(app, db), FeedNew(app')
    PROVE  FeedOK(app', db')
<1>1. PICK b \in BOOLEAN : /\ Knows(db, db', u, b)
                           /\ IF app.hub = u THEN TellsIn(app, app', b) ELSE app' = app
  BY DEF Heard
<1>2. db'.likes = db.likes
  BY <1>1 DEF Knows
<1>3. NoFeedIn({})
  BY DEF NoFeedIn
<1>4. \A c : KeepsFeed(c, c)
  BY DEF KeepsFeed
<1>5. CASE app' = app
  <2>1. KeepsFeed(app, app')
    BY <1>5 DEF KeepsFeed
  <2> QED
    BY <1>2, <2>1, FeedKept
<1>6. CASE TellsIn(app, app', b)
  <2>1. PICK e, m : /\ Only(app, e, {"details"}) /\ Grows(e, m, {}) /\ m.loggedIn /\ Idle(app)
                    /\ Only(m, app', {"notes", "alarms"}) \/ Goes(m, app', "/", <<>>)
    BY <1>6 DEF TellsIn
  <2>2. KeepsFeed(app, e)
    BY <2>1, OnlyFeed
  <2>3. KeepsFeed(e, m)
    BY <1>3, <2>1, GrowsFeed
  <2>4. FeedOK(e, db')
    BY <1>2, <2>2, FeedKept
  <2>5. FeedOK(m, db')
    BY <2>3, <2>4, FeedKept
  <2>6. CASE Only(m, app', {"notes", "alarms"})
    <3>1. KeepsFeed(m, app')
      BY <2>6, OnlyFeed
    <3> QED
      BY <2>5, <3>1, FeedKept
  <2>7. CASE Goes(m, app', "/", <<>>)
    <3>1. DOMAIN e.net = {}
      BY <2>1 DEF Only, ClientFields, Idle
    <3>2. OnlyDetails(m)
      <4> SUFFICES ASSUME NEW j \in DOMAIN m.net
                   PROVE  m.net[j].op \in {"details", "moreDetails"} /\ m.net[j].phase = "sent"
        BY DEF OnlyDetails
      <4>1. Asked(e, m.net[j], {})
        BY <2>1, <3>1 DEF Grows, Extends
      <4> QED
        BY <4>1 DEF Asked, Request
    <3> QED
      BY <2>1, <2>5, <2>7, <3>2, ElsewhereFeed
  <2> QED
    BY <2>1, <2>6, <2>7
<1> QED
  BY <1>1, <1>5, <1>6

LEMMA OpensFeed ==
    ASSUME NEW d, Opens(d), NEW e PROVE FeedNew(d) /\ (d.loggedIn => FeedOK(d, e))
<1>1. PICK l : /\ Opened(l) /\ Grows(l, d, Range(Fetches(l)))
               /\ l.loggedIn => \A f \in Range(Fetches(l)) : Makes(l, d, f)
  BY DEF Opens
<1>2. /\ d.feed = NoFeed /\ d.view = Fresh /\ d.at = l.at /\ d.loggedIn = l.loggedIn
      /\ OnlyDetails(l)
  BY <1>1 DEF Opened, Grows, Same
<1>3. FeedNew(d) /\ ~d.feed.loaded
  BY <1>2 DEF FeedNew, NoFeed
<1>4. ASSUME d.loggedIn, d.at = "/" PROVE FeedOK(d, e)
  <2> DEFINE f == Fetch("feed", << 1 >>)
             F == Range(Fetches(l))
  <2>1. l.view.feed = 1
    BY <1>1 DEF Opened, Fresh
  <2>2. Fetches(l) = <<f>>
    BY <1>2, <1>4, <2>1 DEF Fetches
  <2>3. F = {f} /\ f.op = "feed" /\ f.arg = << 1 >>
    BY <2>2 DEF Range, Fetch
  <2>4. Makes(l, d, f)
    BY <1>1, <1>2, <1>4, <2>3
  <2> HIDE DEF F, f
  <2>5. PICK k \in DOMAIN d.net \ DOMAIN l.net : d.net[k].op = "feed" /\ d.net[k].arg = << 1 >>
    BY <2>3, <2>4 DEF Makes
  <2>6. \A i \in DOMAIN l.net : d.net[i] = l.net[i] /\ l.net[i].op \in {"details", "moreDetails"}
    BY <1>1, <1>2 DEF Grows, Extends, OnlyDetails
  <2>7. OnceTheFeed(l, d)
    BY <1>1 DEF Grows
  <2>8. \A i \in DOMAIN d.net : d.net[i].op = "feed" => i = k
    BY <2>5, <2>6, <2>7 DEF OnceTheFeed
  <2>9. d.net[k].phase = "sent"
    <3>1. Asked(l, d.net[k], F)
      BY <1>1, <2>5 DEF Grows, Extends, F
    <3> QED
      BY <3>1 DEF Asked, Request
  <2>10. d.view.feed = 1
    BY <1>2 DEF Fresh
  <2> QED
    BY <1>3, <2>5, <2>8, <2>9, <2>10, FirstFeed
<1>5. d.at # "/" => FeedOK(d, e)
  BY DEF FeedOK
<1> QED
  BY <1>3, <1>4, <1>5

\* A feed that is not there has no items.
LEMMA CarriesFeedNew ==
    ASSUME NEW c, FeedNew(c), NEW d, Carries(c, d) PROVE FeedNew(d)
BY DEF FeedNew, Carries, NoFeed

LEMMA StepFeedNew ==
    ASSUME OrderInv, calm, CalmStep, FeedNew(app) PROVE FeedNew(app')
<1>0. IsClient(app) /\ Orderly(app)
  BY OrderIs
<1>1. ASSUME NEW i \in DOMAIN app.net, Serve(i) PROVE FeedNew(app')
  <2>1. PICK q : Changes(app, app', i, q)
    BY <1>0, <1>1, ServeIs
  <2> QED
    BY <2>1 DEF Changes, Only, ClientFields, FeedNew
<1>2. ASSUME NEW i \in DOMAIN app.net, NEW c, Took(c, i), NEW n, Receives(c, app.net[i], app', n)
      PROVE  FeedNew(app')
  <2> DEFINE r == app.net[i]
  <2>1. PICK b : b = Reduced(c, r, n) /\ Only(c, b, Parts(r.op)) /\ Grows(b, app', {})
    BY <1>2 DEF Receives
  <2>2. IsClient(c) /\ c.feed = app.feed
    BY <1>2 DEF Took, Takes, Only, ClientFields
  <2>3. app'.feed \in {b.feed, NoFeed}
    BY <2>1 DEF Grows
  <2> SUFFICES FeedNew(b)
    BY <2>3 DEF FeedNew, NoFeed
  <2> HIDE DEF r
  <2>4. CASE r.op \notin {"feed", "toggleLike"}
    <3>1. "feed" \notin Parts(r.op)
      BY <2>4 DEF Parts
    <3>2. b.feed = c.feed
      BY <2>1, <3>1 DEF Only, ClientFields
    <3> QED
      BY <2>2, <3>2 DEF FeedNew
  <2>5. CASE r.op = "feed"
    <3>1. b = FeedFetched(c, r.data)
      BY <2>1, <2>5 DEF Reduced, NeedsDetails, NothingShown
    <3>2. FeedFetched(c, r.data).feed.loaded
      BY <2>2, FeedReduced
    <3> QED
      BY <3>1, <3>2 DEF FeedNew
  <2>6. CASE r.op = "toggleLike"
    <3>1. b = LikeToggled(c, r.arg[1])
      BY <2>1, <2>6 DEF Reduced, NeedsDetails, NothingShown
    <3>2. b.feed = Liked(c.feed, c.user, r.arg[1])
      BY <2>2, <3>1, LikeReduced
    <3> DEFINE x == r.arg[1]
               s == c.feed.items
               t == [k \in DOMAIN s |-> IF s[k].id = x THEN ItemLiked(s[k], c.user) ELSE s[k]]
    <3>3. b.feed.loaded = c.feed.loaded /\ b.feed.items = t
      BY <2>2, <3>2 DEF Liked, IsClient, NoFeed
    <3>4. s = <<>> => t = <<>>
      OBVIOUS
    <3> QED
      BY <2>2, <3>3, <3>4 DEF FeedNew
  <2> QED
    BY <2>4, <2>5, <2>6
<1> QED
  BY <1>1, <1>2, CalmCarries, CarriesFeedNew

FeedInv ==
    /\ OrderInv
    /\ calm => FeedNew(app)
    /\ calm /\ app.loggedIn => FeedOK(app, db)

LEMMA NextKeepsFeed ==
    ASSUME FeedInv, [Next]_vars PROVE FeedInv'
<1>1. OrderInv /\ OrderInv'
  BY NextKeepsOrder DEF FeedInv
<1>2. ASSUME calm', Opens(app') PROVE FeedInv'
  BY <1>1, <1>2, OpensFeed DEF FeedInv
<1>3. ASSUME calm', calm, CalmStep PROVE FeedInv'
  <2>0. FeedNew(app')
    BY <1>1, <1>3, StepFeedNew DEF FeedInv
  <2> SUFFICES ASSUME app'.loggedIn PROVE FeedOK(app', db')
    BY <1>1, <2>0 DEF FeedInv
  <2>1. Member
    BY <1>1, <1>3, MemberIs
  <2>2. app.loggedIn => FeedOK(app, db)
    BY <1>3 DEF FeedInv
  <2>3. IsClient(app) /\ Orderly(app) /\ IsDb(db)
    BY <1>1, <1>3, OrderIs
  <2>4. CASE UNCHANGED <<app, db>>
    BY <2>2, <2>4
  <2>5. ASSUME NEW i \in DOMAIN app.net, Serve(i), app.loggedIn PROVE FeedOK(app', db')
    BY <2>2, <2>3, <2>5, ServeFeed
  <2>6. ASSUME NEW i \in DOMAIN app.net, NEW n \in Ids, Answered(i, n) PROVE FeedOK(app', db')
    BY <2>0, <2>2, <2>3, <2>6, AnsweredFeed
  <2>7. CASE Only(app, app', {"notes", "alarms"}) /\ UNCHANGED db
    <3>1. app.loggedIn
      BY <2>7 DEF Only, ClientFields
    <3>2. KeepsFeed(app, app')
      BY <2>7, OnlyFeed
    <3> QED
      BY <2>2, <2>7, <3>1, <3>2, FeedKept
  <2>8. CASE Idle(app) /\ UNCHANGED db /\ app.loggedIn /\ Doing(app, app')
    BY <2>0, <2>2, <2>3, <2>8, DoingFeed
  <2>9. ASSUME NEW u \in Users, Heard(u) PROVE FeedOK(app', db')
    <3>1. app.loggedIn
      BY <2>9 DEF Heard
    <3> QED
      BY <2>0, <2>2, <2>3, <2>9, <3>1, HeardFeed
  <2> QED
    BY <2>1, <2>4, <2>5, <2>6, <2>7, <2>8, <2>9 DEF Member
<1>4. ~calm' => FeedInv'
  BY <1>1 DEF FeedInv
<1> QED
  BY <1>1, <1>2, <1>3, <1>4, StepsAre DEF OrderInv

\* The feed of the front page is its pages from the first to the one reached.
THEOREM FeedIsItsPages == Spec => []FeedAgrees
<1>1. Init => FeedInv
  <2> SUFFICES ASSUME Init PROVE FeedInv
    OBVIOUS
  <2>1. OrderInv
    BY InitInOrder DEF PagesInv
  <2>2. Opens(app)
    BY InitOpens
  <2> QED
    BY <2>1, <2>2, OpensFeed DEF FeedInv
<1>2. FeedInv /\ [Next]_vars => FeedInv'
  BY NextKeepsFeed
<1>3. FeedInv => FeedAgrees
  <2> SUFFICES ASSUME FeedInv, Settled, app.at = "/"
               PROVE  /\ app.feed.items = Items(db, app.view.feed)
                      /\ app.feed.last = (app.view.feed >= NumItems)
    BY DEF FeedAgrees, Items
  <2>1. DOMAIN app.net = {}
    BY DEF Settled, InFlight
  <2>2. FeedThere(app, db)
    BY DEF FeedInv, Settled, FeedOK
  <2>3. ShowsFeed(app.feed, db, app.view.feed)
    BY <2>1, <2>2 DEF FeedThere, FeedComes, HasFeed, WillShowFeed, FeedShown
  <2> QED
    BY <2>3 DEF ShowsFeed
<1> QED
  BY <1>1, <1>2, <1>3, PTL DEF Spec
==============================================================================
