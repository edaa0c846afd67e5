------------------------------ MODULE LiveClient ------------------------------
(***************************************************************************)
(* The web client's copy of a round, as its players play it together.      *)
(*                                                                         *)
(* A client sends a command and shows what the response says; the others   *)
(* get the same copy of the round pushed through the hub.  A copy is what  *)
(* its request has loaded, with its own change: responses and pushes of    *)
(* different requests pass each other.  The holes of a copy are a list,    *)
(* which the server rotates when the first score of the round comes in;    *)
(* the database keeps them in the order of the course.                     *)
(***************************************************************************)
EXTENDS Naturals, Sequences, FiniteSetsExt

CONSTANTS
    Players,      \* each with the page of the round open in one client
    NumHoles,     \* the holes are 0 .. NumHoles - 1, in the order of the course
    AnyStart,     \* FALSE: the first score of the round is that of the first hole
    MaxCalm,      \* bound on the requests sent if they do not overlap,
    MaxRequests   \* and if they do

ASSUME LiveClientAssumption ==
    /\ IsFiniteSet(Players) /\ Players # {}
    /\ NumHoles \in Nat \ {0}
    /\ AnyStart \in BOOLEAN /\ MaxCalm \in Nat /\ MaxRequests \in Nat

VARIABLES
    card,       \* holes with a stored score, of each player
    completed,  \* the stored flag
    signed,     \* players with a stored signature
    deleted,    \* the round is gone
    view,       \* the copy each client shows
    index,      \* activeHoleIndex: the place in the list that is shown
    req,        \* the request each client waits for
    inbox,      \* pushes on their way to each client
    sent,       \* requests sent
    calm,       \* requests do not overlap, and nothing is lost
    entered,    \* history: holes each player has entered a score for
    saved,      \* history: holes whose score was entered and answered with success
    wandered    \* history: the player has looked elsewhere since his last answer

stored == <<card, completed, signed, deleted>>
client == <<view, index, wandered>>
history == <<entered, saved>>
vars == <<stored, client, req, inbox, sent, calm, history>>

-----------------------------------------------------------------------------
Holes == 0..(NumHoles - 1)
NoRound == [there |-> FALSE]
Round == [there : {TRUE}, offset : Holes, card : [Players -> SUBSET Holes],
          signed : SUBSET Players, completed : BOOLEAN]

\* What a request loads: the order of the course.
Stored == [there |-> TRUE, offset |-> 0, card |-> card, signed |-> signed,
           completed |-> completed]

Idle == [kind |-> "idle"]
Kinds == {"fetch", "score", "complete", "delete"}
Phases == {"sent", "loaded", "saved", "answered"}
Gone == [there |-> FALSE, gone |-> TRUE]

Init ==
    /\ card = [p \in Players |-> {}]
    /\ completed = FALSE /\ signed = {} /\ deleted = FALSE
    /\ view = [p \in Players |-> NoRound]
    /\ index = [p \in Players |-> 0]
    /\ req = [p \in Players |-> Idle]
    /\ inbox = [p \in Players |-> <<>>]
    /\ sent = 0 /\ calm \in BOOLEAN
    /\ entered = [p \in Players |-> {}] /\ saved = [p \in Players |-> {}]
    /\ wandered = [p \in Players |-> FALSE]

-----------------------------------------------------------------------------
(* Functions of the client on a copy *)

HoleAt(r, i) == (r.offset + i) % NumHoles
IndexOf(r, h) == (h + NumHoles - r.offset) % NumHoles
FirstOpen(r, p) == HoleAt(r, Min({i \in Holes : HoleAt(r, i) \notin r.card[p]}))

\* getNextUncompletedHole: the lowest number among the first open holes of the
\* players, and the last place when there are none.
NextUncompleted(r) ==
    LET open == {p \in Players : r.card[p] # Holes} IN
    IF open = {} THEN NumHoles - 1
                 ELSE IndexOf(r, Min({FirstOpen(r, p) : p \in open}))

\* getNextPlayerHole
NextPersonal(r, p) ==
    IF r.card[p] = Holes THEN NumHoles - 1 ELSE IndexOf(r, FirstOpen(r, p))

Shows(p, r) == view' = [view EXCEPT ![p] = r]
GoesTo(p, i) == index' = [index EXCEPT ![p] = i]

-----------------------------------------------------------------------------
(* What a player does *)

Quiet == \A p \in Players : req[p] = Idle /\ inbox[p] = <<>>

Ask(p, r) ==
    /\ req[p] = Idle /\ sent < (IF calm THEN MaxCalm ELSE MaxRequests)
    /\ calm => Quiet
    /\ req' = [req EXCEPT ![p] = r]
    /\ sent' = sent + 1

Request(kind, i, h) == [kind |-> kind, phase |-> "sent", index |-> i, hole |-> h, copy |-> NoRound]

\* The page is opened, or opened again.
OpenPage(p) ==
    /\ Ask(p, Request("fetch", 0, 0))
    /\ Shows(p, NoRound) /\ GoesTo(p, 0)
    /\ wandered' = [wandered EXCEPT ![p] = FALSE]
    /\ UNCHANGED <<stored, inbox, calm, history>>

\* The player enters a score for the hole shown, for the first time or again.
SetScore(p) ==
    LET hole == HoleAt(view[p], index[p]) IN
    /\ view[p].there /\ ~view[p].completed
    /\ AnyStart \/ hole = 0 \/ (\E q \in Players : view[p].card[q] # {})
    /\ Ask(p, Request("score", index[p], hole))
    /\ entered' = [entered EXCEPT ![p] = @ \cup {hole}]
    /\ UNCHANGED <<stored, client, inbox, calm, saved>>

\* Fault: the client does not wait for the answer.
CompleteAtOnce(p) ==
    /\ view[p].there /\ ~view[p].completed
    /\ Ask(p, Request("complete", 0, 0))
    /\ Shows(p, [view[p] EXCEPT !.completed = TRUE])
    /\ UNCHANGED <<stored, index, wandered, inbox, calm, history>>

CompleteRound(p) ==
    /\ view[p].there /\ ~view[p].completed
    /\ Ask(p, Request("complete", 0, 0))
    /\ UNCHANGED <<stored, client, inbox, calm, history>>

DeleteRound(p) ==
    /\ view[p].there /\ ~view[p].completed
    /\ Ask(p, Request("delete", 0, 0))
    /\ UNCHANGED <<stored, client, inbox, calm, history>>

\* The arrows beside the hole, and the button "Next Hole" of a hole that is scored.
SetActiveHole(p) ==
    /\ view[p].there /\ ~view[p].completed
    /\ \E i \in Holes :
         /\ \/ i = index[p] + 1 \/ i + 1 = index[p]
            \/ /\ HoleAt(view[p], index[p]) \in view[p].card[p]
               /\ i = NextPersonal(view[p], p)
         /\ GoesTo(p, i)
    /\ wandered' = [wandered EXCEPT ![p] = TRUE]
    /\ UNCHANGED <<stored, view, req, inbox, sent, calm, history>>

-----------------------------------------------------------------------------
(* What the server does: RoundStore has its commands in detail *)

At(p, phase, kinds) == req[p] # Idle /\ req[p].phase = phase /\ req[p].kind \in kinds
Proceed(p, phase, copy) == req' = [req EXCEPT ![p].phase = phase, ![p].copy = copy]

Load(p) ==
    /\ At(p, "sent", Kinds) /\ ~deleted
    /\ Proceed(p, IF req[p].kind = "fetch" THEN "answered" ELSE "loaded", Stored)
    /\ UNCHANGED <<stored, client, inbox, sent, calm, history>>

\* Fault: the list is rotated with every score.
RotatesAlways(r) == TRUE

\* CalculateNewStartingHole: there is one score in the copy.
Rotates(r) == Cardinality({c \in Players \X Holes : c[2] \in r.card[c[1]]}) = 1

\* UpdatePlayerScore takes the index of the client for one in the list it has
\* loaded, and writes the flag back as it has loaded it.
SaveScore(p) ==
    LET copy == req[p].copy
        new == [copy EXCEPT !.card[p] = @ \cup {HoleAt(copy, req[p].index)}] IN
    /\ At(p, "loaded", {"score"}) /\ ~deleted
    /\ card' = [card EXCEPT ![p] = @ \cup {HoleAt(copy, req[p].index)}]
    /\ completed' = copy.completed
    /\ Proceed(p, "saved", IF Rotates(new) THEN [new EXCEPT !.offset = req[p].index] ELSE new)
    /\ UNCHANGED <<signed, deleted, client, inbox, sent, calm, history>>

\* CompleteRound: it returns early if there is nothing to sign.
SaveSignature(p) ==
    LET copy == req[p].copy
        new == [copy EXCEPT !.signed = @ \cup {p},
                            !.completed = Players \subseteq copy.signed \cup {p}] IN
    /\ At(p, "loaded", {"complete"})
    /\ \/ /\ copy.completed \/ p \in copy.signed
          /\ Proceed(p, "answered", copy)
          /\ UNCHANGED stored
       \/ /\ ~copy.completed /\ p \notin copy.signed /\ ~deleted
          /\ signed' = signed \cup {p} /\ completed' = new.completed
          /\ Proceed(p, "saved", new)
          /\ UNCHANGED <<card, deleted>>
    /\ UNCHANGED <<client, inbox, sent, calm, history>>

\* DeleteRound; the players are told by a handler of RoundWasDeleted.
SaveDelete(p) ==
    /\ At(p, "loaded", {"delete"}) /\ ~deleted
    /\ deleted' = TRUE
    /\ Proceed(p, "saved", Gone)
    /\ UNCHANGED <<card, completed, signed, client, inbox, sent, calm, history>>

\* NotifyPlayersOnUpdatedRound: all but the sender; ...OnDeletedRound: all.
Push(p) ==
    /\ At(p, "saved", Kinds)
    /\ inbox' = [q \in Players |-> IF q = p /\ req[p].kind # "delete" THEN inbox[q]
                                   ELSE Append(inbox[q], req[p].copy)]
    /\ Proceed(p, "answered", req[p].copy)
    /\ UNCHANGED <<stored, client, sent, calm, history>>

\* The request fails on the way, or on a round that is gone.
Fail(p) ==
    /\ req[p] # Idle
    /\ calm => deleted /\ req[p].phase \in {"sent", "loaded"}
    /\ req' = [req EXCEPT ![p] = Idle]
    /\ UNCHANGED <<stored, client, inbox, sent, calm, history>>

-----------------------------------------------------------------------------
(* What the client makes of answers and pushes *)

Answered(p) ==
    /\ req' = [req EXCEPT ![p] = Idle]
    /\ UNCHANGED <<stored, inbox, sent, calm, entered>>

\* fetchRound and setScore after their await
ShowAnswer(p) ==
    /\ At(p, "answered", {"fetch", "score"})
    /\ Shows(p, req[p].copy) /\ GoesTo(p, NextUncompleted(req[p].copy))
    /\ wandered' = [wandered EXCEPT ![p] = FALSE]
    /\ saved' = [saved EXCEPT ![p] = IF req[p].kind = "score" THEN @ \cup {req[p].hole} ELSE @]
    /\ Answered(p)

\* completeRound after its await
ShowCompleted(p) ==
    /\ At(p, "answered", {"complete"})
    /\ Shows(p, IF view[p].there THEN [view[p] EXCEPT !.completed = TRUE] ELSE view[p])
    /\ UNCHANGED <<index, wandered, saved>>
    /\ Answered(p)

\* deleteRound after its await
ShowNone(p) ==
    /\ At(p, "answered", {"delete"})
    /\ Shows(p, NoRound)
    /\ UNCHANGED <<index, wandered, saved>>
    /\ Answered(p)

\* Fault: the copy shown before is looked at, not the one pushed.
AdvancesLate(p, r) ==
    /\ view[p].there
    /\ \A q \in Players : HoleAt(view[p], index[p]) \in view[p].card[q]
    /\ NextUncompleted(r) > index[p]

\* All have scored the hole shown, and the next one lies ahead.
Advances(p, r) ==
    /\ \A q \in Players : HoleAt(r, index[p]) \in r.card[q]
    /\ NextUncompleted(r) > index[p]

Received(p) ==
    /\ inbox' = [inbox EXCEPT ![p] = Tail(@)]
    /\ UNCHANGED <<stored, wandered, req, sent, calm, history>>

\* onRoundUpdated
RoundUpdated(p) ==
    LET r == Head(inbox[p]) IN
    /\ inbox[p] # <<>> /\ r # Gone
    /\ Shows(p, r) /\ GoesTo(p, IF Advances(p, r) THEN NextUncompleted(r) ELSE index[p])
    /\ Received(p)

\* Fault: the page stays.
RoundDeletedUnseen(p) ==
    /\ inbox[p] # <<>> /\ Head(inbox[p]) = Gone
    /\ UNCHANGED <<view, index>>
    /\ Received(p)

\* onRoundDeleted
RoundDeleted(p) ==
    /\ inbox[p] # <<>> /\ Head(inbox[p]) = Gone
    /\ Shows(p, NoRound) /\ UNCHANGED index
    /\ Received(p)

\* The connection is lost and made again: nobody sends what was missed.
LosePush(p) ==
    /\ ~calm /\ inbox[p] # <<>>
    /\ inbox' = [inbox EXCEPT ![p] = Tail(@)]
    /\ UNCHANGED <<stored, client, req, sent, calm, history>>

Next ==
    \E p \in Players :
      \/ OpenPage(p) \/ SetScore(p) \/ CompleteRound(p) \/ DeleteRound(p) \/ SetActiveHole(p)
      \/ Load(p) \/ SaveScore(p) \/ SaveSignature(p) \/ SaveDelete(p) \/ Push(p) \/ Fail(p)
      \/ ShowAnswer(p) \/ ShowCompleted(p) \/ ShowNone(p)
      \/ RoundUpdated(p) \/ RoundDeleted(p) \/ LosePush(p)

Spec == Init /\ [][Next]_vars

-----------------------------------------------------------------------------
Copy == Round \cup {NoRound, Gone}

TypeOK ==
    /\ card \in [Players -> SUBSET Holes] /\ signed \subseteq Players
    /\ completed \in BOOLEAN /\ deleted \in BOOLEAN /\ calm \in BOOLEAN
    /\ view \in [Players -> Round \cup {NoRound}] /\ index \in [Players -> Holes]
    /\ req \in [Players -> {Idle} \cup [kind : Kinds, phase : Phases, index : Holes,
                                        hole : Holes, copy : Copy]]
    /\ \A p \in Players : \A i \in DOMAIN inbox[p] : inbox[p][i] \in Copy
    /\ sent \in Nat
    /\ entered \in [Players -> SUBSET Holes] /\ saved \in [Players -> SUBSET Holes]
    /\ wandered \in [Players -> BOOLEAN]

\* A score is stored for the hole its player saw when he entered it: what was
\* answered with success is stored, and nothing else is.
ScoreLandsWhereShown ==
    \A p \in Players : saved[p] \subseteq card[p] /\ card[p] \subseteq entered[p]

\* A client that shows the round as completed has signed it, or all have: not even
\* a failed or late completion, or a push of an older copy, shows it otherwise.
CompletedHasReason ==
    \A p \in Players :
        view[p].there /\ view[p].completed => p \in signed \/ Players \subseteq signed

\* Without overlap all clients agree once everything has arrived: those that show
\* the round show what is stored, and none shows a round that is gone.
SettlesOnStored ==
    calm /\ Quiet =>
        \A p \in Players : view[p].there => ~deleted /\ view[p].card = card

\* Without overlap the players move together: who has not looked elsewhere is shown
\* the first hole that is still open to somebody, in particular he is moved on when
\* the last of the others has scored his hole.
MovesWithGroup ==
    calm /\ Quiet =>
        \A p \in Players :
            view[p].there /\ ~wandered[p] => index[p] = NextUncompleted(view[p])
=============================================================================
