---------------------------- MODULE RoundLifecycle ----------------------------
(***************************************************************************)
(* What the commands of the Rounds component promise about one round when  *)
(* each of them takes effect at once: the abstract specification RoundStore *)
(* implements as long as requests do not overlap.                          *)
(***************************************************************************)
EXTENDS FiniteSets

CONSTANTS Users, Creator, Slots

VARIABLES
    status,   \* "open", "completed", "hidden" (soft-deleted) or "gone"
    players,  \* who is on the score card
    signers,  \* who has signed
    scored,   \* registered scores, <<player, hole>>
    due       \* events still to be published, at most one per slot

vars == <<status, players, signers, scored, due>>

Visible == status \in {"open", "completed"}

Init ==
    /\ status = "open" /\ players \subseteq Users
    /\ signers = {} /\ scored = {} /\ due = {}

\* A player registers a score; the code accepts it after completion as well.
Score(u, h) ==
    /\ Visible /\ u \in players
    /\ scored' = scored \cup {<<u, h>>}
    /\ UNCHANGED <<status, players, signers, due>>

\* A player signs an open round; the last signature completes it and makes an
\* announcement due.
Sign(u, s) ==
    /\ status = "open" /\ u \in players \ signers
    /\ signers' = signers \cup {u}
    /\ IF players \subseteq signers'
         THEN status' = "completed" /\ due' = due \cup {<<s, "completed">>}
         ELSE UNCHANGED <<status, due>>
    /\ UNCHANGED <<players, scored>>

\* A player leaves; the round stays as open as it was.
Leave(u) ==
    /\ Visible /\ u \in players
    /\ players' = players \ {u}
    /\ scored' = {c \in scored : c[1] # u}
    /\ UNCHANGED <<status, signers, due>>

\* The creator deletes a hole, or the whole round.
DropHole(h) ==
    /\ Visible
    /\ scored' = {c \in scored : c[2] # h}
    /\ UNCHANGED <<status, players, signers, due>>

Delete(s) ==
    /\ Visible
    /\ status' = "gone" /\ players' = {} /\ signers' = {} /\ scored' = {}
    /\ due' = due \cup {<<s, "deleted">>}

\* The worker closes an old open round, silently.
Expire ==
    /\ status = "open"
    /\ status' \in {"completed", "hidden"}
    /\ UNCHANGED <<players, signers, scored, due>>

\* An event is published or lost.
Settle(d) ==
    /\ d \in due /\ due' = due \ {d}
    /\ UNCHANGED <<status, players, signers, scored>>

Next ==
    \/ \E u \in Users, s \in Slots : Sign(u, s)
    \/ \E u \in players : Leave(u) \/ \E c \in scored' : Score(u, c[2])
    \/ \E c \in scored : DropHole(c[2])
    \/ \E s \in Slots : Delete(s)
    \/ Expire
    \/ \E d \in due : Settle(d)

Spec == Init /\ [][Next]_vars
=============================================================================
