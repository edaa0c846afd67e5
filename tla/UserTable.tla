------------------------------ MODULE UserTable ------------------------------
(***************************************************************************)
(* What the commands of the Users component promise about the users table  *)
(* when each takes effect at once.  UserStore implements it whatever way   *)
(* its requests overlap.                                                   *)
(***************************************************************************)
EXTENDS Naturals

CONSTANTS Users, Columns, EmailSent, Values

VARIABLE user   \* of each user: the plain columns, the friends and the ratings

\* A plain column of one user is set.
Set(u, c, x) == user' = [user EXCEPT ![u].data[c] = x]

\* Two users become friends of each other.
Befriend(u, v) ==
    user' = [user EXCEPT ![u].friends = @ \cup {v}, ![v].friends = @ \cup {u}]

\* A round of at least two players is rated: all of them, in one step.
Rate(S) ==
    /\ \E u, v \in S : u # v
    /\ user' = [u \in Users |-> IF u \in S THEN [user[u] EXCEPT !.elo = @ + 1]
                                          ELSE user[u]]

\* Reminders are sent to some users, and that is noted for all of them.
Remind(S, x) ==
    user' = [u \in Users |-> IF u \in S THEN [user[u] EXCEPT !.data[EmailSent] = x]
                                          ELSE user[u]]

Init ==
    \E x \in Values :
      user = [u \in Users |-> [data |-> [c \in Columns |-> x], friends |-> {}, elo |-> 0]]

Next ==
    \/ \E u \in Users, c \in Columns, x \in Values : Set(u, c, x)
    \/ \E u, v \in Users : Befriend(u, v)
    \/ \E S \in SUBSET Users :
         Rate(S) \/ \E x \in Values : Remind(S, x)

Spec == Init /\ [][Next]_user
=============================================================================
