------------------------------ MODULE MCAccounts ------------------------------
(* Instances of Accounts for TLC. *)
EXTENDS Accounts

CONSTANTS u1, ann, low, high

\* "high" is "low" typed with capitals.
MCLower == [e \in Emails |-> IF e = high THEN low ELSE e]
MCRegistered == {[id |-> u1, name |-> ann, email |-> low]}
=============================================================================
