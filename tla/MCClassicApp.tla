---------------------------- MODULE MCClassicApp ----------------------------
(* Instances of ClassicApp for TLC.                                      *)
EXTENDS ClassicApp

UserSymmetry == Permutations(Users)

Visit(pages, nmoves, nrush, rounds) ==
    [pages |-> pages, moves |-> nmoves, rush |-> nrush, rounds |-> rounds]
MCVisits == {Visit({"/", "/login"}, 5, 0, FALSE),
             Visit({"/", "/friends"}, 4, 0, TRUE),
             Visit({"/", "/login"}, 3, 1, FALSE),
             Visit({"/signup", "/"}, 4, 0, FALSE),
             Visit({"/signup", "/resetpassword"}, 3, 1, FALSE),
             Visit({"/settings"}, 4, 1, FALSE),
             Visit({"/user", "/users", "/friends"}, 4, 0, FALSE),
             Visit({"/user", "/year", "/leaders"}, 4, 0, FALSE),
             Visit({"/courses"}, 6, 0, FALSE),
             Visit({"/courses"}, 3, 1, FALSE),
             Visit({"/tournaments", "/tournament"}, 5, 0, FALSE),
             Visit({"/tournaments", "/tournament"}, 3, 1, FALSE)}
=============================================================================
