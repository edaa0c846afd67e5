------------------------------ MODULE MCWebApp ------------------------------
(* Instances of WebApp for TLC.                                               *)
EXTENDS WebApp

UserSymmetry == Permutations(Users)

Visit(from, pages, nmoves, nrush, nfailures) ==
    [from |-> from, known |-> TRUE, pages |-> pages, moves |-> nmoves, rush |-> nrush,
     failures |-> nfailures, reload |-> FALSE, others |-> FALSE, tabs |-> FALSE]
Stranger(v) == [v EXCEPT !.known = FALSE]
Reload(v)   == [v EXCEPT !.reload = TRUE]
Together(v) == [v EXCEPT !.others = TRUE]
Tabs(v)     == [v EXCEPT !.tabs = TRUE]
MCVisits ==
    {Together(Visit("/", {"/", "/rounds"}, 5, 0, 0)),
     Together(Visit("/rounds", {"/rounds"}, 3, 1, 0)),
     Visit("/", {"/", "/rounds"}, 3, 0, 1),
     Tabs(Visit("/", {"/", "/rounds"}, 3, 0, 0)),
     Visit("/feed", {"/feed", "/", "/rounds"}, 4, 0, 0),
     Stranger(Visit("/", {"/", "/login"}, 5, 0, 0)),
     Stranger(Visit("/register", {"/register"}, 2, 1, 1)),
     Stranger(Visit("/login", {"/login"}, 2, 0, 1)),
     Visit("/leaders", {"/", "/leaders", "/login"}, 3, 1, 0),
     Visit("/feed", {"/feed"}, 5, 2, 2),
     Visit("/leaders", {"/leaders"}, 4, 2, 1),
     Tabs(Visit("/profile", {"/profile", "/users"}, 3, 1, 1)),
     Reload(Visit("/profile", {"/profile", "/users"}, 3, 0, 1)),
     Visit("/courses", {"/courses", "/course", "/new-course"}, 6, 0, 1),
     Visit("/tournaments", {"/tournaments", "/tournament", "/new-tournament", "/users"}, 6, 0, 0),
     Visit("/tournaments", {"/tournaments", "/tournament"}, 4, 1, 1),
     Tabs(Visit("/tournaments", {"/tournaments", "/tournament"}, 3, 0, 0)),
     Visit("/new-round", {"/new-round", "/rounds"}, 7, 0, 0),
     Visit("/new-round", {"/new-round"}, 5, 1, 1)}
=============================================================================
