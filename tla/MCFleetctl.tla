----------------------------- MODULE MCFleetctl -----------------------------
(***************************************************************************)
(* Instances of Fleetctl for TLC.                                          *)
(***************************************************************************)
EXTENDS Fleetctl, TLC

CONSTANTS A, B, i1

LoggedInToA == [server |-> A, token |-> A]

\* A manual satellite and unused ids on each server.
OneManual == [v \in Servers |-> [i \in Ids |-> IF i = i1 THEN "manual" ELSE "unused"]]

Line(op) == [op |-> op, server |-> NULL, id |-> NULL, valid |-> TRUE]

\* Who is logged in where, and the commands about users.
Logins ==
    {Line("login"), [Line("login") EXCEPT !.server = B], Line("list"), Line("health"),
     Line("user create"), [Line("user create") EXCEPT !.valid = FALSE], Line("user list")}

\* What happens to satellites, beside a login.
Satellites ==
    {[Line("delete") EXCEPT !.id = i] : i \in Ids \cup {BadId}}
    \cup {[Line("get") EXCEPT !.id = i1], Line("create"), Line("login")}

Symmetry == Permutations(Procs)
=============================================================================
