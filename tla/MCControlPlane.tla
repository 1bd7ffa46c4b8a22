--------------------------- MODULE MCControlPlane ---------------------------
(***************************************************************************)
(* The instance of ControlPlane for TLC.                                   *)
(***************************************************************************)
EXTENDS ControlPlane, TLC

CONSTANTS u1, alice, pw, i1, n1, r1

OneAdmin ==
    [u \in UserIds |->
        IF u = u1 THEN [username |-> alice, password |-> pw, role |-> "admin"] ELSE NULL]

NoSkew == [i \in Instances |-> 0]

Plain(op) == [op |-> op, username |-> NULL, password |-> NULL, role |-> NULL, id |-> NULL]

\* A user logs in, uses the satellite routes and is deleted.
ComeAndGo ==
    {Plain("satellites"), [Plain("login") EXCEPT !.username = alice, !.password = pw],
     [Plain("delete") EXCEPT !.id = u1]}

\* A row the operator owns.
OneRow ==
    [i \in Ids |-> [name |-> n1, region |-> r1, status |-> "Pending",
                    managedBy |-> "operator", lastSeen |-> NULL]]

Ask(op, id, mark) == [op |-> op, id |-> id, name |-> NULL, region |-> NULL, fromOperator |-> mark]

\* A write in one statement, and one behind a check that passes or fails.
Mixed == {Ask("heartbeat", i1, FALSE), Ask("delete", i1, TRUE), Ask("delete", i1, FALSE)}

Symmetry == Permutations(Slots) \cup Permutations(Instances)
=============================================================================
