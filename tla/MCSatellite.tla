----------------------------- MODULE MCSatellite ----------------------------
(***************************************************************************)
(* Instances of SatelliteService for TLC, and what the documents say of    *)
(* its answers.                                                            *)
(***************************************************************************)
EXTENDS SatelliteService, TLC

CONSTANTS i1, i2, n1, n2, r1, r2

\* An operator-owned row, put there by SQL: no route creates one.
OperatorRow ==
    [i \in Ids |->
        IF i = i1
        THEN [name |-> n1, region |-> r1, status |-> "Pending",
              managedBy |-> "operator", lastSeen |-> NULL]
        ELSE NULL]

\* Every route, with new rows in region r1 and updates that move them to r2;
\* the operator's mark where it matters, on the row the operator owns.
EveryRoute ==
    {c \in Call : /\ c.op = "create" => c.region # r2
                  /\ c.op = "update" => c.region # r1
                  /\ (c.op = "get" \/ (c.op = "update" /\ c.region = NULL)) => c.id = i1
                  /\ c.id = BadId => c.op = "delete"
                  /\ c.fromOperator => c.id = i1 /\ ~Malformed(c)}

Symmetry == Permutations(Slots)

-----------------------------------------------------------------------------

\* openapi.yaml:253-254 documents 404 for DELETE /satellites/{id}: a delete
\* that finds no satellite at its check is answered with that.
AbsentDeleteIs404 ==
    [][\A s \in Slots :
          (/\ pc[s] = "received" /\ pc'[s] = "done"
           /\ call[s].op = "delete" /\ call[s].id \in Ids
           /\ sats[call[s].id] = NULL
           /\ resp'[s].code # 500)
          => resp'[s].code = 404]_vars

\* The handlers answer an id that is not a UUID with 400 INVALID_ID
\* (satellite/handler.go:64-68).
MalformedIdIs400 ==
    \A s \in Slots :
        (pc[s] = "done" /\ call[s].id = BadId) => resp[s].code = 400
=============================================================================
