------------------------- MODULE SatelliteContract -------------------------
(***************************************************************************)
(* What a client of the satellite routes may rely on, and all that         *)
(* fleetctl does rely on: how a satellite comes and goes, and what the     *)
(* status of an answer says of it.  SatelliteService keeps this contract,  *)
(* Fleetctl assumes it of its servers.                                     *)
(***************************************************************************)

\* An id is used once: gen_random_uuid() does not repeat.
Standing == {"unused", "manual", "operator", "gone"}

\* A satellite keeps its owner until it goes, and what is gone stays gone.
Moves == {<<"unused", "manual">>, <<"unused", "operator">>,
          <<"manual", "gone">>, <<"operator", "gone">>}

Lives(old, new) == old = new \/ <<old, new>> \in Moves

Outcome(sats, code, operator) == [sats |-> sats, code |-> code, operator |-> operator]

\* How a request without the operator's mark that is answered by its route
\* may leave the satellites, its status, and whether the answer shows a
\* satellite of the operator.
Outcomes(op, id, sats) ==
    IF op = "create"
    THEN {Outcome([sats EXCEPT ![i] = "manual"], 201, FALSE) : i \in {j \in DOMAIN sats : sats[j] = "unused"}}
    ELSE IF op = "list"
    THEN {Outcome(sats, 200, FALSE)}
    ELSE IF op = "get"
    THEN {IF sats[id] \in {"manual", "operator"}
          THEN Outcome(sats, 200, sats[id] = "operator") ELSE Outcome(sats, 404, FALSE)}
    ELSE IF op = "delete"
    THEN {IF sats[id] = "operator" THEN Outcome(sats, 403, FALSE)
          ELSE IF sats[id] = "manual" THEN Outcome([sats EXCEPT ![id] = "gone"], 204, FALSE)
          ELSE Outcome(sats, 204, FALSE)}
    ELSE {}
=============================================================================
