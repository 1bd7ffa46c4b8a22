-------------------------- MODULE SatelliteService --------------------------
(***************************************************************************)
(* The satellite routes as the Control Plane runs them: one goroutine per  *)
(* request (a slot), each SQL statement one step of PostgreSQL, nothing    *)
(* held between two statements of the same request.                        *)
(*                                                                         *)
(*   idle -> received -> done -> idle                                      *)
(*                   \-> checked -> done   (Update, Delete: the guard's    *)
(*                                          SELECT, then the write)        *)
(*                   \-> stamped -> done   (Heartbeat: NOW() is fixed when *)
(*                                          the statement starts, the row  *)
(*                                          is written when its lock is    *)
(*                                          granted)                       *)
(*                                                                         *)
(* A write whose answer is lost (context cancelled, connection or process  *)
(* gone) may still be running in PostgreSQL: its slot is "detached", and   *)
(* the statement commits later or not at all.                              *)
(***************************************************************************)
EXTENDS SatelliteTypes, SatelliteContract

VARIABLES
    sats,    \* the satellites table
    used,    \* the UUIDs gen_random_uuid() has handed out
    now,     \* PostgreSQL's clock
    pc,      \* pc[s]    : how far the request in slot s has come
    call,    \* call[s]  : the request
    since,   \* since[s] : when it arrived (history)
    stamp,   \* stamp[s] : NOW() of its heartbeat statement
    resp     \* resp[s]  : its answer

vars == <<sats, used, now, pc, call, since, stamp, resp>>

Stages == {"idle", "received", "checked", "stamped", "detached", "done"}

\* An INSERT, UPDATE or DELETE of slot s is with PostgreSQL.
InFlight(s) ==
    \/ pc[s] = "received" /\ call[s].op = "create" /\ ~Malformed(call[s])
    \/ pc[s] \in {"checked", "stamped"}

\* The types of the variables.
TypeOK ==
    /\ sats \in Table
    /\ used \subseteq Ids
    /\ now \in Time
    /\ pc \in [Slots -> Stages]
    /\ call \in [Slots -> Call \cup {NULL}]
    /\ since \in [Slots -> Time \cup {NULL}]
    /\ stamp \in [Slots -> Time \cup {NULL}]
    /\ resp \in [Slots -> Answer \cup {NULL}]

Init ==
    /\ sats = Seed
    /\ used = {i \in Ids : Seed[i] # NULL}
    /\ now = 0
    /\ pc = [s \in Slots |-> "idle"]
    /\ call = [s \in Slots |-> NULL]
    /\ since = [s \in Slots |-> NULL]
    /\ stamp = [s \in Slots |-> NULL]
    /\ resp = [s \in Slots |-> NULL]

-----------------------------------------------------------------------------
(* The shape of a step. *)

Receive(s, c) ==
    /\ pc[s] = "idle"
    /\ pc' = [pc EXCEPT ![s] = "received"]
    /\ call' = [call EXCEPT ![s] = c]
    /\ since' = [since EXCEPT ![s] = now]
    /\ UNCHANGED <<sats, used, now, stamp, resp>>

Goto(s, stage) ==
    /\ pc' = [pc EXCEPT ![s] = stage]
    /\ UNCHANGED <<sats, used, now, call, since, resp>>

\* writeJSON or writeError ends the handler; a detached slot has answered.
Finish(s, r) ==
    /\ pc' = [pc EXCEPT ![s] = "done"]
    /\ resp' = IF pc[s] = "detached" THEN resp ELSE [resp EXCEPT ![s] = r]
    /\ UNCHANGED <<now, call, since, stamp>>

Answered(s, r) == Finish(s, r) /\ UNCHANGED <<sats, used>>

At(s, stages, ops) ==
    pc[s] \in stages /\ call[s].op \in ops /\ ~Malformed(call[s])

-----------------------------------------------------------------------------
(* The handlers. *)

\* A path parameter the generated wrapper cannot bind reaches its nil
\* ErrorHandlerFunc: the goroutine panics and net/http closes the connection.
\* One that binds only after percent-decoding is refused by uuid.Parse.
RejectMalformed(s) ==
    /\ pc[s] = "received"
    /\ Malformed(call[s])
    /\ \E code \in IF call[s].id = BadId THEN {0, 400} ELSE {400} :
          Answered(s, Reply(code, NULL))

\* Mutant: the status is left at its zero value.
NewRowNoStatus(c) ==
    [name |-> c.name, region |-> c.region, status |-> "",
     managedBy |-> "manual", lastSeen |-> NULL]

\* Service.Create's fields, then INSERT ... RETURNING.
NewRow(c) ==
    [name |-> c.name, region |-> c.region, status |-> "Pending",
     managedBy |-> "manual", lastSeen |-> NULL]

NameTaken(name) == \E i \in Ids : sats[i] # NULL /\ sats[i].name = name

Create(s) ==
    /\ At(s, {"received", "detached"}, {"create"})
    /\ ~NameTaken(call[s].name)
    /\ \E i \in Ids \ used :
        /\ sats' = [sats EXCEPT ![i] = NewRow(call[s])]
        /\ used' = used \cup {i}
        /\ Finish(s, Reply(201, NewRow(call[s])))

CreateConflict(s) ==
    /\ At(s, {"received"}, {"create"})
    /\ NameTaken(call[s].name)
    /\ Answered(s, Reply(500, NULL))

List(s) ==
    /\ At(s, {"received"}, {"list"})
    /\ Answered(s, Reply(200, [rows |-> sats]))

GetByID(s) ==
    /\ At(s, {"received"}, {"get"})
    /\ Answered(s, IF sats[call[s].id] = NULL
                   THEN Reply(404, NULL)
                   ELSE Reply(200, sats[call[s].id]))

\* No row: Update answers 404; Delete returns nil, which the handler
\* answers with 204.
CheckAbsent(s) ==
    /\ At(s, {"received"}, {"update", "delete"})
    /\ sats[call[s].id] = NULL
    /\ Answered(s, Reply(IF call[s].op = "update" THEN 404 ELSE 204, NULL))

\* Mutant: the handler drops ErrManagedByOperator and answers as for a deletion.
CheckRefusedDropped(s) ==
    /\ At(s, {"received"}, {"update", "delete"})
    /\ sats[call[s].id] # NULL
    /\ Guarded(sats[call[s].id], call[s])
    /\ Answered(s, Reply(204, NULL))

CheckRefused(s) ==
    /\ At(s, {"received"}, {"update", "delete"})
    /\ sats[call[s].id] # NULL
    /\ Guarded(sats[call[s].id], call[s])
    /\ Answered(s, Reply(403, NULL))

\* Mutant: the ownership test is missing.
CheckPassedUnguarded(s) ==
    /\ At(s, {"received"}, {"update", "delete"})
    /\ sats[call[s].id] # NULL
    /\ Goto(s, "checked") /\ UNCHANGED stamp

CheckPassed(s) ==
    /\ At(s, {"received"}, {"update", "delete"})
    /\ sats[call[s].id] # NULL
    /\ ~Guarded(sats[call[s].id], call[s])
    /\ Goto(s, "checked") /\ UNCHANGED stamp

\* Mutant: an upsert, which brings a deleted row back.
SetRegionUpsert(s) ==
    LET i == call[s].id
        row == IF sats[i] # NULL THEN [sats[i] EXCEPT !.region = call[s].region]
               ELSE NewRow([name |-> CHOOSE n \in Names : TRUE, region |-> call[s].region])
    IN  /\ At(s, {"checked", "detached"}, {"update"})
        /\ sats' = [sats EXCEPT ![i] = row]
        /\ UNCHANGED used
        /\ Finish(s, Reply(200, row))

\* Mutant: the whole row is written, from a request that has only the region.
SetRegionWholeRow(s) ==
    LET i == call[s].id
        row == [sats[i] EXCEPT !.region = call[s].region, !.status = "Pending", !.lastSeen = NULL]
    IN  /\ At(s, {"checked", "detached"}, {"update"})
        /\ sats[i] # NULL
        /\ sats' = [sats EXCEPT ![i] = row]
        /\ UNCHANGED used
        /\ Finish(s, Reply(200, row))

SetRegion(s) ==
    LET i == call[s].id
        row == [sats[i] EXCEPT !.region = call[s].region]
    IN  /\ At(s, {"checked", "detached"}, {"update"})
        /\ sats[i] # NULL
        /\ sats' = [sats EXCEPT ![i] = row]
        /\ UNCHANGED used
        /\ Finish(s, Reply(200, row))

\* Mutant: pgx.ErrNoRows is not looked at.
SetRegionGoneIgnored(s) ==
    /\ At(s, {"checked"}, {"update"})
    /\ sats[call[s].id] = NULL
    /\ Answered(s, Reply(200, NULL))

\* UPDATE ... RETURNING matched nothing: the row went after the check.
SetRegionGone(s) ==
    /\ At(s, {"checked"}, {"update"})
    /\ sats[call[s].id] = NULL
    /\ Answered(s, Reply(404, NULL))

\* DELETE's row count is ignored.
DeleteRow(s) ==
    /\ At(s, {"checked", "detached"}, {"delete"})
    /\ sats' = [sats EXCEPT ![call[s].id] = NULL]
    /\ UNCHANGED used
    /\ Finish(s, Reply(204, NULL))

\* Mutant: the agent names the time instead of the server.
BeginHeartbeatAgentTime(s) ==
    /\ At(s, {"received"}, {"heartbeat"})
    /\ \E t \in Time : t <= now /\ stamp' = [stamp EXCEPT ![s] = t]
    /\ Goto(s, "stamped")

BeginHeartbeat(s) ==
    /\ At(s, {"received"}, {"heartbeat"})
    /\ stamp' = [stamp EXCEPT ![s] = now]
    /\ Goto(s, "stamped")

UpdateHeartbeat(s) ==
    LET i == call[s].id
        row == [sats[i] EXCEPT !.status = "Ready", !.lastSeen = stamp[s]]
    IN  /\ At(s, {"stamped", "detached"}, {"heartbeat"})
        /\ sats[i] # NULL
        /\ sats' = [sats EXCEPT ![i] = row]
        /\ UNCHANGED used
        /\ Finish(s, Reply(200, row))

HeartbeatGone(s) ==
    /\ At(s, {"stamped"}, {"heartbeat"})
    /\ sats[call[s].id] = NULL
    /\ Answered(s, Reply(404, NULL))

\* Any statement may fail and leave the table as it was.
StatementFails(s) ==
    /\ pc[s] \in {"received", "checked", "stamped"}
    /\ ~Malformed(call[s])
    /\ Answered(s, Reply(500, NULL))

\* The handler stops waiting for a write, which PostgreSQL may yet commit.
Abandon(s) ==
    /\ InFlight(s)
    /\ pc' = [pc EXCEPT ![s] = "detached"]
    /\ resp' = [resp EXCEPT ![s] = Reply(500, NULL)]
    /\ UNCHANGED <<sats, used, now, call, since, stamp>>

-----------------------------------------------------------------------------

\* The answer is out, or the detached statement ends without effect.
Release(s) ==
    /\ pc[s] \in {"done", "detached"}
    /\ pc' = [pc EXCEPT ![s] = "idle"]
    /\ call' = [call EXCEPT ![s] = NULL]
    /\ since' = [since EXCEPT ![s] = NULL]
    /\ stamp' = [stamp EXCEPT ![s] = NULL]
    /\ resp' = [resp EXCEPT ![s] = NULL]
    /\ UNCHANGED <<sats, used, now>>

Tick ==
    /\ now < MaxTime
    /\ now' = now + 1
    /\ UNCHANGED <<sats, used, pc, call, since, stamp, resp>>

\* An API process dies, and with it the requests X it serves.  Of their
\* writes already with PostgreSQL, those in D may still commit.
Crash(X) ==
    \E D \in SUBSET {s \in X : InFlight(s) \/ pc[s] = "detached"} :
        /\ pc' = [s \in Slots |-> IF s \in D THEN "detached"
                                  ELSE IF s \in X THEN "idle" ELSE pc[s]]
        /\ call' = [s \in Slots |-> IF s \in X \ D THEN NULL ELSE call[s]]
        /\ since' = [s \in Slots |-> IF s \in X \ D THEN NULL ELSE since[s]]
        /\ stamp' = [s \in Slots |-> IF s \in X \ D THEN NULL ELSE stamp[s]]
        /\ resp' = [s \in Slots |-> IF s \in D THEN Reply(0, NULL)
                                    ELSE IF s \in X THEN NULL ELSE resp[s]]
        /\ UNCHANGED <<sats, used, now>>

Handle(s) ==
    \/ RejectMalformed(s)
    \/ Create(s) \/ CreateConflict(s) \/ List(s) \/ GetByID(s)
    \/ CheckAbsent(s) \/ CheckRefused(s) \/ CheckPassed(s)
    \/ SetRegion(s) \/ SetRegionGone(s) \/ DeleteRow(s)
    \/ BeginHeartbeat(s) \/ UpdateHeartbeat(s) \/ HeartbeatGone(s)
    \/ StatementFails(s) \/ Abandon(s)

Next ==
    \/ \E s \in Slots : (\E c \in Requests : Receive(s, c)) \/ Handle(s) \/ Release(s)
    \/ Tick
    \/ \E X \in SUBSET Slots : Crash(X)

Spec == Init /\ [][Next]_vars

-----------------------------------------------------------------------------
(* Correctness. *)

\* A request that is between its check and its answer is "pending".
phase ==
    [s \in Slots |-> IF pc[s] \in {"received", "checked", "stamped"}
                    THEN "pending" ELSE pc[s]]

Atomic == INSTANCE SatelliteAtomic WITH phase <- phase

\* The interleaved handlers are linearizable: although Update and Delete
\* read, decide and only then write, and heartbeats are stamped before they
\* are written, every execution is one of the atomic specification.
Linearizable == Atomic!Spec

\* What a slot's stage says of its request: at the write the request is
\* well formed and of the kind the stage is for, and a heartbeat's stamp lies
\* between its arrival and now.
SlotOK(s) ==
    /\ pc[s] # "idle" => call[s] \in Call /\ since[s] \in Time /\ since[s] <= now
    /\ pc[s] \in {"checked", "stamped", "detached"} => ~Malformed(call[s])
    /\ pc[s] = "checked" => call[s].op \in {"update", "delete"}
    /\ pc[s] = "stamped" => call[s].op = "heartbeat"
    /\ pc[s] = "detached" => call[s].op \in {"create", "update", "delete", "heartbeat"}
    /\ (pc[s] \in {"stamped", "detached"} /\ call[s].op = "heartbeat")
         => stamp[s] \in Time /\ since[s] <= stamp[s] /\ stamp[s] <= now

\* The ownership decision of Update and Delete (service.go:42 and :56) is
\* made on a row that may change or go before the write: at the write it is
\* still the right decision.
CheckStillValid ==
    \A s \in Slots :
        (pc[s] \in {"checked", "detached"} /\ call[s].op \in {"update", "delete"})
        => LET i == call[s].id
           IN  i \in used /\ (sats[i] = NULL \/ ~Guarded(sats[i], call[s]))

\* A row's id is one that was handed out.
RowsAreUsed == \A i \in Ids : sats[i] # NULL => i \in used

\* The inductive invariant: types, slots, and the standing of the check.
Inv == TypeOK /\ (\A s \in Slots : SlotOK(s)) /\ RowsAreUsed /\ CheckStillValid

\* A step takes a row the operator owns, or moves it to another region.
TouchesOwned(i) ==
    /\ sats[i] # NULL /\ sats[i].managedBy = "operator"
    /\ sats'[i] = NULL \/ sats'[i].region # sats[i].region

\* It is the write of a request for row i that carries the operator's mark.
ByOperator(i) ==
    \E s \in Slots :
        /\ pc'[s] = "done" /\ pc[s] \in {"checked", "detached"}
        /\ call[s].id = i /\ call[s].fromOperator

\* Whatever interleaves, loses its answer or crashes, the region of a row
\* the operator owns changes, and the row goes, only by a request that
\* carries the operator's mark.
OwnershipRespected == [][\A i \in Ids : TouchesOwned(i) => ByOperator(i)]_vars

StaysDeleted == \A i \in used : sats[i] = NULL => sats'[i] = NULL

\* A deleted satellite stays deleted: no late update or heartbeat brings the
\* row back, and no create reuses its id.
NoResurrection == [][StaysDeleted]_vars

StaysSeen ==
    \A i \in Ids :
        (sats[i] # NULL /\ sats'[i] # NULL /\ sats[i].lastSeen # NULL)
        => sats'[i].lastSeen # NULL /\ sats'[i].status = "Ready"

\* A recorded heartbeat is not undone by a concurrent region update: a row
\* that has been seen stays seen and Ready.
HeartbeatKept == [][StaysSeen]_vars

\* A step sets last_seen_at of row i to an earlier time.
GoesBack(i) ==
    /\ sats[i] # NULL /\ sats'[i] # NULL
    /\ sats[i].lastSeen # NULL /\ sats'[i].lastSeen # NULL
    /\ sats'[i].lastSeen < sats[i].lastSeen

\* It is the write of a heartbeat that arrived before the later time.
ByOverlap(i) ==
    \E s \in Slots :
        /\ pc[s] \in {"stamped", "detached"} /\ pc'[s] = "done"
        /\ call[s].op = "heartbeat" /\ call[s].id = i
        /\ since[s] < sats[i].lastSeen

\* last_seen_at goes back only when two heartbeats overlap: the one that
\* writes the older time had arrived before the newer time was taken, even
\* if its client gave up on it long ago.
RegressOnlyByOverlap == [][\A i \in Ids : GoesBack(i) => ByOverlap(i)]_vars

-----------------------------------------------------------------------------
(* The contract with clients. *)

\* What a client knows of the satellites.
standing ==
    [i \in Ids |-> IF sats[i] # NULL THEN sats[i].managedBy
                   ELSE IF i \in used THEN "gone" ELSE "unused"]

\* A step answers the request of slot s, and not for a failure.
Answers(s) ==
    /\ pc[s] \in {"received", "checked"} /\ pc'[s] = "done"
    /\ resp'[s].code \notin {0, 400, 500}

ShowsOperator(s) ==
    call[s].op = "get" /\ resp'[s].code = 200 /\ resp'[s].body.managedBy = "operator"

Kept ==
    /\ \A i \in Ids : Lives(standing[i], standing'[i])
    /\ \A s \in Slots :
        (/\ Answers(s)
         /\ call[s].op \in {"create", "list", "get", "delete"} /\ ~call[s].fromOperator)
        => Outcome(standing', resp'[s].code, ShowsOperator(s))
              \in Outcomes(call[s].op, call[s].id, standing)

\* Every answer tells of the table as it is at that instant, although Delete
\* decides on an earlier one, and satellites come and go only as the contract
\* says, by late commits too: what fleetctl concludes from an answer is so.
KeepsContract == [][Kept]_vars
=============================================================================
