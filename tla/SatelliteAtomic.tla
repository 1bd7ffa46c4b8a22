--------------------------- MODULE SatelliteAtomic --------------------------
(***************************************************************************)
(* What the satellite routes promise: every request takes effect at one    *)
(* instant between its arrival and its answer, and the answer tells of     *)
(* that instant; or it fails and has no effect; or its answer is lost and  *)
(* its effect may come later, once, or never.                              *)
(***************************************************************************)
EXTENDS SatelliteTypes

VARIABLES
    sats,    \* the satellites table
    used,    \* the UUIDs handed out so far
    now,     \* the database's clock
    phase,   \* phase[s] : "idle", "pending", "detached" (answer lost) or "done"
    call,    \* call[s]  : the request in slot s
    since,   \* since[s] : when it arrived
    resp     \* resp[s]  : its answer, once done

vars == <<sats, used, now, phase, call, since, resp>>

Init ==
    /\ sats = Seed
    /\ used = {i \in Ids : Seed[i] # NULL}
    /\ now = 0
    /\ phase = [s \in Slots |-> "idle"]
    /\ call = [s \in Slots |-> NULL]
    /\ since = [s \in Slots |-> NULL]
    /\ resp = [s \in Slots |-> NULL]

Arrive(s) ==
    /\ phase[s] = "idle"
    /\ call'[s] \in Requests
    /\ call' = [call EXCEPT ![s] = call'[s]]
    /\ phase' = [phase EXCEPT ![s] = "pending"]
    /\ since' = [since EXCEPT ![s] = now]
    /\ UNCHANGED <<sats, used, now, resp>>

\* Answer s with r, unless it has been told that its answer is lost.
Finish(s, r) ==
    /\ phase' = [phase EXCEPT ![s] = "done"]
    /\ resp' = IF phase[s] = "detached" THEN resp ELSE [resp EXCEPT ![s] = r]
    /\ UNCHANGED <<now, call, since>>

Mutation(c) == c.op \in {"create", "update", "delete", "heartbeat"} /\ ~Malformed(c)

\* A malformed request changes nothing: 400, or no answer at all.
Reject(s) ==
    /\ \E code \in {0, 400} : Finish(s, Reply(code, NULL))
    /\ UNCHANGED <<sats, used>>

\* A request may fail without effect.
Fail(s) ==
    /\ Finish(s, Reply(500, NULL))
    /\ UNCHANGED <<sats, used>>

Create(s) ==
    /\ call[s].op = "create"
    /\ \A j \in Ids : sats[j] # NULL => sats[j].name # call[s].name
    /\ \E i \in Ids \ used :
        LET row == [name |-> call[s].name, region |-> call[s].region,
                    status |-> "Pending", managedBy |-> "manual", lastSeen |-> NULL]
        IN  /\ sats' = [sats EXCEPT ![i] = row]
            /\ used' = used \cup {i}
            /\ Finish(s, Reply(201, row))

List(s) ==
    /\ call[s].op = "list"
    /\ Finish(s, Reply(200, [rows |-> sats]))
    /\ UNCHANGED <<sats, used>>

Absent(s) ==
    /\ call[s].op \in {"get", "update", "heartbeat"}
    /\ sats[call[s].id] = NULL
    /\ Finish(s, Reply(404, NULL))
    /\ UNCHANGED <<sats, used>>

Get(s) ==
    /\ call[s].op = "get"
    /\ sats[call[s].id] # NULL
    /\ Finish(s, Reply(200, sats[call[s].id]))
    /\ UNCHANGED <<sats, used>>

Refuse(s) ==
    /\ call[s].op \in {"update", "delete"}
    /\ sats[call[s].id] # NULL
    /\ Guarded(sats[call[s].id], call[s])
    /\ Finish(s, Reply(403, NULL))
    /\ UNCHANGED <<sats, used>>

Update(s) ==
    LET i == call[s].id
        row == [sats[i] EXCEPT !.region = call[s].region]
    IN  /\ call[s].op = "update"
        /\ sats[i] # NULL
        /\ ~Guarded(sats[i], call[s])
        /\ sats' = [sats EXCEPT ![i] = row]
        /\ Finish(s, Reply(200, row))
        /\ UNCHANGED used

\* Deleting what is not there succeeds too.
Delete(s) ==
    LET i == call[s].id
    IN  /\ call[s].op = "delete"
        /\ sats[i] # NULL => ~Guarded(sats[i], call[s])
        /\ sats' = [sats EXCEPT ![i] = NULL]
        /\ Finish(s, Reply(204, NULL))
        /\ UNCHANGED used

\* The stamp is a server time within the request's own lifetime.
Heartbeat(s) ==
    LET i == call[s].id
    IN  /\ call[s].op = "heartbeat"
        /\ sats[i] # NULL
        /\ \E t \in since[s]..now :
             LET row == [sats[i] EXCEPT !.status = "Ready", !.lastSeen = t]
             IN  /\ sats' = [sats EXCEPT ![i] = row]
                 /\ Finish(s, Reply(200, row))
        /\ UNCHANGED used

Apply(s) ==
    \/ /\ phase[s] = "pending"
       /\ Malformed(call[s])
       /\ Reject(s)
    \/ /\ phase[s] = "pending"
       /\ ~Malformed(call[s])
       /\ List(s) \/ Absent(s) \/ Get(s) \/ Refuse(s) \/ Fail(s)
    \/ /\ phase[s] \in {"pending", "detached"}
       /\ ~Malformed(call[s])
       /\ Create(s) \/ Update(s) \/ Delete(s) \/ Heartbeat(s)

\* A mutation whose answer is lost while it may still take effect.
Detach(s) ==
    /\ phase[s] = "pending"
    /\ Mutation(call[s])
    /\ phase' = [phase EXCEPT ![s] = "detached"]
    /\ resp' = [resp EXCEPT ![s] = Reply(500, NULL)]
    /\ UNCHANGED <<sats, used, now, call, since>>

Release(s) ==
    /\ phase[s] \in {"done", "detached"}
    /\ phase' = [phase EXCEPT ![s] = "idle"]
    /\ call' = [call EXCEPT ![s] = NULL]
    /\ since' = [since EXCEPT ![s] = NULL]
    /\ resp' = [resp EXCEPT ![s] = NULL]
    /\ UNCHANGED <<sats, used, now>>

Tick ==
    /\ now < MaxTime
    /\ now' = now + 1
    /\ UNCHANGED <<sats, used, phase, call, since, resp>>

\* The requests X are cut off; only mutations may outlive that.
Crash(X) ==
    \E D \in SUBSET {s \in X : \/ phase[s] = "detached"
                               \/ phase[s] = "pending" /\ Mutation(call[s])} :
        /\ phase' = [s \in Slots |-> IF s \in D THEN "detached"
                                     ELSE IF s \in X THEN "idle" ELSE phase[s]]
        /\ call' = [s \in Slots |-> IF s \in X \ D THEN NULL ELSE call[s]]
        /\ since' = [s \in Slots |-> IF s \in X \ D THEN NULL ELSE since[s]]
        /\ resp' = [s \in Slots |-> IF s \in D THEN Reply(0, NULL)
                                    ELSE IF s \in X THEN NULL ELSE resp[s]]
        /\ UNCHANGED <<sats, used, now>>

Next ==
    \/ \E s \in Slots : Arrive(s) \/ Apply(s) \/ Detach(s) \/ Release(s)
    \/ Tick
    \/ \E X \in SUBSET Slots : Crash(X)

Spec == Init /\ [][Next]_vars
=============================================================================
