---------------------------- MODULE ControlPlane ----------------------------
(***************************************************************************)
(* The Control Plane as NewRouter puts it together: the middleware and the *)
(* user routes of AccessControl, and behind the middleware the satellite   *)
(* routes of SatelliteService, on one database, one clock and the same API *)
(* processes.                                                              *)
(*                                                                         *)
(* A slot is one request.  On /satellites it is "admitted" in              *)
(* AccessControl for as long as its satellite handler runs; a statement    *)
(* that outlives its handler or its process goes on in SatelliteService    *)
(* alone.                                                                  *)
(***************************************************************************)
EXTENDS AccessControl

CONSTANTS Ids, Names, Regions, Seed, Requests

VARIABLES
    sats, used, spc, call, since, stamp, sresp,
    by      \* by[s] : who the satellite request of slot s was admitted for,
            \* and when their token was issued (history)

Sat == INSTANCE SatelliteService WITH pc <- spc, resp <- sresp

\* What SatelliteTypes assumes of its constants, MaxTime apart.
ASSUME SatelliteAssumption ==
    /\ NULL \notin Names \cup Regions \cup Ids \cup Sat!Time \cup Sat!Row
    /\ BadId \notin Ids
    /\ Requests \subseteq Sat!Call
    /\ Seed \in Sat!Table
    /\ \A i, j \in Ids :
          (Seed[i] # NULL /\ Seed[j] # NULL /\ Seed[i].name = Seed[j].name) => i = j
    /\ \A i \in Ids :
          Seed[i] # NULL => (Seed[i].status = "Ready" <=> Seed[i].lastSeen # NULL)

satellites == <<sats, used, spc, call, since, stamp, sresp>>
cvars == <<vars, satellites, by>>

CInit ==
    /\ Init
    /\ Sat!Init
    /\ by = [s \in Slots |-> NULL]

\* The satellite handler of slot s is running, or its answer is on its way.
Serving(s) == At(s, {"admitted"}, {"satellites"})

\* Whoever a slot of SatelliteService works for is forgotten with the slot.
Attribution == by' = [s \in Slots |-> IF spc'[s] = "idle" THEN NULL ELSE by[s]]

-----------------------------------------------------------------------------

Arrive(s) ==
    /\ \E f \in Forms, t \in tokens \cup Foreign \cup {NULL}, i \in Instances : Receive(s, f, t, i)
    /\ UNCHANGED <<satellites, by>>

\* Mutant: the satellite routes are outside the group with the middleware.
EnterUnguarded(s) ==
    /\ At(s, {"received"}, {"satellites"})
    /\ Proceed(s, "admitted", NULL)
    /\ \E c \in Requests : Sat!Receive(s, c)
    /\ by' = [by EXCEPT ![s] = [who |-> NULL, issued |-> NULL]]

\* Mutant: the middleware does not look at the time.
EnterAnytime(s) ==
    /\ At(s, {"received"}, {"satellites"})
    /\ job[s].tok # NULL /\ Ours(job[s].tok) /\ ClaimsValid(job[s].tok)
    /\ Proceed(s, "admitted", NewHumanPrincipal(job[s].tok.sub, job[s].tok.role))
    /\ \E c \in Requests : Sat!Receive(s, c)
    /\ by' = [by EXCEPT ![s] = [who |-> ctx'[s], issued |-> job[s].tok.at]]

\* The middleware lets a request through to its satellite handler.
Enter(s) ==
    /\ At(s, {"received"}, {"satellites"})
    /\ Admit(s)
    /\ \E c \in Requests : Sat!Receive(s, c)
    /\ by' = [by EXCEPT ![s] = [who |-> ctx'[s], issued |-> job[s].tok.at]]

\* Login, the user routes, and refusals by the middleware.
HandleAccess(s) ==
    /\ Handle(s)
    /\ ~(At(s, {"received"}, {"satellites"}) /\ pc'[s] = "admitted")
    /\ UNCHANGED <<satellites, by>>

HandleSatellite(s) ==
    /\ Sat!Handle(s)
    /\ UNCHANGED <<vars, by>>

\* The answer of a satellite handler is out.
Leave(s) ==
    /\ Serving(s)
    /\ spc[s] \in {"done", "detached"}
    /\ Release(s)
    /\ \/ Sat!Release(s) /\ Attribution
       \/ spc[s] = "detached" /\ UNCHANGED <<satellites, by>>

LeaveAccess(s) ==
    /\ ~Serving(s)
    /\ Release(s)
    /\ UNCHANGED <<satellites, by>>

\* A statement that outlived its request has ended.
Settle(s) ==
    /\ ~Serving(s)
    /\ Sat!Release(s)
    /\ Attribution
    /\ UNCHANGED vars

Elapse ==
    /\ Tick
    /\ UNCHANGED <<satellites, by>>

\* Process i dies, with the requests it serves on either side.
Fall(i) ==
    /\ Crash(i)
    /\ Sat!Crash({s \in Slots : pc[s] # "idle" /\ job[s].inst = i})
    /\ Attribution

CNext ==
    \/ \E s \in Slots :
        \/ Arrive(s) \/ Enter(s) \/ HandleAccess(s) \/ HandleSatellite(s)
        \/ Leave(s) \/ LeaveAccess(s) \/ Settle(s)
    \/ Elapse
    \/ \E i \in Instances : Fall(i)

CSpec == CInit /\ [][CNext]_cvars

-----------------------------------------------------------------------------
(* Correctness. *)

\* Put together, each part still does what its own specification says: the
\* composition adds no step that AccessControl or SatelliteService does not
\* have, in the middleware, at a release or in a crash.
PartsIntact == Spec /\ Sat!Spec

\* The request of slot s ends in this step, and with it its last statement.
Writes(s) == spc[s] \notin {"idle", "done"} /\ spc'[s] = "done"

\* Whoever changes a satellite, be it long after their request was answered
\* or the process that admitted them died, is a user who was registered here,
\* in the role they were admitted with; and if it is the operator's, the very
\* same request is for that row and carries the operator's mark.
ChangedByUsers ==
    [][sats' # sats =>
        \E s \in Slots :
            /\ Writes(s)
            /\ by[s].who \in Human
            /\ Knows(ledger, by[s].who.subject, by[s].who.role)
            /\ \A i \in Ids : Sat!TouchesOwned(i) => call[s].id = i /\ call[s].fromOperator]_cvars

\* A deleted user's last satellite request: with a token issued before the
\* deletion it was admitted before the deletion, or before the token's
\* lifetime and the largest difference between two clocks had passed.
Bounded(s) ==
    LET d == ledger[by[s].who.subject].deletedAt
    IN  (d # NULL /\ by[s].issued <= d) => since[s] <= d \/ since[s] < d + TTL + MaxSkew

\* No satellite changes for a deleted user whose time was over when they
\* asked.  (When the statement commits is PostgreSQL's affair.)
LastWritesBounded ==
    [][sats' # sats => \E s \in Slots : Writes(s) /\ Bounded(s)]_cvars
=============================================================================
