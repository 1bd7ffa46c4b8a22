------------------------------ MODULE Operator ------------------------------
(***************************************************************************)
(* The Fleet Operator: SatelliteReconciler against the Kubernetes API      *)
(* server.  A manager reads from its informer's cache, which lags behind   *)
(* the server, and writes the status subresource; the server refuses a     *)
(* write that is not based on the newest version.                          *)
(*                                                                         *)
(*   worker:  idle -> popped -> fetched -> idle                            *)
(*                                                                         *)
(* hist[n] holds every version of object n, in order; the last one is the  *)
(* object, its index the resourceVersion.  Leader election is off by       *)
(* default and a paused leader does not notice the loss of its lease, so   *)
(* that several managers may run at once.                                  *)
(***************************************************************************)
EXTENDS Naturals, Sequences

CONSTANTS
    Managers,     \* operator processes
    Objects,      \* namespaced names of Satellite resources
    Regions,
    NULL,
    MaxEdits,     \* bound on the edits of an object by others
    MaxCrashes    \* bound on the crashes of a manager

ASSUME OperatorAssumption == MaxEdits \in Nat /\ MaxCrashes \in Nat

\* The phases the CRD admits.
Phases == {"Pending", "Ready", "Error", "Unreachable"}

\* A version of a Satellite.  live = FALSE: deleted.  heartbeat stands for
\* the status fields Reconcile does not set (lastHeartbeat, conditions); by
\* is who wrote the version (history).
Version == [live: BOOLEAN, uid: Nat, region: Regions,
            phase: Phases \cup {""}, managedBy: {"", "operator"},
            heartbeat: Nat, by: {"user", "operator"}]

ASSUME NullAssumption == NULL \notin Version

VARIABLES
    hist,      \* hist[n]       : the versions of n
    edits,     \* edits[n]      : how many of them others wrote
    up,        \* up[m]         : manager m runs
    crashes,   \* crashes[m]
    seen,      \* seen[m][n]    : the version of n in m's cache, 0 for none
    queue,     \* queue[m]      : the work queue, without duplicates
    worker,    \* worker[m]     : what m's one worker does
    orphans    \* status updates of managers that died, still under way

vars == <<hist, edits, up, crashes, seen, queue, worker, orphans>>

server == <<hist, edits>>
cluster == <<up, crashes>>

Idle == [stage |-> "idle"]

Init ==
    /\ hist = [n \in Objects |-> <<>>]
    /\ edits = [n \in Objects |-> 0]
    /\ up = [m \in Managers |-> TRUE]
    /\ crashes = [m \in Managers |-> 0]
    /\ seen = [m \in Managers |-> [n \in Objects |-> 0]]
    /\ queue = [m \in Managers |-> {}]
    /\ worker = [m \in Managers |-> Idle]
    /\ orphans = {}

-----------------------------------------------------------------------------
(* The API server and those who write to it beside the operator. *)

Exists(n) == hist[n] # <<>> /\ hist[n][Len(hist[n])].live

Latest(n) == hist[n][Len(hist[n])]

Edit(n, v) ==
    /\ edits[n] < MaxEdits
    /\ edits' = [edits EXCEPT ![n] = @ + 1]
    /\ hist' = [hist EXCEPT ![n] = Append(@, [v EXCEPT !.by = "user"])]
    /\ UNCHANGED <<cluster, seen, queue, worker, orphans>>

\* A new object has no status.
CreateObject(n, r) ==
    /\ ~Exists(n)
    /\ Edit(n, [live |-> TRUE, uid |-> Len(hist[n]) + 1, region |-> r,
                phase |-> "", managedBy |-> "", heartbeat |-> 0, by |-> "user"])

EditSpec(n, r) ==
    /\ Exists(n)
    /\ Latest(n).region # r
    /\ Edit(n, [Latest(n) EXCEPT !.region = r])

\* Another writer of the status: it reports a phase, Ready too, and a
\* heartbeat.  An object it makes Ready stays without the operator's mark.
EditStatus(n, phase) ==
    /\ Exists(n)
    /\ Edit(n, [Latest(n) EXCEPT !.phase = phase, !.heartbeat = @ + 1])

\* No finalizers: the object is gone at once.
DeleteObject(n) ==
    /\ Exists(n)
    /\ Edit(n, [Latest(n) EXCEPT !.live = FALSE])

\* A status update: refused unless based on the newest version of an object
\* that exists; it replaces the whole status and nothing else.
Accepted(w) == Len(hist[w.name]) = w.base /\ Exists(w.name)

StatusWritten(w) ==
    hist' = [hist EXCEPT ![w.name] =
               Append(@, [Latest(w.name) EXCEPT !.phase = w.sat.phase, !.managedBy = w.sat.managedBy,
                                                !.heartbeat = w.sat.heartbeat, !.by = "operator"])]

-----------------------------------------------------------------------------
(* Informer and work queue (controller-runtime). *)

\* The next watch event of n reaches m's cache; every event enqueues n.
Deliver(m, n) ==
    /\ up[m]
    /\ seen[m][n] < Len(hist[n])
    /\ seen' = [seen EXCEPT ![m][n] = @ + 1]
    /\ queue' = [queue EXCEPT ![m] = @ \cup {n}]
    /\ UNCHANGED <<server, cluster, worker, orphans>>

Pop(m, n) ==
    /\ up[m] /\ worker[m] = Idle
    /\ n \in queue[m]
    /\ queue' = [queue EXCEPT ![m] = @ \ {n}]
    /\ worker' = [worker EXCEPT ![m] = [stage |-> "popped", name |-> n]]
    /\ UNCHANGED <<server, cluster, seen, orphans>>

\* Reconcile returns nil, or an error: the item is queued again.
Done(m) ==
    /\ worker' = [worker EXCEPT ![m] = Idle]
    /\ UNCHANGED <<edits, cluster, seen, queue, orphans>>

Requeue(m) ==
    /\ worker' = [worker EXCEPT ![m] = Idle]
    /\ queue' = [queue EXCEPT ![m] = @ \cup {worker[m].name}]
    /\ UNCHANGED <<edits, cluster, seen, orphans>>

-----------------------------------------------------------------------------
(* Reconcile. *)

\* r.Get, from the cache.
Cached(m) ==
    LET n == worker[m].name
    IN  IF seen[m][n] = 0 \/ ~hist[n][seen[m][n]].live THEN NULL ELSE hist[n][seen[m][n]]

At(m, stage) == up[m] /\ worker[m].stage = stage

\* Mutant: a deleted object is an error like any other.
GetNotFoundFails(m) ==
    /\ At(m, "popped")
    /\ Cached(m) = NULL
    /\ Requeue(m) /\ UNCHANGED hist

GetNotFound(m) ==
    /\ At(m, "popped")
    /\ Cached(m) = NULL
    /\ Done(m) /\ UNCHANGED hist

GetFails(m) ==
    /\ At(m, "popped")
    /\ Requeue(m) /\ UNCHANGED hist

AlreadyReady(m) ==
    /\ At(m, "popped")
    /\ Cached(m) # NULL
    /\ Cached(m).phase = "Ready"
    /\ Done(m) /\ UNCHANGED hist

\* Mutant: the status is written whatever it is.
MarkReadyAlways(m) ==
    LET n == worker[m].name
    IN  /\ At(m, "popped")
        /\ Cached(m) # NULL
        /\ worker' = [worker EXCEPT ![m] =
              [stage |-> "fetched", name |-> n, base |-> seen[m][n],
               sat |-> [Cached(m) EXCEPT !.phase = "Ready", !.managedBy = "operator"]]]
        /\ UNCHANGED <<server, cluster, seen, queue, orphans>>

\* Mutant: a phase the CRD does not know.
MarkReadyUnknownPhase(m) ==
    LET n == worker[m].name
    IN  /\ At(m, "popped")
        /\ Cached(m) # NULL
        /\ Cached(m).phase # "Ready"
        /\ worker' = [worker EXCEPT ![m] =
              [stage |-> "fetched", name |-> n, base |-> seen[m][n],
               sat |-> [Cached(m) EXCEPT !.phase = "Active", !.managedBy = "operator"]]]
        /\ UNCHANGED <<server, cluster, seen, queue, orphans>>

\* Mutant: the update carries the server's version, not the one that was read.
MarkReadyBlind(m) ==
    LET n == worker[m].name
    IN  /\ At(m, "popped")
        /\ Cached(m) # NULL
        /\ Cached(m).phase # "Ready"
        /\ worker' = [worker EXCEPT ![m] =
              [stage |-> "fetched", name |-> n, base |-> Len(hist[n]),
               sat |-> [Cached(m) EXCEPT !.phase = "Ready", !.managedBy = "operator"]]]
        /\ UNCHANGED <<server, cluster, seen, queue, orphans>>

MarkReady(m) ==
    LET n == worker[m].name
    IN  /\ At(m, "popped")
        /\ Cached(m) # NULL
        /\ Cached(m).phase # "Ready"
        /\ worker' = [worker EXCEPT ![m] =
              [stage |-> "fetched", name |-> n, base |-> seen[m][n],
               sat |-> [Cached(m) EXCEPT !.phase = "Ready", !.managedBy = "operator"]]]
        /\ UNCHANGED <<server, cluster, seen, queue, orphans>>

UpdateStatus(m) ==
    /\ At(m, "fetched")
    /\ Accepted(worker[m])
    /\ StatusWritten(worker[m])
    /\ Done(m)

\* The write is done, the answer is lost.
UpdateStatusUnheard(m) ==
    /\ At(m, "fetched")
    /\ Accepted(worker[m])
    /\ StatusWritten(worker[m])
    /\ Requeue(m)

UpdateConflict(m) ==
    /\ At(m, "fetched")
    /\ ~Accepted(worker[m])
    /\ Requeue(m) /\ UNCHANGED hist

\* Mutant: the error is logged and forgotten.
UpdateFailsForgotten(m) ==
    /\ At(m, "fetched")
    /\ Done(m) /\ UNCHANGED hist

UpdateFails(m) ==
    /\ At(m, "fetched")
    /\ Requeue(m) /\ UNCHANGED hist

-----------------------------------------------------------------------------

\* Queue and cache die with the process; a request already sent does not.
Crash(m) ==
    /\ up[m] /\ crashes[m] < MaxCrashes
    /\ up' = [up EXCEPT ![m] = FALSE]
    /\ crashes' = [crashes EXCEPT ![m] = @ + 1]
    /\ seen' = [seen EXCEPT ![m] = [n \in Objects |-> 0]]
    /\ queue' = [queue EXCEPT ![m] = {}]
    /\ worker' = [worker EXCEPT ![m] = Idle]
    /\ \E W \in SUBSET {worker[m]} :
        /\ \A w \in W : w.stage = "fetched"
        /\ orphans' = orphans \cup W
    /\ UNCHANGED server

\* The informer's first list fills the cache and enqueues what exists.
Restart(m) ==
    /\ ~up[m]
    /\ up' = [up EXCEPT ![m] = TRUE]
    /\ seen' = [seen EXCEPT ![m] = [n \in Objects |-> Len(hist[n])]]
    /\ queue' = [queue EXCEPT ![m] = {n \in Objects : Exists(n)}]
    /\ UNCHANGED <<server, crashes, worker, orphans>>

OrphanLands(w) ==
    /\ orphans' = orphans \ {w}
    /\ IF Accepted(w) THEN StatusWritten(w) ELSE UNCHANGED hist
    /\ UNCHANGED <<edits, cluster, seen, queue, worker>>

Reconcile(m) ==
    \/ GetNotFound(m) \/ AlreadyReady(m) \/ MarkReady(m)
    \/ UpdateStatus(m) \/ UpdateConflict(m)

Others ==
    \E n \in Objects :
        \/ \E r \in Regions : CreateObject(n, r) \/ EditSpec(n, r)
        \/ \E phase \in Phases : EditStatus(n, phase)
        \/ DeleteObject(n)

Next ==
    \/ Others
    \/ \E m \in Managers :
        \/ \E n \in Objects : Deliver(m, n) \/ Pop(m, n)
        \/ Reconcile(m)
        \/ GetFails(m) \/ UpdateFails(m) \/ UpdateStatusUnheard(m)
        \/ Crash(m) \/ Restart(m)
    \/ \E w \in orphans : OrphanLands(w)

(***************************************************************************)
(* The watch goes on, the queue is first in, first out, a dead pod is      *)
(* started again.  A call that is retried for ever succeeds in the end;    *)
(* nobody has to edit or to crash.                                         *)
(***************************************************************************)
Fairness ==
    \A m \in Managers :
        /\ \A n \in Objects : WF_vars(Deliver(m, n)) /\ SF_vars(Pop(m, n))
        /\ SF_vars(Reconcile(m))
        /\ SF_vars(UpdateStatus(m))
        /\ WF_vars(Restart(m))

Spec == Init /\ [][Next]_vars
FairSpec == Spec /\ Fairness

-----------------------------------------------------------------------------
(* Correctness. *)

Popped == [stage: {"popped"}, name: Objects]
Fetched == [stage: {"fetched"}, name: Objects, base: Nat, sat: Version]

\* The types of the variables.
TypeOK ==
    /\ hist \in [Objects -> Seq(Version)]
    /\ edits \in [Objects -> 0..MaxEdits]
    /\ up \in [Managers -> BOOLEAN]
    /\ crashes \in [Managers -> 0..MaxCrashes]
    /\ seen \in [Managers -> [Objects -> Nat]]
    /\ queue \in [Managers -> SUBSET Objects]
    /\ worker \in [Managers -> {Idle} \cup Popped \cup Fetched]
    /\ orphans \subseteq Fetched

\* However stale the caches and however many managers write, a write of the
\* operator goes on top of the version it was made from: it leaves the other
\* status fields as they are, and never reaches a deleted or another object.
NothingLost ==
    \A n \in Objects : \A k \in DOMAIN hist[n] :
        hist[n][k].by = "operator" =>
            /\ k > 1
            /\ hist[n][k - 1].live
            /\ hist[n][k] = [hist[n][k - 1] EXCEPT !.phase = "Ready", !.managedBy = "operator",
                                                   !.by = "operator"]

\* The operator does not answer its own writes: of two versions in a row it
\* writes one, so that every reconcile storm ends.
OneWritePerEdit ==
    \A n \in Objects : \A k \in DOMAIN hist[n] :
        (k > 1 /\ hist[n][k].by = "operator") => hist[n][k - 1].by = "user"

\* m will look at n again: an event of n is to come, n is queued, or the
\* worker has it.
Owes(m, n) ==
    \/ seen[m][n] < Len(hist[n])
    \/ n \in queue[m]
    \/ worker[m].stage \in {"popped", "fetched"} /\ worker[m].name = n

\* No wake-up is lost: while an object is not Ready, every manager that runs
\* will look at it again.
NoLostWork ==
    \A m \in Managers, n \in Objects :
        (up[m] /\ Exists(n) /\ Latest(n).phase # "Ready") => Owes(m, n)

\* The parts of the inductive invariant.  A cache is at a version there was;
\* a status update on its way was made from the version it names, which was
\* not Ready; each write of the operator was made from the version before it.
CacheOK == \A m \in Managers, n \in Objects : seen[m][n] <= Len(hist[n])

ReadFrom(w, read) ==
    /\ read.live /\ read.phase # "Ready"
    /\ w.sat = [read EXCEPT !.phase = "Ready", !.managedBy = "operator"]

Request(h, w) == w.base \in DOMAIN h[w.name] /\ ReadFrom(w, h[w.name][w.base])

RequestsOK ==
    /\ \A m \in Managers : worker[m].stage = "fetched" => Request(hist, worker[m])
    /\ \A w \in orphans : Request(hist, w)

MadeFrom(v, u) ==
    /\ u.live /\ u.phase # "Ready"
    /\ v = [u EXCEPT !.phase = "Ready", !.managedBy = "operator", !.by = "operator"]

WritesOK ==
    \A n \in Objects : \A k \in DOMAIN hist[n] :
        hist[n][k].by = "operator" => k > 1 /\ MadeFrom(hist[n][k], hist[n][k - 1])

Inv == TypeOK /\ CacheOK /\ RequestsOK /\ WritesOK

\* When the edits are over, every object that exists is and stays Ready.
Settles == <>[](\A n \in Objects : Exists(n) => Latest(n).phase = "Ready")

\* And the managers come to rest: nothing is retried for ever.
Rests == <>[](\A m \in Managers : up[m] /\ queue[m] = {} /\ worker[m] = Idle)
=============================================================================
