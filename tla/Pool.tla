-------------------------------- MODULE Pool --------------------------------
(***************************************************************************)
(* One API process from its start to its end, and the PostgreSQL           *)
(* connections its handlers share.                                         *)
(*                                                                         *)
(*   process:   down -> connecting -> serving -> down                      *)
(*   request:   idle -> waiting -> running -> done -> idle                 *)
(*                      ^             | \-> reading -> done                *)
(*                      \-------------/                                    *)
(*                                                                         *)
(* A handler waits in pgxpool's Acquire, runs one statement on the         *)
(* connection it gets, and gives it back.  The two lists hold theirs while *)
(* they read rows; Update and Delete of a satellite go round twice.  What  *)
(* ends a wait or a statement early is the handler's context: none for     *)
(* login, the client's for the routes, the client's and two seconds for    *)
(* the health check.                                                       *)
(*                                                                         *)
(* External: pgxpool (a waiter takes any free connection; a connection     *)
(* whose statement was cancelled or broke is closed and then replaced),    *)
(* PostgreSQL (answers, fails or stays silent), net/http (cancels the      *)
(* request's context when the client goes).                                *)
(***************************************************************************)
CONSTANTS
    Slots,          \* concurrent requests that need the database
    Conns,          \* the connections pool_max_conns allows
    Environments,   \* the environments the process is started in
    NULL

Kinds == {"login", "health", "single", "list", "pair"}

\* What the code tells apart of an environment variable's text: unset or
\* empty, only blanks (as long as a secret has to be), too short for a
\* secret, fine; and for DB_URL whether it parses.
Text == {"", "blank", "short", "fine"}

Environment ==
    [secret: Text, issuer: Text, audience: Text, dburl: {"", "garbled", "fine"}]

ASSUME PoolAssumption ==
    /\ Environments \subseteq Environment
    /\ NULL \notin Conns \cup Kinds \cup Environment \cup {"ok", "error"}

VARIABLES
    phase,      \* how far the process has come
    cfg,        \* its configuration
    up,         \* PostgreSQL is there
    met,        \* history: PostgreSQL was there at some time since main began
    pc,         \* pc[r]     : how far the request in slot r has come
    kind,       \* kind[r]   : what it is
    second,     \* the requests that are past their first statement
    conn,       \* conn[r]   : the connection it runs on
    gone,       \* the requests whose client is gone
    late,       \* the health checks whose two seconds are over
    sawUp,      \* history: the health checks during which PostgreSQL was there
    answer,     \* answer[r] : what it was answered
    taken,      \* pgxpool: the connections handed out
    closing     \* pgxpool: the connections being closed

process == <<phase, cfg, met>>
books == <<taken, closing>>
vars == <<phase, cfg, up, met, pc, kind, second, conn, gone, late, sawUp, answer,
          taken, closing>>

Init ==
    /\ phase = "down"
    /\ cfg = NULL
    /\ up \in BOOLEAN
    /\ met = FALSE
    /\ pc = [r \in Slots |-> "idle"]
    /\ kind = [r \in Slots |-> NULL]
    /\ second = {}
    /\ conn = [r \in Slots |-> NULL]
    /\ gone = {}
    /\ late = {}
    /\ sawUp = {}
    /\ answer = [r \in Slots |-> NULL]
    /\ taken = {}
    /\ closing = {}

-----------------------------------------------------------------------------
(* Start-up: main, config.Load, NewJWTManager, db.Connect. *)

\* Mutant: no fallback.
getEnvPlain(text) == text

\* getEnv: the fallback replaces an empty value, and only that.
getEnv(text) == IF text = "" THEN "fine" ELSE text

Load(e) ==
    [secret |-> e.secret, issuer |-> getEnv(e.issuer), audience |-> getEnv(e.audience),
     dburl |-> getEnv(e.dburl)]

\* Mutant: the values are not trimmed before they are looked at.
NewJWTManagerUntrimmed(c) ==
    /\ c.secret \in {"blank", "fine"}
    /\ c.issuer # ""
    /\ c.audience # ""

\* NewJWTManager: no error.
NewJWTManager(c) ==
    /\ c.secret = "fine"
    /\ c.issuer \notin {"", "blank"}
    /\ c.audience \notin {"", "blank"}

\* main up to pgxpool.New; log.Fatal when a step of it fails.
Start(e) ==
    /\ phase = "down"
    /\ cfg' = Load(e)
    /\ phase' = IF NewJWTManager(cfg') /\ cfg'.dburl = "fine" THEN "connecting" ELSE "down"
    /\ met' = up
    /\ UNCHANGED <<up, pc, kind, second, conn, gone, late, sawUp, answer, books>>

\* Mutant: Connect does not ping, and the pool connects when it is first used.
ConnectedLazily ==
    /\ phase = "connecting"
    /\ phase' = "serving"
    /\ UNCHANGED <<cfg, up, met, pc, kind, second, conn, gone, late, sawUp, answer, books>>

\* The ping of Connect is answered, and the server listens.
Connected ==
    /\ phase = "connecting"
    /\ up
    /\ phase' = "serving"
    /\ UNCHANGED <<cfg, up, met, pc, kind, second, conn, gone, late, sawUp, answer, books>>

\* The ping fails, ListenAndServe returns or the process is killed.  Nothing
\* is drained: every request ends where it is, and the connections with it.
Stop ==
    /\ phase # "down"
    /\ phase' = "down"
    /\ pc' = [r \in Slots |-> "idle"]
    /\ kind' = [r \in Slots |-> NULL]
    /\ conn' = [r \in Slots |-> NULL]
    /\ answer' = [r \in Slots |-> NULL]
    /\ second' = {} /\ gone' = {} /\ late' = {} /\ sawUp' = {}
    /\ taken' = {} /\ closing' = {}
    /\ UNCHANGED <<cfg, up, met>>

-----------------------------------------------------------------------------
(* Contexts. *)

Active(r) == pc[r] \in {"waiting", "running", "reading"}

\* Mutant: the health check has no deadline.
ListensNoTimer(k) == IF k = "login" THEN {} ELSE {"client"}

\* Mutant: the repositories query with context.Background().
ListensBackground(k) == IF k = "health" THEN {"client", "timer"} ELSE {}

\* What ends the context that a handler queries with.
Listens(k) ==
    CASE k = "login"  -> {}
      [] k = "health" -> {"client", "timer"}
      [] OTHER        -> {"client"}

Cancelled(r) ==
    \/ "client" \in Listens(kind[r]) /\ r \in gone
    \/ r \in late

ClientLeaves(r) ==
    /\ Active(r)
    /\ r \notin gone
    /\ gone' = gone \cup {r}
    /\ UNCHANGED <<process, up, pc, kind, second, conn, late, sawUp, answer, books>>

TimeIsUp(r) ==
    /\ Active(r)
    /\ "timer" \in Listens(kind[r])
    /\ r \notin late
    /\ late' = late \cup {r}
    /\ UNCHANGED <<process, up, pc, kind, second, conn, gone, sawUp, answer, books>>

-----------------------------------------------------------------------------
(* The pool, as the handlers use it. *)

Free == Conns \ (taken \cup closing)

\* Put back as good as new.
GiveBack(r) ==
    /\ conn' = [conn EXCEPT ![r] = NULL]
    /\ taken' = taken \ {conn[r]}
    /\ UNCHANGED closing

\* Put back closed.
Discard(r) ==
    /\ conn' = [conn EXCEPT ![r] = NULL]
    /\ taken' = taken \ {conn[r]}
    /\ closing' = closing \cup {conn[r]}

Keep == UNCHANGED <<conn, books>>

Replaced(c) ==
    /\ c \in closing
    /\ closing' = closing \ {c}
    /\ UNCHANGED <<process, up, pc, kind, second, conn, gone, late, sawUp, answer, taken>>

-----------------------------------------------------------------------------
(* Handlers. *)

Arrive(r, k) ==
    /\ phase = "serving"
    /\ pc[r] = "idle"
    /\ pc' = [pc EXCEPT ![r] = "waiting"]
    /\ kind' = [kind EXCEPT ![r] = k]
    /\ sawUp' = IF k = "health" /\ up THEN sawUp \cup {r} ELSE sawUp
    /\ UNCHANGED <<process, up, second, gone, late, answer>>
    /\ Keep

\* Mutant: the health check takes a connection and asks PostgreSQL nothing.
AcquireIsEnough(r) ==
    /\ pc[r] = "waiting"
    /\ \E c \in Free :
        IF kind[r] = "health"
        THEN /\ pc' = [pc EXCEPT ![r] = "done"]
             /\ answer' = [answer EXCEPT ![r] = "ok"]
             /\ Keep
        ELSE /\ pc' = [pc EXCEPT ![r] = "running"]
             /\ conn' = [conn EXCEPT ![r] = c]
             /\ taken' = taken \cup {c}
             /\ UNCHANGED <<answer, closing>>
    /\ UNCHANGED <<process, up, kind, second, gone, late, sawUp>>

\* Acquire.  One that is cancelled as a connection comes free may get it.
Acquire(r) ==
    /\ pc[r] = "waiting"
    /\ \E c \in Free :
        /\ conn' = [conn EXCEPT ![r] = c]
        /\ taken' = taken \cup {c}
    /\ pc' = [pc EXCEPT ![r] = "running"]
    /\ UNCHANGED <<process, up, kind, second, gone, late, sawUp, answer, closing>>

\* The handler writes its answer; cancel() stops the timer.
End(r, a) ==
    /\ pc' = [pc EXCEPT ![r] = "done"]
    /\ answer' = [answer EXCEPT ![r] = a]
    /\ second' = second \ {r}
    /\ gone' = gone \ {r}
    /\ late' = late \ {r}
    /\ UNCHANGED <<process, up, kind, sawUp>>

GivesUp(r) ==
    /\ pc[r] = "waiting"
    /\ Cancelled(r)
    /\ End(r, "error")
    /\ Keep

\* QueryRow(...).Scan, Exec or Ping: the last statement of the handler.
Completes(r) ==
    /\ pc[r] = "running" /\ up
    /\ kind[r] \in {"login", "health", "single"} \/ r \in second
    /\ End(r, "ok")
    /\ GiveBack(r)

\* GetByID of Update and Delete: the satellite is not there, or not theirs.
CheckEnds(r) ==
    /\ pc[r] = "running" /\ up
    /\ kind[r] = "pair" /\ r \notin second
    /\ End(r, "ok")
    /\ GiveBack(r)

\* Mutant: the connection of the check is kept for the write, which waits for
\* another.
CheckPassesHolding(r) ==
    /\ pc[r] = "running" /\ up
    /\ kind[r] = "pair" /\ r \notin second
    /\ pc' = [pc EXCEPT ![r] = "waiting"]
    /\ second' = second \cup {r}
    /\ Keep
    /\ UNCHANGED <<process, up, kind, gone, late, sawUp, answer>>

\* GetByID of Update and Delete: on to the write, which acquires again.
CheckPasses(r) ==
    /\ pc[r] = "running" /\ up
    /\ kind[r] = "pair" /\ r \notin second
    /\ pc' = [pc EXCEPT ![r] = "waiting"]
    /\ second' = second \cup {r}
    /\ GiveBack(r)
    /\ UNCHANGED <<process, up, kind, gone, late, sawUp, answer>>

\* Query returns: the rows are read from the connection.
RowsOpen(r) ==
    /\ pc[r] = "running" /\ up
    /\ kind[r] = "list"
    /\ pc' = [pc EXCEPT ![r] = "reading"]
    /\ Keep
    /\ UNCHANGED <<process, up, kind, second, gone, late, sawUp, answer>>

\* Next is false: all rows are read.
RowsRead(r) ==
    /\ pc[r] = "reading" /\ up
    /\ End(r, "ok")
    /\ GiveBack(r)

\* Mutant: a row that cannot be read ends List with its rows left open, as code
\* that parses the rows itself and forgets the Close would.
ScanFailsOpen(r) ==
    /\ pc[r] = "reading" /\ up
    /\ End(r, "error")
    /\ conn' = [conn EXCEPT ![r] = NULL]
    /\ UNCHANGED books

\* Scan fails on a row: pgx closes the rows, and so does the deferred Close.
ScanFails(r) ==
    /\ pc[r] = "reading" /\ up
    /\ End(r, "error")
    /\ GiveBack(r)

\* PostgreSQL answers with an error, or the connection breaks.
StatementFails(r) ==
    /\ pc[r] \in {"running", "reading"}
    /\ End(r, "error")
    /\ GiveBack(r) \/ Discard(r)

\* The context ends while PostgreSQL is working.
Interrupted(r) ==
    /\ pc[r] \in {"running", "reading"}
    /\ Cancelled(r)
    /\ End(r, "error")
    /\ Discard(r)

Release(r) ==
    /\ pc[r] = "done"
    /\ pc' = [pc EXCEPT ![r] = "idle"]
    /\ kind' = [kind EXCEPT ![r] = NULL]
    /\ answer' = [answer EXCEPT ![r] = NULL]
    /\ sawUp' = sawUp \ {r}
    /\ UNCHANGED <<process, up, second, gone, late>>
    /\ Keep

-----------------------------------------------------------------------------

PostgresGoes ==
    /\ up
    /\ up' = FALSE
    /\ UNCHANGED <<process, pc, kind, second, gone, late, sawUp, answer>>
    /\ Keep

PostgresComes ==
    /\ ~up
    /\ up' = TRUE
    /\ met' = TRUE
    /\ sawUp' = sawUp \cup {r \in Slots : kind[r] = "health" /\ Active(r)}
    /\ UNCHANGED <<phase, cfg, pc, kind, second, gone, late, answer>>
    /\ Keep

\* What PostgreSQL, or the network on its behalf, does for request r.
Outcome(r) ==
    \/ Completes(r) \/ CheckEnds(r) \/ CheckPasses(r)
    \/ RowsOpen(r) \/ RowsRead(r) \/ ScanFails(r) \/ StatementFails(r)

Next ==
    \/ \E e \in Environments : Start(e)
    \/ Connected \/ Stop
    \/ PostgresGoes \/ PostgresComes
    \/ \E c \in Conns : Replaced(c)
    \/ \E r \in Slots :
        \/ \E k \in Kinds : Arrive(r, k)
        \/ ClientLeaves(r) \/ TimeIsUp(r)
        \/ Acquire(r) \/ GivesUp(r) \/ Interrupted(r) \/ Outcome(r)
        \/ Release(r)

Spec == Init /\ [][Next]_vars

(***************************************************************************)
(* The process runs, its timers fire, contexts are obeyed, and pgxpool     *)
(* serves waiters in turn and replaces what it closes.  Nothing is assumed *)
(* of PostgreSQL or of the clients.                                        *)
(***************************************************************************)
Fairness ==
    /\ \A c \in Conns : WF_vars(Replaced(c))
    /\ \A r \in Slots :
        /\ WF_vars(TimeIsUp(r)) /\ WF_vars(GivesUp(r)) /\ WF_vars(Interrupted(r))
        /\ SF_vars(Acquire(r))

FairSpec == Spec /\ Fairness

-----------------------------------------------------------------------------
(* Correctness. *)

Config == [secret: Text, issuer: Text, audience: Text, dburl: {"garbled", "fine"}]

\* The types of the variables.
TypeOK ==
    /\ phase \in {"down", "connecting", "serving"}
    /\ cfg \in Config \cup {NULL}
    /\ up \in BOOLEAN
    /\ met \in BOOLEAN
    /\ pc \in [Slots -> {"idle", "waiting", "running", "reading", "done"}]
    /\ kind \in [Slots -> Kinds \cup {NULL}]
    /\ second \subseteq Slots
    /\ conn \in [Slots -> Conns \cup {NULL}]
    /\ gone \subseteq Slots
    /\ late \subseteq Slots
    /\ sawUp \subseteq Slots
    /\ answer \in [Slots -> {"ok", "error", NULL}]
    /\ taken \subseteq Conns
    /\ closing \subseteq Conns

\* The pool loses no connection and lends none twice: one that is out is in
\* the hands of exactly one handler, which is at a statement.  So no handler
\* waits for a connection while it holds one.
NoLeak ==
    /\ \A c \in taken : \E r \in Slots : conn[r] = c
    /\ \A q, r \in Slots : conn[q] # NULL /\ conn[q] = conn[r] => q = r
    /\ \A r \in Slots :
        /\ conn[r] # NULL => conn[r] \in taken \ closing
        /\ conn[r] # NULL <=> pc[r] \in {"running", "reading"}

\* The process listens only with a signing secret, an issuer and an audience
\* that say something, and only if PostgreSQL was there since it started.
ServesOnlyReady ==
    phase = "serving" =>
        /\ cfg.secret = "fine"
        /\ cfg.issuer \notin {"", "blank"} /\ cfg.audience \notin {"", "blank"}
        /\ met

\* README.md:415, "Health endpoints should verify dependencies": a health
\* check that says "connected" is one during which PostgreSQL was there.
HealthIsHonest ==
    \A r \in Slots : (kind[r] = "health" /\ answer[r] = "ok") => r \in sawUp

\* A health check is answered, however long PostgreSQL stays silent and
\* whoever holds the connections.
HealthAnswers ==
    \A r \in Slots : (Active(r) /\ kind[r] = "health") ~> ~Active(r)

\* If PostgreSQL answers every statement or its connection breaks, every
\* request ends: no set of handlers waits for each other's connections.
EveryRequestEnds ==
    (\A r \in Slots : WF_vars(Outcome(r))) => \A r \in Slots : Active(r) ~> ~Active(r)

\* If every client gives up some time, a pool that stays exhausted is in the
\* hands of logins: their queries are the only ones the client's going does
\* not end.
OnlyLoginsExhaust ==
    (\A r \in Slots : WF_vars(ClientLeaves(r))) =>
        \/ []<>(Free # {})
        \/ <>[](\A r \in Slots : conn[r] # NULL => kind[r] = "login")
=============================================================================
