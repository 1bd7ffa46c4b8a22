------------------------------ MODULE Fleetctl ------------------------------
(***************************************************************************)
(* fleetctl: commands that run side by side, the configuration file they   *)
(* share and the Control Planes they talk to.                              *)
(*                                                                         *)
(*   login:         begun -> keyed -> client -> waiting -> answered        *)
(*                        -> reloaded -> truncated -> ok                   *)
(*   user create:   begun -> client -> keyed -> waiting -> answered -> ok  *)
(*   delete:        begun -> client -> asking -> owner                     *)
(*                        -> waiting -> answered -> ok                     *)
(*   others:        begun -> client -> waiting -> answered -> ok           *)
(*                                                                         *)
(* Any of them may end in "failed" on the way.  The user may stop a        *)
(* command; its request may reach the server all the same.  A token is     *)
(* named after the server that issued it.                                  *)
(***************************************************************************)
EXTENDS Naturals, SatelliteContract

CONSTANTS
    Procs,          \* command processes
    Servers,
    DefaultServer,
    Ids,            \* satellite ids
    BadId,          \* an argument uuid.Parse refuses
    NULL,           \* no flag, no token, no file
    Empty,          \* a file without lines
    SeedFile,       \* the configuration file at the start
    Seed,           \* Seed[v][i] : the satellites at the start
    Commands,       \* the commands users give
    MaxRuns         \* bound on the commands given

\* Commands that write nothing to the file and end with one answer.
Simple == {"health", "create", "get", "list", "user create", "user list"}

\* A command line.  server is the --server flag, valid whether the role of
\* user create is one of the two.
Command == [op: Simple \cup {"login", "delete"}, server: Servers \cup {NULL},
            id: Ids \cup {BadId, NULL}, valid: BOOLEAN]

Config == [server: Servers, token: Servers \cup {NULL}]

\* A request on its way.  call is the command's, or the "get" by which delete
\* asks who owns the satellite.
Message == [call: Simple \cup {"login", "delete"}, server: Servers,
            token: Servers \cup {NULL}, id: Ids \cup {NULL}]

Answer == [code: {200, 201, 204, 401, 403, 404, 500}, token: Servers \cup {NULL},
           operator: BOOLEAN]

ASSUME FleetctlAssumption ==
    /\ MaxRuns \in Nat
    /\ DefaultServer \in Servers
    /\ NULL \notin Servers \cup Ids \cup Config \cup Command \cup Message \cup Answer
    /\ BadId \notin Ids \cup {NULL}
    /\ Empty \notin Config \cup {NULL}
    /\ SeedFile \in {NULL} \cup {[server |-> v, token |-> v] : v \in Servers}
    /\ Seed \in [Servers -> [Ids -> Standing]]
    /\ Commands \subseteq Command
    /\ \A c \in Commands : (c.op \in {"get", "delete"}) <=> (c.id # NULL)

VARIABLES
    file,        \* ~/.fleetctl/config.yaml: a Config, Empty or NULL (absent)
    sats,        \* sats[v][i] : satellite i of server v
    pc,          \* pc[p]      : how far the command of process p has come
    cmd,         \* cmd[p]     : its command line
    cfg,         \* cfg[p]     : the configuration its client was made with
    wire,        \* wire[p]    : its request that is on its way
    ans,         \* ans[p]     : the last answer
    out,         \* out[p]     : what login is about to save
    runs,        \* how many commands were given
    crossed,     \* history: processes that hold the outcome of a crossed login
    fileCrossed  \* history: so does the file

vars == <<file, sats, pc, cmd, cfg, wire, ans, out, runs, crossed, fileCrossed>>

Ended == {"idle", "ok", "failed"}
Running(p) == pc[p] \notin Ended

Init ==
    /\ file = SeedFile
    /\ sats = Seed
    /\ pc = [p \in Procs |-> "idle"]
    /\ cmd = [p \in Procs |-> NULL]
    /\ cfg = [p \in Procs |-> NULL]
    /\ wire = [p \in Procs |-> NULL]
    /\ ans = [p \in Procs |-> NULL]
    /\ out = [p \in Procs |-> NULL]
    /\ runs = 0
    /\ crossed = {}
    /\ fileCrossed = FALSE

Begin(p, c) ==
    /\ ~Running(p) /\ wire[p] = NULL
    /\ runs < MaxRuns
    /\ runs' = runs + 1
    /\ pc' = [pc EXCEPT ![p] = "begun"]
    /\ cmd' = [cmd EXCEPT ![p] = c]
    /\ cfg' = [cfg EXCEPT ![p] = NULL]
    /\ ans' = [ans EXCEPT ![p] = NULL]
    /\ out' = [out EXCEPT ![p] = NULL]
    /\ crossed' = crossed \ {p}
    /\ UNCHANGED <<file, sats, wire, fileCrossed>>

-----------------------------------------------------------------------------
(* Options. *)

\* Mutant: no default.
LoadNoDefault(c, f) ==
    LET g == IF f \in {NULL, Empty} THEN [server |-> NULL, token |-> NULL] ELSE f
    IN  IF c.server = NULL THEN g ELSE [g EXCEPT !.server = c.server]

\* Load: an absent file and one without lines give the default; the flag
\* replaces the server.
Load(c, f) ==
    LET g == IF f \in {NULL, Empty} THEN [server |-> DefaultServer, token |-> NULL] ELSE f
    IN  IF c.server = NULL THEN g ELSE [g EXCEPT !.server = c.server]

\* A login that has its token.
Accepted(p) ==
    /\ pc[p] = "answered" /\ cmd[p].op = "login"
    /\ ans[p].code = 200 /\ ans[p].token # NULL

RequireAuth(c) == c.op \notin {"login", "health"}

\* A stage of p's own, and all that is left alone by it.
Goto(p, stage) ==
    /\ pc' = [pc EXCEPT ![p] = stage]
    /\ UNCHANGED <<file, sats, cmd, wire, runs, fileCrossed>>

Fail(p) == Goto(p, "failed") /\ UNCHANGED <<cfg, ans, out, crossed>>

\* uuid.Parse of get and delete, the role of user create.
BadArguments(p) == cmd[p].id = BadId \/ (cmd[p].op = "user create" /\ ~cmd[p].valid)

RejectArguments(p) ==
    /\ pc[p] = "begun"
    /\ BadArguments(p)
    /\ Fail(p)

Prompting(p) ==
    \/ pc[p] = "begun" /\ cmd[p].op = "login"
    \/ pc[p] = "client" /\ cmd[p].op = "user create"

ReadPassword(p) ==
    /\ Prompting(p)
    /\ Goto(p, "keyed") /\ UNCHANGED <<cfg, ans, out, crossed>>

\* Not a terminal, an empty password, an error of the terminal.
PasswordRefused(p) == Prompting(p) /\ Fail(p)

AtClient(p) ==
    \/ pc[p] = "keyed" /\ cmd[p].op = "login"
    \/ pc[p] = "begun" /\ cmd[p].op # "login" /\ ~BadArguments(p)

Client(p) ==
    LET c == Load(cmd[p], file)
    IN  /\ AtClient(p)
        /\ RequireAuth(cmd[p]) => c.token # NULL
        /\ cfg' = [cfg EXCEPT ![p] = c]
        /\ crossed' = IF fileCrossed THEN crossed \cup {p} ELSE crossed
        /\ Goto(p, "client") /\ UNCHANGED <<ans, out>>

\* "not logged in; run fleetctl login"
NotLoggedIn(p) ==
    /\ AtClient(p)
    /\ RequireAuth(cmd[p]) /\ Load(cmd[p], file).token = NULL
    /\ Fail(p)

\* The file cannot be read, at the first or the second Load.
LoadFails(p) ==
    /\ AtClient(p) \/ Accepted(p)
    /\ Fail(p)

-----------------------------------------------------------------------------
(* Requests. *)

\* The token goes with every request but login's.
Send(p, call, stage) ==
    /\ wire' = [wire EXCEPT ![p] =
          [call |-> call, server |-> cfg[p].server,
           token |-> IF call = "login" THEN NULL ELSE cfg[p].token, id |-> cmd[p].id]]
    /\ pc' = [pc EXCEPT ![p] = stage]
    /\ ans' = [ans EXCEPT ![p] = NULL]
    /\ UNCHANGED <<file, sats, cmd, cfg, out, runs, crossed, fileCrossed>>

Request(p) ==
    /\ \/ pc[p] = "client" /\ cmd[p].op \notin {"delete", "user create"}
       \/ pc[p] = "keyed" /\ cmd[p].op = "user create"
    /\ Send(p, cmd[p].op, "waiting")

AskOwner(p) ==
    /\ pc[p] = "client" /\ cmd[p].op = "delete"
    /\ Send(p, "get", "asking")

Waiting(p) == pc[p] \in {"asking", "waiting"}

\* Mutant: no timeout, only an error of the connection ends the wait.
NoAnswerNever(p) == Waiting(p) /\ wire[p] # NULL /\ Fail(p)

\* DefaultHTTPTimeout, or an error of the connection.
NoAnswer(p) == Waiting(p) /\ Fail(p)

-----------------------------------------------------------------------------
(* The Control Planes and the network. *)

Reply(code, token, operator) == [code |-> code, token |-> token, operator |-> operator]
Plain(code) == Reply(code, NULL, FALSE)

\* The token is as good as the server's name: only w.server accepts it.
LoginAnswer(w, a) == w.call = "login" /\ a \in {Reply(200, w.server, FALSE), Plain(401)}

HealthAnswer(w, a) == w.call = "health" /\ a = Plain(200)

\* The middleware before every other route: also of a token that has expired.
Unauthorized(w, a) == w.call \notin {"login", "health"} /\ a = Plain(401)

\* Behind the middleware, which has accepted the token.  403: not an admin's.
UserAnswer(w, a) ==
    /\ w.token = w.server
    /\ \/ w.call = "user list" /\ a \in {Plain(200), Plain(403)}
       \/ w.call = "user create" /\ a \in {Plain(201), Plain(403)}

\* What server w.server may answer to w without looking at a satellite.  500
\* stands for every status no command expects.
Answers(w, a) ==
    \/ a = Plain(500)
    \/ HealthAnswer(w, a) \/ LoginAnswer(w, a)
    \/ Unauthorized(w, a) \/ UserAnswer(w, a)

\* That, or what the contract of the satellite routes allows.
Served(w, a) ==
    \/ Answers(w, a) /\ UNCHANGED sats
    \/ /\ w.token = w.server
       /\ \E o \in Outcomes(w.call, w.id, sats[w.server]) :
            a = Reply(o.code, NULL, o.operator) /\ sats' = [sats EXCEPT ![w.server] = o.sats]

\* The request arrives, and its answer if the command still waits for it.
Serve(p) ==
    /\ wire[p] # NULL
    /\ \E a \in Answer :
        /\ Served(wire[p], a)
        /\ ans' = IF Waiting(p) THEN [ans EXCEPT ![p] = a] ELSE ans
    /\ pc' = [pc EXCEPT ![p] = IF @ = "asking" THEN "owner" ELSE IF @ = "waiting" THEN "answered" ELSE @]
    /\ wire' = [wire EXCEPT ![p] = NULL]
    /\ UNCHANGED <<file, cmd, cfg, out, runs, crossed, fileCrossed>>

\* The answer is lost.
ServeUnheard(p) ==
    /\ wire[p] # NULL
    /\ \E a \in Answer : Served(wire[p], a)
    /\ wire' = [wire EXCEPT ![p] = NULL]
    /\ UNCHANGED <<file, pc, cmd, cfg, ans, out, runs, crossed, fileCrossed>>

RequestLost(p) ==
    /\ wire[p] # NULL
    /\ wire' = [wire EXCEPT ![p] = NULL]
    /\ UNCHANGED <<file, sats, pc, cmd, cfg, ans, out, runs, crossed, fileCrossed>>

\* Other users of the API, requests answered with an error that take effect
\* later, the operator and SQL: a satellite goes its way.
Elsewhere(v, i) ==
    /\ \E new \in Standing :
        /\ new # sats[v][i] /\ Lives(sats[v][i], new)
        /\ sats' = [sats EXCEPT ![v][i] = new]
    /\ UNCHANGED <<file, pc, cmd, cfg, wire, ans, out, runs, crossed, fileCrossed>>

-----------------------------------------------------------------------------
(* Answers. *)

\* Mutant: delete does not look at the status of its DELETE.
StatusOKUnchecked(p) ==
    \/ cmd[p].op = "delete"
    \/ ans[p].code = IF cmd[p].op \in {"create", "user create"} THEN 201 ELSE 200

\* StatusError returns nil: the answer has the status the command expects.
StatusOK(p) ==
    ans[p].code = IF cmd[p].op \in {"create", "user create"} THEN 201
                  ELSE IF cmd[p].op = "delete" THEN 204 ELSE 200

\* Also "login response did not contain a token", which no Control Plane sends.
StatusError(p) ==
    /\ pc[p] = "answered"
    /\ ~StatusOK(p) \/ (cmd[p].op = "login" /\ ans[p].token = NULL)
    /\ Fail(p)

\* Of every command but login; a JSON or "Satellite deleted" to stdout.
Succeed(p) ==
    /\ pc[p] = "answered" /\ cmd[p].op # "login"
    /\ StatusOK(p)
    /\ Goto(p, "ok") /\ UNCHANGED <<cfg, ans, out, crossed>>

OutputFails(p) ==
    /\ pc[p] = "answered" /\ cmd[p].op \in Simple
    /\ StatusOK(p)
    /\ Fail(p)

\* Mutant: delete trusts that the satellite is there, whoever owns it.
DeleteOwnerUnasked(p) ==
    /\ pc[p] = "owner"
    /\ ans[p].code = 200
    /\ Send(p, "delete", "waiting")

\* Not said to be the operator's.  An answer without a body or a managed_by
\* would be taken so too; no Control Plane of this repository sends one.
DeleteOwner(p) ==
    /\ pc[p] = "owner"
    /\ ans[p].code = 200 /\ ~ans[p].operator
    /\ Send(p, "delete", "waiting")

\* Not there, not allowed, or "managed by the Operator".
DeleteRefused(p) ==
    /\ pc[p] = "owner"
    /\ ans[p].code # 200 \/ ans[p].operator
    /\ Fail(p)

\* The file names another server now than at the first Load: a login's save
\* came in between.
Crosses(p) == Load(cmd[p], file).server # cfg[p].server

\* Mutant: the flag is for the request, not for the file.
ReloadWithoutFlag(p) ==
    /\ Accepted(p)
    /\ out' = [out EXCEPT ![p] =
          [Load([cmd[p] EXCEPT !.server = NULL], file) EXCEPT !.token = ans[p].token]]
    /\ crossed' = IF Crosses(p) THEN crossed \cup {p} ELSE crossed \ {p}
    /\ Goto(p, "reloaded") /\ UNCHANGED <<cfg, ans>>

\* login reads the file again, for the server, and puts its token in.
Reload(p) ==
    /\ Accepted(p)
    /\ out' = [out EXCEPT ![p] = [Load(cmd[p], file) EXCEPT !.token = ans[p].token]]
    /\ crossed' = IF Crosses(p) THEN crossed \cup {p} ELSE crossed \ {p}
    /\ Goto(p, "reloaded") /\ UNCHANGED <<cfg, ans>>

\* os.WriteFile: open and truncate, then write.
Truncate(p) ==
    /\ pc[p] = "reloaded"
    /\ file' = Empty /\ fileCrossed' = FALSE
    /\ pc' = [pc EXCEPT ![p] = "truncated"]
    /\ UNCHANGED <<sats, cmd, cfg, wire, ans, out, runs, crossed>>

\* If another login has written since the truncation, the end of its file may
\* stay behind; it is a piece of a token, without a colon, which Load skips.
Write(p) ==
    /\ pc[p] = "truncated"
    /\ file' = out[p] /\ fileCrossed' = (p \in crossed)
    /\ pc' = [pc EXCEPT ![p] = "ok"]
    /\ UNCHANGED <<sats, cmd, cfg, wire, ans, out, runs, crossed>>

\* No directory, no permission, no space.
SaveFails(p) == pc[p] \in {"reloaded", "truncated"} /\ Fail(p)

\* The user stops the command, anywhere.
Interrupt(p) == Running(p) /\ Fail(p)

-----------------------------------------------------------------------------

Step(p) ==
    \/ RejectArguments(p) \/ ReadPassword(p) \/ PasswordRefused(p)
    \/ Client(p) \/ NotLoggedIn(p) \/ LoadFails(p)
    \/ Request(p) \/ AskOwner(p) \/ NoAnswer(p)
    \/ StatusError(p) \/ Succeed(p) \/ OutputFails(p)
    \/ DeleteOwner(p) \/ DeleteRefused(p)
    \/ Reload(p) \/ Truncate(p) \/ Write(p) \/ SaveFails(p)

Next ==
    \/ \E p \in Procs :
        \/ \E c \in Commands : Begin(p, c)
        \/ Step(p) \/ Interrupt(p)
        \/ Serve(p) \/ ServeUnheard(p) \/ RequestLost(p)
    \/ \E v \in Servers, i \in Ids : Elsewhere(v, i)

Spec == Init /\ [][Next]_vars

\* A process runs, its user answers the password prompt, timers expire.
\* Nothing is assumed of the servers and the network.
FairSpec == Spec /\ \A p \in Procs : WF_vars(Step(p))

-----------------------------------------------------------------------------
(* Correctness. *)

Stages == Ended \cup {"begun", "keyed", "client", "asking", "owner", "waiting",
                      "answered", "reloaded", "truncated"}

\* The types of the variables.
TypeOK ==
    /\ file \in Config \cup {Empty, NULL}
    /\ sats \in [Servers -> [Ids -> Standing]]
    /\ pc \in [Procs -> Stages]
    /\ cmd \in [Procs -> Command \cup {NULL}]
    /\ cfg \in [Procs -> Config \cup {NULL}]
    /\ wire \in [Procs -> Message \cup {NULL}]
    /\ ans \in [Procs -> Answer \cup {NULL}]
    /\ out \in [Procs -> Config \cup {NULL}]
    /\ runs \in 0..MaxRuns
    /\ crossed \subseteq Procs
    /\ fileCrossed \in BOOLEAN

\* A command given without --server sends the token in the file to the server
\* that issued it, through logins that switch servers, run side by side, fail,
\* are stopped or leave a truncated file.  The one exception: the login that
\* saved that file found another server in it at its second Load than at its
\* first (root.go:71).  The next login that is not crossed mends the file.
TokensStayHome ==
    \A p \in Procs :
        (wire[p] # NULL /\ cmd[p].server = NULL /\ p \notin crossed)
        => wire[p].token \in {NULL, wire[p].server}

\* "DELETE request must not be sent for Operator-managed satellite"
\* (satellite_test.go:39), although the answer that says who owns it is old by
\* the time the DELETE goes out, and the DELETE may arrive much later.
OwnedUntouched ==
    \A p \in Procs :
        (wire[p] # NULL /\ wire[p].call = "delete")
        => sats[wire[p].server][wire[p].id] \in {"manual", "gone"}

\* delete reports success only for a satellite that existed and is gone.
DeletedMeansGone ==
    \A p \in Procs :
        (pc[p] = "ok" /\ cmd[p].op = "delete") => sats[cfg[p].server][cmd[p].id] = "gone"

\* The parts of the inductive invariant.  What a stage says of its command
\* and its client,
StageOK(p) ==
    /\ pc[p] # "idle" => cmd[p] \in Commands
    /\ (pc[p] \notin Ended \cup {"begun"} /\ cmd[p].op \in {"get", "delete"}) => cmd[p].id \in Ids
    /\ pc[p] \in {"client", "asking", "owner", "waiting", "answered", "reloaded", "truncated", "ok"}
         => cfg[p] \in Config
    /\ (pc[p] = "keyed" /\ cmd[p].op # "login") => cfg[p] \in Config
    /\ pc[p] \in {"asking", "owner"} => cmd[p].op = "delete"
    /\ pc[p] \in {"reloaded", "truncated"} => cmd[p].op = "login" /\ out[p] \in Config
    /\ pc[p] \in {"owner", "answered"} => ans[p] \in Answer

\* the request on the wire, which is the command's even when it has ended,
WireOK(p) ==
    wire[p] # NULL =>
        /\ pc[p] \in {"asking", "waiting", "failed"} /\ cfg[p] \in Config
        /\ wire[p].server = cfg[p].server /\ wire[p].id = cmd[p].id
        /\ wire[p].token = IF cmd[p].op = "login" THEN NULL ELSE cfg[p].token
        /\ wire[p].call = cmd[p].op \/ (wire[p].call = "get" /\ cmd[p].op = "delete")
        /\ pc[p] = "waiting" => wire[p].call = cmd[p].op
        /\ pc[p] = "asking" => wire[p].call = "get"
        /\ wire[p].call \in {"get", "delete"} => cmd[p].id \in Ids

\* the satellite delete is about,
Deletable(s, p) == s[cfg[p].server][cmd[p].id] \in {"manual", "gone"}
Deleted(s, p) == s[cfg[p].server][cmd[p].id] = "gone"

DeleteOK(p) ==
    (pc[p] # "idle" /\ cmd[p].op = "delete") =>
        /\ (pc[p] = "owner" /\ ans[p].code = 200 /\ ~ans[p].operator) => Deletable(sats, p)
        /\ pc[p] \in {"waiting", "answered"} => Deletable(sats, p)
        /\ (wire[p] # NULL /\ wire[p].call = "delete") => Deletable(sats, p)
        /\ (pc[p] = "answered" /\ ans[p].code = 204) => Deleted(sats, p)
        /\ pc[p] = "ok" => cmd[p].id \in Ids /\ Deleted(sats, p)

\* and whose token is where, crossed logins apart.
Home(c) == c.token \in {NULL, c.server}

CarriedOK(p) ==
    /\ (pc[p] = "answered" /\ cmd[p].op = "login")
         => ans[p].token \in {NULL, cfg[p].server}
    /\ (pc[p] \in {"reloaded", "truncated"} /\ p \notin crossed) => Home(out[p])
    /\ (pc[p] # "idle" /\ cmd[p].op # "login" /\ cmd[p].server = NULL /\ cfg[p] # NULL
            /\ p \notin crossed)
         => Home(cfg[p])

FileOK == (file \notin {NULL, Empty} /\ ~fileCrossed) => Home(file)

Inv ==
    /\ TypeOK
    /\ FileOK
    /\ \A p \in Procs : StageOK(p) /\ WireOK(p) /\ DeleteOK(p) /\ CarriedOK(p)

\* Every command ends, whatever the servers and the network do.
Terminates == \A p \in Procs : pc[p] = "begun" ~> pc[p] \in {"ok", "failed"}
=============================================================================
