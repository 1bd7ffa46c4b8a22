---------------------------- MODULE AccessControl ---------------------------
(***************************************************************************)
(* Who may do what on the Control Plane: the users table, login, the JWTs  *)
(* it issues, the middleware that turns a JWT into a principal and the     *)
(* admin-only user routes.  Several API instances share PostgreSQL and the *)
(* signing secret and nothing else; each has its own clock.                *)
(*                                                                         *)
(*   login:   received -> found -> done                                    *)
(*   others:  received -> admitted -> done                                 *)
(*                                                                         *)
(* A user insert or delete whose answer is lost leaves its slot "detached" *)
(* while PostgreSQL may still commit it.                                   *)
(***************************************************************************)
EXTENDS Naturals, FiniteSets, Principal

CONSTANTS
    Slots,          \* concurrent requests
    Instances,      \* API processes behind the load balancer
    Skew,           \* Skew[i] : how far i's clock is ahead of the slowest
    MaxSkew,
    TTL,            \* HumanTokenTTL
    MaxTime,        \* bound on real time
    MaxTokens,      \* bound on the tokens handed out
    UserIds, Usernames, Passwords,
    LongPassword,   \* a password bcrypt refuses (over 72 bytes)
    BadId,          \* a path parameter that is not a UUID
    SeedUsers,      \* rows put into the users table by SQL
    Foreign,        \* tokens from elsewhere: other deployments, older releases
    Forms           \* the requests clients make, token apart

Time == 0..MaxTime

\* users.role is plain TEXT: the API writes two values, SQL any.
RoleText == {"admin", "viewer", "other"}

UserRow == [username: Usernames, password: Passwords, role: RoleText]

\* A request.  username = NULL is a body that does not decode; role = NULL a
\* create request that leaves the role out.
Form ==
    {f \in [op: {"login", "create", "list", "delete", "satellites"},
            username: Usernames \cup {NULL}, password: Passwords \cup {NULL},
            role: RoleText \cup {NULL}, id: UserIds \cup {BadId, NULL}] :
        /\ f.username # NULL => f.password # NULL
        /\ f.op = "delete" => f.id # NULL}

\* The claims of a JWT.  signed, issuer and audience say whether it carries
\* this deployment's HS256 signature, issuer and audience.  at is the real
\* time of issue, which no code reads.
Token == [signed: BOOLEAN, issuer: BOOLEAN, audience: BOOLEAN,
          kind: {"human", "operator", "agent", NULL},
          sub: UserIds \cup {NULL}, role: RoleText \cup {NULL},
          iat: Nat \cup {NULL}, exp: Nat \cup {NULL}, at: Time \cup {NULL}]

Ours(t) == t.signed /\ t.issuer /\ t.audience

Job == [form: Form, tok: Token \cup {NULL}, inst: Instances]

\* What login reads of a row, and the principal the middleware makes.
Found == [id: UserIds, password: Passwords, role: RoleText]
Human == [kind: {"human"}, subject: UserIds, role: {"admin", "viewer"}, satelliteID: {NULL}]

\* History of one id.
Entry == [role: RoleText, deletedAt: Time \cup {NULL}]

ASSUME AccessAssumption ==
    /\ MaxTime \in Nat /\ MaxTokens \in Nat /\ TTL \in Nat /\ MaxSkew \in Nat
    /\ Skew \in [Instances -> 0..MaxSkew]
    /\ Forms \subseteq Form
    /\ Foreign \subseteq Token /\ \A t \in Foreign : ~Ours(t)
    /\ SeedUsers \in [UserIds -> UserRow \cup {NULL}]
    /\ NULL \notin UserIds \cup Usernames \cup Passwords \cup RoleText \cup Nat
    /\ NULL \notin UserRow \cup Token \cup Human \cup Entry
    /\ BadId \notin UserIds \cup {NULL}
    /\ LongPassword \in Passwords

VARIABLES
    users,    \* the users table
    ledger,   \* history: who was ever registered, as what, deleted when
    now,      \* real time
    tokens,   \* the tokens login has handed out
    pc,       \* pc[s]  : how far the request in slot s has come
    job,      \* job[s] : its form, its token and the instance that serves it
    ctx,      \* ctx[s] : the row login read, or the principal in the context
    resp      \* resp[s]: its status code

vars == <<users, ledger, now, tokens, pc, job, ctx, resp>>

Registered(row) == [role |-> row.role, deletedAt |-> NULL]

Init ==
    /\ users = SeedUsers
    /\ ledger = [u \in UserIds |-> IF SeedUsers[u] = NULL THEN NULL ELSE Registered(SeedUsers[u])]
    /\ now = 0
    /\ tokens = {}
    /\ pc = [s \in Slots |-> "idle"]
    /\ job = [s \in Slots |-> NULL]
    /\ ctx = [s \in Slots |-> NULL]
    /\ resp = [s \in Slots |-> NULL]

-----------------------------------------------------------------------------
(* Tokens. *)

Clock(i) == now + Skew[i]

\* GenerateHumanToken, for a principal that is valid.
GenerateHumanToken(subject, role, clock) ==
    [signed |-> TRUE, issuer |-> TRUE, audience |-> TRUE, kind |-> "human",
     sub |-> subject, role |-> role, iat |-> clock, exp |-> clock + TTL, at |-> now]

\* Mutant: a token is accepted at the very instant it expires.
TimelyClaimsInclusive(t, clock) ==
    /\ t.exp # NULL /\ clock <= t.exp
    /\ t.iat # NULL => t.iat <= clock

\* Mutant: a token is refused at the very instant of its issue.
TimelyClaimsStrict(t, clock) ==
    /\ t.exp # NULL /\ clock < t.exp
    /\ t.iat # NULL => t.iat < clock

\* The registered claims: exp required, no leeway on either time.
TimelyClaims(t, clock) ==
    /\ t.exp # NULL /\ clock < t.exp
    /\ t.iat # NULL => t.iat <= clock

\* Claims.Validate: nil error or not.
ClaimsValid(t) ==
    /\ t.iat # NULL
    /\ t.kind = "human"
    /\ NewHumanPrincipal(t.sub, t.role) # NULL

\* Mutant: signature, issuer and audience are not verified.
ParseUnverified(t, clock) ==
    IF TimelyClaims(t, clock) /\ ClaimsValid(t)
    THEN NewHumanPrincipal(t.sub, t.role)
    ELSE NULL

\* ParseHumanToken: the principal, or NULL.
ParseHumanToken(t, clock) ==
    IF Ours(t) /\ TimelyClaims(t, clock) /\ ClaimsValid(t)
    THEN NewHumanPrincipal(t.sub, t.role)
    ELSE NULL

-----------------------------------------------------------------------------
(* The shape of a step. *)

Receive(s, f, t, i) ==
    /\ pc[s] = "idle"
    /\ f.op = "login" => t = NULL
    /\ pc' = [pc EXCEPT ![s] = "received"]
    /\ job' = [job EXCEPT ![s] = [form |-> f, tok |-> t, inst |-> i]]
    /\ UNCHANGED <<users, ledger, now, tokens, ctx, resp>>

Proceed(s, stage, c) ==
    /\ pc' = [pc EXCEPT ![s] = stage]
    /\ ctx' = [ctx EXCEPT ![s] = c]
    /\ UNCHANGED <<users, ledger, now, tokens, job, resp>>

Finish(s, code) ==
    /\ pc' = [pc EXCEPT ![s] = "done"]
    /\ resp' = IF pc[s] = "detached" THEN resp ELSE [resp EXCEPT ![s] = code]
    /\ UNCHANGED <<now, job, ctx>>

Answered(s, code) == Finish(s, code) /\ UNCHANGED <<users, ledger, tokens>>

At(s, stages, ops) == pc[s] \in stages /\ job[s].form.op \in ops

-----------------------------------------------------------------------------
(* POST /auth/login. *)

LoginMalformed(s) ==
    /\ At(s, {"received"}, {"login"})
    /\ job[s].form.username = NULL
    /\ Answered(s, 400)

LoginFound(s) ==
    /\ At(s, {"received"}, {"login"})
    /\ \E u \in UserIds :
        /\ users[u] # NULL /\ users[u].username = job[s].form.username
        /\ Proceed(s, "found", [id |-> u, password |-> users[u].password, role |-> users[u].role])

LoginUnknown(s) ==
    /\ At(s, {"received"}, {"login"})
    /\ job[s].form.username # NULL
    /\ \A u \in UserIds : users[u] # NULL => users[u].username # job[s].form.username
    /\ Answered(s, 401)

\* Every other error of the query gets the answer of an unknown user.
LoginQueryFails(s) ==
    /\ At(s, {"received"}, {"login"})
    /\ job[s].form.username # NULL
    /\ Answered(s, 401)

LoginWrongPassword(s) ==
    /\ At(s, {"found"}, {"login"})
    /\ ctx[s].password # job[s].form.password
    /\ Answered(s, 401)

LoginNoRole(s) ==
    /\ At(s, {"found"}, {"login"})
    /\ ctx[s].password = job[s].form.password
    /\ NewHumanPrincipal(ctx[s].id, ctx[s].role) = NULL
    /\ Answered(s, 500)

LoginIssue(s) ==
    /\ At(s, {"found"}, {"login"})
    /\ ctx[s].password = job[s].form.password
    /\ NewHumanPrincipal(ctx[s].id, ctx[s].role) # NULL
    /\ tokens' = tokens \cup
          {GenerateHumanToken(ctx[s].id, ctx[s].role, Clock(job[s].inst))}
    /\ Cardinality(tokens') <= MaxTokens
    /\ Finish(s, 200)
    /\ UNCHANGED <<users, ledger>>

-----------------------------------------------------------------------------
(* Middleware and RequireHumanRole. *)

Guarded == {"create", "list", "delete", "satellites"}

\* The principal the middleware of slot s makes now; NULL without a token.
Caller(s) ==
    IF job[s].tok = NULL THEN NULL ELSE ParseHumanToken(job[s].tok, Clock(job[s].inst))

\* Mutant: the user routes lack RequireHumanRole.
AllowedAnyone(s, p) == p # NULL

Allowed(s, p) == job[s].form.op = "satellites" \/ HumanRole(p) = "admin"

Unauthorized(s) ==
    /\ At(s, {"received"}, Guarded)
    /\ Caller(s) = NULL
    /\ Answered(s, 401)

Forbidden(s) ==
    /\ At(s, {"received"}, Guarded)
    /\ Caller(s) # NULL
    /\ ~Allowed(s, Caller(s))
    /\ Answered(s, 403)

\* On /satellites the satellite handlers take over from here.
Admit(s) ==
    /\ At(s, {"received"}, Guarded)
    /\ Caller(s) # NULL
    /\ Allowed(s, Caller(s))
    /\ Proceed(s, "admitted", Caller(s))

-----------------------------------------------------------------------------
(* The user routes. *)

\* The role a create request asks for; "viewer" when it names none.
RoleOf(f) == IF f.role = NULL THEN "viewer" ELSE f.role

\* What the handlers refuse themselves: body, role, path parameter.
Refused(f) ==
    \/ f.op = "create" /\ (f.username = NULL \/ RoleOf(f) \notin {"admin", "viewer"})
    \/ f.op = "delete" /\ f.id = BadId

RefuseUser(s) ==
    /\ At(s, {"admitted"}, {"create", "delete"})
    /\ Refused(job[s].form)
    /\ \E code \in IF job[s].form.op = "delete" THEN {0, 400} ELSE {400} : Answered(s, code)

\* bcrypt's limit and the UNIQUE constraint on username.
Insertable(f) ==
    /\ f.password # LongPassword
    /\ \A u \in UserIds : users[u] # NULL => users[u].username # f.username

CreateUser(s) ==
    LET f == job[s].form
        row == [username |-> f.username, password |-> f.password, role |-> RoleOf(f)]
    IN  /\ At(s, {"admitted", "detached"}, {"create"})
        /\ ~Refused(f)
        /\ Insertable(f)
        /\ \E u \in {v \in UserIds : ledger[v] = NULL} :
            /\ users' = [users EXCEPT ![u] = row]
            /\ ledger' = [ledger EXCEPT ![u] = Registered(row)]
        /\ Finish(s, 201)
        /\ UNCHANGED tokens

CreateUserFails(s) ==
    /\ At(s, {"admitted"}, {"create"})
    /\ ~Refused(job[s].form)
    /\ ~Insertable(job[s].form)
    /\ Answered(s, 500)

ListUsers(s) ==
    /\ At(s, {"admitted"}, {"list"})
    /\ Answered(s, 200)

\* DELETE's row count is ignored; nobody checks who is deleted.
DeleteUser(s) ==
    LET u == job[s].form.id
    IN  /\ At(s, {"admitted", "detached"}, {"delete"})
        /\ ~Refused(job[s].form)
        /\ users' = [users EXCEPT ![u] = NULL]
        /\ ledger' = IF users[u] = NULL THEN ledger
                     ELSE [ledger EXCEPT ![u].deletedAt = now]
        /\ Finish(s, 204)
        /\ UNCHANGED tokens

StatementFails(s) ==
    /\ At(s, {"admitted"}, {"create", "list", "delete"})
    /\ ~Refused(job[s].form)
    /\ Answered(s, 500)

\* An INSERT or DELETE is with PostgreSQL.
InFlight(s) ==
    /\ At(s, {"admitted"}, {"create", "delete"})
    /\ ~Refused(job[s].form)
    /\ job[s].form.op = "create" => job[s].form.password # LongPassword

Abandon(s) ==
    /\ InFlight(s)
    /\ pc' = [pc EXCEPT ![s] = "detached"]
    /\ resp' = [resp EXCEPT ![s] = 500]
    /\ UNCHANGED <<users, ledger, now, tokens, job, ctx>>

-----------------------------------------------------------------------------

Release(s) ==
    /\ pc[s] \in {"done", "detached"} \/ At(s, {"admitted"}, {"satellites"})
    /\ pc' = [pc EXCEPT ![s] = "idle"]
    /\ job' = [job EXCEPT ![s] = NULL]
    /\ ctx' = [ctx EXCEPT ![s] = NULL]
    /\ resp' = [resp EXCEPT ![s] = NULL]
    /\ UNCHANGED <<users, ledger, now, tokens>>

Tick ==
    /\ now < MaxTime
    /\ now' = now + 1
    /\ UNCHANGED <<users, ledger, tokens, pc, job, ctx, resp>>

\* Instance i dies with the requests it serves; of the writes already with
\* PostgreSQL, those in D may still commit.
Crash(i) ==
    LET mine == {s \in Slots : pc[s] # "idle" /\ job[s].inst = i}
    IN  /\ mine # {}
        /\ \E D \in SUBSET {s \in mine : InFlight(s) \/ pc[s] = "detached"} :
            LET cut == mine \ D
            IN  /\ pc' = [s \in Slots |-> IF s \in D THEN "detached"
                                          ELSE IF s \in cut THEN "idle" ELSE pc[s]]
                /\ job' = [s \in Slots |-> IF s \in cut THEN NULL ELSE job[s]]
                /\ ctx' = [s \in Slots |-> IF s \in cut THEN NULL ELSE ctx[s]]
                /\ resp' = [s \in Slots |-> IF s \in D THEN 0
                                            ELSE IF s \in cut THEN NULL ELSE resp[s]]
        /\ UNCHANGED <<users, ledger, now, tokens>>

Handle(s) ==
    \/ LoginMalformed(s) \/ LoginFound(s) \/ LoginUnknown(s) \/ LoginQueryFails(s)
    \/ LoginWrongPassword(s) \/ LoginNoRole(s) \/ LoginIssue(s)
    \/ Unauthorized(s) \/ Forbidden(s) \/ Admit(s)
    \/ RefuseUser(s) \/ CreateUser(s) \/ CreateUserFails(s) \/ ListUsers(s) \/ DeleteUser(s)
    \/ StatementFails(s) \/ Abandon(s)

Next ==
    \/ \E s \in Slots :
        \/ \E f \in Forms, t \in tokens \cup Foreign \cup {NULL}, i \in Instances : Receive(s, f, t, i)
        \/ Handle(s)
        \/ Release(s)
    \/ Tick
    \/ \E i \in Instances : Crash(i)

Spec == Init /\ [][Next]_vars

-----------------------------------------------------------------------------
(* Correctness. *)

Stages == {"idle", "received", "found", "admitted", "detached", "done"}
Codes == {0, 200, 201, 204, 400, 401, 403, 500}

\* The types of the variables.
TypeOK ==
    /\ users \in [UserIds -> UserRow \cup {NULL}]
    /\ ledger \in [UserIds -> Entry \cup {NULL}]
    /\ now \in Time
    /\ tokens \subseteq Token
    /\ pc \in [Slots -> Stages]
    /\ job \in [Slots -> Job \cup {NULL}]
    /\ ctx \in [Slots -> Found \cup Human \cup {NULL}]
    /\ resp \in [Slots -> Codes \cup {NULL}]

\* Slot s acts with the authority of the principal in its context.
Acting(s) == pc[s] \in {"admitted", "detached"}

\* The parts of the inductive invariant.  What the ledger says of an id, a
\* principal, a login's row and a token agree on.
Knows(l, u, role) == u \in UserIds /\ l[u] # NULL /\ l[u].role = role

LiveRows == \A u \in UserIds : users[u] # NULL => Knows(ledger, u, users[u].role)

TokenOK(t) ==
    /\ Ours(t) /\ t.kind = "human" /\ t.role \in {"admin", "viewer"}
    /\ Knows(ledger, t.sub, t.role)
    /\ t.at \in Time /\ t.at <= now
    /\ t.iat \in Nat /\ t.at <= t.iat /\ t.iat <= t.at + MaxSkew
    /\ t.exp = t.iat + TTL

SlotOK(s) ==
    /\ pc[s] # "idle" => job[s] \in Job /\ job[s].tok \in tokens \cup Foreign \cup {NULL}
    /\ pc[s] = "found" => ctx[s] \in Found /\ Knows(ledger, ctx[s].id, ctx[s].role)
    /\ Acting(s) => /\ ctx[s] \in Human
                    /\ job[s].form.op # "satellites" => ctx[s].role = "admin"
    /\ pc[s] = "detached" => ~Refused(job[s].form)

\* Whoever acts is a user this deployment registered, in the role they were
\* registered with: no foreign or outdated token is taken for one, and a
\* username deleted and registered anew lends its old role to nobody.
PrincipalSound ==
    \A s \in Slots :
        Acting(s) => /\ ledger[ctx[s].subject] # NULL
                     /\ ledger[ctx[s].subject].role = ctx[s].role

Inv ==
    /\ TypeOK
    /\ LiveRows
    /\ \A t \in tokens : TokenOK(t)
    /\ \A s \in Slots : SlotOK(s)
    /\ PrincipalSound

\* The users table changes only by a user request that acts as an admin,
\* one who was registered as such.
AdminOnly ==
    [][users' # users =>
        \E s \in Slots :
            /\ Acting(s) /\ pc'[s] = "done"
            /\ job[s].form.op \in {"create", "delete"}
            /\ ctx[s].role = "admin"
            /\ ledger[ctx[s].subject].role = "admin"]_vars

\* The server keeps no sessions, so a deleted user's token outlives the user:
\* but a token issued before the deletion opens no door once the token's
\* lifetime, and the largest difference between two clocks, have passed.
RevocationBound ==
    [][\A s \in Slots :
          (pc[s] = "received" /\ pc'[s] = "admitted")
          => LET d == ledger[ctx'[s].subject].deletedAt
             IN  (d # NULL /\ job[s].tok.at <= d) => now < d + TTL + MaxSkew]_vars

\* Any instance accepts any token of any instance, once the clocks' largest
\* difference has passed since its issue and for as long as that difference
\* stays clear of its end.
FreshTokenAccepted ==
    \A t \in tokens, i \in Instances :
        (t.at + MaxSkew <= now /\ now + MaxSkew < t.at + TTL)
        => ParseHumanToken(t, Clock(i)) # NULL

\* Nobody is, or is about to become, an admin: no row, no login that has read
\* one, no request acting as one, no token of one that any instance accepts.
LockedOut ==
    /\ \A u \in UserIds : users[u] # NULL => users[u].role # "admin"
    /\ \A s \in Slots : pc[s] \in {"found", "admitted", "detached"} => ctx[s].role # "admin"
    /\ \A t \in tokens : t.role = "admin" => \A i \in Instances : t.exp <= Clock(i)

\* Deleting the last admin cannot be undone through the API: from then on the
\* users table never changes again.
LockoutIsPermanent == [][LockedOut => LockedOut' /\ users' = users]_vars
=============================================================================
