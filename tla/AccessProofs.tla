---------------------------- MODULE AccessProofs ----------------------------
(***************************************************************************)
(* Proofs about AccessControl, for any number of users, requests, tokens   *)
(* and API instances, any token lifetime and any bound on the clocks.      *)
(***************************************************************************)
EXTENDS AccessControl, TLAPS

\* A valid human principal is what its constructor was given.
LEMMA HumanFacts ==
    ASSUME NEW u \in UserIds, NEW role
    PROVE  /\ role \in {"admin", "viewer"} <=> NewHumanPrincipal(u, role) # NULL
           /\ role \in {"admin", "viewer"} =>
                /\ NewHumanPrincipal(u, role) \in Human
                /\ NewHumanPrincipal(u, role).subject = u
                /\ NewHumanPrincipal(u, role).role = role
<1> DEFINE p == Principal("human", u, role, NULL)
<1>1. role \in {"admin", "viewer"} => p \in Human /\ p.subject = u /\ p.role = role
  BY DEF Principal, Human
<1>2. Validate(p) <=> role \in {"admin", "viewer"}
  BY AccessAssumption DEF Validate, Principal
<1>3. NewHumanPrincipal(u, role) = IF Validate(p) THEN p ELSE NULL
  BY DEF NewHumanPrincipal, NewPrincipal
<1>4. NULL \notin Human
  BY AccessAssumption
<1>5. QED
  BY <1>1, <1>2, <1>3, <1>4

\* What the middleware makes of a token it accepts: a token of ours, whose
\* subject and role the principal takes over.
LEMMA CallerFacts ==
    ASSUME Inv, NEW s \in Slots, pc[s] = "received", Caller(s) # NULL
    PROVE  /\ job[s].tok \in tokens
           /\ TimelyClaims(job[s].tok, Clock(job[s].inst))
           /\ Caller(s) \in Human
           /\ Caller(s).subject = job[s].tok.sub /\ Caller(s).role = job[s].tok.role
           /\ Knows(ledger, Caller(s).subject, Caller(s).role)
<1> DEFINE t == job[s].tok
<1>1. /\ t # NULL /\ Ours(t) /\ TimelyClaims(t, Clock(job[s].inst))
      /\ Caller(s) = NewHumanPrincipal(t.sub, t.role)
  BY DEF Caller, ParseHumanToken
<1>2. t \in tokens
  BY <1>1, AccessAssumption DEF Inv, SlotOK
<1>3. t.role \in {"admin", "viewer"} /\ Knows(ledger, t.sub, t.role) /\ t.sub \in UserIds
  BY <1>2 DEF Inv, TokenOK, Knows
<1>4. QED
  BY <1>1, <1>2, <1>3, HumanFacts

\* The initial state satisfies the invariant.
LEMMA InitInv == Init => Inv
<1> SUFFICES ASSUME Init PROVE Inv
  OBVIOUS
<1>1. \A u \in UserIds : SeedUsers[u] # NULL => Registered(SeedUsers[u]) \in Entry
                                             /\ Registered(SeedUsers[u]).role = SeedUsers[u].role
  BY AccessAssumption DEF Registered, Entry, UserRow
<1>2. TypeOK
  BY <1>1, AccessAssumption DEF Init, TypeOK, Time, Stages
<1>3. LiveRows
  BY <1>1, AccessAssumption DEF Init, LiveRows, Knows
<1>4. QED
  BY <1>2, <1>3 DEF Inv, Init, SlotOK, Acting, PrincipalSound

-----------------------------------------------------------------------------
(***************************************************************************)
(* What every step does to the users: an id, once registered, keeps its    *)
(* role for ever.  It is why a token needs no second look at the table.    *)
(***************************************************************************)
UsersStep ==
    /\ users' \in [UserIds -> UserRow \cup {NULL}]
    /\ ledger' \in [UserIds -> Entry \cup {NULL}]
    /\ \A u \in UserIds : ledger[u] # NULL => ledger'[u] # NULL /\ ledger'[u].role = ledger[u].role
    /\ \A u \in UserIds : users'[u] # NULL => ledger'[u] # NULL /\ ledger'[u].role = users'[u].role

\* A step that leaves both alone is one.
LEMMA SameUsers == Inv /\ UNCHANGED <<users, ledger>> => UsersStep
BY DEF Inv, TypeOK, LiveRows, Knows, UsersStep

\* A step of slot s preserves the invariant if it leaves s in order.
LEMMA SlotStep ==
    ASSUME Inv, UsersStep, now' = now,
           NEW s \in Slots, NEW stage \in Stages, pc' = [pc EXCEPT ![s] = stage],
           tokens \subseteq tokens', tokens' \subseteq Token, \A t \in tokens' \ tokens : TokenOK(t)',
           NEW j \in Job \cup {NULL}, job' = [job EXCEPT ![s] = j],
           NEW c \in Found \cup Human \cup {NULL}, ctx' = [ctx EXCEPT ![s] = c],
           NEW r \in Codes \cup {NULL}, resp' = resp \/ resp' = [resp EXCEPT ![s] = r],
           stage # "idle" => j \in Job /\ j.tok \in tokens \cup Foreign \cup {NULL},
           stage = "found" => c \in Found /\ Knows(ledger, c.id, c.role),
           stage \in {"admitted", "detached"} =>
              /\ c \in Human /\ Knows(ledger, c.subject, c.role)
              /\ j.form.op # "satellites" => c.role = "admin",
           stage = "detached" => ~Refused(j.form)
    PROVE  Inv'
<1>1. TypeOK'
  BY DEF Inv, TypeOK, UsersStep
<1>2. \A u \in UserIds : \A role : Knows(ledger, u, role) => Knows(ledger', u, role)
  BY DEF Knows, UsersStep
<1>3. LiveRows'
  BY DEF LiveRows, Knows, UsersStep
<1>4. \A t \in tokens' : TokenOK(t)'
  <2> SUFFICES ASSUME NEW t \in tokens PROVE TokenOK(t)'
    OBVIOUS
  <2>1. TokenOK(t) /\ t.sub \in UserIds
    BY DEF Inv, TokenOK, Knows
  <2>2. Knows(ledger', t.sub, t.role)
    BY <1>2, <2>1 DEF TokenOK
  <2>3. QED
    BY <2>1, <2>2 DEF TokenOK
<1>5. pc'[s] = stage /\ job'[s] = j /\ ctx'[s] = c
  BY DEF Inv, TypeOK
<1>6. SlotOK(s)' /\ (Acting(s)' => Knows(ledger', c.subject, c.role))
  <2>1. stage = "found" => Knows(ledger', c.id, c.role)
    BY <1>2 DEF Found
  <2>2. stage \in {"admitted", "detached"} => Knows(ledger', c.subject, c.role)
    BY <1>2 DEF Human
  <2>3. QED
    BY <1>5, <2>1, <2>2 DEF SlotOK, Acting
<1>7. ASSUME NEW o \in Slots, o # s
      PROVE  SlotOK(o)' /\ (Acting(o)' => Knows(ledger', ctx[o].subject, ctx[o].role))
  <2>1. pc'[o] = pc[o] /\ job'[o] = job[o] /\ ctx'[o] = ctx[o]
    BY <1>7 DEF Inv, TypeOK
  <2>2. SlotOK(o) /\ (Acting(o) => Knows(ledger, ctx[o].subject, ctx[o].role))
    BY DEF Inv, PrincipalSound, SlotOK, Human, Knows
  <2>3. pc[o] = "found" => Knows(ledger', ctx[o].id, ctx[o].role)
    BY <1>2, <2>2 DEF SlotOK, Found
  <2>4. Acting(o) => Knows(ledger', ctx[o].subject, ctx[o].role)
    BY <1>2, <2>2 DEF SlotOK, Human
  <2>5. QED
    BY <2>1, <2>2, <2>3, <2>4 DEF SlotOK, Acting
<1>8. \A o \in Slots : SlotOK(o)'
  BY <1>6, <1>7
<1>9. PrincipalSound'
  <2> SUFFICES ASSUME NEW o \in Slots, Acting(o)'
               PROVE  Knows(ledger', ctx'[o].subject, ctx'[o].role)
    BY DEF PrincipalSound, Knows
  <2>1. CASE o = s
    BY <1>5, <1>6, <2>1
  <2>2. CASE o # s
    <3>1. ctx'[o] = ctx[o]
      BY <2>2 DEF Inv, TypeOK
    <3>2. QED
      BY <1>7, <2>2, <3>1
  <2>3. QED
    BY <2>1, <2>2
<1>10. QED
  BY <1>1, <1>3, <1>4, <1>8, <1>9 DEF Inv

\* Ending a request preserves the invariant.
LEMMA FinishInv ==
    ASSUME Inv, UsersStep, NEW s \in Slots, pc[s] # "idle", NEW code \in Codes, Finish(s, code),
           tokens \subseteq tokens', tokens' \subseteq Token, \A t \in tokens' \ tokens : TokenOK(t)'
    PROVE  Inv'
<1>1. /\ job' = [job EXCEPT ![s] = job[s]] /\ ctx' = [ctx EXCEPT ![s] = ctx[s]]
      /\ pc' = [pc EXCEPT ![s] = "done"] /\ now' = now
      /\ resp' = resp \/ resp' = [resp EXCEPT ![s] = code]
  BY DEF Finish, Inv, TypeOK
<1>2. /\ job[s] \in Job /\ job[s].tok \in tokens \cup Foreign \cup {NULL}
      /\ ctx[s] \in Found \cup Human \cup {NULL} /\ "done" \in Stages
  BY DEF Inv, TypeOK, SlotOK, Stages
<1>3. QED
  BY <1>1, <1>2, SlotStep

\* So does ending it without a change to users or tokens.
LEMMA AnsweredInv ==
    ASSUME Inv, NEW s \in Slots, pc[s] # "idle", NEW code \in Codes, Answered(s, code)
    PROVE  Inv'
BY FinishInv, SameUsers DEF Answered, Inv, TypeOK

\* And moving it on with a context that is in order.
LEMMA ProceedInv ==
    ASSUME Inv, NEW s \in Slots, pc[s] = "received", NEW stage \in {"found", "admitted"},
           NEW c, Proceed(s, stage, c),
           stage = "found" => c \in Found /\ Knows(ledger, c.id, c.role),
           stage = "admitted" =>
              /\ c \in Human /\ Knows(ledger, c.subject, c.role)
              /\ job[s].form.op # "satellites" => c.role = "admin"
    PROVE  Inv'
<1>1. /\ job' = [job EXCEPT ![s] = job[s]] /\ ctx' = [ctx EXCEPT ![s] = c]
      /\ pc' = [pc EXCEPT ![s] = stage] /\ now' = now /\ resp' = resp /\ tokens' = tokens
  BY DEF Proceed, Inv, TypeOK
<1>2. /\ job[s] \in Job /\ job[s].tok \in tokens \cup Foreign \cup {NULL}
      /\ c \in Found \cup Human \cup {NULL} /\ stage \in Stages /\ tokens \subseteq Token
  BY DEF Inv, TypeOK, SlotOK, Stages
<1>3. UsersStep
  BY SameUsers DEF Proceed
<1>4. NULL \in Codes \cup {NULL}
  OBVIOUS
<1>5. QED
  BY <1>1, <1>2, <1>3, <1>4, SlotStep

\* The form of a request in flight.
LEMMA FormFacts ==
    ASSUME Inv, NEW s \in Slots, pc[s] # "idle"
    PROVE  LET f == job[s].form
           IN  /\ job[s].inst \in Instances
               /\ f.username # NULL => f.username \in Usernames /\ f.password \in Passwords
               /\ ~Refused(f) /\ f.op = "create" => f.username # NULL /\ RoleOf(f) \in {"admin", "viewer"}
               /\ ~Refused(f) /\ f.op = "delete" => f.id \in UserIds
BY DEF Inv, SlotOK, Job, Form, Refused

\* INSERT of a user: a new id with a role of its own.
LEMMA CreateUserEffect ==
    ASSUME Inv, NEW s \in Slots, CreateUser(s)
    PROVE  UsersStep /\ pc[s] # "idle"
<1> DEFINE f == job[s].form
           row == [username |-> f.username, password |-> f.password, role |-> RoleOf(f)]
<1>1. pc[s] # "idle" /\ f.op = "create" /\ ~Refused(f)
  BY DEF CreateUser, At
<1>2. row \in UserRow /\ Registered(row) \in Entry /\ Registered(row).role = row.role
  BY <1>1, FormFacts DEF UserRow, RoleText, Registered, Entry
<1>3. row # NULL /\ Registered(row) # NULL
  BY <1>2, AccessAssumption
<1>4. PICK u \in UserIds : /\ ledger[u] = NULL
                           /\ users' = [users EXCEPT ![u] = row]
                           /\ ledger' = [ledger EXCEPT ![u] = Registered(row)]
  BY DEF CreateUser
<1> HIDE DEF row
<1>5. QED
  BY <1>1, <1>2, <1>3, <1>4 DEF UsersStep, Inv, TypeOK, LiveRows, Knows

\* DELETE of a user: the ledger keeps the role.
LEMMA DeleteUserEffect ==
    ASSUME Inv, NEW s \in Slots, DeleteUser(s)
    PROVE  UsersStep /\ pc[s] # "idle" /\ job[s].form.id \in UserIds
<1> DEFINE u == job[s].form.id
           e == [ledger[u] EXCEPT !.deletedAt = now]
<1>1. u \in UserIds /\ pc[s] # "idle"
  BY FormFacts DEF DeleteUser, At
<1>2. users' = [users EXCEPT ![u] = NULL]
  BY DEF DeleteUser
<1>3. CASE users[u] = NULL
  BY <1>1, <1>2, <1>3 DEF DeleteUser, UsersStep, Inv, TypeOK, LiveRows, Knows
<1>4. CASE users[u] # NULL
  <2>1. ledger[u] \in Entry
    BY <1>1, <1>4 DEF Inv, TypeOK, LiveRows, Knows
  <2>2. e \in Entry /\ e.role = ledger[u].role /\ e # NULL
    <3>1. e \in Entry /\ e.role = ledger[u].role
      BY <2>1 DEF Entry, Inv, TypeOK
    <3>2. QED
      BY <3>1, AccessAssumption
  <2>3. ledger' = [ledger EXCEPT ![u] = e]
    BY <1>4 DEF DeleteUser
  <2> HIDE DEF e
  <2>4. QED
    BY <1>1, <1>2, <2>2, <2>3 DEF UsersStep, Inv, TypeOK, LiveRows, Knows
<1>5. QED
  BY <1>1, <1>3, <1>4

-----------------------------------------------------------------------------
(* The invariant is inductive. *)

\* Arrival and departure of a request.
LEMMA ReceiveInv ==
    ASSUME Inv, NEW s \in Slots, NEW f \in Forms, NEW t \in tokens \cup Foreign \cup {NULL},
           NEW i \in Instances, Receive(s, f, t, i)
    PROVE  Inv'
<1> DEFINE j == [form |-> f, tok |-> t, inst |-> i]
<1>1. j \in Job /\ j.tok = t
  BY AccessAssumption DEF Job, Inv, TypeOK
<1>2. /\ pc' = [pc EXCEPT ![s] = "received"] /\ job' = [job EXCEPT ![s] = j]
      /\ ctx' = [ctx EXCEPT ![s] = ctx[s]] /\ resp' = resp /\ now' = now /\ tokens' = tokens
  BY DEF Receive, Inv, TypeOK
<1>3. ctx[s] \in Found \cup Human \cup {NULL} /\ "received" \in Stages /\ tokens \subseteq Token
  BY DEF Inv, TypeOK, Stages
<1>4. UsersStep
  BY SameUsers DEF Receive
<1>5. NULL \in Codes \cup {NULL}
  OBVIOUS
<1> HIDE DEF j
<1>6. QED
  BY <1>1, <1>2, <1>3, <1>4, <1>5, SlotStep

LEMMA ReleaseInv ==
    ASSUME Inv, NEW s \in Slots, Release(s)
    PROVE  Inv'
<1>1. "idle" \in Stages /\ tokens \subseteq Token /\ UsersStep
  BY SameUsers DEF Inv, TypeOK, Stages, Release
<1>2. NULL \in Codes \cup {NULL} /\ NULL \in Job \cup {NULL} /\ NULL \in Found \cup Human \cup {NULL}
  OBVIOUS
<1>3. QED
  BY <1>1, <1>2, SlotStep DEF Release

\* Login: the row that is read and the token that is made of it.
LEMMA LoginFoundInv ==
    ASSUME Inv, NEW s \in Slots, LoginFound(s)
    PROVE  Inv'
<1>1. PICK u \in UserIds :
        /\ users[u] # NULL
        /\ Proceed(s, "found", [id |-> u, password |-> users[u].password, role |-> users[u].role])
  BY DEF LoginFound
<1> DEFINE c == [id |-> u, password |-> users[u].password, role |-> users[u].role]
<1>2. c \in Found /\ Knows(ledger, c.id, c.role)
  BY <1>1 DEF Inv, TypeOK, LiveRows, UserRow, Found
<1>3. pc[s] = "received" /\ Proceed(s, "found", c)
  BY <1>1 DEF LoginFound, At
<1> HIDE DEF c
<1>4. QED
  BY <1>2, <1>3, ProceedInv

LEMMA LoginIssueInv ==
    ASSUME Inv, NEW s \in Slots, LoginIssue(s)
    PROVE  Inv'
<1> DEFINE i == job[s].inst
<1>0. PICK t : t = GenerateHumanToken(ctx[s].id, ctx[s].role, Clock(i))
  OBVIOUS
<1>1. /\ pc[s] # "idle" /\ pc[s] = "found" /\ Finish(s, 200) /\ tokens' = tokens \cup {t}
      /\ UNCHANGED <<users, ledger>> /\ now' = now
      /\ NewHumanPrincipal(ctx[s].id, ctx[s].role) # NULL
  BY <1>0 DEF LoginIssue, At, Finish
<1>2. ctx[s].id \in UserIds /\ Knows(ledger, ctx[s].id, ctx[s].role)
  BY <1>1 DEF Inv, SlotOK, Found
<1>3. ctx[s].role \in {"admin", "viewer"}
  BY <1>1, <1>2, HumanFacts
<1>4. /\ Clock(i) \in Nat /\ now <= Clock(i) /\ Clock(i) <= now + MaxSkew
      /\ Clock(i) + TTL \in Nat /\ now \in Time /\ now <= now
  <2>1. i \in Instances /\ now \in Time /\ now \in Nat
    BY <1>1, FormFacts DEF Inv, TypeOK, Time
  <2>2. Skew[i] \in 0..MaxSkew /\ MaxSkew \in Nat /\ TTL \in Nat
    BY <2>1, AccessAssumption
  <2>3. QED
    BY <2>1, <2>2 DEF Clock
<1>5. t \in Token
  BY <1>0, <1>2, <1>3, <1>4 DEF GenerateHumanToken, Token, RoleText
<1>6. TokenOK(t)
  BY <1>0, <1>2, <1>3, <1>4 DEF GenerateHumanToken, TokenOK, Ours
<1>7. TokenOK(t)'
  BY <1>1, <1>6 DEF TokenOK
<1>8. tokens \subseteq tokens' /\ tokens' \subseteq Token /\ \A x \in tokens' \ tokens : TokenOK(x)'
  BY <1>1, <1>5, <1>7 DEF Inv, TypeOK
<1>9. UsersStep /\ 200 \in Codes
  BY <1>1, SameUsers DEF Codes
<1>10. QED
  BY <1>1, <1>8, <1>9, FinishInv

\* The middleware lets a request pass.
LEMMA AdmitInv ==
    ASSUME Inv, NEW s \in Slots, Admit(s)
    PROVE  Inv'
<1>1. pc[s] = "received" /\ Caller(s) # NULL /\ Allowed(s, Caller(s))
      /\ Proceed(s, "admitted", Caller(s))
  BY DEF Admit, At
<1>2. Caller(s) \in Human /\ Knows(ledger, Caller(s).subject, Caller(s).role)
  BY <1>1, CallerFacts
<1>3. job[s].form.op # "satellites" => Caller(s).role = "admin"
  BY <1>1, <1>2, AccessAssumption DEF Allowed, HumanRole, Human
<1>4. QED
  BY <1>1, <1>2, <1>3, ProceedInv

\* The client leaves while its statement is with PostgreSQL.
LEMMA AbandonInv ==
    ASSUME Inv, NEW s \in Slots, Abandon(s)
    PROVE  Inv'
<1>1. pc[s] = "admitted" /\ ~Refused(job[s].form) /\ UsersStep
  BY SameUsers DEF Abandon, InFlight, At
<1>2. PICK stage \in Stages, r \in Codes \cup {NULL}, j \in Job \cup {NULL},
           c \in Found \cup Human \cup {NULL} :
        stage = "detached" /\ r = 500 /\ j = job[s] /\ c = ctx[s]
  BY DEF Inv, TypeOK, Stages, Codes
<1>3. /\ pc' = [pc EXCEPT ![s] = stage] /\ job' = [job EXCEPT ![s] = j]
      /\ ctx' = [ctx EXCEPT ![s] = c] /\ resp' = [resp EXCEPT ![s] = r]
      /\ now' = now /\ tokens' = tokens /\ tokens \subseteq Token
  BY <1>2 DEF Abandon, Inv, TypeOK
<1>4. /\ j \in Job /\ j.tok \in tokens \cup Foreign \cup {NULL}
      /\ c \in Human /\ Knows(ledger, c.subject, c.role)
      /\ j.form.op # "satellites" => c.role = "admin"
      /\ stage # "found" /\ ~Refused(j.form)
  BY <1>1, <1>2 DEF Inv, SlotOK, Acting, PrincipalSound, Knows, Human
<1>5. \A t \in tokens' \ tokens : TokenOK(t)'
  BY <1>3
<1>6. QED
  BY <1>1, <1>3, <1>4, <1>5, SlotStep

\* Time passes: only the tokens' ages look at it.
LEMMA TickInv ==
    ASSUME Inv, Tick
    PROVE  Inv'
<1>1. now \in Nat /\ now' = now + 1 /\ now' \in Time
  BY AccessAssumption DEF Inv, TypeOK, Time, Tick
<1>2. UNCHANGED <<users, ledger, tokens, pc, job, ctx, resp>>
  BY DEF Tick
<1>3. TypeOK'
  BY <1>1, <1>2 DEF Inv, TypeOK
<1>4. \A t \in tokens' : TokenOK(t)'
  <2> SUFFICES ASSUME NEW t \in tokens PROVE TokenOK(t)'
    BY <1>2
  <2>1. TokenOK(t) /\ t.at <= now' 
    BY <1>1 DEF Inv, TokenOK, Time
  <2>2. QED
    BY <1>2, <2>1 DEF TokenOK
<1>5. (\A s \in Slots : SlotOK(s)') /\ LiveRows' /\ PrincipalSound'
  BY <1>2 DEF Inv, SlotOK, Acting, LiveRows, PrincipalSound
<1>6. QED
  BY <1>3, <1>4, <1>5 DEF Inv

\* A crash empties slots or detaches them; nobody gains a context.
LEMMA CrashInv ==
    ASSUME Inv, NEW i \in Instances, Crash(i)
    PROVE  Inv'
<1> DEFINE mine == {s \in Slots : pc[s] # "idle" /\ job[s].inst = i}
<1>1. PICK D \in SUBSET {s \in mine : InFlight(s) \/ pc[s] = "detached"} :
        LET cut == mine \ D
        IN  /\ pc' = [s \in Slots |-> IF s \in D THEN "detached"
                                      ELSE IF s \in cut THEN "idle" ELSE pc[s]]
            /\ job' = [s \in Slots |-> IF s \in cut THEN NULL ELSE job[s]]
            /\ ctx' = [s \in Slots |-> IF s \in cut THEN NULL ELSE ctx[s]]
            /\ resp' = [s \in Slots |-> IF s \in D THEN 0
                                        ELSE IF s \in cut THEN NULL ELSE resp[s]]
  BY DEF Crash
<1>2. UNCHANGED <<users, ledger, now, tokens>>
  BY DEF Crash
<1> HIDE DEF mine
<1>3. \A s \in Slots :
        \/ s \in D /\ pc'[s] = "detached" /\ job'[s] = job[s] /\ ctx'[s] = ctx[s]
        \/ pc'[s] = "idle" /\ job'[s] = NULL /\ ctx'[s] = NULL
        \/ pc'[s] = pc[s] /\ job'[s] = job[s] /\ ctx'[s] = ctx[s]
  BY <1>1
<1>4. \A s \in D : s \in Slots /\ Acting(s) /\ ~Refused(job[s].form) /\ pc[s] # "idle"
  <2> SUFFICES ASSUME NEW s \in D
               PROVE  s \in Slots /\ Acting(s) /\ ~Refused(job[s].form) /\ pc[s] # "idle"
    OBVIOUS
  <2>1. s \in Slots /\ (InFlight(s) \/ pc[s] = "detached")
    BY <1>1 DEF mine
  <2>2. QED
    BY <2>1 DEF InFlight, At, Acting, Inv, SlotOK
<1>5. TypeOK'
  BY <1>1, <1>2 DEF Inv, TypeOK, Stages, Codes
<1>6. ASSUME NEW s \in Slots
      PROVE  /\ SlotOK(s)'
             /\ Acting(s)' => ledger'[ctx'[s].subject] # NULL /\ ledger'[ctx'[s].subject].role = ctx'[s].role
  <2>1. SlotOK(s) /\ (Acting(s) => ledger[ctx[s].subject] # NULL /\ ledger[ctx[s].subject].role = ctx[s].role)
    BY DEF Inv, PrincipalSound
  <2>2. CASE s \in D /\ pc'[s] = "detached" /\ job'[s] = job[s] /\ ctx'[s] = ctx[s]
    BY <1>2, <1>4, <2>1, <2>2 DEF SlotOK, Acting
  <2>3. CASE pc'[s] = "idle"
    BY <2>3 DEF SlotOK, Acting
  <2>4. CASE pc'[s] = pc[s] /\ job'[s] = job[s] /\ ctx'[s] = ctx[s]
    BY <1>2, <2>1, <2>4 DEF SlotOK, Acting
  <2>5. QED
    BY <1>3, <2>2, <2>3, <2>4
<1>7. LiveRows' /\ (\A t \in tokens' : TokenOK(t)')
  BY <1>2 DEF Inv, LiveRows, TokenOK
<1>8. PrincipalSound'
  BY <1>6 DEF PrincipalSound
<1>9. QED
  BY <1>5, <1>6, <1>7, <1>8 DEF Inv

\* Every step preserves the invariant.
LEMMA NextInv == Inv /\ [Next]_vars => Inv'
<1> SUFFICES ASSUME Inv, [Next]_vars PROVE Inv'
  OBVIOUS
<1>1. CASE UNCHANGED vars
  BY <1>1 DEF vars, Inv, TypeOK, LiveRows, TokenOK, SlotOK, Acting, PrincipalSound
<1>2. CASE Tick
  BY <1>2, TickInv
<1>3. CASE \E i \in Instances : Crash(i)
  BY <1>3, CrashInv
<1>4. ASSUME NEW s \in Slots, NEW f \in Forms, NEW t \in tokens \cup Foreign \cup {NULL},
             NEW i \in Instances, Receive(s, f, t, i)
      PROVE  Inv'
  BY <1>4, ReceiveInv
<1>5. ASSUME NEW s \in Slots, Release(s) PROVE Inv'
  BY <1>5, ReleaseInv
<1>6. ASSUME NEW s \in Slots, Handle(s) PROVE Inv'
  <2>1. \A c \in {0, 200, 201, 204, 400, 401, 403, 500} : c \in Codes
    BY DEF Codes
  <2>2. CASE LoginMalformed(s) \/ LoginUnknown(s) \/ LoginQueryFails(s)
    BY <2>1, <2>2, AnsweredInv DEF LoginMalformed, LoginUnknown, LoginQueryFails, At
  <2>3. CASE LoginFound(s)
    BY <2>3, LoginFoundInv
  <2>4. CASE LoginWrongPassword(s) \/ LoginNoRole(s)
    BY <2>1, <2>4, AnsweredInv DEF LoginWrongPassword, LoginNoRole, At
  <2>5. CASE LoginIssue(s)
    BY <2>5, LoginIssueInv
  <2>6. CASE Unauthorized(s) \/ Forbidden(s)
    BY <2>1, <2>6, AnsweredInv DEF Unauthorized, Forbidden, At
  <2>7. CASE Admit(s)
    BY <2>7, AdmitInv
  <2>8. CASE RefuseUser(s)
    <3>1. PICK code \in Codes : pc[s] # "idle" /\ Answered(s, code)
      BY <2>1, <2>8 DEF RefuseUser, At
    <3>2. QED
      BY <3>1, AnsweredInv
  <2>9. CASE CreateUser(s)
    <3>1. Finish(s, 201) /\ tokens' = tokens /\ tokens \subseteq Token
      BY <2>9 DEF CreateUser, Inv, TypeOK
    <3>2. QED
      BY <2>1, <2>9, <3>1, CreateUserEffect, FinishInv
  <2>10. CASE DeleteUser(s)
    <3>1. Finish(s, 204) /\ tokens' = tokens /\ tokens \subseteq Token
      BY <2>10 DEF DeleteUser, Inv, TypeOK
    <3>2. QED
      BY <2>1, <2>10, <3>1, DeleteUserEffect, FinishInv
  <2>11. CASE CreateUserFails(s) \/ ListUsers(s) \/ StatementFails(s)
    BY <2>1, <2>11, AnsweredInv DEF CreateUserFails, ListUsers, StatementFails, At
  <2>12. CASE Abandon(s)
    BY <2>12, AbandonInv
  <2>13. QED
    BY <1>6, <2>2, <2>3, <2>4, <2>5, <2>6, <2>7, <2>8, <2>9, <2>10, <2>11, <2>12 DEF Handle
<1>7. QED
  BY <1>1, <1>2, <1>3, <1>4, <1>5, <1>6 DEF Next

\* Inv is an invariant of the specification.
THEOREM Invariance == Spec => []Inv
BY InitInv, NextInv, PTL DEF Spec

\* The variables keep their types.
THEOREM TypeCorrect == Spec => []TypeOK
<1>1. Inv => TypeOK
  BY DEF Inv
<1>2. QED
  BY <1>1, Invariance, PTL

\* No request ever acts for a principal that was not registered in the role
\* it claims (PrincipalSound).
THEOREM PrincipalTheorem == Spec => []PrincipalSound
<1>1. Inv => PrincipalSound
  BY DEF Inv
<1>2. QED
  BY <1>1, Invariance, PTL

\* Instances with skewed clocks accept each other's tokens, the first and
\* the last MaxSkew of a token's life apart (FreshTokenAccepted).
THEOREM FreshTheorem == Spec => []FreshTokenAccepted
<1>1. ASSUME Inv, NEW t \in tokens, NEW i \in Instances,
             t.at + MaxSkew <= now, now + MaxSkew < t.at + TTL
      PROVE  ParseHumanToken(t, Clock(i)) # NULL
  <2>1. /\ Ours(t) /\ t.kind = "human" /\ t.role \in {"admin", "viewer"} /\ t.sub \in UserIds
        /\ t.at \in Nat /\ t.iat \in Nat /\ t.at <= t.iat /\ t.iat <= t.at + MaxSkew
        /\ t.exp = t.iat + TTL /\ now \in Nat
    BY <1>1 DEF Inv, TypeOK, TokenOK, Knows, Time
  <2>2. Skew[i] \in 0..MaxSkew /\ MaxSkew \in Nat /\ TTL \in Nat /\ NULL \notin Nat
    BY AccessAssumption
  <2>3. TimelyClaims(t, Clock(i))
    <3>1. t.iat <= Clock(i) /\ Clock(i) < t.exp /\ t.exp \in Nat
      BY <1>1, <2>1, <2>2 DEF Clock
    <3>2. QED
      BY <2>1, <2>2, <3>1 DEF TimelyClaims
  <2>4. QED
    BY <2>1, <2>2, <2>3, HumanFacts DEF ParseHumanToken, ClaimsValid
<1>2. Inv => FreshTokenAccepted
  BY <1>1 DEF FreshTokenAccepted
<1>3. QED
  BY <1>2, Invariance, PTL

-----------------------------------------------------------------------------
(* Action properties. *)

\* The users table changes in two actions only, both of an admin's request.
LEMMA UsersChange ==
    ASSUME Inv, [Next]_vars
    PROVE  \/ users' = users
           \/ \E s \in Slots : /\ CreateUser(s) \/ DeleteUser(s)
                               /\ Acting(s) /\ pc'[s] = "done"
                               /\ job[s].form.op \in {"create", "delete"}
                               /\ ctx[s].role = "admin"
                               /\ ledger[ctx[s].subject].role = "admin"
<1>1. CASE UNCHANGED vars \/ Tick \/ \E i \in Instances : Crash(i)
  BY <1>1 DEF vars, Tick, Crash
<1>2. ASSUME NEW s \in Slots, Handle(s), ~CreateUser(s), ~DeleteUser(s) PROVE users' = users
  BY <1>2 DEF Handle, LoginMalformed, LoginFound, LoginUnknown, LoginQueryFails,
     LoginWrongPassword, LoginNoRole, LoginIssue, Unauthorized, Forbidden, Admit, RefuseUser,
     CreateUserFails, ListUsers, StatementFails, Abandon, Answered, Proceed
<1>3. ASSUME NEW s \in Slots, CreateUser(s) \/ DeleteUser(s)
      PROVE  /\ Acting(s) /\ pc'[s] = "done" /\ job[s].form.op \in {"create", "delete"}
             /\ ctx[s].role = "admin" /\ ledger[ctx[s].subject].role = "admin"
  <2>1. Acting(s) /\ job[s].form.op \in {"create", "delete"}
    BY <1>3 DEF CreateUser, DeleteUser, At, Acting
  <2>2. pc'[s] = "done"
    BY <1>3 DEF CreateUser, DeleteUser, Finish, Inv, TypeOK
  <2>3. ctx[s].role = "admin" /\ ledger[ctx[s].subject].role = "admin"
    BY <2>1 DEF Inv, SlotOK, PrincipalSound
  <2>4. QED
    BY <2>1, <2>2, <2>3
<1>4. CASE \E s \in Slots : (\E f \in Forms, t \in tokens \cup Foreign \cup {NULL}, i \in Instances :
                                Receive(s, f, t, i)) \/ Release(s)
  BY <1>4 DEF Receive, Release
<1>5. QED
  BY <1>1, <1>2, <1>3, <1>4 DEF Next

\* Only a request of a registered admin changes the users table (AdminOnly).
THEOREM AdminTheorem == Spec => AdminOnly
<1>1. Inv /\ [Next]_vars =>
        [users' # users =>
            \E s \in Slots :
                /\ Acting(s) /\ pc'[s] = "done"
                /\ job[s].form.op \in {"create", "delete"}
                /\ ctx[s].role = "admin"
                /\ ledger[ctx[s].subject].role = "admin"]_vars
  BY UsersChange
<1>2. QED
  BY <1>1, Invariance, PTL DEF Spec, AdminOnly

\* An accepted token of a user deleted at d was issued at most MaxSkew later
\* by its own clock than in real time, so that it is dead by
\* d + TTL + MaxSkew on every clock.
LEMMA AdmittedInTime ==
    ASSUME Inv, NEW s \in Slots, Admit(s),
           NEW d, d = ledger[ctx'[s].subject].deletedAt, d # NULL, job[s].tok.at <= d
    PROVE  now < d + TTL + MaxSkew
<1> DEFINE t == job[s].tok
           i == job[s].inst
<1>1. /\ pc[s] = "received" /\ pc[s] # "idle" /\ Caller(s) # NULL /\ ctx'[s] = Caller(s)
  BY DEF Admit, At, Proceed, Inv, TypeOK
<1>2. t \in tokens /\ TimelyClaims(t, Clock(i)) /\ Knows(ledger, ctx'[s].subject, ctx'[s].role)
  BY <1>1, CallerFacts
<1>3. d \in Nat
  BY <1>2 DEF Knows, Inv, TypeOK, Entry, Time
<1>4. t.at \in Nat /\ t.iat \in Nat /\ t.iat <= t.at + MaxSkew /\ t.exp = t.iat + TTL
  BY <1>2 DEF Inv, TokenOK, Time
<1>5. Clock(i) < t.exp
  BY <1>2 DEF TimelyClaims
<1>6. now \in Nat /\ Skew[i] \in 0..MaxSkew /\ MaxSkew \in Nat /\ TTL \in Nat
  BY <1>1, FormFacts, AccessAssumption DEF Inv, TypeOK, Time
<1>7. QED
  BY <1>3, <1>4, <1>5, <1>6 DEF Clock

\* A token issued before its user's deletion is refused by every instance once
\* its lifetime and the largest clock difference have passed (RevocationBound).
THEOREM RevocationTheorem == Spec => RevocationBound
<1>1. ASSUME Inv, [Next]_vars, NEW s \in Slots, pc[s] = "received", pc'[s] = "admitted"
      PROVE  Admit(s)
  <2>1. ~UNCHANGED vars /\ ~Tick
    BY <1>1 DEF vars, Tick
  <2>2. ASSUME NEW i \in Instances, Crash(i) PROVE FALSE
    BY <1>1, <2>2 DEF Crash
  <2>3. ASSUME NEW o \in Slots, NEW stage, pc' = [pc EXCEPT ![o] = stage]
        PROVE  o = s /\ stage = "admitted"
    BY <1>1, <2>3 DEF Inv, TypeOK
  <2>4. ASSUME NEW o \in Slots, NEW f \in Forms, NEW t \in tokens \cup Foreign \cup {NULL},
               NEW i \in Instances, Receive(o, f, t, i)
        PROVE  FALSE
    BY <1>1, <2>4 DEF Receive, Inv, TypeOK
  <2>5. ASSUME NEW o \in Slots, Release(o) PROVE FALSE
    BY <1>1, <2>5 DEF Release, Inv, TypeOK
  <2>6. ASSUME NEW o \in Slots, Handle(o) PROVE Admit(s)
    BY <2>3, <2>6 DEF Handle, LoginMalformed, LoginFound, LoginUnknown, LoginQueryFails,
       LoginWrongPassword, LoginNoRole, LoginIssue, Unauthorized, Forbidden, Admit, RefuseUser,
       CreateUser, CreateUserFails, ListUsers, DeleteUser, StatementFails, Abandon,
       Answered, Finish, Proceed
  <2>7. QED
    BY <1>1, <2>1, <2>2, <2>4, <2>5, <2>6 DEF Next
<1>2. Inv /\ [Next]_vars =>
        [\A s \in Slots :
            (pc[s] = "received" /\ pc'[s] = "admitted")
            => LET d == ledger[ctx'[s].subject].deletedAt
               IN  (d # NULL /\ job[s].tok.at <= d) => now < d + TTL + MaxSkew]_vars
  BY <1>1, AdmittedInTime
<1>3. QED
  BY <1>2, Invariance, PTL DEF Spec, RevocationBound

\* LockoutIsPermanent: a new admin takes an old one.  Rows come from admins'
\* requests, those from tokens, tokens from rows; time only ends tokens.
THEOREM LockoutTheorem == Spec => LockoutIsPermanent
<1>1. ASSUME Inv, [Next]_vars, LockedOut PROVE users' = users
  BY <1>1, UsersChange DEF LockedOut, Acting
<1>2. ASSUME Inv, LockedOut, users' = users, now' = now,
             NEW s \in Slots, NEW stage, pc' = [pc EXCEPT ![s] = stage],
             NEW c, ctx' = [ctx EXCEPT ![s] = c],
             \A t \in tokens' : t \in tokens \/ t.role # "admin",
             stage \in {"found", "admitted", "detached"} => c.role # "admin"
      PROVE  LockedOut'
  BY <1>2 DEF LockedOut, Inv, TypeOK, Clock
<1>3. ASSUME Inv, [Next]_vars, LockedOut PROVE LockedOut'
  <2>1. users' = users
    BY <1>1, <1>3
  <2>2. CASE UNCHANGED vars
    BY <2>2, <1>3 DEF vars, LockedOut, Clock
  <2>3. CASE Tick
    <3>1. ASSUME NEW t \in tokens, NEW i \in Instances, t.exp <= Clock(i) PROVE t.exp <= Clock(i)'
      <4>1. t.exp \in Nat /\ Skew[i] \in Nat /\ now \in Nat
        BY <1>3, AccessAssumption DEF Inv, TypeOK, TokenOK, Time
      <4>2. QED
        BY <2>3, <3>1, <4>1 DEF Tick, Clock
    <3>2. QED
      BY <1>3, <2>3, <3>1 DEF LockedOut, Tick
  <2>4. ASSUME NEW i \in Instances, Crash(i) PROVE LockedOut'
    <3>1. UNCHANGED <<users, now, tokens>>
      BY <2>4 DEF Crash
    <3>2. \A s \in Slots :
            \/ pc'[s] = "idle"
            \/ ctx'[s] = ctx[s] /\ (pc'[s] = pc[s] \/ pc[s] \in {"admitted", "detached"})
      BY <2>4 DEF Crash, InFlight, At
    <3>3. QED
      BY <1>3, <3>1, <3>2 DEF LockedOut, Clock
  <2>5. ASSUME NEW s \in Slots,
               \/ \E f \in Forms, t \in tokens \cup Foreign \cup {NULL}, i \in Instances : Receive(s, f, t, i)
               \/ Release(s)
        PROVE  LockedOut'
    BY <1>2, <1>3, <2>1, <2>5 DEF Receive, Release, Inv, TypeOK
  <2>6. ASSUME NEW s \in Slots, Admit(s) PROVE LockedOut'
    <3>1. pc[s] = "received" /\ pc[s] # "idle" /\ Caller(s) # NULL /\ Proceed(s, "admitted", Caller(s))
      BY <2>6 DEF Admit, At
    <3>2. job[s].tok \in tokens /\ TimelyClaims(job[s].tok, Clock(job[s].inst)) /\ Caller(s).role = job[s].tok.role
      BY <1>3, <3>1, CallerFacts
    <3>3. /\ job[s].inst \in Instances /\ job[s].tok.exp \in Nat /\ Clock(job[s].inst) \in Nat
      BY <1>3, <3>1, <3>2, FormFacts, AccessAssumption DEF Inv, TypeOK, TokenOK, Time, Clock
    <3>4. Caller(s).role # "admin"
      BY <1>3, <3>2, <3>3 DEF LockedOut, TimelyClaims
    <3>5. QED
      BY <1>2, <1>3, <2>1, <3>1, <3>4 DEF Proceed
  <2>7. ASSUME NEW s \in Slots, LoginFound(s) PROVE LockedOut'
    <3>1. PICK u \in UserIds :
            /\ users[u] # NULL
            /\ Proceed(s, "found", [id |-> u, password |-> users[u].password, role |-> users[u].role])
      BY <2>7 DEF LoginFound
    <3>2. PICK c : c = [id |-> u, password |-> users[u].password, role |-> users[u].role]
      OBVIOUS
    <3>3. c.role # "admin"
      BY <1>3, <3>1, <3>2 DEF LockedOut
    <3>4. pc' = [pc EXCEPT ![s] = "found"] /\ ctx' = [ctx EXCEPT ![s] = c] /\ now' = now /\ tokens' = tokens
      BY <3>1, <3>2 DEF Proceed
    <3>5. QED
      BY <1>2, <1>3, <2>1, <3>3, <3>4
  <2>8. ASSUME NEW s \in Slots, Handle(s), ~Admit(s), ~LoginFound(s) PROVE LockedOut'
    <3>1. \A t \in tokens' : t \in tokens \/ t.role # "admin"
      BY <1>3, <2>8 DEF Handle, LoginMalformed, LoginUnknown, LoginQueryFails,
         LoginWrongPassword, LoginNoRole, LoginIssue, GenerateHumanToken, LockedOut, At, Unauthorized,
         Forbidden, RefuseUser, CreateUser, CreateUserFails, ListUsers, DeleteUser,
         StatementFails, Abandon, Answered
    <3>2. /\ ctx' = [ctx EXCEPT ![s] = ctx[s]] /\ now' = now
          /\ \/ pc' = [pc EXCEPT ![s] = "done"]
             \/ pc' = [pc EXCEPT ![s] = "detached"] /\ pc[s] = "admitted"
      BY <1>3, <2>8 DEF Handle, LoginMalformed, LoginUnknown, LoginQueryFails,
         LoginWrongPassword, LoginNoRole, LoginIssue, Unauthorized, Forbidden, RefuseUser,
         CreateUser, CreateUserFails, ListUsers, DeleteUser, StatementFails, Abandon, InFlight, At,
         Answered, Finish, Inv, TypeOK
    <3>3. pc[s] = "admitted" => ctx[s].role # "admin"
      BY <1>3 DEF LockedOut
    <3>4. QED
      BY <1>2, <1>3, <2>1, <3>1, <3>2, <3>3
  <2>9. QED
    BY <1>3, <2>2, <2>3, <2>4, <2>5, <2>6, <2>7, <2>8 DEF Next
<1>4. Inv /\ [Next]_vars => [LockedOut => LockedOut' /\ users' = users]_vars
  BY <1>1, <1>3
<1>5. QED
  BY <1>4, Invariance, PTL DEF Spec, LockoutIsPermanent
=============================================================================
