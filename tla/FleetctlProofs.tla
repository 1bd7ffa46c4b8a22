--------------------------- MODULE FleetctlProofs ---------------------------
(***************************************************************************)
(* Proofs about Fleetctl, for any number of commands, servers, satellites  *)
(* and runs.  A command's own state is its own: what another can disturb   *)
(* is the satellites, whose standing only moves on, and the file, which    *)
(* only a login writes.                                                    *)
(***************************************************************************)
EXTENDS Fleetctl, TLAPS

\* A step of p leaves the state of the other commands alone.
Frame(p) ==
    \A q \in Procs \ {p} :
        /\ pc'[q] = pc[q] /\ cmd'[q] = cmd[q] /\ cfg'[q] = cfg[q]
        /\ wire'[q] = wire[q] /\ ans'[q] = ans[q] /\ out'[q] = out[q]
        /\ q \in crossed' <=> q \in crossed

\* A satellite that is not the operator's never becomes it; gone is gone.
SatsGrow ==
    \A v \in Servers, i \in Ids :
        /\ sats[v][i] \in {"manual", "gone"} => sats'[v][i] \in {"manual", "gone"}
        /\ sats[v][i] = "gone" => sats'[v][i] = "gone"

\* What a command knows of itself outlives the steps of others.
LEMMA Others ==
    ASSUME Inv, NEW p \in Procs, Frame(p), SatsGrow, NEW q \in Procs \ {p}
    PROVE  StageOK(q)' /\ WireOK(q)' /\ DeleteOK(q)' /\ CarriedOK(q)'
<1> USE FleetctlAssumption
<1>1. StageOK(q) /\ WireOK(q) /\ DeleteOK(q) /\ CarriedOK(q)
  BY DEF Inv
<1>2. /\ pc'[q] = pc[q] /\ cmd'[q] = cmd[q] /\ cfg'[q] = cfg[q]
      /\ wire'[q] = wire[q] /\ ans'[q] = ans[q] /\ out'[q] = out[q]
      /\ q \in crossed' <=> q \in crossed
  BY DEF Frame
<1>3. StageOK(q)' /\ WireOK(q)'
  BY <1>1, <1>2 DEF StageOK, WireOK
<1>4. ASSUME cfg[q] \in Config, cmd[q].id \in Ids
      PROVE  /\ Deletable(sats, q) => Deletable(sats, q)'
             /\ Deleted(sats, q) => Deleted(sats, q)'
  <2>1. cfg[q].server \in Servers
    BY <1>4 DEF Config
  <2>2. QED
    BY <1>2, <1>4, <2>1 DEF SatsGrow, Deletable, Deleted
<1>5. ASSUME pc[q] # "idle", cmd[q].op = "delete",
             pc[q] \in {"owner", "waiting", "answered", "ok"} \/ (wire[q] # NULL /\ wire[q].call = "delete")
      PROVE  cfg[q] \in Config /\ (pc[q] = "ok" \/ cmd[q].id \in Ids)
  BY <1>1, <1>5 DEF StageOK, WireOK, Ended
<1>6. DeleteOK(q)'
  BY <1>1, <1>2, <1>4, <1>5 DEF DeleteOK
<1>7. CarriedOK(q)'
  BY <1>1, <1>2 DEF CarriedOK, Home
<1>8. QED
  BY <1>3, <1>6, <1>7

\* So a step of p preserves the invariant if it does for p, and keeps the
\* types and what is said of the file.
LEMMA Combine ==
    ASSUME Inv, NEW p \in Procs, Frame(p), SatsGrow, TypeOK', FileOK',
           StageOK(p)', WireOK(p)', DeleteOK(p)', CarriedOK(p)'
    PROVE  Inv'
<1>1. \A q \in Procs : StageOK(q)' /\ WireOK(q)' /\ DeleteOK(q)' /\ CarriedOK(q)'
  BY Others
<1>2. QED
  BY <1>1 DEF Inv

\* Only Truncate and Write touch the file.
LEMMA SameFile ==
    ASSUME Inv, file' = file, fileCrossed' = fileCrossed
    PROVE  FileOK'
BY DEF Inv, FileOK, Home

\* A command that fails and changes nothing else.
LEMMA FailInv ==
    ASSUME Inv, NEW p \in Procs, Running(p), Fail(p)
    PROVE  Inv'
<1> USE FleetctlAssumption DEF Fail, Goto
<1>1. TypeOK'
  BY DEF Inv, TypeOK, Stages, Ended
<1>2. pc'[p] = "failed" /\ pc[p] # "idle" /\ Frame(p) /\ SatsGrow
  BY DEF Inv, TypeOK, Frame, SatsGrow, Running, Ended
<1>3. StageOK(p) /\ WireOK(p) /\ DeleteOK(p)
  BY DEF Inv
<1>4. StageOK(p)'
  BY <1>2, <1>3 DEF StageOK, Ended
<1>5. WireOK(p)'
  BY <1>2, <1>3 DEF WireOK
<1>6. DeleteOK(p)'
  BY <1>2, <1>3 DEF DeleteOK, Deletable, Deleted
<1>7. CarriedOK(p)'
  BY <1>2 DEF Inv, CarriedOK, Home
<1>8. QED
  BY <1>1, <1>2, <1>4, <1>5, <1>6, <1>7, SameFile, Combine

\* What Load returns.
LEMMA LoadOK ==
    ASSUME NEW c \in Command, NEW f \in Config \cup {Empty, NULL}
    PROVE  /\ Load(c, f) \in Config
           /\ (c.server = NULL /\ (f \notin {NULL, Empty} => Home(f))) => Home(Load(c, f))
<1> USE FleetctlAssumption
<1>1. c.server \in Servers \cup {NULL}
  BY DEF Command
<1>2. CASE f \in {NULL, Empty}
  BY <1>1, <1>2 DEF Load, Config, Home
<1>3. CASE f \notin {NULL, Empty}
  BY <1>1, <1>3 DEF Load, Config, Home
<1>4. QED
  BY <1>2, <1>3

\* A command starts.
LEMMA BeginInv ==
    ASSUME Inv, NEW p \in Procs, NEW c \in Commands, Begin(p, c)
    PROVE  Inv'
<1> USE FleetctlAssumption DEF Begin
<1>1. TypeOK'
  BY DEF Inv, TypeOK, Stages, Ended
<1>2. /\ pc'[p] = "begun" /\ cmd'[p] = c /\ cfg'[p] = NULL /\ wire'[p] = NULL /\ c \in Command
      /\ Frame(p) /\ SatsGrow
  BY DEF Inv, TypeOK, Frame, SatsGrow
<1>3. StageOK(p)'
  BY <1>2 DEF StageOK, Ended
<1>4. WireOK(p)' /\ DeleteOK(p)'
  BY <1>2 DEF WireOK, DeleteOK
<1>5. CarriedOK(p)'
  BY <1>2 DEF CarriedOK
<1>6. QED
  BY <1>1, <1>2, <1>3, <1>4, <1>5, SameFile, Combine

\* The password is read before login's client is made, after that of user create.
LEMMA ReadPasswordInv ==
    ASSUME Inv, NEW p \in Procs, ReadPassword(p)
    PROVE  Inv'
<1> USE FleetctlAssumption DEF ReadPassword, Goto
<1>1. TypeOK'
  BY DEF Inv, TypeOK, Stages, Ended
<1>2. pc'[p] = "keyed" /\ pc[p] \in {"begun", "client"} /\ Frame(p) /\ SatsGrow
  BY DEF Inv, TypeOK, Frame, SatsGrow, Prompting
<1>3. /\ pc[p] = "begun" => cmd[p].op = "login"
      /\ pc[p] = "client" => cmd[p].op = "user create"
  BY DEF Prompting
<1>4. StageOK(p) /\ WireOK(p) /\ DeleteOK(p)
  BY DEF Inv
<1>5. StageOK(p)'
  BY <1>2, <1>3, <1>4 DEF StageOK, Ended
<1>6. WireOK(p)'
  BY <1>2, <1>4 DEF WireOK
<1>7. DeleteOK(p)'
  BY <1>2, <1>3 DEF DeleteOK
<1>8. CarriedOK(p)'
  BY <1>2 DEF Inv, CarriedOK, Home
<1>9. QED
  BY <1>1, <1>2, <1>5, <1>6, <1>7, <1>8, SameFile, Combine

\* Options.Client: what it loads from the file is a login's, or the default.
LEMMA ClientInv ==
    ASSUME Inv, NEW p \in Procs, Client(p)
    PROVE  Inv'
<1> USE FleetctlAssumption DEF Client, Goto
<1> DEFINE c == Load(cmd[p], file)
<1>1. pc[p] \in {"begun", "keyed"} /\ cmd[p] \in Command /\ cmd[p] \in Commands
  BY DEF Inv, StageOK, AtClient, Ended
<1>2. c \in Config
  BY <1>1, LoadOK DEF Inv, TypeOK
<1>3. TypeOK'
  BY <1>2 DEF Inv, TypeOK, Stages, Ended
<1>4. pc'[p] = "client" /\ cfg'[p] = c /\ Frame(p) /\ SatsGrow
  BY DEF Inv, TypeOK, Frame, SatsGrow
<1>5. StageOK(p) /\ WireOK(p) /\ DeleteOK(p)
  BY DEF Inv
<1>6. cmd[p].op \in {"get", "delete"} => cmd[p].id \in Ids
  <2>1. cmd[p].id \in Ids \cup {BadId, NULL}
    BY <1>1 DEF Command
  <2>2. cmd[p].op \in {"get", "delete"} => cmd[p].id # NULL /\ cmd[p].id # BadId
    BY <1>1 DEF AtClient, BadArguments
  <2>3. QED
    BY <2>1, <2>2
<1>7. StageOK(p)'
  BY <1>1, <1>2, <1>4, <1>6 DEF StageOK
<1>8. wire[p] = NULL
  BY <1>1, <1>5 DEF WireOK
<1>9. WireOK(p)' /\ DeleteOK(p)'
  BY <1>4, <1>8 DEF WireOK, DeleteOK
<1>10. CarriedOK(p)'
  <2> SUFFICES ASSUME cmd[p].server = NULL, p \notin crossed' PROVE Home(c)
    BY <1>4 DEF CarriedOK, Home
  <2>1. ~fileCrossed
    BY DEF Inv, TypeOK
  <2>2. file \in Config \cup {Empty, NULL} /\ (file \notin {NULL, Empty} => Home(file))
    BY <2>1 DEF Inv, TypeOK, FileOK
  <2>3. QED
    BY <1>1, <2>2, LoadOK
<1>11. QED
  BY <1>3, <1>4, <1>7, <1>9, <1>10, SameFile, Combine

\* Request, AskOwner and DeleteOwner.
LEMMA SendInv ==
    ASSUME Inv, NEW p \in Procs, NEW call, NEW stage, Send(p, call, stage),
           pc[p] \in {"keyed", "client", "owner"}, cfg[p] \in Config,
           pc[p] = "keyed" => cmd[p].op # "login",
           \/ stage = "waiting" /\ call = cmd[p].op
           \/ stage = "asking" /\ call = "get" /\ cmd[p].op = "delete",
           (cmd[p].op = "delete" /\ stage = "waiting") => Deletable(sats, p)
    PROVE  Inv'
<1> USE FleetctlAssumption DEF Send
<1> DEFINE w == [call |-> call, server |-> cfg[p].server,
                 token |-> IF call = "login" THEN NULL ELSE cfg[p].token, id |-> cmd[p].id]
<1>1. cmd[p] \in Commands /\ cmd[p] \in Command
  BY DEF Inv, StageOK
<1>2. /\ cmd[p].op \in {"get", "delete"} => cmd[p].id \in Ids
      /\ cmd[p].id \in Ids \cup {NULL}
  <2>1. cmd[p].op \in {"get", "delete"} => cmd[p].id \in Ids
    BY DEF Inv, StageOK, Ended
  <2>2. cmd[p].op \notin {"get", "delete"} => cmd[p].id = NULL
    BY <1>1
  <2>3. QED
    BY <2>1, <2>2
<1>3. w \in Message
  <2>1. cmd[p].op \in Simple \cup {"login", "delete"} /\ call \in Simple \cup {"login", "delete"}
    BY <1>1 DEF Command, Simple
  <2>2. cfg[p].server \in Servers /\ cfg[p].token \in Servers \cup {NULL}
    BY DEF Config
  <2>3. QED
    BY <1>2, <2>1, <2>2 DEF Message
<1>4. TypeOK'
  <2>1. wire' \in [Procs -> Message \cup {NULL}]
    BY <1>3 DEF Inv, TypeOK
  <2>2. QED
    BY <2>1 DEF Inv, TypeOK, Stages, Ended
<1>5. /\ pc'[p] = stage /\ wire'[p] = w /\ w # NULL /\ cmd' = cmd /\ cfg' = cfg /\ sats' = sats
      /\ Frame(p) /\ SatsGrow
  BY <1>3 DEF Inv, TypeOK, Frame, SatsGrow
<1>6. StageOK(p)'
  BY <1>1, <1>2, <1>5 DEF StageOK, Ended
<1>7. WireOK(p)'
  BY <1>2, <1>5 DEF WireOK
<1>8. DeleteOK(p)'
  BY <1>5 DEF DeleteOK, Deletable
<1>9. CarriedOK(p)'
  <2>1. cfg'[p] = cfg[p] /\ crossed' = crossed /\ pc[p] # "idle"
    OBVIOUS
  <2>2. QED
    BY <1>5, <2>1 DEF Inv, CarriedOK, Home
<1>10. QED
  BY <1>4, <1>5, <1>6, <1>7, <1>8, <1>9, SameFile, Combine

\* The answer has the expected status; for delete the satellite is gone.
LEMMA SucceedInv ==
    ASSUME Inv, NEW p \in Procs, Succeed(p)
    PROVE  Inv'
<1> USE FleetctlAssumption DEF Succeed, Goto
<1>1. TypeOK'
  BY DEF Inv, TypeOK, Stages, Ended
<1>2. pc'[p] = "ok" /\ Frame(p) /\ SatsGrow
  BY DEF Inv, TypeOK, Frame, SatsGrow
<1>3. StageOK(p) /\ WireOK(p) /\ DeleteOK(p)
  BY DEF Inv
<1>4. StageOK(p)'
  BY <1>2, <1>3 DEF StageOK, Ended
<1>5. WireOK(p)'
  BY <1>2, <1>3 DEF WireOK
<1>6. DeleteOK(p)'
  <2>1. cmd[p].op = "delete" => Deleted(sats, p) /\ cmd[p].id \in Ids
    BY <1>3 DEF DeleteOK, StageOK, StatusOK, Ended
  <2>2. QED
    BY <1>2, <1>3, <2>1 DEF DeleteOK, WireOK, Deleted
<1>7. CarriedOK(p)'
  BY <1>2 DEF Inv, CarriedOK, Home
<1>8. QED
  BY <1>1, <1>2, <1>4, <1>5, <1>6, <1>7, SameFile, Combine

\* login's second Load names the server its token came from, or it is crossed.
LEMMA ReloadInv ==
    ASSUME Inv, NEW p \in Procs, Reload(p)
    PROVE  Inv'
<1> USE FleetctlAssumption DEF Reload, Accepted, Goto
<1> DEFINE c == [Load(cmd[p], file) EXCEPT !.token = ans[p].token]
<1>1. StageOK(p) /\ WireOK(p) /\ DeleteOK(p) /\ cmd[p] \in Command /\ ans[p] \in Answer
  BY DEF Inv, StageOK
<1>2. /\ c \in Config /\ c.token = ans[p].token /\ c.server = Load(cmd[p], file).server
  <2>1. Load(cmd[p], file) \in Config
    BY <1>1, LoadOK DEF Inv, TypeOK
  <2>2. ans[p].token \in Servers \cup {NULL}
    BY <1>1 DEF Answer
  <2>3. QED
    BY <2>1, <2>2 DEF Config
<1>3. TypeOK'
  <2>1. out' \in [Procs -> Config \cup {NULL}]
    BY <1>2 DEF Inv, TypeOK
  <2>2. QED
    BY <2>1 DEF Inv, TypeOK, Stages, Ended
<1>4. pc'[p] = "reloaded" /\ out'[p] = c /\ Frame(p) /\ SatsGrow
  BY DEF Inv, TypeOK, Frame, SatsGrow
<1>5. StageOK(p)'
  BY <1>1, <1>2, <1>4 DEF StageOK, Ended
<1>6. WireOK(p)' /\ DeleteOK(p)'
  BY <1>1, <1>4 DEF WireOK, DeleteOK
<1>7. CarriedOK(p)'
  <2> SUFFICES ASSUME p \notin crossed' PROVE Home(c)
    BY <1>1, <1>4 DEF CarriedOK, Home
  <2>1. Load(cmd[p], file).server = cfg[p].server
    BY DEF Crosses, Inv, TypeOK
  <2>2. ans[p].token \in {NULL, cfg[p].server}
    BY DEF Inv, CarriedOK
  <2>3. QED
    BY <1>2, <2>1, <2>2 DEF Home
<1>8. QED
  BY <1>3, <1>4, <1>5, <1>6, <1>7, SameFile, Combine

\* Options.Save, both halves.
LEMMA SaveInv ==
    ASSUME Inv, NEW p \in Procs, Truncate(p) \/ Write(p)
    PROVE  Inv'
<1> USE FleetctlAssumption DEF Truncate, Write
<1>1. StageOK(p) /\ WireOK(p) /\ DeleteOK(p) /\ out[p] \in Config /\ cmd[p].op = "login"
  BY DEF Inv, StageOK
<1>2. TypeOK'
  <2>1. fileCrossed' \in BOOLEAN
    <3>1. fileCrossed' = FALSE \/ fileCrossed' = (p \in crossed)
      BY Zenon
    <3>2. (p \in crossed) = TRUE \/ (p \in crossed) = FALSE
      OBVIOUS
    <3>3. QED
      BY <3>1, <3>2
  <2>2. file' \in Config \cup {Empty, NULL} /\ pc' \in [Procs -> Stages]
    BY <1>1 DEF Inv, TypeOK, Stages, Ended
  <2>3. QED
    BY <2>1, <2>2 DEF Inv, TypeOK
<1>3. /\ \/ pc[p] = "reloaded" /\ pc'[p] = "truncated" /\ file' = Empty
         \/ pc[p] = "truncated" /\ pc'[p] = "ok" /\ file' = out[p]
      /\ Frame(p) /\ SatsGrow
  BY DEF Inv, TypeOK, Frame, SatsGrow
<1>4. StageOK(p)'
  BY <1>1, <1>3 DEF StageOK, Ended
<1>5. WireOK(p)' /\ DeleteOK(p)'
  BY <1>1, <1>3 DEF WireOK, DeleteOK
<1>6. FileOK'
  <2>1. pc[p] = "truncated" /\ p \notin crossed => Home(out[p])
    BY DEF Inv, CarriedOK
  <2>2. QED
    BY <2>1 DEF FileOK, Home
<1>7. CarriedOK(p)'
  BY <1>1, <1>3 DEF Inv, CarriedOK, Home
<1>8. QED
  BY <1>2, <1>3, <1>4, <1>5, <1>6, <1>7, Combine

\* The fields of an answer.
LEMMA PlainFields ==
    ASSUME NEW a, NEW k, a = Plain(k)
    PROVE  a.code = k /\ a.token = NULL /\ ~a.operator
BY DEF Plain, Reply

\* Whose token an answer carries that tells of no satellite, and that it is
\* not one get or delete goes on with.
LEMMA AnswerToken ==
    ASSUME NEW w, NEW a, Answers(w, a)
    PROVE  /\ a.token \in {NULL, w.server}
           /\ w.call \in {"get", "delete"} => a.code \notin {200, 204}
<1>1. \/ w.call = "login" /\ a = Reply(200, w.server, FALSE)
      \/ w.call \notin {"get", "delete"} /\ (a = Plain(200) \/ a = Plain(201) \/ a = Plain(403))
      \/ a = Plain(401) \/ a = Plain(500)
  BY DEF Answers, HealthAnswer, LoginAnswer, Unauthorized, UserAnswer
<1>2. CASE w.call = "login" /\ a = Reply(200, w.server, FALSE)
  BY <1>2 DEF Reply
<1>3. CASE w.call \notin {"get", "delete"} /\ (a = Plain(200) \/ a = Plain(201) \/ a = Plain(403))
  BY <1>3, PlainFields
<1>4. CASE a = Plain(401) \/ a = Plain(500)
  BY <1>4, PlainFields
<1>5. QED
  BY <1>1, <1>2, <1>3, <1>4

\* The contract of the satellite routes, read by a client.
LEMMA OutcomeFacts ==
    ASSUME NEW op, NEW id, NEW table \in [Ids -> Standing], NEW o \in Outcomes(op, id, table),
           op \in {"get", "delete"} => id \in Ids
    PROVE  /\ o.sats \in [Ids -> Standing]
           /\ \A i \in Ids : Lives(table[i], o.sats[i])
           /\ (op = "get" /\ o.code = 200 /\ ~o.operator) => o.sats[id] = "manual"
           /\ (op = "delete" /\ o.code = 204 /\ table[id] \in {"manual", "gone"})
                => o.sats[id] = "gone"
<1> USE DEF Standing, Lives, Moves, Outcome
<1>1. CASE op = "create"
  BY <1>1 DEF Outcomes
<1>2. CASE op = "list"
  BY <1>2 DEF Outcomes
<1>3. CASE op = "get"
  <2>1. /\ o.sats = table
        /\ o.code = 200 => table[id] \in {"manual", "operator"}
    BY <1>3 DEF Outcomes
  <2>2. CASE table[id] = "operator"
    <3>1. o = Outcome(table, 200, table[id] = "operator")
      BY <1>3, <2>2 DEF Outcomes
    <3>2. o.operator
      BY <2>2, <3>1, Zenon DEF Outcome
    <3>3. QED
      BY <1>3, <2>1, <3>2
  <2>3. CASE table[id] # "operator"
    BY <1>3, <2>1, <2>3
  <2>4. QED
    BY <2>2, <2>3
<1>4. CASE op = "delete"
  BY <1>4 DEF Outcomes
<1>5. QED
  BY <1>1, <1>2, <1>3, <1>4 DEF Outcomes

\* A satellite that lives as the contract says grows as the invariant needs.
LEMMA LivesOn ==
    ASSUME NEW old, NEW new, Lives(old, new)
    PROVE  /\ old \in {"manual", "gone"} => new \in {"manual", "gone"}
           /\ old = "gone" => new = "gone"
BY DEF Lives, Moves

\* What a Control Plane does with a request, and what its answer says.
LEMMA ServedOK ==
    ASSUME Inv, NEW w \in Message, NEW a \in Answer, Served(w, a),
           w.call \in {"get", "delete"} => w.id \in Ids
    PROVE  /\ sats' \in [Servers -> [Ids -> Standing]] /\ SatsGrow
           /\ a.token \in {NULL, w.server}
           /\ (w.call = "get" /\ a.code = 200 /\ ~a.operator)
                => sats'[w.server][w.id] = "manual"
           /\ (w.call = "delete" /\ a.code = 204 /\ sats[w.server][w.id] \in {"manual", "gone"})
                => sats'[w.server][w.id] = "gone"
<1> USE FleetctlAssumption
<1>1. w.server \in Servers /\ sats \in [Servers -> [Ids -> Standing]]
  BY DEF Inv, TypeOK, Message
<1>2. CASE Answers(w, a) /\ UNCHANGED sats
  <2>1. /\ a.token \in {NULL, w.server}
        /\ w.call \in {"get", "delete"} => a.code \notin {200, 204}
    BY <1>2, AnswerToken
  <2>2. QED
    BY <1>1, <1>2, <2>1 DEF SatsGrow
<1>3. ASSUME NEW o \in Outcomes(w.call, w.id, sats[w.server]),
             a = Reply(o.code, NULL, o.operator), sats' = [sats EXCEPT ![w.server] = o.sats]
      PROVE  /\ sats' \in [Servers -> [Ids -> Standing]] /\ SatsGrow
             /\ a.token \in {NULL, w.server}
             /\ (w.call = "get" /\ a.code = 200 /\ ~a.operator)
                  => sats'[w.server][w.id] = "manual"
             /\ (w.call = "delete" /\ a.code = 204 /\ sats[w.server][w.id] \in {"manual", "gone"})
                  => sats'[w.server][w.id] = "gone"
  <2>1. sats[w.server] \in [Ids -> Standing]
    BY <1>1
  <2>2. /\ o.sats \in [Ids -> Standing]
        /\ \A i \in Ids : Lives(sats[w.server][i], o.sats[i])
        /\ (w.call = "get" /\ o.code = 200 /\ ~o.operator) => o.sats[w.id] = "manual"
        /\ (w.call = "delete" /\ o.code = 204 /\ sats[w.server][w.id] \in {"manual", "gone"})
             => o.sats[w.id] = "gone"
    BY <1>3, <2>1, OutcomeFacts
  <2>3. a.token = NULL /\ a.code = o.code /\ a.operator = o.operator
    BY <1>3 DEF Reply
  <2>4. sats'[w.server] = o.sats /\ \A v \in Servers \ {w.server} : sats'[v] = sats[v]
    BY <1>1, <1>3
  <2>5. SatsGrow
    BY <2>2, <2>4, LivesOn DEF SatsGrow
  <2>6. sats' \in [Servers -> [Ids -> Standing]]
    BY <1>1, <1>3, <2>2
  <2>7. QED
    BY <2>2, <2>3, <2>4, <2>5, <2>6
<1>4. QED
  BY <1>2, <1>3 DEF Served

\* A request is served and its answer heard.
LEMMA ServeInv ==
    ASSUME Inv, NEW p \in Procs, Serve(p)
    PROVE  Inv'
<1> USE FleetctlAssumption
<1> DEFINE w == wire[p]
<1>1. StageOK(p) /\ WireOK(p) /\ DeleteOK(p) /\ w \in Message /\ w # NULL
  BY DEF Inv, TypeOK, Serve
<1>2. PICK a \in Answer :
        /\ Served(w, a)
        /\ ans' = IF Waiting(p) THEN [ans EXCEPT ![p] = a] ELSE ans
  BY DEF Serve
<1>3. w.call \in {"get", "delete"} => w.id \in Ids
  BY <1>1 DEF WireOK
<1>4. /\ sats' \in [Servers -> [Ids -> Standing]] /\ SatsGrow
      /\ a.token \in {NULL, w.server}
      /\ (w.call = "get" /\ a.code = 200 /\ ~a.operator) => sats'[w.server][w.id] = "manual"
      /\ (w.call = "delete" /\ a.code = 204 /\ sats[w.server][w.id] \in {"manual", "gone"})
           => sats'[w.server][w.id] = "gone"
  BY <1>1, <1>2, <1>3, ServedOK
<1>5. /\ pc[p] \in {"asking", "waiting", "failed"}
      /\ w.server = cfg[p].server /\ w.id = cmd[p].id /\ cfg[p] \in Config
      /\ pc[p] = "waiting" => w.call = cmd[p].op
      /\ pc[p] = "asking" => w.call = "get"
  BY <1>1 DEF WireOK
<1>6. /\ \/ pc[p] = "asking" /\ pc'[p] = "owner" /\ ans'[p] = a
         \/ pc[p] = "waiting" /\ pc'[p] = "answered" /\ ans'[p] = a
         \/ pc[p] = "failed" /\ pc'[p] = "failed"
      /\ wire'[p] = NULL /\ cmd' = cmd /\ cfg' = cfg /\ out' = out /\ file' = file
      /\ crossed' = crossed /\ fileCrossed' = fileCrossed /\ runs' = runs /\ Frame(p)
  BY <1>2, <1>5 DEF Inv, TypeOK, Serve, Waiting, Frame
<1>7. TypeOK'
  <2>1. ans' \in [Procs -> Answer \cup {NULL}]
    BY <1>2 DEF Inv, TypeOK
  <2>2. pc' \in [Procs -> Stages] /\ wire' \in [Procs -> Message \cup {NULL}]
    BY DEF Inv, TypeOK, Serve, Stages
  <2>3. QED
    BY <1>4, <1>6, <2>1, <2>2 DEF Inv, TypeOK
<1>8. StageOK(p)'
  BY <1>1, <1>5, <1>6 DEF StageOK, Ended
<1>9. WireOK(p)'
  BY <1>6 DEF WireOK
<1>10. DeleteOK(p)'
  <2> SUFFICES ASSUME cmd[p].op = "delete" PROVE DeleteOK(p)'
    BY <1>6 DEF DeleteOK
  <2>1. CASE pc[p] = "asking"
    BY <1>4, <1>5, <1>6, <2>1 DEF DeleteOK, Deletable
  <2>2. CASE pc[p] = "waiting"
    <3>1. Deletable(sats, p) /\ w.call = "delete" /\ w.id \in Ids /\ w.server \in Servers
      BY <1>1, <1>3, <1>5, <2>2 DEF DeleteOK, Config
    <3>2. sats[w.server][w.id] \in {"manual", "gone"} /\ sats'[w.server][w.id] \in {"manual", "gone"}
      BY <1>4, <1>5, <3>1 DEF Deletable, SatsGrow
    <3>3. QED
      BY <1>4, <1>5, <1>6, <2>2, <3>1, <3>2 DEF DeleteOK, Deletable, Deleted
  <2>3. CASE pc[p] = "failed"
    BY <1>6, <2>3 DEF DeleteOK
  <2>4. QED
    BY <1>5, <2>1, <2>2, <2>3
<1>11. CarriedOK(p)'
  <2>1. CarriedOK(p)
    BY DEF Inv
  <2>2. QED
    BY <1>4, <1>5, <1>6, <2>1 DEF CarriedOK, Home
<1>12. QED
  BY <1>4, <1>6, <1>7, <1>8, <1>9, <1>10, <1>11, SameFile, Combine

\* ServeUnheard and RequestLost: p is not told.
LEMMA UnheardInv ==
    ASSUME Inv, NEW p \in Procs, ServeUnheard(p) \/ RequestLost(p)
    PROVE  Inv'
<1> USE FleetctlAssumption
<1>1. StageOK(p) /\ WireOK(p) /\ DeleteOK(p) /\ wire[p] \in Message /\ wire[p] # NULL
  BY DEF Inv, TypeOK, ServeUnheard, RequestLost
<1>2. /\ wire' = [wire EXCEPT ![p] = NULL]
      /\ UNCHANGED <<file, pc, cmd, cfg, ans, out, runs, crossed, fileCrossed>>
  BY DEF ServeUnheard, RequestLost
<1>3. sats' \in [Servers -> [Ids -> Standing]] /\ SatsGrow
  <2>1. CASE RequestLost(p)
    BY <2>1 DEF RequestLost, Inv, TypeOK, SatsGrow
  <2>2. CASE ServeUnheard(p)
    <3>1. PICK a \in Answer : Served(wire[p], a)
      BY <2>2 DEF ServeUnheard
    <3>2. wire[p].call \in {"get", "delete"} => wire[p].id \in Ids
      BY <1>1 DEF WireOK
    <3>3. QED
      BY <1>1, <3>1, <3>2, ServedOK
  <2>3. QED
    BY <2>1, <2>2
<1>4. TypeOK'
  BY <1>2, <1>3 DEF Inv, TypeOK
<1>5. Frame(p) /\ wire'[p] = NULL
  BY <1>2 DEF Frame, Inv, TypeOK
<1>6. StageOK(p)' /\ WireOK(p)'
  BY <1>1, <1>2, <1>5 DEF StageOK, WireOK
<1>7. DeleteOK(p)'
  <2> SUFFICES ASSUME cmd[p].op = "delete" PROVE DeleteOK(p)'
    BY <1>2 DEF DeleteOK
  <2>1. /\ pc[p] \in {"asking", "waiting", "failed"} /\ cfg[p].server \in Servers
        /\ pc[p] = "waiting" => cmd[p].id \in Ids
    BY <1>1 DEF WireOK, StageOK, Config, Ended
  <2>2. pc[p] = "waiting" => Deletable(sats, p)
    BY <1>1, <2>1 DEF DeleteOK
  <2>3. pc[p] = "waiting" => Deletable(sats, p)'
    BY <1>2, <1>3, <2>1, <2>2 DEF Deletable, SatsGrow
  <2>4. QED
    BY <1>2, <1>5, <2>1, <2>3 DEF DeleteOK
<1>8. CarriedOK(p)'
  BY <1>2 DEF Inv, CarriedOK, Home
<1>9. QED
  BY <1>2, <1>3, <1>4, <1>5, <1>6, <1>7, <1>8, SameFile, Combine

\* Others create and delete satellites.
LEMMA ElsewhereInv ==
    ASSUME Inv, NEW v \in Servers, NEW i \in Ids, Elsewhere(v, i)
    PROVE  Inv'
<1> USE FleetctlAssumption DEF Elsewhere
<1>1. sats' \in [Servers -> [Ids -> Standing]] /\ SatsGrow
  BY LivesOn DEF Inv, TypeOK, SatsGrow
<1>2. TypeOK'
  BY <1>1 DEF Inv, TypeOK
<1>3. FileOK'
  BY SameFile
<1>4. ASSUME NEW q \in Procs PROVE StageOK(q)' /\ WireOK(q)' /\ DeleteOK(q)' /\ CarriedOK(q)'
  <2>1. StageOK(q) /\ WireOK(q) /\ DeleteOK(q)
    BY DEF Inv
  <2>2. StageOK(q)' /\ WireOK(q)'
    BY <2>1 DEF StageOK, WireOK
  <2>3. ASSUME cfg[q] \in Config, cmd[q].id \in Ids
        PROVE  /\ Deletable(sats, q) => Deletable(sats, q)'
               /\ Deleted(sats, q) => Deleted(sats, q)'
    BY <1>1, <2>3 DEF SatsGrow, Deletable, Deleted, Config
  <2>4. ASSUME pc[q] # "idle", cmd[q].op = "delete",
               pc[q] \in {"owner", "waiting", "answered", "ok"} \/ (wire[q] # NULL /\ wire[q].call = "delete")
        PROVE  cfg[q] \in Config /\ (pc[q] = "ok" \/ cmd[q].id \in Ids)
    BY <2>1, <2>4 DEF StageOK, WireOK, Ended
  <2>5. DeleteOK(q)'
    BY <2>1, <2>3, <2>4 DEF DeleteOK
  <2>6. CarriedOK(q)'
    BY DEF Inv, CarriedOK, Home
  <2>7. QED
    BY <2>2, <2>5, <2>6
<1>5. QED
  BY <1>2, <1>3, <1>4 DEF Inv

\* The configuration at the start is a login's or none.
LEMMA InitInv == Init => Inv
<1> SUFFICES ASSUME Init PROVE Inv
  OBVIOUS
<1> USE FleetctlAssumption DEF Init
<1>1. TypeOK
  <2>1. \A v \in Servers : [server |-> v, token |-> v] \in Config
    BY DEF Config
  <2>2. file \in Config \cup {Empty, NULL}
    BY <2>1
  <2>3. sats \in [Servers -> [Ids -> Standing]] /\ crossed \subseteq Procs /\ fileCrossed \in BOOLEAN
    BY Zenon
  <2>4. pc \in [Procs -> Stages]
    BY DEF Stages, Ended
  <2>5. /\ cmd \in [Procs -> Command \cup {NULL}] /\ cfg \in [Procs -> Config \cup {NULL}]
        /\ wire \in [Procs -> Message \cup {NULL}] /\ ans \in [Procs -> Answer \cup {NULL}]
        /\ out \in [Procs -> Config \cup {NULL}]
    BY Zenon
  <2>6. runs \in 0..MaxRuns
    OBVIOUS
  <2>7. QED
    BY <2>2, <2>3, <2>4, <2>5, <2>6, Zenon DEF TypeOK
<1>2. \A p \in Procs : StageOK(p) /\ WireOK(p) /\ DeleteOK(p) /\ CarriedOK(p)
  BY DEF StageOK, WireOK, DeleteOK, CarriedOK, Ended
<1>3. FileOK
  BY DEF FileOK, Home
<1>4. QED
  BY <1>1, <1>2, <1>3 DEF Inv

\* A step of a command's own.
LEMMA StepInv ==
    ASSUME Inv, NEW p \in Procs, Step(p)
    PROVE  Inv'
<1> USE DEF Ended
<1>1. CASE \/ RejectArguments(p) \/ PasswordRefused(p) \/ NotLoggedIn(p) \/ LoadFails(p)
           \/ NoAnswer(p) \/ StatusError(p) \/ OutputFails(p) \/ DeleteRefused(p) \/ SaveFails(p)
  <2>1. Running(p) /\ Fail(p)
    BY <1>1 DEF RejectArguments, PasswordRefused, Prompting, NotLoggedIn, LoadFails, AtClient, Accepted,
       NoAnswer, Waiting, StatusError, OutputFails, DeleteRefused, SaveFails, Running
  <2>2. QED
    BY <2>1, FailInv
<1>2. CASE Request(p)
  <2>1. /\ Send(p, cmd[p].op, "waiting") /\ cmd[p].op # "delete"
        /\ pc[p] \in {"keyed", "client"} /\ (pc[p] = "keyed" => cmd[p].op # "login")
    BY <1>2 DEF Request
  <2>2. cfg[p] \in Config
    BY <2>1 DEF Inv, StageOK
  <2>3. QED
    BY <2>1, <2>2, SendInv
<1>3. CASE AskOwner(p)
  <2>1. Send(p, "get", "asking") /\ cmd[p].op = "delete" /\ pc[p] = "client"
    BY <1>3 DEF AskOwner
  <2>2. cfg[p] \in Config
    BY <2>1 DEF Inv, StageOK
  <2>3. QED
    BY <2>1, <2>2, SendInv
<1>4. CASE DeleteOwner(p)
  <2>1. /\ Send(p, "delete", "waiting") /\ pc[p] = "owner"
        /\ ans[p].code = 200 /\ ~ans[p].operator
    BY <1>4 DEF DeleteOwner
  <2>2. cfg[p] \in Config /\ cmd[p].op = "delete"
    BY <2>1 DEF Inv, StageOK
  <2>3. Deletable(sats, p)
    BY <2>1, <2>2 DEF Inv, DeleteOK
  <2>4. QED
    BY <2>1, <2>2, <2>3, SendInv
<1>5. CASE ReadPassword(p)
  BY <1>5, ReadPasswordInv
<1>6. CASE Client(p)
  BY <1>6, ClientInv
<1>7. CASE Succeed(p)
  BY <1>7, SucceedInv
<1>8. CASE Reload(p)
  BY <1>8, ReloadInv
<1>9. CASE Truncate(p) \/ Write(p)
  BY <1>9, SaveInv
<1>10. QED
  BY <1>1, <1>2, <1>3, <1>4, <1>5, <1>6, <1>7, <1>8, <1>9 DEF Step

\* Every step preserves the invariant.
LEMMA NextInv == Inv /\ [Next]_vars => Inv'
<1> SUFFICES ASSUME Inv, [Next]_vars PROVE Inv'
  OBVIOUS
<1>1. CASE \E p \in Procs, c \in Commands : Begin(p, c)
  BY <1>1, BeginInv
<1>2. CASE \E p \in Procs : Step(p)
  BY <1>2, StepInv
<1>3. CASE \E p \in Procs : Interrupt(p)
  BY <1>3, FailInv DEF Interrupt
<1>4. CASE \E p \in Procs : Serve(p)
  BY <1>4, ServeInv
<1>5. CASE \E p \in Procs : ServeUnheard(p) \/ RequestLost(p)
  BY <1>5, UnheardInv
<1>6. CASE \E v \in Servers, i \in Ids : Elsewhere(v, i)
  BY <1>6, ElsewhereInv
<1>7. CASE UNCHANGED vars
  <2> USE <1>7 DEF vars
  <2>1. TypeOK'
    BY DEF Inv, TypeOK
  <2>2. ASSUME NEW p \in Procs PROVE StageOK(p)' /\ WireOK(p)' /\ DeleteOK(p)' /\ CarriedOK(p)'
    <3>1. StageOK(p) /\ WireOK(p) /\ DeleteOK(p) /\ CarriedOK(p)
      BY DEF Inv
    <3>2. StageOK(p)' /\ WireOK(p)'
      BY <3>1 DEF StageOK, WireOK
    <3>3. DeleteOK(p)' /\ CarriedOK(p)'
      BY <3>1 DEF DeleteOK, Deletable, Deleted, CarriedOK, Home
    <3>4. QED
      BY <3>2, <3>3
  <2>3. QED
    BY <2>1, <2>2, SameFile DEF Inv
<1>8. QED
  BY <1>1, <1>2, <1>3, <1>4, <1>5, <1>6, <1>7 DEF Next

\* The invariant holds in every execution of any number of commands.
THEOREM Invariance == Spec => []Inv
<1>1. QED
  BY InitInv, NextInv, PTL DEF Spec

\* The variables keep their types.
THEOREM TypeCorrect == Spec => []TypeOK
<1>1. Inv => TypeOK
  BY DEF Inv
<1>2. QED
  BY <1>1, Invariance, PTL

\* A command without --server sends a token only to the server that issued
\* it, unless the file it read was saved by a login whose second Load, after
\* the answer (root.go:71), named another server than its first: runtime.go's
\* truncating Save and any other overlap of commands do no such harm.
THEOREM TokensTheorem == Spec => []TokensStayHome
<1>1. Inv => TokensStayHome
  <2> SUFFICES ASSUME Inv, NEW p \in Procs, wire[p] # NULL, cmd[p].server = NULL, p \notin crossed
               PROVE  wire[p].token \in {NULL, wire[p].server}
    BY DEF TokensStayHome
  <2>1. /\ pc[p] # "idle" /\ cfg[p] \in Config /\ wire[p].server = cfg[p].server
        /\ wire[p].token = IF cmd[p].op = "login" THEN NULL ELSE cfg[p].token
    BY DEF Inv, WireOK
  <2>2. cmd[p].op # "login" => Home(cfg[p])
    BY <2>1, FleetctlAssumption DEF Inv, CarriedOK
  <2>3. QED
    BY <2>1, <2>2 DEF Home
<1>2. QED
  BY <1>1, Invariance, PTL

\* No DELETE is on its way to a satellite of the operator, however old the
\* answer to delete's question is.
THEOREM OwnedTheorem == Spec => []OwnedUntouched
<1>1. Inv => OwnedUntouched
  <2> SUFFICES ASSUME Inv, NEW p \in Procs, wire[p] # NULL, wire[p].call = "delete"
               PROVE  sats[wire[p].server][wire[p].id] \in {"manual", "gone"}
    BY DEF OwnedUntouched
  <2>1. /\ pc[p] # "idle" /\ wire[p].server = cfg[p].server /\ wire[p].id = cmd[p].id
        /\ cmd[p].op = "delete"
    BY DEF Inv, WireOK
  <2>2. Deletable(sats, p)
    BY <2>1 DEF Inv, DeleteOK
  <2>3. QED
    BY <2>1, <2>2 DEF Deletable
<1>2. QED
  BY <1>1, Invariance, PTL

\* delete reports success only for a satellite that is gone, and stays so.
THEOREM DeletedTheorem == Spec => []DeletedMeansGone
<1>1. Inv => DeletedMeansGone
  BY DEF Inv, DeleteOK, Deleted, DeletedMeansGone
<1>2. QED
  BY <1>1, Invariance, PTL

-----------------------------------------------------------------------------
(* Why every command ends: the part of Terminates that is not temporal. *)

\* How many steps command p has before it at most.
Left(p) ==
    IF pc[p] = "begun" THEN 9
    ELSE IF pc[p] = "keyed" /\ cmd[p].op = "login" THEN 8
    ELSE IF pc[p] = "client" THEN 7
    ELSE IF pc[p] \in {"keyed", "asking"} THEN 6
    ELSE IF pc[p] = "owner" THEN 5
    ELSE IF pc[p] = "waiting" THEN 4
    ELSE IF pc[p] = "answered" THEN 3
    ELSE IF pc[p] = "reloaded" THEN 2
    ELSE IF pc[p] = "truncated" THEN 1 ELSE 0

\* A step of p's own brings it nearer its end, and none sends it back.
Advances(p) ==
    /\ Step(p) => Left(p)' < Left(p)
    /\ Running(p) => Left(p)' <= Left(p)

LEMMA StepAdvances ==
    ASSUME Inv, NEW p \in Procs, Step(p)
    PROVE  Left(p)' < Left(p)
<1>0. pc \in [Procs -> Stages] /\ StageOK(p)
  BY DEF Inv, TypeOK
<1>1. cmd' = cmd
  BY DEF Step, RejectArguments, ReadPassword, PasswordRefused, Client, NotLoggedIn, LoadFails,
     Request, AskOwner, NoAnswer, StatusError, Succeed, OutputFails, DeleteOwner, DeleteRefused,
     Reload, Truncate, Write, SaveFails, Fail, Goto, Send
<1>2. ASSUME Running(p), pc'[p] \in {"ok", "failed"} PROVE Left(p)' < Left(p)
  <2>1. Left(p)' = 0
    BY <1>2 DEF Left
  <2>2. Left(p) \in 1..9
    BY <1>0, <1>2 DEF Left, Running, Ended, Stages
  <2>3. QED
    BY <2>1, <2>2
<1>3. ASSUME Fail(p), Running(p) PROVE Left(p)' < Left(p)
  BY <1>0, <1>2, <1>3 DEF Fail, Goto
<1>4. CASE \/ RejectArguments(p) \/ PasswordRefused(p) \/ NotLoggedIn(p) \/ LoadFails(p)
           \/ NoAnswer(p) \/ StatusError(p) \/ OutputFails(p) \/ DeleteRefused(p) \/ SaveFails(p)
  BY <1>3, <1>4 DEF RejectArguments, PasswordRefused, Prompting, NotLoggedIn, LoadFails, AtClient,
     Accepted, NoAnswer, Waiting, StatusError, OutputFails, DeleteRefused, SaveFails, Running, Ended
<1>5. CASE Succeed(p) \/ Write(p)
  BY <1>0, <1>2, <1>5 DEF Succeed, Write, Goto, Running, Ended
<1>6. CASE ReadPassword(p)
  <2>1. pc'[p] = "keyed" /\ cmd'[p] = cmd[p]
    BY <1>0, <1>1, <1>6 DEF ReadPassword, Goto
  <2>2. CASE cmd[p].op = "login"
    <3>1. Left(p) = 9
      BY <1>6, <2>2 DEF ReadPassword, Prompting, Left
    <3>2. Left(p)' = 8
      BY <2>1, <2>2 DEF Left
    <3>3. QED
      BY <3>1, <3>2
  <2>3. CASE cmd[p].op # "login"
    <3>1. Left(p) = 7
      BY <1>6, <2>3 DEF ReadPassword, Prompting, Left
    <3>2. Left(p)' = 6
      BY <2>1, <2>3 DEF Left
    <3>3. QED
      BY <3>1, <3>2
  <2>4. QED
    BY <2>2, <2>3
<1>7. CASE Client(p)
  BY <1>0, <1>1, <1>7 DEF Client, AtClient, Goto, Left
<1>8. CASE Request(p)
  <2>1. pc'[p] = "waiting"
    BY <1>0, <1>8 DEF Request, Send
  <2>2. Left(p)' = 4
    BY <2>1 DEF Left
  <2>3. Left(p) \in {6, 7}
    BY <1>8 DEF Request, Left
  <2>4. QED
    BY <2>2, <2>3
<1>9. CASE AskOwner(p) \/ DeleteOwner(p)
  BY <1>0, <1>9 DEF AskOwner, DeleteOwner, Send, Left
<1>10. CASE Reload(p) \/ Truncate(p)
  BY <1>0, <1>10 DEF Reload, Accepted, Truncate, Goto, Left
<1>11. QED
  BY <1>4, <1>5, <1>6, <1>7, <1>8, <1>9, <1>10 DEF Step

LEMMA NextAdvances ==
    ASSUME Inv, [Next]_vars, NEW p \in Procs
    PROVE  Advances(p)
<1> SUFFICES ASSUME Running(p) PROVE Left(p)' <= Left(p)
  BY StepAdvances DEF Advances
<1>0. pc \in [Procs -> Stages] /\ cmd \in [Procs -> Command \cup {NULL}] /\ Left(p) \in Nat
  BY DEF Inv, TypeOK, Left
<1>1. ASSUME pc'[p] = pc[p], cmd'[p] = cmd[p] PROVE Left(p)' <= Left(p)
  BY <1>0, <1>1 DEF Left
<1>2. ASSUME NEW q \in Procs, Step(q) PROVE Left(p)' <= Left(p)
  <2>1. CASE q = p
    <3>1. Left(p)' < Left(p) /\ Left(p)' \in Nat
      BY <1>2, <2>1, StepAdvances DEF Left
    <3>2. QED
      BY <1>0, <3>1
  <2>2. CASE q # p
    <3>1. pc'[p] = pc[p] /\ cmd'[p] = cmd[p]
      BY <1>0, <1>2, <2>2 DEF Step, RejectArguments, ReadPassword, PasswordRefused, Client,
         NotLoggedIn, LoadFails, Request, AskOwner, NoAnswer, StatusError, Succeed, OutputFails,
         DeleteOwner, DeleteRefused, Reload, Truncate, Write, SaveFails, Fail, Goto, Send
    <3>2. QED
      BY <1>1, <3>1
  <2>3. QED
    BY <2>1, <2>2
<1>3. ASSUME NEW q \in Procs, \E c \in Commands : Begin(q, c) PROVE Left(p)' <= Left(p)
  BY <1>0, <1>1, <1>3 DEF Begin, Running
<1>4. ASSUME NEW q \in Procs, Interrupt(q) PROVE Left(p)' <= Left(p)
  <2>1. (pc'[p] = pc[p] \/ pc'[p] = "failed") /\ cmd' = cmd
    BY <1>0, <1>4 DEF Interrupt, Fail, Goto
  <2>2. pc'[p] = "failed" => Left(p)' = 0
    BY DEF Left
  <2>3. QED
    BY <1>0, <1>1, <2>1, <2>2
<1>5. ASSUME NEW q \in Procs, Serve(q) PROVE Left(p)' <= Left(p)
  BY <1>0, <1>5 DEF Serve, Left
<1>6. ASSUME NEW q \in Procs, ServeUnheard(q) \/ RequestLost(q) PROVE Left(p)' <= Left(p)
  BY <1>1, <1>6 DEF ServeUnheard, RequestLost
<1>7. CASE (\E v \in Servers, i \in Ids : Elsewhere(v, i)) \/ UNCHANGED vars
  BY <1>1, <1>7 DEF Elsewhere, vars
<1>8. QED
  BY <1>2, <1>3, <1>4, <1>5, <1>6, <1>7 DEF Next

\* Each step of a command brings it nearer its end, and neither the servers,
\* the network nor other commands send it back: it asks nothing twice, retries
\* no create after a timeout, and after nine steps of its own it has ended.
THEOREM AdvanceTheorem == Spec => [][\A p \in Procs : Advances(p)]_vars
<1>1. Inv /\ [Next]_vars => [\A p \in Procs : Advances(p)]_vars
  BY NextAdvances
<1>2. QED
  BY Invariance, <1>1, PTL DEF Spec
=============================================================================
