----------------------------- MODULE PoolProofs -----------------------------
(***************************************************************************)
(* Proofs about Pool, for any number of requests and connections and any   *)
(* environments.                                                           *)
(*                                                                         *)
(* The inductive invariant joins the pool's books (NoLeak) with what a     *)
(* process that got past a step of main knows (Standing) and what a health *)
(* check has seen (Witnessed).                                             *)
(***************************************************************************)
EXTENDS Pool, Naturals, TLAPS

\* Past NewJWTManager the configuration is a good one; and since PostgreSQL's
\* coming is noticed at any time, met is true whenever it is there.
Standing ==
    /\ phase # "down" => cfg \in Config /\ NewJWTManager(cfg)
    /\ phase # "down" /\ up => met
    /\ phase = "serving" => met

\* A health check under way has seen PostgreSQL if it is there, and so has
\* one that was answered "ok"; only a request that is done has an answer.
Witnessed ==
    /\ \A r \in Slots : (kind[r] = "health" /\ Active(r) /\ up) => r \in sawUp
    /\ \A r \in Slots : pc[r] # "done" => answer[r] = NULL
    /\ HealthIsHonest

\* The inductive invariant.
Inv == TypeOK /\ NoLeak /\ Standing /\ Witnessed

-----------------------------------------------------------------------------
(* The initial states. *)

LEMMA InitInv == Init => Inv
<1> SUFFICES ASSUME Init PROVE Inv
  OBVIOUS
<1>1. TypeOK
  BY DEF Init, TypeOK
<1>2. NoLeak
  BY PoolAssumption DEF Init, NoLeak
<1>3. Standing
  BY DEF Init, Standing
<1>4. Witnessed
  BY PoolAssumption DEF Init, Witnessed, HealthIsHonest, Active
<1>5. QED
  BY <1>1, <1>2, <1>3, <1>4 DEF Inv

-----------------------------------------------------------------------------
(* The books. *)

\* A handler that ends, or goes back to waiting, puts its connection back.
LEMMA PutBack ==
    ASSUME TypeOK, NoLeak, NEW r \in Slots, pc[r] \in {"running", "reading"},
           NEW x, x \notin {"running", "reading"}, pc' = [pc EXCEPT ![r] = x],
           GiveBack(r) \/ Discard(r)
    PROVE  NoLeak' /\ conn' \in [Slots -> Conns \cup {NULL}] /\ taken' \subseteq Conns
                   /\ closing' \subseteq Conns
<1>1. conn[r] \in Conns /\ conn[r] # NULL
  BY PoolAssumption DEF TypeOK, NoLeak
<1>2. conn' = [conn EXCEPT ![r] = NULL] /\ taken' = taken \ {conn[r]}
  BY DEF GiveBack, Discard
<1>3. closing' \subseteq closing \cup {conn[r]}
  BY DEF GiveBack, Discard
<1>4. ASSUME NEW q \in Slots, q # r PROVE conn'[q] = conn[q] /\ pc'[q] = pc[q]
  BY <1>2, <1>4 DEF TypeOK
<1>5. conn'[r] = NULL /\ pc'[r] = x
  BY <1>2 DEF TypeOK
<1>6. ASSUME NEW c \in taken' PROVE \E q \in Slots : conn'[q] = c
  <2>1. PICK q \in Slots : conn[q] = c
    BY <1>2 DEF NoLeak
  <2>2. q # r
    BY <1>2, <2>1
  <2>3. QED
    BY <1>4, <2>1, <2>2
<1>7. ASSUME NEW q \in Slots, conn'[q] # NULL PROVE conn'[q] \in taken' \ closing'
  BY <1>2, <1>3, <1>4, <1>5, <1>7 DEF NoLeak
<1>8. ASSUME NEW q \in Slots PROVE conn'[q] # NULL <=> pc'[q] \in {"running", "reading"}
  BY <1>4, <1>5 DEF NoLeak
<1>9. ASSUME NEW p \in Slots, NEW q \in Slots, conn'[p] # NULL, conn'[p] = conn'[q]
      PROVE  p = q
  BY <1>4, <1>5, <1>9 DEF NoLeak
<1>10. NoLeak'
  BY <1>6, <1>7, <1>8, <1>9 DEF NoLeak
<1>11. QED
  BY <1>1, <1>2, <1>3, <1>10 DEF TypeOK

\* A waiting handler takes a connection that nobody has.
LEMMA TakeOut ==
    ASSUME TypeOK, NoLeak, NEW r \in Slots, Acquire(r)
    PROVE  NoLeak' /\ conn' \in [Slots -> Conns \cup {NULL}] /\ taken' \subseteq Conns
<1>1. PICK c \in Free : conn' = [conn EXCEPT ![r] = c] /\ taken' = taken \cup {c}
  BY DEF Acquire
<1>2. c \in Conns /\ c # NULL /\ c \notin taken /\ c \notin closing
  BY PoolAssumption DEF Free
<1>3. pc[r] = "waiting" /\ pc' = [pc EXCEPT ![r] = "running"] /\ closing' = closing
  BY DEF Acquire
<1>4. conn[r] = NULL
  BY <1>3 DEF NoLeak
<1>5. ASSUME NEW q \in Slots, q # r PROVE conn'[q] = conn[q] /\ pc'[q] = pc[q]
  BY <1>1, <1>3, <1>5 DEF TypeOK
<1>6. conn'[r] = c /\ pc'[r] = "running"
  BY <1>1, <1>3 DEF TypeOK
<1>7. ASSUME NEW d \in taken' PROVE \E q \in Slots : conn'[q] = d
  <2>1. CASE d = c
    BY <2>1, <1>6
  <2>2. CASE d \in taken
    <3>1. PICK q \in Slots : conn[q] = d
      BY <2>2 DEF NoLeak
    <3>2. q # r
      BY <3>1, <2>2, <1>4, PoolAssumption DEF TypeOK
    <3>3. QED
      BY <3>1, <3>2, <1>5
  <2>3. QED
    BY <1>1, <2>1, <2>2
<1>8. ASSUME NEW q \in Slots, conn'[q] # NULL PROVE conn'[q] \in taken' \ closing'
  BY <1>1, <1>2, <1>3, <1>5, <1>6, <1>8 DEF NoLeak
<1>9. ASSUME NEW q \in Slots PROVE conn'[q] # NULL <=> pc'[q] \in {"running", "reading"}
  BY <1>2, <1>5, <1>6 DEF NoLeak
<1>10. ASSUME NEW p \in Slots, NEW q \in Slots, conn'[p] # NULL, conn'[p] = conn'[q]
      PROVE  p = q
  BY <1>2, <1>5, <1>6, <1>10 DEF NoLeak
<1>11. NoLeak'
  BY <1>7, <1>8, <1>9, <1>10 DEF NoLeak
<1>12. QED
  BY <1>1, <1>2, <1>11 DEF TypeOK

\* The books are not touched, nor the line between handlers that are at a
\* statement and handlers that are not.
LEMMA SameBooks ==
    ASSUME NoLeak, UNCHANGED <<conn, taken>>, closing' \subseteq closing,
           \A r \in Slots : pc'[r] \in {"running", "reading"} <=> pc[r] \in {"running", "reading"}
    PROVE  NoLeak'
BY DEF NoLeak

-----------------------------------------------------------------------------
(* The steps. *)

\* A handler answers, "ok" only while PostgreSQL is there.
LEMMA EndInv ==
    ASSUME Inv, NEW r \in Slots, NEW a \in {"ok", "error"}, Active(r), a = "ok" => up,
           End(r, a), NoLeak', conn' \in [Slots -> Conns \cup {NULL}],
           taken' \subseteq Conns, closing' \subseteq Conns
    PROVE  Inv'
<1>1. TypeOK'
  BY DEF Inv, TypeOK, End, process
<1>2. Standing'
  BY DEF Inv, Standing, End, process, NewJWTManager
<1>3. \A q \in Slots : q # r => pc'[q] = pc[q] /\ answer'[q] = answer[q]
  BY DEF Inv, TypeOK, End
<1>4. pc'[r] = "done" /\ answer'[r] = a
  BY DEF Inv, TypeOK, End
<1>5. Witnessed'
  BY <1>3, <1>4 DEF Inv, Witnessed, HealthIsHonest, Active, End
<1>6. QED
  BY <1>1, <1>2, <1>5 DEF Inv

\* What PostgreSQL does for a request.
LEMMA OutcomeInv ==
    ASSUME Inv, NEW r \in Slots, Outcome(r)
    PROVE  Inv'
<1> USE DEF Inv
<1>1. CASE Completes(r) \/ CheckEnds(r) \/ RowsRead(r)
  BY <1>1, PutBack, EndInv DEF Completes, CheckEnds, RowsRead, End, Active
<1>2. CASE ScanFails(r) \/ StatementFails(r)
  BY <1>2, PutBack, EndInv DEF ScanFails, StatementFails, End, Active
<1>3. CASE CheckPasses(r)
  <2>1. NoLeak' /\ conn' \in [Slots -> Conns \cup {NULL}] /\ taken' \subseteq Conns
                /\ closing' \subseteq Conns
    BY <1>3, PutBack DEF CheckPasses
  <2>2. TypeOK'
    BY <1>3, <2>1 DEF CheckPasses, TypeOK, process
  <2>3. Standing'
    BY <1>3 DEF CheckPasses, Standing, process, NewJWTManager
  <2>4. Witnessed'
    BY <1>3 DEF CheckPasses, TypeOK, Witnessed, HealthIsHonest, Active
  <2>5. QED
    BY <2>1, <2>2, <2>3, <2>4
<1>4. CASE RowsOpen(r)
  <2>1. NoLeak'
    BY <1>4, SameBooks DEF RowsOpen, Keep, books, TypeOK
  <2>2. TypeOK'
    BY <1>4 DEF RowsOpen, TypeOK, process, Keep, books
  <2>3. Standing'
    BY <1>4 DEF RowsOpen, Standing, process, NewJWTManager
  <2>4. Witnessed'
    BY <1>4 DEF RowsOpen, TypeOK, Witnessed, HealthIsHonest, Active
  <2>5. QED
    BY <2>1, <2>2, <2>3, <2>4
<1>5. QED
  BY <1>1, <1>2, <1>3, <1>4 DEF Outcome

\* The handler's other steps.
LEMMA RequestInv ==
    ASSUME Inv, NEW r \in Slots,
           \/ \E k \in Kinds : Arrive(r, k)
           \/ ClientLeaves(r) \/ TimeIsUp(r)
           \/ Acquire(r) \/ GivesUp(r) \/ Interrupted(r) \/ Release(r)
    PROVE  Inv'
<1> USE DEF Inv
<1>1. ASSUME NEW k \in Kinds, Arrive(r, k) PROVE Inv'
  <2>1. NoLeak'
    BY <1>1, SameBooks DEF Arrive, Keep, books, TypeOK
  <2>2. TypeOK'
    BY <1>1 DEF Arrive, TypeOK, process, Keep, books
  <2>3. Standing'
    BY <1>1 DEF Arrive, Standing, process, NewJWTManager
  <2>4. Witnessed'
    BY <1>1, PoolAssumption DEF Arrive, TypeOK, Witnessed, HealthIsHonest, Active
  <2>5. QED
    BY <2>1, <2>2, <2>3, <2>4
<1>2. CASE ClientLeaves(r)
  BY <1>2 DEF ClientLeaves, TypeOK, NoLeak, Standing, NewJWTManager, Witnessed,
              HealthIsHonest, Active, process, books
<1>3. CASE TimeIsUp(r)
  BY <1>3 DEF TimeIsUp, TypeOK, NoLeak, Standing, NewJWTManager, Witnessed,
              HealthIsHonest, Active, process, books
<1>4. CASE Acquire(r)
  <2>1. NoLeak' /\ conn' \in [Slots -> Conns \cup {NULL}] /\ taken' \subseteq Conns
    BY <1>4, TakeOut
  <2>2. TypeOK'
    BY <1>4, <2>1 DEF Acquire, TypeOK, process
  <2>3. Standing'
    BY <1>4 DEF Acquire, Standing, process, NewJWTManager
  <2>4. Witnessed'
    BY <1>4 DEF Acquire, TypeOK, Witnessed, HealthIsHonest, Active
  <2>5. QED
    BY <2>1, <2>2, <2>3, <2>4
<1>5. CASE GivesUp(r)
  <2>1. NoLeak'
    BY <1>5, SameBooks DEF GivesUp, End, Keep, books, TypeOK
  <2>2. QED
    BY <1>5, <2>1, EndInv DEF GivesUp, Keep, books, TypeOK, Active
<1>6. CASE Interrupted(r)
  BY <1>6, PutBack, EndInv DEF Interrupted, End, Active
<1>7. CASE Release(r)
  <2>1. NoLeak'
    BY <1>7, SameBooks DEF Release, Keep, books, TypeOK
  <2>2. TypeOK'
    BY <1>7 DEF Release, TypeOK, process, Keep, books
  <2>3. Standing'
    BY <1>7 DEF Release, Standing, process, NewJWTManager
  <2>4. Witnessed'
    BY <1>7, PoolAssumption DEF Release, TypeOK, Witnessed, HealthIsHonest, Active
  <2>5. QED
    BY <2>1, <2>2, <2>3, <2>4
<1>8. QED
  BY <1>1, <1>2, <1>3, <1>4, <1>5, <1>6, <1>7

\* The process starts, serves and stops.
LEMMA ProcessInv ==
    ASSUME Inv, (\E e \in Environments : Start(e)) \/ Connected \/ Stop
    PROVE  Inv'
<1> USE DEF Inv
<1>1. ASSUME NEW e \in Environments, Start(e) PROVE Inv'
  <2>1. cfg' \in Config
    BY <1>1, PoolAssumption DEF Start, Load, getEnv, Config, Environment, Text
  <2>2. TypeOK'
    BY <1>1, <2>1 DEF Start, TypeOK, books
  <2>3. NoLeak' /\ Witnessed'
    BY <1>1 DEF Start, NoLeak, Witnessed, HealthIsHonest, Active, books
  <2>4. Standing'
    BY <1>1, <2>1 DEF Start, Standing, NewJWTManager
  <2>5. QED
    BY <2>2, <2>3, <2>4
<1>2. CASE Connected
  BY <1>2 DEF Connected, TypeOK, NoLeak, Standing, NewJWTManager, Witnessed,
              HealthIsHonest, Active, books
<1>3. CASE Stop
  <2>1. TypeOK' /\ Standing'
    BY <1>3 DEF Stop, TypeOK, Standing
  <2>2. NoLeak' /\ Witnessed'
    BY <1>3, PoolAssumption DEF Stop, NoLeak, Witnessed, HealthIsHonest, Active
  <2>3. QED
    BY <2>1, <2>2
<1>4. QED
  BY <1>1, <1>2, <1>3

\* PostgreSQL and pgxpool.
LEMMA EnvironmentInv ==
    ASSUME Inv, PostgresGoes \/ PostgresComes \/ (\E c \in Conns : Replaced(c))
    PROVE  Inv'
<1> USE DEF Inv
<1>1. CASE PostgresGoes
  BY <1>1 DEF PostgresGoes, TypeOK, NoLeak, Standing, NewJWTManager, Witnessed,
              HealthIsHonest, Active, process, books, Keep
<1>2. CASE PostgresComes
  BY <1>2 DEF PostgresComes, TypeOK, NoLeak, Standing, NewJWTManager, Witnessed,
              HealthIsHonest, Active, books, Keep
<1>3. ASSUME NEW c \in Conns, Replaced(c) PROVE Inv'
  BY <1>3 DEF Replaced, TypeOK, NoLeak, Standing, NewJWTManager, Witnessed,
              HealthIsHonest, Active, process
<1>4. QED
  BY <1>1, <1>2, <1>3

LEMMA NextInv == Inv /\ [Next]_vars => Inv'
<1> SUFFICES ASSUME Inv, [Next]_vars PROVE Inv'
  OBVIOUS
<1>1. CASE UNCHANGED vars
  BY <1>1 DEF vars, Inv, TypeOK, NoLeak, Standing, NewJWTManager, Witnessed,
              HealthIsHonest, Active
<1>2. CASE Next
  BY <1>2, OutcomeInv, RequestInv, ProcessInv, EnvironmentInv DEF Next
<1>3. QED
  BY <1>1, <1>2

-----------------------------------------------------------------------------
(* Results. *)

\* The inductive invariant holds in every reachable state.
THEOREM Invariance == Spec => []Inv
BY InitInv, NextInv, PTL DEF Spec

\* Type correctness.
THEOREM TypeCorrect == Spec => []TypeOK
<1>1. Inv => TypeOK
  BY DEF Inv
<1>2. QED
  BY Invariance, <1>1, PTL

\* No handler of the repositories, of login or of the health check keeps a
\* connection past its statement, gets one that another has, or waits for one
\* while it holds one: for any pool size and any number of requests.
THEOREM ConnectionsAreReturned == Spec => []NoLeak
<1>1. Inv => NoLeak
  BY DEF Inv
<1>2. QED
  BY Invariance, <1>1, PTL

\* main listens only after NewJWTManager accepted the configuration and
\* Connect's ping was answered.
THEOREM ReadyBeforeServing == Spec => []ServesOnlyReady
<1>1. Inv => ServesOnlyReady
  BY DEF Inv, Standing, ServesOnlyReady, NewJWTManager
<1>2. QED
  BY Invariance, <1>1, PTL

\* GET /health says "connected" only if PostgreSQL was there during the check.
THEOREM HealthTells == Spec => []HealthIsHonest
<1>1. Inv => HealthIsHonest
  BY DEF Inv, Witnessed
<1>2. QED
  BY Invariance, <1>1, PTL

-----------------------------------------------------------------------------
(* Why every request ends: the part of EveryRequestEnds that is not temporal. *)

\* How many steps request r has before it at most.
Left(r) ==
    IF pc[r] = "waiting" THEN (IF r \in second THEN 3 ELSE 5)
    ELSE IF pc[r] = "running" THEN (IF r \in second THEN 2 ELSE 4)
    ELSE IF pc[r] = "reading" THEN 1 ELSE 0

\* A step for r brings it nearer its end, and none sends it back.
Advances(r) ==
    /\ (Acquire(r) \/ GivesUp(r) \/ Interrupted(r) \/ Outcome(r)) => Left(r)' < Left(r)
    /\ Active(r) => Left(r)' <= Left(r)

LEMMA StepAdvances ==
    ASSUME Inv, NEW r \in Slots, Acquire(r) \/ GivesUp(r) \/ Interrupted(r) \/ Outcome(r)
    PROVE  Left(r)' < Left(r)
<1>0. pc \in [Slots -> {"idle", "waiting", "running", "reading", "done"}]
  BY DEF Inv, TypeOK
<1>1. ASSUME Active(r), NEW a, End(r, a) PROVE Left(r)' < Left(r)
  BY <1>0, <1>1 DEF Active, End, Left
<1>2. CASE GivesUp(r) \/ Interrupted(r)
  BY <1>1, <1>2 DEF GivesUp, Interrupted, Active
<1>3. CASE Completes(r) \/ CheckEnds(r) \/ RowsRead(r) \/ ScanFails(r) \/ StatementFails(r)
  BY <1>1, <1>3 DEF Completes, CheckEnds, RowsRead, ScanFails, StatementFails, Active
<1>4. CASE Acquire(r)
  BY <1>0, <1>4 DEF Acquire, Left
<1>5. CASE CheckPasses(r)
  BY <1>0, <1>5 DEF CheckPasses, Left
<1>6. CASE RowsOpen(r)
  BY <1>0, <1>6 DEF RowsOpen, Left
<1>7. QED
  BY <1>2, <1>3, <1>4, <1>5, <1>6 DEF Outcome

\* A step for one request leaves the others where they are.
LEMMA OthersStay ==
    ASSUME Inv, NEW q \in Slots, NEW r \in Slots \ {q},
           \/ \E k \in Kinds : Arrive(q, k)
           \/ Acquire(q) \/ GivesUp(q) \/ Interrupted(q) \/ Outcome(q) \/ Release(q)
    PROVE  pc'[r] = pc[r] /\ (r \in second' <=> r \in second)
BY DEF Inv, TypeOK, Arrive, Acquire, GivesUp, Interrupted, Outcome, Completes, CheckEnds,
   CheckPasses, RowsOpen, RowsRead, ScanFails, StatementFails, Release, End

LEMMA NextAdvances ==
    ASSUME Inv, [Next]_vars, NEW r \in Slots
    PROVE  Advances(r)
<1> SUFFICES ASSUME Active(r) PROVE Left(r)' <= Left(r)
  BY StepAdvances DEF Advances
<1>0. Left(r) \in Nat /\ Left(r)' \in Nat
  BY DEF Left
<1>1. ASSUME pc'[r] = pc[r], r \in second' <=> r \in second PROVE Left(r)' <= Left(r)
  <2>1. Left(r)' = Left(r)
    BY <1>1 DEF Left
  <2>2. QED
    BY <1>0, <2>1
<1>2. ASSUME NEW q \in Slots,
             \/ \E k \in Kinds : Arrive(q, k)
             \/ Acquire(q) \/ GivesUp(q) \/ Interrupted(q) \/ Outcome(q) \/ Release(q)
      PROVE  Left(r)' <= Left(r)
  <2>1. CASE q # r
    BY <1>1, <1>2, <2>1, OthersStay
  <2>2. CASE q = r
    <3>1. ~(\E k \in Kinds : Arrive(q, k)) /\ ~Release(q)
      BY <2>2 DEF Active, Arrive, Release
    <3>2. Left(r)' < Left(r)
      BY <1>2, <2>2, <3>1, StepAdvances
    <3>3. QED
      BY <1>0, <3>2
  <2>3. QED
    BY <2>1, <2>2
<1>3. ASSUME NEW q \in Slots, ClientLeaves(q) \/ TimeIsUp(q) PROVE Left(r)' <= Left(r)
  BY <1>1, <1>3 DEF ClientLeaves, TimeIsUp
<1>4. CASE \/ \E e \in Environments : Start(e)
           \/ Connected \/ PostgresGoes \/ PostgresComes
           \/ \E c \in Conns : Replaced(c)
           \/ UNCHANGED vars
  BY <1>1, <1>4 DEF Start, Connected, PostgresGoes, PostgresComes, Replaced, vars
<1>5. CASE Stop
  <2>1. Left(r)' = 0
    BY <1>5 DEF Stop, Left
  <2>2. QED
    BY <1>0, <2>1
<1>6. QED
  BY <1>2, <1>3, <1>4, <1>5 DEF Next

\* Each step of a handler brings its request nearer its end, and neither the
\* pool, PostgreSQL nor other requests send it back: a request goes to the
\* pool twice at most, and no statement is run again after it failed.
THEOREM AdvanceTheorem == Spec => [][\A r \in Slots : Advances(r)]_vars
<1>1. Inv /\ [Next]_vars => [\A r \in Slots : Advances(r)]_vars
  BY NextAdvances
<1>2. QED
  BY Invariance, <1>1, PTL DEF Spec
=============================================================================
