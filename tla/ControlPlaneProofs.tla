------------------------- MODULE ControlPlaneProofs -------------------------
(***************************************************************************)
(* Proofs about ControlPlane, for any number of users, satellites,         *)
(* requests and API processes.                                             *)
(*                                                                         *)
(* First each component's specification is shown to hold of the whole.     *)
(* With AccessControl's invariant thereby at hand, a second invariant      *)
(* follows every satellite request from the middleware to its last write.  *)
(***************************************************************************)
EXTENDS ControlPlane, AccessProofs

-----------------------------------------------------------------------------
(* The parts. *)

\* No step of AccessControl's handlers moves the clock.
LEMMA HandleKeepsTime == ASSUME NEW s \in Slots, Handle(s) PROVE now' = now
BY DEF Handle, LoginMalformed, LoginFound, LoginUnknown, LoginQueryFails,
   LoginWrongPassword, LoginNoRole, LoginIssue, Unauthorized, Forbidden, Admit, RefuseUser,
   CreateUser, CreateUserFails, ListUsers, DeleteUser, StatementFails, Abandon,
   Answered, Finish, Proceed

\* Every step of the whole is a step of AccessControl, or none.
LEMMA AccessStep == [CNext]_cvars => [Next]_vars
<1> SUFFICES ASSUME [CNext]_cvars PROVE Next \/ UNCHANGED vars
  OBVIOUS
<1>1. CASE UNCHANGED cvars
  BY <1>1 DEF cvars
<1>2. ASSUME NEW s \in Slots, Arrive(s) PROVE Next
  BY <1>2 DEF Arrive, Next
<1>3. ASSUME NEW s \in Slots, Enter(s) \/ HandleAccess(s) PROVE Next
  BY <1>3 DEF Enter, HandleAccess, Handle, Next
<1>4. ASSUME NEW s \in Slots, Leave(s) \/ LeaveAccess(s) PROVE Next
  BY <1>4 DEF Leave, LeaveAccess, Next
<1>5. ASSUME NEW s \in Slots, HandleSatellite(s) \/ Settle(s) PROVE UNCHANGED vars
  BY <1>5 DEF HandleSatellite, Settle
<1>6. CASE Elapse
  BY <1>6 DEF Elapse, Next
<1>7. ASSUME NEW i \in Instances, Fall(i) PROVE Next
  BY <1>7 DEF Fall, Next
<1>8. QED
  BY <1>1, <1>2, <1>3, <1>4, <1>5, <1>6, <1>7 DEF CNext

\* Every step of the whole is a step of SatelliteService, or none.
LEMMA SatelliteStep == [CNext]_cvars => [Sat!Next]_(Sat!vars)
<1> SUFFICES ASSUME [CNext]_cvars PROVE Sat!Next \/ UNCHANGED Sat!vars
  OBVIOUS
<1>1. CASE UNCHANGED cvars
  BY <1>1 DEF cvars, satellites, vars, Sat!vars
<1>2. ASSUME NEW s \in Slots, Arrive(s) PROVE UNCHANGED Sat!vars
  BY <1>2 DEF Arrive, Receive, satellites, Sat!vars
<1>3. ASSUME NEW s \in Slots, HandleAccess(s) PROVE UNCHANGED Sat!vars
  BY <1>3, HandleKeepsTime DEF HandleAccess, satellites, Sat!vars
<1>4. ASSUME NEW s \in Slots, Enter(s) PROVE Sat!Next
  BY <1>4 DEF Enter, Sat!Next
<1>5. ASSUME NEW s \in Slots, HandleSatellite(s) PROVE Sat!Next
  BY <1>5 DEF HandleSatellite, Sat!Next
<1>6. ASSUME NEW s \in Slots, Leave(s) PROVE Sat!Next \/ UNCHANGED Sat!vars
  BY <1>6 DEF Leave, Release, satellites, Sat!Next, Sat!vars
<1>7. ASSUME NEW s \in Slots, LeaveAccess(s) PROVE UNCHANGED Sat!vars
  BY <1>7 DEF LeaveAccess, Release, satellites, Sat!vars
<1>8. ASSUME NEW s \in Slots, Settle(s) PROVE Sat!Next
  BY <1>8 DEF Settle, Sat!Next
<1>9. CASE Elapse
  BY <1>9 DEF Elapse, Tick, satellites, Sat!Next, Sat!Tick
<1>10. ASSUME NEW i \in Instances, Fall(i) PROVE Sat!Next
  BY <1>10 DEF Fall, Sat!Next
<1>11. QED
  BY <1>1, <1>2, <1>3, <1>4, <1>5, <1>6, <1>7, <1>8, <1>9, <1>10 DEF CNext

\* NewRouter puts the parts together without changing what either does: the
\* whole implements AccessControl and SatelliteService, and with the latter,
\* by SatelliteProofs' Refinement, the atomic satellite service.
THEOREM Composition == CSpec => PartsIntact
<1>1. CInit => Init /\ Sat!Init
  BY DEF CInit
<1>2. QED
  BY <1>1, AccessStep, SatelliteStep, PTL DEF CSpec, PartsIntact, Spec, Sat!Spec

-----------------------------------------------------------------------------
(* What SatelliteProofs shows of the satellite routes alone, for the whole. *)

SatP == INSTANCE SatelliteProofs WITH pc <- spc, resp <- sresp

\* Sat and SatP are the same instance of the same definitions.
LEMMA SameTypes ==
    /\ Sat!Time = SatP!Time /\ Sat!Row = SatP!Row /\ Sat!Table = SatP!Table
    /\ Sat!Ops = SatP!Ops /\ Sat!Call = SatP!Call
BY DEF Sat!Time, SatP!Time, Sat!Row, SatP!Row, Sat!Table, SatP!Table, Sat!Ops, SatP!Ops,
   Sat!Call, SatP!Call

LEMMA SameInit == /\ Sat!Init => SatP!Init
                  /\ SatP!Atomic!Init => Sat!Atomic!Init
BY DEF Sat!Init, SatP!Init, Sat!Atomic!Init, SatP!Atomic!Init, Sat!phase, SatP!phase

LEMMA SameNext == [Sat!Next]_(Sat!vars) => [SatP!Next]_(SatP!vars)
BY DEF Sat!Time, SatP!Time, Sat!Row, SatP!Row, Sat!Table, SatP!Table, Sat!Ops, SatP!Ops,
   Sat!Call, SatP!Call, Sat!Malformed, SatP!Malformed, Sat!Answer, SatP!Answer, Sat!Reply,
   SatP!Reply, Sat!Guarded, SatP!Guarded, Sat!vars, SatP!vars, Sat!InFlight, SatP!InFlight,
   Sat!Receive, SatP!Receive, Sat!Goto, SatP!Goto, Sat!Finish, SatP!Finish, Sat!Answered,
   SatP!Answered, Sat!At, SatP!At, Sat!RejectMalformed, SatP!RejectMalformed, Sat!NewRow,
   SatP!NewRow, Sat!NameTaken, SatP!NameTaken, Sat!Create, SatP!Create, Sat!CreateConflict,
   SatP!CreateConflict, Sat!List, SatP!List, Sat!GetByID, SatP!GetByID, Sat!CheckAbsent,
   SatP!CheckAbsent, Sat!CheckRefused, SatP!CheckRefused, Sat!CheckPassed, SatP!CheckPassed,
   Sat!SetRegion, SatP!SetRegion, Sat!SetRegionGone, SatP!SetRegionGone, Sat!DeleteRow,
   SatP!DeleteRow, Sat!BeginHeartbeat, SatP!BeginHeartbeat, Sat!UpdateHeartbeat,
   SatP!UpdateHeartbeat, Sat!HeartbeatGone, SatP!HeartbeatGone, Sat!StatementFails,
   SatP!StatementFails, Sat!Abandon, SatP!Abandon, Sat!Release, SatP!Release, Sat!Tick,
   SatP!Tick, Sat!Crash, SatP!Crash, Sat!Handle, SatP!Handle, Sat!Next, SatP!Next

LEMMA SameAtomic == [SatP!Atomic!Next]_(SatP!Atomic!vars) => [Sat!Atomic!Next]_(Sat!Atomic!vars)
BY DEF Sat!phase, SatP!phase, Sat!Atomic!Time, SatP!Atomic!Time, Sat!Atomic!Row,
   SatP!Atomic!Row, Sat!Atomic!Table, SatP!Atomic!Table, Sat!Atomic!Ops, SatP!Atomic!Ops,
   Sat!Atomic!Call, SatP!Atomic!Call, Sat!Atomic!Malformed, SatP!Atomic!Malformed,
   Sat!Atomic!Answer, SatP!Atomic!Answer, Sat!Atomic!Reply, SatP!Atomic!Reply,
   Sat!Atomic!Guarded, SatP!Atomic!Guarded, Sat!Atomic!vars, SatP!Atomic!vars,
   Sat!Atomic!Arrive, SatP!Atomic!Arrive, Sat!Atomic!Finish, SatP!Atomic!Finish,
   Sat!Atomic!Mutation, SatP!Atomic!Mutation, Sat!Atomic!Reject, SatP!Atomic!Reject,
   Sat!Atomic!Fail, SatP!Atomic!Fail, Sat!Atomic!Create, SatP!Atomic!Create,
   Sat!Atomic!List, SatP!Atomic!List, Sat!Atomic!Absent, SatP!Atomic!Absent, Sat!Atomic!Get,
   SatP!Atomic!Get, Sat!Atomic!Refuse, SatP!Atomic!Refuse, Sat!Atomic!Update,
   SatP!Atomic!Update, Sat!Atomic!Delete, SatP!Atomic!Delete, Sat!Atomic!Heartbeat,
   SatP!Atomic!Heartbeat, Sat!Atomic!Apply, SatP!Atomic!Apply, Sat!Atomic!Detach,
   SatP!Atomic!Detach, Sat!Atomic!Release, SatP!Atomic!Release, Sat!Atomic!Tick,
   SatP!Atomic!Tick, Sat!Atomic!Crash, SatP!Atomic!Crash, Sat!Atomic!Next, SatP!Atomic!Next

\* The assumptions under which SatelliteProofs' results hold, as they stand.
LEMMA Assumptions ==
    /\ NULL \notin Names \cup Regions \cup Ids \cup SatP!Time \cup SatP!Row
    /\ BadId \notin Ids \cup {NULL}
    /\ MaxTime \in Nat
    /\ Requests \subseteq SatP!Call
    /\ Seed \in SatP!Table
    /\ \A i, j \in Ids :
          (Seed[i] # NULL /\ Seed[j] # NULL /\ Seed[i].name = Seed[j].name) => i = j
    /\ \A i \in Ids :
          Seed[i] # NULL => (Seed[i].status = "Ready" <=> Seed[i].lastSeen # NULL)
BY SameTypes, SatelliteAssumption, AccessAssumption

\* SatelliteProofs' inductive invariant, and what it says of heartbeats.
LEMMA SatelliteInvariant == CSpec => [](SatP!Inv /\ SatP!SeenIsReady)
<1>1. CInit => SatP!Inv /\ SatP!SeenIsReady
  BY SameInit, SatP!InitInv, SatP!SeenInit, Assumptions DEF CInit
<1>2. SatP!Inv /\ [CNext]_cvars => SatP!Inv'
  BY SatelliteStep, SameNext, SatP!NextInv, Assumptions
<1>3. SatP!Inv /\ SatP!SeenIsReady /\ [CNext]_cvars => SatP!SeenIsReady'
  BY SatelliteStep, SameNext, SatP!SeenNext, Assumptions
<1>4. QED
  BY <1>1, <1>2, <1>3, PTL DEF CSpec

\* The satellite routes are linearizable behind the middleware, next to the
\* user routes and over several processes that come and go.
THEOREM WholeLinearizable == CSpec => Sat!Linearizable
<1>1. CInit => Sat!Atomic!Init
  BY SameInit, SatP!AtomicInit, Assumptions DEF CInit
<1>2. SatP!Inv /\ [CNext]_cvars => [Sat!Atomic!Next]_(Sat!Atomic!vars)
  BY SatelliteStep, SameNext, SatP!AtomicStep, SameAtomic, Assumptions
<1>3. QED
  BY <1>1, <1>2, SatelliteInvariant, PTL DEF CSpec, Sat!Linearizable, Sat!Atomic!Spec

LEMMA SameOwned ==
    /\ \A i \in Ids : Sat!TouchesOwned(i) <=> SatP!TouchesOwned(i)
    /\ \A i \in Ids : Sat!ByOperator(i) <=> SatP!ByOperator(i)
BY DEF Sat!TouchesOwned, SatP!TouchesOwned, Sat!ByOperator, SatP!ByOperator

\* The contract reads alike.
LEMMA SameKept == SatP!Kept => Sat!Kept
BY DEF Sat!Kept, SatP!Kept, Sat!standing, SatP!standing, Sat!Answers, SatP!Answers,
   Sat!ShowsOperator, SatP!ShowsOperator, Sat!Lives, SatP!Lives, Sat!Moves, SatP!Moves,
   Sat!Outcome, SatP!Outcome, Sat!Outcomes, SatP!Outcomes

LEMMA OwnedStep ==
    ASSUME SatP!Inv, [CNext]_cvars, NEW i \in Ids, Sat!TouchesOwned(i)
    PROVE  Sat!ByOperator(i)
<1>1. [SatP!Next]_(SatP!vars) /\ SatP!TouchesOwned(i)
  BY SatelliteStep, SameNext, SameOwned
<1>2. SatP!ByOperator(i)
  BY <1>1, SatP!OwnershipStep, Assumptions
<1>3. QED
  BY <1>2, SameOwned

\* So do the other promises of the satellite routes hold of the whole: the
\* check is never stale, the operator's rows are its own, what is deleted
\* stays deleted, heartbeats are kept and go back only when they overlap, and
\* clients are answered as the contract says.
THEOREM WholeSatellites ==
    CSpec => /\ []Sat!CheckStillValid
             /\ Sat!OwnershipRespected /\ Sat!NoResurrection
             /\ Sat!HeartbeatKept /\ Sat!RegressOnlyByOverlap
             /\ Sat!KeepsContract
<1> DEFINE J == SatP!Inv /\ SatP!SeenIsReady
<1>1. J => Sat!CheckStillValid
  BY DEF SatP!Inv, SatP!CheckStillValid, Sat!CheckStillValid, SatP!Guarded, Sat!Guarded
<1>2. J /\ [CNext]_cvars => [\A i \in Ids : Sat!TouchesOwned(i) => Sat!ByOperator(i)]_(Sat!vars)
  BY OwnedStep
<1>3. J /\ [CNext]_cvars => [Sat!StaysDeleted]_(Sat!vars)
  BY SatelliteStep, SameNext, SatP!DeletedStep, Assumptions DEF Sat!StaysDeleted, SatP!StaysDeleted
<1>4. J /\ [CNext]_cvars => [Sat!StaysSeen]_(Sat!vars)
  BY SatelliteStep, SameNext, SatP!SeenStep, Assumptions DEF Sat!StaysSeen, SatP!StaysSeen
<1>5. J /\ [CNext]_cvars => [\A i \in Ids : Sat!GoesBack(i) => Sat!ByOverlap(i)]_(Sat!vars)
  <2>1. ASSUME J, [CNext]_cvars, NEW i \in Ids, Sat!GoesBack(i) PROVE Sat!ByOverlap(i)
    <3>1. [SatP!Next]_(SatP!vars) /\ SatP!GoesBack(i)
      BY <2>1, SatelliteStep, SameNext DEF Sat!GoesBack, SatP!GoesBack
    <3>2. SatP!ByOverlap(i)
      BY <2>1, <3>1, SatP!RegressStep, Assumptions
    <3>3. QED
      BY <3>2 DEF Sat!ByOverlap, SatP!ByOverlap
  <2>2. QED
    BY <2>1
<1>6. J /\ [CNext]_cvars => [Sat!Kept]_(Sat!vars)
  BY SatelliteStep, SameNext, SatP!ContractStep, SameKept, Assumptions
<1> HIDE DEF J
<1>7. CSpec => []J
  BY SatelliteInvariant DEF J
<1>8. QED
  BY <1>1, <1>2, <1>3, <1>4, <1>5, <1>6, <1>7, PTL
  DEF CSpec, Sat!OwnershipRespected, Sat!NoResurrection, Sat!HeartbeatKept,
      Sat!RegressOnlyByOverlap, Sat!KeepsContract

\* And what AccessProofs shows of the middleware and the user routes holds
\* while satellite requests come, go and outlive their users.
THEOREM WholeAccess ==
    CSpec => /\ []PrincipalSound /\ []FreshTokenAccepted
             /\ AdminOnly /\ RevocationBound /\ LockoutIsPermanent
<1>1. CSpec => Spec
  BY Composition, PTL DEF PartsIntact
<1>2. QED
  BY <1>1, PrincipalTheorem, FreshTheorem, AdminTheorem, RevocationTheorem, LockoutTheorem, PTL

-----------------------------------------------------------------------------
(* Attribution. *)

Author == [who: Human, issued: Time]

\* The satellite request of slot s was admitted for a user registered here,
\* while their token was good.
Attributed(s) ==
    spc[s] # "idle" =>
        /\ by[s] \in Author
        /\ Knows(ledger, by[s].who.subject, by[s].who.role)
        /\ since[s] \in Time /\ since[s] <= now
        /\ Bounded(s)

\* The inductive invariant.
CInv ==
    /\ Inv
    /\ spc \in [Slots -> Sat!Stages]
    /\ since \in [Slots -> Time \cup {NULL}]
    /\ by \in [Slots -> Author \cup {NULL}]
    /\ \A s \in Slots : Attributed(s)

\* An id keeps its entry and its role; its deletion is recorded when it
\* happens.
LEMMA LedgerStep ==
    ASSUME Inv, [Next]_vars, NEW u \in UserIds, ledger[u] # NULL
    PROVE  /\ ledger'[u] # NULL /\ ledger'[u].role = ledger[u].role
           /\ ledger'[u].deletedAt \in {ledger[u].deletedAt, now}
<1>1. ledger[u] \in Entry /\ ledger \in [UserIds -> Entry \cup {NULL}] /\ NULL \notin Entry
  BY AccessAssumption DEF Inv, TypeOK
<1>2. CASE ledger' = ledger
  BY <1>1, <1>2
<1>3. ASSUME NEW s \in Slots, CreateUser(s) PROVE ledger'[u] = ledger[u]
  BY <1>1, <1>3 DEF CreateUser
<1>4. ASSUME NEW s \in Slots, DeleteUser(s)
      PROVE  \/ ledger'[u] = ledger[u]
             \/ ledger'[u] = [ledger[u] EXCEPT !.deletedAt = now]
  BY <1>1, <1>4 DEF DeleteUser
<1>5. ASSUME ledger'[u] = [ledger[u] EXCEPT !.deletedAt = now]
      PROVE  ledger'[u] # NULL /\ ledger'[u].role = ledger[u].role /\ ledger'[u].deletedAt = now
  BY <1>1, <1>5, AccessAssumption DEF Entry, Inv, TypeOK
<1>6. ASSUME NEW s \in Slots, Handle(s), ~CreateUser(s), ~DeleteUser(s) PROVE ledger' = ledger
  BY <1>6 DEF Handle, LoginMalformed, LoginFound, LoginUnknown, LoginQueryFails,
     LoginWrongPassword, LoginNoRole, LoginIssue, Unauthorized, Forbidden, Admit, RefuseUser,
     CreateUserFails, ListUsers, StatementFails, Abandon, Answered, Proceed
<1>7. CASE UNCHANGED vars \/ Tick \/ \E i \in Instances : Crash(i)
  BY <1>2, <1>7 DEF vars, Tick, Crash
<1>8. CASE \E s \in Slots : (\E f \in Forms, t \in tokens \cup Foreign \cup {NULL}, i \in Instances :
                                Receive(s, f, t, i)) \/ Release(s)
  BY <1>2, <1>8 DEF Receive, Release
<1>9. CASE \E s \in Slots : Handle(s)
  BY <1>1, <1>2, <1>3, <1>4, <1>5, <1>6, <1>9
<1>10. QED
  BY <1>7, <1>8, <1>9 DEF Next

\* Time does not go back.
LEMMA TimeStep == Inv /\ [Next]_vars => now \in Nat /\ now' \in Nat /\ now <= now'
<1> SUFFICES ASSUME Inv, [Next]_vars PROVE now \in Nat /\ now' \in Nat /\ now <= now'
  OBVIOUS
<1>1. now \in Nat
  BY DEF Inv, TypeOK, Time
<1>2. CASE Tick
  BY <1>1, <1>2 DEF Tick
<1>3. ASSUME NEW s \in Slots, Handle(s) PROVE now' = now
  BY <1>3, HandleKeepsTime
<1>4. CASE \E s \in Slots : (\E f \in Forms, t \in tokens \cup Foreign \cup {NULL}, i \in Instances :
                                Receive(s, f, t, i)) \/ Release(s)
  BY <1>1, <1>4 DEF Receive, Release
<1>5. CASE UNCHANGED vars \/ \E i \in Instances : Crash(i)
  BY <1>1, <1>5 DEF vars, Crash
<1>6. QED
  BY <1>1, <1>2, <1>3, <1>4, <1>5 DEF Next

\* Whatever the users do meanwhile, a request under way stays attributed.
LEMMA Carried ==
    ASSUME CInv, [Next]_vars, NEW s \in Slots, spc[s] # "idle",
           by'[s] = by[s], since'[s] = since[s]
    PROVE  Attributed(s)'
<1> DEFINE u == by[s].who.subject
           e == ledger[u].deletedAt
           d == ledger'[u].deletedAt
<1>1. /\ by[s] \in Author /\ Knows(ledger, u, by[s].who.role)
      /\ since[s] \in Time /\ since[s] <= now /\ Bounded(s)
  BY DEF CInv, Attributed
<1>2. /\ u \in UserIds /\ ledger'[u] # NULL /\ ledger'[u].role = ledger[u].role
      /\ d \in {e, now}
  BY <1>1, LedgerStep DEF CInv, Knows
<1>3. Knows(ledger, u, by[s].who.role)'
  BY <1>1, <1>2 DEF Knows
<1>4. now \in Nat /\ now' \in Nat /\ now <= now' /\ since[s] \in Nat
  BY <1>1, TimeStep DEF CInv, Time
<1>5. (d # NULL /\ by[s].issued <= d) => since[s] <= d \/ since[s] < d + TTL + MaxSkew
  <2>1. CASE d = e
    BY <1>1, <2>1 DEF Bounded
  <2>2. CASE d = now
    BY <1>1, <2>2
  <2>3. QED
    BY <1>2, <2>1, <2>2
<1>6. Bounded(s)'
  BY <1>5 DEF Bounded
<1>7. since[s] <= now'
  BY <1>1, <1>4
<1>8. QED
  BY <1>1, <1>3, <1>6, <1>7 DEF Attributed

\* A step of a satellite handler is one of a slot in use, keeps it in use and
\* keeps the time of its arrival; one that changes the table ends it.
LEMMA HandleSlot ==
    ASSUME NEW s \in Slots, Sat!Handle(s), spc \in [Slots -> Sat!Stages]
    PROVE  /\ spc[s] \notin {"idle", "done"} /\ since' = since
           /\ \E x \in Sat!Stages \ {"idle"} : spc' = [spc EXCEPT ![s] = x]
           /\ sats' # sats => spc'[s] = "done"
<1>1. spc[s] \notin {"idle", "done"}
  BY DEF Sat!Handle, Sat!RejectMalformed, Sat!Create, Sat!CreateConflict, Sat!List, Sat!GetByID,
     Sat!CheckAbsent, Sat!CheckRefused, Sat!CheckPassed, Sat!SetRegion, Sat!SetRegionGone,
     Sat!DeleteRow, Sat!BeginHeartbeat, Sat!UpdateHeartbeat, Sat!HeartbeatGone,
     Sat!StatementFails, Sat!Abandon, Sat!At, Sat!InFlight
<1>2. since' = since
  BY DEF Sat!Handle, Sat!RejectMalformed, Sat!Create, Sat!CreateConflict, Sat!List, Sat!GetByID,
     Sat!CheckAbsent, Sat!CheckRefused, Sat!CheckPassed, Sat!SetRegion, Sat!SetRegionGone,
     Sat!DeleteRow, Sat!BeginHeartbeat, Sat!UpdateHeartbeat, Sat!HeartbeatGone,
     Sat!StatementFails, Sat!Abandon, Sat!Answered, Sat!Finish, Sat!Goto
<1>3. \/ spc' = [spc EXCEPT ![s] = "done"]
      \/ spc' = [spc EXCEPT ![s] = "checked"] /\ sats' = sats
      \/ spc' = [spc EXCEPT ![s] = "stamped"] /\ sats' = sats
      \/ spc' = [spc EXCEPT ![s] = "detached"] /\ sats' = sats
  BY DEF Sat!Handle, Sat!RejectMalformed, Sat!Create, Sat!CreateConflict, Sat!List, Sat!GetByID,
     Sat!CheckAbsent, Sat!CheckRefused, Sat!CheckPassed, Sat!SetRegion, Sat!SetRegionGone,
     Sat!DeleteRow, Sat!BeginHeartbeat, Sat!UpdateHeartbeat, Sat!HeartbeatGone,
     Sat!StatementFails, Sat!Abandon, Sat!Answered, Sat!Finish, Sat!Goto
<1>4. \A x \in {"done", "checked", "stamped", "detached"} : x \in Sat!Stages \ {"idle"}
  BY DEF Sat!Stages
<1>5. sats' # sats => spc'[s] = "done"
  BY <1>3
<1>6. QED
  BY <1>1, <1>2, <1>3, <1>4, <1>5

\* A step that frees slots and touches nothing else of the satellite side.
LEMMA Freed ==
    ASSUME CInv, [Next]_vars, Attribution,
           spc' \in [Slots -> Sat!Stages], since' \in [Slots -> Time \cup {NULL}],
           \A s \in Slots : spc'[s] # "idle" => spc[s] # "idle" /\ since'[s] = since[s]
    PROVE  CInv'
<1>1. Inv'
  BY NextInv DEF CInv
<1>2. by' \in [Slots -> Author \cup {NULL}]
  BY DEF CInv, Attribution
<1>3. ASSUME NEW s \in Slots PROVE Attributed(s)'
  <2>1. CASE spc'[s] = "idle"
    BY <2>1 DEF Attributed
  <2>2. CASE spc'[s] # "idle"
    <3>1. by'[s] = by[s]
      BY <2>2 DEF Attribution
    <3>2. QED
      BY <2>2, <3>1, Carried
  <2>3. QED
    BY <2>1, <2>2
<1>4. QED
  BY <1>1, <1>2, <1>3 DEF CInv

\* A step that leaves the satellite side alone.
LEMMA Untouched ==
    ASSUME CInv, [Next]_vars, UNCHANGED <<satellites, by>>
    PROVE  CInv'
<1>1. Inv'
  BY NextInv DEF CInv
<1>2. spc' = spc /\ since' = since /\ by' = by
  BY DEF satellites
<1>3. ASSUME NEW s \in Slots PROVE Attributed(s)'
  <2>1. CASE spc[s] = "idle"
    BY <1>2, <2>1 DEF Attributed
  <2>2. CASE spc[s] # "idle"
    BY <1>2, <2>2, Carried
  <2>3. QED
    BY <2>1, <2>2
<1>4. QED
  BY <1>1, <1>2, <1>3 DEF CInv

\* The middleware hands a request on with the principal it made.
LEMMA EnterInv ==
    ASSUME CInv, NEW s \in Slots, Enter(s)
    PROVE  CInv'
<1>0. [Next]_vars /\ Inv
  BY DEF Enter, Handle, Next, CInv
<1>1. Inv'
  BY <1>0, NextInv
<1>2. PICK c \in Requests : Sat!Receive(s, c)
  BY DEF Enter
<1>3. spc' = [spc EXCEPT ![s] = "received"] /\ since' = [since EXCEPT ![s] = now]
  BY <1>2 DEF Sat!Receive
<1>4. now \in Time /\ now' = now /\ ledger' = ledger
  BY <1>0 DEF Enter, Admit, Proceed, Inv, TypeOK
<1>5. /\ pc[s] = "received" /\ Caller(s) # NULL /\ ctx'[s] = Caller(s)
  BY <1>0 DEF Enter, Admit, At, Proceed, Inv, TypeOK
<1>6. /\ ctx'[s] \in Human /\ job[s].tok \in tokens
      /\ Knows(ledger, ctx'[s].subject, ctx'[s].role)
  BY <1>0, <1>5, CallerFacts
<1>7. job[s].tok.at \in Time
  BY <1>0, <1>6 DEF Inv, TokenOK
<1> DEFINE a == [who |-> ctx'[s], issued |-> job[s].tok.at]
<1>8. a \in Author /\ a.who = ctx'[s] /\ a.issued = job[s].tok.at
  BY <1>6, <1>7 DEF Author
<1>9. by' = [by EXCEPT ![s] = a]
  BY DEF Enter
<1> HIDE DEF a
<1>10. /\ spc' \in [Slots -> Sat!Stages] /\ since' \in [Slots -> Time \cup {NULL}]
       /\ by' \in [Slots -> Author \cup {NULL}]
  BY <1>3, <1>4, <1>8, <1>9 DEF CInv, Sat!Stages
<1>11. by'[s] = a /\ since'[s] = now
  BY <1>3, <1>9 DEF CInv
<1>12. ASSUME NEW d, d = ledger[ctx'[s].subject].deletedAt, d # NULL, job[s].tok.at <= d
       PROVE  now < d + TTL + MaxSkew
  BY <1>0, <1>12, AdmittedInTime DEF Enter
<1>13. Bounded(s)'
  BY <1>4, <1>8, <1>11, <1>12 DEF Bounded
<1>14. Knows(ledger, by[s].who.subject, by[s].who.role)'
  BY <1>4, <1>6, <1>8, <1>11 DEF Knows
<1>15. Attributed(s)'
  <2>1. now <= now
    BY <1>4 DEF Time
  <2>2. QED
    BY <1>4, <1>8, <1>11, <1>13, <1>14, <2>1 DEF Attributed
<1>16. ASSUME NEW q \in Slots, q # s PROVE Attributed(q)'
  <2>1. by'[q] = by[q] /\ since'[q] = since[q] /\ spc'[q] = spc[q]
    BY <1>3, <1>9, <1>16 DEF CInv
  <2>2. CASE spc[q] = "idle"
    BY <2>1, <2>2 DEF Attributed
  <2>3. CASE spc[q] # "idle"
    BY <1>0, <2>1, <2>3, Carried
  <2>4. QED
    BY <2>2, <2>3
<1>17. QED
  BY <1>1, <1>10, <1>15, <1>16 DEF CInv

LEMMA ComposedInit == CInit => CInv
<1> SUFFICES ASSUME CInit PROVE CInv
  OBVIOUS
<1>1. Inv
  BY InitInv DEF CInit
<1>2. /\ spc = [s \in Slots |-> "idle"] /\ since = [s \in Slots |-> NULL]
      /\ by = [s \in Slots |-> NULL]
  BY DEF CInit, Sat!Init
<1>3. QED
  BY <1>1, <1>2 DEF CInv, Attributed, Sat!Stages

LEMMA ComposedNext == CInv /\ [CNext]_cvars => CInv'
<1> SUFFICES ASSUME CInv, [CNext]_cvars PROVE CInv'
  OBVIOUS
<1>0. [Next]_vars
  BY AccessStep
<1>1. CASE UNCHANGED cvars
  BY <1>0, <1>1, Untouched DEF cvars
<1>2. ASSUME NEW s \in Slots, Arrive(s) \/ HandleAccess(s) \/ LeaveAccess(s) PROVE CInv'
  BY <1>0, <1>2, Untouched DEF Arrive, HandleAccess, LeaveAccess
<1>3. ASSUME NEW s \in Slots, Enter(s) PROVE CInv'
  BY <1>3, EnterInv
<1>4. ASSUME NEW s \in Slots, HandleSatellite(s) PROVE CInv'
  <2>1. PICK x \in Sat!Stages \ {"idle"} : spc' = [spc EXCEPT ![s] = x]
    BY <1>4, HandleSlot DEF HandleSatellite, CInv
  <2>2. spc[s] # "idle" /\ since' = since /\ by' = by
    BY <1>4, HandleSlot DEF HandleSatellite, CInv
  <2>3. \A q \in Slots : spc'[q] = "idle" <=> spc[q] = "idle"
    BY <2>1, <2>2 DEF CInv
  <2>4. Inv'
    BY <1>0, NextInv DEF CInv
  <2>5. ASSUME NEW q \in Slots PROVE Attributed(q)'
    <3>1. CASE spc[q] = "idle"
      BY <2>3, <3>1 DEF Attributed
    <3>2. CASE spc[q] # "idle"
      BY <1>0, <2>2, <3>2, Carried
    <3>3. QED
      BY <3>1, <3>2
  <2>6. spc' \in [Slots -> Sat!Stages]
    BY <2>1 DEF CInv
  <2>7. QED
    BY <2>2, <2>4, <2>5, <2>6 DEF CInv
<1>5. ASSUME NEW s \in Slots, Sat!Release(s), Attribution PROVE CInv'
  <2>1. spc' = [spc EXCEPT ![s] = "idle"] /\ since' = [since EXCEPT ![s] = NULL]
    BY <1>5 DEF Sat!Release
  <2>2. spc' \in [Slots -> Sat!Stages] /\ since' \in [Slots -> Time \cup {NULL}]
    BY <2>1 DEF CInv, Sat!Stages
  <2>3. \A q \in Slots : spc'[q] # "idle" => spc[q] # "idle" /\ since'[q] = since[q]
    BY <2>1 DEF CInv
  <2>4. QED
    BY <1>0, <1>5, <2>2, <2>3, Freed
<1>6. ASSUME NEW s \in Slots, Leave(s) \/ Settle(s) PROVE CInv'
  BY <1>0, <1>5, <1>6, Untouched DEF Leave, Settle
<1>7. CASE Elapse
  BY <1>0, <1>7, Untouched DEF Elapse
<1>8. ASSUME NEW i \in Instances, Fall(i) PROVE CInv'
  <2> DEFINE X == {s \in Slots : pc[s] # "idle" /\ job[s].inst = i}
  <2>1. PICK D \in SUBSET {s \in X : Sat!InFlight(s) \/ spc[s] = "detached"} :
          /\ spc' = [s \in Slots |-> IF s \in D THEN "detached"
                                     ELSE IF s \in X THEN "idle" ELSE spc[s]]
          /\ since' = [s \in Slots |-> IF s \in X \ D THEN NULL ELSE since[s]]
    BY <1>8 DEF Fall, Sat!Crash
  <2>2. spc' \in [Slots -> Sat!Stages] /\ since' \in [Slots -> Time \cup {NULL}]
    BY <2>1 DEF CInv, Sat!Stages
  <2>3. \A s \in D : spc[s] # "idle"
    BY <2>1 DEF Sat!InFlight
  <2>4. \A s \in Slots : spc'[s] # "idle" => spc[s] # "idle" /\ since'[s] = since[s]
    BY <2>1, <2>3
  <2>5. QED
    BY <1>0, <1>8, <2>2, <2>4, Freed DEF Fall
<1>9. QED
  BY <1>1, <1>2, <1>3, <1>4, <1>6, <1>7, <1>8 DEF CNext

\* The inductive invariant holds in every reachable state.
THEOREM ComposedInvariance == CSpec => []CInv
BY ComposedInit, ComposedNext, PTL DEF CSpec

-----------------------------------------------------------------------------
(* Who changes satellites. *)

\* The table changes in the last step of a satellite request.
LEMMA TableChange ==
    ASSUME CInv, [CNext]_cvars, sats' # sats
    PROVE  \E s \in Slots :
              /\ Writes(s) /\ Attributed(s)
              /\ \A x \in Slots \ {s} : spc'[x] = spc[x]
<1>1. CASE UNCHANGED cvars
  BY <1>1 DEF cvars, satellites
<1>2. ASSUME NEW s \in Slots,
             Arrive(s) \/ Enter(s) \/ HandleAccess(s) \/ Leave(s) \/ LeaveAccess(s) \/ Settle(s)
      PROVE  FALSE
  BY <1>2 DEF Arrive, Enter, HandleAccess, Leave, LeaveAccess, Settle, satellites,
              Sat!Receive, Sat!Release
<1>3. ASSUME NEW s \in Slots, HandleSatellite(s)
      PROVE  /\ Writes(s) /\ Attributed(s)
             /\ \A x \in Slots \ {s} : spc'[x] = spc[x]
  BY <1>3, HandleSlot DEF HandleSatellite, Writes, CInv
<1>4. CASE Elapse
  BY <1>4 DEF Elapse, satellites
<1>5. ASSUME NEW i \in Instances, Fall(i) PROVE FALSE
  BY <1>5 DEF Fall, Sat!Crash
<1>6. QED
  BY <1>1, <1>2, <1>3, <1>4, <1>5 DEF CNext

\* The request that changes a row of the operator is the only one that ends
\* in that step, hence the one OwnedStep speaks of.
LEMMA OwnedChange ==
    ASSUME SatP!Inv, [CNext]_cvars, NEW s \in Slots,
           \A x \in Slots \ {s} : spc'[x] = spc[x],
           NEW i \in Ids, Sat!TouchesOwned(i)
    PROVE  call[s].id = i /\ call[s].fromOperator
<1>1. PICK x \in Slots : /\ spc'[x] = "done" /\ spc[x] \in {"checked", "detached"}
                         /\ call[x].id = i /\ call[x].fromOperator
  BY OwnedStep DEF Sat!ByOperator
<1>2. x = s
  BY <1>1
<1>3. QED
  BY <1>1, <1>2

\* Behind the middleware of NewRouter, only registered users change
\* satellites, lost answers, late commits and crashes included; and only with
\* the mark those of the operator.
THEOREM AttributionTheorem == CSpec => ChangedByUsers
<1>1. SatP!Inv /\ CInv /\ [CNext]_cvars =>
        [sats' # sats =>
            \E s \in Slots :
                /\ Writes(s)
                /\ by[s].who \in Human
                /\ Knows(ledger, by[s].who.subject, by[s].who.role)
                /\ \A i \in Ids :
                      Sat!TouchesOwned(i) => call[s].id = i /\ call[s].fromOperator]_cvars
  <2> SUFFICES ASSUME SatP!Inv, CInv, [CNext]_cvars, sats' # sats
               PROVE  \E s \in Slots :
                        /\ Writes(s)
                        /\ by[s].who \in Human
                        /\ Knows(ledger, by[s].who.subject, by[s].who.role)
                        /\ \A i \in Ids :
                              Sat!TouchesOwned(i) => call[s].id = i /\ call[s].fromOperator
    OBVIOUS
  <2>1. PICK s \in Slots : /\ Writes(s) /\ Attributed(s)
                           /\ \A x \in Slots \ {s} : spc'[x] = spc[x]
    BY TableChange
  <2>2. by[s].who \in Human /\ Knows(ledger, by[s].who.subject, by[s].who.role)
    BY <2>1 DEF Attributed, Author, Writes
  <2>3. QED
    BY <2>1, <2>2, OwnedChange
<1>2. QED
  BY <1>1, ComposedInvariance, SatelliteInvariant, PTL DEF CSpec, ChangedByUsers

\* A deleted user's satellite requests end with their tokens.
THEOREM LastWritesTheorem == CSpec => LastWritesBounded
<1>1. CInv /\ [CNext]_cvars =>
        [sats' # sats => \E s \in Slots : Writes(s) /\ Bounded(s)]_cvars
  BY TableChange DEF Attributed, Writes
<1>2. QED
  BY <1>1, ComposedInvariance, PTL DEF CSpec, LastWritesBounded
=============================================================================
