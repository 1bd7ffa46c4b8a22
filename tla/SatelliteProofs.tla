--------------------------- MODULE SatelliteProofs --------------------------
(***************************************************************************)
(* Proofs about SatelliteService, for any number of concurrent requests,   *)
(* any ids, names and regions and any initial table.                       *)
(***************************************************************************)
EXTENDS SatelliteService, TLAPS

\* What a request that passed the decoders carries.
LEMMA CallFacts ==
    ASSUME NEW c \in Call, ~Malformed(c)
    PROVE  /\ c.op \in Ops /\ c.fromOperator \in BOOLEAN
           /\ c.op \in {"get", "update", "delete", "heartbeat"} => c.id \in Ids
           /\ c.op = "create" => c.name \in Names /\ c.region \in Regions
           /\ c.op = "update" => c.region \in Regions
BY DEF Call, Malformed, Ops

\* Changing the region keeps everything else of a row.
LEMMA RegionEdit ==
    ASSUME NEW row \in Row, NEW r \in Regions
    PROVE  LET new == [row EXCEPT !.region = r]
           IN  /\ new \in Row /\ new # NULL
               /\ new.managedBy = row.managedBy
               /\ new.status = row.status /\ new.lastSeen = row.lastSeen
BY NullAssumption DEF Row

\* A heartbeat changes the status and the time of a row.
LEMMA HeartbeatEdit ==
    ASSUME NEW row \in Row, NEW t \in Time
    PROVE  LET new == [row EXCEPT !.status = "Ready", !.lastSeen = t]
           IN  /\ new \in Row /\ new # NULL
               /\ new.managedBy = row.managedBy /\ new.region = row.region
               /\ new.status = "Ready" /\ new.lastSeen = t
BY NullAssumption DEF Row

\* A created row is a row.
LEMMA NewRowFacts ==
    ASSUME NEW c \in Call, c.name \in Names, c.region \in Regions
    PROVE  NewRow(c) \in Row /\ NewRow(c) # NULL
BY NullAssumption DEF Row, NewRow

\* Every answer the handlers give is an answer.
LEMMA ReplyFacts ==
    /\ \A code \in {0, 200, 201, 204, 400, 403, 404, 500} : Reply(code, NULL) \in Answer
    /\ \A code \in {200, 201}, row \in Row : Reply(code, row) \in Answer
    /\ \A table \in Table : Reply(200, [rows |-> table]) \in Answer
BY DEF Reply, Answer

\* The initial state satisfies the invariant.
LEMMA InitInv == Init => Inv
BY NullAssumption, SeedAssumption, MaxTimeAssumption
   DEF Init, Inv, TypeOK, SlotOK, RowsAreUsed, CheckStillValid, Stages, Time
(***************************************************************************)
(* What every statement does to the table: rows come only under new ids,   *)
(* and a row keeps its managed_by for as long as it exists.  It is why a   *)
(* check made on one state of the table holds on every later one.          *)
(***************************************************************************)
TableStep ==
    /\ sats' \in Table
    /\ used \subseteq used' /\ used' \subseteq Ids
    /\ \A i \in Ids : sats'[i] # NULL => i \in used'
    /\ \A i \in used' \ used : sats'[i] # NULL
    /\ \A i \in used : sats[i] = NULL => sats'[i] = NULL
    /\ \A i \in Ids : (sats[i] # NULL /\ sats'[i] # NULL)
                        => sats'[i].managedBy = sats[i].managedBy

\* A step that leaves the table alone is one.
LEMMA SameTable == Inv /\ UNCHANGED <<sats, used>> => TableStep
BY DEF Inv, TypeOK, RowsAreUsed, TableStep

\* So is one that replaces a row by another of the same owner.
LEMMA EditRow ==
    ASSUME Inv, NEW i \in Ids, sats[i] # NULL,
           NEW row \in Row, row.managedBy = sats[i].managedBy,
           sats' = [sats EXCEPT ![i] = row], used' = used
    PROVE  TableStep
BY NullAssumption DEF TableStep, Inv, TypeOK, RowsAreUsed, Table

\* INSERT: a new row under an id that was never handed out.
LEMMA CreateEffect ==
    ASSUME Inv, NEW s \in Slots, Create(s)
    PROVE  /\ pc[s] # "idle"
           /\ TableStep
           /\ \E i \in Ids \ used : sats' = [sats EXCEPT ![i] = NewRow(call[s])]
           /\ \E r \in Answer : Finish(s, r)
<1>1. /\ call[s] \in Call /\ call[s].name \in Names /\ call[s].region \in Regions
      /\ pc[s] # "idle"
  BY CallFacts DEF Create, At, Inv, SlotOK
<1>2. NewRow(call[s]) \in Row /\ NewRow(call[s]) # NULL
  BY <1>1, NewRowFacts
<1>3. PICK i \in Ids \ used :
         /\ sats' = [sats EXCEPT ![i] = NewRow(call[s])]
         /\ used' = used \cup {i}
         /\ Finish(s, Reply(201, NewRow(call[s])))
  BY DEF Create
<1>4. TableStep
  BY <1>2, <1>3 DEF TableStep, Inv, TypeOK, RowsAreUsed, Table
<1>5. QED
  BY <1>1, <1>2, <1>3, <1>4, ReplyFacts

\* UPDATE of the region: nothing else of the row changes.
LEMMA SetRegionEffect ==
    ASSUME Inv, NEW s \in Slots, SetRegion(s)
    PROVE  LET i == call[s].id
           IN  /\ pc[s] # "idle" /\ i \in Ids
               /\ TableStep
               /\ \A j \in Ids \ {i} : sats'[j] = sats[j]
               /\ sats'[i] # NULL
               /\ sats'[i].status = sats[i].status /\ sats'[i].lastSeen = sats[i].lastSeen
               /\ \E r \in Answer : Finish(s, r)
<1> DEFINE i == call[s].id
           row == [sats[i] EXCEPT !.region = call[s].region]
<1>1. /\ i \in Ids /\ call[s].region \in Regions /\ pc[s] # "idle"
      /\ sats[i] \in Row /\ sats[i] # NULL
  BY CallFacts DEF SetRegion, At, Inv, SlotOK, TypeOK, Table
<1>2. /\ row \in Row /\ row.managedBy = sats[i].managedBy /\ row # NULL
      /\ row.status = sats[i].status /\ row.lastSeen = sats[i].lastSeen
  BY <1>1, RegionEdit
<1>3. sats' = [sats EXCEPT ![i] = row] /\ used' = used /\ Finish(s, Reply(200, row))
  BY DEF SetRegion
<1> HIDE DEF row
<1>4. TableStep
  BY <1>1, <1>2, <1>3, EditRow
<1>5. sats'[i] = row /\ \A j \in Ids \ {i} : sats'[j] = sats[j]
  BY <1>1, <1>3 DEF Inv, TypeOK, Table
<1>6. \E r \in Answer : Finish(s, r)
  BY <1>2, <1>3, ReplyFacts
<1>7. QED
  BY <1>1, <1>2, <1>4, <1>5, <1>6

\* DELETE.
LEMMA DeleteRowEffect ==
    ASSUME Inv, NEW s \in Slots, DeleteRow(s)
    PROVE  /\ pc[s] # "idle" /\ call[s].id \in Ids
           /\ TableStep
           /\ sats' = [sats EXCEPT ![call[s].id] = NULL]
           /\ \E r \in Answer : Finish(s, r)
<1>1. call[s].id \in Ids /\ pc[s] # "idle"
  BY CallFacts DEF DeleteRow, At, Inv, SlotOK
<1>2. TableStep
  BY <1>1 DEF DeleteRow, TableStep, Inv, TypeOK, RowsAreUsed, Table
<1>3. QED
  BY <1>1, <1>2, ReplyFacts DEF DeleteRow

\* UPDATE by a heartbeat: the row becomes Ready, seen at the stamp.
LEMMA HeartbeatEffect ==
    ASSUME Inv, NEW s \in Slots, UpdateHeartbeat(s)
    PROVE  LET i == call[s].id
           IN  /\ pc[s] # "idle" /\ i \in Ids
               /\ TableStep
               /\ \A j \in Ids \ {i} : sats'[j] = sats[j]
               /\ sats'[i] # NULL /\ sats'[i].region = sats[i].region
               /\ sats'[i].status = "Ready" /\ sats'[i].lastSeen = stamp[s]
               /\ stamp[s] \in Time
               /\ \E r \in Answer : Finish(s, r)
<1> DEFINE i == call[s].id
           row == [sats[i] EXCEPT !.status = "Ready", !.lastSeen = stamp[s]]
<1>1. /\ i \in Ids /\ stamp[s] \in Time /\ pc[s] # "idle"
      /\ sats[i] \in Row /\ sats[i] # NULL
  BY CallFacts DEF UpdateHeartbeat, At, Inv, SlotOK, TypeOK, Table
<1>2. /\ row \in Row /\ row.managedBy = sats[i].managedBy /\ row # NULL
      /\ row.region = sats[i].region /\ row.status = "Ready" /\ row.lastSeen = stamp[s]
  BY <1>1, HeartbeatEdit
<1>3. sats' = [sats EXCEPT ![i] = row] /\ used' = used /\ Finish(s, Reply(200, row))
  BY DEF UpdateHeartbeat
<1> HIDE DEF row
<1>4. TableStep
  BY <1>1, <1>2, <1>3, EditRow
<1>5. sats'[i] = row /\ \A j \in Ids \ {i} : sats'[j] = sats[j]
  BY <1>1, <1>3 DEF Inv, TypeOK, Table
<1>6. \E r \in Answer : Finish(s, r)
  BY <1>2, <1>3, ReplyFacts
<1>7. QED
  BY <1>1, <1>2, <1>4, <1>5, <1>6

\* Ending a request preserves the invariant, whatever it did to the table.
LEMMA FinishInv ==
    ASSUME Inv, NEW s \in Slots, pc[s] # "idle",
           NEW r \in Answer, Finish(s, r), TableStep
    PROVE  Inv'
<1> USE DEF Finish, TableStep
<1>1. TypeOK'
  BY DEF Inv, TypeOK, Stages
<1>2. \A u \in Slots : SlotOK(u)'
  BY DEF Inv, TypeOK, SlotOK
<1>3. RowsAreUsed'
  BY DEF RowsAreUsed
<1>4. CheckStillValid'
  <2> SUFFICES ASSUME NEW u \in Slots, pc'[u] \in {"checked", "detached"},
                      call'[u].op \in {"update", "delete"}
               PROVE  /\ call[u].id \in used'
                      /\ sats'[call[u].id] = NULL \/ ~Guarded(sats'[call[u].id], call[u])
    BY DEF CheckStillValid
  <2>1. pc[u] \in {"checked", "detached"} /\ call[u].op \in {"update", "delete"}
    BY DEF Inv, TypeOK
  <2>2. /\ call[u].id \in used
        /\ sats[call[u].id] = NULL \/ ~Guarded(sats[call[u].id], call[u])
    BY <2>1 DEF Inv, CheckStillValid
  <2>3. call[u].id \in Ids
    BY <2>2 DEF Inv, TypeOK
  <2>4. QED
    BY <2>2, <2>3 DEF Guarded
<1>5. QED
  BY <1>1, <1>2, <1>3, <1>4 DEF Inv

\* Every step preserves the invariant: one step of the proof per action.
LEMMA NextInv == Inv /\ [Next]_vars => Inv'
<1> SUFFICES ASSUME Inv, [Next]_vars PROVE Inv'
  OBVIOUS
<1>1. ASSUME NEW s \in Slots, NEW c \in Requests, Receive(s, c) PROVE Inv'
  BY <1>1, RequestsAssumption
     DEF Receive, Time, Inv, TypeOK, SlotOK, RowsAreUsed, CheckStillValid, Stages
<1>2. ASSUME NEW s \in Slots, NEW r \in Answer, pc[s] # "idle", Answered(s, r) PROVE Inv'
  BY <1>2, SameTable, FinishInv DEF Answered
<1>3. ASSUME NEW s \in Slots, RejectMalformed(s) PROVE Inv'
  BY <1>2, <1>3, ReplyFacts DEF RejectMalformed
<1>4. ASSUME NEW s \in Slots, Create(s) PROVE Inv'
  BY <1>4, CreateEffect, FinishInv
<1>5. ASSUME NEW s \in Slots, CreateConflict(s) PROVE Inv'
  BY <1>2, <1>5, ReplyFacts DEF CreateConflict, At
<1>6. ASSUME NEW s \in Slots, List(s) PROVE Inv'
  BY <1>2, <1>6, ReplyFacts DEF List, At, Inv, TypeOK
<1>7. ASSUME NEW s \in Slots, GetByID(s) PROVE Inv'
  <2>1. call[s].id \in Ids
    BY <1>7, CallFacts DEF GetByID, At, Inv, SlotOK
  <2>2. sats[call[s].id] # NULL => sats[call[s].id] \in Row
    BY <2>1 DEF Inv, TypeOK, Table
  <2>3. QED
    BY <1>2, <1>7, <2>2, ReplyFacts DEF GetByID, At
<1>8. ASSUME NEW s \in Slots, CheckAbsent(s) PROVE Inv'
  BY <1>2, <1>8, ReplyFacts DEF CheckAbsent, At
<1>9. ASSUME NEW s \in Slots, CheckRefused(s) PROVE Inv'
  BY <1>2, <1>9, ReplyFacts DEF CheckRefused, At
<1>10. ASSUME NEW s \in Slots, CheckPassed(s) PROVE Inv'
  <2>1. call[s] \in Call /\ call[s].id \in Ids
    BY <1>10, CallFacts DEF CheckPassed, At, Inv, SlotOK
  <2>2. call[s].id \in used
    BY <1>10, <2>1 DEF CheckPassed, Inv, RowsAreUsed
  <2>3. QED
    BY <1>10, <2>1, <2>2
       DEF CheckPassed, At, Goto, Inv, TypeOK, SlotOK, RowsAreUsed, CheckStillValid, Stages
<1>11. ASSUME NEW s \in Slots, SetRegion(s) PROVE Inv'
  BY <1>11, SetRegionEffect, FinishInv
<1>12. ASSUME NEW s \in Slots, SetRegionGone(s) PROVE Inv'
  BY <1>2, <1>12, ReplyFacts DEF SetRegionGone, At
<1>13. ASSUME NEW s \in Slots, DeleteRow(s) PROVE Inv'
  BY <1>13, DeleteRowEffect, FinishInv
<1>14. ASSUME NEW s \in Slots, BeginHeartbeat(s) PROVE Inv'
  BY <1>14
     DEF BeginHeartbeat, At, Goto, Inv, TypeOK, SlotOK, RowsAreUsed, CheckStillValid, Stages, Time
<1>15. ASSUME NEW s \in Slots, UpdateHeartbeat(s) PROVE Inv'
  BY <1>15, HeartbeatEffect, FinishInv
<1>16. ASSUME NEW s \in Slots, HeartbeatGone(s) PROVE Inv'
  BY <1>2, <1>16, ReplyFacts DEF HeartbeatGone, At
<1>17. ASSUME NEW s \in Slots, StatementFails(s) PROVE Inv'
  BY <1>2, <1>17, ReplyFacts DEF StatementFails
<1>18. ASSUME NEW s \in Slots, Abandon(s) PROVE Inv'
  BY <1>18, ReplyFacts
     DEF Abandon, InFlight, Inv, TypeOK, SlotOK, RowsAreUsed, CheckStillValid, Stages
<1>19. ASSUME NEW s \in Slots, Release(s) PROVE Inv'
  BY <1>19 DEF Release, Inv, TypeOK, SlotOK, RowsAreUsed, CheckStillValid, Stages
<1>20. CASE Tick
  BY <1>20, MaxTimeAssumption
     DEF Tick, Time, Inv, TypeOK, SlotOK, RowsAreUsed, CheckStillValid
<1>21. ASSUME NEW X \in SUBSET Slots, Crash(X) PROVE Inv'
  BY <1>21, ReplyFacts
     DEF Crash, InFlight, Inv, TypeOK, SlotOK, RowsAreUsed, CheckStillValid, Stages
<1>22. CASE UNCHANGED vars
  BY <1>22 DEF vars, Inv, TypeOK, SlotOK, RowsAreUsed, CheckStillValid
<1>23. QED
  BY <1>1, <1>3, <1>4, <1>5, <1>6, <1>7, <1>8, <1>9, <1>10, <1>11, <1>12, <1>13,
     <1>14, <1>15, <1>16, <1>17, <1>18, <1>19, <1>20, <1>21, <1>22 DEF Next, Handle

-----------------------------------------------------------------------------
(* Invariants. *)

\* The inductive invariant holds in every reachable state.
THEOREM Invariance == Spec => []Inv
BY InitInv, NextInv, PTL DEF Spec

\* Type correctness.
THEOREM TypeCorrect == Spec => []TypeOK
<1>1. Inv => TypeOK
  BY DEF Inv
<1>2. QED
  BY Invariance, <1>1, PTL

\* The check of Update and Delete is still valid when they write
\* (service.go:42-45 and :56-59), with any number of requests in between.
THEOREM CheckNeverStale == Spec => []CheckStillValid
<1>1. Inv => CheckStillValid
  BY DEF Inv
<1>2. QED
  BY Invariance, <1>1, PTL

-----------------------------------------------------------------------------
(* Action properties. *)

\* Only four actions touch the table.
LEMMA StepCases ==
    ASSUME [Next]_vars
    PROVE  \/ UNCHANGED <<sats, used>>
           \/ \E s \in Slots : Create(s) \/ SetRegion(s) \/ DeleteRow(s) \/ UpdateHeartbeat(s)
<1> USE DEF Answered, Goto
<1>1. CASE Tick \/ (\E X \in SUBSET Slots : Crash(X)) \/ UNCHANGED vars
  BY <1>1 DEF Tick, Crash, vars
<1>2. ASSUME NEW s \in Slots, (\E c \in Requests : Receive(s, c)) \/ Release(s)
      PROVE  UNCHANGED <<sats, used>>
  BY <1>2 DEF Receive, Release
<1>3. ASSUME NEW s \in Slots, Handle(s)
      PROVE  \/ UNCHANGED <<sats, used>>
             \/ Create(s) \/ SetRegion(s) \/ DeleteRow(s) \/ UpdateHeartbeat(s)
  BY <1>3 DEF Handle, RejectMalformed, CreateConflict, List, GetByID, CheckAbsent, CheckRefused,
     CheckPassed, SetRegionGone, BeginHeartbeat, HeartbeatGone, StatementFails, Abandon
<1>4. QED
  BY <1>1, <1>2, <1>3 DEF Next

\* Every step of the system is a TableStep.
LEMMA NextTable == Inv /\ [Next]_vars => TableStep
BY StepCases, SameTable, CreateEffect, SetRegionEffect, DeleteRowEffect, HeartbeatEffect

\* An id handed out whose row is gone keeps having none.
LEMMA DeletedStep == Inv /\ [Next]_vars => StaysDeleted
BY NextTable DEF TableStep, StaysDeleted

\* No late update or heartbeat brings a deleted row back, no create reuses
\* its id.
THEOREM DeletedStaysDeleted == Spec => NoResurrection
BY Invariance, DeletedStep, PTL DEF Spec, NoResurrection

\* A request that touches a row of the operator has passed the check.
LEMMA OwnershipStep ==
    ASSUME Inv, [Next]_vars, NEW i \in Ids, TouchesOwned(i)
    PROVE  ByOperator(i)
<1>1. ~UNCHANGED <<sats, used>>
  BY DEF TouchesOwned
<1>2. PICK s \in Slots : Create(s) \/ SetRegion(s) \/ DeleteRow(s) \/ UpdateHeartbeat(s)
  BY <1>1, StepCases
<1>3. ~Create(s)
  BY CreateEffect DEF Inv, RowsAreUsed, TypeOK, Table, TouchesOwned
<1>4. ~UpdateHeartbeat(s)
  BY HeartbeatEffect DEF Inv, TypeOK, Table, TouchesOwned
<1>5. call[s].id = i
  BY <1>2, <1>3, <1>4, SetRegionEffect, DeleteRowEffect DEF Inv, TypeOK, Table, TouchesOwned
<1>6. /\ pc[s] \in {"checked", "detached"} /\ call[s].op \in {"update", "delete"}
      /\ pc'[s] = "done"
  BY <1>2, <1>3, <1>4 DEF SetRegion, DeleteRow, At, Finish, Inv, TypeOK
<1>7. ~Guarded(sats[i], call[s])
  BY <1>5, <1>6 DEF Inv, CheckStillValid, TouchesOwned
<1>8. call[s].fromOperator
  BY <1>7 DEF Guarded, TouchesOwned
<1>9. QED
  BY <1>5, <1>6, <1>8 DEF ByOperator

\* Ownership of operator rows (README.md:94): the check, made one statement
\* before the write, is enough.
THEOREM OwnershipTheorem == Spec => OwnershipRespected
<1>1. Inv /\ [Next]_vars => [\A i \in Ids : TouchesOwned(i) => ByOperator(i)]_vars
  BY OwnershipStep
<1>2. QED
  BY Invariance, <1>1, PTL DEF Spec, OwnershipRespected

\* Only heartbeats write status and last_seen_at, and they write both.
SeenIsReady ==
    \A i \in Ids : (sats[i] # NULL /\ sats[i].lastSeen # NULL) => sats[i].status = "Ready"

LEMMA SeenInit == Init => SeenIsReady
BY SeedAssumption DEF Init, SeenIsReady

LEMMA SeenNext == Inv /\ SeenIsReady /\ [Next]_vars => SeenIsReady'
<1> SUFFICES ASSUME Inv, SeenIsReady, [Next]_vars, NEW i \in Ids,
                    sats'[i] # NULL, sats'[i].lastSeen # NULL
             PROVE  sats'[i].status = "Ready"
  BY DEF SeenIsReady
<1>1. CASE UNCHANGED <<sats, used>>
  BY <1>1 DEF SeenIsReady
<1>2. ASSUME NEW s \in Slots, Create(s) PROVE sats'[i].status = "Ready"
  BY <1>2, CreateEffect DEF SeenIsReady, NewRow, Inv, TypeOK, Table
<1>3. ASSUME NEW s \in Slots, SetRegion(s) PROVE sats'[i].status = "Ready"
  <2>1. sats[i] # NULL
    BY <1>3, SetRegionEffect DEF SetRegion
  <2>2. QED
    BY <1>3, <2>1, SetRegionEffect DEF SeenIsReady
<1>4. ASSUME NEW s \in Slots, DeleteRow(s) PROVE sats'[i].status = "Ready"
  BY <1>4, DeleteRowEffect DEF SeenIsReady, Inv, TypeOK, Table
<1>5. ASSUME NEW s \in Slots, UpdateHeartbeat(s) PROVE sats'[i].status = "Ready"
  BY <1>5, HeartbeatEffect DEF SeenIsReady
<1>6. QED
  BY <1>1, <1>2, <1>3, <1>4, <1>5, StepCases

\* SeenIsReady is an invariant, given Inv.
LEMMA SeenIsReadyInvariant == Spec => []SeenIsReady
BY Invariance, SeenInit, SeenNext, PTL DEF Spec

LEMMA SeenStep == Inv /\ SeenIsReady /\ [Next]_vars => StaysSeen
<1> SUFFICES ASSUME Inv, SeenIsReady, [Next]_vars, NEW i \in Ids,
                    sats[i] # NULL, sats'[i] # NULL, sats[i].lastSeen # NULL
             PROVE  sats'[i].lastSeen # NULL /\ sats'[i].status = "Ready"
  BY DEF StaysSeen
<1>1. CASE UNCHANGED <<sats, used>>
  BY <1>1 DEF SeenIsReady
<1>2. ASSUME NEW s \in Slots, Create(s) PROVE sats'[i] = sats[i]
  BY <1>2, CreateEffect DEF Inv, RowsAreUsed, TypeOK, Table
<1>3. ASSUME NEW s \in Slots, SetRegion(s)
      PROVE  sats'[i].lastSeen = sats[i].lastSeen /\ sats'[i].status = sats[i].status
  BY <1>3, SetRegionEffect
<1>4. ASSUME NEW s \in Slots, DeleteRow(s) PROVE sats'[i] = sats[i]
  BY <1>4, DeleteRowEffect DEF Inv, TypeOK, Table
<1>5. ASSUME NEW s \in Slots, UpdateHeartbeat(s)
      PROVE  sats'[i] = sats[i] \/ (sats'[i].lastSeen # NULL /\ sats'[i].status = "Ready")
  BY <1>5, HeartbeatEffect, NullAssumption
<1>6. QED
  BY <1>1, <1>2, <1>3, <1>4, <1>5, StepCases DEF SeenIsReady

\* No region update, however it interleaves, undoes a recorded heartbeat.
THEOREM HeartbeatsKept == Spec => HeartbeatKept
BY Invariance, SeenIsReadyInvariant, SeenStep, PTL DEF Spec, HeartbeatKept

\* Only a heartbeat sets an earlier time, and it took that time after it
\* arrived.
LEMMA RegressStep ==
    ASSUME Inv, [Next]_vars, NEW i \in Ids, GoesBack(i)
    PROVE  ByOverlap(i)
<1> USE DEF GoesBack
<1>0. sats[i].lastSeen \in Time /\ ~(sats[i].lastSeen < sats[i].lastSeen)
  BY DEF Inv, TypeOK, Table, Row, Time
<1>1. sats'[i].lastSeen # sats[i].lastSeen
  BY <1>0
<1>2. PICK s \in Slots : Create(s) \/ SetRegion(s) \/ DeleteRow(s) \/ UpdateHeartbeat(s)
  BY <1>1, StepCases
<1>3. ~Create(s) /\ ~SetRegion(s) /\ ~DeleteRow(s)
  <2>1. ~Create(s)
    BY <1>1, CreateEffect DEF Inv, RowsAreUsed, TypeOK, Table
  <2>2. ~SetRegion(s)
    BY <1>1, SetRegionEffect
  <2>3. ~DeleteRow(s)
    BY <1>1, DeleteRowEffect DEF Inv, TypeOK, Table
  <2>4. QED
    BY <2>1, <2>2, <2>3
<1>4. UpdateHeartbeat(s)
  BY <1>2, <1>3
<1>5. call[s].id = i /\ sats'[i].lastSeen = stamp[s]
  BY <1>1, <1>4, HeartbeatEffect
<1>6. /\ pc[s] \in {"stamped", "detached"} /\ pc'[s] = "done"
      /\ call[s].op = "heartbeat"
  BY <1>4 DEF UpdateHeartbeat, At, Finish, Inv, TypeOK
<1>7. since[s] \in Time /\ stamp[s] \in Time /\ since[s] <= stamp[s]
  BY <1>6 DEF Inv, SlotOK
<1>8. stamp[s] < sats[i].lastSeen
  BY <1>5
<1>9. since[s] < sats[i].lastSeen
  BY <1>0, <1>7, <1>8, MaxTimeAssumption DEF Time
<1>10. QED
  BY <1>5, <1>6, <1>9 DEF ByOverlap

\* last_seen_at is monotone except under overlapping heartbeats.
THEOREM RegressTheorem == Spec => RegressOnlyByOverlap
<1>1. Inv /\ [Next]_vars => [\A i \in Ids : GoesBack(i) => ByOverlap(i)]_vars
  BY RegressStep
<1>2. QED
  BY Invariance, <1>1, PTL DEF Spec, RegressOnlyByOverlap

-----------------------------------------------------------------------------
(* The contract with clients. *)

\* What a client knows of a row of the table.
LEMMA StandingOf ==
    ASSUME Inv, NEW i \in Ids
    PROVE  /\ sats[i] # NULL => standing[i] = sats[i].managedBy
           /\ sats[i] = NULL => standing[i] = IF i \in used THEN "gone" ELSE "unused"
           /\ standing[i] \in Standing
           /\ standing[i] = "unused" <=> i \notin used
BY DEF standing, Standing, Inv, RowsAreUsed, TypeOK, Table, Row

\* Satellites come and go as the contract says.
LEMMA LivesStep ==
    ASSUME Inv, [Next]_vars, NEW i \in Ids
    PROVE  Lives(standing[i], standing'[i])
<1>1. TableStep
  BY NextTable
<1>2. CASE sats[i] # NULL
  <2>1. sats[i].managedBy \in {"manual", "operator"} /\ i \in used
    BY <1>2 DEF Inv, TypeOK, RowsAreUsed, Table, Row
  <2>2. CASE sats'[i] # NULL
    BY <1>1, <1>2, <2>2 DEF TableStep, standing, Lives
  <2>3. CASE sats'[i] = NULL
    BY <1>1, <1>2, <2>1, <2>3 DEF TableStep, standing, Lives, Moves
  <2>4. QED
    BY <2>2, <2>3
<1>3. CASE sats[i] = NULL /\ i \in used
  BY <1>1, <1>3 DEF TableStep, standing, Lives
<1>4. CASE sats[i] = NULL /\ i \notin used
  <2>1. CASE sats'[i] # NULL
    <3>1. sats'[i].managedBy \in {"manual", "operator"}
      BY <1>1, <2>1 DEF TableStep, Table, Row
    <3>2. QED
      BY <1>4, <2>1, <3>1 DEF standing, Lives, Moves
  <2>2. CASE sats'[i] = NULL
    <3>1. i \notin used'
      BY <1>1, <1>4, <2>2 DEF TableStep
    <3>2. QED
      BY <1>4, <2>2, <3>1 DEF standing, Lives
  <2>3. QED
    BY <2>1, <2>2
<1>5. QED
  BY <1>2, <1>3, <1>4

\* A handler moves its own slot only.
LEMMA HandleMoves ==
    ASSUME Inv, NEW s \in Slots, Handle(s)
    PROVE  \A u \in Slots \ {s} : pc'[u] = pc[u]
<1>1. \E stage : pc' = [pc EXCEPT ![s] = stage]
  BY DEF Handle, RejectMalformed, Create, CreateConflict, List, GetByID, CheckAbsent,
     CheckRefused, CheckPassed, SetRegion, SetRegionGone, DeleteRow, BeginHeartbeat,
     UpdateHeartbeat, HeartbeatGone, StatementFails, Abandon, Answered, Finish, Goto
<1>2. QED
  BY <1>1 DEF Inv, TypeOK

\* Only its own handler answers a request.
LEMMA AnsweredByHandler ==
    ASSUME Inv, [Next]_vars, NEW s \in Slots, Answers(s)
    PROVE  Handle(s)
<1> USE DEF Answers, Inv, TypeOK
<1>1. ASSUME NEW u \in Slots, (\E c \in Requests : Receive(u, c)) \/ Release(u) PROVE FALSE
  BY <1>1 DEF Receive, Release
<1>2. ASSUME NEW u \in Slots, Handle(u) PROVE u = s
  BY <1>2, HandleMoves
<1>3. ~Tick /\ ~UNCHANGED vars
  BY DEF Tick, vars
<1>4. ASSUME NEW X \in SUBSET Slots, Crash(X) PROVE FALSE
  BY <1>4 DEF Crash
<1>5. QED
  BY <1>1, <1>2, <1>3, <1>4 DEF Next

\* The answer of a step that ends a request is the one it gives.
LEMMA FinishAnswers ==
    ASSUME Inv, NEW s \in Slots, NEW r, Finish(s, r), pc[s] \in {"received", "checked"}
    PROVE  resp'[s] = r
BY DEF Finish, Inv, TypeOK

\* A request without the operator's mark is answered as the contract says.
LEMMA AnswerStep ==
    ASSUME Inv, NEW s \in Slots, Handle(s), Answers(s),
           call[s].op \in {"create", "list", "get", "delete"}, ~call[s].fromOperator
    PROVE  Outcome(standing', resp'[s].code, ShowsOperator(s))
              \in Outcomes(call[s].op, call[s].id, standing)
<1> DEFINE i == call[s].id
           Goal == Outcome(standing', resp'[s].code, ShowsOperator(s))
                     \in Outcomes(call[s].op, i, standing)
<1> USE DEF At
<1>0. /\ pc[s] \in {"received", "checked"} /\ pc'[s] = "done"
      /\ resp'[s].code \notin {0, 400, 500} /\ call[s] \in Call
  BY DEF Answers, Inv, SlotOK
<1>1. ASSUME NEW code, NEW body, Answered(s, Reply(code, body))
      PROVE  /\ resp'[s] = Reply(code, body) /\ resp'[s].code = code /\ resp'[s].body = body
             /\ standing' = standing
  BY <1>0, <1>1, FinishAnswers DEF Answered, Reply, standing
<1>2. call[s].op # "get" => ShowsOperator(s) = FALSE
  BY DEF ShowsOperator
<1>3. ~RejectMalformed(s) /\ ~CreateConflict(s) /\ ~StatementFails(s)
  BY <1>0, <1>1 DEF RejectMalformed, CreateConflict, StatementFails
<1>4. ~CheckPassed(s) /\ ~BeginHeartbeat(s) /\ ~Abandon(s)
  BY <1>0 DEF CheckPassed, BeginHeartbeat, Abandon, Goto, Inv, TypeOK
<1>5. ~SetRegion(s) /\ ~SetRegionGone(s) /\ ~UpdateHeartbeat(s) /\ ~HeartbeatGone(s)
  BY DEF SetRegion, SetRegionGone, UpdateHeartbeat, HeartbeatGone
<1>6. CASE Create(s)
  <2>1. PICK j \in Ids \ used :
          /\ sats' = [sats EXCEPT ![j] = NewRow(call[s])]
          /\ used' = used \cup {j}
          /\ Finish(s, Reply(201, NewRow(call[s])))
    BY <1>6 DEF Create
  <2>2. resp'[s].code = 201
    BY <1>0, <2>1, FinishAnswers DEF Reply
  <2>3. call[s].name \in Names /\ call[s].region \in Regions /\ call[s].op = "create"
    BY <1>0, <1>6, CallFacts DEF Create
  <2>4. NewRow(call[s]) # NULL /\ NewRow(call[s]).managedBy = "manual"
    BY <1>0, <2>3, NewRowFacts DEF NewRow
  <2>5. standing' = [standing EXCEPT ![j] = "manual"]
    BY <2>1, <2>4 DEF standing, Inv, TypeOK, Table
  <2>6. standing[j] = "unused" /\ j \in DOMAIN standing
    BY <2>1, StandingOf DEF standing
  <2>7. Outcome(standing', resp'[s].code, ShowsOperator(s))
          = Outcome([standing EXCEPT ![j] = "manual"], 201, FALSE)
    BY <1>2, <2>2, <2>3, <2>5
  <2>8. j \in {k \in DOMAIN standing : standing[k] = "unused"}
    BY <2>6
  <2>9. Outcome([standing EXCEPT ![j] = "manual"], 201, FALSE) \in Outcomes("create", i, standing)
    BY <2>8, Zenon DEF Outcomes
  <2>10. QED
    BY <2>3, <2>7, <2>9
<1>7. CASE List(s)
  BY <1>1, <1>2, <1>7 DEF List, Outcomes
<1>8. CASE GetByID(s)
  <2>1. i \in Ids /\ call[s].op = "get"
    BY <1>0, <1>8, CallFacts DEF GetByID
  <2>2. CASE sats[i] = NULL
    <3>1. resp'[s].code = 404 /\ standing' = standing
      BY <1>1, <1>8, <2>2 DEF GetByID
    <3>2. ShowsOperator(s) = FALSE
      BY <3>1 DEF ShowsOperator
    <3>3. standing[i] \notin {"manual", "operator"}
      BY <2>1, <2>2, StandingOf
    <3>4. QED
      BY <2>1, <3>1, <3>2, <3>3 DEF Outcomes
  <2>3. CASE sats[i] # NULL
    <3>1. resp'[s].code = 200 /\ resp'[s].body = sats[i] /\ standing' = standing
      BY <1>1, <1>8, <2>3 DEF GetByID
    <3>2. standing[i] = sats[i].managedBy /\ standing[i] \in {"manual", "operator"}
      BY <2>1, <2>3, StandingOf DEF Inv, TypeOK, Table, Row
    <3>3. ShowsOperator(s) = (standing[i] = "operator")
      BY <2>1, <3>1, <3>2 DEF ShowsOperator
    <3>4. QED
      BY <2>1, <3>1, <3>2, <3>3 DEF Outcomes
  <2>4. QED
    BY <2>2, <2>3
<1>9. CASE CheckAbsent(s)
  <2>1. i \in Ids /\ call[s].op = "delete" /\ sats[i] = NULL
    BY <1>0, <1>9, CallFacts DEF CheckAbsent
  <2>2. resp'[s].code = 204 /\ standing' = standing
    BY <1>1, <1>9, <2>1 DEF CheckAbsent
  <2>3. standing[i] \notin {"manual", "operator"}
    BY <2>1, StandingOf
  <2>4. QED
    BY <1>2, <2>1, <2>2, <2>3 DEF Outcomes
<1>10. CASE CheckRefused(s)
  <2>1. i \in Ids /\ call[s].op = "delete" /\ sats[i] # NULL /\ sats[i].managedBy = "operator"
    BY <1>0, <1>10, CallFacts DEF CheckRefused, Guarded
  <2>2. resp'[s].code = 403 /\ standing' = standing
    BY <1>1, <1>10 DEF CheckRefused
  <2>3. standing[i] = "operator"
    BY <2>1, StandingOf
  <2>4. QED
    BY <1>2, <2>1, <2>2, <2>3 DEF Outcomes
<1>11. CASE DeleteRow(s)
  <2>1. /\ i \in Ids /\ call[s].op = "delete" /\ pc[s] = "checked"
        /\ sats' = [sats EXCEPT ![i] = NULL] /\ used' = used
        /\ Finish(s, Reply(204, NULL))
    BY <1>0, <1>11, CallFacts DEF DeleteRow
  <2>2. resp'[s].code = 204
    BY <1>0, <2>1, FinishAnswers DEF Reply
  <2>3. i \in used /\ (sats[i] = NULL \/ sats[i].managedBy # "operator")
    BY <2>1 DEF Inv, CheckStillValid, Guarded
  <2>4. standing' = [standing EXCEPT ![i] = "gone"] /\ DOMAIN standing = Ids
    BY <2>1, <2>3 DEF standing, Inv, TypeOK, Table
  <2>5. CASE sats[i] = NULL
    <3>1. standing[i] = "gone"
      BY <2>1, <2>3, <2>5, StandingOf
    <3>2. standing' = standing
      BY <2>4, <3>1 DEF standing
    <3>3. QED
      BY <1>2, <2>1, <2>2, <3>1, <3>2 DEF Outcomes
  <2>6. CASE sats[i] # NULL
    <3>1. standing[i] = "manual"
      BY <2>1, <2>3, <2>6, StandingOf DEF Inv, TypeOK, Table, Row
    <3>2. QED
      BY <1>2, <2>1, <2>2, <2>4, <3>1 DEF Outcomes
  <2>7. QED
    BY <2>5, <2>6
<1>12. QED
  BY <1>3, <1>4, <1>5, <1>6, <1>7, <1>8, <1>9, <1>10, <1>11 DEF Handle

\* Every step keeps the contract.
LEMMA ContractStep == Inv /\ [Next]_vars => Kept
<1> SUFFICES ASSUME Inv, [Next]_vars PROVE Kept
  OBVIOUS
<1>1. \A i \in Ids : Lives(standing[i], standing'[i])
  BY LivesStep
<1>2. ASSUME NEW s \in Slots, Answers(s),
             call[s].op \in {"create", "list", "get", "delete"}, ~call[s].fromOperator
      PROVE  Outcome(standing', resp'[s].code, ShowsOperator(s))
                \in Outcomes(call[s].op, call[s].id, standing)
  BY <1>2, AnsweredByHandler, AnswerStep
<1>3. QED
  BY <1>1, <1>2 DEF Kept

\* The satellite routes keep the contract Fleetctl is proved from, with any
\* number of requests at once, lost answers, late commits and crashes.
THEOREM ContractTheorem == Spec => KeepsContract
<1>1. Inv /\ [Next]_vars => [Kept]_vars
  BY ContractStep
<1>2. QED
  BY Invariance, <1>1, PTL DEF Spec, KeepsContract

-----------------------------------------------------------------------------
(* Refinement. *)

\* The two specifications read a request and a row alike.
LEMMA Alike ==
    /\ \A c : Atomic!Malformed(c) <=> Malformed(c)
    /\ \A code, body : Atomic!Reply(code, body) = Reply(code, body)
    /\ \A row, c : Atomic!Guarded(row, c) <=> Guarded(row, c)
BY DEF Atomic!Malformed, Malformed, Atomic!Reply, Reply, Atomic!Guarded, Guarded

\* What an advance of pc is under the refinement mapping.
LEMMA PhaseStep ==
    ASSUME TypeOK, NEW s \in Slots, NEW stage \in Stages, pc' = [pc EXCEPT ![s] = stage]
    PROVE  /\ stage \in {"received", "checked", "stamped"}
                => phase' = [phase EXCEPT ![s] = "pending"]
           /\ stage \notin {"received", "checked", "stamped"}
                => phase' = [phase EXCEPT ![s] = stage]
BY DEF TypeOK, phase

\* The phase of a slot in each stage.
LEMMA PhaseOf ==
    ASSUME TypeOK, NEW s \in Slots
    PROVE  /\ pc[s] \in {"received", "checked", "stamped"} => phase[s] = "pending"
           /\ pc[s] \in {"idle", "detached", "done"} => phase[s] = pc[s]
BY DEF TypeOK, phase

\* Ending a request is ending it in the atomic specification.
LEMMA FinishRefines ==
    ASSUME TypeOK, NEW s \in Slots, NEW r, Finish(s, r),
           pc[s] \in {"received", "checked", "stamped", "detached"}
    PROVE  Atomic!Finish(s, r)
<1>1. phase' = [phase EXCEPT ![s] = "done"]
  BY PhaseStep DEF Finish, Stages
<1>2. phase[s] = "detached" <=> pc[s] = "detached"
  BY PhaseOf
<1>3. QED
  BY <1>1, <1>2 DEF Finish, Atomic!Finish

\* A handler's step is a step of the atomic specification, or none.
LEMMA HandleRefines ==
    ASSUME Inv, NEW s \in Slots, Handle(s)
    PROVE  Atomic!Apply(s) \/ Atomic!Detach(s) \/ UNCHANGED Atomic!vars
<1> DEFINE Goal == Atomic!Apply(s) \/ Atomic!Detach(s) \/ UNCHANGED Atomic!vars
<1> USE Alike DEF At, Answered
<1>0. TypeOK /\ SlotOK(s)
  BY DEF Inv
<1>1. CASE RejectMalformed(s)
  BY <1>0, <1>1, FinishRefines, PhaseOf DEF RejectMalformed, Atomic!Apply, Atomic!Reject
<1>2. CASE Create(s)
  BY <1>0, <1>2, FinishRefines, PhaseOf
     DEF Create, NameTaken, NewRow, Atomic!Apply, Atomic!Create
<1>3. CASE CreateConflict(s)
  BY <1>0, <1>3, FinishRefines, PhaseOf DEF CreateConflict, Atomic!Apply, Atomic!Fail
<1>4. CASE List(s)
  BY <1>0, <1>4, FinishRefines, PhaseOf DEF List, Atomic!Apply, Atomic!List
<1>5. CASE GetByID(s)
  BY <1>0, <1>5, FinishRefines, PhaseOf DEF GetByID, Atomic!Apply, Atomic!Get, Atomic!Absent
<1>6. CASE CheckAbsent(s)
  <2>1. Atomic!Finish(s, Reply(IF call[s].op = "update" THEN 404 ELSE 204, NULL))
    BY <1>0, <1>6, FinishRefines DEF CheckAbsent
  <2>2. phase[s] = "pending"
    BY <1>0, <1>6, PhaseOf DEF CheckAbsent
  <2>3. call[s].id \in Ids
    BY <1>0, <1>6, CallFacts DEF CheckAbsent, SlotOK
  <2>4. CASE call[s].op = "update"
    BY <1>6, <2>1, <2>2, <2>4 DEF CheckAbsent, Atomic!Apply, Atomic!Absent
  <2>5. CASE call[s].op = "delete"
    <3>1. sats' = [sats EXCEPT ![call[s].id] = NULL]
      BY <1>0, <1>6, <2>3 DEF CheckAbsent, TypeOK, Table
    <3>2. Atomic!Delete(s)
      BY <1>6, <2>1, <2>5, <3>1 DEF CheckAbsent, Atomic!Delete
    <3>3. QED
      BY <1>6, <2>2, <3>2 DEF CheckAbsent, Atomic!Apply
  <2>6. QED
    BY <1>6, <2>4, <2>5 DEF CheckAbsent
<1>7. CASE CheckRefused(s)
  BY <1>0, <1>7, FinishRefines, PhaseOf DEF CheckRefused, Atomic!Apply, Atomic!Refuse
<1>8. CASE CheckPassed(s)
  <2>1. phase' = [phase EXCEPT ![s] = "pending"] /\ phase[s] = "pending"
    BY <1>0, <1>8, PhaseStep, PhaseOf DEF CheckPassed, Goto, Stages
  <2>2. phase' = phase
    BY <2>1 DEF phase
  <2>3. QED
    BY <1>8, <2>2 DEF CheckPassed, Goto, Atomic!vars
<1>9. CASE SetRegion(s)
  <2>1. pc[s] \in {"checked", "detached"} /\ ~Guarded(sats[call[s].id], call[s])
    BY <1>9 DEF SetRegion, Inv, CheckStillValid
  <2>2. Atomic!Update(s)
    BY <1>0, <1>9, <2>1, FinishRefines DEF SetRegion, Atomic!Update
  <2>3. QED
    BY <1>0, <1>9, <2>1, <2>2, PhaseOf DEF SetRegion, Atomic!Apply
<1>10. CASE SetRegionGone(s)
  BY <1>0, <1>10, FinishRefines, PhaseOf DEF SetRegionGone, Atomic!Apply, Atomic!Absent
<1>11. CASE DeleteRow(s)
  <2>1. /\ pc[s] \in {"checked", "detached"}
        /\ sats[call[s].id] # NULL => ~Guarded(sats[call[s].id], call[s])
    BY <1>11 DEF DeleteRow, Inv, CheckStillValid
  <2>2. Atomic!Delete(s)
    BY <1>0, <1>11, <2>1, FinishRefines DEF DeleteRow, Atomic!Delete
  <2>3. QED
    BY <1>0, <1>11, <2>1, <2>2, PhaseOf DEF DeleteRow, Atomic!Apply
<1>12. CASE BeginHeartbeat(s)
  <2>1. phase' = [phase EXCEPT ![s] = "pending"] /\ phase[s] = "pending"
    BY <1>0, <1>12, PhaseStep, PhaseOf DEF BeginHeartbeat, Goto, Stages
  <2>2. phase' = phase
    BY <2>1 DEF phase
  <2>3. QED
    BY <1>12, <2>2 DEF BeginHeartbeat, Goto, Atomic!vars
<1>13. CASE UpdateHeartbeat(s)
  <2>1. pc[s] \in {"stamped", "detached"} /\ stamp[s] \in since[s]..now
    BY <1>0, <1>13, MaxTimeAssumption DEF UpdateHeartbeat, SlotOK, TypeOK, Time
  <2>2. Atomic!Heartbeat(s)
    BY <1>0, <1>13, <2>1, FinishRefines DEF UpdateHeartbeat, Atomic!Heartbeat
  <2>3. QED
    BY <1>0, <1>13, <2>1, <2>2, PhaseOf DEF UpdateHeartbeat, Atomic!Apply
<1>14. CASE HeartbeatGone(s)
  BY <1>0, <1>14, FinishRefines, PhaseOf DEF HeartbeatGone, Atomic!Apply, Atomic!Absent
<1>15. CASE StatementFails(s)
  BY <1>0, <1>15, FinishRefines, PhaseOf DEF StatementFails, Atomic!Apply, Atomic!Fail
<1>16. CASE Abandon(s)
  <2>1. phase' = [phase EXCEPT ![s] = "detached"] /\ phase[s] = "pending"
    BY <1>0, <1>16, PhaseStep, PhaseOf DEF Abandon, InFlight, Stages
  <2>2. Atomic!Mutation(call[s])
    BY <1>0, <1>16 DEF Abandon, InFlight, SlotOK, Atomic!Mutation
  <2>3. QED
    BY <1>16, <2>1, <2>2 DEF Abandon, Atomic!Detach
<1>17. QED
  BY <1>1, <1>2, <1>3, <1>4, <1>5, <1>6, <1>7, <1>8, <1>9, <1>10, <1>11, <1>12,
     <1>13, <1>14, <1>15, <1>16 DEF Handle

\* A crash of an API process is a crash of the atomic specification.
LEMMA CrashRefines ==
    ASSUME Inv, NEW X \in SUBSET Slots, Crash(X)
    PROVE  Atomic!Crash(X)
<1>1. PICK D \in SUBSET {s \in X : InFlight(s) \/ pc[s] = "detached"} :
        /\ pc' = [s \in Slots |-> IF s \in D THEN "detached"
                                  ELSE IF s \in X THEN "idle" ELSE pc[s]]
        /\ call' = [s \in Slots |-> IF s \in X \ D THEN NULL ELSE call[s]]
        /\ since' = [s \in Slots |-> IF s \in X \ D THEN NULL ELSE since[s]]
        /\ resp' = [s \in Slots |-> IF s \in D THEN Reply(0, NULL)
                                    ELSE IF s \in X THEN NULL ELSE resp[s]]
        /\ UNCHANGED <<sats, used, now>>
  BY DEF Crash
<1>2. phase' = [s \in Slots |-> IF s \in D THEN "detached"
                               ELSE IF s \in X THEN "idle" ELSE phase[s]]
  BY <1>1 DEF phase
<1>3. ASSUME NEW s \in D
      PROVE  phase[s] = "detached" \/ (phase[s] = "pending" /\ Atomic!Mutation(call[s]))
  <2>1. s \in Slots /\ (InFlight(s) \/ pc[s] = "detached") /\ TypeOK /\ SlotOK(s)
    BY <1>1 DEF Inv
  <2>2. CASE pc[s] = "detached"
    BY <2>1, <2>2, PhaseOf
  <2>3. CASE InFlight(s)
    <3>1. phase[s] = "pending"
      BY <2>1, <2>3, PhaseOf DEF InFlight
    <3>2. QED
      BY <2>1, <2>3, <3>1, Alike DEF InFlight, SlotOK, Atomic!Mutation
  <2>4. QED
    BY <2>1, <2>2, <2>3
<1>4. D \in SUBSET {s \in X : \/ phase[s] = "detached"
                              \/ phase[s] = "pending" /\ Atomic!Mutation(call[s])}
  BY <1>1, <1>3
<1>5. QED
  BY <1>1, <1>2, <1>4, Alike DEF Atomic!Crash

\* The table starts as the atomic one does.
LEMMA AtomicInit == Init => Atomic!Init
BY DEF Init, Atomic!Init, phase

\* Every step is a step of the atomic specification, or none.
LEMMA AtomicStep == Inv /\ [Next]_vars => [Atomic!Next]_(Atomic!vars)
<1> SUFFICES ASSUME Inv, [Next]_vars PROVE Atomic!Next \/ UNCHANGED Atomic!vars
  OBVIOUS
<1>1. ASSUME NEW s \in Slots, NEW c \in Requests, Receive(s, c) PROVE Atomic!Arrive(s)
  <2>1. phase' = [phase EXCEPT ![s] = "pending"] /\ phase[s] = "idle"
    BY <1>1, PhaseStep, PhaseOf DEF Receive, Inv, Stages
  <2>2. call'[s] = c
    BY <1>1 DEF Receive, Inv, TypeOK
  <2>3. QED
    BY <1>1, <2>1, <2>2 DEF Receive, Atomic!Arrive
<1>2. ASSUME NEW s \in Slots, Release(s) PROVE Atomic!Release(s)
  <2>1. phase' = [phase EXCEPT ![s] = "idle"] /\ phase[s] \in {"done", "detached"}
    BY <1>2, PhaseStep, PhaseOf DEF Release, Inv, Stages
  <2>2. QED
    BY <1>2, <2>1 DEF Release, Atomic!Release
<1>3. CASE Tick
  BY <1>3 DEF Tick, Atomic!Tick, Atomic!Next, phase
<1>4. ASSUME NEW X \in SUBSET Slots, Crash(X) PROVE Atomic!Crash(X)
  BY <1>4, CrashRefines
<1>5. CASE UNCHANGED vars
  BY <1>5 DEF vars, Atomic!vars, phase
<1>6. QED
  BY <1>1, <1>2, <1>3, <1>4, <1>5, HandleRefines DEF Next, Atomic!Next

\* The interleaved handlers implement the atomic specification: every
\* request takes effect at one instant of its life.
THEOREM Refinement == Spec => Linearizable
BY Invariance, AtomicInit, AtomicStep, PTL DEF Spec, Linearizable, Atomic!Spec
=============================================================================
