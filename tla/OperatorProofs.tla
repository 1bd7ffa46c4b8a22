--------------------------- MODULE OperatorProofs ---------------------------
(***************************************************************************)
(* Proofs about Operator, for any number of managers, objects, edits and   *)
(* crashes.  The argument: a status update carries the version it was read *)
(* at, versions never change once written, and the API server takes it     *)
(* only while that version is the newest.                                  *)
(***************************************************************************)
EXTENDS Operator, TLAPS

\* What a step does to the versions: it keeps them all, and those it adds
\* are in order and new.
HistStep ==
    /\ hist' \in [Objects -> Seq(Version)]
    /\ WritesOK'
    /\ \A n \in Objects :
        Len(hist[n]) <= Len(hist'[n]) /\ (hist'[n] # hist[n] => Len(hist[n]) < Len(hist'[n]))
    /\ \A w \in Fetched : Request(hist, w) => Request(hist', w)

\* A step that leaves the versions alone is one.
LEMMA SameHist == Inv /\ hist' = hist => HistStep
<1> SUFFICES ASSUME Inv, hist' = hist PROVE HistStep
  OBVIOUS
<1>1. \A n \in Objects : Len(hist[n]) \in Nat
  BY DEF Inv, TypeOK
<1>2. WritesOK'
  BY DEF Inv, WritesOK
<1>3. QED
  BY <1>1, <1>2 DEF Inv, TypeOK, HistStep

\* So is one that appends a version of someone else, or one of the
\* operator's made from the newest.
LEMMA AppendHist ==
    ASSUME Inv, NEW n \in Objects, NEW v \in Version,
           hist' = [hist EXCEPT ![n] = Append(hist[n], v)],
           v.by = "operator" => Len(hist[n]) > 0 /\ MadeFrom(v, hist[n][Len(hist[n])])
    PROVE  HistStep
<1>1. hist[n] \in Seq(Version) /\ Len(hist[n]) \in Nat
  BY DEF Inv, TypeOK
<1>2. /\ hist'[n] = Append(hist[n], v) /\ hist'[n] \in Seq(Version)
      /\ Len(hist'[n]) = Len(hist[n]) + 1
      /\ hist'[n][Len(hist[n]) + 1] = v
      /\ \A k \in 1..Len(hist[n]) : hist'[n][k] = hist[n][k]
  BY <1>1 DEF Inv, TypeOK
<1>3. \A o \in Objects : o # n => hist'[o] = hist[o]
  BY DEF Inv, TypeOK
<1>4. hist' \in [Objects -> Seq(Version)]
  BY <1>1 DEF Inv, TypeOK
<1>5. \A o \in Objects :
        Len(hist[o]) <= Len(hist'[o]) /\ (hist'[o] # hist[o] => Len(hist[o]) < Len(hist'[o]))
  BY <1>1, <1>2, <1>3 DEF Inv, TypeOK
<1>6. \A o \in Objects : \A k \in DOMAIN hist[o] : k \in DOMAIN hist'[o] /\ hist'[o][k] = hist[o][k]
  BY <1>1, <1>2, <1>3 DEF Inv, TypeOK
<1>7. ASSUME NEW w \in Fetched, Request(hist, w) PROVE Request(hist', w)
  <2>1. w.name \in Objects /\ w.base \in DOMAIN hist[w.name]
    BY <1>7 DEF Fetched, Request
  <2>2. w.base \in DOMAIN hist'[w.name] /\ hist'[w.name][w.base] = hist[w.name][w.base]
    BY <1>6, <2>1
  <2>3. QED
    BY <1>7, <2>2 DEF Request
<1>8. ASSUME NEW o \in Objects, NEW k \in DOMAIN hist'[o], hist'[o][k].by = "operator"
      PROVE  k > 1 /\ MadeFrom(hist'[o][k], hist'[o][k - 1])
  <2>1. CASE k \in DOMAIN hist[o]
    <3>1. hist[o][k].by = "operator"
      BY <1>6, <1>8, <2>1
    <3>2. k > 1 /\ MadeFrom(hist[o][k], hist[o][k - 1])
      BY <2>1, <3>1 DEF Inv, WritesOK
    <3>3. k - 1 \in DOMAIN hist[o]
      BY <2>1, <3>2 DEF Inv, TypeOK
    <3>4. QED
      BY <1>6, <2>1, <3>2, <3>3
  <2>2. CASE k \notin DOMAIN hist[o]
    <3>1. o = n /\ k = Len(hist[n]) + 1
      BY <1>1, <1>2, <1>3, <1>8, <2>2 DEF Inv, TypeOK
    <3>2. hist'[o][k] = v /\ v.by = "operator"
      BY <1>2, <1>8, <3>1
    <3>3. Len(hist[n]) > 0 /\ MadeFrom(v, hist[n][Len(hist[n])])
      BY <3>2
    <3>4. k > 1 /\ k - 1 = Len(hist[n]) /\ k - 1 \in 1..Len(hist[n])
      BY <1>1, <3>1, <3>3
    <3>5. QED
      BY <1>2, <3>1, <3>2, <3>3, <3>4
  <2>3. QED
    BY <2>1, <2>2
<1>9. WritesOK'
  BY <1>8 DEF WritesOK
<1>10. QED
  BY <1>4, <1>5, <1>7, <1>9 DEF HistStep

\* A status update the API server takes was made from the newest version.
LEMMA StatusVersion ==
    ASSUME Inv, NEW w \in Fetched, Request(hist, w), Accepted(w), StatusWritten(w)
    PROVE  /\ w.name \in Objects /\ Len(hist[w.name]) > 0
           /\ \E v \in Version :
                 /\ hist' = [hist EXCEPT ![w.name] = Append(hist[w.name], v)]
                 /\ v.by = "operator" /\ MadeFrom(v, hist[w.name][Len(hist[w.name])])
<1> DEFINE n == w.name
           u == hist[n][Len(hist[n])]
           v == [u EXCEPT !.phase = w.sat.phase, !.managedBy = w.sat.managedBy,
                          !.heartbeat = w.sat.heartbeat, !.by = "operator"]
<1>1. n \in Objects /\ hist[n] \in Seq(Version) /\ Len(hist[n]) \in Nat
  BY DEF Fetched, Inv, TypeOK
<1>2. Len(hist[n]) > 0 /\ w.base = Len(hist[n]) /\ u \in Version
  BY <1>1 DEF Request, Accepted
<1>3. u.live /\ u.phase # "Ready" /\ w.sat = [u EXCEPT !.phase = "Ready", !.managedBy = "operator"]
  BY <1>2 DEF Request, ReadFrom
<1>4. w.sat.phase = "Ready" /\ w.sat.managedBy = "operator" /\ w.sat.heartbeat = u.heartbeat
  BY <1>2, <1>3 DEF Version
<1>5. /\ v \in Version /\ v.by = "operator"
      /\ v = [u EXCEPT !.phase = "Ready", !.managedBy = "operator", !.by = "operator"]
  BY <1>2, <1>4 DEF Version, Phases
<1>6. MadeFrom(v, u)
  BY <1>3, <1>5 DEF MadeFrom
<1>7. hist' = [hist EXCEPT ![n] = Append(hist[n], v)]
  BY DEF StatusWritten, Latest
<1> HIDE DEF v
<1>8. QED
  BY <1>1, <1>2, <1>5, <1>6, <1>7

LEMMA WriteHist ==
    ASSUME Inv, NEW w \in Fetched, Request(hist, w), Accepted(w), StatusWritten(w)
    PROVE  HistStep
BY StatusVersion, AppendHist

\* Given the versions, the rest of the invariant is the managers'.
LEMMA Managed ==
    ASSUME Inv, HistStep,
           edits' \in [Objects -> 0..MaxEdits], up' \in [Managers -> BOOLEAN],
           crashes' \in [Managers -> 0..MaxCrashes], seen' \in [Managers -> [Objects -> Nat]],
           queue' \in [Managers -> SUBSET Objects],
           worker' \in [Managers -> {Idle} \cup Popped \cup Fetched], orphans' \subseteq Fetched,
           \A m \in Managers, n \in Objects : seen'[m][n] <= Len(hist'[n]),
           \A m \in Managers : worker'[m].stage = "fetched" => Request(hist', worker'[m]),
           \A w \in orphans' : Request(hist', w)
    PROVE  Inv'
<1>1. TypeOK' /\ CacheOK'
  BY DEF HistStep, TypeOK, CacheOK
<1>2. RequestsOK'
  BY DEF RequestsOK
<1>3. QED
  BY <1>1, <1>2 DEF Inv, HistStep

LEMMA FetchedWorker ==
    ASSUME Inv, NEW m \in Managers, worker[m].stage = "fetched"
    PROVE  worker[m] \in Fetched /\ Request(hist, worker[m])
<1>1. worker[m] \in {Idle} \cup Popped \cup Fetched
  BY DEF Inv, TypeOK
<1>2. worker[m] \in Fetched
  BY <1>1 DEF Idle, Popped
<1>3. QED
  BY <1>2 DEF Inv, RequestsOK

\* The end of a step of m's worker: it is idle, whether or not the name is
\* queued again.
LEMMA WorkerIdle ==
    ASSUME Inv, HistStep, NEW m \in Managers, Done(m) \/ Requeue(m), worker[m] # Idle
    PROVE  Inv'
<1>1. worker[m].name \in Objects
  BY DEF Inv, TypeOK, Popped, Fetched
<1>2. /\ queue' \in [Managers -> SUBSET Objects]
      /\ edits' = edits /\ up' = up /\ crashes' = crashes /\ seen' = seen /\ orphans' = orphans
      /\ worker' = [worker EXCEPT ![m] = Idle]
  <2>1. queue \in [Managers -> SUBSET Objects]
    BY DEF Inv, TypeOK
  <2>2. CASE Done(m)
    BY <2>1, <2>2 DEF Done, cluster
  <2>3. CASE Requeue(m)
    <3>1. queue' = [queue EXCEPT ![m] = queue[m] \cup {worker[m].name}]
      BY <2>3 DEF Requeue
    <3>2. queue[m] \cup {worker[m].name} \in SUBSET Objects
      BY <1>1, <2>1
    <3>3. queue' \in [Managers -> SUBSET Objects]
      BY <2>1, <3>1, <3>2
    <3>4. QED
      BY <2>3, <3>3 DEF Requeue, cluster
  <2>4. QED
    BY <2>2, <2>3
<1>3. worker' \in [Managers -> {Idle} \cup Popped \cup Fetched]
  BY <1>2 DEF Inv, TypeOK
<1>4. \A k \in Managers, n \in Objects : seen'[k][n] <= Len(hist'[n])
  <2> SUFFICES ASSUME NEW k \in Managers, NEW n \in Objects PROVE seen'[k][n] <= Len(hist'[n])
    OBVIOUS
  <2>1. seen'[k][n] = seen[k][n] /\ seen[k][n] \in Nat /\ seen[k][n] <= Len(hist[n])
    BY <1>2 DEF Inv, TypeOK, CacheOK
  <2>2. Len(hist[n]) \in Nat /\ Len(hist'[n]) \in Nat /\ Len(hist[n]) <= Len(hist'[n])
    BY DEF Inv, TypeOK, HistStep
  <2>3. QED
    BY <2>1, <2>2
<1>5. ASSUME NEW k \in Managers, worker'[k].stage = "fetched" PROVE Request(hist', worker'[k])
  <2>1. k # m /\ worker'[k] = worker[k]
    BY <1>2, <1>5 DEF Inv, TypeOK, Idle
  <2>2. worker[k] \in Fetched /\ Request(hist, worker[k])
    BY <1>5, <2>1, FetchedWorker
  <2>3. QED
    BY <2>1, <2>2 DEF HistStep
<1>6. \A w \in orphans' : Request(hist', w)
  BY <1>2 DEF Inv, TypeOK, RequestsOK, HistStep
<1>7. QED
  BY <1>2, <1>3, <1>4, <1>5, <1>6, Managed DEF Inv, TypeOK

\* A step that leaves caches and workers alone needs only its versions.
LEMMA ServerStep ==
    ASSUME Inv, HistStep, edits' \in [Objects -> 0..MaxEdits],
           UNCHANGED <<up, crashes, seen, queue, worker>>, orphans' \subseteq orphans
    PROVE  Inv'
<1>1. \A k \in Managers, n \in Objects : seen'[k][n] <= Len(hist'[n])
  <2> SUFFICES ASSUME NEW k \in Managers, NEW n \in Objects PROVE seen'[k][n] <= Len(hist'[n])
    OBVIOUS
  <2>1. seen'[k][n] = seen[k][n] /\ seen[k][n] \in Nat /\ seen[k][n] <= Len(hist[n])
    BY DEF Inv, TypeOK, CacheOK
  <2>2. Len(hist[n]) \in Nat /\ Len(hist'[n]) \in Nat /\ Len(hist[n]) <= Len(hist'[n])
    BY DEF Inv, TypeOK, HistStep
  <2>3. QED
    BY <2>1, <2>2
<1>2. ASSUME NEW k \in Managers, worker'[k].stage = "fetched" PROVE Request(hist', worker'[k])
  <2>1. worker'[k] = worker[k]
    OBVIOUS
  <2>2. worker[k] \in Fetched /\ Request(hist, worker[k])
    BY <1>2, <2>1, FetchedWorker
  <2>3. QED
    BY <2>1, <2>2 DEF HistStep
<1>3. \A w \in orphans' : w \in Fetched /\ Request(hist', w)
  BY DEF Inv, TypeOK, RequestsOK, HistStep
<1>4. QED
  BY <1>1, <1>2, <1>3, Managed DEF Inv, TypeOK

\* A step of one manager's cache, queue or worker, the versions being as
\* they were.
LEMMA ManagerStep ==
    ASSUME Inv, NEW m \in Managers, hist' = hist, edits' = edits,
           up' \in [Managers -> BOOLEAN], crashes' \in [Managers -> 0..MaxCrashes],
           NEW s \in [Objects -> Nat], seen' = [seen EXCEPT ![m] = s],
           \A n \in Objects : s[n] <= Len(hist[n]),
           NEW q \in SUBSET Objects, queue' = [queue EXCEPT ![m] = q],
           NEW w \in {Idle} \cup Popped \cup Fetched, worker' = [worker EXCEPT ![m] = w],
           w.stage = "fetched" => Request(hist, w),
           orphans' \subseteq Fetched, \A o \in orphans' : Request(hist, o)
    PROVE  Inv'
<1>1. HistStep
  BY SameHist
<1>2. /\ seen' \in [Managers -> [Objects -> Nat]]
      /\ worker' \in [Managers -> {Idle} \cup Popped \cup Fetched]
  BY DEF Inv, TypeOK
<1>3. queue' \in [Managers -> SUBSET Objects]
  BY DEF Inv, TypeOK
<1>4. \A k \in Managers, n \in Objects : seen'[k][n] <= Len(hist'[n])
  BY DEF Inv, TypeOK, CacheOK
<1>5. ASSUME NEW k \in Managers, worker'[k].stage = "fetched" PROVE Request(hist', worker'[k])
  <2>1. worker \in [Managers -> {Idle} \cup Popped \cup Fetched]
    BY DEF Inv, TypeOK
  <2>2. CASE k = m
    <3>1. worker'[k] = w
      BY <2>1, <2>2
    <3>2. QED
      BY <1>5, <3>1
  <2>3. CASE k # m
    <3>1. worker'[k] = worker[k]
      BY <2>1, <2>3
    <3>2. QED
      BY <1>5, <3>1, FetchedWorker
  <2>4. QED
    BY <2>2, <2>3
<1>6. QED
  BY <1>1, <1>2, <1>3, <1>4, <1>5, Managed DEF Inv, TypeOK

\* Initially nothing is written, cached or under way.
LEMMA InitInv == Init => Inv
<1> SUFFICES ASSUME Init PROVE Inv
  OBVIOUS
<1>1. TypeOK
  BY OperatorAssumption DEF Init, TypeOK
<1>2. CacheOK
  BY DEF Init, CacheOK
<1>3. RequestsOK
  BY DEF Init, RequestsOK, Idle
<1>4. WritesOK
  BY DEF Init, WritesOK
<1>5. QED
  BY <1>1, <1>2, <1>3, <1>4 DEF Inv

\* The newest version of an object that exists.
LEMMA NewestVersion ==
    ASSUME Inv, NEW n \in Objects, Exists(n)
    PROVE  Len(hist[n]) \in Nat /\ Len(hist[n]) > 0 /\ Latest(n) \in Version
BY DEF Inv, TypeOK, Exists, Latest

\* An edit by someone else.
LEMMA EditHist ==
    ASSUME Inv, NEW n \in Objects, NEW v \in Version, Edit(n, v)
    PROVE  HistStep
<1> DEFINE u == [v EXCEPT !.by = "user"]
<1>1. u \in Version /\ u.by = "user"
  BY DEF Version
<1>2. hist' = [hist EXCEPT ![n] = Append(hist[n], u)]
  BY DEF Edit
<1> HIDE DEF u
<1>3. QED
  BY <1>1, <1>2, AppendHist

LEMMA EditInv ==
    ASSUME Inv, NEW n \in Objects, NEW v \in Version, Edit(n, v)
    PROVE  Inv'
<1>1. edits' \in [Objects -> 0..MaxEdits]
  BY OperatorAssumption DEF Inv, TypeOK, Edit
<1>2. UNCHANGED <<up, crashes, seen, queue, worker>> /\ orphans' \subseteq orphans
  BY DEF Edit, cluster
<1>3. QED
  BY <1>1, <1>2, EditHist, ServerStep

\* Others edit one object.
LEMMA OthersEdit ==
    ASSUME Inv, Others
    PROVE  \E n \in Objects : \E v \in Version : Edit(n, v)
<1>1. PICK n \in Objects :
        \/ \E r \in Regions : CreateObject(n, r) \/ EditSpec(n, r)
        \/ \E phase \in Phases : EditStatus(n, phase)
        \/ DeleteObject(n)
  BY DEF Others
<1> SUFFICES \E v \in Version : Edit(n, v)
  OBVIOUS
<1>2. ASSUME NEW r \in Regions, CreateObject(n, r) PROVE \E v \in Version : Edit(n, v)
  <2> DEFINE v == [live |-> TRUE, uid |-> Len(hist[n]) + 1, region |-> r,
                   phase |-> "", managedBy |-> "", heartbeat |-> 0, by |-> "user"]
  <2>1. Len(hist[n]) \in Nat
    BY DEF Inv, TypeOK
  <2>2. v \in Version
    BY <2>1 DEF Version
  <2>3. Edit(n, v)
    BY <1>2 DEF CreateObject
  <2> HIDE DEF v
  <2>4. QED
    BY <2>2, <2>3
<1>3. ASSUME NEW r \in Regions, EditSpec(n, r) PROVE \E v \in Version : Edit(n, v)
  <2> DEFINE v == [Latest(n) EXCEPT !.region = r]
  <2>1. Latest(n) \in Version
    BY <1>3, NewestVersion DEF EditSpec
  <2>2. v \in Version
    BY <2>1 DEF Version
  <2>3. Edit(n, v)
    BY <1>3 DEF EditSpec
  <2> HIDE DEF v
  <2>4. QED
    BY <2>2, <2>3
<1>4. ASSUME NEW phase \in Phases, EditStatus(n, phase)
      PROVE  \E v \in Version : Edit(n, v)
  <2> DEFINE v == [Latest(n) EXCEPT !.phase = phase, !.heartbeat = Latest(n).heartbeat + 1]
  <2>1. Latest(n) \in Version
    BY <1>4, NewestVersion DEF EditStatus
  <2>2. v \in Version
    <3>1. Latest(n).heartbeat \in Nat
      BY <2>1 DEF Version
    <3>2. Latest(n).heartbeat + 1 \in Nat
      BY <3>1
    <3>3. QED
      BY <2>1, <3>2 DEF Version, Phases
  <2>3. Edit(n, v)
    BY <1>4 DEF EditStatus
  <2> HIDE DEF v
  <2>4. QED
    BY <2>2, <2>3
<1>5. ASSUME DeleteObject(n) PROVE \E v \in Version : Edit(n, v)
  <2> DEFINE v == [Latest(n) EXCEPT !.live = FALSE]
  <2>1. Latest(n) \in Version
    BY <1>5, NewestVersion DEF DeleteObject
  <2>2. v \in Version
    BY <2>1 DEF Version
  <2>3. Edit(n, v)
    BY <1>5 DEF DeleteObject
  <2> HIDE DEF v
  <2>4. QED
    BY <2>2, <2>3
<1>6. QED
  BY <1>1, <1>2, <1>3, <1>4, <1>5

LEMMA OthersHist == Inv /\ Others => HistStep
BY OthersEdit, EditHist

LEMMA OthersInv == Inv /\ Others => Inv'
BY OthersEdit, EditInv

\* The informer and the queue.
LEMMA QueueInv ==
    ASSUME Inv, NEW m \in Managers, NEW n \in Objects, Deliver(m, n) \/ Pop(m, n)
    PROVE  Inv'
<1> USE DEF server, cluster
<1>1. CASE Deliver(m, n)
  <2> DEFINE s == [seen[m] EXCEPT ![n] = @ + 1]
             q == queue[m] \cup {n}
  <2>1. s \in [Objects -> Nat] /\ q \in SUBSET Objects
    BY DEF Inv, TypeOK
  <2>2. seen' = [seen EXCEPT ![m] = s] /\ queue' = [queue EXCEPT ![m] = q]
    BY <1>1 DEF Deliver
  <2>3. \A k \in Objects : s[k] <= Len(hist[k])
    BY <1>1 DEF Inv, TypeOK, CacheOK, Deliver
  <2>4. worker' = [worker EXCEPT ![m] = worker[m]]
    BY <1>1 DEF Deliver, Inv, TypeOK
  <2>5. worker[m] \in {Idle} \cup Popped \cup Fetched
    BY DEF Inv, TypeOK
  <2>6. worker[m].stage = "fetched" => Request(hist, worker[m])
    BY FetchedWorker
  <2> HIDE DEF s, q
  <2>7. QED
    BY <1>1, <2>1, <2>2, <2>3, <2>4, <2>5, <2>6, ManagerStep DEF Deliver, Inv, TypeOK, RequestsOK
<1>2. CASE Pop(m, n)
  <2> DEFINE q == queue[m] \ {n}
             w == [stage |-> "popped", name |-> n]
  <2>1. w \in {Idle} \cup Popped \cup Fetched /\ w.stage # "fetched"
    BY DEF Popped
  <2>2. q \in SUBSET Objects
    BY DEF Inv, TypeOK
  <2>3. queue' = [queue EXCEPT ![m] = q] /\ worker' = [worker EXCEPT ![m] = w]
    BY <1>2 DEF Pop
  <2>4. seen' = [seen EXCEPT ![m] = seen[m]] /\ seen[m] \in [Objects -> Nat]
    BY <1>2 DEF Pop, Inv, TypeOK
  <2>5. \A k \in Objects : seen[m][k] <= Len(hist[k])
    BY DEF Inv, CacheOK
  <2> HIDE DEF q, w
  <2>6. QED
    BY <1>2, <2>1, <2>2, <2>3, <2>4, <2>5, ManagerStep DEF Pop, Inv, TypeOK, RequestsOK
<1>3. QED
  BY <1>1, <1>2

\* What Get finds is a version there was, of an object that existed.
LEMMA CachedVersion ==
    ASSUME Inv, NEW m \in Managers, worker[m].name \in Objects, Cached(m) # NULL
    PROVE  LET k == seen[m][worker[m].name]
           IN  /\ k \in Nat /\ k \in DOMAIN hist[worker[m].name]
               /\ Cached(m) = hist[worker[m].name][k]
               /\ Cached(m) \in Version /\ Cached(m).live
<1> DEFINE n == worker[m].name
           k == seen[m][n]
<1>1. k # 0 /\ hist[n][k].live /\ Cached(m) = hist[n][k]
  BY DEF Cached
<1>2. k \in Nat /\ k <= Len(hist[n]) /\ hist[n] \in Seq(Version) /\ Len(hist[n]) \in Nat
  BY DEF Inv, TypeOK, CacheOK
<1>3. k \in DOMAIN hist[n]
  BY <1>1, <1>2
<1>4. hist[n][k] \in Version
  BY <1>2, <1>3
<1>5. QED
  BY <1>1, <1>2, <1>3, <1>4

\* The decision to write: the update is made from the version in the cache.
LEMMA MarkReadyInv ==
    ASSUME Inv, NEW m \in Managers, MarkReady(m)
    PROVE  Inv'
<1> DEFINE n == worker[m].name
           sat == [Cached(m) EXCEPT !.phase = "Ready", !.managedBy = "operator"]
           w == [stage |-> "fetched", name |-> n, base |-> seen[m][n], sat |-> sat]
<1>1. worker[m].stage = "popped" /\ Cached(m) # NULL /\ Cached(m).phase # "Ready"
  BY DEF MarkReady, At
<1>2. n \in Objects
  <2>1. worker[m] \in {Idle} \cup Popped \cup Fetched
    BY DEF Inv, TypeOK
  <2>2. QED
    BY <1>1, <2>1 DEF Idle, Popped, Fetched
<1>3. /\ seen[m][n] \in Nat /\ seen[m][n] \in DOMAIN hist[n]
      /\ Cached(m) = hist[n][seen[m][n]] /\ Cached(m) \in Version /\ Cached(m).live
  BY <1>1, <1>2, CachedVersion
<1>4. sat \in Version
  BY <1>3 DEF Version, Phases
<1>5. w \in Fetched
  <2> HIDE DEF sat
  <2> QED BY <1>2, <1>3, <1>4 DEF Fetched
<1>6. Request(hist, w)
  <2>1. ReadFrom(w, Cached(m))
    BY <1>1, <1>3 DEF ReadFrom
  <2>2. w.base = seen[m][n] /\ w.name = n
    OBVIOUS
  <2> HIDE DEF w
  <2>3. QED
    BY <1>3, <2>1, <2>2 DEF Request
<1>7. worker' = [worker EXCEPT ![m] = w] /\ UNCHANGED <<hist, edits, up, crashes, seen, queue, orphans>>
  BY DEF MarkReady, server, cluster
<1>8. /\ seen' = [seen EXCEPT ![m] = seen[m]] /\ seen[m] \in [Objects -> Nat]
      /\ queue' = [queue EXCEPT ![m] = queue[m]] /\ queue[m] \in SUBSET Objects
  BY <1>7 DEF Inv, TypeOK
<1>9. \A k \in Objects : seen[m][k] <= Len(hist[k])
  BY DEF Inv, CacheOK
<1> HIDE DEF w
<1>10. QED
  BY <1>5, <1>6, <1>7, <1>8, <1>9, ManagerStep DEF Inv, TypeOK, RequestsOK

\* The end of a Reconcile that does not write.
LEMMA NoWriteInv ==
    ASSUME Inv, NEW m \in Managers,
           \/ GetNotFound(m) \/ GetFails(m) \/ AlreadyReady(m) \/ UpdateConflict(m) \/ UpdateFails(m)
    PROVE  Inv'
<1>1. HistStep
  BY SameHist DEF GetNotFound, GetFails, AlreadyReady, UpdateConflict, UpdateFails
<1>2. worker[m] # Idle
  BY DEF Idle, At, GetNotFound, GetFails, AlreadyReady, UpdateConflict, UpdateFails
<1>3. Done(m) \/ Requeue(m)
  BY DEF GetNotFound, GetFails, AlreadyReady, UpdateConflict, UpdateFails
<1>4. QED
  BY <1>1, <1>2, <1>3, WorkerIdle

\* A status update that is taken, heard of or not.
LEMMA WriteInv ==
    ASSUME Inv, NEW m \in Managers, UpdateStatus(m) \/ UpdateStatusUnheard(m)
    PROVE  Inv'
<1>1. /\ worker[m].stage = "fetched" /\ Accepted(worker[m]) /\ StatusWritten(worker[m])
      /\ Done(m) \/ Requeue(m)
  BY DEF UpdateStatus, UpdateStatusUnheard, At
<1>2. worker[m] \in Fetched /\ Request(hist, worker[m])
  BY <1>1, FetchedWorker
<1>3. HistStep
  BY <1>1, <1>2, WriteHist
<1>4. worker[m] # Idle
  BY <1>1 DEF Idle
<1>5. QED
  BY <1>1, <1>3, <1>4, WorkerIdle

\* Death and return of a manager, and the write it left behind.
LEMMA CrashInv ==
    ASSUME Inv, NEW m \in Managers, Crash(m)
    PROVE  Inv'
<1> DEFINE none == [n \in Objects |-> 0]
<1>1. PICK W \in SUBSET {worker[m]} :
        (\A w \in W : w.stage = "fetched") /\ orphans' = orphans \cup W
  BY DEF Crash
<1>2. \A w \in W : w \in Fetched /\ Request(hist, w)
  BY <1>1, FetchedWorker
<1>3. orphans' \subseteq Fetched /\ \A w \in orphans' : Request(hist, w)
  BY <1>1, <1>2 DEF Inv, TypeOK, RequestsOK
<1>4. none \in [Objects -> Nat] /\ \A n \in Objects : none[n] <= Len(hist[n])
  BY DEF Inv, TypeOK
<1>5. Idle.stage # "fetched" /\ Idle \in {Idle} \cup Popped \cup Fetched
  BY DEF Idle
<1> DEFINE q == {}
<1>6. q \in SUBSET Objects
  OBVIOUS
<1>7. /\ up' \in [Managers -> BOOLEAN] /\ crashes' \in [Managers -> 0..MaxCrashes]
      /\ hist' = hist /\ edits' = edits
      /\ seen' = [seen EXCEPT ![m] = none] /\ queue' = [queue EXCEPT ![m] = q]
      /\ worker' = [worker EXCEPT ![m] = Idle]
  <2>1. up' \in [Managers -> BOOLEAN]
    BY DEF Crash, Inv, TypeOK
  <2>2. crashes' \in [Managers -> 0..MaxCrashes]
    BY OperatorAssumption DEF Crash, Inv, TypeOK
  <2>3. QED
    BY <2>1, <2>2 DEF Crash, server
<1> HIDE DEF none, q
<1>8. QED
  BY <1>3, <1>4, <1>5, <1>6, <1>7, ManagerStep

LEMMA RestartInv ==
    ASSUME Inv, NEW m \in Managers, Restart(m)
    PROVE  Inv'
<1> DEFINE s == [n \in Objects |-> Len(hist[n])]
           q == {n \in Objects : Exists(n)}
<1>1. s \in [Objects -> Nat] /\ \A n \in Objects : s[n] <= Len(hist[n])
  BY DEF Inv, TypeOK
<1>2. up' \in [Managers -> BOOLEAN] /\ crashes' = crashes
  BY DEF Restart, Inv, TypeOK
<1>3. /\ hist' = hist /\ edits' = edits /\ orphans' = orphans
      /\ seen' = [seen EXCEPT ![m] = s] /\ queue' = [queue EXCEPT ![m] = q]
      /\ worker' = [worker EXCEPT ![m] = worker[m]]
  BY DEF Restart, server, Inv, TypeOK
<1>4. worker[m] \in {Idle} \cup Popped \cup Fetched /\ q \in SUBSET Objects
  BY DEF Inv, TypeOK
<1>5. worker[m].stage = "fetched" => Request(hist, worker[m])
  BY FetchedWorker
<1> HIDE DEF s, q
<1>6. QED
  BY <1>1, <1>2, <1>3, <1>4, <1>5, ManagerStep DEF Inv, TypeOK, RequestsOK

LEMMA OrphanInv ==
    ASSUME Inv, NEW w \in orphans, OrphanLands(w)
    PROVE  Inv'
<1>1. w \in Fetched /\ Request(hist, w)
  BY DEF Inv, TypeOK, RequestsOK
<1>2. HistStep
  BY <1>1, SameHist, WriteHist DEF OrphanLands
<1>3. /\ edits' \in [Objects -> 0..MaxEdits] /\ orphans' \subseteq orphans
      /\ UNCHANGED <<up, crashes, seen, queue, worker>>
  BY DEF OrphanLands, cluster, Inv, TypeOK
<1>4. QED
  BY <1>2, <1>3, ServerStep

\* Every step keeps the invariant.
LEMMA NextInv == Inv /\ [Next]_vars => Inv'
<1> SUFFICES ASSUME Inv, [Next]_vars PROVE Inv'
  OBVIOUS
<1>1. CASE Others
  BY <1>1, OthersInv
<1>2. ASSUME NEW m \in Managers, NEW n \in Objects, Deliver(m, n) \/ Pop(m, n) PROVE Inv'
  BY <1>2, QueueInv
<1>3. ASSUME NEW m \in Managers, Reconcile(m) \/ GetFails(m) \/ UpdateFails(m) \/ UpdateStatusUnheard(m)
      PROVE  Inv'
  BY <1>3, MarkReadyInv, NoWriteInv, WriteInv DEF Reconcile
<1>4. ASSUME NEW m \in Managers, Crash(m) \/ Restart(m) PROVE Inv'
  BY <1>4, CrashInv, RestartInv
<1>5. ASSUME NEW w \in orphans, OrphanLands(w) PROVE Inv'
  BY <1>5, OrphanInv
<1>6. CASE UNCHANGED vars
  <2>1. HistStep
    BY <1>6, SameHist DEF vars
  <2>2. QED
    BY <1>6, <2>1, ServerStep DEF vars, Inv, TypeOK
<1>7. QED
  BY <1>1, <1>2, <1>3, <1>4, <1>5, <1>6 DEF Next

\* What the operator wrote is Ready.
LEMMA WrittenReady ==
    ASSUME Inv, NEW n \in Objects, NEW k \in DOMAIN hist[n], hist[n][k].by = "operator"
    PROVE  k > 1 /\ hist[n][k].phase = "Ready"
<1>1. k > 1 /\ MadeFrom(hist[n][k], hist[n][k - 1])
  BY DEF Inv, WritesOK
<1>2. hist[n] \in Seq(Version) /\ k - 1 \in DOMAIN hist[n]
  BY <1>1 DEF Inv, TypeOK
<1>3. hist[n][k - 1] \in Version
  BY <1>2
<1>4. QED
  BY <1>1, <1>3 DEF MadeFrom, Version

-----------------------------------------------------------------------------
(* Progress: no wake-up is lost. *)

\* What is left to show of a step: an object it does not write, and that is
\* not Ready, is still owed.
Unready(n) == Exists(n) /\ Latest(n).phase # "Ready"

Handed(m, n) == (hist'[n] = hist[n] /\ up'[m] /\ Unready(n)) => Owes(m, n)'

\* The event of an object that was written is still to come.
LEMMA WorkFrom ==
    ASSUME Inv, HistStep, hist' = hist \/ seen' = seen, \A m \in Managers, n \in Objects : Handed(m, n)
    PROVE  NoLostWork'
<1> SUFFICES ASSUME NEW m \in Managers, NEW n \in Objects,
                    up'[m], Exists(n)', Latest(n)'.phase # "Ready"
             PROVE  Owes(m, n)'
  BY DEF NoLostWork
<1>1. CASE hist'[n] = hist[n]
  <2>1. Unready(n)
    BY <1>1 DEF Exists, Latest, Unready
  <2>2. QED
    BY <1>1, <2>1 DEF Handed
<1>2. CASE hist'[n] # hist[n]
  <2>1. Len(hist[n]) \in Nat /\ Len(hist'[n]) \in Nat /\ Len(hist[n]) < Len(hist'[n])
    BY <1>2 DEF HistStep, Inv, TypeOK
  <2>2. seen'[m][n] = seen[m][n] /\ seen[m][n] \in Nat /\ seen[m][n] <= Len(hist[n])
    BY <1>2 DEF Inv, TypeOK, CacheOK
  <2>3. QED
    BY <2>1, <2>2 DEF Owes
<1>3. QED
  BY <1>1, <1>2

\* A step that leaves the managers alone hands everything on.
LEMMA ServerHands ==
    ASSUME NoLostWork, UNCHANGED <<up, seen, queue, worker>>, NEW m \in Managers, NEW n \in Objects
    PROVE  Handed(m, n)
BY DEF Handed, Unready, NoLostWork, Owes

\* An object m's cache shows as gone or as Ready is so, or an event of it is
\* to come.
LEMMA CacheShows ==
    ASSUME Inv, NEW m \in Managers, worker[m].name \in Objects, Unready(worker[m].name),
           Cached(m) = NULL \/ Cached(m).phase = "Ready"
    PROVE  seen[m][worker[m].name] < Len(hist[worker[m].name])
<1> DEFINE n == worker[m].name
<1>1. Len(hist[n]) \in Nat /\ Len(hist[n]) > 0 /\ Latest(n) \in Version
  BY NewestVersion DEF Unready
<1>2. seen[m][n] \in Nat /\ seen[m][n] <= Len(hist[n])
  BY DEF Inv, TypeOK, CacheOK
<1>3. ASSUME seen[m][n] = Len(hist[n]) PROVE FALSE
  <2>1. Cached(m) = Latest(n)
    BY <1>1, <1>3 DEF Cached, Latest, Unready, Exists
  <2>2. QED
    BY <1>1, <2>1, NullAssumption DEF Unready
<1>4. QED
  BY <1>1, <1>2, <1>3

\* The end of a Reconcile, the versions written or not: m forgets the name
\* only if it queued it again or has an event of it to come.
LEMMA EndHands ==
    ASSUME Inv, NoLostWork, NEW m \in Managers, worker[m] # Idle,
           \/ Requeue(m)
           \/ Done(m) /\ LET n == worker[m].name
                         IN  (hist'[n] = hist[n] /\ Unready(n)) => seen[m][n] < Len(hist[n]),
           NEW k \in Managers, NEW n \in Objects
    PROVE  Handed(k, n)
<1> SUFFICES ASSUME hist'[n] = hist[n], up'[k], Unready(n) PROVE Owes(k, n)'
  BY DEF Handed
<1>1. /\ up' = up /\ seen' = seen /\ queue[k] \subseteq queue'[k]
      /\ worker' = [worker EXCEPT ![m] = Idle]
      /\ Requeue(m) => worker[m].name \in queue'[m]
  <2>1. queue \in [Managers -> SUBSET Objects]
    BY DEF Inv, TypeOK
  <2>2. CASE Done(m)
    <3>1. ~Requeue(m) \/ worker[m].name \in queue'[m]
      BY <2>1 DEF Requeue
    <3>2. QED
      BY <2>2, <3>1 DEF Done, cluster
  <2>3. CASE Requeue(m)
    <3>1. queue' = [queue EXCEPT ![m] = queue[m] \cup {worker[m].name}]
      BY <2>3 DEF Requeue
    <3>2. queue[k] \subseteq queue'[k] /\ worker[m].name \in queue'[m]
      BY <2>1, <3>1
    <3>3. QED
      BY <2>3, <3>2 DEF Requeue, cluster
  <2>4. QED
    BY <2>2, <2>3
<1>2. Owes(k, n)
  BY <1>1 DEF NoLostWork, Unready
<1>3. CASE seen[k][n] < Len(hist[n]) \/ n \in queue[k]
  BY <1>1, <1>3 DEF Owes
<1>4. CASE k # m
  <2>1. worker'[k] = worker[k]
    BY <1>1, <1>4 DEF Inv, TypeOK
  <2>2. QED
    BY <1>1, <1>2, <2>1 DEF Owes
<1>5. CASE k = m /\ worker[m].name = n
  <2>1. CASE ~Requeue(m)
    BY <1>1, <1>5, <2>1 DEF Owes
  <2>2. CASE Requeue(m)
    BY <1>1, <1>5, <2>2 DEF Owes
  <2>3. QED
    BY <2>1, <2>2
<1>6. QED
  BY <1>2, <1>3, <1>4, <1>5 DEF Owes

\* The steps of Reconcile.
LEMMA ReconcileHands ==
    ASSUME Inv, NoLostWork, HistStep, NEW m \in Managers,
           Reconcile(m) \/ GetFails(m) \/ UpdateFails(m) \/ UpdateStatusUnheard(m)
    PROVE  NoLostWork'
<1>1. seen' = seen
  BY DEF Reconcile, GetNotFound, AlreadyReady, MarkReady, UpdateStatus, UpdateConflict,
         GetFails, UpdateFails, UpdateStatusUnheard, Done, Requeue
<1>2. worker[m].stage \in {"popped", "fetched"} /\ worker[m].name \in Objects
  <2>1. worker[m].stage \in {"popped", "fetched"}
    BY DEF Reconcile, GetNotFound, AlreadyReady, MarkReady, UpdateStatus, UpdateConflict,
           GetFails, UpdateFails, UpdateStatusUnheard, At
  <2>2. worker[m] \in {Idle} \cup Popped \cup Fetched
    BY DEF Inv, TypeOK
  <2>3. QED
    BY <2>1, <2>2 DEF Idle, Popped, Fetched
<1>3. worker[m] # Idle
  BY <1>2 DEF Idle
<1>4. CASE MarkReady(m)
  <2>1. ASSUME NEW k \in Managers, NEW n \in Objects PROVE Handed(k, n)
    <3> SUFFICES ASSUME hist'[n] = hist[n], up'[k], Unready(n) PROVE Owes(k, n)'
      BY DEF Handed
    <3>1. /\ up' = up /\ queue' = queue /\ \A j \in Managers : j # m => worker'[j] = worker[j]
          /\ worker'[m].stage = "fetched" /\ worker'[m].name = worker[m].name
      BY <1>4 DEF MarkReady, cluster, Inv, TypeOK
    <3>2. Owes(k, n)
      BY <3>1 DEF NoLostWork, Unready
    <3>3. QED
      BY <1>1, <3>1, <3>2 DEF Owes
  <2>2. QED
    BY <1>1, <2>1, WorkFrom
<1>5. CASE GetNotFound(m) \/ AlreadyReady(m)
  <2>1. Done(m) /\ (Cached(m) = NULL \/ Cached(m).phase = "Ready")
    BY <1>5 DEF GetNotFound, AlreadyReady
  <2>2. QED
    BY <1>1, <1>2, <1>3, <2>1, CacheShows, EndHands, WorkFrom
<1>6. CASE GetFails(m) \/ UpdateFails(m) \/ UpdateConflict(m) \/ UpdateStatusUnheard(m)
  <2>1. Requeue(m)
    BY <1>6 DEF GetFails, UpdateFails, UpdateConflict, UpdateStatusUnheard
  <2>2. QED
    BY <1>1, <1>3, <2>1, EndHands, WorkFrom
<1>7. CASE UpdateStatus(m)
  <2>1. Done(m) /\ StatusWritten(worker[m])
    BY <1>7 DEF UpdateStatus
  <2>2. hist'[worker[m].name] # hist[worker[m].name]
    <3>1. worker[m].stage = "fetched" /\ Accepted(worker[m])
      BY <1>7 DEF UpdateStatus, At
    <3>2. worker[m] \in Fetched /\ Request(hist, worker[m])
      BY <3>1, FetchedWorker
    <3>3. PICK v \in Version :
            hist' = [hist EXCEPT ![worker[m].name] = Append(hist[worker[m].name], v)]
      BY <2>1, <3>1, <3>2, StatusVersion
    <3>4. hist[worker[m].name] \in Seq(Version) /\ hist'[worker[m].name] = Append(hist[worker[m].name], v)
      BY <1>2, <3>3 DEF Inv, TypeOK
    <3>5. Len(Append(hist[worker[m].name], v)) = Len(hist[worker[m].name]) + 1
      BY <3>4
    <3>6. Len(hist[worker[m].name]) \in Nat
      BY <3>4
    <3>7. QED
      BY <3>4, <3>5, <3>6
  <2>3. QED
    BY <1>1, <1>2, <1>3, <2>1, <2>2, EndHands, WorkFrom
<1>8. QED
  BY <1>4, <1>5, <1>6, <1>7 DEF Reconcile

\* The informer, the queue, death and return.
LEMMA ManagerHands ==
    ASSUME Inv, NoLostWork, HistStep, NEW m \in Managers,
           \/ \E n \in Objects : Deliver(m, n) \/ Pop(m, n)
           \/ Crash(m) \/ Restart(m)
    PROVE  NoLostWork'
<1> USE DEF server, cluster
<1>1. hist' = hist
  BY DEF Deliver, Pop, Crash, Restart
<1>2. ASSUME NEW k \in Managers, NEW n \in Objects PROVE Handed(k, n)
  <2> SUFFICES ASSUME up'[k], Unready(n) PROVE Owes(k, n)'
    BY DEF Handed
  <2>1. /\ queue \in [Managers -> SUBSET Objects] /\ up \in [Managers -> BOOLEAN]
        /\ seen \in [Managers -> [Objects -> Nat]] /\ DOMAIN worker = Managers
        /\ Len(hist[n]) \in Nat /\ seen[k][n] \in Nat
    BY DEF Inv, TypeOK
  <2>2. ASSUME up'[k] = up[k] PROVE Owes(k, n)
    BY <2>2 DEF NoLostWork, Unready
  <2>3. ASSUME NEW o \in Objects, Deliver(m, o) PROVE Owes(k, n)'
    <3>1. Owes(k, n)
      BY <2>2, <2>3 DEF Deliver
    <3>2. worker' = worker /\ queue' = [queue EXCEPT ![m] = queue[m] \cup {o}]
      BY <2>3 DEF Deliver
    <3>3. n \in queue[k] => n \in queue'[k]
      BY <2>1, <3>2
    <3>4. CASE k = m /\ n = o
      <4>1. n \in queue'[k]
        BY <2>1, <3>2, <3>4
      <4>2. QED
        BY <4>1 DEF Owes
    <3>5. CASE ~(k = m /\ n = o)
      <4>1. seen'[k][n] = seen[k][n]
        BY <2>1, <2>3, <3>5 DEF Deliver
      <4>2. QED
        BY <1>1, <3>1, <3>2, <3>3, <4>1 DEF Owes
    <3>6. QED
      BY <3>4, <3>5
  <2>4. ASSUME NEW o \in Objects, Pop(m, o) PROVE Owes(k, n)'
    <3>1. Owes(k, n)
      BY <2>2, <2>4 DEF Pop
    <3>2. /\ seen' = seen /\ worker[m] = Idle
          /\ queue' = [queue EXCEPT ![m] = queue[m] \ {o}]
          /\ worker' = [worker EXCEPT ![m] = [stage |-> "popped", name |-> o]]
      BY <2>4 DEF Pop
    <3>3. CASE k = m /\ n = o
      <4>1. worker'[k].stage = "popped" /\ worker'[k].name = n
        BY <2>1, <3>2, <3>3
      <4>2. QED
        BY <4>1 DEF Owes
    <3>4. CASE k = m /\ n # o
      <4>1. n \in queue[k] => n \in queue'[k]
        BY <2>1, <3>2, <3>4
      <4>2. QED
        BY <1>1, <3>1, <3>2, <3>4, <4>1 DEF Owes, Idle
    <3>5. CASE k # m
      <4>1. queue'[k] = queue[k] /\ worker'[k] = worker[k]
        BY <2>1, <3>2, <3>5
      <4>2. QED
        BY <1>1, <3>1, <3>2, <4>1 DEF Owes
    <3>6. QED
      BY <3>3, <3>4, <3>5
  <2>5. ASSUME k # m, Crash(m) \/ Restart(m) PROVE Owes(k, n)'
    <3>1. /\ up'[k] = up[k] /\ seen'[k] = seen[k] /\ queue'[k] = queue[k] /\ worker'[k] = worker[k]
      BY <2>1, <2>5 DEF Crash, Restart
    <3>2. QED
      BY <1>1, <2>2, <3>1 DEF Owes
  <2>6. CASE k = m /\ Crash(m)
    BY <2>1, <2>6 DEF Crash
  <2>7. CASE k = m /\ Restart(m)
    <3>1. n \in queue'[k]
      BY <2>1, <2>7 DEF Restart, Unready
    <3>2. QED
      BY <3>1 DEF Owes
  <2>8. QED
    BY <2>3, <2>4, <2>5, <2>6, <2>7
<1>3. QED
  BY <1>1, <1>2, WorkFrom

\* Every step is one of the versions, as the lemmas above show of each.
LEMMA NextHist == Inv /\ [Next]_vars => HistStep
<1> SUFFICES ASSUME Inv, [Next]_vars PROVE HistStep
  OBVIOUS
<1>1. CASE Others
  BY <1>1, OthersHist
<1>2. ASSUME NEW m \in Managers, UpdateStatus(m) \/ UpdateStatusUnheard(m) PROVE HistStep
  <2>1. worker[m].stage = "fetched" /\ Accepted(worker[m]) /\ StatusWritten(worker[m])
    BY <1>2 DEF UpdateStatus, UpdateStatusUnheard, At
  <2>2. QED
    BY <2>1, FetchedWorker, WriteHist
<1>3. ASSUME NEW w \in orphans, OrphanLands(w) PROVE HistStep
  BY <1>3, SameHist, WriteHist DEF OrphanLands, Inv, TypeOK, RequestsOK
<1>4. CASE hist' = hist
  BY <1>4, SameHist
<1>5. QED
  BY <1>1, <1>2, <1>3, <1>4
  DEF Next, vars, server, Deliver, Pop, Reconcile, GetNotFound, AlreadyReady, MarkReady,
      UpdateConflict, GetFails, UpdateFails, Crash, Restart

\* Every step hands the work on.
LEMMA NextWork == Inv /\ NoLostWork /\ [Next]_vars => NoLostWork'
<1> SUFFICES ASSUME Inv, NoLostWork, [Next]_vars PROVE NoLostWork'
  OBVIOUS
<1>1. HistStep
  BY NextHist
<1>2. CASE UNCHANGED <<up, seen, queue, worker>>
  BY <1>1, <1>2, ServerHands, WorkFrom
<1>3. CASE Others
  BY <1>2, <1>3, OthersEdit DEF Edit, cluster
<1>4. ASSUME NEW w \in orphans, OrphanLands(w) PROVE NoLostWork'
  BY <1>2, <1>4 DEF OrphanLands, cluster
<1>5. CASE UNCHANGED vars
  BY <1>2, <1>5 DEF vars
<1>6. QED
  BY <1>1, <1>3, <1>4, <1>5, ReconcileHands, ManagerHands DEF Next

\* The inductive invariant of the operator.
THEOREM Invariance == Spec => []Inv
<1>1. Init => Inv
  BY InitInv
<1>2. Inv /\ [Next]_vars => Inv'
  BY NextInv
<1>3. QED
  BY <1>1, <1>2, PTL DEF Spec

\* The variables keep their types.
THEOREM TypeCorrect == Spec => []TypeOK
<1>1. Inv => TypeOK
  BY DEF Inv
<1>2. QED
  BY <1>1, Invariance, PTL

\* Reconcile's status updates never undo what anyone else wrote, however
\* many managers run and die and however far their caches lag.
THEOREM NothingLostTheorem == Spec => []NothingLost
<1>1. Inv => NothingLost
  BY DEF Inv, WritesOK, MadeFrom, NothingLost
<1>2. QED
  BY <1>1, Invariance, PTL

\* Reconcile never answers a write of the operator with another one.
THEOREM OneWriteTheorem == Spec => []OneWritePerEdit
<1>1. Inv => OneWritePerEdit
  <2> SUFFICES ASSUME Inv, NEW n \in Objects, NEW k \in DOMAIN hist[n],
                      k > 1, hist[n][k].by = "operator"
               PROVE  hist[n][k - 1].by = "user"
    BY DEF OneWritePerEdit
  <2>1. hist[n] \in Seq(Version) /\ k \in 1..Len(hist[n]) /\ Len(hist[n]) \in Nat
    BY DEF Inv, TypeOK
  <2>2. k - 1 \in DOMAIN hist[n]
    BY <2>1
  <2>3. hist[n][k - 1] \in Version
    BY <2>1, <2>2
  <2>4. hist[n][k - 1].phase # "Ready"
    BY DEF Inv, WritesOK, MadeFrom
  <2>5. hist[n][k - 1].by # "operator"
    BY <2>2, <2>4, WrittenReady
  <2>6. QED
    BY <2>3, <2>5 DEF Version
<1>2. QED
  BY <1>1, Invariance, PTL

\* Reconcile ends without a write or a requeue only when the object is gone
\* or Ready, or an event of it is to come.
THEOREM NoLostWorkTheorem == Spec => []NoLostWork
<1>1. Init => NoLostWork
  BY DEF Init, NoLostWork, Exists
<1>2. Inv /\ NoLostWork /\ [Next]_vars => NoLostWork'
  BY NextWork
<1>3. QED
  BY <1>1, <1>2, Invariance, PTL DEF Spec
=============================================================================
