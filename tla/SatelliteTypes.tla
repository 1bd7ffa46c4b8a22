--------------------------- MODULE SatelliteTypes ---------------------------
(***************************************************************************)
(* The data of the Control Plane's satellite service: rows of the          *)
(* satellites table, the calls of the six satellite routes and their       *)
(* answers.  Names and regions are opaque; a status or managed_by value    *)
(* the code never writes is left out.                                      *)
(***************************************************************************)
EXTENDS Naturals

CONSTANTS
    Slots,      \* concurrent HTTP requests, one goroutine each
    Ids,        \* the UUIDs gen_random_uuid() may hand out
    Names,
    Regions,
    BadId,      \* a path parameter that is not a UUID
    NULL,       \* SQL NULL, a nil pointer, an undecodable body
    MaxTime,    \* bound on the database clock
    Seed,       \* the table's contents when the API starts
    Requests    \* the requests clients make

Time == 0..MaxTime

Row ==
    [name: Names, region: Regions, status: {"Pending", "Ready"},
     managedBy: {"manual", "operator"}, lastSeen: Time \cup {NULL}]

\* The satellites table: at most one row per primary key.
Table == [Ids -> Row \cup {NULL}]

Ops == {"create", "list", "get", "update", "delete", "heartbeat"}

(***************************************************************************)
(* One request.  id is NULL on the routes without {id}.  A create or       *)
(* update whose JSON body does not decode has region = NULL.  fromOperator *)
(* is the header test of the update and delete handlers.                   *)
(***************************************************************************)
Call ==
    {c \in [op: Ops, id: Ids \cup {BadId, NULL}, name: Names \cup {NULL},
            region: Regions \cup {NULL}, fromOperator: BOOLEAN] :
        /\ c.id = NULL <=> c.op \in {"create", "list"}
        /\ c.region # NULL => c.op \in {"create", "update"}
        /\ c.name # NULL <=> c.op = "create" /\ c.region # NULL
        /\ c.fromOperator => c.op \in {"update", "delete"}}

\* What ends a handler before its first statement: the path parameter does
\* not bind to a UUID, or the JSON body does not decode.
Malformed(c) ==
    \/ c.id = BadId
    \/ c.op \in {"create", "update"} /\ c.region = NULL

\* Code 0 stands for a connection closed without an answer.
Answer == [code: {0, 200, 201, 204, 400, 403, 404, 500},
           body: Row \cup [rows: Table] \cup {NULL}]

Reply(code, body) == [code |-> code, body |-> body]

\* The only test of ownership: sat.ManagedBy == "operator" && !fromOperator.
Guarded(row, c) == row.managedBy = "operator" /\ ~c.fromOperator

ASSUME NullAssumption ==
    /\ NULL \notin Names \cup Regions \cup Ids \cup Time \cup Row
    /\ BadId \notin Ids \cup {NULL}

ASSUME MaxTimeAssumption == MaxTime \in Nat

ASSUME RequestsAssumption == Requests \subseteq Call

ASSUME SeedAssumption ==
    /\ Seed \in Table
    /\ \A i, j \in Ids :
          (Seed[i] # NULL /\ Seed[j] # NULL /\ Seed[i].name = Seed[j].name) => i = j
    /\ \A i \in Ids :
          Seed[i] # NULL => (Seed[i].status = "Ready" <=> Seed[i].lastSeen # NULL)
=============================================================================
