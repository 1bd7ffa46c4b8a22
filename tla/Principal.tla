------------------------------ MODULE Principal -----------------------------
(***************************************************************************)
(* The server-created identity of a caller (auth/principal.go).  Subjects  *)
(* are opaque; NULL stands for a blank subject, the empty role and         *)
(* uuid.Nil.                                                               *)
(***************************************************************************)

CONSTANT NULL

Principal(kind, subject, role, satelliteID) ==
    [kind |-> kind, subject |-> subject, role |-> role, satelliteID |-> satelliteID]

\* Every cross-field rule of Validate: nil error or not.
Validate(p) ==
    /\ p.subject # NULL
    /\ \/ p.kind = "human" /\ p.role \in {"admin", "viewer"} /\ p.satelliteID = NULL
       \/ p.kind = "operator" /\ p.role = NULL /\ p.satelliteID = NULL
       \/ p.kind = "agent" /\ p.role = NULL /\ p.satelliteID # NULL

\* Mutant: nothing is validated.
NewPrincipalUnchecked(p) == p

\* The constructors return NULL for an error.
NewPrincipal(p) == IF Validate(p) THEN p ELSE NULL

NewHumanPrincipal(subject, role) == NewPrincipal(Principal("human", subject, role, NULL))

\* The role of a human, NULL for a machine.
HumanRole(p) == IF p.kind = "human" THEN p.role ELSE NULL
=============================================================================
