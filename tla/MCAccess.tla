------------------------------ MODULE MCAccess ------------------------------
(***************************************************************************)
(* Instances of AccessControl for TLC, and what the documents say of its   *)
(* answers.                                                                *)
(***************************************************************************)
EXTENDS AccessControl, TLC

CONSTANTS u1, u2, alice, bob, pw, A, B

\* One admin, as the deployment seeds it.
OneAdmin ==
    [u \in UserIds |->
        IF u = u1 THEN [username |-> alice, password |-> pw, role |-> "admin"] ELSE NULL]

\* The same, and a row whose role no API call writes.
AdminAndOther ==
    [OneAdmin EXCEPT ![u2] = [username |-> bob, password |-> pw, role |-> "other"]]

NoSkew == [i \in Instances |-> 0]
BAhead == [i \in Instances |-> IF i = B THEN 1 ELSE 0]

\* A token of another deployment and one of a release without issuer,
\* audience and actor kind, both for a user id that exists here.
ForeignTokens ==
    LET t == [signed |-> FALSE, issuer |-> TRUE, audience |-> FALSE, kind |-> "human",
              sub |-> u2, role |-> "admin", iat |-> 0, exp |-> 9, at |-> NULL]
    IN  {t, [t EXCEPT !.signed = TRUE, !.issuer = FALSE, !.kind = NULL]}

Plain(op) == [op |-> op, username |-> NULL, password |-> NULL, role |-> NULL, id |-> NULL]

Login(name, password) == [Plain("login") EXCEPT !.username = name, !.password = password]
Create(name, password, role) ==
    [Plain("create") EXCEPT !.username = name, !.password = password, !.role = role]
Delete(u) == [Plain("delete") EXCEPT !.id = u]

\* Every route and every reason to be refused.
EveryRoute ==
    {Plain("login"), Plain("create"), Plain("list"), Plain("satellites"),
     Login(alice, pw), Login(alice, LongPassword), Login(bob, pw),
     Create(bob, pw, NULL), Create(bob, pw, "other"), Create(bob, LongPassword, NULL),
     Delete(u1), Delete(u2), Delete(BadId)}

\* What it takes to make, use and delete a second admin.
Admins ==
    {Plain("satellites"), Login(alice, pw), Login(bob, pw), Create(bob, pw, "admin"), Delete(u1)}

Symmetry == Permutations(Slots)

-----------------------------------------------------------------------------

\* openapi.yaml:167-168 documents the 401 of POST /auth/login as "Invalid
\* credentials": a login refused before its password is looked at names a
\* user that does not exist.
LoginRefusalMeansCredentials ==
    [][\A s \in Slots :
          (/\ pc[s] = "received" /\ pc'[s] = "done"
           /\ job[s].form.op = "login" /\ resp'[s] = 401)
          => \A u \in UserIds : users[u] # NULL => users[u].username # job[s].form.username]_vars
=============================================================================
