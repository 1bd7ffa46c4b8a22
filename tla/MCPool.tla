------------------------------- MODULE MCPool -------------------------------
(***************************************************************************)
(* The instance of Pool for TLC.                                           *)
(***************************************************************************)
EXTENDS Pool

Complete == [secret |-> "fine", issuer |-> "", audience |-> "fine", dburl |-> ""]

\* One environment to serve in, and one for every reason not to start.
OneFlawEach ==
    {Complete,
     [Complete EXCEPT !.secret = ""], [Complete EXCEPT !.secret = "short"],
     [Complete EXCEPT !.secret = "blank"], [Complete EXCEPT !.issuer = "blank"],
     [Complete EXCEPT !.audience = "blank"], [Complete EXCEPT !.dburl = "garbled"]}
=============================================================================
