------------------------------- MODULE MCPool -------------------------------
(* The instances of Pool that TLC explores: two members, one of which a     *)
(* rebuild may take out, and two requests, one of which it alone supports. *)
EXTENDS Pool, TLC

CONSTANTS a, b, q1, q2

MCCapable == q1 :> {a, b} @@ q2 :> {a}
MCRank    == a :> 1 @@ b :> 2
MCWeight  == a :> 1 @@ b :> 2
MCShapes  == {{a, b}, {b}}
=============================================================================
