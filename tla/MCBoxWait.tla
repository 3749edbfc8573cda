------------------------------ MODULE MCBoxWait ------------------------------
(* Waits for the box: a and b belong to one session, c to another.          *)
EXTENDS BoxWait, TLC

CONSTANTS a, b, c, s1, s2

TwoSessions == a :> s1 @@ b :> s1 @@ c :> s2
Siblings == a :> s1 @@ b :> s1
=============================================================================
