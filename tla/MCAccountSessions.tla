------------------------- MODULE MCAccountSessions -------------------------
(***************************************************************************)
(* Instances of AccountSessions for TLC: two accounts of one username.     *)
(***************************************************************************)
EXTENDS AccountSessions, TLC

CONSTANTS a1, a2, alice, alice_2, work

SharedName == (a1 :> alice) @@ (a2 :> alice)
\* alice-2 when alice is taken: two accounts take no third.
FromTwo == [n \in Name |-> IF n = alice THEN <<alice_2>> ELSE <<>>]
\* The user may rename any account to any name.
AnyName == [f \in File |-> Name]
=============================================================================
