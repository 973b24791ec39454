--------------------------- MODULE MCAccountStore ---------------------------
(***************************************************************************)
(* Instances of AccountStore for TLC.                                      *)
(***************************************************************************)
EXTENDS AccountStore, TLC

CONSTANTS a1, a2, a3, alice, alice_2, bob, bob_2

\* Two accounts of one username (two gateways, say) and a third of its own.
SharedName == (a1 :> alice) @@ (a2 :> alice) @@ (a3 :> bob)
\* Every account has a name of its own.
DistinctName == (a1 :> alice) @@ (a2 :> bob) @@ (a3 :> bob_2)

\* alice-2 when alice is taken, bob-2 when bob is; nobody needs a third.
FromTwo == [n \in Name |-> CASE n = alice -> <<alice_2>> [] n = bob -> <<bob_2>> [] OTHER -> <<>>]

\* The user renames nobody; or the first account only, to a name no other may have.
NoNames == [f \in File |-> {}]
ANickname == [f \in File |-> IF f = a1 THEN {alice_2} ELSE {}]
=============================================================================
