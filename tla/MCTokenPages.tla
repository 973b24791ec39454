---------------------------- MODULE MCTokenPages ----------------------------
(***************************************************************************)
(* An instance of TokenPages for TLC.                                      *)
(***************************************************************************)
EXTENDS TokenPages

CONSTANTS auto, team

Key(g, q) == [enabled |-> TRUE, group |-> g, system |-> FALSE, quota |-> q]
SystemKey(g, q) == [Key(g, q) EXCEPT !.system = TRUE]
DisabledKey(g) == [Key(g, Unlimited) EXCEPT !.enabled = FALSE]

AllTokens == [enabled : BOOLEAN, group : {auto, team}, system : BOOLEAN,
              quota : {0, 1, 2, Unlimited, Unknown}]

\* A drained, a capped and an unlimited key of each sort, and one too old to say.
SomeTokens ==
  {Key(auto, q) : q \in {0, 1, Unlimited}} \cup {Key(team, q) : q \in {1, 2, Unknown}}
    \cup {SystemKey(auto, Unlimited), DisabledKey(auto)}

UpTo3 == UNION {[1..k -> SomeTokens] : k \in 0..3}

Added == {Key(auto, 1), Key(team, Unlimited)}
=============================================================================
