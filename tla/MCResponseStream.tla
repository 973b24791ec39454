------------------------- MODULE MCResponseStream -------------------------
(* Small streams for TLC: what an upstream may send under each setting.     *)
EXTENDS ResponseStream, TLC

CONSTANT SplitWords  \* may a text delta end inside a word?

MCPrefix == <<"<", "<", "_">>
MCSuffix == <<"_", ">">>
MCSecretOf == (<<"a">> :> <<"s">>)

\* These secrets are like those of the detectors that are on by default.
ASSUME SecretsAreApart == SecretsApart

MCModes ==
  IF SplitWords THEN {[guarded |-> TRUE, restoring |-> FALSE]}
  ELSE {[guarded |-> TRUE, restoring |-> FALSE], [guarded |-> FALSE, restoring |-> TRUE],
        [guarded |-> TRUE, restoring |-> TRUE]}

MCMaxEvents == [m \in MCModes |-> IF ~m.guarded THEN 4 ELSE IF m.restoring THEN 5 ELSE 6]

Bare(type, i) == [type |-> type, index |-> i, parts |-> << >>, raw |-> << >>, at |-> 0]
With(type, i, parts) == [Bare(type, i) EXCEPT !.parts = parts]
P(i, kind, text) == [idx |-> i, kind |-> kind, text |-> text]

TextDelta(i, t) == With("content_block_delta", i, <<P(i, "text", t)>>)
Chunk(parts) == With("", 0, parts)
Plain(t) == [Bare("plain", 0) EXCEPT !.raw = t]

\* Words, lines, a fence, and what may come between them.
WordDeltas ==
  IF SplitWords THEN {<<"a", "sp", "a", "sp">>, <<"a">>, <<"b", "sp">>}
  ELSE {<<"a", "sp", "a", "sp">>, <<"a", "nl">>, <<"a">>, <<"tick", "b">>, <<"fence", "nl">>}

GuardOffers ==
  {TextDelta(0, t) : t \in WordDeltas}
    \cup {Bare("content_block_start", 0), Bare("content_block_stop", 0), Bare("ping", 0),
          With("message_delta", 0, <<P(0, "sink", <<"x">>)>>)}

\* Placeholders cut at every place, in one block, in two choices, beside other
\* parts, and in two choices that claim one index.
Pieces == {<<"<">>, <<"<", "_", "a">>, <<"_", ">">>, <<"_", ">", "<", "<">>, <<"_", "a", "_", ">">>}

RestoreOffers ==
  {Chunk(<<P(0, "text", t)>>) : t \in Pieces}
    \cup {Chunk(<<P(0, "text", <<"<">>), P(1, "text", <<"<">>)>>),
          Chunk(<<P(1, "text", <<"<", "_", "b", "_", ">", "<">>), P(0, "sink", <<"<", "x">>)>>),
          Chunk(<<P(0, "text", <<"x", "<">>), P(0, "text", <<"<">>)>>),
          Plain(<<"x">>)}

BothOffers ==
  {TextDelta(0, t) : t \in {<<"a", "sp", "a", "sp">>, <<"<", "<", "_">>, <<"a", "_", ">", "sp">>, <<"markup">>}}
    \cup {Bare("content_block_start", 0), Bare("content_block_stop", 0),
          With("content_block_delta", 0, <<P(0, "thinking", <<"<">>)>>)}

MCOffers(m) ==
  IF ~m.guarded THEN RestoreOffers ELSE IF m.restoring THEN BothOffers ELSE GuardOffers
=============================================================================
