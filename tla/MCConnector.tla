---------------------------- MODULE MCConnector -----------------------------
(***************************************************************************)
(* Instances of Connector for TLC.                                         *)
(***************************************************************************)
EXTENDS Connector

CONSTANTS c1, c2

MCBegins == {<<"messages-x", "messages">>, <<"models-x", "models">>}
MCEnds == {<<"m:generateContent", ":generateContent">>}

\* Paths of up to four segments.  <<"">> would be a second name for the root.
MCSegment ==
  {"v1", "v1beta", "models", "messages", "messages-x", "m:generateContent", ".", "..", ""}
MCPath == BoundedSeq(MCSegment, 4) \ {<<"">>}
=============================================================================
