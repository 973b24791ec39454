---------------------------- MODULE MCLongCalls ----------------------------
(***************************************************************************)
(* Instance of LongCalls for TLC.                                          *)
(***************************************************************************)
EXTENDS LongCalls

CONSTANTS k1, k2, k3

Name(t) == [kind |-> "event", arg |-> t]
Data(c) == [kind |-> "data", arg |-> c]
Blank == [kind |-> "blank", arg |-> NoName]
Comment == [kind |-> "comment", arg |-> NoName]

\* Two events, then data without a name; or a greeting, a comment and more data
\* than fits, then an event.
MCStreams ==
  {<<<<Name("x"), Data(1), Blank, Name("y"), Data(1), Blank>>, <<Data(2), Blank>>>>,
   <<<<Name("hello"), Data(1), Blank, Comment, Data(1), Data(1)>>, <<Name("x"), Data(2), Blank>>>>}
=============================================================================
