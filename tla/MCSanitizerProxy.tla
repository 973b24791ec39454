-------------------------- MODULE MCSanitizerProxy --------------------------
(***************************************************************************)
(* Instances of SanitizerProxy for TLC: one token (tx) is made up upstream.*)
(***************************************************************************)
EXTENDS SanitizerProxy, TLC

CONSTANTS s1, s2, s3, t1, t2, t3, tx

SomeTokens == (s1 :> t1) @@ (s2 :> t2) @@ (s3 :> t3)

\* Up to two secrets a request.
SmallBodies == {{}, {s1}, {s2}, {s3}, {s1, s2}, {s1, s3}, {s2, s3}}
=============================================================================
