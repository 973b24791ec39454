------------------------------ MODULE Routing -------------------------------
(***************************************************************************)
(* Where the connector sends a decrypted request (connector/target.go):    *)
(* Registry.Decide.                                                        *)
(*                                                                         *)
(* A path is the sequence of its segments: "/v1/models/" is                *)
(* <<"v1", "models", "">> and "/" is <<>>.  What one segment says of the   *)
(* text of another (it begins with it, it ends in a suffix) is given by    *)
(* the two relations Begins and Ends.                                      *)
(*                                                                         *)
(* Faulty definitions are mistakes this code could have made.              *)
(***************************************************************************)
EXTENDS Naturals, SequencesExt

CONSTANTS
  Begins,  \* pairs of segments, the first longer than the second and beginning with it
  Ends     \* pairs of a segment and a suffix it ends in

-----------------------------------------------------------------------------
(* Paths.                                                                  *)

\* What is kept of a path when the next segment is read.
Keeping(kept, segment) ==
  IF segment \in {"", "."} THEN kept
  ELSE IF segment # ".." THEN Append(kept, segment)
  ELSE IF kept = <<>> THEN kept ELSE Front(kept)

CleanUpTo(path) ==
  LET upTo[n \in 0..Len(path)] == IF n = 0 THEN <<>> ELSE Keeping(upTo[n - 1], path[n]) IN upTo

\* path.Clean of a rooted path.
Clean(path) == CleanUpTo(path)[Len(path)]

\* strings.HasPrefix
HasPrefix(path, prefix) ==
  LET n == Len(prefix) IN
  /\ n <= Len(path)
  /\ \A i \in 1..(n - 1) : path[i] = prefix[i]
  /\ \/ prefix[n] = ""
     \/ path[n] = prefix[n]
     \/ <<path[n], prefix[n]>> \in Begins

\* strings.HasSuffix
HasSuffix(path, suffix) ==
  suffix = "" \/ (path # <<>> /\ <<Last(path), suffix>> \in Ends)

-----------------------------------------------------------------------------
(* Targets.                                                                *)

Exact(method, path, action) ==
  [method |-> method, exact |-> TRUE, path |-> path, suffix |-> "", action |-> action]
Under(method, prefix, suffix, action) ==
  [method |-> method, exact |-> FALSE, path |-> prefix, suffix |-> suffix, action |-> action]

DefaultTargets ==
  [anthropic |->
     [routes |-> <<
        Exact("GET", <<"v1", "models">>, "relay"),
        Under("GET", <<"v1", "models", "">>, "", "relay"),
        Exact("POST", <<"v1", "messages", "count_tokens">>, "relay"),
        Exact("POST", <<"v1", "messages">>, "relay")>>,
      sensitive |-> {<<"v1", "messages">>, <<"v1", "models">>}],
   openai |->
     [routes |-> <<
        Exact("POST", <<"v1", "alpha", "search">>, "relay"),
        Exact("POST", <<"v1", "responses", "compact">>, "relay"),
        Exact("POST", <<"v1", "responses">>, "relay"),
        Exact("GET", <<"v1", "responses">>, "block"),
        Exact("POST", <<"v1", "chat", "completions">>, "relay"),
        Exact("POST", <<"v1", "completions">>, "relay"),
        Exact("POST", <<"v1", "embeddings">>, "relay")>>,
      sensitive |-> {<<"v1", "">>}],
   gemini |->
     [routes |-> <<
        Under("POST", <<"v1beta", "models", "">>, ":generateContent", "relay"),
        Under("POST", <<"v1beta", "models", "">>, ":streamGenerateContent", "relay"),
        Under("POST", <<"v1beta", "models", "">>, ":embedContent", "relay"),
        Under("POST", <<"v1beta", "models", "">>, ":batchEmbedContents", "relay")>>,
      sensitive |-> {<<"v1beta", "models", "">>}]]

Matches(route, method, path) ==
  /\ route.method = method
  /\ IF route.exact THEN path = route.path
     ELSE HasPrefix(path, route.path) /\ HasSuffix(path, route.suffix)

Sensitive(target, path) == \E prefix \in target.sensitive : HasPrefix(path, prefix)

\* The first route that matches decides.
Routed(target, method, path) ==
  LET first == SelectInSeq(target.routes, LAMBDA r : Matches(r, method, path))
  IN  IF first = 0 THEN "none" ELSE target.routes[first].action

\* A path is sensitive if it was sent as a sensitive one.
FaultyDecideRaw(target, method, path) ==
  IF path = Clean(path) /\ Routed(target, method, path) # "none"
    THEN Routed(target, method, path)
  ELSE IF Sensitive(target, path) THEN "block"
  ELSE "direct"

\* Only a canonical path can match a route; a sensitive path without one is blocked,
\* whether it is sensitive as sent or as the vendor would read it.
Decide(target, method, path) ==
  IF path = Clean(path) /\ Routed(target, method, path) # "none"
    THEN Routed(target, method, path)
  ELSE IF Sensitive(target, path) \/ Sensitive(target, Clean(path)) THEN "block"
  ELSE "direct"

-----------------------------------------------------------------------------
(* What a server makes of a path, one simplification after the other.      *)

Without(path, i, j) == SubSeq(path, 1, i - 1) \o SubSeq(path, j + 1, Len(path))

Simpler(path) ==
  {Without(path, i, i) : i \in {j \in DOMAIN path :
     path[j] \in {"", "."} \/ (j = 1 /\ path[j] = "..")}}
  \cup
  {Without(path, i, i + 1) : i \in {j \in DOMAIN path \ {Len(path)} :
     path[j] \notin {"", ".", ".."} /\ path[j + 1] = ".."}}

\* What a path may have become after each number of simplifications.
SimplifiedUpTo(path) ==
  LET after[n \in 0..Len(path)] ==
        IF n = 0 THEN {path}
        ELSE UNION {IF Simpler(p) = {} THEN {p} ELSE Simpler(p) : p \in after[n - 1]}
  IN  after

Simplified(path) == SimplifiedUpTo(path)[Len(path)]
=============================================================================
