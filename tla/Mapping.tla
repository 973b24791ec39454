------------------------------ MODULE Mapping ------------------------------
(***************************************************************************)
(* The sanitizer's table of secrets and placeholders (sanitizer/mapping.go *)
(* and deriveToken).  Every operation runs under the table's mutex, so     *)
(* each is one action; PutOrGet finds or mints the token of a secret, and  *)
(* evicts the least recently used entry when a new one finds it full.      *)
(*                                                                         *)
(* Faulty definitions are mistakes this code could have made.              *)
(***************************************************************************)
EXTENDS Naturals, Sequences, FiniteSets

CONSTANTS
  Real,     \* the secrets detectors find, never empty strings
  Token,    \* placeholder bodies, minted or made up
  TokenOf,  \* deriveToken under the key of this install
  Cap       \* the most entries the table holds, 0 for any number

\* A truncated HMAC, taken to be free of collisions among the secrets of a session.
ASSUME MappingAssumption ==
  /\ TokenOf \in [Real -> Token]
  /\ \A r, s \in Real : TokenOf[r] = TokenOf[s] => r = s
  /\ Cap \in Nat

VARIABLES
  byReal,   \* secret -> token, for the secrets held
  byToken,  \* token -> secret
  order,    \* the tokens held, least recently used first
  newer     \* auxiliary: for each secret ever cited, those cited since its last citation

tableVars == <<byReal, byToken, order>>
mappingVars == <<byReal, byToken, order, newer>>

NoEntries == [x \in {} |-> x]
Held == DOMAIN byReal

MappingTypeOK ==
  /\ Held \subseteq Real /\ \A r \in Held : byReal[r] \in Token
  /\ DOMAIN byToken \subseteq Token /\ \A t \in DOMAIN byToken : byToken[t] \in Real
  /\ order \in Seq(Token)
  /\ DOMAIN newer \subseteq Real /\ \A r \in DOMAIN newer : newer[r] \subseteq Real

-----------------------------------------------------------------------------
\* The ring without the touch: an entry ages from its first citation.
FaultyTouched(t) == order

\* touchLocked: t moves to the back, those behind it forward.
Touched(t) ==
  LET i == CHOOSE k \in DOMAIN order : order[k] = t
  IN  [k \in 1..Len(order) |->
         IF k < i THEN order[k] ELSE IF k < Len(order) THEN order[k + 1] ELSE t]

\* A new entry needs room.
Full == Cap > 0 /\ Cardinality(DOMAIN byToken) >= Cap /\ order # <<>>

\* The evicted entry, if any.
Victims == IF Full THEN {Head(order)} \cap DOMAIN byToken ELSE {}

Cite(r) ==
  newer' = [s \in DOMAIN newer \cup {r} |-> IF s = r THEN {} ELSE newer[s] \cup {r}]

Hit(r) ==
  /\ TokenOf[r] \in DOMAIN byToken
  /\ order' = Touched(TokenOf[r])
  /\ UNCHANGED <<byReal, byToken>>

\* The newcomer takes over the placeholder of the victim.
FaultyRecycle(r) ==
  /\ TokenOf[r] \notin DOMAIN byToken
  /\ LET token == IF Full THEN Head(order) ELSE TokenOf[r] IN
     /\ byReal' = [s \in (Held \ {byToken[t] : t \in Victims}) \cup {r} |->
                     IF s = r THEN token ELSE byReal[s]]
     /\ byToken' = [t \in DOMAIN byToken \cup {token} |->
                      IF t = token THEN r ELSE byToken[t]]
     /\ order' = Append(IF Full THEN Tail(order) ELSE order, token)

Mint(r) ==
  /\ TokenOf[r] \notin DOMAIN byToken
  /\ byReal' = [s \in (Held \ {byToken[t] : t \in Victims}) \cup {r} |->
                  IF s = r THEN TokenOf[r] ELSE byReal[s]]
  /\ byToken' = [t \in (DOMAIN byToken \ Victims) \cup {TokenOf[r]} |->
                   IF t = TokenOf[r] THEN r ELSE byToken[t]]
  /\ order' = Append(IF Full THEN Tail(order) ELSE order, TokenOf[r])

PutOrGet(r) == Cite(r) /\ (Hit(r) \/ Mint(r))

\* Lookup's second result, and what a restorer puts in the place of token t.
Known(t) == t \in DOMAIN byToken

Reset ==
  /\ byReal' = NoEntries
  /\ byToken' = NoEntries
  /\ order' = <<>>
  /\ newer' = NoEntries

MappingInit ==
  /\ byReal = NoEntries
  /\ byToken = NoEntries
  /\ order = <<>>
  /\ newer = NoEntries

MappingNext == Reset \/ \E r \in Real : PutOrGet(r)

MappingSpec == MappingInit /\ [][MappingNext]_mappingVars

-----------------------------------------------------------------------------
\* mapping.go:10 and 21-22: the two maps and the order are three views of one
\* table, each entry once.
TableConsistent ==
  /\ \A r \in Held : byReal[r] = TokenOf[r] /\ TokenOf[r] \in DOMAIN byToken
  /\ \A t \in DOMAIN byToken : byToken[t] \in Held /\ byReal[byToken[t]] = t
  /\ \A i, j \in DOMAIN order : order[i] = order[j] => i = j
  /\ DOMAIN byToken = {order[i] : i \in DOMAIN order}

\* mapping.go:16 and 49: what is held is exactly what was cited with fewer than
\* Cap other secrets cited since.
HeldAreTheRecent ==
  Held = {r \in DOMAIN newer : Cap = 0 \/ Cardinality(newer[r]) < Cap}
=============================================================================
