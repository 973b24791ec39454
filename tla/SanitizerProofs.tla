-------------------------- MODULE SanitizerProofs --------------------------
(***************************************************************************)
(* Proofs about the sanitizer's table, for any secrets and any cap: its    *)
(* types, the agreement of its three parts, and that eviction is exactly   *)
(* least-recently-used; then about the proxy, for any requests: that its   *)
(* handlers use the table by its operations only, what a restore gives     *)
(* back, and what a drained Serve leaves behind; then about whole          *)
(* conversations through it, for any detectors, texts and places: that no  *)
(* secret leaves, that an answer a client repeats is masked to the text    *)
(* the upstream wrote, and that nothing is restored in tool arguments.     *)
(***************************************************************************)
EXTENDS SanitizerProxy, Conversation, TextsProofs

-----------------------------------------------------------------------------
(* The table.                                                              *)

\* The auxiliary record, read off the order: the secrets cited after the i-th
\* entry are those of the entries behind it.
Recency ==
  \A i \in 1..Len(order) :
    newer[byToken[order[i]]] = {byToken[order[j]] : j \in (i + 1)..Len(order)}

\* Every secret held was cited; one cited and not held has Cap newer ones.
Cited ==
  /\ Held \subseteq DOMAIN newer
  /\ \A r \in DOMAIN newer : IsFiniteSet(newer[r])
  /\ \A r \in DOMAIN newer \ Held : Cap > 0 /\ Cardinality(newer[r]) >= Cap

WithinCap ==
  /\ IsFiniteSet(DOMAIN byToken)
  /\ Cap > 0 => Cardinality(DOMAIN byToken) <= Cap

Shape == MappingTypeOK /\ TableConsistent

MInv == Shape /\ WithinCap /\ Recency /\ Cited

-----------------------------------------------------------------------------
\* touchLocked: the entry moves to the back and the others keep their order.
LEMMA TouchedOrder ==
  ASSUME Shape, NEW t \in DOMAIN byToken
  PROVE  \E i \in 1..Len(order) :
           /\ order[i] = t
           /\ Touched(t) \in Seq(Token) /\ Len(Touched(t)) = Len(order)
           /\ \A k \in 1..(i - 1) : Touched(t)[k] = order[k]
           /\ \A k \in i..(Len(order) - 1) : Touched(t)[k] = order[k + 1]
           /\ Touched(t)[Len(order)] = t
<1> DEFINE i == CHOOSE k \in DOMAIN order : order[k] = t
           n == Len(order)
<1>1. order \in Seq(Token) /\ n \in Nat /\ DOMAIN order = 1..n
  BY DEF Shape, MappingTypeOK
<1>2. i \in 1..n /\ order[i] = t
  <2>1. \E k \in DOMAIN order : order[k] = t
    BY DEF Shape, TableConsistent
  <2> QED BY <1>1, <2>1
<1>3. t \in Token BY <1>1, <1>2
<1> HIDE DEF i
<1>4. Touched(t) = [k \in 1..n |-> IF k < i THEN order[k]
                                   ELSE IF k < n THEN order[k + 1] ELSE t]
  BY DEF Touched, i
<1>5. Touched(t) \in [1..n -> Token]
  BY <1>1, <1>2, <1>3, <1>4
<1>6. Touched(t) \in Seq(Token) /\ Len(Touched(t)) = n
  BY <1>1, <1>5
<1>7. /\ \A k \in 1..(i - 1) : Touched(t)[k] = order[k]
      /\ \A k \in i..(n - 1) : Touched(t)[k] = order[k + 1]
      /\ Touched(t)[n] = t
  BY <1>1, <1>2, <1>4
<1> QED BY <1>2, <1>6, <1>7

\* A new entry takes the last place, after the m oldest are gone, m = 0 or 1.
LEMMA MintOrder ==
  ASSUME Shape, NEW r \in Real, Mint(r)
  PROVE  \E m \in 0..1 :
           /\ m <= Len(order) /\ (m = 1 <=> Full)
           /\ m = 1 => Victims = {order[1]}
           /\ m = 0 => Victims = {}
           /\ order' \in Seq(Token) /\ Len(order') = Len(order) - m + 1
           /\ \A k \in 1..(Len(order) - m) : order'[k] = order[k + m]
           /\ order'[Len(order) - m + 1] = TokenOf[r]
<1>1. order \in Seq(Token) /\ Len(order) \in Nat /\ TokenOf[r] \in Token
  BY MappingAssumption DEF Shape, MappingTypeOK
<1>2. CASE Full
  <2>1. Len(order) > 0 /\ Head(order) = order[1]
    BY <1>1, <1>2 DEF Full
  <2>2. 1 \in DOMAIN order /\ order[1] \in DOMAIN byToken
    BY <1>1, <2>1 DEF Shape, TableConsistent
  <2>3. Victims = {order[1]} BY <1>2, <2>1, <2>2 DEF Victims
  <2>4. order' = Append(Tail(order), TokenOf[r]) BY <1>2 DEF Mint
  <2>5. /\ Tail(order) \in Seq(Token) /\ Len(Tail(order)) = Len(order) - 1
        /\ \A k \in 1..(Len(order) - 1) : Tail(order)[k] = order[k + 1]
    BY <1>1, <2>1
  <2>6. /\ order' \in Seq(Token) /\ Len(order') = Len(order)
        /\ \A k \in 1..(Len(order) - 1) : order'[k] = Tail(order)[k]
        /\ order'[Len(order')] = TokenOf[r]
    BY <1>1, <2>4, <2>5
  <2>7. Len(order) - 1 + 1 = Len(order) /\ 1 <= Len(order) BY <1>1, <2>1
  <2>8. \A k \in 1..(Len(order) - 1) : order'[k] = order[k + 1] BY <2>5, <2>6
  <2> WITNESS 1 \in 0..1
  <2> QED BY <1>2, <2>3, <2>6, <2>7, <2>8
<1>3. CASE ~Full
  <2>1. order' = Append(order, TokenOf[r]) BY <1>3 DEF Mint
  <2>2. /\ Len(order') = Len(order) - 0 + 1 /\ order' \in Seq(Token)
        /\ \A k \in 1..(Len(order) - 0) : order'[k] = order[k + 0]
        /\ order'[Len(order) - 0 + 1] = TokenOf[r]
    BY <1>1, <2>1
  <2>3. Victims = {} BY <1>3 DEF Victims
  <2> WITNESS 0 \in 0..1
  <2> QED BY <1>1, <1>3, <2>2, <2>3
<1> QED BY <1>2, <1>3

\* A set loses no elements when one is added.
LEMMA Grows ==
  ASSUME NEW S, IsFiniteSet(S), NEW x
  PROVE  /\ IsFiniteSet(S \cup {x})
         /\ Cardinality(S) \in Nat /\ Cardinality(S \cup {x}) \in Nat
         /\ Cardinality(S \cup {x}) >= Cardinality(S)
         /\ Cardinality(S \cup {x}) <= Cardinality(S) + 1
<1>1. Cardinality(S) \in Nat BY FS_CardinalityType
<1>2. /\ IsFiniteSet(S \cup {x})
      /\ x \in S => Cardinality(S \cup {x}) = Cardinality(S)
      /\ x \notin S => Cardinality(S \cup {x}) = Cardinality(S) + 1
  BY FS_AddElement, Zenon
<1> QED BY <1>1, <1>2

-----------------------------------------------------------------------------
LEMMA InitMInv == MappingInit => MInv
<1> SUFFICES ASSUME MappingInit PROVE MInv OBVIOUS
<1>1. /\ DOMAIN byToken = {} /\ Held = {} /\ DOMAIN newer = {}
      /\ order = <<>> /\ Len(order) = 0 /\ order \in Seq(Token)
  BY DEF MappingInit, NoEntries, Held
<1>2. Shape BY <1>1 DEF Shape, MappingTypeOK, TableConsistent
<1>3. WithinCap BY <1>1, FS_EmptySet, MappingAssumption DEF WithinCap
<1>4. Recency BY <1>1 DEF Recency
<1>5. Cited BY <1>1 DEF Cited
<1> QED BY <1>2, <1>3, <1>4, <1>5 DEF MInv

\* A reset leaves what the table began with.
LEMMA ResetMInv == Reset => MInv'
<1> SUFFICES ASSUME Reset PROVE MInv' OBVIOUS
<1>1. /\ (DOMAIN byToken)' = {} /\ Held' = {} /\ (DOMAIN newer)' = {}
      /\ order' = <<>> /\ Len(order') = 0 /\ order' \in Seq(Token)
  BY DEF Reset, NoEntries, Held
<1>2. Shape' BY <1>1 DEF Shape, MappingTypeOK, TableConsistent
<1>3. WithinCap' BY <1>1, FS_EmptySet, MappingAssumption DEF WithinCap
<1>4. Recency' BY <1>1 DEF Recency
<1>5. Cited' BY <1>1 DEF Cited
<1> QED BY <1>2, <1>3, <1>4, <1>5 DEF MInv

-----------------------------------------------------------------------------
LEMMA HitShape ==
  ASSUME Shape, NEW r \in Real, Cite(r), Hit(r)
  PROVE  Shape'
<1> DEFINE t == TokenOf[r]
           n == Len(order)
<1>1. t \in DOMAIN byToken BY DEF Hit
<1>2. order' = Touched(t) /\ byReal' = byReal /\ byToken' = byToken BY DEF Hit
<1>3. order \in Seq(Token) /\ n \in Nat /\ DOMAIN order = 1..n
  BY DEF Shape, MappingTypeOK
<1>4. PICK i \in 1..n :
        /\ order[i] = t
        /\ order' \in Seq(Token) /\ Len(order') = n
        /\ \A k \in 1..(i - 1) : order'[k] = order[k]
        /\ \A k \in i..(n - 1) : order'[k] = order[k + 1]
        /\ order'[n] = t
  BY <1>1, <1>2, TouchedOrder
<1>5. DOMAIN order' = 1..n BY <1>3, <1>4
<1> HIDE DEF n, t
<1>6. \A j, k \in 1..n : order[j] = order[k] => j = k
  BY <1>3 DEF Shape, TableConsistent
<1>7. \A j, k \in 1..n : order'[j] = order'[k] => j = k
  <2> SUFFICES ASSUME NEW j \in 1..n, NEW k \in 1..n, order'[j] = order'[k]
               PROVE  j = k
    OBVIOUS
  <2> DEFINE Old(m) == IF m < i THEN m ELSE IF m < n THEN m + 1 ELSE i
  <2>1. \A m \in 1..n : Old(m) \in 1..n /\ order'[m] = order[Old(m)]
    BY <1>3, <1>4
  <2>2. Old(j) = Old(k) BY <1>6, <2>1
  <2> QED BY <1>3, <1>4, <2>2
<1>8. {order'[k] : k \in 1..n} = {order[k] : k \in 1..n}
  <2>1. \A k \in 1..n : \E m \in 1..n : order'[k] = order[m]
    BY <1>3, <1>4
  <2>2. \A m \in 1..n : \E k \in 1..n : order'[k] = order[m]
    <3> TAKE m \in 1..n
    <3>1. CASE m < i BY <1>3, <1>4, <3>1
    <3>2. CASE m = i BY <1>3, <1>4, <3>2
    <3>3. CASE m > i
      <4>1. m - 1 \in i..(n - 1) /\ m - 1 \in 1..n BY <1>3, <3>3
      <4>2. order'[m - 1] = order[m] BY <1>3, <1>4, <4>1
      <4> QED BY <4>1, <4>2
    <3> QED BY <1>3, <3>1, <3>2, <3>3
  <2> QED BY <2>1, <2>2
<1>9. /\ (DOMAIN newer)' \subseteq Real
      /\ \A s \in (DOMAIN newer)' : newer'[s] \subseteq Real
  BY DEF Cite, Shape, MappingTypeOK
<1>10. MappingTypeOK'
  BY <1>2, <1>4, <1>9 DEF Shape, MappingTypeOK, Held
<1>11. TableConsistent'
  BY <1>2, <1>3, <1>5, <1>7, <1>8 DEF Shape, TableConsistent, Held
<1> QED BY <1>10, <1>11 DEF Shape

LEMMA HitMInv ==
  ASSUME MInv, NEW r \in Real, Cite(r), Hit(r)
  PROVE  MInv'
<1> DEFINE t == TokenOf[r]
           n == Len(order)
<1>1. Shape' BY HitShape DEF MInv
<1>2. t \in DOMAIN byToken /\ order' = Touched(t) /\ byReal' = byReal /\ byToken' = byToken
  BY DEF Hit
<1>3. n \in Nat /\ n = Len(order) /\ DOMAIN order = 1..n
  BY DEF MInv, Shape, MappingTypeOK
<1>4. PICK i \in 1..n :
        /\ order[i] = t
        /\ Len(order') = n
        /\ \A k \in 1..(i - 1) : order'[k] = order[k]
        /\ \A k \in i..(n - 1) : order'[k] = order[k + 1]
        /\ order'[n] = t
  BY <1>2, TouchedOrder DEF MInv
<1> HIDE DEF n
<1>5. r \in Held /\ byToken[t] = r /\ Held' = Held
  <2>1. byToken[t] \in Held /\ byReal[byToken[t]] = t /\ byToken[t] \in Real
    BY <1>2 DEF MInv, Shape, TableConsistent, MappingTypeOK
  <2>2. TokenOf[byToken[t]] = TokenOf[r]
    BY <2>1 DEF MInv, Shape, TableConsistent
  <2> QED BY <1>2, <2>1, <2>2, MappingAssumption DEF Held
<1>6. /\ DOMAIN newer' = DOMAIN newer
      /\ \A s \in DOMAIN newer : newer'[s] = IF s = r THEN {} ELSE newer[s] \cup {r}
  BY <1>5 DEF Cite, MInv, Cited
<1>7. \A k \in 1..n : byToken[order[k]] \in DOMAIN newer /\ (byToken[order[k]] = r <=> k = i)
  <2> TAKE k \in 1..n
  <2>1. order[k] \in DOMAIN byToken
    BY <1>3 DEF MInv, Shape, TableConsistent
  <2>2. byToken[order[k]] \in Held /\ byReal[byToken[order[k]]] = order[k]
    BY <2>1 DEF MInv, Shape, TableConsistent
  <2>3. byReal[r] = t
    BY <1>5 DEF MInv, Shape, TableConsistent
  <2>4. byToken[order[k]] = r => k = i
    BY <1>3, <1>4, <2>2, <2>3 DEF MInv, Shape, TableConsistent
  <2> QED BY <1>4, <1>5, <2>2, <2>4 DEF MInv, Cited
<1>8. WithinCap' BY <1>2 DEF MInv, WithinCap
<1>9. Recency'
  <2> SUFFICES ASSUME NEW k \in 1..Len(order')
               PROVE  newer'[byToken'[order'[k]]] =
                        {byToken'[order'[j]] : j \in (k + 1)..Len(order')}
    BY DEF Recency
  <2>0. k \in 1..n /\ byToken' = byToken /\ Len(order') = n
    BY <1>2, <1>4
  <2> DEFINE Goal == newer'[byToken[order'[k]]] = {byToken[order'[j]] : j \in (k + 1)..n}
  <2> DEFINE Behind(m) == {byToken[order[j]] : j \in (m + 1)..n}
  <2>1. \A m \in 1..n : newer[byToken[order[m]]] = Behind(m)
    BY <1>3, <2>0 DEF MInv, Recency
  <2>2. ASSUME k < i PROVE Goal
    <3>1. order'[k] = order[k] /\ byToken[order[k]] \in DOMAIN newer /\ byToken[order[k]] # r
      BY <1>3, <2>0, <1>4, <1>7, <2>2
    <3>2. newer'[byToken[order'[k]]] = Behind(k) \cup {r}
      BY <1>6, <2>0, <2>1, <3>1
    <3>3. \A j \in (k + 1)..n : byToken[order'[j]] \in Behind(k)
      <4> TAKE j \in (k + 1)..n
      <4>1. CASE j < i BY <1>3, <2>0, <1>4, <4>1
      <4>2. CASE j >= i /\ j < n
        <5>1. j \in i..(n - 1) /\ j + 1 \in (k + 1)..n BY <1>3, <2>0, <4>2
        <5> QED BY <1>4, <5>1
      <4>3. CASE j = n
        <5>1. order'[j] = order[i] /\ i \in (k + 1)..n BY <1>3, <2>0, <1>4, <2>2, <4>3
        <5> QED BY <5>1
      <4>4. j < i \/ (j >= i /\ j < n) \/ j = n BY <1>3, <2>0
      <4> QED BY <4>1, <4>2, <4>3, <4>4
    <3>4. \A j \in (k + 1)..n :
            byToken[order[j]] \in {byToken[order'[l]] : l \in (k + 1)..n}
      <4> TAKE j \in (k + 1)..n
      <4>1. CASE j < i BY <1>3, <2>0, <1>4, <4>1
      <4>2. CASE j = i
        <5>1. n \in (k + 1)..n BY <1>3, <2>0
        <5> QED BY <1>4, <4>2, <5>1
      <4>3. CASE j > i
        <5>1. j - 1 \in i..(n - 1) /\ j - 1 \in (k + 1)..n /\ (j - 1) + 1 = j
          BY <1>3, <2>0, <2>2, <4>3
        <5>2. order'[j - 1] = order[j] BY <1>4, <5>1
        <5> QED BY <5>1, <5>2
      <4> QED BY <1>3, <2>0, <4>1, <4>2, <4>3
    <3>5. r \in Behind(k)
      BY <1>3, <2>0, <1>4, <1>5, <2>2
    <3> QED BY <3>2, <3>3, <3>4, <3>5, ZenonT(30)
  <2>3. ASSUME k >= i /\ k < n PROVE Goal
    <3>1. /\ order'[k] = order[k + 1] /\ k + 1 \in 1..n
          /\ byToken[order[k + 1]] \in DOMAIN newer /\ byToken[order[k + 1]] # r
      <4>1. k \in i..(n - 1) /\ k + 1 \in 1..n /\ k + 1 # i BY <1>3, <2>0, <2>3
      <4> QED BY <1>4, <1>7, <4>1
    <3>2. newer'[byToken[order'[k]]] = Behind(k + 1) \cup {r}
      BY <1>6, <2>0, <2>1, <3>1
    <3>3. \A j \in (k + 1)..n : byToken[order'[j]] \in Behind(k + 1) \cup {r}
      <4> TAKE j \in (k + 1)..n
      <4>1. CASE j < n
        <5>1. order'[j] = order[j + 1] /\ j + 1 \in ((k + 1) + 1)..n
          BY <1>3, <2>0, <1>4, <2>3, <4>1
        <5> QED BY <5>1
      <4>2. CASE j = n BY <1>4, <1>5, <4>2
      <4>3. j < n \/ j = n BY <1>3, <2>0
      <4> QED BY <4>1, <4>2, <4>3
    <3>4. \A j \in ((k + 1) + 1)..n :
            byToken[order[j]] \in {byToken[order'[l]] : l \in (k + 1)..n}
      <4> TAKE j \in ((k + 1) + 1)..n
      <4>1. j - 1 \in i..(n - 1) /\ j - 1 \in (k + 1)..n /\ (j - 1) + 1 = j
        BY <1>3, <2>0, <2>3
      <4>2. order'[j - 1] = order[j] BY <1>4, <4>1
      <4> QED BY <4>1, <4>2
    <3>5. r \in {byToken[order'[l]] : l \in (k + 1)..n}
      <4>1. n \in (k + 1)..n BY <1>3, <2>0, <2>3
      <4> QED BY <1>4, <1>5, <4>1
    <3> QED BY <3>2, <3>3, <3>4, <3>5, SMTT(30)
  <2>4. ASSUME k = n PROVE Goal
    <3>1. newer'[byToken[order'[k]]] = {}
      BY <1>3, <2>0, <1>4, <1>5, <1>6, <1>7, <2>4
    <3> QED BY <1>3, <2>0, <2>4, <3>1
  <2>5. Goal
    <3>1. k < i \/ (k >= i /\ k < n) \/ k = n BY <1>3, <2>0
    <3> QED BY <2>2, <2>3, <2>4, <3>1, Zenon
  <2> QED BY <2>0, <2>5
<1>10. Cited'
  <2>1. \A s \in DOMAIN newer : s # r => IsFiniteSet(newer[s] \cup {r})
    BY Grows DEF MInv, Cited
  <2>2. \A s \in DOMAIN newer : IsFiniteSet(newer'[s])
    BY <1>6, <2>1, FS_EmptySet
  <2>3. \A s \in DOMAIN newer \ Held : Cap > 0 /\ Cardinality(newer'[s]) >= Cap
    <3> TAKE s \in DOMAIN newer \ Held
    <3>1. newer'[s] = newer[s] \cup {r} /\ IsFiniteSet(newer[s])
          /\ Cap > 0 /\ Cardinality(newer[s]) >= Cap
      BY <1>5, <1>6 DEF MInv, Cited
    <3>2. /\ Cardinality(newer[s]) \in Nat /\ Cardinality(newer'[s]) \in Nat
          /\ Cardinality(newer'[s]) >= Cardinality(newer[s])
      BY <3>1, Grows, Zenon
    <3> QED BY <3>1, <3>2, MappingAssumption
  <2> QED BY <1>5, <1>6, <2>2, <2>3 DEF MInv, Cited
<1> QED BY <1>1, <1>8, <1>9, <1>10 DEF MInv

-----------------------------------------------------------------------------
\* The two maps are inverses of each other.
LEMMA MapsAgree ==
  ASSUME Shape
  PROVE  /\ \A s \in Held : s \in Real /\ TokenOf[s] \in DOMAIN byToken /\ byToken[TokenOf[s]] = s
         /\ \A u \in DOMAIN byToken :
              u \in Token /\ byToken[u] \in Held /\ TokenOf[byToken[u]] = u
<1>1. \A u \in DOMAIN byToken : u \in Token /\ byToken[u] \in Held /\ TokenOf[byToken[u]] = u
  BY DEF Shape, MappingTypeOK, TableConsistent
<1>2. \A s \in Held : s \in Real /\ TokenOf[s] \in DOMAIN byToken
  BY DEF Shape, MappingTypeOK, TableConsistent
<1>3. ASSUME NEW s \in Held PROVE byToken[TokenOf[s]] = s
  BY <1>1, <1>2, MappingAssumption
<1> QED BY <1>1, <1>2, <1>3

\* What a mint leaves in the two maps: the victims are gone from both.
LEMMA MintMaps ==
  ASSUME Shape, NEW r \in Real, Mint(r)
  PROVE  /\ r \notin Held /\ TokenOf[r] \in Token
         /\ Held' = {s \in Held : TokenOf[s] \notin Victims} \cup {r}
         /\ \A s \in Held' : byReal'[s] = TokenOf[s]
         /\ DOMAIN byToken' = (DOMAIN byToken \ Victims) \cup {TokenOf[r]}
         /\ \A u \in DOMAIN byToken \ Victims : byToken'[u] = byToken[u]
         /\ byToken'[TokenOf[r]] = r
<1>1. TokenOf[r] \notin DOMAIN byToken /\ TokenOf[r] \in Token
  BY MappingAssumption DEF Mint
<1>2. r \notin Held BY <1>1, MapsAgree
<1>3. Victims \subseteq DOMAIN byToken BY DEF Victims
<1>4. Held \ {byToken[u] : u \in Victims} = {s \in Held : TokenOf[s] \notin Victims}
  BY <1>3, MapsAgree
<1>5. byReal' = [s \in (Held \ {byToken[u] : u \in Victims}) \cup {r} |->
                   IF s = r THEN TokenOf[r] ELSE byReal[s]]
  BY DEF Mint
<1>6. Held' = {s \in Held : TokenOf[s] \notin Victims} \cup {r}
  BY <1>4, <1>5 DEF Held
<1>7. \A s \in Held : byReal[s] = TokenOf[s] BY DEF Shape, TableConsistent
<1>8. \A s \in Held' : byReal'[s] = TokenOf[s]
  BY <1>4, <1>5, <1>6, <1>7
<1>9. byToken' = [u \in (DOMAIN byToken \ Victims) \cup {TokenOf[r]} |->
                    IF u = TokenOf[r] THEN r ELSE byToken[u]]
  BY DEF Mint
<1> QED BY <1>1, <1>2, <1>6, <1>8, <1>9

LEMMA MintShape ==
  ASSUME Shape, NEW r \in Real, Cite(r), Mint(r)
  PROVE  Shape'
<1> DEFINE t == TokenOf[r]
           n == Len(order)
<1>1. /\ r \notin Held /\ t \in Token
      /\ Held' = {s \in Held : TokenOf[s] \notin Victims} \cup {r}
      /\ \A s \in Held' : byReal'[s] = TokenOf[s]
      /\ DOMAIN byToken' = (DOMAIN byToken \ Victims) \cup {t}
      /\ \A u \in DOMAIN byToken \ Victims : byToken'[u] = byToken[u]
      /\ byToken'[t] = r
  BY MintMaps
<1>2. t \notin DOMAIN byToken BY DEF Mint
<1>3. n \in Nat /\ n = Len(order) /\ DOMAIN order = 1..n
  BY DEF Shape, MappingTypeOK
<1>4. PICK m \in 0..1 :
        /\ m <= n
        /\ m = 1 => Victims = {order[1]}
        /\ m = 0 => Victims = {}
        /\ order' \in Seq(Token) /\ Len(order') = n - m + 1
        /\ \A k \in 1..(n - m) : order'[k] = order[k + m]
        /\ order'[n - m + 1] = t
  BY MintOrder
<1> HIDE DEF n, t
<1>5. n - m \in Nat /\ DOMAIN order' = 1..(n - m + 1)
  <2>1. n - m \in Nat /\ n - m + 1 \in Nat BY <1>3, <1>4
  <2> QED BY <1>4, <2>1
<1>6. /\ \A j, k \in 1..n : order[j] = order[k] => j = k
      /\ DOMAIN byToken = {order[k] : k \in 1..n}
  BY <1>3 DEF Shape, TableConsistent
<1>7. Held' \subseteq Real /\ \A s \in Held' : byReal'[s] \in Token
  BY <1>1, MapsAgree, MappingAssumption
<1>8. \A u \in DOMAIN byToken' : u \in Token /\ byToken'[u] \in Real
  BY <1>1, MapsAgree
<1>9. /\ (DOMAIN newer)' \subseteq Real
      /\ \A s \in (DOMAIN newer)' : newer'[s] \subseteq Real
  BY DEF Cite, Shape, MappingTypeOK
<1>10. MappingTypeOK'
  BY <1>4, <1>7, <1>8, <1>9 DEF MappingTypeOK, Held
<1>11. \A s \in Held' : TokenOf[s] \in DOMAIN byToken'
  BY <1>1, MapsAgree DEF t
<1>12. \A u \in DOMAIN byToken' : byToken'[u] \in Held' /\ byReal'[byToken'[u]] = u
  <2> TAKE u \in DOMAIN byToken'
  <2>1. CASE u = t BY <1>1, <2>1 DEF t
  <2>2. CASE u \in DOMAIN byToken \ Victims
    <3>1. byToken'[u] = byToken[u] /\ byToken[u] \in Held /\ TokenOf[byToken[u]] = u
      BY <1>1, <2>2, MapsAgree
    <3>2. byToken[u] \in Held' BY <1>1, <2>2, <3>1
    <3> QED BY <1>1, <3>1, <3>2
  <2> QED BY <1>1, <2>1, <2>2
<1>13. \A j, k \in 1..(n - m + 1) : order'[j] = order'[k] => j = k
  <2>1. \A k \in 1..(n - m) : order'[k] # t
    <3> TAKE k \in 1..(n - m)
    <3>1. k + m \in 1..n BY <1>3, <1>4
    <3> QED BY <1>2, <1>4, <1>6, <3>1
  <2>2. \A j, k \in 1..(n - m) : order'[j] = order'[k] => j = k
    <3> TAKE j, k \in 1..(n - m)
    <3>1. j + m \in 1..n /\ k + m \in 1..n BY <1>3, <1>4
    <3>2. order'[j] = order'[k] => j + m = k + m BY <1>4, <1>6, <3>1
    <3> QED BY <1>4, <3>2
  <2>3. \A k \in 1..(n - m + 1) : k \in 1..(n - m) \/ k = n - m + 1 BY <1>5
  <2> QED BY <1>4, <2>1, <2>2, <2>3
<1>14. DOMAIN byToken' = {order'[k] : k \in 1..(n - m + 1)}
  <2>1. \A k \in 1..(n - m) : order'[k] \in DOMAIN byToken \ Victims
    <3> TAKE k \in 1..(n - m)
    <3>1. k + m \in 1..n /\ (m = 1 => k + m # 1 /\ 1 \in 1..n) /\ (m = 0 \/ m = 1)
      BY <1>3, <1>4
    <3>2. order[k + m] \in DOMAIN byToken BY <1>6, <3>1
    <3>3. order[k + m] \notin Victims BY <1>4, <1>6, <3>1
    <3> QED BY <1>4, <3>2, <3>3
  <2>2. \A u \in DOMAIN byToken \ Victims : \E k \in 1..(n - m) : order'[k] = u
    <3> TAKE u \in DOMAIN byToken \ Victims
    <3>1. PICK k \in 1..n : order[k] = u BY <1>6
    <3>2. m = 0 \/ m = 1 BY <1>4
    <3>3. m = 1 => k # 1 BY <1>4, <3>1
    <3>4. k - m \in 1..(n - m) /\ (k - m) + m = k BY <1>3, <1>4, <3>2, <3>3
    <3>5. order'[k - m] = u BY <1>4, <3>1, <3>4
    <3> QED BY <3>4, <3>5
  <2>3. /\ n - m + 1 \in 1..(n - m + 1)
        /\ \A k \in 1..(n - m) : k \in 1..(n - m + 1)
        /\ \A k \in 1..(n - m + 1) : k \in 1..(n - m) \/ k = n - m + 1
    BY <1>5
  <2> QED BY <1>1, <1>4, <2>1, <2>2, <2>3
<1>15. TableConsistent'
  BY <1>1, <1>5, <1>11, <1>12, <1>13, <1>14 DEF TableConsistent
<1> QED BY <1>10, <1>15 DEF Shape

-----------------------------------------------------------------------------
\* As many secrets as tokens, and the secrets are those of the order.
LEMMA HeldCount ==
  ASSUME Shape, IsFiniteSet(DOMAIN byToken)
  PROVE  /\ IsFiniteSet(Held) /\ Cardinality(Held) = Cardinality(DOMAIN byToken)
         /\ Held = {byToken[order[k]] : k \in 1..Len(order)}
<1> DEFINE f == [u \in DOMAIN byToken |-> byToken[u]]
<1>1. f \in Bijection(DOMAIN byToken, Held)
  <2>1. f \in [DOMAIN byToken -> Held] BY MapsAgree
  <2>2. \A u, v \in DOMAIN byToken : f[u] = f[v] => u = v BY MapsAgree
  <2>3. \A s \in Held : \E u \in DOMAIN byToken : f[u] = s BY MapsAgree
  <2>4. DOMAIN f = DOMAIN byToken OBVIOUS
  <2> HIDE DEF f
  <2> QED BY <2>1, <2>2, <2>3, <2>4 DEF Bijection, Injection, Surjection, IsInjective
<1>2. ExistsBijection(DOMAIN byToken, Held) BY <1>1 DEF ExistsBijection
<1>3. IsFiniteSet(Held) /\ Cardinality(Held) = Cardinality(DOMAIN byToken)
  BY <1>2, FS_Bijection
<1>4. DOMAIN byToken = {order[k] : k \in 1..Len(order)}
  BY DEF Shape, MappingTypeOK, TableConsistent
<1>5. Held = {byToken[order[k]] : k \in 1..Len(order)}
  <2>1. \A k \in 1..Len(order) : byToken[order[k]] \in Held BY <1>4, MapsAgree
  <2>2. \A s \in Held : \E k \in 1..Len(order) : byToken[order[k]] = s BY <1>4, MapsAgree
  <2> QED BY <2>1, <2>2
<1> QED BY <1>3, <1>5

LEMMA MintMInv ==
  ASSUME MInv, NEW r \in Real, Cite(r), Mint(r)
  PROVE  MInv'
<1> DEFINE t == TokenOf[r]
           n == Len(order)
           D == DOMAIN byToken
<1>0. Shape BY DEF MInv
<1>1. Shape' BY <1>0, MintShape
<1>2. /\ r \notin Held
      /\ Held' = {s \in Held : TokenOf[s] \notin Victims} \cup {r}
      /\ DOMAIN byToken' = (D \ Victims) \cup {t}
      /\ \A u \in D \ Victims : byToken'[u] = byToken[u]
      /\ byToken'[t] = r
  BY <1>0, MintMaps
<1>3. n \in Nat /\ n = Len(order) /\ DOMAIN order = 1..n
  BY <1>0 DEF Shape, MappingTypeOK
<1>4. PICK m \in 0..1 :
        /\ m <= n /\ (m = 1 <=> Full)
        /\ m = 1 => Victims = {order[1]}
        /\ m = 0 => Victims = {}
        /\ Len(order') = n - m + 1
        /\ \A k \in 1..(n - m) : order'[k] = order[k + m]
        /\ order'[n - m + 1] = t
  BY <1>0, MintOrder
<1>5. t \notin D BY DEF Mint
<1>6. m = 0 \/ m = 1 BY <1>4
<1>7. IsFiniteSet(D) /\ Cardinality(D) \in Nat /\ Cap \in Nat /\ (Cap > 0 => Cardinality(D) <= Cap)
  BY FS_CardinalityType, MappingAssumption DEF MInv, WithinCap
<1>8. /\ DOMAIN newer' = DOMAIN newer \cup {r} /\ newer'[r] = {}
      /\ \A s \in DOMAIN newer : s # r => newer'[s] = newer[s] \cup {r}
  BY DEF Cite
<1>9. /\ Held \subseteq DOMAIN newer
      /\ \A s \in DOMAIN newer : IsFiniteSet(newer[s])
      /\ \A s \in DOMAIN newer \ Held : Cap > 0 /\ Cardinality(newer[s]) >= Cap
  BY DEF MInv, Cited
<1> HIDE DEF n, t, D
<1>10. /\ \A j, k \in 1..n : order[j] = order[k] => j = k
       /\ D = {order[k] : k \in 1..n}
  BY <1>0, <1>3 DEF Shape, TableConsistent, D
\* The entries that stay: no victim, and their secrets are held, without r.
<1>11. \A j \in (m + 1)..n : /\ j \in 1..n /\ order[j] \in D \ Victims
                             /\ byToken[order[j]] \in Held \ {r}
                             /\ byToken'[order[j]] = byToken[order[j]]
  <2> TAKE j \in (m + 1)..n
  <2>1. j \in 1..n /\ (m = 1 => j # 1 /\ 1 \in 1..n) BY <1>3, <1>6
  <2>2. order[j] \in D /\ order[j] \notin Victims BY <1>4, <1>6, <1>10, <2>1
  <2>3. byToken[order[j]] \in Held BY <1>0, <2>2, MapsAgree DEF D
  <2> QED BY <1>2, <2>1, <2>2, <2>3
<1>12. Held = {byToken[order[k]] : k \in 1..n} /\ IsFiniteSet(Held)
       /\ Cardinality(Held) = Cardinality(D)
  BY <1>0, <1>3, <1>7, HeldCount DEF D
<1>13. WithinCap'
  <2>1. IsFiniteSet(D \cup {t}) /\ Cardinality(D \cup {t}) = Cardinality(D) + 1
    BY <1>5, <1>7, FS_AddElement, Zenon
  <2>2. CASE m = 1
    <3>1. order[1] \in D /\ Victims = {order[1]} BY <1>3, <1>4, <1>10, <2>2
    <3>2. order[1] \in D \cup {t} /\ DOMAIN byToken' = (D \cup {t}) \ {order[1]}
      BY <1>2, <1>5, <3>1
    <3>3. /\ IsFiniteSet(DOMAIN byToken')
          /\ Cardinality(DOMAIN byToken') = Cardinality(D \cup {t}) - 1
      BY <2>1, <3>2, FS_RemoveElement, Zenon
    <3>4. Cardinality(DOMAIN byToken') = Cardinality(D) BY <1>7, <2>1, <3>3
    <3> QED BY <1>7, <3>3, <3>4 DEF WithinCap
  <2>3. CASE m = 0
    <3>1. DOMAIN byToken' = D \cup {t} BY <1>2, <1>4, <2>3
    <3>2. Cap > 0 => Cardinality(D) < Cap
      <4>1. ~Full BY <1>4, <2>3
      <4>2. CASE order = <<>>
        <5>1. D = {} BY <1>3, <1>10, <4>2
        <5> QED BY <1>7, <5>1, FS_EmptySet
      <4> QED BY <1>7, <4>1, <4>2 DEF Full, D
    <3> QED BY <1>7, <2>1, <3>1, <3>2 DEF WithinCap
  <2> QED BY <1>6, <2>2, <2>3
<1>14. Recency'
  <2> SUFFICES ASSUME NEW k \in 1..Len(order')
               PROVE  newer'[byToken'[order'[k]]] =
                        {byToken'[order'[j]] : j \in (k + 1)..Len(order')}
    BY DEF Recency
  <2>0. k \in 1..(n - m + 1) /\ Len(order') = n - m + 1 BY <1>4
  <2>1. CASE k = n - m + 1
    <3>1. (k + 1)..Len(order') = {} BY <1>3, <1>4, <2>0, <2>1
    <3>2. byToken'[order'[k]] = r BY <1>2, <1>4, <2>1
    <3> QED BY <1>8, <3>1, <3>2
  <2>2. ASSUME k \in 1..(n - m)
        PROVE  newer'[byToken'[order'[k]]] =
                 {byToken'[order'[j]] : j \in (k + 1)..(n - m + 1)}
    <3> DEFINE Behind == {byToken[order[j]] : j \in (k + m + 1)..n}
    <3>1. k + m \in (m + 1)..n /\ order'[k] = order[k + m] BY <1>3, <1>4, <2>2
    <3>2. newer[byToken[order[k + m]]] = Behind
      <4>1. k + m \in 1..n BY <1>11, <3>1
      <4> QED BY <1>3, <4>1 DEF MInv, Recency
    <3>3. newer'[byToken'[order'[k]]] = Behind \cup {r}
      <4>1. /\ byToken'[order'[k]] = byToken[order[k + m]]
            /\ byToken[order[k + m]] \in Held \ {r}
        BY <1>11, <3>1
      <4> QED BY <1>8, <1>9, <3>2, <4>1
    <3>4. \A j \in (k + 1)..(n - m + 1) : byToken'[order'[j]] \in Behind \cup {r}
      <4> TAKE j \in (k + 1)..(n - m + 1)
      <4>1. CASE j = n - m + 1 BY <1>2, <1>4, <4>1
      <4>2. CASE j # n - m + 1
        <5>1. j \in 1..(n - m) /\ j + m \in (m + 1)..n /\ j + m \in (k + m + 1)..n
          BY <1>3, <1>6, <2>0, <4>2
        <5>2. byToken'[order'[j]] = byToken[order[j + m]] BY <1>4, <1>11, <5>1
        <5> QED BY <5>1, <5>2
      <4> QED BY <4>1, <4>2
    <3>5. \A j \in (k + m + 1)..n :
            byToken[order[j]] \in {byToken'[order'[l]] : l \in (k + 1)..(n - m + 1)}
      <4> TAKE j \in (k + m + 1)..n
      <4>1. /\ j - m \in 1..(n - m) /\ (j - m) + m = j
            /\ j - m \in (k + 1)..(n - m + 1) /\ j \in (m + 1)..n
        BY <1>3, <1>6, <2>0
      <4>2. byToken'[order'[j - m]] = byToken[order[j]] BY <1>4, <1>11, <4>1
      <4> QED BY <4>1, <4>2
    <3>6. r \in {byToken'[order'[l]] : l \in (k + 1)..(n - m + 1)}
      <4>1. n - m + 1 \in (k + 1)..(n - m + 1) BY <1>3, <1>6, <2>2
      <4> QED BY <1>2, <1>4, <4>1
    <3> QED BY <3>3, <3>4, <3>5, <3>6
  <2>3. k = n - m + 1 \/ k \in 1..(n - m) BY <1>3, <1>6, <2>0
  <2> QED BY <2>0, <2>1, <2>2, <2>3
<1>15. Cited'
  <2>1. Held' \subseteq DOMAIN newer' BY <1>2, <1>8, <1>9
  <2>2. ASSUME NEW s \in DOMAIN newer' PROVE IsFiniteSet(newer'[s])
    <3>1. CASE s = r BY <1>8, <3>1, FS_EmptySet
    <3>2. CASE s # r
      <4>1. newer'[s] = newer[s] \cup {r} /\ IsFiniteSet(newer[s]) BY <1>8, <1>9, <3>2
      <4> QED BY <4>1, Grows, Zenon
    <3> QED BY <3>1, <3>2
  <2>3. ASSUME NEW s \in DOMAIN newer' \ Held' PROVE Cap > 0 /\ Cardinality(newer'[s]) >= Cap
    <3>1. s # r /\ s \in DOMAIN newer /\ newer'[s] = newer[s] \cup {r} BY <1>2, <1>8
    <3>2. CASE s \notin Held
      <4>1. Cap > 0 /\ Cardinality(newer[s]) >= Cap /\ IsFiniteSet(newer[s])
        BY <1>9, <3>1, <3>2
      <4>2. /\ Cardinality(newer[s]) \in Nat /\ Cardinality(newer'[s]) \in Nat
            /\ Cardinality(newer'[s]) >= Cardinality(newer[s])
        BY <3>1, <4>1, Grows, Zenon
      <4> QED BY <1>7, <4>1, <4>2
    \* The victim: as many newer ones as there are entries.
    <3>3. CASE s \in Held
      <4>1. TokenOf[s] \in Victims BY <1>2, <3>3
      <4>2. m = 1 /\ Full /\ TokenOf[s] = order[1] BY <1>4, <1>6, <4>1
      <4>3. byToken[order[1]] = s BY <1>0, <3>3, <4>2, MapsAgree
      <4>4. 1 \in 1..n BY <1>3, <1>4, <4>2
      <4>5. newer[s] = {byToken[order[j]] : j \in 2..n}
        <5>1. newer[byToken[order[1]]] = {byToken[order[j]] : j \in (1 + 1)..n}
          BY <1>3, <4>4 DEF MInv, Recency
        <5>2. 1 + 1 = 2 OBVIOUS
        <5> QED BY <4>3, <5>1, <5>2
      <4>6. newer[s] = Held \ {s}
        <5>1. \A j \in 2..n : byToken[order[j]] \in Held /\ byToken[order[j]] # s
          <6> TAKE j \in 2..n
          <6>1. j \in 1..n /\ j # 1 BY <1>3
          <6>2. order[j] # order[1] /\ order[j] \in D /\ order[1] \in D
            BY <1>10, <4>4, <6>1
          <6>3. byToken[order[j]] # byToken[order[1]]
            BY <1>0, <6>2, MapsAgree DEF D
          <6> QED BY <1>12, <4>3, <6>1, <6>3
        <5>2. \A x \in Held \ {s} : \E j \in 2..n : byToken[order[j]] = x
          <6> TAKE x \in Held \ {s}
          <6>1. PICK j \in 1..n : byToken[order[j]] = x BY <1>12
          <6>2. j # 1 BY <4>3, <6>1
          <6>3. j \in 2..n BY <1>3, <6>2
          <6> QED BY <6>1, <6>3
        <5> QED BY <4>5, <5>1, <5>2
      <4>7. newer'[s] = (Held \cup {r}) \ {s} BY <3>1, <4>6
      <4>8. /\ IsFiniteSet(Held \cup {r})
            /\ Cardinality(Held \cup {r}) = Cardinality(Held) + 1
        <5>1. r \notin Held /\ IsFiniteSet(Held) BY <1>2, <1>12
        <5> QED BY <5>1, FS_AddElement, Zenon
      <4>9. Cardinality(newer'[s]) = Cardinality(Held \cup {r}) - 1
        BY <3>3, <4>7, <4>8, FS_RemoveElement, Zenon
      <4>10. Cap > 0 /\ Cardinality(D) >= Cap BY <4>2 DEF Full, D
      <4> QED BY <1>7, <1>12, <4>8, <4>9, <4>10
    <3> QED BY <3>2, <3>3
  <2> QED BY <2>1, <2>2, <2>3 DEF Cited
<1> QED BY <1>1, <1>13, <1>14, <1>15 DEF MInv

-----------------------------------------------------------------------------
\* The table's invariant: its parts agree, it is within its cap, and the order
\* and the evictions tell who was cited when.
THEOREM MappingInvariant == MappingSpec => []MInv
<1>1. MInv /\ [MappingNext]_mappingVars => MInv'
  <2> SUFFICES ASSUME MInv, [MappingNext]_mappingVars PROVE MInv' OBVIOUS
  <2>1. CASE Reset BY <2>1, ResetMInv
  <2>2. CASE \E r \in Real : PutOrGet(r)
    <3> PICK r \in Real : PutOrGet(r) BY <2>2
    <3>1. CASE Hit(r) BY <3>1, HitMInv DEF PutOrGet
    <3>2. CASE Mint(r) BY <3>2, MintMInv DEF PutOrGet
    <3> QED BY <3>1, <3>2 DEF PutOrGet
  <2>3. CASE UNCHANGED mappingVars
    BY <2>3 DEF mappingVars, MInv, Shape, MappingTypeOK, TableConsistent, WithinCap,
                Recency, Cited, Held
  <2> QED BY <2>1, <2>2, <2>3 DEF MappingNext
<1> QED BY <1>1, InitMInv, PTL DEF MappingSpec

\* The table only ever holds secrets and tokens.
THEOREM MappingTypeCorrect == MappingSpec => []MappingTypeOK
<1>1. MInv => MappingTypeOK BY DEF MInv, Shape
<1> QED BY <1>1, MappingInvariant, PTL

\* mapping.go:10, for any secrets and any cap: every secret held has its own
\* token, every token the secret it was made of, and the order each token once.
THEOREM TableStaysConsistent == MappingSpec => []TableConsistent
<1>1. MInv => TableConsistent BY DEF MInv, Shape
<1> QED BY <1>1, MappingInvariant, PTL

\* What is held is exactly what was cited with fewer than Cap others since.
LEMMA RecentAreHeld == MInv => HeldAreTheRecent
<1> SUFFICES ASSUME MInv PROVE HeldAreTheRecent OBVIOUS
<1>1. /\ Held \subseteq DOMAIN newer /\ Cap \in Nat
      /\ \A r \in DOMAIN newer : Cardinality(newer[r]) \in Nat
      /\ \A r \in DOMAIN newer \ Held : Cap > 0 /\ Cardinality(newer[r]) >= Cap
  BY FS_CardinalityType, MappingAssumption DEF MInv, Cited
<1>2. ASSUME NEW r \in Held, Cap # 0 PROVE Cardinality(newer[r]) < Cap
  <2>1. Shape /\ IsFiniteSet(DOMAIN byToken) BY DEF MInv, WithinCap
  <2>2. /\ IsFiniteSet(Held) /\ Cardinality(Held) <= Cap
        /\ Held = {byToken[order[k]] : k \in 1..Len(order)}
    BY <1>1, <1>2, <2>1, HeldCount DEF MInv, WithinCap
  <2>3. PICK i \in 1..Len(order) : byToken[order[i]] = r BY <2>2
  <2>4. newer[r] = {byToken[order[j]] : j \in (i + 1)..Len(order)}
    BY <2>3 DEF MInv, Recency
  <2>5. \A j \in (i + 1)..Len(order) :
          byToken[order[j]] \in Held /\ byToken[order[j]] # r
    <3> TAKE j \in (i + 1)..Len(order)
    <3>1. Len(order) \in Nat /\ DOMAIN order = 1..Len(order)
      BY <2>1 DEF Shape, MappingTypeOK
    <3>2. j \in 1..Len(order) /\ j # i BY <3>1
    <3>3. order[j] # order[i] /\ order[i] \in DOMAIN byToken /\ order[j] \in DOMAIN byToken
      BY <2>1, <3>1, <3>2 DEF Shape, TableConsistent
    <3>4. byToken[order[j]] # byToken[order[i]] BY <2>1, <3>3, MapsAgree
    <3> QED BY <2>2, <2>3, <3>2, <3>4
  <2>6. newer[r] \in SUBSET (Held \ {r}) BY <2>4, <2>5
  <2>7. /\ IsFiniteSet(Held \ {r})
        /\ Cardinality(Held \ {r}) = Cardinality(Held) - 1
    BY <2>2, FS_RemoveElement, Zenon
  <2>8. Cardinality(newer[r]) <= Cardinality(Held \ {r})
    BY <2>6, <2>7, FS_Subset, Zenon
  <2>9. Cardinality(Held) \in Nat BY <2>2, FS_CardinalityType
  <2> QED BY <1>1, <2>2, <2>7, <2>8, <2>9
<1> QED BY <1>1, <1>2 DEF HeldAreTheRecent

\* mapping.go:16, for any secrets and any cap: eviction is exact, a secret is held
\* as long as fewer than Cap others were cited since and not any longer.
THEOREM EvictionIsExact == MappingSpec => []HeldAreTheRecent
BY RecentAreHeld, MappingInvariant, PTL

-----------------------------------------------------------------------------
(* The proxy.                                                              *)

\* Nothing starts once the shutdown has begun, so what it drained stays drained,
\* and the table stays as Reset left it.
StaysDrained ==
  /\ serving = "returned" => shutdown \in {"drained", "timedout"}
  /\ shutdown = "drained" => \A q \in Request : ~Active(q)
  /\ DroppedWhenDrained

PInv ==
  /\ Shape
  /\ phase \in [Request -> {"none", "read", "rewrite", "upstream", "restore", "done"}]
  /\ shown \in [Request -> {Nothing} \cup (Token \X (Real \cup {Nothing}))]
  /\ RestoredIsItsOwn
  /\ StaysDrained

LEMMA ProxyInitPInv == ProxyInit => PInv
<1> SUFFICES ASSUME ProxyInit PROVE PInv OBVIOUS
<1>1. Shape BY InitMInv DEF ProxyInit, MInv
<1>2. RestoredIsItsOwn BY DEF ProxyInit, RestoredIsItsOwn
<1>3. StaysDrained BY DEF ProxyInit, StaysDrained, DroppedWhenDrained
<1> QED BY <1>1, <1>2, <1>3 DEF ProxyInit, PInv

\* A handler that does not touch the table, show a placeholder or start.
LEMMA QuietHandler ==
  ASSUME PInv, NEW q \in Request, NEW p \in {"read", "upstream", "restore", "done"},
         Active(q) \/ shutdown = "parked", phase' = [phase EXCEPT ![q] = p],
         UNCHANGED <<mappingVars, shown, serveVars>>
  PROVE  PInv'
<1>1. Shape'
  BY DEF PInv, mappingVars, Shape, MappingTypeOK, TableConsistent, Held
<1>2. RestoredIsItsOwn' BY DEF PInv, RestoredIsItsOwn
<1>3. StaysDrained'
  BY DEF PInv, StaysDrained, DroppedWhenDrained, Active, serveVars, mappingVars, Held
<1> QED BY <1>1, <1>2, <1>3 DEF PInv

\* A step of Serve that neither ends the drain nor returns.
LEMMA QuietServe ==
  ASSUME PInv, UNCHANGED <<mappingVars, handlerVars>>,
         serving' = serving \/ serving' = "stopping",
         shutdown' = shutdown \/ (shutdown = "parked" /\ shutdown' = "draining")
           \/ (shutdown = "draining" /\ shutdown' = "timedout")
           \/ (shutdown = "draining" /\ shutdown' = "drained"
                 /\ \A q \in Request : ~Active(q))
  PROVE  PInv'
<1>1. Shape'
  BY DEF PInv, mappingVars, Shape, MappingTypeOK, TableConsistent, Held
<1>2. phase' = phase /\ shown' = shown /\ Held' = Held /\ byToken' = byToken
  BY DEF handlerVars, mappingVars, Held
<1>3. RestoredIsItsOwn' BY <1>2 DEF PInv, RestoredIsItsOwn
<1>4. StaysDrained'
  BY <1>2 DEF PInv, StaysDrained, DroppedWhenDrained, Active
<1> QED BY <1>1, <1>2, <1>3, <1>4 DEF PInv

LEMMA ProxyNextPInv == PInv /\ [ProxyNext]_proxyVars => PInv'
<1> SUFFICES ASSUME PInv, [ProxyNext]_proxyVars PROVE PInv' OBVIOUS
<1>1. ASSUME NEW q \in Request, NEW body \in Bodies, Begin(q, body) PROVE PInv'
  <2>1. Shape'
    BY <1>1 DEF Begin, PInv, mappingVars, Shape, MappingTypeOK, TableConsistent, Held
  <2>2. RestoredIsItsOwn' BY <1>1 DEF Begin, PInv, RestoredIsItsOwn
  <2>3. StaysDrained'
    BY <1>1 DEF Begin, PInv, StaysDrained, DroppedWhenDrained, Active, serveVars,
                mappingVars, Held
  <2> QED BY <1>1, <2>1, <2>2, <2>3 DEF Begin, PInv
<1>2. ASSUME NEW q \in Request, Accept(q) \/ BeginUnscanned(q) PROVE PInv'
  <2>1. CASE Accept(q) BY <2>1, QuietHandler DEF Accept
  <2>2. CASE BeginUnscanned(q) BY <2>2, QuietHandler DEF BeginUnscanned, Active
  <2> QED BY <1>2, <2>1, <2>2
<1>3. ASSUME NEW q \in Request, NEW r \in Real, Replace(q, r) PROVE PInv'
  <2>1. Shape'
    BY <1>3, HitShape, MintShape DEF Replace, PutOrGet, PInv
  <2>2. RestoredIsItsOwn' BY <1>3 DEF Replace, PInv, RestoredIsItsOwn
  <2>3. Active(q) BY <1>3 DEF Replace, Active
  <2>4. StaysDrained'
    BY <1>3, <2>3 DEF Replace, PInv, StaysDrained, DroppedWhenDrained, Active, serveVars
  <2> QED BY <1>3, <2>1, <2>2, <2>4 DEF Replace, PInv
<1>4. ASSUME NEW q \in Request, Forward(q) PROVE PInv'
  BY <1>4, QuietHandler DEF Forward, Active
<1>5. ASSUME NEW q \in Request, Respond(q) PROVE PInv'
  BY <1>5, QuietHandler DEF Respond, Active
<1>6. ASSUME NEW q \in Request, NEW t \in Token, Restore(q, t) PROVE PInv'
  <2> DEFINE given == IF Known(t) THEN byToken[t] ELSE Nothing
  <2>1. Shape'
    BY <1>6 DEF Restore, PInv, mappingVars, Shape, MappingTypeOK, TableConsistent, Held
  <2>2. Known(t) => given \in Real /\ TokenOf[given] = t
    BY MapsAgree DEF PInv, Known
  <2>3. given \in Real \cup {Nothing} BY <2>2
  <2> HIDE DEF given
  <2>4. shown' = [shown EXCEPT ![q] = <<t, given>>] BY <1>6 DEF Restore, given
  <2>5. shown' \in [Request -> {Nothing} \cup (Token \X (Real \cup {Nothing}))]
    BY <2>3, <2>4 DEF PInv
  <2>6. given # Nothing => TokenOf[given] = t BY <2>2 DEF given
  <2>7. RestoredIsItsOwn' BY <2>4, <2>6 DEF PInv, RestoredIsItsOwn
  <2>8. StaysDrained'
    BY <1>6 DEF Restore, PInv, StaysDrained, DroppedWhenDrained, Active, serveVars,
                mappingVars, Held
  <2> QED BY <1>6, <2>1, <2>5, <2>7, <2>8 DEF Restore, PInv
<1>7. ASSUME NEW q \in Request, End(q) PROVE PInv'
  <2>1. Shape'
    BY <1>7 DEF End, PInv, mappingVars, Shape, MappingTypeOK, TableConsistent, Held
  <2>2. RestoredIsItsOwn' BY <1>7 DEF End, PInv, RestoredIsItsOwn
  <2>3. StaysDrained'
    BY <1>7 DEF End, PInv, StaysDrained, DroppedWhenDrained, Active, serveVars,
                mappingVars, Held
  <2> QED BY <1>7, <2>1, <2>2, <2>3 DEF End, PInv
<1>8. ASSUME ServeNext PROVE PInv'
  <2>1. CASE Cancel BY <2>1, QuietServe DEF Cancel
  <2>2. CASE ParentExits BY <2>2, QuietServe DEF ParentExits
  <2>3. CASE WatchParent BY <2>3, QuietServe DEF WatchParent
  <2>4. CASE BeginShutdown BY <2>4, QuietServe DEF BeginShutdown
  <2>5. CASE Drained BY <2>5, QuietServe DEF Drained
  <2>6. CASE GraceOver BY <2>6, QuietServe DEF GraceOver
  <2>7. CASE ServeEnds BY <2>7, QuietServe DEF ServeEnds
  <2>8. CASE Return
    <3>1. Shape' BY <2>8, ResetMInv DEF Return, MInv
    <3>2. phase' = phase /\ shown' = shown /\ shutdown' = shutdown
          /\ shutdown \in {"drained", "timedout"}
      BY <2>8 DEF Return, handlerVars
    <3>3. RestoredIsItsOwn' BY <3>2 DEF PInv, RestoredIsItsOwn
    <3>4. Held' = {} /\ (DOMAIN byToken)' = {}
      BY <2>8 DEF Return, Reset, NoEntries, Held
    <3>5. StaysDrained'
      BY <3>2, <3>4 DEF PInv, StaysDrained, DroppedWhenDrained, Active
    <3> QED BY <3>1, <3>2, <3>3, <3>5 DEF PInv
  <2> QED
    BY <1>8, <2>1, <2>2, <2>3, <2>4, <2>5, <2>6, <2>7, <2>8 DEF ServeNext
<1>9. CASE UNCHANGED proxyVars
  <2>1. UNCHANGED <<mappingVars, handlerVars, serving, shutdown>>
    BY <1>9 DEF proxyVars, serveVars
  <2> QED BY <2>1, QuietServe
<1> QED
  BY <1>1, <1>2, <1>3, <1>4, <1>5, <1>6, <1>7, <1>8, <1>9 DEF ProxyNext

THEOREM ProxyInvariant == ProxySpec => []PInv
BY ProxyInitPInv, ProxyNextPInv, PTL DEF ProxySpec

\* mapping.go:14, for any number of requests sharing a table of any cap: the
\* secret a client gets for a placeholder is the one the placeholder was made of.
THEOREM NoForeignSecret == ProxySpec => []RestoredIsItsOwn
<1>1. PInv => RestoredIsItsOwn BY DEF PInv
<1> QED BY <1>1, ProxyInvariant, PTL

\* server.go:179, for any number of requests: a Serve whose shutdown drained the
\* handlers leaves no secret behind.
THEOREM DrainedServeForgets == ProxySpec => []DroppedWhenDrained
<1>1. PInv => DroppedWhenDrained BY DEF PInv, StaysDrained
<1> QED BY <1>1, ProxyInvariant, PTL

-----------------------------------------------------------------------------
(* The proxy uses the table as Mapping says, and no other way.             *)

\* A step of the proxy is one of the table's methods, or leaves the table alone.
LEMMA ProxyStepsOfTable == [ProxyNext]_proxyVars => [MappingNext]_mappingVars
<1> SUFFICES ASSUME [ProxyNext]_proxyVars, ~UNCHANGED mappingVars
             PROVE  MappingNext
  OBVIOUS
<1>1. ASSUME NEW q \in Request, NEW r \in Real, Replace(q, r) PROVE MappingNext
  BY <1>1 DEF Replace, MappingNext
<1>2. CASE Return BY <1>2 DEF Return, MappingNext
<1>3. ASSUME NEW q \in Request PROVE ~Accept(q) /\ ~BeginUnscanned(q) /\ ~Forward(q)
                                     /\ ~Respond(q) /\ ~End(q)
  BY DEF Accept, BeginUnscanned, Forward, Respond, End
<1>4. ASSUME NEW q \in Request, NEW body \in Bodies PROVE ~Begin(q, body)
  BY DEF Begin
<1>5. ASSUME NEW q \in Request, NEW t \in Token PROVE ~Restore(q, t)
  BY DEF Restore
<1>6. /\ ~Cancel /\ ~ParentExits /\ ~WatchParent /\ ~BeginShutdown
      /\ ~Drained /\ ~GraceOver /\ ~ServeEnds
  BY DEF Cancel, ParentExits, WatchParent, BeginShutdown, Drained, GraceOver, ServeEnds
<1>7. ~UNCHANGED proxyVars BY DEF proxyVars
<1> QED BY <1>1, <1>2, <1>3, <1>4, <1>5, <1>6, <1>7 DEF ProxyNext, ServeNext

\* mapping.go:16, for any number of requests: whatever the handlers do at once, the
\* table under them is Mapping's, with its types, its agreement and its eviction.
THEOREM ProxyImplementsMapping == ProxySpec => MappingSpec
<1>1. ProxyInit => MappingInit BY DEF ProxyInit
<1> QED BY <1>1, ProxyStepsOfTable, PTL DEF ProxySpec, MappingSpec

\* What a request put into the table has been cited since the table was last
\* emptied, which only happens as Serve returns.
SentIsCited ==
  serving # "returned" =>
    \A q \in Request, r \in Real : TokenOf[r] \in sent[q] => r \in DOMAIN newer

SentInv == /\ sent \in [Request -> SUBSET Token]
           /\ SentIsCited

LEMMA SentInit == ProxyInit => SentInv
BY DEF ProxyInit, SentInv, SentIsCited

\* A step that cites nothing and sends nothing.
LEMMA SentKept ==
  ASSUME SentInv, UNCHANGED <<mappingVars, sent>>, serving' = "returned" => serving = "returned",
         serving = "returned" => serving' = "returned"
  PROVE  SentInv'
BY DEF SentInv, SentIsCited, mappingVars

LEMMA SentStep == SentInv /\ [ProxyNext]_proxyVars => SentInv'
<1> SUFFICES ASSUME SentInv, [ProxyNext]_proxyVars PROVE SentInv' OBVIOUS
<1>1. ASSUME NEW q \in Request, NEW r \in Real, Replace(q, r) PROVE SentInv'
  <2>1. /\ sent' = [sent EXCEPT ![q] = @ \cup {TokenOf[r]}] /\ serving' = serving
        /\ DOMAIN newer' = DOMAIN newer \cup {r} /\ TokenOf[r] \in Token
    BY <1>1, MappingAssumption DEF Replace, PutOrGet, Cite, serveVars
  <2>2. ASSUME NEW p \in Request, NEW s \in Real, TokenOf[s] \in sent'[p], serving # "returned"
        PROVE  s \in DOMAIN newer'
    <3>1. CASE TokenOf[s] \in sent[p] BY <2>1, <2>2, <3>1 DEF SentInv, SentIsCited
    <3>2. CASE TokenOf[s] \notin sent[p]
      <4>1. TokenOf[s] = TokenOf[r] BY <2>1, <2>2, <3>2 DEF SentInv
      <4> QED BY <2>1, <4>1, MappingAssumption
    <3> QED BY <3>1, <3>2
  <2> QED BY <2>1, <2>2 DEF SentInv, SentIsCited
<1>2. ASSUME NEW q \in Request,
             \/ Accept(q) \/ BeginUnscanned(q) \/ Forward(q) \/ Respond(q) \/ End(q)
             \/ (\E body \in Bodies : Begin(q, body)) \/ \E t \in Token : Restore(q, t)
      PROVE  SentInv'
  <2>1. UNCHANGED <<mappingVars, sent, serving>>
    BY <1>2 DEF Accept, BeginUnscanned, Forward, Respond, End, Begin, Restore, serveVars
  <2> QED BY <2>1, SentKept
<1>3. CASE Return
  BY <1>3 DEF Return, SentInv, SentIsCited, handlerVars
<1>4. CASE Cancel \/ ParentExits \/ WatchParent \/ BeginShutdown \/ Drained \/ GraceOver \/ ServeEnds
  <2>1. UNCHANGED <<mappingVars, sent>> /\ (serving' = serving \/ (serving = "accept" /\ serving' = "stopping"))
    BY <1>4 DEF Cancel, ParentExits, WatchParent, BeginShutdown, Drained, GraceOver, ServeEnds,
                handlerVars
  <2> QED BY <2>1, SentKept
<1>5. CASE UNCHANGED proxyVars
  BY <1>5, SentKept DEF proxyVars, handlerVars, serveVars
<1> QED BY <1>1, <1>2, <1>3, <1>4, <1>5 DEF ProxyNext, ServeNext

\* mapping.go:16, for any number of requests and any cap: while the proxy serves, the
\* placeholder a request was sent with comes back as its secret, unless Cap other
\* secrets were cited meanwhile.
THEOREM OwnSecretsComeBack == ProxySpec => OwnPlaceholderRestored
<1>1. ASSUME PInv, MInv, SentInv, NEW q \in Request, NEW r \in Real,
             Restore(q, TokenOf[r]), TokenOf[r] \in sent[q], serving # "returned",
             Cap = 0 \/ Cardinality(newer[r]) < Cap
      PROVE  shown'[q] = <<TokenOf[r], r>>
  <2>1. r \in DOMAIN newer BY <1>1 DEF SentInv, SentIsCited
  <2>2. r \in Held BY <1>1, <2>1, RecentAreHeld DEF HeldAreTheRecent
  <2>3. TokenOf[r] \in DOMAIN byToken /\ byToken[TokenOf[r]] = r
    BY <1>1, <2>2, MapsAgree DEF PInv
  <2> QED BY <1>1, <2>3 DEF Restore, Known, PInv
<1>2. PInv /\ MInv /\ SentInv /\ [ProxyNext]_proxyVars =>
        [\A q \in Request : \A r \in Real :
           /\ Restore(q, TokenOf[r])
           /\ TokenOf[r] \in sent[q]
           /\ serving # "returned"
           /\ Cap = 0 \/ Cardinality(newer[r]) < Cap
           => shown'[q] = <<TokenOf[r], r>>]_proxyVars
  BY <1>1
<1>3. ProxySpec => []MInv BY ProxyImplementsMapping, MappingInvariant, PTL
<1>4. ProxySpec => []SentInv BY SentInit, SentStep, PTL DEF ProxySpec
<1> QED BY <1>2, <1>3, <1>4, ProxyInvariant, PTL DEF ProxySpec, OwnPlaceholderRestored

-----------------------------------------------------------------------------
(* Recursion and induction from the end of a text to its start.            *)

\* A set of positions that has the end, and each position that all later ones are with.
LEMMA InductionDown ==
  ASSUME NEW N \in Nat, NEW S, N + 1 \in S,
         \A i \in 1..N : (\A j \in (i + 1)..(N + 1) : j \in S) => i \in S
  PROVE  \A i \in 1..(N + 1) : i \in S
<1> DEFINE M == {i \in 1..N : i \notin S}
<1>1. SUFFICES ASSUME M # {}  PROVE  FALSE
  <2>1. \A i \in 1..(N + 1) : i = N + 1 \/ i \in 1..N
    OBVIOUS
  <2>. QED
    BY <1>1, <2>1
<1>2. M \in SUBSET (0..N)
  OBVIOUS
<1>3. PICK g : g \in M /\ \A y \in M : y <= g
  <2>. HIDE DEF M
  <2>. QED
    BY <1>1, <1>2, GreatestExists
<1>4. ASSUME NEW j \in (g + 1)..(N + 1)  PROVE  j \in S
  <2>1. j = N + 1 \/ j \in 1..N
    BY <1>3
  <2>2. ASSUME j \in 1..N, j \notin S  PROVE  FALSE
    <3>1. j <= g
      BY <1>3, <2>2
    <3>. QED
      BY <1>3, <3>1
  <2>. QED
    BY <2>1, <2>2
<1>. QED
  BY <1>3, <1>4

FollowsDown(f, N, a, next, make) ==
  f[N + 1] = a /\ \A i \in 1..N : f[i] = make[i][f[next[i]]]

\* A function that says of each position what to make of what it says of a later one.
LEMMA RecursionDown ==
  ASSUME NEW T, NEW N \in Nat, NEW a \in T, NEW next \in [1..N -> 1..(N + 1)],
         \A i \in 1..N : next[i] > i, NEW make \in [1..N -> [T -> T]]
  PROVE  \E f \in [1..(N + 1) -> T] : FollowsDown(f, N, a, next, make)
<1> DEFINE F == [1..(N + 1) -> T]
           Set(g, i) == [g EXCEPT ![i] = make[i][g[next[i]]]]
           step == [n \in 1..N |-> [g \in F |-> Set(g, N + 1 - n)]]
           none == [i \in 1..(N + 1) |-> a]
<1>1. none \in F
  OBVIOUS
<1>2. ASSUME NEW g \in F, NEW i \in 1..N  PROVE  Set(g, i) \in F
  OBVIOUS
<1>3. step \in [1..N -> [F -> F]]
  <2>1. ASSUME NEW n \in 1..N  PROVE  [g \in F |-> Set(g, N + 1 - n)] \in [F -> F]
    <3>1. N + 1 - n \in 1..N
      OBVIOUS
    <3>. HIDE DEF F, Set
    <3>. QED
      BY <1>2, <3>1
  <2>. HIDE DEF F, Set
  <2>. QED
    BY <2>1
<1>4. PICK s \in [0..N -> F] : Follows(s, N, none, step)
  <2>. HIDE DEF F, step, none
  <2>. QED
    BY <1>1, <1>3, RecursionExists
<1>5. s[0] = none /\ \A n \in 1..N : s[n - 1] \in F /\ s[n] = Set(s[n - 1], N + 1 - n)
  <2>1. s[0] = none /\ \A n \in 1..N : s[n] = step[n][s[n - 1]]
    BY <1>4 DEF Follows
  <2>2. \A n \in 1..N : n - 1 \in 0..N
    OBVIOUS
  <2>. HIDE DEF F, Set, none
  <2>. QED
    BY <2>1, <2>2
<1> DEFINE Done(n) == /\ s[n] \in F /\ s[n][N + 1] = a
                      /\ \A i \in 1..N : i >= N + 1 - n => s[n][i] = make[i][s[n][next[i]]]
           S == {n \in Nat : n <= N => Done(n)}
<1>6. 0 \in S
  BY <1>5
<1>7. ASSUME NEW n \in S  PROVE  n + 1 \in S
  <2>1. SUFFICES ASSUME n + 1 <= N  PROVE  Done(n + 1)
    OBVIOUS
  <2>2. n \in Nat /\ Done(n)
    BY <2>1
  <2>3. PICK g, p : g = s[n] /\ p = N - n
    OBVIOUS
  <2>4. p \in 1..N /\ g \in F /\ s[n + 1] = Set(g, p) /\ g[N + 1] = a
        /\ \A i \in 1..N : i > p => g[i] = make[i][g[next[i]]]
    <3>1. n + 1 \in 1..N /\ (n + 1) - 1 = n /\ N + 1 - (n + 1) = N - n
      BY <2>1, <2>2
    <3>2. p \in 1..N
      BY <2>1, <2>2, <2>3
    <3>3. \A i \in 1..N : i > p => i >= N + 1 - n
      BY <2>2, <2>3
    <3>. HIDE DEF F, Set
    <3>. QED
      BY <1>5, <2>2, <2>3, <3>1, <3>2, <3>3
  <2>5. PICK h : h = Set(g, p)
    OBVIOUS
  <2>6. /\ h \in F /\ h[p] = make[p][g[next[p]]]
        /\ \A i \in 1..(N + 1) : i # p => h[i] = g[i]
    BY <2>4, <2>5
  <2>7. h[N + 1] = a
    BY <2>4, <2>6
  <2>8. ASSUME NEW i \in 1..N, i >= p  PROVE  h[i] = make[i][h[next[i]]]
    <3>1. next[i] \in 1..(N + 1) /\ next[i] > p
      BY <2>4, <2>8
    <3>2. h[next[i]] = g[next[i]]
      BY <2>4, <2>6, <3>1
    <3>3. CASE i = p
      BY <2>6, <3>2, <3>3
    <3>4. CASE i > p
      BY <2>4, <2>6, <3>2, <3>4
    <3>. QED
      BY <2>4, <2>8, <3>3, <3>4
  <2>9. s[n + 1] = h /\ \A i \in 1..N : i >= N + 1 - (n + 1) => i >= p
    BY <2>2, <2>3, <2>4, <2>5
  <2>. HIDE DEF F
  <2>. QED
    BY <2>6, <2>7, <2>8, <2>9
<1>8. S = Nat
  <2>. HIDE DEF S
  <2>1. S \in SUBSET Nat
    BY DEF S
  <2>. QED
    BY <1>6, <1>7, <2>1, InductionOnNat
<1>9. Done(N)
  <2>1. N \in S
    BY <1>8
  <2>. HIDE DEF Done
  <2>. QED
    BY <2>1
<1>10. \A i \in 1..N : i >= N + 1 - N
  OBVIOUS
<1>11. s[N] \in F /\ s[N][N + 1] = a /\ \A i \in 1..N : s[N][i] = make[i][s[N][next[i]]]
  BY <1>9, <1>10
<1>. QED
  BY <1>11 DEF FollowsDown

-----------------------------------------------------------------------------
(* Finding: what one detector makes of a text.                             *)

\* What a text consists of: characters, and placeholders of the keys there were.
Keys == 1..(MaxStarts + 1)
Tokens == {Made} \cup {Placeholder(k, w) : k \in Keys, w \in Secrets}
Atom == Char \cup Tokens
Strings == Seq(Atom)

Match == [start : Nat, end : Nat, by : Nat]
MatchOf(i, j, d) == [start |-> i, end |-> j, by |-> d]

\* A placeholder is no character.
LEMMA TokensAreNoChars == \A a \in Atom : IsPlaceholder(a) <=> a \in Tokens
<1>1. MaxStarts \in Nat
  BY ConversationAssumption
<1>2. \A k \in 0..(MaxStarts + 1), w \in Secrets \cup {<< >>} : IsPlaceholder(Placeholder(k, w))
  BY ConversationAssumption
<1>3. 0 \in 0..(MaxStarts + 1) /\ \A k \in Keys : k \in 0..(MaxStarts + 1)
  BY <1>1 DEF Keys
<1>4. IsPlaceholder(Made) /\ \A k \in Keys, w \in Secrets : IsPlaceholder(Placeholder(k, w))
  BY <1>2, <1>3 DEF Made
<1>5. \A a \in Tokens : IsPlaceholder(a)
  BY <1>4 DEF Tokens
<1>. QED
  BY <1>5 DEF Atom, IsPlaceholder

\* What an expression takes is a text of characters, not empty.
LEMMA WordsAre ==
  ASSUME NEW d \in 1..Len(Detectors), NEW w \in Detectors[d].words
  PROVE  /\ w \in Seq(Char) /\ Len(w) \in Nat /\ Len(w) >= 1 /\ DOMAIN w = 1..Len(w)
         /\ \A n \in 1..Len(w) : w[n] \in Char
<1>1. w \in Seq(Char) /\ w # << >>
  BY DetectorsAssumption
<1>2. Len(w) \in Nat /\ DOMAIN w = 1..Len(w) /\ \A n \in 1..Len(w) : w[n] \in Char
  BY <1>1
<1>3. Len(w) >= 1
  BY <1>1, <1>2
<1>. QED
  BY <1>1, <1>2, <1>3

\* So is a secret.
LEMMA SecretsAre ==
  ASSUME NEW d \in 1..Len(Detectors), NEW w \in Detectors[d].valid
  PROVE  w \in Detectors[d].words /\ w \in Secrets
  BY DetectorsAssumption DEF Secrets

\* The greatest of the lengths that fit.
LEMMA LongestIs ==
  ASSUME NEW t \in Strings, NEW d \in 1..Len(Detectors), NEW i \in 1..Len(t)
  PROVE  LET n == Longest(t, d, i)
         IN  /\ n \in Nat /\ i + n <= Len(t) + 1
             /\ n > 0 => SubSeq(t, i, i + n - 1) \in Detectors[d].words
             /\ \A l \in 1..(Len(t) + 1 - i) : SubSeq(t, i, i + l - 1) \in Detectors[d].words => l <= n
<1> DEFINE W == Detectors[d].words
           N == Len(t) + 1 - i
           S == {n \in 1..N : SubSeq(t, i, i + n - 1) \in W}
           Z == S \cup {0}
<1>1. Len(t) \in Nat /\ N \in Nat
  BY DEF Strings
<1>2. Z \in SUBSET (0..N) /\ Z # {}
  BY <1>1
<1>3. Greatest(Z) \in Z /\ \A y \in Z : y <= Greatest(Z)
  <2>. HIDE DEF Z, N
  <2>. QED
    BY <1>1, <1>2, GreatestExists
<1>4. Greatest(Z) = Max(Z)
  <2>1. \A x \in Z, y \in Z : y <= x <=> x >= y
    BY <1>1, <1>2
  <2>. HIDE DEF Z
  <2>2. \A x \in Z : (\A y \in Z : y <= x) <=> (\A y \in Z : x >= y)
    BY <2>1
  <2>. QED
    BY <2>2 DEF Greatest, Max
<1>5. Longest(t, d, i) = Max(Z)
  BY DEF Longest
<1>6. PICK n : n = Longest(t, d, i)
  OBVIOUS
<1>7. n \in Z /\ \A y \in Z : y <= n
  BY <1>3, <1>4, <1>5, <1>6
<1>8. n \in Nat /\ i + n <= Len(t) + 1
  BY <1>1, <1>2, <1>7
<1>9. n > 0 => SubSeq(t, i, i + n - 1) \in W
  BY <1>7
<1>10. \A l \in 1..N : SubSeq(t, i, i + l - 1) \in W => l <= n
  BY <1>7
<1>. QED
  BY <1>6, <1>8, <1>9, <1>10

Steps(h, d, i, n) == h[i] = IF n = 0 THEN h[i + 1] ELSE {MatchOf(i, i + n, d)} \cup h[i + n]

\* The function that finds from each position on, by its two cases.
LEMMA HitsIs ==
  ASSUME NEW t \in Strings, NEW d \in 1..Len(Detectors)
  PROVE  /\ Hits(t, d) \in [1..(Len(t) + 1) -> SUBSET Match] /\ Hits(t, d)[Len(t) + 1] = {}
         /\ \A i \in 1..Len(t) : Steps(Hits(t, d), d, i, Longest(t, d, i))
<1> DEFINE N == Len(t)
           l == [i \in 1..N |-> Longest(t, d, i)]
           T == SUBSET Match
           next == [i \in 1..N |-> IF l[i] = 0 THEN i + 1 ELSE i + l[i]]
           make == [i \in 1..N |-> [x \in T |-> IF l[i] = 0 THEN x ELSE {MatchOf(i, i + l[i], d)} \cup x]]
           Is(g) == g = [i \in 1..(N + 1) |->
                           IF i > N THEN {}
                           ELSE LET n == Longest(t, d, i)
                                IN  IF n = 0 THEN g[i + 1] ELSE {MatchOf(i, i + n, d)} \cup g[i + n]]
<1>1. N \in Nat /\ {} \in T /\ d \in Nat
  BY DetectorsAssumption DEF Strings
<1>2. \A i \in 1..N : l[i] = Longest(t, d, i) /\ l[i] \in Nat /\ i + l[i] <= N + 1
  BY LongestIs
<1>. HIDE DEF l
<1>3. next \in [1..N -> 1..(N + 1)] /\ \A i \in 1..N : next[i] > i
  <2>1. ASSUME NEW i \in 1..N  PROVE  next[i] \in 1..(N + 1) /\ next[i] > i
    BY <1>1, <1>2
  <2>. HIDE DEF N
  <2>. QED
    BY <2>1
<1>4. make \in [1..N -> [T -> T]]
  <2>1. ASSUME NEW i \in 1..N, NEW x \in T
        PROVE  (IF l[i] = 0 THEN x ELSE {MatchOf(i, i + l[i], d)} \cup x) \in T
    <3>1. MatchOf(i, i + l[i], d) \in Match
      BY <1>1, <1>2 DEF MatchOf, Match
    <3>. QED
      BY <3>1
  <2>. HIDE DEF N, T
  <2>. QED
    BY <2>1
<1>5. PICK f \in [1..(N + 1) -> T] : f[N + 1] = {} /\ \A i \in 1..N : f[i] = make[i][f[next[i]]]
  <2>. HIDE DEF N, T, next, make
  <2>1. \E f \in [1..(N + 1) -> T] : FollowsDown(f, N, {}, next, make)
    BY <1>1, <1>3, <1>4, RecursionDown
  <2>. QED
    BY <2>1 DEF FollowsDown
<1>6. ASSUME NEW i \in 1..N
      PROVE  f[i] = IF l[i] = 0 THEN f[i + 1] ELSE {MatchOf(i, i + l[i], d)} \cup f[i + l[i]]
  <2>1. next[i] \in 1..(N + 1) /\ f[next[i]] \in T
    <3>. HIDE DEF N, T, next
    <3>. QED
      BY <1>3, <1>5
  <2>2. f[i] = IF l[i] = 0 THEN f[next[i]] ELSE {MatchOf(i, i + l[i], d)} \cup f[next[i]]
    <3>. HIDE DEF N, T, next
    <3>. QED
      BY <1>5, <2>1
  <2>3. next[i] = IF l[i] = 0 THEN i + 1 ELSE i + l[i]
    OBVIOUS
  <2>. HIDE DEF N, T, next, make
  <2>. QED
    BY <2>2, <2>3
<1>7. Is(f)
  <2>1. \A i \in 1..(N + 1) : (i > N <=> i = N + 1) /\ (i <= N => i \in 1..N)
    BY <1>1
  <2>2. ASSUME NEW i \in 1..(N + 1)
        PROVE  f[i] = IF i > N THEN {}
                      ELSE LET n == Longest(t, d, i)
                           IN  IF n = 0 THEN f[i + 1] ELSE {MatchOf(i, i + n, d)} \cup f[i + n]
    <3>1. CASE i > N
      BY <1>5, <2>1, <3>1
    <3>2. CASE ~(i > N)
      <4>1. i \in 1..N
        BY <1>1, <3>2
      <4>. HIDE DEF N, T, next, make
      <4>. QED
        BY <1>2, <1>6, <3>2, <4>1
    <3>. QED
      BY <3>1, <3>2
  <2>. HIDE DEF N, T, next, make
  <2>. QED
    BY <1>5, <2>2
<1>8. Hits(t, d) = CHOOSE g : Is(g)
  BY DEF Hits, MatchOf
<1>9. Is(Hits(t, d))
  <2>. HIDE DEF Is
  <2>. QED
    BY <1>7, <1>8
<1>10. PICK h : h = Hits(t, d)
  OBVIOUS
<1>11. h = [i \in 1..(N + 1) |->
             IF i > N THEN {}
             ELSE LET n == Longest(t, d, i)
                  IN  IF n = 0 THEN h[i + 1] ELSE {MatchOf(i, i + n, d)} \cup h[i + n]]
  BY <1>9, <1>10, Zenon
<1>12. h[N + 1] = {} /\ \A i \in 1..N : h[i] = IF l[i] = 0 THEN h[i + 1] ELSE {MatchOf(i, i + l[i], d)} \cup h[i + l[i]]
  <2>1. N + 1 \in 1..(N + 1) /\ N + 1 > N /\ \A i \in 1..N : i \in 1..(N + 1) /\ ~(i > N)
    BY <1>1
  <2>. HIDE DEF N, T, next, make, Is
  <2>2. \A i \in 1..(N + 1) : h[i] = IF i > N THEN {} ELSE LET n == Longest(t, d, i)
                  IN  IF n = 0 THEN h[i + 1] ELSE {MatchOf(i, i + n, d)} \cup h[i + n]
    BY <1>11
  <2>3. h[N + 1] = {}
    BY <2>1, <2>2
  <2>4. ASSUME NEW i \in 1..N
        PROVE  h[i] = IF l[i] = 0 THEN h[i + 1] ELSE {MatchOf(i, i + l[i], d)} \cup h[i + l[i]]
    <3>1. i \in 1..(N + 1) /\ ~(i > N) /\ l[i] = Longest(t, d, i)
      BY <1>2, <2>1
    <3>. QED
      BY <2>2, <3>1
  <2>. QED
    BY <2>3, <2>4
<1>13. \A i \in 1..(N + 1) : h[i] \in T
  <2> DEFINE S == {i \in 1..(N + 1) : h[i] \in T}
  <2>1. N + 1 \in S
    BY <1>1, <1>12
  <2>2. ASSUME NEW i \in 1..N, \A j \in (i + 1)..(N + 1) : j \in S  PROVE  i \in S
    <3>1. l[i] \in Nat /\ i + l[i] <= N + 1 /\ i \in 1..(N + 1) /\ i + 1 \in (i + 1)..(N + 1)
      BY <1>1, <1>2
    <3>2. CASE l[i] = 0
      BY <1>12, <2>2, <3>1, <3>2
    <3>3. CASE l[i] # 0
      <4>1. i + l[i] \in (i + 1)..(N + 1) /\ MatchOf(i, i + l[i], d) \in Match
        BY <1>1, <3>1, <3>3 DEF MatchOf, Match
      <4>2. h[i + l[i]] \in T
        BY <2>2, <4>1
      <4>. QED
        BY <1>12, <3>1, <3>3, <4>1, <4>2
    <3>. QED
      BY <3>2, <3>3
  <2>. HIDE DEF S
  <2>3. \A i \in 1..(N + 1) : i \in S
    <3>. HIDE DEF N
    <3>. QED
      BY <1>1, <2>1, <2>2, InductionDown
  <2>. QED
    BY <2>3 DEF S
<1>14. h \in [1..(N + 1) -> T]
  <2>1. DOMAIN h = 1..(N + 1) /\ h = [i \in 1..(N + 1) |-> h[i]]
    <3>1. DOMAIN h = 1..(N + 1)
      BY <1>11
    <3>. HIDE DEF N
    <3>2. h = [i \in DOMAIN h |-> h[i]]
      BY <1>11
    <3>. QED
      BY <3>1, <3>2
  <2>. HIDE DEF N, T
  <2>. QED
    BY <1>13, <2>1
<1>15. \A i \in 1..N : Steps(h, d, i, Longest(t, d, i))
  <2>. HIDE DEF N
  <2>. QED
    BY <1>2, <1>12 DEF Steps
<1>. QED
  BY <1>10, <1>12, <1>14, <1>15

\* One step of it, without the record of its cases.
LEMMA HitsStep ==
  ASSUME NEW t \in Strings, NEW d \in 1..Len(Detectors), NEW i \in 1..Len(t)
  PROVE  Steps(Hits(t, d), d, i, Longest(t, d, i))
  BY HitsIs

\* A part of a text, letter by letter.
LEMMA SubSeqIs ==
  ASSUME NEW t \in Strings, NEW i \in 1..Len(t), NEW j \in i..Len(t)
  PROVE  /\ SubSeq(t, i, j) \in Strings /\ Len(SubSeq(t, i, j)) = j - i + 1
         /\ \A k \in 1..(j - i + 1) : SubSeq(t, i, j)[k] = t[i + k - 1]
  BY DEF Strings

\* The letters of what an expression takes are those of the text.
LEMMA TakenIs ==
  ASSUME NEW t \in Strings, NEW d \in 1..Len(Detectors), NEW i \in 1..Len(t), NEW n \in Nat, n > 0,
         i + n <= Len(t) + 1, SubSeq(t, i, i + n - 1) \in Detectors[d].words
  PROVE  \A j \in i..(i + n - 1) : t[j] \in Char
<1>1. PICK e, w : e = i + n - 1 /\ w = SubSeq(t, i, e)
  OBVIOUS
<1>2. Len(t) \in Nat /\ e \in i..Len(t) /\ e - i + 1 = n
  BY <1>1 DEF Strings
<1>3. Len(w) = n /\ \A k \in 1..n : w[k] = t[i + k - 1]
  BY <1>1, <1>2, SubSeqIs
<1>4. \A k \in 1..n : w[k] \in Char
  BY <1>1, <1>3, WordsAre
<1>. SUFFICES ASSUME NEW j \in i..e  PROVE  t[j] \in Char
  BY <1>1
<1>5. PICK k : k = j - i + 1
  OBVIOUS
<1>6. k \in 1..n /\ i + k - 1 = j
  BY <1>2, <1>5
<1>. QED
  BY <1>3, <1>4, <1>6

LongHit(t, d, j) == MatchOf(j, j + Longest(t, d, j), d)

\* What a detector finds from a position on begins there or later.
LEMMA HitsAre ==
  ASSUME NEW t \in Strings, NEW d \in 1..Len(Detectors), NEW i \in 1..(Len(t) + 1), NEW m \in Hits(t, d)[i]
  PROVE  \E j \in i..Len(t) : Longest(t, d, j) > 0 /\ m = LongHit(t, d, j)
<1>1. PICK N, h : N = Len(t) /\ h = Hits(t, d)
  OBVIOUS
<1>2. /\ N \in Nat /\ h[N + 1] = {}
  <2>1. N \in Nat
    BY <1>1 DEF Strings
  <2>2. /\ Hits(t, d)[Len(t) + 1] = {}
    BY HitsIs
  <2>. QED
    BY <1>1, <2>1, <2>2
<1> DEFINE Long(j, o) == Longest(t, d, j) > 0 /\ o = LongHit(t, d, j)
           S == {k \in 1..(N + 1) : \A o \in h[k] : \E j \in k..N : Long(j, o)}
<1>3. N + 1 \in S
  BY <1>2
<1>4. ASSUME NEW k \in 1..N, \A j \in (k + 1)..(N + 1) : j \in S  PROVE  k \in S
  <2>1. SUFFICES ASSUME NEW o \in h[k]  PROVE  \E j \in k..N : Long(j, o)
    BY <1>2
  <2>2. PICK n : n = Longest(t, d, k)
    OBVIOUS
  <2>3. n \in Nat /\ k + n <= N + 1 /\ h[k] = IF n = 0 THEN h[k + 1] ELSE {MatchOf(k, k + n, d)} \cup h[k + n]
    <3>1. Steps(Hits(t, d), d, k, Longest(t, d, k))
      BY <1>1, HitsStep
    <3>2. n \in Nat /\ k + n <= N + 1
      BY <1>1, <2>2, LongestIs
    <3>. QED
      BY <1>1, <2>2, <3>1, <3>2 DEF Steps
  <2>4. ASSUME NEW l \in (k + 1)..(N + 1), o \in h[l]  PROVE  \E j \in k..N : Long(j, o)
    <3>1. \A x \in h[l] : \E j \in l..N : Long(j, x)
      BY <1>4
    <3>. HIDE DEF S, Long
    <3>2. PICK j \in l..N : Long(j, o)
      BY <2>4, <3>1
    <3>3. j \in k..N
      BY <1>2, <3>2
    <3>. QED
      BY <3>2, <3>3
  <2>5. CASE n = 0
    <3>1. k + 1 \in (k + 1)..(N + 1) /\ o \in h[k + 1]
      BY <1>2, <2>1, <2>3, <2>5
    <3>. HIDE DEF S, Long
    <3>. QED
      BY <2>4, <3>1
  <2>6. CASE n > 0 /\ o = MatchOf(k, k + n, d)
    <3>1. k \in k..N
      BY <1>2
    <3>. QED
      BY <2>2, <2>6, <3>1 DEF LongHit
  <2>7. CASE n > 0 /\ o \in h[k + n]
    <3>1. k + n \in (k + 1)..(N + 1)
      BY <1>2, <2>3, <2>7
    <3>. HIDE DEF S, Long
    <3>. QED
      BY <2>4, <2>7, <3>1
  <2>. HIDE DEF S, Long
  <2>. QED
    BY <2>1, <2>3, <2>5, <2>6, <2>7
<1>5. i \in S
  <2>1. \A k \in 1..(N + 1) : k \in S
    <3>. HIDE DEF S
    <3>. QED
      BY <1>2, <1>3, <1>4, InductionDown
  <2>. HIDE DEF S
  <2>. QED
    BY <1>1, <2>1
<1>6. \E j \in i..N : Long(j, m)
  BY <1>1, <1>5
<1>. QED
  BY <1>1, <1>6

\* What a detector finds is a secret, of characters.
LEMMA FoundIs ==
  ASSUME NEW t \in Strings, NEW d \in 1..Len(Detectors), NEW m \in Find(t, d)
  PROVE  /\ m \in Match /\ m.by = d /\ m = MatchOf(m.start, m.end, d)
         /\ m.start \in 1..Len(t) /\ m.end \in (m.start + 1)..(Len(t) + 1)
         /\ Span(t, m) \in Detectors[d].valid
         /\ \A j \in m.start..(m.end - 1) : t[j] \in Char
<1>1. m \in Hits(t, d)[1] /\ Span(t, m) \in Detectors[d].valid
  BY DEF Find
<1>2. Len(t) \in Nat /\ d \in Nat /\ 1 \in 1..(Len(t) + 1)
  BY DetectorsAssumption DEF Strings
<1>3. PICK j \in 1..Len(t) : Longest(t, d, j) > 0 /\ m = LongHit(t, d, j)
  BY <1>1, <1>2, HitsAre
<1>4. PICK n : n = Longest(t, d, j)
  OBVIOUS
<1>5. /\ n \in Nat /\ n > 0 /\ j + n <= Len(t) + 1 /\ m = MatchOf(j, j + n, d)
      /\ SubSeq(t, j, j + n - 1) \in Detectors[d].words
  BY <1>3, <1>4, LongestIs DEF LongHit
<1>6. m.start = j /\ m.end = j + n /\ m.by = d
  BY <1>5 DEF MatchOf
<1>7. \A k \in j..(j + n - 1) : t[k] \in Char
  BY <1>5, TakenIs
<1>8. m \in Match
  BY <1>2, <1>5 DEF Match, MatchOf
<1>9. m.start \in 1..Len(t) /\ m.end \in (m.start + 1)..(Len(t) + 1)
  BY <1>2, <1>5, <1>6
<1>. QED
  BY <1>1, <1>5, <1>6, <1>7, <1>8, <1>9

-----------------------------------------------------------------------------
(* Where a secret stands, its detector takes it, or text that reaches over *)
(* one of its ends.                                                        *)

LEMMA MatchIs ==
  \A i, j, d, k, l, e : /\ MatchOf(i, j, d).start = i /\ MatchOf(i, j, d).end = j /\ MatchOf(i, j, d).by = d
                        /\ MatchOf(i, j, d) = MatchOf(k, l, e) => i = k /\ j = l /\ d = e
  BY DEF MatchOf

\* A hit lies in the text.
LEMMA HitBounds ==
  ASSUME NEW t \in Strings, NEW d \in 1..Len(Detectors), NEW m \in Hits(t, d)[1]
  PROVE  /\ m.start \in 1..Len(t) /\ m.end \in (m.start + 1)..(Len(t) + 1)
         /\ m = MatchOf(m.start, m.end, d) /\ m.end = m.start + Longest(t, d, m.start)
<1>1. Len(t) \in Nat /\ 1 \in 1..(Len(t) + 1)
  BY DEF Strings
<1>2. PICK j \in 1..Len(t) : Longest(t, d, j) > 0 /\ m = LongHit(t, d, j)
  BY <1>1, HitsAre
<1>3. PICK n : n = Longest(t, d, j)
  OBVIOUS
<1>4. n \in Nat /\ n > 0 /\ j + n <= Len(t) + 1 /\ m = MatchOf(j, j + n, d)
  BY <1>2, <1>3, LongestIs DEF LongHit
<1>5. m.start = j /\ m.end = j + n
  BY <1>4, MatchIs
<1>. QED
  BY <1>1, <1>3, <1>4, <1>5

Crosses(m, a) == m.start < a /\ a < m.end

\* If no hit crosses a position, what is found from there on is found from the start.
LEMMA HitsVisited ==
  ASSUME NEW t \in Strings, NEW d \in 1..Len(Detectors), NEW a \in 1..Len(t),
         \A m \in Hits(t, d)[1] : ~Crosses(m, a)
  PROVE  Hits(t, d)[a] \subseteq Hits(t, d)[1]
<1>1. PICK N, h : N = a - 1 /\ h = Hits(t, d)
  OBVIOUS
<1>2. N \in Nat /\ N + 1 = a /\ a \in 1..Len(t) /\ Len(t) \in Nat
  BY <1>1 DEF Strings
<1> DEFINE Visits(i) == (\A m \in h[i] : ~Crosses(m, a)) => h[a] \subseteq h[i]
           S == {i \in 1..a : Visits(i)}
<1>3. N + 1 \in S
  BY <1>2
<1>4. ASSUME NEW i \in 1..N, \A j \in (i + 1)..(N + 1) : j \in S  PROVE  i \in S
  <2>1. SUFFICES ASSUME \A m \in h[i] : ~Crosses(m, a)  PROVE  h[a] \subseteq h[i]
    BY <1>2
  <2>2. PICK n : n = Longest(t, d, i)
    OBVIOUS
  <2>3. n \in Nat /\ h[i] = IF n = 0 THEN h[i + 1] ELSE {MatchOf(i, i + n, d)} \cup h[i + n]
    <3>1. i \in 1..Len(t)
      BY <1>2
    <3>2. Steps(Hits(t, d), d, i, Longest(t, d, i)) /\ n \in Nat
      BY <2>2, <3>1, HitsStep, LongestIs
    <3>. QED
      BY <1>1, <2>2, <3>2 DEF Steps
  <2>4. \A j \in (i + 1)..(N + 1) : Visits(j)
    BY <1>4
  <2>. HIDE DEF Visits, S
  <2>5. CASE n = 0
    <3>1. h[i] = h[i + 1] /\ Visits(i + 1)
      BY <1>2, <2>3, <2>4, <2>5
    <3>. QED
      BY <2>1, <3>1 DEF Visits
  <2>6. CASE n > 0
    <3>1. h[i] = {MatchOf(i, i + n, d)} \cup h[i + n]
      BY <2>3, <2>6
    <3>2. ~Crosses(MatchOf(i, i + n, d), a)
      BY <2>1, <3>1
    <3>3. i + n <= a
      BY <1>2, <2>3, <2>6, <3>2, MatchIs DEF Crosses
    <3>4. Visits(i + n)
      BY <1>2, <2>3, <2>4, <2>6, <3>3
    <3>. QED
      BY <2>1, <3>1, <3>4 DEF Visits
  <2>. QED
    BY <2>3, <2>5, <2>6
<1>5. 1 \in S
  <2>1. \A i \in 1..(N + 1) : i \in S
    <3>. HIDE DEF S
    <3>. QED
      BY <1>2, <1>3, <1>4, InductionDown
  <2>. HIDE DEF S
  <2>. QED
    BY <1>2, <2>1
<1>. QED
  BY <1>1, <1>5

\* Where a secret stands, its detector takes it whole, or a hit reaches over an end.
LEMMA HitsStanding ==
  ASSUME NEW t \in Strings, NEW d \in 1..Len(Detectors), NEW w \in Detectors[d].valid,
         NEW a \in 1..Len(t), StandsAt(t, w, a)
  PROVE  \/ MatchOf(a, a + Len(w), d) \in Find(t, d)
         \/ \E h \in Hits(t, d)[1] : Reaches(h, a, a + Len(w))
<1>1. PICK L, n : L = Len(w) /\ n = Longest(t, d, a)
  OBVIOUS
<1>2. /\ L \in Nat /\ L >= 1 /\ Len(t) \in Nat /\ a + L <= Len(t) + 1
      /\ SubSeq(t, a, a + L - 1) = w /\ w \in Detectors[d].words
  BY <1>1, SecretsAre, WordsAre DEF StandsAt, Strings
<1>3. /\ n \in Nat /\ a + n <= Len(t) + 1 /\ L <= n
  <2>1. L \in 1..(Len(t) + 1 - a)
    BY <1>2
  <2>. QED
    BY <1>1, <1>2, <2>1, LongestIs
<1>4. CASE \E m \in Hits(t, d)[1] : Crosses(m, a)
  <2>1. PICK m \in Hits(t, d)[1] : Crosses(m, a)
    BY <1>4
  <2>2. m.start \in Nat /\ m.end \in Nat
    BY <1>2, <2>1, HitBounds
  <2>3. Reaches(m, a, a + L)
    BY <1>2, <2>1, <2>2 DEF Crosses, Reaches
  <2>. QED
    BY <1>1, <2>3
<1>5. CASE \A m \in Hits(t, d)[1] : ~Crosses(m, a)
  <2>1. MatchOf(a, a + n, d) \in Hits(t, d)[1]
    <3>1. Steps(Hits(t, d), d, a, n)
      BY <1>1, HitsStep
    <3>2. MatchOf(a, a + n, d) \in Hits(t, d)[a]
      BY <1>2, <1>3, <3>1 DEF Steps
    <3>. QED
      BY <1>5, <3>2, HitsVisited
  <2>2. PICK m : m = MatchOf(a, a + n, d)
    OBVIOUS
  <2>3. m \in Hits(t, d)[1] /\ m.start = a /\ m.end = a + n
    BY <2>1, <2>2, MatchIs
  <2>4. CASE n > L
    <3>1. Reaches(m, a, a + L)
      BY <1>2, <1>3, <2>3, <2>4 DEF Reaches
    <3>. QED
      BY <1>1, <2>3, <3>1
  <2>5. CASE n = L
    <3>1. m.end - 1 = a + L - 1
      BY <1>2, <2>3, <2>5
    <3>2. Span(t, m) = w
      BY <1>2, <2>3, <3>1 DEF Span
    <3>3. m \in Find(t, d)
      BY <2>3, <3>2 DEF Find
    <3>. QED
      BY <1>1, <2>2, <2>5, <3>3
  <2>. QED
    BY <1>2, <1>3, <2>4, <2>5
<1>. QED
  BY <1>4, <1>5

-----------------------------------------------------------------------------
(* Scanning: which of the matches are kept.                                *)

Bounded(n) == {m \in Match : m.start < m.end /\ m.end <= n}

\* Matches within a text are finitely many.
LEMMA BoundedIs ==
  ASSUME NEW n \in Nat, NEW m \in Bounded(n)
  PROVE  /\ m.start \in Nat /\ m.end \in Nat /\ m.by \in Nat /\ m.start < m.end /\ m.end <= n
         /\ m = MatchOf(m.start, m.end, m.by)
  BY DEF Bounded, Match, MatchOf

\* Of two matches one comes before the other at most.
LEMMA BeforeOneWay ==
  ASSUME NEW n \in Nat, NEW m \in Bounded(n), NEW o \in Bounded(n), Before(m, o)
  PROVE  ~Before(o, m)
<1>1. PICK a, b, c, x, y, z : a = m.start /\ b = m.end /\ c = m.by /\ x = o.start /\ y = o.end /\ z = o.by
  OBVIOUS
<1>2. a \in Nat /\ b \in Nat /\ c \in Nat /\ x \in Nat /\ y \in Nat /\ z \in Nat
  BY <1>1, BoundedIs
<1>3. \/ b - a > y - x
      \/ ~(y - x > b - a) /\ a < x
      \/ ~(y - x > b - a) /\ a = x /\ c < z
  BY <1>1 DEF Before
<1>4. ~ \/ y - x > b - a
        \/ ~(b - a > y - x) /\ x < a
        \/ ~(b - a > y - x) /\ x = a /\ z < c
  BY <1>2, <1>3
<1>. QED
  BY <1>1, <1>4 DEF Before

LEMMA OverlapIs ==
  ASSUME NEW n \in Nat, NEW m \in Bounded(n), NEW o \in Bounded(n)
  PROVE  Overlap(m, m) /\ (Overlap(m, o) <=> Overlap(o, m))
  BY BoundedIs DEF Overlap

\* The order puts one of some matches before all the others.
LEMMA BestIs ==
  ASSUME NEW n \in Nat, NEW M \in SUBSET Bounded(n), M # {}
  PROVE  Best(M) \in M /\ \A o \in M \ {Best(M)} : Before(Best(M), o)
<1>1. ASSUME NEW m \in M
      PROVE  /\ m.start \in Nat /\ m.end \in Nat /\ m.by \in Nat /\ m.start < m.end /\ m.end <= n
             /\ m = MatchOf(m.start, m.end, m.by)
  BY BoundedIs
<1> DEFINE L == {m.end - m.start : m \in M}
<1>2. PICK g : g \in L /\ \A x \in L : x <= g
  <2>1. L \in SUBSET (0..n) /\ L # {}
    <3>1. \A m \in M : m.end - m.start \in 0..n
      BY <1>1
    <3>. QED
      BY <3>1
  <2>. HIDE DEF L
  <2>. QED
    BY <2>1, GreatestExists
<1> DEFINE M1 == {m \in M : m.end - m.start = g}
           A == {m.start : m \in M1}
<1>3. PICK s : s \in A /\ \A x \in A : s <= x
  <2>1. A \in SUBSET Nat /\ A # {}
    BY <1>1, <1>2
  <2>. HIDE DEF A
  <2>. QED
    BY <2>1, LeastExists
<1> DEFINE M2 == {m \in M1 : m.start = s}
           B == {m.by : m \in M2}
<1>4. PICK b : b \in B /\ \A x \in B : b <= x
  <2>1. B \in SUBSET Nat /\ B # {}
    BY <1>1, <1>3
  <2>. HIDE DEF B
  <2>. QED
    BY <2>1, LeastExists
<1>5. PICK m \in M2 : m.by = b
  BY <1>4
<1>6. m \in M /\ m.end - m.start = g /\ m.start = s
  BY <1>5
<1>7. ASSUME NEW o \in M, o # m  PROVE  Before(m, o)
  <2>1. o.end - o.start <= g
    BY <1>2
  <2>2. o.end - o.start = g => s <= o.start
    BY <1>3
  <2>3. o.end - o.start = g /\ o.start = s => b <= o.by
    BY <1>4
  <2>4. PICK x, y, z, u, v : x = o.start /\ y = o.end /\ z = o.by /\ u = m.start /\ v = m.end
    OBVIOUS
  <2>5. x \in Nat /\ y \in Nat /\ z \in Nat /\ u \in Nat /\ v \in Nat /\ v - u = g /\ u = s /\ b \in Nat
    BY <1>1, <1>5, <1>6, <2>4
  <2>6. ~(x = u /\ y = v /\ z = b)
    BY <1>1, <1>5, <1>6, <1>7, <2>4
  <2>7. \/ v - u > y - x
        \/ ~(y - x > v - u) /\ u < x
        \/ ~(y - x > v - u) /\ u = x /\ b < z
    BY <2>1, <2>2, <2>3, <2>4, <2>5, <2>6
  <2>. QED
    BY <1>5, <2>4, <2>7 DEF Before
<1>8. \E x \in M : \A o \in M \ {x} : Before(x, o)
  BY <1>6, <1>7
<1>. QED
  BY <1>8 DEF Best

Grown(all, kept) ==
  IF Free(all, kept) = {} THEN kept ELSE kept \cup {Best(Free(all, kept))}

\* One more match kept: none that overlaps one kept already.
LEMMA GrownIs ==
  ASSUME NEW n \in Nat, NEW all \in SUBSET Bounded(n), NEW kept \in SUBSET all, Free(all, kept) # {}
  PROVE  \E b \in Free(all, kept) : /\ Grown(all, kept) = kept \cup {b} /\ b \in all /\ b \notin kept
                                    /\ \A o \in Free(all, kept) \ {b} : Before(b, o)
<1>1. PICK F, b : F = Free(all, kept) /\ b = Best(F)
  OBVIOUS
<1>2. F \in SUBSET Bounded(n) /\ F # {} /\ F \subseteq all
  BY <1>1 DEF Free
<1>3. b \in F /\ \A o \in F \ {b} : Before(b, o)
  BY <1>1, <1>2, BestIs
<1>4. b \notin kept
  BY <1>1, <1>2, <1>3, OverlapIs DEF Free
<1>. QED
  BY <1>1, <1>2, <1>3, <1>4 DEF Grown

\* What is kept after a number of steps, and what is left to keep.
LEMMA KeptUpToIs ==
  ASSUME NEW n \in Nat, NEW all \in SUBSET Bounded(n), IsFiniteSet(all)
  PROVE  /\ KeptUpTo(all)[0] = {} /\ \A i \in 0..Cardinality(all) : KeptUpTo(all)[i] \in SUBSET all
         /\ \A i \in 1..Cardinality(all) : KeptUpTo(all)[i] = Grown(all, KeptUpTo(all)[i - 1])
<1> DEFINE N == Cardinality(all)
           T == SUBSET all
           step == [i \in 1..N |-> [x \in T |-> Grown(all, x)]]
           Is(g) == g = [i \in 0..N |-> IF i = 0 THEN {}
                                        ELSE LET free == Free(all, g[i - 1])
                                             IN  IF free = {} THEN g[i - 1] ELSE g[i - 1] \cup {Best(free)}]
<1>1. N \in Nat /\ {} \in T
  BY FS_CardinalityType
<1>2. step \in [1..N -> [T -> T]]
  <2>1. ASSUME NEW x \in T  PROVE  Grown(all, x) \in T
    <3>1. CASE Free(all, x) = {}
      BY <3>1 DEF Grown
    <3>2. CASE Free(all, x) # {}
      <4>1. PICK b \in Free(all, x) : Grown(all, x) = x \cup {b} /\ b \in all
        BY <3>2, GrownIs
      <4>. QED
        BY <4>1
    <3>. QED
      BY <3>1, <3>2
  <2>. HIDE DEF N, T
  <2>. QED
    BY <2>1
<1>3. PICK f \in [0..N -> T] : Follows(f, N, {}, step)
  <2>. HIDE DEF N, T, step
  <2>. QED
    BY <1>1, <1>2, RecursionExists
<1>4. f[0] = {} /\ \A i \in 1..N : i - 1 \in 0..N /\ f[i] = Grown(all, f[i - 1])
  <2>1. \A i \in 1..N : i - 1 \in 0..N
    BY <1>1
  <2>2. f[0] = {} /\ \A i \in 1..N : f[i] = step[i][f[i - 1]]
    BY <1>3 DEF Follows
  <2>. HIDE DEF N, T
  <2>. QED
    BY <2>1, <2>2
<1>5. Is(f)
  <2>1. ASSUME NEW i \in 0..N
        PROVE  f[i] = IF i = 0 THEN {}
                      ELSE LET free == Free(all, f[i - 1])
                           IN  IF free = {} THEN f[i - 1] ELSE f[i - 1] \cup {Best(free)}
    <3>1. i = 0 \/ (i # 0 /\ i \in 1..N)
      BY <1>1
    <3>. HIDE DEF N, T, step
    <3>. QED
      BY <1>4, <3>1 DEF Grown
  <2>. HIDE DEF N, T, step
  <2>. QED
    BY <1>3, <2>1
<1>6. KeptUpTo(all) = CHOOSE g : Is(g)
  BY DEF KeptUpTo
<1>7. PICK k : k = KeptUpTo(all)
  OBVIOUS
<1>8. Is(k)
  <2>. HIDE DEF Is
  <2>. QED
    BY <1>5, <1>6, <1>7
<1>9. \A i \in 0..N : k[i] = IF i = 0 THEN {}
                             ELSE LET free == Free(all, k[i - 1])
                                  IN  IF free = {} THEN k[i - 1] ELSE k[i - 1] \cup {Best(free)}
  <2>1. k = [i \in 0..N |-> IF i = 0 THEN {}
                            ELSE LET free == Free(all, k[i - 1])
                                 IN  IF free = {} THEN k[i - 1] ELSE k[i - 1] \cup {Best(free)}]
    BY <1>8
  <2>. HIDE DEF N, Is
  <2>. QED
    BY <2>1
<1>10. k[0] = {} /\ \A i \in 1..N : k[i] = Grown(all, k[i - 1])
  <2>1. 0 \in 0..N /\ \A i \in 1..N : i \in 0..N /\ i # 0
    BY <1>1
  <2>. HIDE DEF N, Is
  <2>. QED
    BY <1>9, <2>1 DEF Grown
<1>11. \A i \in 0..N : k[i] = f[i]
  <2> DEFINE S == {i \in Nat : i <= N => k[i] = f[i]}
  <2>1. 0 \in S
    BY <1>4, <1>10
  <2>2. ASSUME NEW i \in S  PROVE  i + 1 \in S
    <3>1. SUFFICES ASSUME i + 1 <= N  PROVE  k[i + 1] = f[i + 1]
      OBVIOUS
    <3>2. i + 1 \in 1..N /\ (i + 1) - 1 = i /\ k[i] = f[i]
      BY <1>1, <3>1
    <3>. HIDE DEF N, S, Is
    <3>. QED
      BY <1>4, <1>10, <3>2
  <2>3. S = Nat
    <3>. HIDE DEF S
    <3>1. S \in SUBSET Nat
      BY DEF S
    <3>. QED
      BY <2>1, <2>2, <3>1, InductionOnNat
  <2>. HIDE DEF N
  <2>. QED
    BY <1>1, <2>3
<1>12. \A i \in 0..N : k[i] \in T
  <2>. HIDE DEF N, T
  <2>. QED
    BY <1>3, <1>11
<1>. QED
  BY <1>7, <1>10, <1>12

\* All matches are kept but those that overlap one kept, which overlap each other
\* never; and one that comes before all it overlaps is kept.
LEMMA KeptAre ==
  ASSUME NEW n \in Nat, NEW all \in SUBSET Bounded(n), IsFiniteSet(all)
  PROVE  LET K == KeptUpTo(all)[Cardinality(all)]
         IN  /\ K \in SUBSET all
             /\ \A m \in all : \E k \in K : Overlap(m, k)
             /\ \A k, l \in K : k # l => ~Overlap(k, l)
             /\ \A m \in all : (\A o \in all \ {m} : Overlap(m, o) => Before(m, o)) => m \in K
<1>1. PICK f, N : f = KeptUpTo(all) /\ N = Cardinality(all)
  OBVIOUS
<1>2. /\ N \in Nat /\ f[0] = {} /\ \A i \in 0..N : f[i] \in SUBSET all
      /\ \A i \in 1..N : f[i] = Grown(all, f[i - 1])
  BY <1>1, KeptUpToIs, FS_CardinalityType
<1> DEFINE First(m) == \A o \in all \ {m} : Overlap(m, o) => Before(m, o)
           P(i) == /\ \A k, l \in f[i] : k # l => ~Overlap(k, l)
                   /\ \A m \in all : First(m) => m \in f[i] \/ m \in Free(all, f[i])
                   /\ Free(all, f[i]) = {} \/ Cardinality(f[i]) >= i
           S == {i \in Nat : i <= N => P(i)}
<1>3. 0 \in S
  <2>1. \A m \in all : m \in Free(all, f[0])
    BY <1>2 DEF Free
  <2>2. Cardinality(f[0]) >= 0
    BY <1>2, FS_EmptySet
  <2>. QED
    BY <1>2, <2>1, <2>2
<1>4. ASSUME NEW i \in S  PROVE  i + 1 \in S
  <2>1. SUFFICES ASSUME i + 1 <= N  PROVE  P(i + 1)
    OBVIOUS
  <2>2. i \in Nat /\ i \in 0..N /\ P(i) /\ f[i] \in SUBSET all /\ f[i + 1] = Grown(all, f[i])
    <3>1. i \in Nat /\ i \in 0..N /\ i + 1 \in 1..N /\ (i + 1) - 1 = i
      BY <1>2, <2>1
    <3>. HIDE DEF P
    <3>. QED
      BY <1>2, <3>1
  <2>3. CASE Free(all, f[i]) = {}
    BY <2>2, <2>3 DEF Grown
  <2>4. CASE Free(all, f[i]) # {}
    <3>1. PICK b \in Free(all, f[i]) : /\ f[i + 1] = f[i] \cup {b} /\ b \in all /\ b \notin f[i]
                                       /\ \A o \in Free(all, f[i]) \ {b} : Before(b, o)
      BY <2>2, <2>4, GrownIs
    <3>2. \A k \in f[i] : ~Overlap(b, k) /\ ~Overlap(k, b)
      BY <2>2, <3>1, OverlapIs DEF Free
    <3>3. \A k, l \in f[i + 1] : k # l => ~Overlap(k, l)
      BY <2>2, <3>1, <3>2
    <3>4. ASSUME NEW m \in all, First(m)  PROVE  m \in f[i + 1] \/ m \in Free(all, f[i + 1])
      <4>1. CASE m \in f[i] \/ m = b
        BY <3>1, <4>1
      <4>2. CASE m \in Free(all, f[i]) /\ m # b
        <5>1. Before(b, m)
          BY <3>1, <4>2
        <5>2. ~Before(m, b)
          BY <3>1, <5>1, BeforeOneWay
        <5>3. ~Overlap(m, b)
          BY <3>1, <3>4, <4>2, <5>2
        <5>. QED
          BY <3>1, <4>2, <5>3 DEF Free
      <4>. QED
        BY <2>2, <3>4, <4>1, <4>2
    <3>5. Cardinality(f[i + 1]) >= i + 1
      <4>1. IsFiniteSet(f[i])
        BY <2>2, FS_Subset
      <4>2. Cardinality(f[i + 1]) = Cardinality(f[i]) + 1 /\ Cardinality(f[i]) \in Nat
        BY <3>1, <4>1, FS_AddElement, FS_CardinalityType
      <4>. QED
        BY <2>2, <2>4, <4>2
    <3>. QED
      BY <3>3, <3>4, <3>5
  <2>. QED
    BY <2>3, <2>4
<1>5. P(N) /\ f[N] \in SUBSET all
  <2>1. S = Nat
    <3>. HIDE DEF S
    <3>1. S \in SUBSET Nat
      BY DEF S
    <3>. QED
      BY <1>3, <1>4, <3>1, InductionOnNat
  <2>2. N \in S /\ N <= N /\ N \in 0..N
    BY <1>2, <2>1
  <2>. HIDE DEF P
  <2>. QED
    BY <1>2, <2>2
<1>6. Free(all, f[N]) = {}
  <2>1. SUFFICES ASSUME Cardinality(f[N]) >= N  PROVE  Free(all, f[N]) = {}
    BY <1>5
  <2>2. Cardinality(f[N]) \in Nat /\ Cardinality(f[N]) <= N
    BY <1>1, <1>5, FS_Subset, FS_CardinalityType
  <2>3. f[N] = all
    <3>1. Cardinality(all) = Cardinality(f[N])
      BY <1>1, <1>2, <2>1, <2>2
    <3>. QED
      BY <1>5, <3>1, FS_Subset
  <2>. QED
    BY <2>3, OverlapIs DEF Free
<1>7. \A m \in all : \E k \in f[N] : Overlap(m, k)
  BY <1>6 DEF Free
<1>. QED
  BY <1>1, <1>5, <1>6, <1>7

FoundAll(t, D) == UNION {Find(t, d) : d \in D}

\* The detectors find finitely many matches, each of them a secret.
LEMMA FoundAllIs ==
  ASSUME NEW t \in Strings, NEW D \in SUBSET (1..Len(Detectors))
  PROVE  /\ FoundAll(t, D) \in SUBSET Bounded(Len(t) + 1) /\ IsFiniteSet(FoundAll(t, D))
         /\ \A m \in FoundAll(t, D) :
              /\ m.start \in 1..Len(t) /\ m.end \in (m.start + 1)..(Len(t) + 1)
              /\ m.by \in D /\ m \in Find(t, m.by) /\ Span(t, m) \in Secrets
              /\ \A j \in m.start..(m.end - 1) : t[j] \in Char
<1>1. PICK N, n : N = Len(Detectors) /\ n = Len(t)
  OBVIOUS
<1>2. N \in Nat /\ n \in Nat
  BY <1>1, DetectorsAssumption DEF Strings
<1>3. ASSUME NEW m \in FoundAll(t, D)
      PROVE  /\ m.start \in 1..n /\ m.end \in (m.start + 1)..(n + 1) /\ m.by \in D /\ m \in Find(t, m.by)
             /\ Span(t, m) \in Secrets /\ m = MatchOf(m.start, m.end, m.by) /\ m \in Match
             /\ \A j \in m.start..(m.end - 1) : t[j] \in Char
  <2>1. PICK d \in D : m \in Find(t, d)
    BY DEF FoundAll
  <2>. QED
    BY <1>1, <2>1, FoundIs, SecretsAre
<1>4. FoundAll(t, D) \in SUBSET Bounded(n + 1)
  <2>1. ASSUME NEW m \in FoundAll(t, D)  PROVE  m \in Bounded(n + 1)
    <3>1. m.start \in Nat /\ m.start < m.end /\ m.end <= n + 1 /\ m \in Match
      BY <1>2, <1>3
    <3>. QED
      BY <3>1 DEF Bounded
  <2>. QED
    BY <2>1
<1>5. IsFiniteSet(FoundAll(t, D))
  <2> DEFINE Box == ((1..n) \X (1..(n + 1))) \X (1..N)
             f == [x \in Box |-> MatchOf(x[1][1], x[1][2], x[2])]
  <2>1. IsFiniteSet(Box)
    <3>1. IsFiniteSet(1..n) /\ IsFiniteSet(1..(n + 1)) /\ IsFiniteSet(1..N)
      BY <1>2, FS_Interval
    <3>2. IsFiniteSet((1..n) \X (1..(n + 1)))
      BY <3>1, FS_Product
    <3>. QED
      BY <3>1, <3>2, FS_Product
  <2>2. \A x, y \in Box : f[x] = f[y] => x = y
    BY MatchIs
  <2>3. IsFiniteSet({f[x] : x \in Box})
    <3>1. DOMAIN f = Box /\ f = [x \in Box |-> f[x]]
      OBVIOUS
    <3>. HIDE DEF f, Box
    <3>. QED
      BY <2>1, <2>2, <3>1, ImageSize
  <2>4. FoundAll(t, D) \in SUBSET {f[x] : x \in Box}
    <3>1. ASSUME NEW m \in FoundAll(t, D)  PROVE  \E x \in Box : m = f[x]
      <4>1. m.start \in 1..n /\ m.end \in 1..(n + 1) /\ m.by \in 1..N
        <5>1. m.start \in 1..n /\ m.end \in (m.start + 1)..(n + 1) /\ m.by \in D
          BY <1>3
        <5>2. m.by \in 1..N
          BY <1>1, <5>1
        <5>3. PICK a, b : a = m.start /\ b = m.end
          OBVIOUS
        <5>4. b \in 1..(n + 1)
          BY <1>2, <5>1, <5>3
        <5>. QED
          BY <5>1, <5>2, <5>3, <5>4
      <4>2. <<<<m.start, m.end>>, m.by>> \in Box
        BY <4>1
      <4>3. f[<<<<m.start, m.end>>, m.by>>] = m
        BY <1>3, <4>2
      <4>. QED
        BY <4>2, <4>3
    <3>. QED
      BY <3>1
  <2>. QED
    BY <2>3, <2>4, FS_Subset
<1>. QED
  BY <1>1, <1>3, <1>4, <1>5

\* Scan keeps of all that is found.
LEMMA ScanIs ==
  ASSUME NEW t \in Strings, NEW D \in SUBSET (1..Len(Detectors))
  PROVE  /\ Scan(t, D) \in SUBSET FoundAll(t, D)
         /\ \A m \in FoundAll(t, D) : \E k \in Scan(t, D) : Overlap(m, k)
         /\ \A k, l \in Scan(t, D) : k # l => ~Overlap(k, l)
         /\ \A m \in FoundAll(t, D) :
              (\A o \in FoundAll(t, D) \ {m} : Overlap(m, o) => Before(m, o)) => m \in Scan(t, D)
<1>1. PICK all, n : all = FoundAll(t, D) /\ n = Len(t) + 1
  OBVIOUS
<1>2. Scan(t, D) = KeptUpTo(all)[Cardinality(all)]
  BY <1>1 DEF Scan, FoundAll
<1>3. n \in Nat /\ all \in SUBSET Bounded(n) /\ IsFiniteSet(all)
  BY <1>1, FoundAllIs DEF Strings
<1>. QED
  BY <1>1, <1>2, <1>3, KeptAre

-----------------------------------------------------------------------------
(* Replacing: what stands where a match stood.                             *)

\* Matches of a text, no two of which overlap.
Apart(t, K) ==
  /\ \A m \in K : /\ m.start \in 1..Len(t) /\ m.end \in (m.start + 1)..(Len(t) + 1)
                  /\ Span(t, m) \in Secrets
  /\ \A m, o \in K : m # o => ~Overlap(m, o)

LEMMA ScannedApart ==
  ASSUME NEW t \in Strings, NEW D \in SUBSET (1..Len(Detectors))
  PROVE  Apart(t, Scan(t, D))
  BY ScanIs, FoundAllIs DEF Apart

LEMMA OneStartsThere ==
  ASSUME NEW t \in Strings, NEW K, Apart(t, K), NEW m \in K
  PROVE  (CHOOSE x \in K : x.start = m.start) = m
<1>1. PICK o : o = CHOOSE x \in K : x.start = m.start
  OBVIOUS
<1>2. o \in K /\ o.start = m.start
  BY <1>1
<1>3. Len(t) \in Nat
  BY DEF Strings
<1>4. Overlap(o, m)
  BY <1>2, <1>3 DEF Apart, Overlap
<1>. QED
  BY <1>1, <1>2, <1>4 DEF Apart

Starts(K, i) == \E m \in K : m.start = i

\* ReplaceWith, position by position.
LEMMA ReplacedIs ==
  ASSUME NEW t \in Strings, NEW K, Apart(t, K), NEW kk \in Keys
  PROVE  LET R == ReplacedFrom(kk, t, K)
         IN  /\ R \in [1..(Len(t) + 1) -> Strings] /\ R[Len(t) + 1] = << >>
             /\ \A m \in K : R[m.start] = <<Placeholder(kk, Span(t, m))>> \o R[m.end]
             /\ \A i \in 1..Len(t) : ~Starts(K, i) => R[i] = <<t[i]>> \o R[i + 1]
<1> DEFINE N == Len(t)
           at(i) == CHOOSE x \in K : x.start = i
           next == [i \in 1..N |-> IF Starts(K, i) THEN at(i).end ELSE i + 1]
           put == [i \in 1..N |-> IF Starts(K, i) THEN Placeholder(kk, Span(t, at(i))) ELSE t[i]]
           make == [i \in 1..N |-> [x \in Strings |-> <<put[i]>> \o x]]
           Is(g) == g = [i \in 1..(N + 1) |->
                           IF i > N THEN << >>
                           ELSE IF \E m \in K : m.start = i
                                THEN LET m == CHOOSE x \in K : x.start = i
                                     IN  <<Placeholder(kk, Span(t, m))>> \o g[m.end]
                                ELSE <<t[i]>> \o g[i + 1]]
<1>1. N \in Nat /\ << >> \in Strings /\ \A i \in 1..N : t[i] \in Atom
  BY DEF Strings
<1>2. ASSUME NEW i \in 1..N, Starts(K, i)
      PROVE  at(i) \in K /\ at(i).start = i /\ at(i).end \in (i + 1)..(N + 1) /\ Span(t, at(i)) \in Secrets
  <2>1. at(i) \in K /\ at(i).start = i
    BY <1>2 DEF Starts
  <2>. QED
    BY <2>1 DEF Apart
<1>3. next \in [1..N -> 1..(N + 1)] /\ \A i \in 1..N : next[i] > i
  <2>1. ASSUME NEW i \in 1..N  PROVE  next[i] \in 1..(N + 1) /\ next[i] > i
    <3>. HIDE DEF at
    <3>. QED
      BY <1>1, <1>2
  <2>. HIDE DEF N, at
  <2>. QED
    BY <2>1
<1>4. \A i \in 1..N : put[i] \in Atom
  <2>1. ASSUME NEW i \in 1..N, Starts(K, i)  PROVE  put[i] \in Atom
    <3>1. Placeholder(kk, Span(t, at(i))) \in Tokens
      <4>1. PICK w : w = Span(t, at(i))
        OBVIOUS
      <4>2. w \in Secrets
        BY <1>2, <2>1, <4>1
      <4>3. Placeholder(kk, w) \in Tokens
        BY <4>2 DEF Tokens
      <4>. QED
        BY <4>1, <4>3
    <3>. QED
      BY <2>1, <3>1 DEF Atom
  <2>. QED
    BY <1>1, <2>1
<1>5. make \in [1..N -> [Strings -> Strings]]
  <2>1. ASSUME NEW i \in 1..N, NEW x \in Strings  PROVE  <<put[i]>> \o x \in Strings
    <3>1. <<put[i]>> \in Strings
      BY <1>4 DEF Strings
    <3>. QED
      BY <3>1 DEF Strings
  <2>. HIDE DEF N, put
  <2>. QED
    BY <2>1
<1>6. PICK f \in [1..(N + 1) -> Strings] : f[N + 1] = << >> /\ \A i \in 1..N : f[i] = make[i][f[next[i]]]
  <2>. HIDE DEF N, next, make
  <2>1. \E f \in [1..(N + 1) -> Strings] : FollowsDown(f, N, << >>, next, make)
    BY <1>1, <1>3, <1>5, RecursionDown
  <2>. QED
    BY <2>1 DEF FollowsDown
<1>7. ASSUME NEW i \in 1..N  PROVE  f[i] = <<put[i]>> \o f[next[i]]
  <2>1. next[i] \in 1..(N + 1) /\ f[next[i]] \in Strings
    <3>. HIDE DEF N, next
    <3>. QED
      BY <1>3, <1>6
  <2>. HIDE DEF N, next, put
  <2>. QED
    BY <1>6, <2>1
<1>8. Is(f)
  <2>1. ASSUME NEW i \in 1..(N + 1)
        PROVE  f[i] = IF i > N THEN << >>
                      ELSE IF \E m \in K : m.start = i
                           THEN LET m == CHOOSE x \in K : x.start = i
                                IN  <<Placeholder(kk, Span(t, m))>> \o f[m.end]
                           ELSE <<t[i]>> \o f[i + 1]
    <3>1. CASE i > N
      BY <1>1, <1>6, <3>1
    <3>2. CASE ~(i > N)
      <4>1. i \in 1..N
        BY <1>1, <3>2
      <4>2. f[i] = <<put[i]>> \o f[next[i]]
        BY <1>7, <4>1
      <4>3. next[i] = (IF Starts(K, i) THEN at(i).end ELSE i + 1) /\ put[i] = (IF Starts(K, i) THEN Placeholder(kk, Span(t, at(i))) ELSE t[i])
        BY <4>1
      <4>. HIDE DEF N, next, put, make
      <4>. QED
        BY <3>2, <4>2, <4>3 DEF Starts
    <3>. QED
      BY <3>1, <3>2
  <2>. HIDE DEF N, next, put, make
  <2>. QED
    BY <1>6, <2>1
<1>9. ReplacedFrom(kk, t, K) = CHOOSE g : Is(g)
  BY DEF ReplacedFrom
<1>10. PICK g : g = ReplacedFrom(kk, t, K)
  OBVIOUS
<1>11. Is(g)
  <2>. HIDE DEF Is
  <2>. QED
    BY <1>8, <1>9, <1>10
<1>12. DOMAIN g = 1..(N + 1) /\ g = [i \in 1..(N + 1) |-> g[i]]
       /\ \A i \in 1..(N + 1) :
            g[i] = IF i > N THEN << >>
                   ELSE IF \E m \in K : m.start = i
                        THEN LET m == CHOOSE x \in K : x.start = i
                             IN  <<Placeholder(kk, Span(t, m))>> \o g[m.end]
                        ELSE <<t[i]>> \o g[i + 1]
  <2>1. g = [i \in 1..(N + 1) |->
               IF i > N THEN << >>
               ELSE IF \E m \in K : m.start = i
                    THEN LET m == CHOOSE x \in K : x.start = i
                         IN  <<Placeholder(kk, Span(t, m))>> \o g[m.end]
                    ELSE <<t[i]>> \o g[i + 1]]
    BY <1>11
  <2>. HIDE DEF Is, N
  <2>2. DOMAIN g = 1..(N + 1)
    BY <2>1
  <2>3. g = [i \in DOMAIN g |-> g[i]]
    BY <2>1
  <2>. QED
    BY <2>1, <2>2, <2>3
<1>13. g[N + 1] = << >>
  <2>1. N + 1 \in 1..(N + 1) /\ N + 1 > N
    BY <1>1
  <2>. HIDE DEF N
  <2>. QED
    BY <1>12, <2>1
<1>14. ASSUME NEW m \in K  PROVE  g[m.start] = <<Placeholder(kk, Span(t, m))>> \o g[m.end]
  <2>1. PICK i : i = m.start
    OBVIOUS
  <2>2. i \in 1..(N + 1) /\ ~(i > N) /\ (CHOOSE x \in K : x.start = i) = m
    <3>1. i \in 1..N
      BY <2>1 DEF Apart
    <3>. QED
      BY <1>1, <2>1, <3>1, OneStartsThere
  <2>3. g[i] = IF i > N THEN << >>
               ELSE IF \E x \in K : x.start = i
                    THEN <<Placeholder(kk, Span(t, CHOOSE x \in K : x.start = i))>> \o g[(CHOOSE x \in K : x.start = i).end]
                    ELSE <<t[i]>> \o g[i + 1]
    <3>. HIDE DEF N
    <3>. QED
      BY <1>12, <2>2
  <2>. HIDE DEF N
  <2>. QED
    BY <2>1, <2>2, <2>3
<1>15. ASSUME NEW i \in 1..N, ~Starts(K, i)  PROVE  g[i] = <<t[i]>> \o g[i + 1]
  <2>1. i \in 1..(N + 1) /\ ~(i > N)
    BY <1>1
  <2>. HIDE DEF N
  <2>. QED
    BY <1>12, <1>15, <2>1 DEF Starts
<1>16. ASSUME NEW i \in 1..N  PROVE  g[i] = <<put[i]>> \o g[next[i]]
  <2>1. CASE Starts(K, i)
    <3>1. PICK m : m = at(i)
      OBVIOUS
    <3>2. m \in K /\ m.start = i
      BY <1>2, <2>1, <3>1
    <3>3. next[i] = m.end /\ put[i] = Placeholder(kk, Span(t, m))
      BY <2>1, <3>1
    <3>. HIDE DEF next, put
    <3>. QED
      BY <1>14, <3>2, <3>3
  <2>2. CASE ~Starts(K, i)
    BY <1>15, <2>2
  <2>. QED
    BY <2>1, <2>2
<1>17. \A i \in 1..(N + 1) : g[i] \in Strings
  <2> DEFINE S == {i \in 1..(N + 1) : g[i] \in Strings}
  <2>1. N + 1 \in S
    BY <1>1, <1>13
  <2>2. ASSUME NEW i \in 1..N, \A j \in (i + 1)..(N + 1) : j \in S  PROVE  i \in S
    <3>1. next[i] \in (i + 1)..(N + 1) /\ i \in 1..(N + 1)
      <4>1. next[i] \in 1..(N + 1) /\ next[i] > i
        BY <1>3
      <4>. HIDE DEF next
      <4>. QED
        BY <1>1, <4>1
    <3>2. g[next[i]] \in Strings
      BY <2>2, <3>1
    <3>3. <<put[i]>> \in Strings
      <4>1. put[i] \in Atom
        BY <1>4
      <4>. HIDE DEF put
      <4>. QED
        BY <4>1 DEF Strings
    <3>4. <<put[i]>> \o g[next[i]] \in Strings
      <4>. HIDE DEF put, next
      <4>. QED
        BY <3>2, <3>3 DEF Strings
    <3>. QED
      BY <1>16, <3>1, <3>4
  <2>. HIDE DEF S
  <2>3. \A i \in 1..(N + 1) : i \in S
    <3>. HIDE DEF N
    <3>. QED
      BY <1>1, <2>1, <2>2, InductionDown
  <2>. QED
    BY <2>3 DEF S
<1>18. g \in [1..(N + 1) -> Strings]
  <2>. HIDE DEF N
  <2>. QED
    BY <1>12, <1>17
<1>. QED
  BY <1>10, <1>13, <1>14, <1>15, <1>18

\* No match takes what stands at a position; none begins before it and ends after it.
Untouched(K, i) == \A m \in K : ~(m.start <= i /\ i < m.end)
Outside(K, i) == \A m \in K : ~Crosses(m, i)

\* Where an element of a replaced text comes from: a placeholder that was put in,
\* or the same element of the text, at a position no match takes.
From(t, K, x, i, j) ==
  x \in Tokens \/ (i \in 1..Len(t) /\ Untouched(K, i) /\ x = t[i] /\ j = i + 1)

Traced(t, K, r, i, src) ==
  /\ src \in [1..(Len(r) + 1) -> 1..(Len(t) + 1)] /\ src[1] = i /\ src[Len(r) + 1] = Len(t) + 1
  /\ \A n \in 1..Len(r) : From(t, K, r[n], src[n], src[n + 1])

LEMMA TraceGrows ==
  ASSUME NEW t \in Strings, NEW K, NEW r \in Strings, NEW x \in Atom, NEW i \in 1..Len(t), NEW j, NEW src,
         Traced(t, K, r, j, src), From(t, K, x, i, j)
  PROVE  \E s : Traced(t, K, <<x>> \o r, i, s)
<1> DEFINE L == Len(r)
           M == Len(t)
           s == [n \in 1..(L + 2) |-> IF n = 1 THEN i ELSE src[n - 1]]
<1>1. L \in Nat /\ M \in Nat /\ i \in 1..(M + 1)
  BY DEF Strings
<1>2. PICK v, u : v = <<x>> \o r /\ u = s
  OBVIOUS
<1>3. Len(v) = L + 1 /\ v[1] = x /\ \A n \in 1..L : v[n + 1] = r[n]
  BY <1>1, <1>2 DEF Strings
<1>4. /\ src \in [1..(L + 1) -> 1..(M + 1)] /\ src[1] = j /\ src[L + 1] = M + 1
      /\ \A n \in 1..L : From(t, K, r[n], src[n], src[n + 1])
  BY DEF Traced
<1>. HIDE DEF L, M
<1>6. u \in [1..(L + 2) -> 1..(M + 1)] /\ u[1] = i /\ \A n \in 1..(L + 1) : u[n + 1] = src[n]
  <2>1. ASSUME NEW n \in 1..(L + 2)  PROVE  (IF n = 1 THEN i ELSE src[n - 1]) \in 1..(M + 1)
    <3>1. CASE n = 1
      BY <1>1, <3>1
    <3>2. CASE n # 1
      <4>1. n - 1 \in 1..(L + 1)
        BY <1>1, <3>2
      <4>. QED
        BY <1>4, <3>2, <4>1
    <3>. QED
      BY <3>1, <3>2
  <2>2. \A n \in 1..(L + 1) : n + 1 \in 1..(L + 2) /\ n + 1 # 1 /\ n + 1 - 1 = n
    BY <1>1
  <2>3. 1 \in 1..(L + 2)
    BY <1>1
  <2>. QED
    BY <1>2, <2>1, <2>2, <2>3
<1>7. u[L + 2] = M + 1
  <2>1. L + 1 \in 1..(L + 1) /\ L + 1 + 1 = L + 2
    BY <1>1
  <2>. QED
    BY <1>4, <1>6, <2>1
<1>8. ASSUME NEW n \in 1..(L + 1)
      PROVE  From(t, K, v[n], u[n], u[n + 1])
  <2>1. CASE n = 1
    <3>1. u[n] = i /\ v[n] = x /\ u[n + 1] = j
      <4>1. 1 \in 1..(L + 1)
        BY <1>1
      <4>. QED
        BY <1>3, <1>4, <1>6, <2>1, <4>1
    <3>. QED
      BY <3>1
  <2>2. CASE n # 1
    <3>1. PICK k : k = n - 1
      OBVIOUS
    <3>2. k \in 1..L /\ k \in 1..(L + 1) /\ k + 1 \in 1..(L + 1) /\ n = k + 1
      BY <1>1, <2>2, <3>1
    <3>3. u[n] = src[k] /\ u[n + 1] = src[k + 1] /\ v[n] = r[k]
      BY <1>3, <1>6, <3>2
    <3>. QED
      BY <1>4, <3>2, <3>3
  <2>. QED
    BY <2>1, <2>2
<1>9. Traced(t, K, v, i, u)
  <2>1. Len(v) + 1 = L + 2
    BY <1>1, <1>3
  <2>. QED
    BY <1>3, <1>6, <1>7, <1>8, <2>1 DEF Traced, M
<1>. QED
  BY <1>2, <1>9

\* Each element of a replaced text comes from one of the text, in their order.
LEMMA ReplacedTrace ==
  ASSUME NEW t \in Strings, NEW K, Apart(t, K), NEW kk \in Keys
  PROVE  /\ ReplaceWith(kk, t, K) \in Strings
         /\ \E src : Traced(t, K, ReplaceWith(kk, t, K), 1, src)
<1>1. PICK R, N : R = ReplacedFrom(kk, t, K) /\ N = Len(t)
  OBVIOUS
<1>2. N \in Nat /\ \A i \in 1..N : t[i] \in Atom
  BY <1>1 DEF Strings
<1>3. /\ R \in [1..(N + 1) -> Strings] /\ R[N + 1] = << >>
      /\ \A m \in K : R[m.start] = <<Placeholder(kk, Span(t, m))>> \o R[m.end]
      /\ \A i \in 1..N : ~Starts(K, i) => R[i] = <<t[i]>> \o R[i + 1]
  BY <1>1, ReplacedIs
<1> DEFINE S == {i \in 1..(N + 1) : Outside(K, i) => \E src : Traced(t, K, R[i], i, src)}
<1>4. N + 1 \in S
  <2> DEFINE src == [n \in 1..1 |-> N + 1]
  <2>1. Len(R[N + 1]) = 0 /\ N + 1 \in 1..(N + 1)
    BY <1>2, <1>3
  <2>2. PICK u : u = src
    OBVIOUS
  <2>3. u \in [1..(0 + 1) -> 1..(N + 1)] /\ u[1] = N + 1 /\ u[0 + 1] = N + 1
    BY <2>1, <2>2
  <2>4. Traced(t, K, R[N + 1], N + 1, u)
    BY <1>1, <2>1, <2>3 DEF Traced
  <2>. QED
    BY <2>1, <2>4
<1>5. ASSUME NEW i \in 1..N, \A j \in (i + 1)..(N + 1) : j \in S  PROVE  i \in S
  <2>0. SUFFICES ASSUME Outside(K, i)  PROVE  \E src : Traced(t, K, R[i], i, src)
    BY <1>2
  <2>1. \E x \in Atom, j \in (i + 1)..(N + 1) :
          R[i] = <<x>> \o R[j] /\ From(t, K, x, i, j) /\ Outside(K, j)
    <3>1. CASE Starts(K, i)
      <4>1. PICK m \in K : m.start = i
        BY <3>1 DEF Starts
      <4>2. m.end \in (i + 1)..(N + 1) /\ Span(t, m) \in Secrets
        BY <1>1, <4>1 DEF Apart
      <4>3. PICK w : w = Span(t, m)
        OBVIOUS
      <4>4. Placeholder(kk, w) \in Tokens
        BY <4>2, <4>3 DEF Tokens
      <4>5. R[i] = <<Placeholder(kk, w)>> \o R[m.end]
        BY <1>3, <4>1, <4>3
      <4>6. PICK p : p = Placeholder(kk, w)
        OBVIOUS
      <4>7. p \in Atom /\ From(t, K, p, i, m.end) /\ R[i] = <<p>> \o R[m.end]
        <5>1. p \in Tokens
          BY <4>4, <4>6
        <5>2. From(t, K, p, i, m.end)
          BY <5>1 DEF From
        <5>3. p \in Atom
          BY <5>1 DEF Atom
        <5>. QED
          BY <4>5, <4>6, <5>2, <5>3
      <4>8. Outside(K, m.end)
        <5>1. SUFFICES ASSUME NEW o \in K, Crosses(o, m.end)  PROVE  FALSE
          BY DEF Outside
        <5>2. m.start \in Nat /\ m.end \in Nat /\ o.start \in Nat /\ o.end \in Nat /\ m.start < m.end
          BY <1>1, <1>2, <4>1 DEF Apart
        <5>3. o # m /\ Overlap(m, o)
          BY <5>1, <5>2 DEF Crosses, Overlap
        <5>. QED
          BY <4>1, <5>3 DEF Apart
      <4>. QED
        BY <4>2, <4>7, <4>8
    <3>2. CASE ~Starts(K, i)
      <4>1. i + 1 \in (i + 1)..(N + 1) /\ t[i] \in Atom
        BY <1>2
      <4>2. ASSUME NEW m \in K  PROVE  ~(m.start <= i /\ i < m.end) /\ ~Crosses(m, i + 1)
        <5>1. m.start \in Nat /\ m.end \in Nat /\ m.start # i
          BY <1>1, <1>2, <3>2 DEF Apart, Starts
        <5>2. ~(m.start < i /\ i < m.end)
          BY <2>0 DEF Outside, Crosses
        <5>. QED
          BY <1>2, <5>1, <5>2 DEF Crosses
      <4>3. Untouched(K, i) /\ Outside(K, i + 1)
        BY <4>2 DEF Untouched, Outside
      <4>4. From(t, K, t[i], i, i + 1)
        BY <1>1, <4>3 DEF From
      <4>. QED
        BY <1>3, <3>2, <4>1, <4>3, <4>4
    <3>. QED
      BY <3>1, <3>2
  <2>2. PICK x \in Atom, j \in (i + 1)..(N + 1) :
          R[i] = <<x>> \o R[j] /\ From(t, K, x, i, j) /\ Outside(K, j)
    BY <2>1
  <2>3. PICK src : Traced(t, K, R[j], j, src)
    BY <1>5, <2>2
  <2>4. R[j] \in Strings /\ i \in 1..(N + 1) /\ i \in 1..Len(t)
    <3>1. j \in 1..(N + 1)
      BY <1>2, <2>2
    <3>. QED
      BY <1>1, <1>2, <1>3, <3>1
  <2>5. \E s : Traced(t, K, <<x>> \o R[j], i, s)
    BY <2>2, <2>3, <2>4, TraceGrows
  <2>. QED
    BY <2>2, <2>4, <2>5
<1>6. \A i \in 1..(N + 1) : i \in S
  <2>. HIDE DEF S
  <2>. QED
    BY <1>2, <1>4, <1>5, InductionDown
<1>7. 1 \in 1..(N + 1) /\ ReplaceWith(kk, t, K) = R[1]
  BY <1>1, <1>2 DEF ReplaceWith
<1>8. Outside(K, 1)
  BY <1>1, <1>2 DEF Apart, Outside, Crosses
<1>. QED
  BY <1>3, <1>6, <1>7, <1>8

\* Positions that follow each other are those a sequence of steps of one goes through.
OneByOne(src, a, b) == \A n \in a..b : src[n + 1] = src[n] + 1

LEMMA StepsOfOne ==
  ASSUME NEW L \in Nat, NEW src, NEW a \in 1..L, NEW b \in a..L, src[a] \in Nat, OneByOne(src, a, b)
  PROVE  \A k \in 0..(b + 1 - a) : src[a + k] = src[a] + k
<1> DEFINE S == {k \in Nat : k <= b + 1 - a => src[a + k] = src[a] + k}
<1>1. 0 \in S
  BY a + 0 = a
<1>2. ASSUME NEW k \in S  PROVE  k + 1 \in S
  <2>1. CASE k + 1 <= b + 1 - a
    <3>1. PICK n : n = a + k
      OBVIOUS
    <3>2. n \in a..b /\ a + (k + 1) = n + 1 /\ k <= b + 1 - a
      BY <2>1, <3>1
    <3>3. src[n] = src[a] + k /\ src[n + 1] = src[n] + 1
      BY <3>1, <3>2 DEF OneByOne
    <3>4. src[a + (k + 1)] = src[a] + (k + 1)
      BY <3>2, <3>3
    <3>. QED
      BY <3>4
  <2>2. CASE ~(k + 1 <= b + 1 - a)
    BY <2>2
  <2>. QED
    BY <2>1, <2>2
<1>3. S = Nat
  <2>. HIDE DEF S
  <2>. QED
    BY <1>1, <1>2, InductionOnNat DEF S
<1>. QED
  BY <1>3

\* Where the characters of a replaced text from a to b stand in the text.
CameFrom(t, K, r, a, b, A) ==
  A + (b - a) <= Len(t) /\ \A k \in 0..(b - a) : t[A + k] = r[a + k] /\ Untouched(K, A + k)

\* Characters that stand side by side in a replaced text did so in the text, and no
\* match took any of them.
LEMMA RunCameFrom ==
  ASSUME NEW t \in Strings, NEW K, NEW r \in Strings, NEW src, Traced(t, K, r, 1, src),
         NEW a \in 1..Len(r), NEW b \in a..Len(r), \A n \in a..b : r[n] \in Char
  PROVE  \E A \in 1..Len(t) : CameFrom(t, K, r, a, b, A)
<1> DEFINE L == Len(r)
           M == Len(t)
<1>1. L \in Nat /\ M \in Nat /\ a \in 1..L /\ b \in a..L
  BY DEF Strings
<1>2. src \in [1..(L + 1) -> 1..(M + 1)] /\ \A n \in 1..L : From(t, K, r[n], src[n], src[n + 1])
  BY DEF Traced
<1>3. ASSUME NEW n \in 1..L, r[n] \in Char
      PROVE  src[n] \in 1..M /\ Untouched(K, src[n]) /\ r[n] = t[src[n]] /\ src[n + 1] = src[n] + 1
  <2>1. r[n] \notin Tokens
    BY <1>3, TokensAreNoChars DEF Atom, IsPlaceholder
  <2>. QED
    BY <1>2, <2>1 DEF From
<1>. HIDE DEF L, M
<1>4. PICK A : A = src[a]
  OBVIOUS
<1>5. \A n \in a..b : n \in 1..L
  BY <1>1
<1>6. A \in 1..M /\ src[b] \in 1..M
  BY <1>1, <1>3, <1>4, <1>5
<1>7. \A k \in 0..(b + 1 - a) : src[a + k] = A + k
  <2>1. OneByOne(src, a, b)
    <3>1. \A n \in a..b : src[n + 1] = src[n] + 1
      BY <1>3, <1>5
    <3>. QED
      BY <3>1 DEF OneByOne
  <2>2. src[a] \in Nat
    BY <1>4, <1>6
  <2>. QED
    BY <1>1, <1>4, <2>1, <2>2, StepsOfOne
<1>8. A + (b - a) <= M
  <2>1. PICK k : k = b - a
    OBVIOUS
  <2>2. k \in 0..(b + 1 - a) /\ a + k = b
    BY <1>1, <2>1
  <2>3. src[b] = A + k
    BY <1>7, <2>2
  <2>. QED
    BY <1>6, <2>1, <2>3
<1>9. ASSUME NEW k \in 0..(b - a)  PROVE  t[A + k] = r[a + k] /\ Untouched(K, A + k)
  <2>1. PICK n : n = a + k
    OBVIOUS
  <2>2. n \in a..b /\ k \in 0..(b + 1 - a)
    BY <1>1, <2>1
  <2>3. src[n] = A + k /\ n \in 1..L
    BY <1>5, <1>7, <2>1, <2>2
  <2>. QED
    BY <1>3, <2>1, <2>2, <2>3
<1>. QED
  BY <1>6, <1>8, <1>9 DEF M, CameFrom

\* A hit that shares a position with a stretch of a text no match takes is none of them.
LEMMA UntouchedIs ==
  ASSUME NEW K, NEW m \in K, NEW A \in Nat, NEW L \in Nat, m.start \in Nat, m.end \in Nat,
         m.start < m.end, m.start < A + L, A < m.end, L > 0
  PROVE  \E k \in 0..(L - 1) : ~Untouched(K, A + k)
<1>1. CASE m.start <= A
  <2>1. 0 \in 0..(L - 1) /\ A + 0 = A /\ ~Untouched(K, A)
    BY <1>1 DEF Untouched
  <2>. QED
    BY <2>1
<1>2. CASE A < m.start
  <2>1. PICK k : k = m.start - A
    OBVIOUS
  <2>2. k \in 0..(L - 1) /\ A + k = m.start
    BY <1>2, <2>1
  <2>3. ~Untouched(K, m.start)
    BY DEF Untouched
  <2>. QED
    BY <2>2, <2>3
<1>. QED
  BY <1>1, <1>2

\* A secret of a detector that was applied is in what is forwarded only if it was missed.
LEMMA LeftIsMissed ==
  ASSUME NEW t \in Strings, NEW D \in SUBSET (1..Len(Detectors)), NEW kk \in Keys,
         NEW d \in D, NEW w \in Detectors[d].valid,
         NEW r, r = ReplaceWith(kk, t, Scan(t, D)), NEW a \in 1..Len(r), StandsAt(r, w, a)
  PROVE  Missed(t, D, d, w)
<1>1. PICK K, L : K = Scan(t, D) /\ L = Len(w)
  OBVIOUS
<1>2. d \in 1..Len(Detectors) /\ Apart(t, K)
  BY <1>1, ScannedApart
<1>3. r \in Strings /\ \E src : Traced(t, K, r, 1, src)
  BY <1>1, <1>2, ReplacedTrace
<1>4. PICK src : Traced(t, K, r, 1, src)
  BY <1>3
<1>5. L \in Nat /\ L >= 1 /\ w \in Strings /\ \A k \in 1..L : w[k] \in Char
  <2>1. w \in Detectors[d].words
    BY <1>2, SecretsAre
  <2>. QED
    BY <1>1, <1>2, <2>1, WordsAre DEF Strings, Atom
<1>6. PICK b : b = a + L - 1
  OBVIOUS
<1>7. Len(r) \in Nat /\ Len(t) \in Nat /\ b \in a..Len(r) /\ b - a + 1 = L /\ SubSeq(r, a, b) = w
  BY <1>1, <1>3, <1>5, <1>6 DEF StandsAt, Strings
<1>8. \A k \in 1..L : w[k] = r[a + k - 1]
  BY <1>3, <1>7, SubSeqIs
<1>9. \A n \in a..b : r[n] \in Char
  <2>1. ASSUME NEW n \in a..b  PROVE  r[n] \in Char
    <3>1. PICK k : k = n - a + 1
      OBVIOUS
    <3>2. k \in 1..L /\ a + k - 1 = n
      BY <1>7, <3>1
    <3>. QED
      BY <1>5, <1>8, <3>2
  <2>. QED
    BY <2>1
<1>10. PICK A \in 1..Len(t) :
         A + (b - a) <= Len(t) /\ \A k \in 0..(b - a) : t[A + k] = r[a + k] /\ Untouched(K, A + k)
  <2>1. \E A \in 1..Len(t) : CameFrom(t, K, r, a, b, A)
    BY <1>3, <1>4, <1>7, <1>9, RunCameFrom
  <2>. QED
    BY <2>1, Zenon DEF CameFrom
<1>11. \A k \in 0..(L - 1) : Untouched(K, A + k)
  <2>1. L - 1 = b - a
    BY <1>5, <1>7
  <2>. QED
    BY <1>10, <2>1
<1>12. StandsAt(t, w, A)
  <2>1. PICK e : e = A + L - 1
    OBVIOUS
  <2>2. e \in A..Len(t) /\ e - A + 1 = L /\ A + L <= Len(t) + 1
    BY <1>5, <1>7, <1>10, <2>1
  <2>3. SubSeq(t, A, e) \in Strings /\ Len(SubSeq(t, A, e)) = L /\ \A k \in 1..L : SubSeq(t, A, e)[k] = t[A + k - 1]
    BY <2>2, SubSeqIs
  <2>4. ASSUME NEW k \in 1..L  PROVE  t[A + k - 1] = w[k]
    <3>1. PICK n : n = k - 1
      OBVIOUS
    <3>2. n \in 0..(b - a) /\ A + n = A + k - 1 /\ a + n = a + k - 1
      BY <1>5, <1>7, <3>1
    <3>. QED
      BY <1>8, <1>10, <3>2
  <2>5. \A k \in 1..L : SubSeq(t, A, e)[k] = w[k]
    BY <2>3, <2>4
  <2>6. SubSeq(t, A, e) = w
    BY <1>1, <1>5, <2>3, <2>5, SeqEqual DEF Strings
  <2>. QED
    BY <1>1, <2>1, <2>2, <2>6 DEF StandsAt
<1>13. CASE MatchOf(A, A + L, d) \in Find(t, d)
  <2>1. PICK m : m = MatchOf(A, A + L, d)
    OBVIOUS
  <2>2. m \in FoundAll(t, D) /\ m.start = A /\ m.end = A + L
    BY <1>13, <2>1, MatchIs DEF FoundAll
  <2>3. PICK o \in K : Overlap(m, o)
    BY <1>1, <2>2, ScanIs
  <2>4. o.start \in Nat /\ o.end \in Nat /\ o.start < o.end
    BY <1>2, <1>7, <2>3 DEF Apart
  <2>5. o.start < A + L /\ A < o.end
    BY <2>2, <2>3 DEF Overlap
  <2>6. \E k \in 0..(L - 1) : ~Untouched(K, A + k)
    <3>1. A \in Nat /\ L > 0
      BY <1>5, <1>7
    <3>. QED
      BY <1>5, <2>3, <2>4, <2>5, <3>1, UntouchedIs
  <2>. QED
    BY <1>11, <2>6
<1>14. CASE \E h \in Hits(t, d)[1] : Reaches(h, A, A + L)
  <2>1. PICK h \in Hits(t, d)[1] : Reaches(h, A, A + L)
    BY <1>14
  <2>2. h.start \in Nat /\ h.end \in Nat /\ h.start < h.end
    <3>1. h.start \in 1..Len(t) /\ h.end \in (h.start + 1)..(Len(t) + 1)
      BY <1>2, <2>1, HitBounds
    <3>. QED
      BY <1>7, <3>1
  <2>3. h \notin K
    <3>1. SUFFICES ASSUME h \in K  PROVE  FALSE
      OBVIOUS
    <3>2. A \in Nat /\ L > 0 /\ h.start < A + L /\ A < h.end
      BY <1>5, <1>7, <2>1 DEF Reaches
    <3>3. \E k \in 0..(L - 1) : ~Untouched(K, A + k)
      BY <1>5, <2>2, <3>1, <3>2, UntouchedIs
    <3>. QED
      BY <1>11, <3>3
  <2>. QED
    BY <1>1, <1>12, <2>1, <2>3 DEF Missed
<1>. QED
  BY <1>1, <1>2, <1>12, <1>13, <1>14, HitsStanding

-----------------------------------------------------------------------------
(* Restoring: where the pieces of a joined text stand.                     *)

Place(ss) == [n \in 1..(Len(ss) + 1) |-> Len(JoinedUpTo(ss)[n - 1]) + 1]

\* A text that begins with another.
BeginsWith(u, v) == Len(v) <= Len(u) /\ \A i \in 1..Len(v) : u[i] = v[i]

\* Each piece stands in the joined text from its place to the next one's.
LEMMA PlacesAre ==
  ASSUME NEW T, NEW ss \in Seq(Seq(T))
  PROVE  /\ Place(ss) \in [1..(Len(ss) + 1) -> 1..(Len(Joined(ss)) + 1)]
         /\ Place(ss)[1] = 1 /\ Place(ss)[Len(ss) + 1] = Len(Joined(ss)) + 1
         /\ \A n \in 1..Len(ss) :
              /\ Place(ss)[n + 1] = Place(ss)[n] + Len(ss[n])
              /\ \A j \in 1..Len(ss[n]) : Joined(ss)[Place(ss)[n] + j - 1] = ss[n][j]
<1>1. PICK U, N, P, t : U = JoinedUpTo(ss) /\ N = Len(ss) /\ P = Place(ss) /\ t = Joined(ss)
  OBVIOUS
<1>2. N \in Nat /\ U \in [0..N -> Seq(T)] /\ U[0] = << >> /\ \A n \in 1..N : U[n] = U[n - 1] \o ss[n]
  <2>1. Len(ss) \in Nat
    OBVIOUS
  <2>2. /\ JoinedUpTo(ss) \in [0..Len(ss) -> Seq(T)] /\ JoinedUpTo(ss)[0] = << >>
        /\ \A n \in 1..Len(ss) : JoinedUpTo(ss)[n] = JoinedUpTo(ss)[n - 1] \o ss[n]
    BY JoinedUpToIs
  <2>. QED
    BY <1>1, <2>1, <2>2, Zenon
<1>3. t = U[N] /\ \A n \in 1..N : ss[n] \in Seq(T)
  BY <1>1 DEF Joined
<1>4. ASSUME NEW n \in 1..N
      PROVE  /\ U[n - 1] \in Seq(T) /\ U[n] \in Seq(T) /\ Len(U[n]) = Len(U[n - 1]) + Len(ss[n])
             /\ \A i \in 1..Len(U[n - 1]) : U[n][i] = U[n - 1][i]
             /\ \A j \in 1..Len(ss[n]) : U[n][Len(U[n - 1]) + j] = ss[n][j]
  <2>1. U[n - 1] \in Seq(T) /\ ss[n] \in Seq(T) /\ U[n] \in Seq(T)
    <3>1. n - 1 \in 0..N /\ n \in 0..N
      BY <1>2
    <3>. QED
      BY <1>2, <1>3, <3>1
  <2>2. PICK u, v : u = U[n - 1] /\ v = ss[n]
    OBVIOUS
  <2>3. U[n] = u \o v /\ u \in Seq(T) /\ v \in Seq(T)
    BY <1>2, <2>1, <2>2
  <2>4. /\ Len(u \o v) = Len(u) + Len(v) /\ \A i \in 1..Len(u) : (u \o v)[i] = u[i]
        /\ \A j \in 1..Len(v) : (u \o v)[Len(u) + j] = v[j]
    BY <2>3
  <2>. QED
    BY <2>1, <2>2, <2>3, <2>4
<1> DEFINE S == {m \in Nat : m <= N => \A n \in 0..m : BeginsWith(U[m], U[n])}
<1>5. 0 \in S
  BY <1>2 DEF BeginsWith
<1>6. ASSUME NEW m \in S  PROVE  m + 1 \in S
  <2>1. SUFFICES ASSUME m + 1 <= N, NEW n \in 0..(m + 1)  PROVE  BeginsWith(U[m + 1], U[n])
    OBVIOUS
  <2>2. PICK k : k = m + 1
    OBVIOUS
  <2>3. k \in 1..N /\ k - 1 = m /\ m \in 0..N /\ k \in 0..N /\ n \in 0..N
    BY <1>2, <2>1, <2>2
  <2>4. BeginsWith(U[k], U[m])
    <3>1. /\ U[k - 1] \in Seq(T) /\ ss[k] \in Seq(T) /\ Len(U[k]) = Len(U[k - 1]) + Len(ss[k])
          /\ \A i \in 1..Len(U[k - 1]) : U[k][i] = U[k - 1][i]
      BY <1>3, <1>4, <2>3
    <3>2. Len(U[k - 1]) <= Len(U[k])
      <4>1. PICK x, y, z : x = Len(U[k - 1]) /\ y = Len(ss[k]) /\ z = Len(U[k])
        OBVIOUS
      <4>2. x \in Nat /\ y \in Nat
        BY <3>1, <4>1
      <4>3. z = x + y
        BY <3>1, <4>1
      <4>4. x <= z
        BY <4>2, <4>3
      <4>. QED
        BY <4>1, <4>4
    <3>. QED
      BY <2>3, <3>1, <3>2 DEF BeginsWith
  <2>5. CASE n = m + 1
    BY <2>2, <2>5 DEF BeginsWith
  <2>6. CASE n # m + 1
    <3>1. n \in 0..m /\ m <= N
      BY <2>3, <2>6
    <3>2. BeginsWith(U[m], U[n])
      BY <3>1
    <3>3. Len(U[m]) \in Nat /\ Len(U[n]) \in Nat /\ Len(U[k]) \in Nat
      BY <1>2, <2>3
    <3>. QED
      BY <2>2, <2>4, <3>2, <3>3 DEF BeginsWith
  <2>. QED
    BY <2>5, <2>6
<1>7. S = Nat
  <2>. HIDE DEF S
  <2>. QED
    BY <1>5, <1>6, InductionOnNat DEF S
<1>8. ASSUME NEW n \in 0..N  PROVE  BeginsWith(t, U[n]) /\ Len(U[n]) \in Nat
  <2>1. N \in S
    BY <1>2, <1>7
  <2>. QED
    BY <1>2, <1>3, <2>1
<1>9. Len(t) \in Nat
  BY <1>2, <1>3
<1>10. P = [n \in 1..(N + 1) |-> Len(U[n - 1]) + 1]
  BY <1>1 DEF Place
<1>11. P \in [1..(N + 1) -> 1..(Len(t) + 1)]
  <2>1. ASSUME NEW n \in 1..(N + 1)  PROVE  Len(U[n - 1]) + 1 \in 1..(Len(t) + 1)
    <3>1. n - 1 \in 0..N
      BY <1>2
    <3>2. Len(U[n - 1]) \in Nat /\ Len(U[n - 1]) <= Len(t)
      BY <1>8, <3>1 DEF BeginsWith
    <3>. QED
      BY <1>9, <3>2
  <2>. QED
    BY <1>10, <2>1
<1>12. P[1] = 1
  <2>1. 1 \in 1..(N + 1) /\ 1 - 1 = 0 /\ Len(U[0]) = 0
    BY <1>2
  <2>. QED
    BY <1>10, <2>1
<1>13. P[N + 1] = Len(t) + 1
  <2>1. N + 1 \in 1..(N + 1) /\ N + 1 - 1 = N
    BY <1>2
  <2>. QED
    <3>1. PICK x : x = N + 1
      OBVIOUS
    <3>2. P[x] = Len(U[x - 1]) + 1 /\ x - 1 = N
      BY <1>2, <1>10, <2>1, <3>1
    <3>. QED
      BY <1>3, <3>1, <3>2
<1>14. ASSUME NEW n \in 1..N
       PROVE  P[n + 1] = P[n] + Len(ss[n]) /\ \A j \in 1..Len(ss[n]) : t[P[n] + j - 1] = ss[n][j]
  <2>1. n \in 1..(N + 1) /\ n + 1 \in 1..(N + 1) /\ n + 1 - 1 = n /\ n - 1 \in 0..N /\ n \in 0..N
    BY <1>2
  <2>2. PICK a, b, l : a = Len(U[n - 1]) /\ b = Len(U[n]) /\ l = Len(ss[n])
    OBVIOUS
  <2>3. a \in Nat /\ b \in Nat /\ l \in Nat /\ b = a + l
    <3>1. Len(ss[n]) \in Nat
      BY <1>3
    <3>. QED
      BY <1>4, <1>8, <2>1, <2>2, <3>1
  <2>4. P[n] = a + 1 /\ P[n + 1] = b + 1
    BY <1>10, <2>1, <2>2
  <2>5. ASSUME NEW j \in 1..l  PROVE  t[P[n] + j - 1] = ss[n][j]
    <3>1. PICK i : i = a + j
      OBVIOUS
    <3>2. P[n] + j - 1 = i /\ i \in 1..b
      BY <2>3, <2>4, <3>1
    <3>3. U[n][i] = ss[n][j]
      BY <1>4, <2>2, <3>1
    <3>4. t[i] = U[n][i]
      BY <1>8, <2>1, <2>2, <3>2 DEF BeginsWith
    <3>. QED
      BY <3>2, <3>3, <3>4
  <2>6. P[n + 1] = P[n] + l
    BY <2>3, <2>4
  <2>. QED
    BY <2>2, <2>5, <2>6
<1>. QED
  BY <1>1, <1>11, <1>12, <1>13, <1>14

\* The placeholders the table may know under a key.
Masks(kk) == {Placeholder(kk, w) : w \in Secrets}

LEMMA SecretIs ==
  ASSUME NEW s \in Secrets
  PROVE  /\ s \in Seq(Char) /\ s \in Strings /\ Len(s) \in Nat /\ Len(s) >= 1
         /\ \E d \in 1..Len(Detectors) : s \in Detectors[d].valid
<1>1. PICK d \in 1..Len(Detectors) : s \in Detectors[d].valid
  BY DEF Secrets
<1>2. s \in Detectors[d].words
  BY <1>1, SecretsAre
<1>. QED
  BY <1>1, <1>2, WordsAre DEF Strings, Atom

LEMMA MaskIs == \A kk, s : Placeholder(kk, s).secret = s /\ Placeholder(kk, s).key = kk
  BY DEF Placeholder

LEMMA MasksAre ==
  ASSUME NEW kk \in Keys, NEW x \in Masks(kk)
  PROVE  /\ x \in Tokens /\ x \in Atom /\ IsPlaceholder(x) /\ x.secret \in Secrets
         /\ x = Placeholder(kk, x.secret) /\ x \notin Char
<1>1. PICK w \in Secrets : x = Placeholder(kk, w)
  BY DEF Masks
<1>2. x \in Tokens
  BY <1>1 DEF Tokens
<1>3. x \in Atom
  BY <1>2 DEF Atom
<1>. QED
  BY <1>1, <1>2, <1>3, MaskIs, TokensAreNoChars DEF IsPlaceholder

\* None of the pieces holds a placeholder the table knows.
LEMMA PiecesAre ==
  ASSUME NEW q \in Strings, NEW kk \in Keys, NEW M \in SUBSET Masks(kk)
  PROVE  /\ Pieces(M, q) \in Seq(Seq(Atom \ M)) /\ Len(Pieces(M, q)) = Len(q)
         /\ RestoreInText(M, q) = Joined(Pieces(M, q))
         /\ \A n \in 1..Len(q) :
              /\ q[n] \in M => Pieces(M, q)[n] \in Secrets /\ q[n] = Placeholder(kk, Pieces(M, q)[n])
              /\ q[n] \notin M => Pieces(M, q)[n] = <<q[n]>>
<1>1. Len(q) \in Nat /\ \A n \in 1..Len(q) : q[n] \in Atom
  BY DEF Strings
<1>2. PICK P : P = Pieces(M, q)
  OBVIOUS
<1>3. DOMAIN P = 1..Len(q) /\ P = [n \in 1..Len(q) |-> P[n]]
      /\ \A n \in 1..Len(q) :
           P[n] = IF IsPlaceholder(q[n]) /\ q[n] \in M THEN q[n].secret ELSE <<q[n]>>
  BY <1>2 DEF Pieces
<1>4. ASSUME NEW n \in 1..Len(q), q[n] \in M
      PROVE  P[n] \in Secrets /\ q[n] = Placeholder(kk, P[n])
  <2>1. PICK x : x = q[n]
    OBVIOUS
  <2>2. x \in Masks(kk)
    BY <1>4, <2>1
  <2>3. IsPlaceholder(x) /\ x.secret \in Secrets /\ x = Placeholder(kk, x.secret)
    BY <2>2, MasksAre
  <2>4. P[n] = x.secret
    BY <1>3, <1>4, <2>1, <2>3
  <2>. QED
    BY <2>1, <2>3, <2>4
<1>5. ASSUME NEW n \in 1..Len(q), q[n] \notin M  PROVE  P[n] = <<q[n]>>
  BY <1>3, <1>5
<1>6. \A n \in 1..Len(q) : P[n] \in Seq(Atom \ M)
  <2>1. ASSUME NEW n \in 1..Len(q), q[n] \in M  PROVE  P[n] \in Seq(Atom \ M)
    <3>1. P[n] \in Seq(Char)
      BY <1>4, <2>1, SecretIs
    <3>2. Char \subseteq Atom \ M
      <4>1. \A x \in M : x \notin Char
        BY MasksAre
      <4>. QED
        BY <4>1 DEF Atom
    <3>. QED
      BY <3>1, <3>2
  <2>2. ASSUME NEW n \in 1..Len(q), q[n] \notin M  PROVE  P[n] \in Seq(Atom \ M)
    <3>1. PICK T, x : T = Atom \ M /\ x = q[n]
      OBVIOUS
    <3>2. x \in T
      BY <1>1, <2>2, <3>1
    <3>3. <<x>> \in Seq(T)
      BY <3>2
    <3>. QED
      BY <1>5, <2>2, <3>1, <3>3
  <2>. QED
    BY <2>1, <2>2
<1>7. P \in Seq(Seq(Atom \ M)) /\ Len(P) = Len(q)
  <2>1. PICK T, N : T = Seq(Atom \ M) /\ N = Len(q)
    OBVIOUS
  <2>2. P \in [1..N -> T] /\ N \in Nat
    BY <1>1, <1>3, <1>6, <2>1
  <2>3. P \in Seq(T) /\ Len(P) = N
    BY <2>2
  <2>. QED
    BY <2>1, <2>3
<1>8. RestoreInText(M, q) = Joined(P)
  BY <1>2 DEF RestoreInText
<1>. QED
  BY <1>2, <1>4, <1>5, <1>7, <1>8

\* A restored text holds no placeholder the table knows.
LEMMA RestoredIs ==
  ASSUME NEW q \in Strings, NEW kk \in Keys, NEW M \in SUBSET Masks(kk)
  PROVE  RestoreInText(M, q) \in Strings /\ RestoreInText(M, q) \in Seq(Atom \ M)
<1>1. PICK T, P : T = Atom \ M /\ P = Pieces(M, q)
  OBVIOUS
<1>2. P \in Seq(Seq(T)) /\ RestoreInText(M, q) = Joined(P)
  BY <1>1, PiecesAre
<1>3. Joined(P) \in Seq(T)
  BY <1>2, JoinedIsSeq
<1>. QED
  BY <1>1, <1>2, <1>3 DEF Strings

\* Without placeholders in the table a text is left as it is.
LEMMA NothingToRestore ==
  ASSUME NEW q \in Strings
  PROVE  RestoreInText({}, q) = q
<1>1. PICK P, N : P = Pieces({}, q) /\ N = Len(q)
  OBVIOUS
<1>2. 1 \in Keys
  BY ConversationAssumption DEF Keys
<1>3. /\ P \in Seq(Seq(Atom)) /\ Len(P) = N /\ RestoreInText({}, q) = Joined(P)
      /\ \A n \in 1..N : P[n] = <<q[n]>>
  <2>1. {} \in SUBSET Masks(1) /\ Atom \ {} = Atom
    OBVIOUS
  <2>. QED
    BY <1>1, <1>2, <2>1, PiecesAre
<1>4. N \in Nat /\ q \in Seq(Atom)
  BY <1>1 DEF Strings
<1>5. PICK t, R : t = Joined(P) /\ R = Place(P)
  OBVIOUS
<1>6. /\ R[1] = 1 /\ R[N + 1] = Len(t) + 1
      /\ \A n \in 1..N : R[n + 1] = R[n] + Len(P[n]) /\ \A j \in 1..Len(P[n]) : t[R[n] + j - 1] = P[n][j]
  <2>1. /\ Place(P)[1] = 1 /\ Place(P)[Len(P) + 1] = Len(Joined(P)) + 1
        /\ \A n \in 1..Len(P) :
             /\ Place(P)[n + 1] = Place(P)[n] + Len(P[n])
             /\ \A j \in 1..Len(P[n]) : Joined(P)[Place(P)[n] + j - 1] = P[n][j]
    <3>1. P \in Seq(Seq(Atom))
      BY <1>3
    <3>. QED
      BY <3>1, PlacesAre
  <2>2. Len(P) = N
    BY <1>3
  <2>. QED
    BY <1>5, <2>1, <2>2
<1>7. t \in Seq(Atom) /\ Len(t) \in Nat
  BY <1>3, <1>5, JoinedIsSeq
<1>8. ASSUME NEW n \in 1..N, R[n] \in Nat  PROVE  R[n + 1] = R[n] + 1 /\ t[R[n]] = q[n]
  <2>1. Len(P[n]) = 1 /\ P[n][1] = q[n]
    <3>1. P[n] = <<q[n]>>
      BY <1>3
    <3>. QED
      BY <3>1
  <2>2. R[n] + 1 - 1 = R[n]
    BY <1>8
  <2>3. R[n + 1] = R[n] + 1
    BY <1>6, <2>1
  <2>4. 1 \in 1..Len(P[n])
    BY <2>1
  <2>5. t[R[n] + 1 - 1] = P[n][1]
    BY <1>6, <2>4
  <2>. QED
    BY <2>1, <2>2, <2>3, <2>5
<1>9. \A n \in 1..N : R[n] = n
  <2> DEFINE S == {n \in Nat : n < N => R[n + 1] = n + 1}
  <2>2. 0 \in S
    BY <1>6
  <2>3. ASSUME NEW n \in S  PROVE  n + 1 \in S
    <3>1. CASE n + 1 < N
      <4>1. n + 1 \in 1..N /\ R[n + 1] = n + 1
        BY <1>4, <3>1
      <4>2. PICK k : k = n + 1
        OBVIOUS
      <4>3. R[k + 1] = k + 1
        BY <1>8, <4>1, <4>2
      <4>. QED
        BY <4>2, <4>3
    <3>. QED
      BY <3>1
  <2>4. S = Nat
    <3>. HIDE DEF S
    <3>. QED
      BY <2>2, <2>3, InductionOnNat DEF S
  <2>5. ASSUME NEW n \in 1..N  PROVE  R[n] = n
    <3>1. PICK k : k = n - 1
      OBVIOUS
    <3>2. k \in Nat /\ k < N /\ k + 1 = n
      BY <1>4, <3>1
    <3>3. k \in S
      BY <2>4, <3>2
    <3>. QED
      BY <3>2, <3>3
  <2>. QED
    BY <2>5
<1>10. R[N + 1] = N + 1
  <2>1. CASE N = 0
    BY <1>6, <2>1
  <2>2. CASE N # 0
    <3>1. N \in 1..N
      BY <1>4, <2>2
    <3>. QED
      BY <1>8, <1>9, <3>1
  <2>. QED
    BY <2>1, <2>2
<1>11. Len(t) = N
  BY <1>4, <1>6, <1>7, <1>10
<1>12. \A n \in 1..N : t[n] = q[n]
  BY <1>8, <1>9
<1>13. t = q
  BY <1>1, <1>4, <1>7, <1>11, <1>12, SeqEqual
<1>. QED
  BY <1>3, <1>5, <1>13

All == 1..Len(Detectors)

-----------------------------------------------------------------------------
\* A text that was restored, piece by piece.
Restoring(q, kk, M, t, ss, P) ==
  /\ ss \in Seq(Seq(Atom)) /\ Len(ss) = Len(q) /\ t \in Strings
  /\ \A n \in 1..Len(q) :
       /\ q[n] \in M => ss[n] \in Secrets /\ q[n] = Placeholder(kk, ss[n])
       /\ q[n] \notin M => ss[n] = <<q[n]>>
  /\ P \in [1..(Len(q) + 1) -> 1..(Len(t) + 1)] /\ P[1] = 1 /\ P[Len(q) + 1] = Len(t) + 1
  /\ \A n \in 1..Len(q) : /\ P[n + 1] = P[n] + Len(ss[n])
                          /\ \A j \in 1..Len(ss[n]) : t[P[n] + j - 1] = ss[n][j]

\* So is every text restoreInText makes.
LEMMA RestoringIs ==
  ASSUME NEW q \in Strings, NEW kk \in Keys, NEW M \in SUBSET Masks(kk)
  PROVE  Restoring(q, kk, M, RestoreInText(M, q), Pieces(M, q), Place(Pieces(M, q)))
<1>1. PICK ss, t, P : ss = Pieces(M, q) /\ t = RestoreInText(M, q) /\ P = Place(ss)
  OBVIOUS
<1>2. /\ ss \in Seq(Seq(Atom \ M)) /\ Len(ss) = Len(q) /\ t = Joined(ss)
      /\ \A n \in 1..Len(q) :
           /\ q[n] \in M => ss[n] \in Secrets /\ q[n] = Placeholder(kk, ss[n])
           /\ q[n] \notin M => ss[n] = <<q[n]>>
  BY <1>1, PiecesAre
<1>3. t \in Strings
  BY <1>1, RestoredIs
<1>4. ss \in Seq(Seq(Atom))
  <2>1. PICK T : T = Atom \ M
    OBVIOUS
  <2>2. Seq(T) \subseteq Seq(Atom)
    BY <2>1
  <2>. QED
    BY <1>2, <2>1, <2>2
<1>5. /\ Place(ss) \in [1..(Len(ss) + 1) -> 1..(Len(Joined(ss)) + 1)]
      /\ Place(ss)[1] = 1 /\ Place(ss)[Len(ss) + 1] = Len(Joined(ss)) + 1
      /\ \A n \in 1..Len(ss) :
           /\ Place(ss)[n + 1] = Place(ss)[n] + Len(ss[n])
           /\ \A j \in 1..Len(ss[n]) : Joined(ss)[Place(ss)[n] + j - 1] = ss[n][j]
  BY <1>4, PlacesAre
<1>6. Restoring(q, kk, M, t, ss, P)
  BY <1>1, <1>2, <1>3, <1>4, <1>5 DEF Restoring
<1>. QED
  BY <1>1, <1>6

\* What was no placeholder of the table stands as it did.
LEMMA CopiedIs ==
  ASSUME NEW q \in Strings, NEW kk \in Keys, NEW M, NEW t, NEW ss, NEW P, Restoring(q, kk, M, t, ss, P),
         NEW n \in 1..Len(q), q[n] \notin M
  PROVE  /\ P[n] \in 1..Len(t) /\ P[n + 1] = P[n] + 1 /\ t[P[n]] = q[n]
<1>1. /\ ss[n] = <<q[n]>> /\ P[n + 1] = P[n] + Len(ss[n])
      /\ \A j \in 1..Len(ss[n]) : t[P[n] + j - 1] = ss[n][j]
  BY DEF Restoring
<1>2. Len(ss[n]) = 1 /\ ss[n][1] = q[n]
  BY <1>1
<1>3. P[n] \in 1..(Len(t) + 1) /\ P[n + 1] \in 1..(Len(t) + 1) /\ Len(t) \in Nat
  <2>1. n \in 1..(Len(q) + 1) /\ n + 1 \in 1..(Len(q) + 1)
    BY DEF Strings
  <2>. QED
    <3>1. P \in [1..(Len(q) + 1) -> 1..(Len(t) + 1)] /\ t \in Strings
      BY DEF Restoring
    <3>2. Len(t) \in Nat
      BY <3>1 DEF Strings
    <3>. QED
      BY <2>1, <3>1, <3>2
<1>4. P[n + 1] = P[n] + 1
  BY <1>1, <1>2
<1>5. 1 \in 1..Len(ss[n]) /\ P[n] + 1 - 1 = P[n]
  BY <1>2, <1>3
<1>6. t[P[n]] = q[n]
  BY <1>1, <1>2, <1>5
<1>. QED
  BY <1>3, <1>4, <1>6

\* What was one gave way to its secret.
LEMMA SecretStands ==
  ASSUME NEW q \in Strings, NEW kk \in Keys, NEW M, NEW t, NEW ss, NEW P, Restoring(q, kk, M, t, ss, P),
         NEW n \in 1..Len(q), q[n] \in M
  PROVE  /\ P[n] \in 1..Len(t) /\ P[n + 1] = P[n] + Len(ss[n]) /\ Len(ss[n]) \in Nat /\ Len(ss[n]) >= 1
         /\ ss[n] \in Secrets /\ q[n] = Placeholder(kk, ss[n]) /\ StandsAt(t, ss[n], P[n])
<1>1. PICK s, A, L, l : s = ss[n] /\ A = P[n] /\ L = Len(t) /\ l = Len(s)
  OBVIOUS
<1>2. /\ s \in Secrets /\ q[n] = Placeholder(kk, s) /\ P[n + 1] = A + l /\ t \in Strings
      /\ \A j \in 1..l : t[A + j - 1] = s[j]
  BY <1>1 DEF Restoring
<1>3. s \in Strings /\ l \in Nat /\ l >= 1 /\ L \in Nat
  BY <1>1, <1>2, SecretIs DEF Strings
<1>4. A \in 1..(L + 1) /\ P[n + 1] \in 1..(L + 1)
  <2>1. n \in 1..(Len(q) + 1) /\ n + 1 \in 1..(Len(q) + 1)
    BY DEF Strings
  <2>2. P \in [1..(Len(q) + 1) -> 1..(L + 1)]
    BY <1>1 DEF Restoring
  <2>. QED
    BY <1>1, <2>1, <2>2
<1>5. PICK e : e = A + l - 1
  OBVIOUS
<1>6. A \in 1..L /\ e \in A..L /\ e - A + 1 = l /\ A + l <= L + 1
  BY <1>2, <1>3, <1>4, <1>5
<1>7. SubSeq(t, A, e) = s
  <2>1. SubSeq(t, A, e) \in Strings /\ Len(SubSeq(t, A, e)) = l /\ \A k \in 1..l : SubSeq(t, A, e)[k] = t[A + k - 1]
    BY <1>1, <1>2, <1>6, SubSeqIs
  <2>2. \A k \in 1..l : SubSeq(t, A, e)[k] = s[k]
    BY <1>2, <2>1
  <2>. QED
    BY <1>1, <1>3, <2>1, <2>2, SeqEqual DEF Strings
<1>8. StandsAt(t, s, A)
  BY <1>1, <1>5, <1>6, <1>7 DEF StandsAt
<1>. QED
  BY <1>1, <1>2, <1>3, <1>6, <1>8

\* The pieces stand one after the other, none of them empty.
LEMMA PiecesGrow ==
  ASSUME NEW q \in Strings, NEW kk \in Keys, NEW M, NEW t, NEW ss, NEW P, Restoring(q, kk, M, t, ss, P),
         NEW i \in 1..Len(q), NEW j \in (i + 1)..(Len(q) + 1)
  PROVE  P[i] \in Nat /\ P[j] \in Nat /\ P[i] < P[i + 1] /\ P[i + 1] <= P[j]
<1>1. PICK N, T : N = Len(q) /\ T = Len(t)
  OBVIOUS
<1>2. N \in Nat /\ T \in Nat /\ P \in [1..(N + 1) -> 1..(T + 1)]
  BY <1>1 DEF Restoring, Strings
<1>3. \A n \in 1..(N + 1) : P[n] \in Nat
  BY <1>2
<1>4. ASSUME NEW n \in 1..N  PROVE  P[n] < P[n + 1]
  <2>1. n \in 1..(N + 1) /\ n + 1 \in 1..(N + 1)
    BY <1>2
  <2>2. CASE q[n] \in M
    <3>1. P[n + 1] = P[n] + Len(ss[n]) /\ Len(ss[n]) \in Nat /\ Len(ss[n]) >= 1
      BY <1>1, <2>2, SecretStands
    <3>. QED
      BY <1>3, <2>1, <3>1
  <2>3. CASE q[n] \notin M
    <3>1. P[n + 1] = P[n] + 1
      BY <1>1, <2>3, CopiedIs
    <3>. QED
      BY <1>3, <2>1, <3>1
  <2>. QED
    BY <2>2, <2>3
<1> DEFINE S == {k \in Nat : i + 1 + k <= N + 1 => P[i + 1] <= P[i + 1 + k]}
<1>5. 0 \in S
  <2>1. i + 1 + 0 = i + 1 /\ i + 1 \in 1..(N + 1)
    BY <1>1, <1>2
  <2>. QED
    BY <1>3, <2>1
<1>6. ASSUME NEW k \in S  PROVE  k + 1 \in S
  <2>1. PICK n : n = i + 1 + k
    OBVIOUS
  <2>2. CASE n + 1 <= N + 1
    <3>1. n \in 1..N /\ i + 1 + (k + 1) = n + 1 /\ i + 1 \in 1..(N + 1) /\ n \in 1..(N + 1) /\ n + 1 \in 1..(N + 1)
      BY <1>1, <1>2, <2>1, <2>2
    <3>2. P[i + 1] <= P[n] /\ P[n] < P[n + 1]
      BY <1>4, <2>1, <3>1
    <3>3. P[i + 1] \in Nat /\ P[n] \in Nat /\ P[n + 1] \in Nat
      BY <1>3, <3>1
    <3>. QED
      BY <3>1, <3>2, <3>3
  <2>3. CASE ~(n + 1 <= N + 1)
    BY <2>1, <2>3
  <2>. QED
    BY <2>2, <2>3
<1>7. S = Nat
  <2>. HIDE DEF S
  <2>. QED
    BY <1>5, <1>6, InductionOnNat DEF S
<1>8. P[i + 1] <= P[j]
  <2>1. PICK k : k = j - (i + 1)
    OBVIOUS
  <2>2. k \in Nat /\ i + 1 + k = j /\ j <= N + 1
    BY <1>1, <1>2, <2>1
  <2>. QED
    BY <1>7, <2>2
<1>9. i \in 1..(N + 1) /\ j \in 1..(N + 1)
  BY <1>1, <1>2
<1>. QED
  BY <1>1, <1>3, <1>4, <1>8, <1>9

\* So two that share a position are the same.
LEMMA SamePiece ==
  ASSUME NEW q \in Strings, NEW kk \in Keys, NEW M, NEW t, NEW ss, NEW P, Restoring(q, kk, M, t, ss, P),
         NEW i \in 1..Len(q), NEW j \in 1..Len(q), NEW x \in Nat, P[i] <= x, x < P[i + 1],
         P[j] <= x, x < P[j + 1]
  PROVE  i = j
<1>1. Len(q) \in Nat
  BY DEF Strings
<1>2. \A n \in 1..Len(q) : n + 1 \in (n + 1)..(Len(q) + 1)
  BY <1>1
<1>3. P[i] \in Nat /\ P[j] \in Nat /\ P[i + 1] \in Nat /\ P[j + 1] \in Nat
  BY <1>2, PiecesGrow
<1>4. ASSUME i < j  PROVE  FALSE
  <2>1. j \in (i + 1)..(Len(q) + 1)
    BY <1>1, <1>4
  <2>2. P[i + 1] <= P[j]
    BY <2>1, PiecesGrow
  <2>. QED
    BY <1>3, <2>2
<1>5. ASSUME j < i  PROVE  FALSE
  <2>1. i \in (j + 1)..(Len(q) + 1)
    BY <1>1, <1>5
  <2>2. P[j + 1] <= P[i]
    BY <2>1, PiecesGrow
  <2>. QED
    BY <1>3, <2>2
<1>. QED
  BY <1>4, <1>5

\* A text put together from its end, element by element.
BuiltDown(f, q) == f[Len(q) + 1] = << >> /\ \A n \in 1..Len(q) : f[n] = <<q[n]>> \o f[n + 1]

\* ReplaceWith of a text, put together from its end.
LEMMA BuiltIs ==
  ASSUME NEW q \in Strings, NEW f \in [1..(Len(q) + 1) -> Strings], BuiltDown(f, q)
  PROVE  f[1] = q
<1>1. PICK N : N = Len(q)
  OBVIOUS
<1>2. N \in Nat /\ f \in [1..(N + 1) -> Strings]
  BY <1>1 DEF Strings
<1>3. f[N + 1] = << >> /\ \A n \in 1..N : f[n] = <<q[n]>> \o f[n + 1]
  BY <1>1 DEF BuiltDown
<1> DEFINE S == {n \in 1..(N + 1) : Len(f[n]) = N + 1 - n /\ \A j \in 1..(N + 1 - n) : f[n][j] = q[n + j - 1]}
<1>4. N + 1 \in S
  <2>1. N + 1 - (N + 1) = 0 /\ N + 1 \in 1..(N + 1)
    BY <1>2
  <2>2. Len(f[N + 1]) = 0
    BY <1>3
  <2>. QED
    BY <2>1, <2>2
<1>5. ASSUME NEW n \in 1..N, \A m \in (n + 1)..(N + 1) : m \in S  PROVE  n \in S
  <2>1. PICK k, x, u, v : k = n + 1 /\ x = q[n] /\ u = f[n] /\ v = f[k]
    OBVIOUS
  <2>2. k \in (n + 1)..(N + 1) /\ k \in 1..(N + 1) /\ n \in 1..(N + 1)
    BY <1>2, <2>1
  <2>3. u = <<x>> \o v /\ v \in Strings /\ Len(v) \in Nat
    <3>1. u = <<x>> \o v
      BY <1>3, <2>1
    <3>2. v \in Strings
      BY <1>2, <2>1, <2>2
    <3>. QED
      BY <3>1, <3>2 DEF Strings
  <2>4. Len(v) = N + 1 - k /\ \A j \in 1..(N + 1 - k) : v[j] = q[k + j - 1]
    BY <1>5, <2>1, <2>2
  <2>5. Len(u) = Len(v) + 1 /\ u[1] = x /\ \A j \in 1..Len(v) : u[j + 1] = v[j]
    BY <2>3 DEF Strings
  <2>6. Len(u) = N + 1 - n
    BY <1>2, <2>1, <2>4, <2>5
  <2>7. ASSUME NEW j \in 1..(N + 1 - n)  PROVE  u[j] = q[n + j - 1]
    <3>1. CASE j = 1
      <4>1. n + j - 1 = n
        BY <3>1
      <4>. QED
        BY <2>1, <2>5, <3>1, <4>1
    <3>2. CASE j # 1
      <4>1. PICK i : i = j - 1
        OBVIOUS
      <4>2. i \in 1..(N + 1 - k) /\ i + 1 = j /\ k + i - 1 = n + j - 1
        BY <1>2, <2>1, <3>2, <4>1
      <4>3. u[i + 1] = v[i] /\ v[i] = q[k + i - 1]
        BY <2>4, <2>5, <4>2
      <4>. QED
        BY <4>2, <4>3
    <3>. QED
      BY <3>1, <3>2
  <2>. QED
    BY <2>1, <2>2, <2>6, <2>7
<1>6. \A n \in 1..(N + 1) : n \in S
  <2>. HIDE DEF S
  <2>. QED
    BY <1>2, <1>4, <1>5, InductionDown
<1>7. PICK u : u = f[1]
  OBVIOUS
<1>8. u \in Strings /\ Len(u) = N /\ \A j \in 1..N : u[j] = q[j]
  <2>1. 1 \in 1..(N + 1) /\ N + 1 - 1 = N
    BY <1>2
  <2>2. Len(u) = N + 1 - 1 /\ \A j \in 1..(N + 1 - 1) : u[j] = q[1 + j - 1]
    BY <1>6, <1>7, <2>1
  <2>3. \A j \in 1..N : 1 + j - 1 = j
    BY <1>2
  <2>. QED
    BY <1>2, <1>7, <2>1, <2>2, <2>3
<1>. QED
  BY <1>1, <1>7, <1>8, SeqEqual DEF Strings

\* A text without matches is left as it is.
LEMMA NothingReplaced ==
  ASSUME NEW q \in Strings, NEW kk \in Keys
  PROVE  ReplaceWith(kk, q, {}) = q
<1>1. PICK R : R = ReplacedFrom(kk, q, {})
  OBVIOUS
<1>2. Apart(q, {})
  BY DEF Apart
<1>3. /\ R \in [1..(Len(q) + 1) -> Strings] /\ R[Len(q) + 1] = << >>
      /\ \A i \in 1..Len(q) : ~Starts({}, i) => R[i] = <<q[i]>> \o R[i + 1]
  BY <1>1, <1>2, ReplacedIs
<1>4. BuiltDown(R, q)
  BY <1>3 DEF BuiltDown, Starts
<1>5. R[1] = q
  BY <1>3, <1>4, BuiltIs
<1>. QED
  BY <1>1, <1>5 DEF ReplaceWith

\* What a detector finds nothing in is left as it is, whichever detectors look.
LEMMA QuotedKept ==
  ASSUME NEW q \in Strings, FoundAll(q, All) = {}, NEW D \in SUBSET All, NEW kk \in Keys
  PROVE  ReplaceWith(kk, q, Scan(q, D)) = q
<1>1. FoundAll(q, D) = {}
  BY DEF FoundAll
<1>2. Scan(q, D) = {}
  <2>1. D \in SUBSET (1..Len(Detectors))
    BY DEF All
  <2>. QED
    BY <1>1, <2>1, ScanIs
<1>. QED
  BY <1>2, NothingReplaced

\* Every hit in a restored text that is a match, or shares some of what was restored,
\* lies in one of the secrets restored.
Confined(q, M, t, P) ==
  \A d \in All : \A h \in Hits(t, d)[1] :
    h \in Find(t, d) \/ (\E n \in 1..Len(q) : q[n] \in M /\ P[n] < h.end /\ h.start < P[n + 1]) =>
      \E n \in 1..Len(q) : q[n] \in M /\ P[n] <= h.start /\ h.end <= P[n + 1]

\* The detectors of a secret find it where it was restored.
LEMMA OwnSecretFound ==
  ASSUME NEW q \in Strings, NEW kk \in Keys, NEW M, NEW t, NEW ss, NEW P, Restoring(q, kk, M, t, ss, P),
         Confined(q, M, t, P), NEW n \in 1..Len(q), q[n] \in M,
         NEW d \in All, ss[n] \in Detectors[d].valid
  PROVE  MatchOf(P[n], P[n + 1], d) \in Find(t, d)
<1>1. PICK s, A, L, C : s = ss[n] /\ A = P[n] /\ L = Len(s) /\ C = P[n + 1]
  OBVIOUS
<1>2. /\ A \in 1..Len(t) /\ L \in Nat /\ L >= 1 /\ C = A + L
      /\ s \in Detectors[d].valid /\ StandsAt(t, s, A)
  BY <1>1, SecretStands
<1>3. t \in Strings /\ d \in 1..Len(Detectors)
  BY DEF Restoring, All
<1>4. SUFFICES ASSUME \E h \in Hits(t, d)[1] : Reaches(h, A, C)  PROVE  FALSE
  BY <1>1, <1>2, <1>3, HitsStanding
<1>5. PICK h \in Hits(t, d)[1] : Reaches(h, A, C)
  BY <1>4
<1>6. PICK x, y : x = h.start /\ y = h.end
  OBVIOUS
<1>7. x \in Nat /\ y \in Nat /\ x < y /\ x < C /\ A < y /\ (x < A \/ C < y) /\ A \in Nat /\ C \in Nat
  <2>1. h.start \in 1..Len(t) /\ h.end \in (h.start + 1)..(Len(t) + 1) /\ Len(t) \in Nat
    BY <1>3, HitBounds DEF Strings
  <2>. QED
    BY <1>2, <1>5, <1>6, <2>1 DEF Reaches
<1>8. PICK k \in 1..Len(q) : q[k] \in M /\ P[k] <= x /\ y <= P[k + 1]
  BY <1>1, <1>6, <1>7 DEF Confined
<1>9. P[k] \in Nat /\ P[k + 1] \in Nat
  <2>1. k + 1 \in (k + 1)..(Len(q) + 1)
    BY DEF Strings
  <2>. QED
    BY <2>1, PiecesGrow
<1>10. PICK z : z = IF x < A THEN A ELSE x
  OBVIOUS
<1>11. z \in Nat /\ A <= z /\ z < C /\ P[k] <= z /\ z < P[k + 1]
  BY <1>2, <1>7, <1>8, <1>9, <1>10
<1>12. k = n
  BY <1>1, <1>11, SamePiece
<1>. QED
  BY <1>1, <1>7, <1>8, <1>12

\* What is found in a restored text lies in one of the secrets restored.
LEMMA FoundConfined ==
  ASSUME NEW q \in Strings, NEW M, NEW t \in Strings, NEW P, Confined(q, M, t, P), NEW o \in FoundAll(t, All)
  PROVE  \E n \in 1..Len(q) : q[n] \in M /\ P[n] <= o.start /\ o.end <= P[n + 1]
<1>1. o.by \in All /\ o \in Find(t, o.by)
  BY FoundAllIs DEF All
<1>2. o \in Hits(t, o.by)[1]
  BY <1>1 DEF Find
<1>. QED
  BY <1>1, <1>2 DEF Confined

\* The secret is replaced as a whole.
LEMMA OwnSecretKept ==
  ASSUME NEW q \in Strings, NEW kk \in Keys, NEW M, NEW t, NEW ss, NEW P, Restoring(q, kk, M, t, ss, P),
         Confined(q, M, t, P), NEW n \in 1..Len(q), q[n] \in M
  PROVE  \E m \in Scan(t, All) : m.start = P[n] /\ m.end = P[n + 1] /\ Span(t, m) = ss[n]
<1>1. PICK s, A, C : s = ss[n] /\ A = P[n] /\ C = P[n + 1]
  OBVIOUS
<1> DEFINE X == {d \in All : s \in Detectors[d].valid}
<1>2. /\ A \in 1..Len(t) /\ C \in Nat /\ A < C /\ C <= Len(t) + 1
      /\ s \in Secrets /\ SubSeq(t, A, C - 1) = s /\ t \in Strings /\ Len(t) \in Nat
  <2>1. /\ P[n] \in 1..Len(t) /\ P[n + 1] = P[n] + Len(ss[n]) /\ Len(ss[n]) \in Nat /\ Len(ss[n]) >= 1
        /\ ss[n] \in Secrets /\ StandsAt(t, ss[n], P[n])
    BY SecretStands
  <2>2. t \in Strings /\ Len(t) \in Nat
    BY DEF Restoring, Strings
  <2>3. SubSeq(t, A, A + Len(s) - 1) = s /\ A + Len(s) <= Len(t) + 1 /\ C = A + Len(s)
    BY <1>1, <2>1 DEF StandsAt
  <2>4. C \in Nat /\ A < C
    BY <1>1, <2>1, <2>3
  <2>. QED
    BY <1>1, <2>1, <2>2, <2>3, <2>4
<1>3. X \in SUBSET Nat /\ X # {}
  <2>1. \E d \in All : s \in Detectors[d].valid
    BY <1>2, SecretIs DEF All
  <2>2. All \in SUBSET Nat
    BY DetectorsAssumption DEF All
  <2>. QED
    BY <2>1, <2>2
<1>4. PICK d : d = Least(X)
  OBVIOUS
<1>5. d \in X /\ \A e \in X : d <= e
  <2>. HIDE DEF X
  <2>. QED
    BY <1>3, <1>4, LeastExists
<1>6. PICK m : m = MatchOf(A, C, d)
  OBVIOUS
<1>7. m.start = A /\ m.end = C /\ m.by = d
  BY <1>6, MatchIs
<1>8. m \in FoundAll(t, All)
  <2>1. m \in Find(t, d)
    BY <1>1, <1>5, <1>6, OwnSecretFound
  <2>. QED
    BY <1>5, <2>1 DEF FoundAll
<1>9. Span(t, m) = s
  BY <1>2, <1>7 DEF Span
<1>10. ASSUME NEW o \in FoundAll(t, All) \ {m}, Overlap(m, o)  PROVE  Before(m, o)
  <2>1. PICK x, y, e : x = o.start /\ y = o.end /\ e = o.by
    OBVIOUS
  <2>2. x \in 1..Len(t) /\ y \in (x + 1)..(Len(t) + 1) /\ e \in All /\ o \in Find(t, e)
    BY <1>2, <2>1, FoundAllIs DEF All
  <2>3. x < C /\ A < y
    BY <1>7, <1>10, <2>1 DEF Overlap
  <2>4. A <= x /\ y <= C
    <3>1. PICK k \in 1..Len(q) : q[k] \in M /\ P[k] <= x /\ y <= P[k + 1]
      BY <1>2, <2>1, FoundConfined
    <3>2. P[k] \in Nat /\ P[k + 1] \in Nat
      <4>1. k + 1 \in (k + 1)..(Len(q) + 1)
        BY DEF Strings
      <4>. QED
        BY <4>1, PiecesGrow
    <3>3. PICK z : z = IF x < A THEN A ELSE x
      OBVIOUS
    <3>4. z \in Nat /\ A <= z /\ z < C /\ P[k] <= z /\ z < P[k + 1]
      <4>1. x \in Nat /\ y \in Nat /\ x < y /\ A \in Nat /\ C \in Nat /\ A < C
        BY <1>2, <2>2
      <4>. QED
        BY <2>3, <3>1, <3>2, <3>3, <4>1
    <3>5. k = n
      BY <1>1, <3>4, SamePiece
    <3>. QED
      BY <1>1, <3>1, <3>5
  <2>5. CASE y - x < C - A
    <3>1. m.end - m.start > o.end - o.start
      BY <1>2, <1>7, <2>1, <2>2, <2>5
    <3>. QED
      BY <3>1 DEF Before
  <2>6. CASE ~(y - x < C - A)
    <3>1. x = A /\ y = C
      BY <1>2, <2>2, <2>4, <2>6
    <3>2. o = MatchOf(A, C, e) /\ Span(t, o) \in Detectors[e].valid
      <4>1. o = MatchOf(o.start, o.end, e) /\ Span(t, o) \in Detectors[e].valid
        BY <1>2, <2>2, FoundIs DEF All
      <4>. QED
        BY <2>1, <3>1, <4>1
    <3>3. Span(t, o) = s
      BY <1>2, <2>1, <3>1 DEF Span
    <3>4. e \in X
      BY <2>2, <3>2, <3>3
    <3>5. d <= e /\ e # d /\ d \in Nat /\ e \in Nat
      <4>1. d <= e /\ d \in Nat /\ e \in Nat
        <5>. HIDE DEF X
        <5>. QED
          BY <1>3, <1>5, <3>4
      <4>2. e # d
        BY <1>6, <1>10, <3>2
      <4>. QED
        BY <4>1, <4>2
    <3>6. m.by < o.by /\ m.start = o.start /\ m.end = o.end
      BY <1>7, <2>1, <3>1, <3>5
    <3>7. m.start \in Nat /\ m.end \in Nat
      BY <1>2, <1>7
    <3>8. ~(o.end - o.start > m.end - m.start)
      BY <3>6, <3>7
    <3>. QED
      BY <3>6, <3>8 DEF Before
  <2>. QED
    BY <2>5, <2>6
<1>11. m \in Scan(t, All)
  <2>1. All \in SUBSET (1..Len(Detectors))
    BY DEF All
  <2>. QED
    BY <1>2, <1>8, <1>10, <2>1, ScanIs
<1>. QED
  BY <1>1, <1>7, <1>9, <1>11

\* What an upstream wrote and the client got restored goes back to the very text, if
\* nothing else is found in it.
LEMMA RestoredIsMasked ==
  ASSUME NEW q \in Strings, NEW kk \in Keys, NEW M, NEW t, NEW ss, NEW P, Restoring(q, kk, M, t, ss, P),
         Confined(q, M, t, P)
  PROVE  ReplaceWith(kk, t, Scan(t, All)) = q
<1>1. PICK K, N : K = Scan(t, All) /\ N = Len(q)
  OBVIOUS
<1>3. t \in Strings /\ N \in Nat /\ Len(t) \in Nat
  BY <1>1 DEF Restoring, Strings
<1>4. All \in SUBSET (1..Len(Detectors))
  BY DEF All
<1>5. Apart(t, K) /\ K \in SUBSET FoundAll(t, All)
  BY <1>1, <1>3, <1>4, ScannedApart, ScanIs
<1>6. PICK R : R = ReplacedFrom(kk, t, K)
  OBVIOUS
<1>7. /\ R \in [1..(Len(t) + 1) -> Strings] /\ R[Len(t) + 1] = << >>
      /\ \A m \in K : R[m.start] = <<Placeholder(kk, Span(t, m))>> \o R[m.end]
      /\ \A i \in 1..Len(t) : ~Starts(K, i) => R[i] = <<t[i]>> \o R[i + 1]
  <2>1. t \in Strings /\ Apart(t, K)
    BY <1>3, <1>5
  <2>. QED
    <3>1. /\ ReplacedFrom(kk, t, K) \in [1..(Len(t) + 1) -> Strings] /\ ReplacedFrom(kk, t, K)[Len(t) + 1] = << >>
          /\ \A m \in K : ReplacedFrom(kk, t, K)[m.start] = <<Placeholder(kk, Span(t, m))>> \o ReplacedFrom(kk, t, K)[m.end]
          /\ \A i \in 1..Len(t) : ~Starts(K, i) => ReplacedFrom(kk, t, K)[i] = <<t[i]>> \o ReplacedFrom(kk, t, K)[i + 1]
      BY <2>1, ReplacedIs
    <3>. QED
      BY <1>6, <3>1, Zenon
<1>8. /\ P \in [1..(N + 1) -> 1..(Len(t) + 1)] /\ P[1] = 1 /\ P[N + 1] = Len(t) + 1
  BY <1>1 DEF Restoring
<1>9. PICK f : f = [n \in 1..(N + 1) |-> R[P[n]]]
  OBVIOUS
<1>10. f \in [1..(N + 1) -> Strings] /\ \A n \in 1..(N + 1) : f[n] = R[P[n]]
  BY <1>7, <1>8, <1>9
<1>11. ASSUME NEW n \in 1..N  PROVE  R[P[n]] = <<q[n]>> \o R[P[n + 1]]
  <2>1. CASE q[n] \in M
    <3>1. q[n] = Placeholder(kk, ss[n])
      BY <1>1, <2>1, SecretStands
    <3>2. PICK m \in K : m.start = P[n] /\ m.end = P[n + 1] /\ Span(t, m) = ss[n]
      BY <1>1, <2>1, OwnSecretKept
    <3>3. R[m.start] = <<Placeholder(kk, Span(t, m))>> \o R[m.end]
      BY <1>7
    <3>. QED
      BY <3>1, <3>2, <3>3
  <2>2. CASE q[n] \notin M
    <3>1. P[n] \in 1..Len(t) /\ P[n + 1] = P[n] + 1 /\ t[P[n]] = q[n]
      BY <1>1, <2>2, CopiedIs
    <3>2. ~Starts(K, P[n])
      <4>1. ASSUME NEW o \in K, o.start = P[n]  PROVE FALSE
        <5>1. o \in FoundAll(t, All)
          BY <1>5
        <5>2. PICK k \in 1..N : q[k] \in M /\ P[k] <= o.start /\ o.end <= P[k + 1]
          BY <1>1, <1>3, <5>1, FoundConfined
        <5>3. o.start \in Nat /\ o.end \in Nat /\ o.start < o.end
          BY <1>3, <1>5 DEF Apart
        <5>4. P[k] \in Nat /\ P[k + 1] \in Nat
          <6>1. k + 1 \in (k + 1)..(N + 1)
            BY <1>3
          <6>. QED
            BY <1>1, <6>1, PiecesGrow
        <5>5. o.start < P[n + 1] /\ P[n] <= o.start /\ o.start < P[k + 1]
          BY <3>1, <4>1, <5>2, <5>3, <5>4
        <5>6. k = n
          BY <1>1, <5>2, <5>3, <5>5, SamePiece
        <5>. QED
          BY <2>2, <5>2, <5>6
      <4>. QED
        BY <4>1 DEF Starts
    <3>3. R[P[n]] = <<t[P[n]]>> \o R[P[n] + 1]
      BY <1>7, <3>1, <3>2
    <3>. QED
      BY <3>1, <3>3
  <2>. QED
    BY <2>1, <2>2
<1>12. BuiltDown(f, q)
  <2>1. f[N + 1] = << >>
    <3>1. N + 1 \in 1..(N + 1)
      BY <1>3
    <3>. QED
      BY <1>7, <1>8, <1>10, <3>1
  <2>2. ASSUME NEW n \in 1..N  PROVE  f[n] = <<q[n]>> \o f[n + 1]
    <3>1. n \in 1..(N + 1) /\ n + 1 \in 1..(N + 1)
      BY <1>3
    <3>2. f[n] = R[P[n]] /\ f[n + 1] = R[P[n + 1]]
      BY <1>10, <3>1
    <3>. QED
      BY <1>11, <3>2
  <2>. QED
    BY <1>1, <2>1, <2>2 DEF BuiltDown
<1>13. f[1] = q
  BY <1>1, <1>10, <1>12, BuiltIs
<1>14. f[1] = R[1]
  <2>1. 1 \in 1..(N + 1)
    BY <1>3
  <2>. QED
    BY <1>8, <1>10, <2>1
<1>. QED
  BY <1>1, <1>6, <1>13, <1>14 DEF ReplaceWith

-----------------------------------------------------------------------------
(* What a string of a request becomes.                                     *)

Leaf == [path : {s.path : s \in Says} \cup {e.to : e \in Echoes}, text : Strings, kind : Kind,
         own : BOOLEAN]

Claims(js, to) == js /\ to # "none"
Rewritten(kk, to, js, leaf) == IF Claims(js, to) THEN RewriteString(kk, to, leaf) ELSE leaf

Placed(to, leaf) ==
  IF leaf.kind = "other" THEN ~Searched(to, leaf.path) \/ IsDataURL(leaf.text)
  ELSE InPlace(to, leaf.kind, leaf.path) /\ ~IsDataURL(leaf.text)

LEMMA ApplicableIs ==
  /\ Applicable(TRUE) = All
  /\ \A b : Applicable(b) \in SUBSET All
  /\ \A b : Applicable(FALSE) \subseteq Applicable(b)
  BY DEF Applicable, All

LEMMA RewrittenText ==
  ASSUME NEW kk \in Keys, NEW t \in Strings, NEW b
  PROVE  /\ ScanAndReplaceText(kk, t, b) = ReplaceWith(kk, t, Scan(t, Applicable(b)))
         /\ ScanAndReplaceText(kk, t, b) \in Strings
<1>1. Applicable(b) \in SUBSET (1..Len(Detectors))
  BY ApplicableIs DEF All
<1>2. Apart(t, Scan(t, Applicable(b)))
  BY <1>1, ScannedApart
<1>. QED
  BY <1>2, ReplacedTrace DEF ScanAndReplaceText

\* One string of a request: searched, or left as it is (walkJSON, protocol.go:112).
LEMMA RewrittenIs ==
  ASSUME NEW kk \in Keys, NEW to, NEW js, NEW leaf \in Leaf
  PROVE  /\ Rewritten(kk, to, js, leaf) \in Leaf
         /\ ~Claims(js, to) \/ ~Searched(to, leaf.path) \/ IsDataURL(leaf.text) => Rewritten(kk, to, js, leaf) = leaf
         /\ Claims(js, to) /\ Searched(to, leaf.path) /\ ~IsDataURL(leaf.text) =>
              Rewritten(kk, to, js, leaf).text
                = ReplaceWith(kk, leaf.text, Scan(leaf.text, Applicable(Walk(to, leaf.path).numericOK)))
<1>1. PICK b, t : b = Walk(to, leaf.path).numericOK /\ t = leaf.text
  OBVIOUS
<1>2. t \in Strings
  BY <1>1 DEF Leaf
<1>3. PICK x : x = ScanAndReplaceText(kk, t, b)
  OBVIOUS
<1>4. x \in Strings /\ x = ReplaceWith(kk, t, Scan(t, Applicable(b)))
  BY <1>2, <1>3, RewrittenText
<1>5. CASE Claims(js, to) /\ Searched(to, leaf.path) /\ ~IsDataURL(leaf.text)
  <2>1. Rewritten(kk, to, js, leaf) = [leaf EXCEPT !.text = x]
    BY <1>1, <1>3, <1>5 DEF Rewritten, RewriteString, Searched
  <2>2. [leaf EXCEPT !.text = x] \in Leaf /\ [leaf EXCEPT !.text = x].text = x
    BY <1>4 DEF Leaf
  <2>. QED
    BY <1>1, <1>4, <1>5, <2>1, <2>2
<1>6. CASE ~(Claims(js, to) /\ Searched(to, leaf.path) /\ ~IsDataURL(leaf.text))
  <2>1. Rewritten(kk, to, js, leaf) = leaf
    BY <1>6 DEF Rewritten, RewriteString, Searched
  <2>. QED
    BY <1>6, <2>1
<1>. QED
  BY <1>5, <1>6

\* All strings of a request.
LEMMA RequestIs ==
  ASSUME NEW kk \in Keys, NEW to, NEW js, NEW leaves \in Seq(Leaf)
  PROVE  /\ RewriteRequest(kk, to, js, leaves) \in Seq(Leaf)
         /\ Len(RewriteRequest(kk, to, js, leaves)) = Len(leaves)
         /\ \A n \in 1..Len(leaves) : RewriteRequest(kk, to, js, leaves)[n] = Rewritten(kk, to, js, leaves[n])
<1>1. PICK r, N : r = RewriteRequest(kk, to, js, leaves) /\ N = Len(leaves)
  OBVIOUS
<1>2. N \in Nat /\ \A n \in 1..N : leaves[n] \in Leaf
  BY <1>1
<1>3. CASE Claims(js, to)
  <2>1. r = [n \in 1..N |-> RewriteString(kk, to, leaves[n])]
    BY <1>1, <1>3 DEF RewriteRequest, Claims
  <2>2. \A n \in 1..N : RewriteString(kk, to, leaves[n]) = Rewritten(kk, to, js, leaves[n])
    BY <1>3 DEF Rewritten
  <2>3. \A n \in 1..N : Rewritten(kk, to, js, leaves[n]) \in Leaf
    BY <1>2, RewrittenIs
  <2>4. \A n \in 1..N : r[n] = Rewritten(kk, to, js, leaves[n]) /\ r[n] \in Leaf
    BY <2>1, <2>2, <2>3
  <2>5. r \in [1..N -> Leaf]
    BY <2>1, <2>2, <2>3
  <2>6. r \in Seq(Leaf) /\ Len(r) = N
    BY <1>2, <2>5
  <2>. QED
    BY <1>1, <2>4, <2>6
<1>4. CASE ~Claims(js, to)
  BY <1>4 DEF RewriteRequest, Claims, Rewritten
<1>. QED
  BY <1>3, <1>4

\* No secret in what is searched but those the detectors missed.
LEMMA NoSecretsLeft ==
  ASSUME NEW kk \in Keys, NEW to, NEW js, Claims(js, to), NEW leaf \in Leaf, Placed(to, leaf)
  PROVE  IF leaf.kind = "other" THEN Rewritten(kk, to, js, leaf) = leaf
         ELSE OnlyMissed(Rewritten(kk, to, js, leaf).text, leaf.text, Applicable(leaf.kind = "prose"))
<1>1. CASE leaf.kind = "other"
  BY <1>1, RewrittenIs DEF Placed
<1>2. CASE leaf.kind # "other"
  <2>1. PICK b, t : b = Walk(to, leaf.path).numericOK /\ t = leaf.text
    OBVIOUS
  <2>2. Searched(to, leaf.path) /\ ~IsDataURL(leaf.text) /\ (leaf.kind = "prose" <=> Walk(to, leaf.path).numericOK)
    BY <1>2 DEF Placed, InPlace
  <2>3. t \in Strings
    BY <2>1 DEF Leaf
  <2>4. Rewritten(kk, to, js, leaf).text = ReplaceWith(kk, t, Scan(t, Applicable(b)))
    BY <2>1, <2>2, RewrittenIs
  <2>5. PICK D, x : D = Applicable(leaf.kind = "prose") /\ x = Rewritten(kk, to, js, leaf).text
    OBVIOUS
  <2>6. D = Applicable(b) /\ D \in SUBSET (1..Len(Detectors))
    BY <2>1, <2>2, <2>5 DEF Applicable
  <2>7. x = ReplaceWith(kk, t, Scan(t, D))
    BY <2>4, <2>5, <2>6
  <2>8. ASSUME NEW d \in D, NEW w \in Detectors[d].valid, NEW i \in 1..Len(x), StandsAt(x, w, i)
        PROVE  Missed(t, D, d, w)
    BY <2>3, <2>6, <2>7, <2>8, LeftIsMissed
  <2>9. OnlyMissed(x, t, D)
    BY <2>8 DEF OnlyMissed
  <2>. QED
    BY <1>2, <2>1, <2>5, <2>9
<1>. QED
  BY <1>1, <1>2

-----------------------------------------------------------------------------
(* What a quotation becomes on its way to the client and back.             *)

Plain == Char \cup {Made}
Quotable(q) == q \in Strings /\ ~IsDataURL(q)

LEMMA PlainIs == Plain \subseteq Atom /\ Seq(Plain) \subseteq Strings /\ Seq(Char) \subseteq Seq(Plain)
<1>1. Plain \subseteq Atom
  BY DEF Plain, Atom, Tokens
<1>2. Seq(Plain) \subseteq Seq(Atom)
  BY <1>1
<1>3. Char \subseteq Plain
  BY DEF Plain
<1>4. Seq(Char) \subseteq Seq(Plain)
  BY <1>3
<1>. QED
  BY <1>1, <1>2, <1>4 DEF Strings

\* A restored text does not begin like a data: URL if the text did not.
LEMMA RestoredNoURL ==
  ASSUME NEW q \in Strings, ~IsDataURL(q), NEW kk \in Keys, NEW M \in SUBSET Masks(kk)
  PROVE  ~IsDataURL(RestoreInText(M, q))
<1>1. PICK t : t = RestoreInText(M, q)
  OBVIOUS
<1>0. PICK ss, P : ss = Pieces(M, q) /\ P = Place(ss)
  OBVIOUS
<1>2. Restoring(q, kk, M, t, ss, P)
  BY <1>0, <1>1, RestoringIs
<1>3. t \in Strings /\ Len(t) \in Nat /\ Len(q) \in Nat
  BY <1>2 DEF Restoring, Strings
<1>4. P[1] = 1 /\ P[Len(q) + 1] = Len(t) + 1
  BY <1>2 DEF Restoring
<1>5. CASE Len(q) = 0
  <2>1. Len(t) = 0
    BY <1>3, <1>4, <1>5
  <2>2. t = << >>
    BY <1>3, <2>1 DEF Strings
  <2>. QED
    BY <1>1, <2>2 DEF IsDataURL
<1>6. CASE Len(q) # 0
  <2>1. 1 \in 1..Len(q) /\ q # << >> /\ q[1] # DataURL
    <3>1. 1 \in 1..Len(q) /\ q # << >>
      BY <1>3, <1>6
    <3>2. Head(q) = q[1]
      BY <3>1 DEF Strings
    <3>. QED
      BY <3>1, <3>2 DEF IsDataURL
  <2>2. PICK s : s = ss[1]
    OBVIOUS
  <2>3. \A j \in 1..Len(s) : t[P[1] + j - 1] = s[j]
    BY <1>2, <2>1, <2>2 DEF Restoring
  <2>4. Len(s) \in Nat /\ Len(s) >= 1 /\ s[1] # DataURL
    <3>1. CASE q[1] \in M
      <4>1. s \in Secrets
        BY <1>2, <2>1, <2>2, <3>1 DEF Restoring
      <4>2. s \in Seq(Char) /\ Len(s) \in Nat /\ Len(s) >= 1
        BY <4>1, SecretIs
      <4>3. ~IsDataURL(s)
        BY <4>1, ConversationAssumption
      <4>4. s # << >> /\ Head(s) = s[1]
        BY <4>2
      <4>. QED
        BY <4>2, <4>3, <4>4 DEF IsDataURL
    <3>2. CASE q[1] \notin M
      <4>1. s = <<q[1]>>
        BY <1>2, <2>1, <2>2, <3>2 DEF Restoring
      <4>. QED
        BY <2>1, <4>1
    <3>. QED
      BY <3>1, <3>2
  <2>5. t[1] = s[1]
    <3>1. 1 \in 1..Len(s)
      BY <2>4
    <3>2. t[P[1] + 1 - 1] = s[1]
      BY <2>3, <3>1
    <3>3. P[1] + 1 - 1 = 1
      BY <1>4
    <3>. QED
      BY <3>2, <3>3
  <2>6. t # << >> => Head(t) = t[1]
    BY <1>3 DEF Strings
  <2>. QED
    BY <1>1, <2>4, <2>5, <2>6 DEF IsDataURL
<1>. QED
  BY <1>5, <1>6

\* The secrets restored stand where the placeholders the table knew stood.
LEMMA SpansAre ==
  ASSUME NEW q \in Strings, NEW kk \in Keys, NEW M \in SUBSET Masks(kk),
         NEW t, t = RestoreInText(M, q), NEW P, P = Place(Pieces(M, q))
  PROVE  RestoredSpans(q, t) = {[start |-> P[n], end |-> P[n + 1]] : n \in {x \in 1..Len(q) : q[x] \in M}}
<1>1. PICK ss, known : ss = Pieces(M, q) /\ known = Quoted(q) \ Quoted(t)
  OBVIOUS
<1>2. Restoring(q, kk, M, t, ss, P)
  BY <1>1, RestoringIs
<1>3. t \in Seq(Atom \ M) /\ Len(q) \in Nat /\ Len(ss) = Len(q)
  <2>1. t \in Seq(Atom \ M)
    BY RestoredIs
  <2>2. Len(q) \in Nat
    BY DEF Strings
  <2>3. Len(ss) = Len(q)
    BY <1>2 DEF Restoring
  <2>. QED
    BY <2>1, <2>2, <2>3
<1>4. ASSUME NEW n \in 1..Len(q), IsPlaceholder(q[n])  PROVE  q[n] \in known <=> q[n] \in M
  <2>1. q[n] \in Quoted(q)
    BY <1>4 DEF Quoted, ToSet
  <2>2. CASE q[n] \in M
    <3>1. \A i \in 1..Len(t) : t[i] \notin M
      BY <1>3
    <3>2. q[n] \notin Quoted(t)
      BY <2>2, <3>1 DEF Quoted, ToSet
    <3>. QED
      BY <1>1, <2>1, <2>2, <3>2
  <2>3. CASE q[n] \notin M
    <3>1. P[n] \in 1..Len(t) /\ t[P[n]] = q[n]
      BY <1>2, <2>3, CopiedIs
    <3>2. q[n] \in Quoted(t)
      BY <1>4, <3>1 DEF Quoted, ToSet
    <3>. QED
      BY <1>1, <2>3, <3>2
  <2>. QED
    BY <2>2, <2>3
<1>5. \A n \in 1..Len(q) : q[n] \in known <=> q[n] \in M
  <2>1. \A a \in known : IsPlaceholder(a)
    BY <1>1 DEF Quoted
  <2>2. \A a \in M : IsPlaceholder(a)
    BY MasksAre
  <2>. QED
    BY <1>4, <2>1, <2>2
<1>6. Pieces(known, q) = ss
  BY <1>1, <1>5 DEF Pieces
<1>7. PICK upTo : upTo = JoinedUpTo(ss)
  OBVIOUS
<1>8. ASSUME NEW n \in 1..Len(q)  PROVE  Len(upTo[n - 1]) + 1 = P[n] /\ Len(upTo[n]) + 1 = P[n + 1]
  <2>1. n \in 1..(Len(ss) + 1) /\ n + 1 \in 1..(Len(ss) + 1) /\ (n + 1) - 1 = n
    BY <1>3
  <2>2. P = [x \in 1..(Len(ss) + 1) |-> Len(upTo[x - 1]) + 1]
    BY <1>1, <1>7 DEF Place
  <2>. QED
    BY <2>1, <2>2
<1>9. RestoredSpans(q, t) =
        {[start |-> Len(upTo[n - 1]) + 1, end |-> Len(upTo[n]) + 1] : n \in {x \in 1..Len(q) : q[x] \in known}}
  BY <1>1, <1>6, <1>7 DEF RestoredSpans
<1>10. PICK I : I = {x \in 1..Len(q) : q[x] \in M}
  OBVIOUS
<1>11. {x \in 1..Len(q) : q[x] \in known} = I
  BY <1>5, <1>10
<1> DEFINE F(n) == [start |-> Len(upTo[n - 1]) + 1, end |-> Len(upTo[n]) + 1]
           G(n) == [start |-> P[n], end |-> P[n + 1]]
<1>12. \A n \in I : F(n) = G(n)
  BY <1>8, <1>10
<1>13. RestoredSpans(q, t) = {F(n) : n \in I}
  BY <1>9, <1>11
<1>14. {F(n) : n \in I} = {G(n) : n \in I}
  <2>. HIDE DEF F, G
  <2>. QED
    BY <1>12
<1>. QED
  BY <1>10, <1>13, <1>14

\* In a restored text of which the detectors find the secrets restored, and nothing
\* else, their hits lie in these.
LEMMA RestoredConfined ==
  ASSUME NEW q \in Strings, NEW kk \in Keys, NEW M \in SUBSET Masks(kk),
         NEW t, t = RestoreInText(M, q), NEW P, P = Place(Pieces(M, q)), OnlyRestored(q, t)
  PROVE  Confined(q, M, t, P)
<1>1. PICK S : S = RestoredSpans(q, t)
  OBVIOUS
<1>2. S = {[start |-> P[n], end |-> P[n + 1]] : n \in {x \in 1..Len(q) : q[x] \in M}}
  BY <1>1, SpansAre
<1>3. SUFFICES ASSUME NEW d \in All, NEW h \in Hits(t, d)[1],
                      h \in Find(t, d) \/ (\E n \in 1..Len(q) : q[n] \in M /\ P[n] < h.end /\ h.start < P[n + 1])
               PROVE  \E n \in 1..Len(q) : q[n] \in M /\ P[n] <= h.start /\ h.end <= P[n + 1]
  BY DEF Confined
<1>4. h \in Find(t, d) \/ \E s \in S : Overlap(s, h)
  <2>1. ASSUME NEW n \in 1..Len(q), q[n] \in M, P[n] < h.end, h.start < P[n + 1]
        PROVE  \E s \in S : Overlap(s, h)
    <3>1. PICK s : s = [start |-> P[n], end |-> P[n + 1]]
      OBVIOUS
    <3>2. s \in S /\ s.start = P[n] /\ s.end = P[n + 1]
      BY <1>2, <2>1, <3>1
    <3>3. Overlap(s, h)
      BY <2>1, <3>2 DEF Overlap
    <3>. QED
      BY <3>2, <3>3
  <2>. QED
    BY <1>3, <2>1
<1>5. PICK s \in S : s.start <= h.start /\ h.end <= s.end
  <2>1. d \in 1..Len(Detectors)
    BY DEF All
  <2>. QED
    BY <1>1, <1>4, <2>1 DEF OnlyRestored
<1>6. PICK n \in {x \in 1..Len(q) : q[x] \in M} : s = [start |-> P[n], end |-> P[n + 1]]
  BY <1>2
<1>7. s.start = P[n] /\ s.end = P[n + 1]
  BY <1>6
<1>. QED
  BY <1>5, <1>6, <1>7

\* In a text where nothing was restored they find nothing.
LEMMA NothingRestored ==
  ASSUME NEW q, OnlyRestored(q, q)
  PROVE  FoundAll(q, All) = {}
<1>1. RestoredSpans(q, q) = {}
  <2>1. Quoted(q) \ Quoted(q) = {}
    OBVIOUS
  <2>. QED
    BY <2>1 DEF RestoredSpans
<1>2. ASSUME NEW d \in All, NEW h \in Find(q, d)  PROVE FALSE
  <2>1. d \in 1..Len(Detectors) /\ h \in Hits(q, d)[1]
    BY <1>2 DEF All, Find
  <2>. QED
    BY <1>1, <1>2, <2>1 DEF OnlyRestored
<1>. QED
  BY <1>2 DEF FoundAll

\* The client's copy of an answer, when the next request repeats it.
Repeats(x, e, q, M) == x = q \/ (e.kind = "prose" /\ x = RestoreInText(M, q))
Copy(e, x) == [path |-> e.to, text |-> x, kind |-> e.kind, own |-> FALSE]
Within(M, kk, q, js, to) ==
  /\ M \in SUBSET Masks(kk) /\ Quotable(q)
  /\ ~Claims(js, to) => M = {} /\ q \in Seq(Plain)
Repeatable(leaf, kk, q, js, to) ==
  /\ leaf \in Leaf /\ (OnlyRestored(q, leaf.text) => Rewritten(kk, to, js, leaf).text = q)
  /\ Claims(js, to) => Placed(to, leaf)
  /\ ~Claims(js, to) => leaf.text \in Seq(Plain)

\* It is masked to the text the upstream wrote, if only what was restored is found.
LEMMA RepeatedIs ==
  ASSUME NEW kk \in Keys, NEW M, NEW to, NEW js, NEW q, Within(M, kk, q, js, to),
         NEW e \in Echoes, e.protocol = to, NEW x, Repeats(x, e, q, M)
  PROVE  Repeatable(Copy(e, x), kk, q, js, to)
<1>0. PICK leaf : leaf = Copy(e, x)
  OBVIOUS
<1>. SUFFICES /\ leaf \in Leaf /\ (OnlyRestored(q, leaf.text) => Rewritten(kk, to, js, leaf).text = q)
              /\ Claims(js, to) => Placed(to, leaf)
              /\ ~Claims(js, to) => leaf.text \in Seq(Plain)
  BY <1>0 DEF Repeatable
<1>. /\ M \in SUBSET Masks(kk) /\ Quotable(q) /\ (~Claims(js, to) => M = {} /\ q \in Seq(Plain))
     /\ (x = q \/ (e.kind = "prose" /\ x = RestoreInText(M, q)))
  BY DEF Within, Repeats
<1>1. q \in Strings /\ ~IsDataURL(q)
  BY DEF Quotable
<1>2. x \in Strings /\ ~IsDataURL(x)
  BY <1>1, RestoredIs, RestoredNoURL
<1>3. e.kind \in {"prose", "tool"} /\ (e.protocol # "none" => InPlace(e.protocol, e.kind, e.to))
  BY PlacesAssumption
<1>4. leaf.path = e.to /\ leaf.text = x /\ leaf.kind = e.kind
  BY <1>0 DEF Copy
<1>5. leaf \in Leaf
  BY <1>0, <1>2, <1>3 DEF Leaf, Kind, Copy
<1>6. CASE Claims(js, to)
  <2>1. InPlace(to, e.kind, e.to)
    BY <1>3, <1>6 DEF Claims
  <2>2. Placed(to, leaf)
    BY <1>2, <1>3, <1>4, <2>1 DEF Placed
  <2>3. PICK b : b = Walk(to, e.to).numericOK
    OBVIOUS
  <2>4. Searched(to, e.to) /\ (e.kind = "prose" <=> Walk(to, e.to).numericOK)
    BY <2>1 DEF InPlace
  <2>5. Rewritten(kk, to, js, leaf).text = ReplaceWith(kk, x, Scan(x, Applicable(b)))
    BY <1>2, <1>4, <1>5, <1>6, <2>3, <2>4, RewrittenIs
  <2>6. CASE x = q
    <3>1. Applicable(b) \in SUBSET All
      BY ApplicableIs
    <3>2. ASSUME OnlyRestored(q, x)  PROVE  ReplaceWith(kk, q, Scan(q, Applicable(b))) = q
      <4>1. FoundAll(q, All) = {}
        BY <2>6, <3>2, NothingRestored
      <4>. QED
        BY <1>1, <3>1, <4>1, QuotedKept
    <3>. QED
      BY <1>4, <1>5, <1>6, <2>2, <2>5, <2>6, <3>2
  <2>7. CASE e.kind = "prose" /\ x = RestoreInText(M, q)
    <3>1. Applicable(b) = All
      BY <2>3, <2>4, <2>7 DEF Applicable, All
    <3>2. ASSUME OnlyRestored(q, x)  PROVE  ReplaceWith(kk, x, Scan(x, All)) = q
      <4>1. PICK ss, P : ss = Pieces(M, q) /\ P = Place(ss)
        OBVIOUS
      <4>2. Restoring(q, kk, M, x, ss, P)
        BY <1>1, <2>7, <4>1, RestoringIs
      <4>3. Confined(q, M, x, P)
        BY <1>1, <2>7, <3>2, <4>1, RestoredConfined
      <4>. QED
        BY <1>1, <4>2, <4>3, RestoredIsMasked
    <3>. QED
      BY <1>4, <1>5, <1>6, <2>2, <2>5, <3>1, <3>2
  <2>. QED
    BY <2>6, <2>7
<1>7. CASE ~Claims(js, to)
  <2>1. x = q
    BY <1>1, <1>7, NothingToRestore
  <2>2. Rewritten(kk, to, js, leaf) = leaf
    BY <1>7 DEF Rewritten
  <2>. QED
    BY <1>4, <1>5, <1>7, <2>1, <2>2
<1>. QED
  BY <1>6, <1>7

-----------------------------------------------------------------------------
(* The conversation.                                                       *)

Claimed == Claims(json, protocol)

\* The values of an answer, one text at two places.
Answers(form, q, e, f, d, st) ==
  /\ answer = [form |-> form, values |-> <<Value(e, q, d, FALSE), Value(f, q, ~st, st)>>]
  /\ received = RestoreResponse(minted, form, answer.values)
  /\ e \in Echoes /\ f \in Echoes /\ e.protocol = protocol /\ f.protocol = protocol
  /\ d \in BOOLEAN /\ st \in BOOLEAN /\ form \in {"json", "ndjson", "text"}
  /\ form = "text" => e.kind = "prose" /\ f.kind = "prose"
  /\ Quotable(q) /\ (~Claimed => q \in Seq(Plain))

KeysInv ==
  /\ starts \in 0..MaxStarts /\ key \in 1..(starts + 1)
  /\ turns \in Nat /\ (turns = 0 => pc = "say" /\ history = << >> /\ forwarded = << >> /\ ~json)
SpokenInv ==
  /\ history \in Seq(Leaf) /\ meant \in Seq(Strings) /\ Len(meant) = Len(history)
  /\ Claimed => \A n \in 1..Len(history) : Placed(protocol, history[n])
  /\ ~Claimed => \A n \in 1..Len(history) : history[n].text \in Seq(Plain)
ForwardedInv ==
  /\ forwarded \in Seq(Leaf) /\ Len(forwarded) <= Len(history)
  /\ \A n \in 1..Len(forwarded) :
       /\ \E k \in Keys : forwarded[n] = Rewritten(k, protocol, json, history[n])
       /\ ~lost => forwarded[n] = Rewritten(key, protocol, json, history[n])
MintedInv == minted \in SUBSET Masks(key) /\ (~Claimed => minted = {})
MeantInv ==
  ~lost => \A n \in 1..Len(history) :
             history[n].own \/ OnlyRestored(meant[n], history[n].text) =>
               Rewritten(key, protocol, json, history[n]).text = meant[n]
AnswerInv == pc = "take" => \E form, q, d : \E e, f, st : Answers(form, q, e, f, d, st)

ConvInv == KeysInv /\ SpokenInv /\ ForwardedInv /\ MintedInv /\ MeantInv /\ AnswerInv

LEMMA KeyIsOne == KeysInv => key \in Keys
  BY ConversationAssumption DEF KeysInv, Keys

LEMMA ConvStart == ConvInit => ConvInv
<1>1. SUFFICES ASSUME ConvInit  PROVE ConvInv
  OBVIOUS
<1>2. << >> \in Seq(Leaf) /\ << >> \in Seq(Strings) /\ Len(<< >>) = 0
  OBVIOUS
<1>3. ~Claimed
  BY <1>1 DEF ConvInit, Claimed, Claims
<1>4. KeysInv
  BY <1>1, ConversationAssumption DEF ConvInit, KeysInv
<1>5. SpokenInv /\ ForwardedInv /\ MeantInv
  BY <1>1, <1>2, <1>3 DEF ConvInit, SpokenInv, ForwardedInv, MeantInv
<1>6. MintedInv /\ AnswerInv
  BY <1>1 DEF ConvInit, MintedInv, AnswerInv
<1>. QED
  BY <1>4, <1>5, <1>6 DEF ConvInv

-----------------------------------------------------------------------------
LEMMA AppendIs ==
  ASSUME NEW S, NEW s \in Seq(S), NEW x \in S
  PROVE  /\ Append(s, x) \in Seq(S) /\ Len(Append(s, x)) = Len(s) + 1 /\ Len(s) \in Nat
         /\ Append(s, x)[Len(s) + 1] = x
         /\ \A n \in 1..Len(s) : Append(s, x)[n] = s[n]
  OBVIOUS

\* The placeholders of a text under one key.
LEMMA KeyTells ==
  ASSUME NEW kk \in Keys, NEW a \in Tokens, a.key = kk
  PROVE  a \in Masks(kk)
<1>1. a # Made
  <2>1. Made.key = 0
    BY MaskIs DEF Made
  <2>2. kk # 0
    BY ConversationAssumption DEF Keys
  <2>. QED
    BY <2>1, <2>2
<1>2. PICK k \in Keys, w \in Secrets : a = Placeholder(k, w)
  BY <1>1 DEF Tokens
<1>3. k = kk
  BY <1>2, MaskIs
<1>. QED
  BY <1>2, <1>3 DEF Masks

\* The placeholders in a text.
LEMMA QuotedAre ==
  ASSUME NEW t \in Strings
  PROVE  /\ Quoted(t) \in SUBSET Tokens
         /\ t \in Seq(Plain) => Quoted(t) \in SUBSET {Made}
<1>1. \A a \in Quoted(t) : IsPlaceholder(a) /\ \E i \in 1..Len(t) : a = t[i]
  BY DEF Quoted, ToSet, Strings
<1>2. \A i \in 1..Len(t) : t[i] \in Atom
  BY DEF Strings
<1>3. Quoted(t) \in SUBSET Tokens
  BY <1>1, <1>2, TokensAreNoChars
<1>4. ASSUME t \in Seq(Plain)  PROVE  Quoted(t) \in SUBSET {Made}
  <2>1. \A i \in 1..Len(t) : t[i] \in Plain
    BY <1>4
  <2>. QED
    BY <1>1, <2>1 DEF Plain, IsPlaceholder
<1>. QED
  BY <1>3, <1>4

\* What an upstream writes.
LEMMA QuotationsAre ==
  ASSUME ForwardedInv, KeysInv, NEW q \in Quotations,
         ~Claimed => \A n \in 1..Len(forwarded) : forwarded[n].text \in Seq(Plain)
  PROVE  Quotable(q) /\ (~Claimed => q \in Seq(Plain))
<1>1. PICK S : S = Letter \cup Seen \cup {Made}
  OBVIOUS
<1>2. q \in BoundedSeq(S, MaxQuote)
  BY <1>1 DEF Quotations
<1>3. PICK m \in 0..MaxQuote : q \in [1..m -> S]
  BY <1>2 DEF BoundedSeq, SeqOf
<1>4. MaxQuote \in Nat /\ m \in Nat
  BY ConversationAssumption
<1>5. q \in Seq(S) /\ Len(q) = m
  BY <1>3, <1>4
<1>6. \A n \in 1..Len(forwarded) : forwarded[n].text \in Strings
  <2>1. \A n \in 1..Len(forwarded) : forwarded[n] \in Leaf
    BY DEF ForwardedInv
  <2>. QED
    BY <2>1 DEF Leaf
<1>7. Seen \in SUBSET Tokens
  <2>1. \A n \in 1..Len(forwarded) : Quoted(forwarded[n].text) \in SUBSET Tokens
    BY <1>6, QuotedAre
  <2>. QED
    BY <2>1 DEF Seen
<1>8. S \subseteq Atom /\ DataURL \notin S
  <2>1. Letter \subseteq Char \ {DataURL} /\ DataURL \in Char
    BY ConversationAssumption, BodiesAssumption
  <2>2. Made \in Tokens
    BY DEF Tokens
  <2>3. DataURL \notin Tokens
    <3>1. DataURL \in Atom /\ ~IsPlaceholder(DataURL)
      BY <2>1 DEF Atom, IsPlaceholder
    <3>. QED
      BY <3>1, TokensAreNoChars
  <2>. QED
    BY <1>1, <1>7, <2>1, <2>2, <2>3 DEF Atom
<1>9. q \in Strings
  <2>1. Seq(S) \subseteq Seq(Atom)
    BY <1>8
  <2>. QED
    BY <1>5, <2>1 DEF Strings
<1>11. ~IsDataURL(q)
  <2>1. ASSUME q # << >>  PROVE  Head(q) \in S
    BY <1>5, <2>1
  <2>. QED
    BY <1>8, <2>1 DEF IsDataURL
<1>13. ASSUME ~Claimed  PROVE  q \in Seq(Plain)
  <2>1. \A n \in 1..Len(forwarded) : Quoted(forwarded[n].text) \in SUBSET {Made}
    BY <1>6, <1>13, QuotedAre
  <2>2. Seen \in SUBSET {Made}
    BY <2>1 DEF Seen
  <2>3. S \subseteq Plain
    BY <1>1, <2>2, ConversationAssumption DEF Plain
  <2>4. Seq(S) \subseteq Seq(Plain)
    BY <2>3
  <2>. QED
    BY <1>5, <2>4
<1>. QED
  BY <1>9, <1>11, <1>13 DEF Quotable

LEMMA PairIs ==
  ASSUME NEW r, DOMAIN r = 1..2, r = [n \in 1..2 |-> r[n]]
  PROVE  Len(r) = 2
<1>1. PICK S : S = {r[n] : n \in 1..2}
  OBVIOUS
<1>2. r \in [1..2 -> S] /\ 2 \in Nat
  BY <1>1
<1>. QED
  BY <1>2

\* What the client gets of an answer.
Got(r, v, M, q, form) ==
  /\ r.path = v.path /\ r.kind = v.kind /\ r.decodes = v.decodes /\ v.text = q
  /\ \/ r.text = q /\ form # "text" /\ (InSink(v.path) \/ form = "json" \/ ~v.decodes)
     \/ r.text = RestoreInText(M, q) /\ (form # "text" => ~InSink(v.path))

Restored(r, v, e, f, q, d, st, M, form) ==
  v = <<Value(e, q, d, FALSE), Value(f, q, ~st, st)>> /\ r = RestoreResponse(M, form, v)

\* Each value is restored or left alone, with its path and kind; the second may be gone.
Received(r, v, e, f, M, q, form) ==
  /\ Len(v) = 2 /\ Len(r) \in {1, 2}
  /\ v[1].path = e.from /\ v[2].path = f.from /\ v[1].kind = e.kind /\ v[2].kind = f.kind
  /\ \A n \in 1..Len(r) : Got(r[n], v[n], M, q, form)
  /\ form = "json" =>
       \A n \in 1..Len(r) :
         r[n].text = RestoreInText(M, q) \/ InSink(v[n].path) \/ \E m \in 1..Len(r) : ~v[m].decodes

\* So the client receives them (restoreResponseBytes, restore.go:92,181).
LEMMA ReceivedIs ==
  ASSUME NEW M, NEW form \in {"json", "ndjson", "text"}, NEW e, NEW f, NEW q, NEW d, NEW st,
         NEW v, NEW r, Restored(r, v, e, f, q, d, st, M, form)
  PROVE  Received(r, v, e, f, M, q, form)
<1>. SUFFICES
       /\ Len(v) = 2 /\ Len(r) \in {1, 2}
       /\ v[1].path = e.from /\ v[2].path = f.from /\ v[1].kind = e.kind /\ v[2].kind = f.kind
       /\ \A n \in 1..Len(r) : Got(r[n], v[n], M, q, form)
       /\ form = "json" =>
            \A n \in 1..Len(r) :
              r[n].text = RestoreInText(M, q) \/ InSink(v[n].path) \/ \E m \in 1..Len(r) : ~v[m].decodes
  BY DEF Received
<1> DEFINE R(n) == [v[n] EXCEPT !.text = RestoreInText(M, q)]
<1>0. v = <<Value(e, q, d, FALSE), Value(f, q, ~st, st)>> /\ r = RestoreResponse(M, form, v)
  BY DEF Restored
<1>1. Len(v) = 2 /\ v[1] = Value(e, q, d, FALSE) /\ v[2] = Value(f, q, ~st, st)
  BY <1>0
<1>2. ASSUME NEW n \in 1..2
      PROVE  /\ v[n].text = q
             /\ R(n).path = v[n].path /\ R(n).kind = v[n].kind /\ R(n).decodes = v[n].decodes
             /\ R(n).text = RestoreInText(M, q)
             /\ [v[n] EXCEPT !.text = RestoreInText(M, @)] = R(n)
  <2>1. PICK g, b, z : v[n] = Value(g, q, b, z)
    <3>1. CASE n = 1
      <4>1. v[n] = Value(e, q, d, FALSE)
        BY <1>1, <3>1
      <4>. QED
        BY <4>1, Zenon
    <3>2. CASE n = 2
      <4>1. v[n] = Value(f, q, ~st, st)
        BY <1>1, <3>2
      <4>. QED
        BY <4>1, Zenon
    <3>3. n = 1 \/ n = 2
      OBVIOUS
    <3>. QED
      BY <3>1, <3>2, <3>3, Zenon
  <2>2. v[n].text = q
    BY <2>1 DEF Value
  <2>3. PICK w, y, x : w = v[n] /\ y = RestoreInText(M, q) /\ x = [w EXCEPT !.text = y]
    OBVIOUS
  <2>4. [v[n] EXCEPT !.text = RestoreInText(M, @)] = x /\ R(n) = x
    BY <2>2, <2>3
  <2>. HIDE DEF R
  <2>5. /\ w.decodes = b /\ w.path = g.from /\ w.kind = g.kind
        /\ x.text = y /\ x.decodes = b /\ x.path = g.from /\ x.kind = g.kind
    <3>1. w = Value(g, q, b, z)
      BY <2>1, <2>3
    <3>2. w = [path |-> g.from, kind |-> g.kind, text |-> q, decodes |-> b, stray |-> z]
      BY <3>1 DEF Value
    <3>3. x = [path |-> g.from, kind |-> g.kind, text |-> y, decodes |-> b, stray |-> z]
      <4>1. PICK p, k : p = g.from /\ k = g.kind
        OBVIOUS
      <4>2. [[path |-> p, kind |-> k, text |-> q, decodes |-> b, stray |-> z] EXCEPT !.text = y]
              = [path |-> p, kind |-> k, text |-> y, decodes |-> b, stray |-> z]
        OBVIOUS
      <4>3. w = [path |-> p, kind |-> k, text |-> q, decodes |-> b, stray |-> z] /\ x = [w EXCEPT !.text = y]
        BY <2>3, <3>2, <4>1
      <4>. QED
        BY <4>1, <4>2, <4>3
    <3>. QED
      BY <3>2, <3>3
  <2>. QED
    BY <2>1, <2>2, <2>3, <2>4, <2>5
<1>3. v[1].path = e.from /\ v[2].path = f.from /\ v[1].kind = e.kind /\ v[2].kind = f.kind
  BY <1>1 DEF Value
<1>. HIDE DEF R
<1>4. \A n \in 1..2 : RestoreValue(M, v[n]) = IF InSink(v[n].path) THEN v[n] ELSE R(n)
  BY <1>2 DEF RestoreValue
<1>5. CASE form = "text"
  <2>1. r = [n \in 1..2 |-> R(n)]
    <3>1. r = [n \in 1..2 |-> [v[n] EXCEPT !.text = RestoreInText(M, @)]]
      BY <1>0, <1>1, <1>5 DEF RestoreResponse
    <3>. QED
      BY <1>2, <3>1
  <2>2. DOMAIN r = 1..2 /\ r = [n \in 1..2 |-> r[n]] /\ \A n \in 1..2 : r[n] = R(n)
    BY <2>1
  <2>3. Len(r) = 2
    BY <2>2, PairIs
  <2>4. \A n \in 1..2 : Got(r[n], v[n], M, q, form)
    BY <1>2, <1>5, <2>2 DEF Got
  <2>. QED
    BY <1>1, <1>3, <1>5, <2>3, <2>4
<1>6. CASE form = "json"
  <2>1. r = RestoreBufferedJSON(M, v)
    BY <1>0, <1>6 DEF RestoreResponse
  <2>2. CASE \A n \in 1..Len(v) : v[n].decodes
    <3>1. r = [n \in 1..2 |-> RestoreValue(M, v[n])]
      BY <1>1, <2>1, <2>2 DEF RestoreBufferedJSON
    <3>2. DOMAIN r = 1..2 /\ r = [n \in 1..2 |-> r[n]] /\ \A n \in 1..2 : r[n] = RestoreValue(M, v[n])
      BY <3>1
    <3>3. Len(r) = 2
      BY <3>2, PairIs
    <3>4. \A n \in 1..2 : r[n] = IF InSink(v[n].path) THEN v[n] ELSE R(n)
      BY <1>4, <3>2
    <3>5. \A n \in 1..2 : Got(r[n], v[n], M, q, form)
      BY <1>2, <1>6, <3>4 DEF Got
    <3>6. \A n \in 1..2 : r[n].text = RestoreInText(M, q) \/ InSink(v[n].path)
      BY <1>2, <3>4
    <3>. QED
      BY <1>1, <1>3, <3>3, <3>5, <3>6
  <2>3. CASE ~(\A n \in 1..Len(v) : v[n].decodes) /\ r = v
    <3>2. \A n \in 1..2 : Got(r[n], v[n], M, q, form)
      BY <1>2, <1>6, <2>3 DEF Got
    <3>3. \E m \in 1..2 : ~v[m].decodes
      BY <1>1, <2>3
    <3>. QED
      BY <1>1, <1>3, <2>3, <3>2, <3>3
  <2>4. CASE r = <<RestoreValue(M, v[1])>>
    <3>1. Len(r) = 1 /\ r[1] = RestoreValue(M, v[1]) /\ \A n \in 1..Len(r) : n = 1
      BY <2>4
    <3>2. r[1] = IF InSink(v[1].path) THEN v[1] ELSE R(1)
      BY <1>4, <3>1
    <3>3. Got(r[1], v[1], M, q, form)
      BY <1>2, <1>6, <3>2 DEF Got
    <3>4. r[1].text = RestoreInText(M, q) \/ InSink(v[1].path)
      BY <1>2, <3>2
    <3>. QED
      BY <1>1, <1>3, <3>1, <3>3, <3>4
  <2>5. (\A n \in 1..Len(v) : v[n].decodes) \/ r = v \/ r = <<RestoreValue(M, v[1])>>
    <3>1. PICK s : s = [n \in 1..Len(v) |-> RestoreValue(M, v[n])]
      OBVIOUS
    <3>2. s[1] = RestoreValue(M, v[1])
      <4>1. 1 \in 1..Len(v)
        BY <1>1
      <4>. QED
        BY <3>1, <4>1, Zenon
    <3>3. (\A n \in 1..Len(v) : v[n].decodes) \/ r = v \/ r = <<s[1]>>
      BY <2>1, <3>1 DEF RestoreBufferedJSON
    <3>. QED
      BY <3>2, <3>3
  <2>. QED
    BY <2>2, <2>3, <2>4, <2>5
<1>7. CASE form = "ndjson"
  <2>1. r = RestoreNDJSON(M, v)
    BY <1>0, <1>7 DEF RestoreResponse
  <2>2. r = [n \in 1..2 |-> RestoreBufferedJSON(M, <<v[n]>>)[1]]
    BY <1>1, <2>1 DEF RestoreNDJSON
  <2>5. DOMAIN r = 1..2 /\ r = [n \in 1..2 |-> r[n]] /\ \A n \in 1..2 : r[n] = RestoreBufferedJSON(M, <<v[n]>>)[1]
    BY <2>2
  <2>3. Len(r) = 2 /\ \A n \in 1..2 : r[n] = RestoreBufferedJSON(M, <<v[n]>>)[1]
    BY <2>5, PairIs
  <2>4. ASSUME NEW n \in 1..2  PROVE  r[n] = IF v[n].decodes THEN RestoreValue(M, v[n]) ELSE v[n]
    <3>1. PICK s : s = <<v[n]>>
      OBVIOUS
    <3>2. Len(s) = 1 /\ s[1] = v[n] /\ 1 \in 1..1 /\ \A m \in 1..1 : m = 1
      BY <3>1
    <3>3. CASE v[n].decodes
      <4>1. RestoreBufferedJSON(M, s) = [m \in 1..1 |-> RestoreValue(M, s[m])]
        BY <3>2, <3>3 DEF RestoreBufferedJSON
      <4>. QED
        BY <2>3, <3>1, <3>2, <3>3, <4>1
    <3>4. CASE ~v[n].decodes
      <4>1. RestoreBufferedJSON(M, s) = s
        BY <3>2, <3>4 DEF RestoreBufferedJSON
      <4>. QED
        BY <2>3, <3>1, <3>2, <3>4, <4>1
    <3>. QED
      BY <3>3, <3>4
  <2>6. \A n \in 1..2 : r[n] = IF v[n].decodes /\ ~InSink(v[n].path) THEN R(n) ELSE v[n]
    BY <1>2, <1>4, <2>4
  <2>7. ASSUME NEW n \in 1..2  PROVE  Got(r[n], v[n], M, q, form)
    <3>1. CASE v[n].decodes /\ ~InSink(v[n].path)
      <4>1. r[n] = R(n)
        BY <2>6, <3>1
      <4>. QED
        BY <1>2, <3>1, <4>1 DEF Got
    <3>2. CASE ~(v[n].decodes /\ ~InSink(v[n].path))
      <4>1. r[n] = v[n]
        BY <2>6, <3>2
      <4>. QED
        BY <1>2, <1>7, <3>2, <4>1 DEF Got
    <3>. QED
      BY <3>1, <3>2
  <2>. QED
    BY <1>1, <1>3, <1>7, <2>3, <2>7
<1>. QED
  BY <1>5, <1>6, <1>7

\* The string the client says next.
Spoken(s) == [path |-> s.path, text |-> s.text, kind |-> s.kind, own |-> TRUE]

\* It is a string of the client's, of characters, at a place of its kind.
LEMMA SpokenIs ==
  ASSUME NEW s \in Says
  PROVE  /\ Spoken(s) \in Leaf /\ Spoken(s).text \in Seq(Plain) /\ s.json \in BOOLEAN
         /\ Claims(s.json, PickProtocol(s.url)) => Placed(PickProtocol(s.url), Spoken(s))
<1>1. /\ s.kind \in Kind /\ s.json \in BOOLEAN /\ s.text \in Seq(Char)
      /\ s.json /\ PickProtocol(s.url) # "none" =>
           IF s.kind = "other" THEN ~Searched(PickProtocol(s.url), s.path) \/ IsDataURL(s.text)
           ELSE InPlace(PickProtocol(s.url), s.kind, s.path) /\ ~IsDataURL(s.text)
  BY PlacesAssumption
<1>2. s.text \in Strings /\ s.text \in Seq(Plain)
  BY <1>1, PlainIs
<1>3. Spoken(s).path = s.path /\ Spoken(s).text = s.text /\ Spoken(s).kind = s.kind
  BY DEF Spoken
<1>4. Spoken(s) \in Leaf
  BY <1>1, <1>2 DEF Spoken, Leaf
<1>5. Claims(s.json, PickProtocol(s.url)) => Placed(PickProtocol(s.url), Spoken(s))
  BY <1>1, <1>3 DEF Claims, Placed
<1>. QED
  BY <1>1, <1>2, <1>3, <1>4, <1>5

LEMMA SayKeeps ==
  ASSUME ConvInv, NEW s \in Says, Say(s)
  PROVE  ConvInv'
<1> DEFINE leaf == Spoken(s)
           to == PickProtocol(s.url)
           whole == Append(history, leaf)
           out == RewriteRequest(key, to, s.json, whole)
           N == Len(history)
<1>1. KeysInv /\ SpokenInv /\ ForwardedInv /\ MintedInv /\ MeantInv
  BY DEF ConvInv
<1>2. /\ pc = "say" /\ (turns > 0 => to = protocol /\ s.json = json)
      /\ protocol' = to /\ json' = s.json /\ history' = whole /\ forwarded' = out
      /\ minted' = minted \cup {a \in UNION {Quoted(out[n].text) : n \in 1..Len(out)} : a.key = key}
      /\ meant' = Append(meant, Last(out).text) /\ pc' = "answer" /\ turns' = turns + 1
      /\ key' = key /\ lost' = lost /\ starts' = starts
  BY DEF Say, Spoken, processVars
<1>3. key \in Keys
  BY <1>1, KeyIsOne
<1>4. leaf \in Leaf /\ leaf.text \in Seq(Plain) /\ s.json \in BOOLEAN /\ (Claims(s.json, to) => Placed(to, leaf))
  BY SpokenIs
<1>5. history \in Seq(Leaf) /\ meant \in Seq(Strings) /\ Len(meant) = N
  BY <1>1 DEF SpokenInv
<1>. HIDE DEF leaf, to
<1>6. /\ whole \in Seq(Leaf) /\ Len(whole) = N + 1 /\ N \in Nat /\ whole[N + 1] = leaf
      /\ \A n \in 1..N : whole[n] = history[n]
  BY <1>4, <1>5, AppendIs
<1>. HIDE DEF whole
<1>7. /\ out \in Seq(Leaf) /\ Len(out) = N + 1
      /\ \A n \in 1..(N + 1) : out[n] = Rewritten(key, to, s.json, whole[n])
  BY <1>3, <1>6, RequestIs
<1>8. Last(out) = out[N + 1] /\ N + 1 \in 1..(N + 1) /\ out[N + 1] \in Leaf
  BY <1>6, <1>7 DEF Last
<1>. HIDE DEF out, N
<1>9. Last(out).text \in Strings
  BY <1>8 DEF Leaf
<1>10. /\ meant' \in Seq(Strings) /\ Len(meant') = N + 1 /\ meant'[N + 1] = out[N + 1].text
       /\ \A n \in 1..N : meant'[n] = meant[n]
  BY <1>2, <1>5, <1>8, <1>9, AppendIs
<1>11. ASSUME NEW n \in 1..N  PROVE  to = protocol /\ s.json = json /\ n \in 1..(N + 1) /\ n \in 1..Len(history)
  <2>1. N # 0 /\ n \in 1..(N + 1)
    BY <1>6
  <2>2. turns \in Nat /\ (turns = 0 => N = 0)
    BY <1>1 DEF KeysInv, N
  <2>3. turns > 0
    BY <2>1, <2>2
  <2>. QED
    BY <1>2, <2>1, <2>3 DEF N
<1>12. \A n \in 1..(N + 1) : n \in 1..N \/ n = N + 1
  BY <1>6
<1>13. Claimed' = Claims(s.json, to)
  BY <1>2 DEF Claimed
<1>14. ASSUME Claims(s.json, to), NEW n \in 1..(N + 1)  PROVE  Placed(to, whole[n])
  <2>1. CASE n \in 1..N
    <3>1. Claimed /\ n \in 1..Len(history) /\ to = protocol
      BY <1>11, <1>14, <2>1 DEF Claimed
    <3>2. Placed(protocol, history[n])
      BY <1>1, <3>1 DEF SpokenInv
    <3>. QED
      BY <1>6, <2>1, <3>1, <3>2
  <2>2. CASE n = N + 1
    BY <1>4, <1>6, <1>14, <2>2
  <2>. QED
    BY <1>12, <2>1, <2>2
<1>15. ASSUME ~Claims(s.json, to), NEW n \in 1..(N + 1)  PROVE  whole[n].text \in Seq(Plain)
  <2>1. CASE n \in 1..N
    <3>1. ~Claimed /\ n \in 1..Len(history)
      BY <1>11, <1>15, <2>1 DEF Claimed
    <3>2. history[n].text \in Seq(Plain)
      BY <1>1, <3>1 DEF SpokenInv
    <3>. QED
      BY <1>6, <2>1, <3>2
  <2>2. CASE n = N + 1
    BY <1>4, <1>6, <2>2
  <2>. QED
    BY <1>12, <2>1, <2>2
<1>16. SpokenInv'
  <2>1. /\ history' \in Seq(Leaf) /\ meant' \in Seq(Strings) /\ Len(meant') = Len(history')
    BY <1>2, <1>6, <1>10
  <2>2. Claims(json', protocol') => \A n \in 1..Len(history') : Placed(protocol', history'[n])
    BY <1>2, <1>6, <1>14
  <2>3. ~Claims(json', protocol') => \A n \in 1..Len(history') : history'[n].text \in Seq(Plain)
    BY <1>2, <1>6, <1>15
  <2>. QED
    BY <2>1, <2>2, <2>3 DEF SpokenInv, Claimed
<1>17. ForwardedInv'
  <2>1. forwarded' \in Seq(Leaf) /\ Len(forwarded') = N + 1 /\ Len(history') = N + 1
    BY <1>2, <1>6, <1>7
  <2>2. \A n \in 1..(N + 1) : forwarded'[n] = Rewritten(key', protocol', json', history'[n])
    BY <1>2, <1>7
  <2>3. key' \in Keys /\ Len(forwarded') <= Len(history')
    BY <1>2, <1>3, <1>6, <2>1
  <2>. QED
    BY <2>1, <2>2, <2>3 DEF ForwardedInv
<1>18. ASSUME NEW n \in 1..(N + 1)
       PROVE  /\ out[n].text \in Strings
              /\ ~Claims(s.json, to) => out[n].text \in Seq(Plain)
  <2>1. out[n] \in Leaf
    BY <1>6, <1>7
  <2>2. ~Claims(s.json, to) => out[n] = whole[n]
    BY <1>7 DEF Rewritten
  <2>. QED
    BY <1>15, <2>1, <2>2 DEF Leaf
<1>19. MintedInv'
  <2>1. minted \in SUBSET Masks(key)
    BY <1>1 DEF MintedInv
  <2>2. ASSUME NEW n \in 1..(N + 1), NEW a \in Quoted(out[n].text), a.key = key  PROVE  a \in Masks(key)
    <3>1. a \in Tokens
      BY <1>18, QuotedAre
    <3>. QED
      BY <1>3, <2>2, <3>1, KeyTells
  <2>3. minted' \in SUBSET Masks(key)
    BY <1>2, <1>7, <2>1, <2>2
  <2>4. ASSUME ~Claims(s.json, to)  PROVE  minted' = {}
    <3>1. minted = {}
      <4>1. ~Claimed
        <5>1. CASE turns = 0
          BY <1>1, <5>1 DEF KeysInv, Claimed, Claims
        <5>2. CASE turns # 0
          <6>1. turns > 0
            BY <1>1, <5>2 DEF KeysInv
          <6>. QED
            BY <1>2, <2>4, <6>1 DEF Claimed
        <5>. QED
          BY <5>1, <5>2
      <4>. QED
        BY <1>1, <4>1 DEF MintedInv
    <3>2. ASSUME NEW n \in 1..(N + 1), NEW a \in Quoted(out[n].text), a.key = key  PROVE FALSE
      <4>1. a = Made
        BY <1>18, <2>4, <3>2, QuotedAre
      <4>2. a.key = 0
        BY <4>1, MaskIs DEF Made
      <4>. QED
        BY <1>3, <3>2, <4>2, ConversationAssumption DEF Keys
    <3>. QED
      BY <1>2, <1>7, <3>1, <3>2
  <2>. QED
    BY <1>2, <1>13, <2>3, <2>4 DEF MintedInv
<1>20. MeantInv'
  <2>1. ASSUME ~lost, NEW n \in 1..(N + 1), whole[n].own \/ OnlyRestored(meant'[n], whole[n].text)
        PROVE  Rewritten(key, to, s.json, whole[n]).text = meant'[n]
    <3>1. CASE n \in 1..N
      <4>1. whole[n] = history[n] /\ meant'[n] = meant[n] /\ n \in 1..Len(history)
        BY <1>6, <1>10, <1>11, <3>1
      <4>2. history[n].own \/ OnlyRestored(meant[n], history[n].text)
        BY <2>1, <4>1
      <4>3. Rewritten(key, protocol, json, history[n]).text = meant[n]
        BY <1>1, <2>1, <4>1, <4>2 DEF MeantInv
      <4>. QED
        BY <1>11, <3>1, <4>1, <4>3
    <3>2. CASE n = N + 1
      BY <1>7, <1>10, <3>2
    <3>. QED
      BY <1>12, <3>1, <3>2
  <2>. QED
    BY <1>2, <1>6, <2>1 DEF MeantInv
<1>21. KeysInv'
  BY <1>1, <1>2 DEF KeysInv
<1>22. AnswerInv'
  BY <1>2 DEF AnswerInv
<1>. QED
  BY <1>16, <1>17, <1>19, <1>20, <1>21, <1>22 DEF ConvInv

\* What is forwarded of a request nobody searches has no placeholder of a table.
LEMMA SentPlain ==
  ASSUME SpokenInv, ForwardedInv, ~Claimed
  PROVE  \A n \in 1..Len(forwarded) : forwarded[n].text \in Seq(Plain)
<1>1. ASSUME NEW n \in 1..Len(forwarded)  PROVE  forwarded[n].text \in Seq(Plain)
  <2>1. n \in 1..Len(history)
    <3>1. Len(forwarded) <= Len(history) /\ Len(forwarded) \in Nat /\ Len(history) \in Nat
      BY DEF ForwardedInv, SpokenInv
    <3>. QED
      BY <3>1
  <2>2. PICK k \in Keys : forwarded[n] = Rewritten(k, protocol, json, history[n])
    BY DEF ForwardedInv
  <2>3. forwarded[n] = history[n]
    BY <2>2 DEF Rewritten, Claimed
  <2>. QED
    BY <2>1, <2>3 DEF SpokenInv
<1>. QED
  BY <1>1

LEMMA AnswerKeeps ==
  ASSUME ConvInv, UpstreamAnswers
  PROVE  ConvInv'
<1>1. KeysInv /\ SpokenInv /\ ForwardedInv /\ MintedInv /\ MeantInv
  BY DEF ConvInv
<1>2. /\ pc = "answer" /\ pc' = "take"
      /\ protocol' = protocol /\ json' = json /\ history' = history /\ meant' = meant /\ forwarded' = forwarded
      /\ minted' = minted /\ turns' = turns /\ key' = key /\ lost' = lost /\ starts' = starts
  BY DEF UpstreamAnswers, processVars
<1>3. PICK q \in Quotations, form \in {"json", "ndjson", "text"}, d \in BOOLEAN, st \in BOOLEAN,
           e \in {x \in Echoes : x.protocol = protocol}, f \in {x \in Echoes : x.protocol = protocol} :
        /\ form = "text" => e.kind = "prose" /\ f.kind = "prose"
        /\ answer' = [form |-> form, values |-> <<Value(e, q, d, FALSE), Value(f, q, ~st, st)>>]
        /\ received' = RestoreResponse(minted, form, <<Value(e, q, d, FALSE), Value(f, q, ~st, st)>>)
  BY DEF UpstreamAnswers
<1>4. Quotable(q) /\ (~Claimed => q \in Seq(Plain))
  <2>1. ~Claimed => \A n \in 1..Len(forwarded) : forwarded[n].text \in Seq(Plain)
    BY <1>1, SentPlain
  <2>. QED
    BY <1>1, <2>1, QuotationsAre
<1>5. Claimed' <=> Claimed
  BY <1>2 DEF Claimed
<1>6. Answers(form, q, e, f, d, st)'
  <2>1. answer'.values = <<Value(e, q, d, FALSE), Value(f, q, ~st, st)>>
    BY <1>3
  <2>. QED
    BY <1>2, <1>3, <1>4, <1>5, <2>1 DEF Answers
<1>7. AnswerInv'
  BY <1>6 DEF AnswerInv
<1>8. KeysInv'
  BY <1>1, <1>2 DEF KeysInv
<1>9. SpokenInv' /\ ForwardedInv' /\ MintedInv' /\ MeantInv'
  BY <1>1, <1>2, <1>5 DEF SpokenInv, ForwardedInv, MintedInv, MeantInv
<1>. QED
  BY <1>7, <1>8, <1>9 DEF ConvInv

LEMMA TakeKeeps ==
  ASSUME ConvInv, NEW e \in Echoes, Take(e)
  PROVE  ConvInv'
<1> DEFINE N == Len(history)
<1>1. KeysInv /\ SpokenInv /\ ForwardedInv /\ MintedInv /\ MeantInv /\ AnswerInv
  BY DEF ConvInv
<1>2. /\ pc = "take" /\ e.protocol = protocol /\ pc' = "say"
      /\ protocol' = protocol /\ json' = json /\ forwarded' = forwarded
      /\ minted' = minted /\ turns' = turns /\ key' = key /\ lost' = lost /\ starts' = starts
  BY DEF Take, processVars
<1>3. PICK n \in 1..Len(received) :
        /\ received[n].path = e.from
        /\ history' = Append(history, [path |-> e.to, text |-> received[n].text, kind |-> e.kind, own |-> FALSE])
        /\ meant' = Append(meant, answer.values[n].text)
  BY DEF Take
<1>4. PICK form, q, d : \E e1, e2, st : Answers(form, q, e1, e2, d, st)
  BY <1>1, <1>2 DEF AnswerInv
<1>5. PICK e1, e2, st : Answers(form, q, e1, e2, d, st)
  BY <1>4
<1>6. PICK v : v = <<Value(e1, q, d, FALSE), Value(e2, q, ~st, st)>>
  OBVIOUS
<1>7. /\ answer.values = v /\ received = RestoreResponse(minted, form, v) /\ e1 \in Echoes /\ e2 \in Echoes
      /\ form \in {"json", "ndjson", "text"} /\ (form = "text" => e1.kind = "prose" /\ e2.kind = "prose")
      /\ Quotable(q) /\ (~Claimed => q \in Seq(Plain))
  BY <1>5, <1>6 DEF Answers
<1>8. /\ Len(received) \in {1, 2}
      /\ v[1].path = e1.from /\ v[2].path = e2.from /\ v[1].kind = e1.kind /\ v[2].kind = e2.kind
      /\ \A m \in 1..Len(received) : Got(received[m], v[m], minted, q, form)
  <2>1. PICK M, r : M = minted /\ r = received
    OBVIOUS
  <2>2. Restored(r, v, e1, e2, q, d, st, M, form) /\ form \in {"json", "ndjson", "text"}
    BY <1>6, <1>7, <2>1 DEF Restored
  <2>3. /\ Len(r) \in {1, 2}
        /\ v[1].path = e1.from /\ v[2].path = e2.from /\ v[1].kind = e1.kind /\ v[2].kind = e2.kind
        /\ \A m \in 1..Len(r) : Got(r[m], v[m], M, q, form)
    <3>1. Received(r, v, e1, e2, M, q, form)
      BY <2>2, ReceivedIs
    <3>. QED
      BY <3>1 DEF Received
  <2>. QED
    BY <2>1, <2>3, Zenon
<1>9. PICK g \in Echoes : v[n].path = g.from /\ (form = "text" => g.kind = "prose")
  <2>1. n = 1 \/ n = 2
    BY <1>8
  <2>. QED
    BY <1>7, <1>8, <2>1
<1>10. Got(received[n], v[n], minted, q, form)
  BY <1>8
<1>11. PICK x : x = received[n].text
  OBVIOUS
<1>12. v[n].text = q /\ g.from = e.from
  BY <1>3, <1>9, <1>10 DEF Got
<1>13. e.kind = "tool" <=> g.kind = "tool"
  BY <1>12, PlacesAssumption
<1>14. x = q \/ (e.kind = "prose" /\ x = RestoreInText(minted, q))
  <2>1. CASE x = q
    BY <2>1
  <2>2. CASE x # q
    <3>1. x = RestoreInText(minted, q) /\ (form # "text" => ~InSink(v[n].path))
      BY <1>10, <1>11, <2>2 DEF Got
    <3>2. e.kind \in {"prose", "tool"} /\ g.kind \in {"prose", "tool"}
      BY PlacesAssumption
    <3>3. CASE form = "text"
      BY <1>9, <1>13, <3>1, <3>2, <3>3
    <3>4. CASE form # "text"
      <4>1. \A i \in 1..Len(e.from) : e.from[i].key \notin RestoreForbiddenKeys
        BY <1>9, <1>12, <3>1, <3>4 DEF InSink
      <4>2. {e.from[i].key : i \in 1..Len(e.from)} \cap RestoreForbiddenKeys = {}
        BY <4>1
      <4>3. e.kind # "tool"
        BY <4>2, PlacesAssumption
      <4>. QED
        BY <3>1, <3>2, <4>3
    <3>. QED
      BY <3>3, <3>4
  <2>. QED
    BY <2>1, <2>2
<1>15. PICK leaf : leaf = [path |-> e.to, text |-> x, kind |-> e.kind, own |-> FALSE]
  OBVIOUS
<1>16. key \in Keys /\ minted \in SUBSET Masks(key) /\ (~Claimed => minted = {})
  BY <1>1, KeyIsOne DEF MintedInv
<1>17. ~Claims(json, protocol) => minted = {} /\ q \in Seq(Plain)
  BY <1>7, <1>16 DEF Claimed
<1>18. /\ leaf \in Leaf /\ ~leaf.own
       /\ OnlyRestored(q, leaf.text) => Rewritten(key, protocol, json, leaf).text = q
       /\ Claims(json, protocol) => Placed(protocol, leaf)
       /\ ~Claims(json, protocol) => leaf.text \in Seq(Plain)
  <2>1. PICK kk, M, to, js : kk = key /\ M = minted /\ to = protocol /\ js = json
    OBVIOUS
  <2>2. kk \in Keys /\ Within(M, kk, q, js, to) /\ e.protocol = to /\ Repeats(x, e, q, M)
    BY <1>2, <1>7, <1>14, <1>16, <1>17, <2>1 DEF Within, Repeats
  <2>3. Repeatable(Copy(e, x), kk, q, js, to)
    BY <2>2, RepeatedIs
  <2>4. Copy(e, x) = leaf /\ ~leaf.own
    BY <1>15 DEF Copy
  <2>. QED
    BY <2>1, <2>3, <2>4, Zenon DEF Repeatable
<1>19. history \in Seq(Leaf) /\ meant \in Seq(Strings) /\ Len(meant) = N
  BY <1>1 DEF SpokenInv
<1>20. history' = Append(history, leaf) /\ meant' = Append(meant, q) /\ q \in Strings
  BY <1>3, <1>7, <1>11, <1>12, <1>15 DEF Quotable
<1>21. /\ history' \in Seq(Leaf) /\ Len(history') = N + 1 /\ N \in Nat /\ history'[N + 1] = leaf
       /\ \A i \in 1..N : history'[i] = history[i]
  BY <1>18, <1>19, <1>20, AppendIs
<1>22. /\ meant' \in Seq(Strings) /\ Len(meant') = N + 1 /\ meant'[N + 1] = q
       /\ \A i \in 1..N : meant'[i] = meant[i]
  BY <1>19, <1>20, AppendIs
<1>23. N = Len(history)
  OBVIOUS
<1>. HIDE DEF N
<1>24. \A i \in 1..(N + 1) : i \in 1..N \/ i = N + 1
  BY <1>21
<1>25. Claimed' <=> Claimed
  BY <1>2 DEF Claimed
<1>26. SpokenInv'
  <2>1. ASSUME Claimed, NEW i \in 1..(N + 1)  PROVE  Placed(protocol, history'[i])
    BY <1>1, <1>18, <1>21, <1>23, <1>24, <2>1 DEF SpokenInv, Claimed
  <2>2. ASSUME ~Claimed, NEW i \in 1..(N + 1)  PROVE  history'[i].text \in Seq(Plain)
    BY <1>1, <1>18, <1>21, <1>23, <1>24, <2>2 DEF SpokenInv, Claimed
  <2>. QED
    BY <1>2, <1>21, <1>22, <1>25, <2>1, <2>2 DEF SpokenInv
<1>27. ForwardedInv'
  <2>1. Len(forwarded) <= N /\ Len(forwarded) \in Nat
    BY <1>1, <1>23 DEF ForwardedInv
  <2>2. \A i \in 1..Len(forwarded) : i \in 1..N
    BY <1>21, <2>1
  <2>3. \A i \in 1..Len(forwarded) : history'[i] = history[i]
    BY <1>21, <2>2
  <2>4. Len(forwarded) <= Len(history')
    BY <1>21, <2>1
  <2>. QED
    BY <1>1, <1>2, <2>3, <2>4 DEF ForwardedInv
<1>28. MeantInv'
  <2>1. ASSUME ~lost, NEW i \in 1..(N + 1), history'[i].own \/ OnlyRestored(meant'[i], history'[i].text)
        PROVE  Rewritten(key, protocol, json, history'[i]).text = meant'[i]
    <3>1. CASE i \in 1..N
      <4>1. history'[i] = history[i] /\ meant'[i] = meant[i] /\ i \in 1..Len(history)
        BY <1>21, <1>22, <1>23, <3>1
      <4>2. history[i].own \/ OnlyRestored(meant[i], history[i].text)
        BY <2>1, <4>1
      <4>3. Rewritten(key, protocol, json, history[i]).text = meant[i]
        BY <1>1, <2>1, <4>1, <4>2 DEF MeantInv
      <4>. QED
        BY <4>1, <4>3
    <3>2. CASE i = N + 1
      <4>1. history'[i] = leaf /\ meant'[i] = q
        BY <1>21, <1>22, <3>2
      <4>2. OnlyRestored(q, leaf.text)
        BY <1>18, <2>1, <4>1
      <4>. QED
        BY <1>18, <4>1, <4>2
    <3>. QED
      BY <1>24, <3>1, <3>2
  <2>. QED
    BY <1>2, <1>21, <2>1 DEF MeantInv
<1>29. KeysInv' /\ MintedInv' /\ AnswerInv'
  BY <1>1, <1>2, <1>25 DEF KeysInv, MintedInv, AnswerInv
<1>. QED
  BY <1>26, <1>27, <1>28, <1>29 DEF ConvInv

LEMMA RestartKeeps ==
  ASSUME ConvInv, NEW readable \in BOOLEAN, Restart(readable)
  PROVE  ConvInv'
<1>1. KeysInv /\ SpokenInv /\ ForwardedInv /\ MintedInv /\ MeantInv
  BY DEF ConvInv
<1>2. /\ pc = "say" /\ turns > 0 /\ starts < MaxStarts /\ key' = LoadOrCreateInstallKey(readable)
      /\ lost' = (lost \/ ~readable) /\ starts' = starts + 1 /\ minted' = {}
      /\ protocol' = protocol /\ json' = json /\ history' = history /\ meant' = meant
      /\ forwarded' = forwarded /\ pc' = pc /\ turns' = turns
  BY DEF Restart
<1>3. Claimed' <=> Claimed
  BY <1>2 DEF Claimed
<1>4. KeysInv'
  <2>1. starts \in 0..MaxStarts /\ key \in 1..(starts + 1) /\ MaxStarts \in Nat
    BY <1>1, ConversationAssumption DEF KeysInv
  <2>2. starts' \in 0..MaxStarts
    BY <1>2, <2>1
  <2>3. key' = key \/ key' = key + 1
    BY <1>2 DEF LoadOrCreateInstallKey
  <2>4. key' \in 1..(starts' + 1)
    BY <1>2, <2>1, <2>3
  <2>. QED
    BY <1>1, <1>2, <2>2, <2>4 DEF KeysInv
<1>5. ~lost' => ~lost /\ key' = key
  <2>1. CASE readable
    BY <1>2, <2>1 DEF LoadOrCreateInstallKey
  <2>2. CASE ~readable
    BY <1>2, <2>2
  <2>. QED
    BY <2>1, <2>2
<1>6. SpokenInv'
  BY <1>1, <1>2, <1>3 DEF SpokenInv
<1>7. ForwardedInv'
  BY <1>1, <1>2, <1>5 DEF ForwardedInv
<1>8. MintedInv'
  BY <1>2 DEF MintedInv
<1>9. MeantInv'
  BY <1>1, <1>2, <1>5 DEF MeantInv
<1>10. AnswerInv'
  BY <1>2 DEF AnswerInv
<1>. QED
  BY <1>4, <1>6, <1>7, <1>8, <1>9, <1>10 DEF ConvInv

LEMMA NothingKeeps ==
  ASSUME ConvInv, UNCHANGED convVars
  PROVE  ConvInv'
<1>1. /\ protocol' = protocol /\ json' = json /\ history' = history /\ meant' = meant
      /\ forwarded' = forwarded /\ minted' = minted /\ answer' = answer /\ received' = received
      /\ pc' = pc /\ turns' = turns /\ key' = key /\ lost' = lost /\ starts' = starts
  BY DEF convVars, processVars
<1>2. Claimed' <=> Claimed
  BY <1>1 DEF Claimed
<1>3. ASSUME NEW form, NEW q, NEW d, NEW e, NEW f, NEW st, Answers(form, q, e, f, d, st)
      PROVE  Answers(form, q, e, f, d, st)'
  BY <1>1, <1>2, <1>3 DEF Answers
<1>4. AnswerInv'
  <2>1. CASE pc = "take"
    <3>1. PICK form, q, d : \E e, f, st : Answers(form, q, e, f, d, st)
      BY <2>1 DEF ConvInv, AnswerInv
    <3>2. PICK e, f, st : Answers(form, q, e, f, d, st)
      BY <3>1
    <3>3. Answers(form, q, e, f, d, st)'
      BY <1>3, <3>2
    <3>. QED
      BY <3>3 DEF AnswerInv
  <2>. QED
    BY <1>1, <2>1 DEF AnswerInv
<1>5. KeysInv' /\ SpokenInv' /\ ForwardedInv' /\ MintedInv' /\ MeantInv'
  BY <1>1, <1>2 DEF ConvInv, KeysInv, SpokenInv, ForwardedInv, MintedInv, MeantInv
<1>. QED
  BY <1>4, <1>5 DEF ConvInv

\* ConvInv is an inductive invariant of the conversation (handleProxy, server.go:233).
THEOREM ConversationHolds == ConvSpec => []ConvInv
<1>1. ASSUME ConvInv, [ConvNext]_convVars  PROVE ConvInv'
  <2>1. CASE ConvNext
    BY <1>1, <2>1, SayKeeps, AnswerKeeps, TakeKeeps, RestartKeeps DEF ConvNext
  <2>2. CASE UNCHANGED convVars
    BY <1>1, <2>2, NothingKeeps
  <2>. QED
    BY <1>1, <2>1, <2>2
<1>. QED
  BY <1>1, ConvStart, PTL DEF ConvSpec

\* The paths of tool arguments are those restoring keeps out of.
LEMMA SinkTells == \A e \in Echoes : InSink(e.from) <=> e.kind = "tool"
<1>1. ASSUME NEW e \in Echoes  PROVE InSink(e.from) <=> e.kind = "tool"
  <2>1. InSink(e.from) <=> {e.from[i].key : i \in 1..Len(e.from)} \cap RestoreForbiddenKeys # {}
    BY DEF InSink
  <2>. QED
    BY <2>1, PlacesAssumption
<1>. QED
  BY <1>1

\* A secret leaves in a string of a JSON request that a protocol claims only where its
\* own detector took other text than the secret and let it go (a number that runs on, a
\* shorter match), or where no text key leads (protocol.go:10, server.go:301).
THEOREM SecretsStay == ConvSpec => []SecretsStayHome
<1>1. ConvInv => SecretsStayHome
  <2>1. SUFFICES ASSUME ConvInv, json, protocol # "none", NEW n \in 1..Len(forwarded)
        PROVE IF history[n].kind = "other" THEN forwarded[n] = history[n]
              ELSE OnlyMissed(forwarded[n].text, history[n].text, Applicable(history[n].kind = "prose"))
    BY DEF SecretsStayHome
  <2>2. KeysInv /\ SpokenInv /\ ForwardedInv
    BY <2>1 DEF ConvInv
  <2>3. n \in 1..Len(history)
    <3>1. Len(forwarded) <= Len(history) /\ Len(forwarded) \in Nat /\ Len(history) \in Nat
      BY <2>2 DEF ForwardedInv, SpokenInv
    <3>. QED
      BY <3>1
  <2>4. Claims(json, protocol)
    BY <2>1 DEF Claims
  <2>5. history[n] \in Leaf /\ Placed(protocol, history[n])
    BY <2>2, <2>3, <2>4 DEF SpokenInv, Claimed
  <2>6. PICK k \in Keys : forwarded[n] = Rewritten(k, protocol, json, history[n])
    BY <2>2 DEF ForwardedInv
  <2>7. PICK to, js, leaf : to = protocol /\ js = json /\ leaf = history[n]
    OBVIOUS
  <2>8. Claims(js, to) /\ leaf \in Leaf /\ Placed(to, leaf)
    BY <2>4, <2>5, <2>7
  <2>9. IF leaf.kind = "other" THEN Rewritten(k, to, js, leaf) = leaf
        ELSE OnlyMissed(Rewritten(k, to, js, leaf).text, leaf.text, Applicable(leaf.kind = "prose"))
    BY <2>8, NoSecretsLeft
  <2>. QED
    BY <2>6, <2>7, <2>9, Zenon
<1>. QED
  BY <1>1, ConversationHolds, PTL

\* While the install key is what it was, the upstream sees of the client's strings what
\* it saw before, and of its own answers what it wrote, wherever the detectors find in
\* the restored answer the secrets restored and nothing else (protocol.go:158,162,
\* installkey.go:30).
THEOREM HistoryStays == ConvSpec => []HistoryIsStable
<1>1. ConvInv => HistoryIsStable
  <2>1. SUFFICES ASSUME ConvInv, ~lost, NEW n \in 1..Len(forwarded),
                        history[n].own \/ OnlyRestored(meant[n], history[n].text)
        PROVE forwarded[n].text = meant[n]
    BY DEF HistoryIsStable
  <2>2. SpokenInv /\ ForwardedInv /\ MeantInv
    BY <2>1 DEF ConvInv
  <2>3. n \in 1..Len(history)
    <3>1. Len(forwarded) <= Len(history) /\ Len(forwarded) \in Nat /\ Len(history) \in Nat
      BY <2>2 DEF ForwardedInv, SpokenInv
    <3>. QED
      BY <3>1
  <2>4. forwarded[n] = Rewritten(key, protocol, json, history[n])
    BY <2>1, <2>2 DEF ForwardedInv
  <2>. QED
    BY <2>1, <2>2, <2>3, <2>4 DEF MeantInv
<1>. QED
  BY <1>1, ConversationHolds, PTL

\* Tool arguments come back as the upstream wrote them, words for the user with no
\* placeholder the table knows, unless a value of the answer does not decode (restore.go:10).
THEOREM RestoredOutsideSinks == ConvSpec => []RestoredButInSinks
<1>1. ConvInv => RestoredButInSinks
  <2>1. SUFFICES ASSUME ConvInv, pc = "take", answer.form # "text", NEW n \in 1..Len(received)
        PROVE IF received[n].kind = "tool" THEN received[n].text = answer.values[n].text
              ELSE KnownIn(received[n].text) # {} =>
                     \E m \in 1..Len(received) : ~received[m].decodes /\ (answer.form = "json" \/ m = n)
    BY DEF RestoredButInSinks
  <2>2. KeysInv /\ MintedInv /\ AnswerInv
    BY <2>1 DEF ConvInv
  <2>3. PICK form, q, d : \E e1, e2, st : Answers(form, q, e1, e2, d, st)
    BY <2>1, <2>2 DEF AnswerInv
  <2>4. PICK e1, e2, st : Answers(form, q, e1, e2, d, st)
    BY <2>3
  <2>5. PICK v, M, r : /\ v = <<Value(e1, q, d, FALSE), Value(e2, q, ~st, st)>>
                       /\ M = minted /\ r = received
    OBVIOUS
  <2>6. /\ answer.values = v /\ answer.form = form /\ received = RestoreResponse(minted, form, v)
        /\ e1 \in Echoes /\ e2 \in Echoes /\ form \in {"json", "ndjson", "text"} /\ Quotable(q)
    BY <2>4, <2>5 DEF Answers
  <2>7. Restored(r, v, e1, e2, q, d, st, M, form)
    BY <2>5, <2>6 DEF Restored
  <2>8. /\ Len(r) \in {1, 2}
        /\ v[1].path = e1.from /\ v[2].path = e2.from /\ v[1].kind = e1.kind /\ v[2].kind = e2.kind
        /\ \A m \in 1..Len(r) : Got(r[m], v[m], M, q, form)
        /\ form = "json" =>
             \A m \in 1..Len(r) :
               r[m].text = RestoreInText(M, q) \/ InSink(v[m].path) \/ \E i \in 1..Len(r) : ~v[i].decodes
    <3>1. Received(r, v, e1, e2, M, q, form)
      BY <2>6, <2>7, ReceivedIs
    <3>. QED
      BY <3>1 DEF Received
  <2>9. n \in 1..Len(r) /\ n \in 1..2
    BY <2>5, <2>8
  <2>10. PICK g \in Echoes : v[n].path = g.from /\ v[n].kind = g.kind
    <3>1. n = 1 \/ n = 2
      BY <2>9
    <3>. QED
      BY <2>6, <2>8, <3>1
  <2>11. InSink(v[n].path) <=> v[n].kind = "tool"
    BY <2>10, SinkTells
  <2>12. Got(r[n], v[n], M, q, form) /\ form # "text"
    BY <2>1, <2>6, <2>8, <2>9
  <2>13. CASE v[n].kind = "tool"
    <3>1. r[n].text = q /\ v[n].text = q /\ r[n].kind = "tool"
      BY <2>11, <2>12, <2>13 DEF Got
    <3>. QED
      BY <2>5, <2>6, <3>1
  <2>14. CASE v[n].kind # "tool"
    <3>1. r[n].kind # "tool" /\ ~InSink(v[n].path)
      BY <2>11, <2>12, <2>14 DEF Got
    <3>2. ASSUME r[n].text = RestoreInText(M, q)  PROVE KnownIn(received[n].text) = {}
      <4>1. key \in Keys /\ M \in SUBSET Masks(key)
        BY <2>2, <2>5, KeyIsOne DEF MintedInv
      <4>2. PICK kk \in Keys : M \in SUBSET Masks(kk)
        BY <4>1
      <4>3. q \in Strings
        BY <2>6 DEF Quotable
      <4>4. RestoreInText(M, q) \in Seq(Atom \ M)
        BY <4>2, <4>3, RestoredIs
      <4>5. \A i \in 1..Len(r[n].text) : r[n].text[i] \notin M
        BY <3>2, <4>4
      <4>. QED
        BY <2>5, <4>5 DEF KnownIn, Quoted, ToSet
    <3>3. CASE r[n].text # RestoreInText(M, q)
      <4>1. \E m \in 1..Len(r) : ~v[m].decodes /\ (form = "json" \/ m = n)
        <5>1. CASE form = "json"
          BY <2>8, <2>9, <3>1, <3>3, <5>1
        <5>2. CASE form # "json"
          <6>1. ~v[n].decodes
            BY <2>12, <3>1, <3>3, <5>2 DEF Got
          <6>. QED
            BY <2>9, <6>1
        <5>. QED
          BY <5>1, <5>2
      <4>2. \A m \in 1..Len(r) : r[m].decodes = v[m].decodes
        BY <2>8 DEF Got
      <4>3. \E m \in 1..Len(r) : ~r[m].decodes /\ (form = "json" \/ m = n)
        BY <4>1, <4>2
      <4>. QED
        BY <2>5, <2>6, <2>8, <3>1, <4>3
    <3>. QED
      BY <2>5, <3>1, <3>2, <3>3
  <2>. QED
    BY <2>13, <2>14
<1>. QED
  BY <1>1, ConversationHolds, PTL
=============================================================================
