---------------------------- MODULE StreamProofs ----------------------------
(***************************************************************************)
(* Proofs about streamed responses: how much a slot may hold back, that a  *)
(* held tail has an event to go out in and goes before its block's end,    *)
(* that a slot's text arrives whole and restored however it was cut, that  *)
(* what nobody reads passes once, and what the guard lets through and what *)
(* it drops.                                                               *)
(***************************************************************************)
EXTENDS ResponseStream, TextsProofs

\* The tail PartialAtTail holds back is shorter than a placeholder (placeholder.go):
\* the maxCarry test of processEvent never sends one on, whatever the text.
THEOREM TailIsShort ==
  ASSUME NEW s \in Text
  PROVE  /\ PartialAtTail(s) \in 0..Len(s)
         /\ Len(s) - PartialAtTail(s) < Full
<1>1. Len(s) \in Nat /\ Len(Prefix) \in Nat \ {0} /\ Len(Suffix) \in Nat \ {0} /\ Width \in Nat \ {0}
  BY PlaceholderAssumption DEF Text
<1>2. CASE OpeningTails(s) # {}
  <2>1. OpeningTails(s) \in SUBSET Nat
    BY <1>1 DEF OpeningTails
  <2>2. Least(OpeningTails(s)) \in OpeningTails(s)
    BY <1>2, <2>1, LeastExists
  <2>. QED
    BY <1>1, <1>2, <2>2 DEF OpeningTails, PartialAtTail, Full
<1>3. CASE OpeningTails(s) = {} /\ Openings(s) # {} /\ Unfinished(s, Greatest(Openings(s)))
  <2>1. Openings(s) \in SUBSET (0..Len(s))
    BY DEF Openings
  <2>2. Greatest(Openings(s)) \in Openings(s)
    BY <1>1, <1>3, <2>1, GreatestExists
  <2> DEFINE i == Greatest(Openings(s))
  <2>3. i \in 0..Len(s)
    BY <2>1, <2>2
  <2>4. Len(s) < i + Len(Prefix) + Width + Len(Suffix)
    BY <1>1, <1>3, <2>3 DEF Unfinished
  <2>5. PartialAtTail(s) = i
    BY <1>3 DEF PartialAtTail
  <2>. HIDE DEF i
  <2>. QED
    BY <1>1, <2>3, <2>4, <2>5 DEF Full
<1>4. CASE OpeningTails(s) = {} /\ ~(Openings(s) # {} /\ Unfinished(s, Greatest(Openings(s))))
  BY <1>1, <1>4 DEF PartialAtTail, Nowhere, Full
<1>. QED
  BY <1>2, <1>3, <1>4

-----------------------------------------------------------------------------
(* Restored texts are texts.                                               *)

LEMMA FullIsNat == Full \in Nat \ {0} /\ Width \in Nat /\ Len(Prefix) \in Nat /\ Len(Suffix) \in Nat
BY PlaceholderAssumption DEF Full

LEMMA ResolvedIsText ==
  ASSUME NEW s \in Text, NEW i \in 0..Len(s), PlaceholderAt(s, i)
  PROVE  Resolved(s, i) \in Text /\ i + Full \in i + 1..Len(s)
<1>1. i + Full \in i + 1..Len(s) /\ i + 1 \in Nat
  BY FullIsNat DEF PlaceholderAt, Text
<1>2. SubSeq(s, i + 1, i + Full) \in Text
  BY <1>1 DEF Text
<1>3. TokenAt(s, i) \in DOMAIN SecretOf => SecretOf[TokenAt(s, i)] \in Text
  BY PlaceholderAssumption
<1>. QED
  BY <1>1, <1>2, <1>3 DEF Resolved

\* What is restored of s after position i, given what is restored after later ones.
Restored(s, from, i) ==
  from[i] = IF PlaceholderAt(s, i) THEN Resolved(s, i) \o from[i + Full] ELSE <<s[i + 1]>> \o from[i + 1]

\* The recursive function of RestoreInText exists, and its values are texts.
LEMMA RestoredFromIs ==
  ASSUME NEW s \in Text
  PROVE  /\ RestoredFrom(s) \in [0..Len(s) -> Text] /\ RestoredFrom(s)[Len(s)] = << >>
         /\ \A i \in 0..Len(s) - 1 : Restored(s, RestoredFrom(s), i)
<1> DEFINE N == Len(s)
           F == [0..N -> Text]
           body(g, i) == IF PlaceholderAt(s, i) THEN Resolved(s, i) \o g[i + Full]
                                                ELSE <<s[i + 1]>> \o g[i + 1]
           Restores(g) == g = [i \in 0..N |-> IF i = N THEN << >> ELSE body(g, i)]
           step == [n \in 1..N |-> [g \in F |-> [g EXCEPT ![N - n] = body(g, N - n)]]]
           start == [i \in 0..N |-> << >>]
<1>1. N \in Nat /\ << >> \in Text /\ start \in F
  BY DEF Text
<1>2. ASSUME NEW i \in 0..N, i # N
      PROVE  /\ PlaceholderAt(s, i) => i + Full \in i + 1..N
             /\ i + 1 \in i + 1..N
  <2>1. PlaceholderAt(s, i) => i + Full \in i + 1..N
    BY ResolvedIsText
  <2>2. i + 1 \in i + 1..N
    BY <1>1, <1>2
  <2>. QED
    BY <2>1, <2>2
<1>3. ASSUME NEW g, DOMAIN g = 0..N, NEW i \in 0..N, i # N, \A j \in i + 1..N : g[j] \in Text
      PROVE  body(g, i) \in Text
  <2>1. CASE PlaceholderAt(s, i)
    <3>1. Resolved(s, i) \in Text /\ g[i + Full] \in Text
      BY <1>2, <1>3, <2>1, ResolvedIsText
    <3>. QED
      BY <2>1, <3>1, ConcatProperties DEF Text
  <2>2. CASE ~PlaceholderAt(s, i)
    <3>1. g[i + 1] \in Text /\ i + 1 \in 1..N
      BY <1>1, <1>2, <1>3
    <3>2. <<s[i + 1]>> \in Text
      BY <3>1 DEF Text
    <3>. QED
      BY <2>2, <3>1, <3>2, ConcatProperties DEF Text
  <2>. QED
    BY <2>1, <2>2
<1>4. ASSUME NEW g, NEW h, NEW i \in 0..N, i # N, \A j \in i + 1..N : g[j] = h[j]
      PROVE  body(g, i) = body(h, i)
  BY <1>2, <1>4
<1>. HIDE DEF body
<1>5. step \in [1..N -> [F -> F]]
  <2>1. ASSUME NEW n \in 1..N, NEW g \in F  PROVE  [g EXCEPT ![N - n] = body(g, N - n)] \in F
    <3>1. N - n \in 0..N /\ N - n # N
      BY <1>1
    <3>2. \A j \in N - n + 1..N : g[j] \in Text
      BY <1>1
    <3>3. body(g, N - n) \in Text
      BY <1>3, <3>1, <3>2
    <3>. QED
      BY <3>3
  <2>. QED
    BY <2>1
<1>6. PICK H \in [0..N -> F] : Follows(H, N, start, step)
  <2>. HIDE DEF F, start, step, N
  <2>. QED
    BY <1>1, <1>5, RecursionExists
<1>7. ASSUME NEW n \in 1..N
      PROVE  H[n - 1] \in F /\ H[n] = [H[n - 1] EXCEPT ![N - n] = body(H[n - 1], N - n)]
  <2>1. n - 1 \in 0..N
    BY <1>1
  <2>2. H[n - 1] \in F
    BY <1>6, <2>1
  <2>3. H[n] = step[n][H[n - 1]]
    BY <1>6 DEF Follows
  <2>. QED
    BY <2>2, <2>3
<1>8. H[0] = start
  BY <1>6 DEF Follows
<1>. HIDE DEF step, start
<1> DEFINE Right(m) == \A i \in N - m..N : H[m][i] = IF i = N THEN << >> ELSE body(H[m], i)
           S == {m \in Nat : m <= N => Right(m)}
<1>9. 0 \in S
  <2>1. \A i \in N - 0..N : i = N /\ i \in 0..N
    BY <1>1
  <2>2. H[0][N] = << >>
    BY <1>1, <1>8 DEF start
  <2>. QED
    BY <2>1, <2>2
<1>10. ASSUME NEW m \in S  PROVE  m + 1 \in S
  <2>1. SUFFICES ASSUME m + 1 <= N  PROVE  Right(m + 1)
    BY <1>10
  <2> DEFINE k == N - (m + 1)
             g == H[m]
             h == H[m + 1]
  <2>2. m \in Nat /\ Right(m) /\ m + 1 \in 1..N /\ (m + 1) - 1 = m
    BY <1>1, <1>10, <2>1
  <2>3. g \in F /\ h = [g EXCEPT ![k] = body(g, k)]
    BY <1>7, <2>2
  <2>4. k \in 0..N /\ k # N /\ N - m = k + 1
    BY <1>1, <2>2
  <2>. HIDE DEF g, h, k, N
  <2>5. \A j \in k + 1..N : h[j] = g[j]
    <3>1. \A j \in k + 1..N : j \in 0..N /\ j # k
      BY <1>1, <2>4
    <3>. QED
      BY <2>3, <3>1
  <2>6. h[k] = body(g, k)
    BY <2>3, <2>4
  <2>7. ASSUME NEW i \in k..N, i # N  PROVE  body(g, i) = body(h, i)
    <3>1. i \in 0..N /\ \A j \in i + 1..N : j \in k + 1..N
      BY <1>1, <2>4
    <3>. QED
      BY <1>4, <2>5, <2>7, <3>1
  <2>8. ASSUME NEW i \in k..N  PROVE  h[i] = IF i = N THEN << >> ELSE body(h, i)
    <3>1. CASE i = k
      BY <2>4, <2>6, <2>7, <3>1
    <3>2. CASE i # k
      <4>1. i \in N - m..N
        BY <1>1, <2>4, <3>2
      <4>2. g[i] = IF i = N THEN << >> ELSE body(g, i)
        BY <2>2, <4>1 DEF g
      <4>. QED
        BY <2>4, <2>5, <2>7, <4>1, <4>2
    <3>. QED
      BY <3>1, <3>2
  <2>. QED
    BY <2>8 DEF h, k
<1>11. S = Nat
  <2>1. S \in SUBSET Nat
    OBVIOUS
  <2>. HIDE DEF S
  <2>. QED
    BY <1>9, <1>10, <2>1, InductionOnNat
<1>12. Restores(H[N])
  <2>1. Right(N) /\ H[N] \in F /\ N - N = 0
    BY <1>1, <1>6, <1>11
  <2>2. \A i \in 0..N : H[N][i] = IF i = N THEN << >> ELSE body(H[N], i)
    BY <2>1
  <2>3. H[N] = [i \in 0..N |-> H[N][i]]
    BY <2>1
  <2>. QED
    BY <2>2, <2>3
<1>13. RestoredFrom(s) = CHOOSE g : Restores(g)
  BY DEF RestoredFrom, body
<1> DEFINE from == CHOOSE g : Restores(g)
<1>14. Restores(from)
  <2>. HIDE DEF Restores
  <2>. QED
    BY <1>12
<1>. HIDE DEF from
<1>15. DOMAIN from = 0..N /\ \A i \in 0..N : from[i] = IF i = N THEN << >> ELSE body(from, i)
  <2>1. from = [i \in 0..N |-> IF i = N THEN << >> ELSE body(from, i)]
    BY <1>14
  <2>. QED
    BY <2>1
<1> DEFINE Typed == {m \in Nat : m <= N => \A i \in N - m..N : from[i] \in Text}
<1>16. 0 \in Typed
  <2>1. \A i \in N - 0..N : i = N /\ i \in 0..N
    BY <1>1
  <2>. QED
    BY <1>1, <1>15, <2>1
<1>17. ASSUME NEW m \in Typed  PROVE  m + 1 \in Typed
  <2>1. SUFFICES ASSUME m + 1 <= N, NEW i \in N - (m + 1)..N  PROVE  from[i] \in Text
    BY <1>17
  <2>2. m \in Nat /\ \A j \in N - m..N : from[j] \in Text
    BY <1>1, <1>17, <2>1
  <2>3. CASE i \in N - m..N
    BY <2>2, <2>3
  <2>4. CASE i \notin N - m..N
    <3>1. i \in 0..N /\ i # N /\ i + 1 = N - m
      BY <1>1, <2>1, <2>2, <2>4
    <3>2. \A j \in i + 1..N : from[j] \in Text
      BY <2>2, <3>1
    <3>. QED
      BY <1>3, <1>15, <3>1, <3>2
  <2>. QED
    BY <2>3, <2>4
<1>18. Typed = Nat
  <2>1. Typed \in SUBSET Nat
    OBVIOUS
  <2>. HIDE DEF Typed
  <2>. QED
    BY <1>16, <1>17, <2>1, InductionOnNat
<1>19. from \in [0..N -> Text]
  <2>1. ASSUME NEW i \in 0..N  PROVE  from[i] \in Text
    <3>1. N \in Typed /\ N - N = 0
      BY <1>1, <1>18
    <3>. QED
      BY <3>1
  <2>2. from = [i \in 0..N |-> from[i]]
    BY <1>14 DEF Restores
  <2>. QED
    BY <2>1, <2>2
<1>20. from[N] = << >> /\ \A i \in 0..N - 1 : Restored(s, from, i)
  <2>1. N \in 0..N /\ \A i \in 0..N - 1 : i \in 0..N /\ i # N
    BY <1>1
  <2>. QED
    BY <1>15, <2>1 DEF Restored, body
<1>. QED
  BY <1>13, <1>19, <1>20 DEF from

LEMMA RestoredIsText ==
  ASSUME NEW s \in Text
  PROVE  RestoreInText(s) \in Text
<1>1. Len(s) \in Nat
  BY DEF Text
<1>. QED
  BY <1>1, RestoredFromIs DEF RestoreInText

-----------------------------------------------------------------------------
(* Placeholders, whole and begun.                                          *)

LEMMA LengthsAre ==
  /\ Len(Prefix) \in Nat \ {0} /\ Len(Suffix) \in Nat \ {0} /\ Width \in Nat \ {0}
  /\ Full = Len(Prefix) + Width + Len(Suffix) /\ Full \in Nat
BY PlaceholderAssumption DEF Full

LEMMA AllowedAre ==
  /\ \A k \in 1..Len(Prefix) : Allowed(k) = {Prefix[k]}
  /\ \A k \in 1..Width : Allowed(Len(Prefix) + k) = Hex
  /\ \A k \in 1..Len(Suffix) : Allowed(Len(Prefix) + Width + k) = {Suffix[k]}
<1>1. Len(Prefix) \in Nat /\ Len(Suffix) \in Nat /\ Width \in Nat
  BY LengthsAre
<1>2. ASSUME NEW k \in 1..Width  PROVE  Allowed(Len(Prefix) + k) = Hex
  BY <1>1 DEF Allowed
<1>3. ASSUME NEW k \in 1..Len(Suffix)  PROVE  Allowed(Len(Prefix) + Width + k) = {Suffix[k]}
  <2>1. (Len(Prefix) + Width + k) - Len(Prefix) - Width = k /\ ~(Len(Prefix) + Width + k <= Len(Prefix) + Width)
        /\ ~(Len(Prefix) + Width + k <= Len(Prefix))
    BY <1>1
  <2>. QED
    BY <2>1 DEF Allowed
<1>. QED
  BY <1>1, <1>2, <1>3 DEF Allowed

\* Only the Prefix has what it begins with.
LEMMA OpensInPrefix ==
  ASSUME NEW k \in 1..Full, Prefix[1] \in Allowed(k)
  PROVE  k <= Len(Prefix)
<1>1. /\ Len(Prefix) \in Nat \ {0} /\ Len(Suffix) \in Nat /\ Width \in Nat
      /\ Full = Len(Prefix) + Width + Len(Suffix)
  BY LengthsAre
<1>2. Prefix[1] \notin Hex
  <2>1. 1 \in 1..Len(Prefix)
    BY <1>1
  <2>. QED
    BY <2>1, PlaceholderAssumption
<1>3. ASSUME NEW j \in 1..Len(Suffix)  PROVE  Suffix[j] # Prefix[1]
  BY PlaceholderAssumption
<1>4. ASSUME ~(k <= Len(Prefix)), k <= Len(Prefix) + Width  PROVE  FALSE
  BY <1>2, <1>4 DEF Allowed
<1>5. ASSUME ~(k <= Len(Prefix) + Width)  PROVE  FALSE
  <2>1. k - Len(Prefix) - Width \in 1..Len(Suffix) /\ ~(k <= Len(Prefix))
    BY <1>1, <1>5
  <2>. QED
    BY <1>3, <1>5, <2>1 DEF Allowed
<1>. QED
  BY <1>4, <1>5

\* No placeholder begins inside what another has begun, once that has its whole Prefix.
LEMMA NoneInside ==
  ASSUME NEW s, NEW i \in Nat, NEW d \in 1..Full - 1, NEW n \in Nat \ {0},
         d + n <= Full, d + n >= Len(Prefix), Fits(s, i, 0, d + n), Fits(s, i + d, 0, n)
  PROVE  FALSE
<1>1. Len(Prefix) \in Nat \ {0} /\ Full \in Nat
  BY LengthsAre
<1>2. \A k \in 1..d + n : s[i + k] \in Allowed(k)
  BY DEF Fits
<1>3. \A k \in 1..n : s[i + (d + k)] \in Allowed(k)
  <2>1. \A k \in 1..n : (i + d) + k = i + (d + k) /\ 0 + k = k
    OBVIOUS
  <2>. QED
    BY <2>1 DEF Fits
<1>4. d + 1 <= Len(Prefix)
  <2>1. 1 \in 1..n /\ d + 1 \in 1..d + n /\ d + 1 \in 1..Full
    BY <1>1
  <2>2. s[i + (d + 1)] \in Allowed(1) /\ s[i + (d + 1)] \in Allowed(d + 1)
    BY <1>2, <1>3, <2>1
  <2>3. Allowed(1) = {Prefix[1]}
    BY <1>1, AllowedAre
  <2>. QED
    BY <2>1, <2>2, <2>3, OpensInPrefix
<1>5. PICK k \in 1..Len(Prefix) - d : Prefix[d + k] # Prefix[k]
  <2>1. d \in 1..Len(Prefix) - 1
    BY <1>1, <1>4
  <2>. QED
    BY <2>1, PlaceholderAssumption
<1>6. k \in 1..n /\ d + k \in 1..d + n /\ k \in 1..Len(Prefix) /\ d + k \in 1..Len(Prefix)
  BY <1>1, <1>5
<1>7. s[i + (d + k)] \in Allowed(k) /\ s[i + (d + k)] \in Allowed(d + k)
  BY <1>2, <1>3, <1>6
<1>8. s[i + (d + k)] = Prefix[k] /\ s[i + (d + k)] = Prefix[d + k]
  BY <1>6, <1>7, AllowedAre
<1>. QED
  BY <1>5, <1>8

\* The end of s after position i begins a placeholder.
Opens(s, i) == i \in 0..Len(s) - 1 /\ Len(s) - i < Full /\ Fits(s, i, 0, Len(s) - i)

LEMMA PlaceholderFits ==
  ASSUME NEW s \in Text, NEW i \in Nat
  PROVE  PlaceholderAt(s, i) <=> i + Full <= Len(s) /\ Fits(s, i, 0, Full)
<1>1. /\ Len(Prefix) \in Nat /\ Len(Suffix) \in Nat /\ Width \in Nat /\ Len(s) \in Nat
      /\ Full = Len(Prefix) + Width + Len(Suffix)
  BY LengthsAre DEF Text
<1>2. ASSUME PlaceholderAt(s, i)  PROVE  i + Full <= Len(s) /\ Fits(s, i, 0, Full)
  <2>1. /\ \A k \in 1..Len(Prefix) : s[i + k] = Prefix[k]
        /\ \A k \in i + Len(Prefix) + 1..i + Len(Prefix) + Width : s[k] \in Hex
        /\ \A k \in 1..Len(Suffix) : s[i + Len(Prefix) + Width + k] = Suffix[k]
        /\ i + Full <= Len(s)
    BY <1>2 DEF PlaceholderAt, At, AllHex
  <2>2. ASSUME NEW k \in 1..Full  PROVE  s[i + k] \in Allowed(k)
    <3>1. CASE k <= Len(Prefix)
      BY <1>1, <2>1, <3>1 DEF Allowed
    <3>2. CASE ~(k <= Len(Prefix)) /\ k <= Len(Prefix) + Width
      <4>1. i + k \in i + Len(Prefix) + 1..i + Len(Prefix) + Width
        BY <1>1, <3>2
      <4>. QED
        BY <2>1, <3>2, <4>1 DEF Allowed
    <3>3. CASE ~(k <= Len(Prefix) + Width)
      <4>1. PICK j : j = k - Len(Prefix) - Width
        OBVIOUS
      <4>2. j \in 1..Len(Suffix) /\ i + Len(Prefix) + Width + j = i + k /\ ~(k <= Len(Prefix))
        BY <1>1, <3>3, <4>1
      <4>3. s[i + k] = Suffix[j]
        BY <2>1, <4>2
      <4>. QED
        BY <3>3, <4>1, <4>2, <4>3 DEF Allowed
    <3>. QED
      BY <3>1, <3>2, <3>3
  <2>3. \A k \in 1..Full : 0 + k = k
    BY <1>1
  <2>. QED
    BY <2>1, <2>2, <2>3 DEF Fits
<1>3. ASSUME i + Full <= Len(s), Fits(s, i, 0, Full)  PROVE  PlaceholderAt(s, i)
  <2>1. \A k \in 1..Full : s[i + k] \in Allowed(k)
    <3>1. \A k \in 1..Full : 0 + k = k
      BY <1>1
    <3>. QED
      BY <1>3, <3>1 DEF Fits
  <2>2. ASSUME NEW k \in 1..Len(Prefix)  PROVE  s[i + k] = Prefix[k]
    <3>1. k \in 1..Full
      BY <1>1
    <3>. QED
      BY <2>1, <3>1, AllowedAre
  <2>3. ASSUME NEW k \in i + Len(Prefix) + 1..i + Len(Prefix) + Width  PROVE  s[k] \in Hex
    <3>1. PICK j : j = k - i - Len(Prefix)
      OBVIOUS
    <3>2. j \in 1..Width /\ Len(Prefix) + j \in 1..Full /\ i + (Len(Prefix) + j) = k
      BY <1>1, <3>1
    <3>. QED
      BY <2>1, <3>2, AllowedAre
  <2>4. ASSUME NEW k \in 1..Len(Suffix)  PROVE  s[i + Len(Prefix) + Width + k] = Suffix[k]
    <3>1. Len(Prefix) + Width + k \in 1..Full /\ i + (Len(Prefix) + Width + k) = i + Len(Prefix) + Width + k
      BY <1>1
    <3>2. s[i + (Len(Prefix) + Width + k)] \in Allowed(Len(Prefix) + Width + k)
      BY <2>1, <3>1
    <3>. QED
      BY <3>1, <3>2, AllowedAre
  <2>. QED
    BY <1>1, <1>3, <2>2, <2>3, <2>4 DEF PlaceholderAt, At, AllHex
<1>. QED
  BY <1>2, <1>3

\* A text and what it is cut into.
Halves(s, m) ==
  /\ SubSeq(s, 1, m) \in Text /\ Len(SubSeq(s, 1, m)) = m
  /\ SubSeq(s, m + 1, Len(s)) \in Text /\ Len(SubSeq(s, m + 1, Len(s))) = Len(s) - m
  /\ \A k \in 1..m : SubSeq(s, 1, m)[k] = s[k]
  /\ \A k \in 1..Len(s) - m : SubSeq(s, m + 1, Len(s))[k] = s[m + k]
  /\ SubSeq(s, 1, m) \o SubSeq(s, m + 1, Len(s)) = s

LEMMA HalvesAre ==
  ASSUME NEW s \in Text, NEW m \in 0..Len(s)
  PROVE  Halves(s, m)
<1>1. s \in Seq(Char) /\ Len(s) \in Nat /\ m \in Nat
  BY DEF Text
<1>2. PICK l : l = Len(s) - m
  OBVIOUS
<1>3. l \in Nat /\ m + l = Len(s) /\ m + 1 \in Int /\ m \in Int /\ Len(s) \in Int /\ Len(s) - (m + 1) + 1 = l
  BY <1>1, <1>2
<1>4. (\A i \in 1..m : s[i] \in Char) /\ \A i \in m + 1..Len(s) : s[i] \in Char
  BY <1>1
<1>5. /\ SubSeq(s, 1, m) \in Seq(Char) /\ Len(SubSeq(s, 1, m)) = m
      /\ \A k \in 1..m : SubSeq(s, 1, m)[k] = s[k]
  BY <1>1
<1>6. /\ SubSeq(s, m + 1, Len(s)) \in Seq(Char) /\ Len(SubSeq(s, m + 1, Len(s))) = l
      /\ \A k \in 1..l : SubSeq(s, m + 1, Len(s))[k] = s[m + k]
  <2>1. /\ SubSeq(s, m + 1, Len(s)) \in Seq(Char)
        /\ Len(SubSeq(s, m + 1, Len(s))) = IF m + 1 <= Len(s) THEN Len(s) - (m + 1) + 1 ELSE 0
        /\ \A i \in 1..Len(s) - (m + 1) + 1 : SubSeq(s, m + 1, Len(s))[i] = s[m + 1 + i - 1]
    <3>1. PICK a, n : a = m + 1 /\ n = Len(s)
      OBVIOUS
    <3>2. a \in Int /\ n \in Int /\ \A i \in a..n : s[i] \in Char
      BY <1>1, <1>3, <1>4, <3>1
    <3>3. /\ SubSeq(s, a, n) \in Seq(Char)
          /\ Len(SubSeq(s, a, n)) = IF a <= n THEN n - a + 1 ELSE 0
          /\ \A i \in 1..n - a + 1 : SubSeq(s, a, n)[i] = s[a + i - 1]
      BY <3>2, SubSeqProperties
    <3>. QED
      BY <3>1, <3>3
  <2>2. ASSUME NEW i \in 1..l  PROVE  SubSeq(s, m + 1, Len(s))[i] = s[m + i]
    <3>1. m + 1 + i - 1 = m + i /\ i \in 1..Len(s) - (m + 1) + 1
      BY <1>1, <1>3
    <3>. QED
      BY <2>1, <3>1
  <2>3. (IF m + 1 <= Len(s) THEN Len(s) - (m + 1) + 1 ELSE 0) = l
    BY <1>1, <1>3
  <2>. QED
    BY <2>1, <2>2, <2>3
<1>7. SubSeq(s, 1, m) \o SubSeq(s, m + 1, Len(s)) = SubSeq(s, 1, Len(s))
  <2>1. 1 \in 1..Len(s) + 1 /\ m \in 1 - 1..Len(s) /\ Len(s) \in m..Len(s)
    BY <1>1
  <2>. QED
    BY <1>1, <2>1, ConcatAdjacentSubSeq
<1>. QED
  BY <1>1, <1>2, <1>5, <1>6, <1>7, SubSeqFull DEF Halves, Text

\* A tail that begins a placeholder is a beginning of Prefix, or has the whole of it and is
\* on its way to the rest.
LEMMA OpensIs ==
  ASSUME NEW s \in Text, NEW i \in 0..Len(s) - 1
  PROVE  /\ Len(s) - i < Len(Prefix) => (Opens(s, i) <=> i \in OpeningTails(s))
         /\ Len(s) - i >= Len(Prefix) => (Opens(s, i) <=> i \in Openings(s) /\ Unfinished(s, i))
<1>1. /\ Len(Prefix) \in Nat \ {0} /\ Len(Suffix) \in Nat \ {0} /\ Width \in Nat \ {0} /\ Len(s) \in Nat
      /\ Full = Len(Prefix) + Width + Len(Suffix)
  BY LengthsAre DEF Text
<1> DEFINE L == Len(s) - i
<1>2. L \in Nat \ {0} /\ L <= Len(s) /\ i + L = Len(s) /\ i \in Nat
  BY <1>1
<1>. HIDE DEF L
<1>3. Fits(s, i, 0, L) <=> \A k \in 1..L : s[i + k] \in Allowed(k)
  <2>1. \A k \in 1..L : 0 + k = k
    BY <1>2
  <2>. QED
    BY <2>1 DEF Fits
<1>4. Opens(s, i) <=> L < Full /\ \A k \in 1..L : s[i + k] \in Allowed(k)
  BY <1>3 DEF Opens, L
<1>5. ASSUME L < Len(Prefix)  PROVE  Opens(s, i) <=> i \in OpeningTails(s)
  <2>1. \A k \in 1..L : k \in 1..Len(Prefix) /\ Allowed(k) = {Prefix[k]}
    BY <1>1, <1>2, <1>5, AllowedAre
  <2> DEFINE u == SubSeq(s, i + 1, Len(s))
  <2>2. Len(u) = L /\ \A k \in 1..L : u[k] = s[i + k]
    <3>1. i \in 0..Len(s)
      BY <1>1
    <3>. QED
      BY <3>1, HalvesAre DEF Halves, L
  <2>. HIDE DEF u
  <2>3. At(Prefix, 0, u) <=> \A k \in 1..L : Prefix[k] = s[i + k]
    <3>1. 0 + L <= Len(Prefix) /\ \A k \in 1..L : 0 + k = k
      BY <1>1, <1>2, <1>5
    <3>. QED
      BY <2>2, <3>1 DEF At
  <2>4. i \in OpeningTails(s) <=> At(Prefix, 0, u)
    BY <1>5 DEF OpeningTails, u, L
  <2>. QED
    BY <1>1, <1>2, <1>4, <1>5, <2>1, <2>3, <2>4
<1>6. ASSUME L >= Len(Prefix)  PROVE  Opens(s, i) <=> i \in Openings(s) /\ Unfinished(s, i)
  <2>0. i \in Openings(s) <=> \A k \in 1..Len(Prefix) : s[i + k] = Prefix[k]
    BY <1>1, <1>2, <1>6 DEF Openings, At
  <2>1. (\A k \in 1..L : s[i + k] \in Allowed(k)) =>
           i \in Openings(s)
    <3>1. \A k \in 1..Len(Prefix) : k \in 1..L
      BY <1>1, <1>2, <1>6
    <3>. QED
      BY <2>0, <3>1, AllowedAre
  <2>2. \A k \in i + 1..Len(s) : k - i \in 1..L /\ i + (k - i) = k
    BY <1>1, <1>2
  <2> DEFINE body == i + Len(Prefix)
             rest == body + Width
  <2>3. CASE L < Len(Prefix) + Width
    <3>1. ASSUME \A k \in 1..L : s[i + k] \in Allowed(k)  PROVE  Len(s) < rest /\ AllHex(s, body + 1, Len(s))
      <4>1. ASSUME NEW k \in body + 1..Len(s)  PROVE  s[k] \in Hex
        <5>1. PICK j : j = k - body
          OBVIOUS
        <5>2. Len(Prefix) + j \in 1..L /\ i + (Len(Prefix) + j) = k /\ j \in 1..Width
          BY <1>1, <1>2, <2>3, <5>1
        <5>. QED
          BY <3>1, <5>2, AllowedAre
      <4>. QED
        BY <1>1, <1>2, <2>3, <4>1 DEF AllHex
    <3>2. ASSUME i \in Openings(s), Unfinished(s, i), NEW k \in 1..L  PROVE  s[i + k] \in Allowed(k)
      <4>1. Len(s) < rest /\ AllHex(s, body + 1, Len(s))
        BY <1>1, <1>2, <2>3, <3>2 DEF Unfinished
      <4>2. CASE k <= Len(Prefix)
        BY <2>0, <3>2, <4>2, AllowedAre
      <4>3. CASE ~(k <= Len(Prefix))
        <5>1. i + k \in body + 1..Len(s) /\ k <= Len(Prefix) + Width
          BY <1>1, <1>2, <2>3, <4>3
        <5>. QED
          BY <4>1, <4>3, <5>1 DEF AllHex, Allowed
      <4>. QED
        BY <4>2, <4>3
    <3>3. L < Full
      BY <1>1, <1>2, <2>3
    <3>. QED
      BY <1>4, <2>1, <3>1, <3>2, <3>3 DEF Unfinished
  <2>4. CASE ~(L < Len(Prefix) + Width)
    <3> DEFINE v == SubSeq(s, rest + 1, Len(s))
    <3>0. rest \in Nat /\ rest <= Len(s) /\ Len(s) = rest + (L - Len(Prefix) - Width)
      BY <1>1, <1>2, <2>4
    <3>1. Len(v) = L - Len(Prefix) - Width /\ \A k \in 1..L - Len(Prefix) - Width : v[k] = s[rest + k]
      <4>1. rest \in 0..Len(s) /\ Len(s) - rest = L - Len(Prefix) - Width
        BY <1>1, <1>2, <3>0
      <4>. HIDE DEF rest
      <4>. QED
        BY <4>1, HalvesAre DEF Halves
    <3>. HIDE DEF v
    <3>2. Unfinished(s, i) <=> L < Full /\ AllHex(s, body + 1, rest) /\ At(Suffix, 0, v)
      BY <1>1, <1>2, <2>4 DEF Unfinished, v
    <3>3. ASSUME L < Full, \A k \in 1..L : s[i + k] \in Allowed(k)
          PROVE  AllHex(s, body + 1, rest) /\ At(Suffix, 0, v)
      <4>1. ASSUME NEW k \in body + 1..rest  PROVE  s[k] \in Hex
        <5>1. PICK j : j = k - body
          OBVIOUS
        <5>2. Len(Prefix) + j \in 1..L /\ i + (Len(Prefix) + j) = k /\ j \in 1..Width
          BY <1>1, <1>2, <2>4, <5>1
        <5>. QED
          BY <3>3, <5>2, AllowedAre
      <4>2. ASSUME NEW k \in 1..Len(v)  PROVE  Suffix[k] = v[k] /\ k \in 1..Len(Suffix)
        <5>1. /\ Len(Prefix) + Width + k \in 1..L /\ i + (Len(Prefix) + Width + k) = rest + k
              /\ k \in 1..Len(Suffix) /\ k \in 1..L - Len(Prefix) - Width
          BY <1>1, <1>2, <2>4, <3>1, <3>3, SMTT(30)
        <5>2. s[i + (Len(Prefix) + Width + k)] \in Allowed(Len(Prefix) + Width + k)
          BY <3>3, <5>1
        <5>. QED
          BY <3>1, <5>1, <5>2, AllowedAre
      <4>3. 0 + Len(v) <= Len(Suffix) /\ \A k \in 1..Len(v) : 0 + k = k
        BY <1>1, <1>2, <2>4, <3>1, <3>3
      <4>. QED
        BY <4>1, <4>2, <4>3 DEF AllHex, At
    <3>4. ASSUME i \in Openings(s), AllHex(s, body + 1, rest), At(Suffix, 0, v), NEW k \in 1..L
          PROVE  s[i + k] \in Allowed(k)
      <4>1. CASE k <= Len(Prefix)
        BY <2>0, <3>4, <4>1, AllowedAre
      <4>2. CASE ~(k <= Len(Prefix)) /\ k <= Len(Prefix) + Width
        <5>1. i + k \in body + 1..rest
          BY <1>1, <1>2, <4>2
        <5>. QED
          BY <3>4, <4>2, <5>1 DEF AllHex, Allowed
      <4>3. CASE ~(k <= Len(Prefix) + Width)
        <5>1. PICK j : j = k - Len(Prefix) - Width
          OBVIOUS
        <5>2. j \in 1..Len(v) /\ rest + j = i + k /\ ~(k <= Len(Prefix)) /\ 0 + j = j
              /\ j \in 1..L - Len(Prefix) - Width
          BY <1>1, <1>2, <2>4, <3>1, <4>3, <5>1
        <5>3. Suffix[j] = v[j] /\ v[j] = s[rest + j]
          BY <3>1, <3>4, <5>2 DEF At
        <5>. QED
          BY <4>3, <5>1, <5>2, <5>3 DEF Allowed
      <4>. QED
        BY <4>1, <4>2, <4>3
    <3>. QED
      BY <1>4, <2>1, <3>2, <3>3, <3>4
  <2>. QED
    BY <2>3, <2>4
<1>. QED
  BY <1>5, <1>6 DEF L

\* PartialAtTail (placeholder.go) finds exactly where the longest tail starts that may still
\* become a placeholder: an earlier one would never be put together again, a later one
\* would keep the reader waiting for nothing.
THEOREM HoldsTheLongest ==
  ASSUME NEW s \in Text
  PROVE  /\ PartialAtTail(s) \in 0..Len(s)
         /\ PartialAtTail(s) < Len(s) => Opens(s, PartialAtTail(s))
         /\ \A i \in 0..Len(s) - 1 : Opens(s, i) => PartialAtTail(s) <= i
<1>1. /\ Len(Prefix) \in Nat \ {0} /\ Len(Suffix) \in Nat \ {0} /\ Width \in Nat \ {0} /\ Len(s) \in Nat
      /\ Full = Len(Prefix) + Width + Len(Suffix)
  BY LengthsAre DEF Text
<1>2. OpeningTails(s) \in SUBSET (0..Len(s) - 1) /\ \A i \in OpeningTails(s) : Len(s) - i < Len(Prefix)
  BY DEF OpeningTails
<1>3. ASSUME NEW i \in 0..Len(s) - 1, Opens(s, i), Len(s) - i >= Len(Prefix),
             NEW j \in 0..Len(s) - 1, i < j, NEW n \in Nat \ {0}, j + n <= Len(s), j + n >= i + Len(Prefix),
             Fits(s, j, 0, n)
      PROVE  FALSE
  <2>1. PICK d : d = j - i
    OBVIOUS
  <2>2. d \in 1..Full - 1 /\ d + n <= Full /\ d + n >= Len(Prefix) /\ i + d = j /\ i \in Nat
    BY <1>1, <1>3, <2>1 DEF Opens
  <2>3. Fits(s, i, 0, d + n)
    <3>1. 1..d + n \in SUBSET (1..Len(s) - i)
      BY <1>1, <1>3, <2>1, <2>2
    <3>. QED
      BY <1>3, <3>1 DEF Opens, Fits
  <2>. QED
    BY <1>3, <2>2, <2>3, NoneInside
<1>4. CASE OpeningTails(s) # {}
  <2> DEFINE c == PartialAtTail(s)
  <2>1. c \in OpeningTails(s) /\ \A y \in OpeningTails(s) : c <= y
    <3>1. OpeningTails(s) \in SUBSET Nat
      BY <1>1, <1>2
    <3>. QED
      BY <1>4, <3>1, LeastExists DEF PartialAtTail
  <2>. HIDE DEF c
  <2>2. c \in 0..Len(s) - 1 /\ Opens(s, c)
    BY <1>2, <2>1, OpensIs
  <2>3. ASSUME NEW i \in 0..Len(s) - 1, Opens(s, i)  PROVE  c <= i
    <3>1. CASE Len(s) - i < Len(Prefix)
      BY <2>1, <2>3, <3>1, OpensIs
    <3>2. CASE ~(Len(s) - i < Len(Prefix))
      <4>1. SUFFICES ASSUME i < c  PROVE  FALSE
        BY <1>1, <2>2
      <4>2. PICK n : n = Len(s) - c
        OBVIOUS
      <4>3. n \in Nat \ {0} /\ c + n <= Len(s) /\ c + n >= i + Len(Prefix) /\ Fits(s, c, 0, n)
        BY <1>1, <2>2, <3>2, <4>2 DEF Opens
      <4>. QED
        BY <1>1, <1>3, <2>2, <2>3, <3>2, <4>1, <4>3
    <3>. QED
      BY <3>1, <3>2
  <2>. QED
    BY <1>1, <2>2, <2>3 DEF c
<1>5. CASE OpeningTails(s) = {}
  <2>1. ASSUME NEW i \in 0..Len(s) - 1, Opens(s, i)
        PROVE  i \in Openings(s) /\ Unfinished(s, i) /\ Len(s) - i >= Len(Prefix)
    BY <1>1, <1>5, <2>1, OpensIs
  <2>2. ASSUME NEW i \in 0..Len(s) - 1, Opens(s, i)  PROVE  Openings(s) # {} /\ Greatest(Openings(s)) = i
    <3>1. i \in Openings(s) /\ Len(s) - i >= Len(Prefix)
      BY <2>1, <2>2
    <3> DEFINE g == Greatest(Openings(s))
    <3>2. g \in Openings(s) /\ \A y \in Openings(s) : y <= g
      <4>1. Openings(s) \in SUBSET (0..Len(s)) /\ Openings(s) # {}
        BY <3>1 DEF Openings
      <4>. QED
        BY <1>1, <4>1, GreatestExists
    <3>. HIDE DEF g
    <3>3. g + Len(Prefix) <= Len(s) /\ g \in 0..Len(s) /\ Fits(s, g, 0, Len(Prefix))
      <4>1. /\ g + Len(Prefix) <= Len(s) /\ g \in 0..Len(s)
            /\ \A k \in 1..Len(Prefix) : s[g + k] = Prefix[k]
        BY <3>2 DEF Openings, At
      <4>2. \A k \in 1..Len(Prefix) : 0 + k = k
        BY <1>1
      <4>. QED
        BY <4>1, <4>2, AllowedAre DEF Fits
    <3>4. ~(i < g)
      <4>1. SUFFICES ASSUME i < g  PROVE  FALSE
        OBVIOUS
      <4>2. PICK n : n = Len(Prefix)
        OBVIOUS
      <4>3. g \in 0..Len(s) - 1 /\ n \in Nat \ {0} /\ g + n <= Len(s) /\ g + n >= i + Len(Prefix)
            /\ Fits(s, g, 0, n)
        BY <1>1, <3>3, <4>1, <4>2
      <4>. QED
        BY <1>3, <2>2, <3>1, <4>1, <4>3
    <3>5. i <= g /\ g = i
      BY <1>1, <3>1, <3>2, <3>3, <3>4
    <3>. QED
      BY <3>1, <3>5 DEF g
  <2>3. CASE Openings(s) # {} /\ Unfinished(s, Greatest(Openings(s)))
    <3> DEFINE c == PartialAtTail(s)
    <3>1. c = Greatest(Openings(s))
      BY <1>5, <2>3 DEF PartialAtTail
    <3>2. c \in Openings(s)
      <4>1. Openings(s) \in SUBSET (0..Len(s))
        BY DEF Openings
      <4>. QED
        BY <1>1, <2>3, <3>1, <4>1, GreatestExists
    <3>. HIDE DEF c
    <3>3. c \in 0..Len(s) - 1 /\ Len(s) - c >= Len(Prefix)
      BY <1>1, <3>2 DEF Openings, At
    <3>4. Opens(s, c)
      BY <2>3, <3>1, <3>2, <3>3, OpensIs
    <3>. QED
      BY <1>1, <2>2, <3>1, <3>3, <3>4 DEF c
  <2>4. CASE ~(Openings(s) # {} /\ Unfinished(s, Greatest(Openings(s))))
    <3>1. PartialAtTail(s) = Len(s)
      BY <1>5, <2>4 DEF PartialAtTail, Nowhere
    <3>2. \A i \in 0..Len(s) - 1 : ~Opens(s, i)
      BY <2>1, <2>2, <2>4
    <3>. QED
      BY <1>1, <3>1, <3>2
  <2>. QED
    BY <2>3, <2>4
<1>. QED
  BY <1>4, <1>5

\* The piece of n characters after position i.
Piece(x, i, n) ==
  /\ SubSeq(x, i + 1, i + n) \in Seq(Char) /\ Len(SubSeq(x, i + 1, i + n)) = n
  /\ \A k \in 1..n : SubSeq(x, i + 1, i + n)[k] = x[i + k]

LEMMA PieceIs ==
  ASSUME NEW x \in Text, NEW i \in Nat, NEW n \in Nat, i + n <= Len(x)
  PROVE  Piece(x, i, n)
<1>1. PICK b, c : b = i + 1 /\ c = i + n
  OBVIOUS
<1>2. b \in Int /\ c \in Int /\ (\A k \in b..c : x[k] \in Char) /\ c - b + 1 = n
  BY <1>1 DEF Text
<1>3. /\ SubSeq(x, b, c) \in Seq(Char) /\ Len(SubSeq(x, b, c)) = IF b <= c THEN c - b + 1 ELSE 0
      /\ \A k \in 1..c - b + 1 : SubSeq(x, b, c)[k] = x[b + k - 1]
  BY <1>2, SubSeqProperties
<1>4. (IF b <= c THEN c - b + 1 ELSE 0) = n
  BY <1>1, <1>2
<1>5. \A k \in 1..n : b + k - 1 = i + k
  BY <1>1
<1>. QED
  BY <1>1, <1>2, <1>3, <1>4, <1>5 DEF Piece

\* Are the n characters of s after i those of u after j, and the pieces they make?
SameChars(s, i, u, j, n) ==
  i + n <= Len(s) /\ j + n <= Len(u) /\ \A k \in 1..n : s[i + k] = u[j + k]

PiecesAlike(s, i, u, j, n) == SubSeq(s, i + 1, i + n) = SubSeq(u, j + 1, j + n)

\* The same characters make the same piece, and the same placeholder.
LEMMA SamePiece ==
  ASSUME NEW s \in Text, NEW u \in Text, NEW i \in Nat, NEW j \in Nat, NEW n \in Nat,
         SameChars(s, i, u, j, n)
  PROVE  PiecesAlike(s, i, u, j, n)
<1>0. i + n <= Len(s) /\ j + n <= Len(u) /\ \A k \in 1..n : s[i + k] = u[j + k]
  BY DEF SameChars
<1>1. Piece(s, i, n) /\ Piece(u, j, n)
  BY <1>0, PieceIs
<1> DEFINE p == SubSeq(s, i + 1, i + n)
           q == SubSeq(u, j + 1, j + n)
<1>2. /\ p \in Seq(Char) /\ Len(p) = n /\ \A k \in 1..n : p[k] = s[i + k]
      /\ q \in Seq(Char) /\ Len(q) = n /\ \A k \in 1..n : q[k] = u[j + k]
  BY <1>1 DEF Piece
<1>. HIDE DEF p, q
<1>3. p = q
  BY <1>0, <1>2, SeqEqual
<1>. QED
  BY <1>3 DEF p, q, PiecesAlike

SamePlaceholder(s, i, u, j) ==
  /\ PlaceholderAt(s, i) <=> PlaceholderAt(u, j)
  /\ Resolved(s, i) = Resolved(u, j)

LEMMA SamePlace ==
  ASSUME NEW s \in Text, NEW u \in Text, NEW i \in Nat, NEW j \in Nat,
         i + Full <= Len(s), j + Full <= Len(u), \A k \in 1..Full : s[i + k] = u[j + k]
  PROVE  SamePlaceholder(s, i, u, j)
<1>1. /\ Len(Prefix) \in Nat /\ Len(Suffix) \in Nat /\ Width \in Nat /\ Len(s) \in Nat /\ Len(u) \in Nat
      /\ Full = Len(Prefix) + Width + Len(Suffix) /\ Full \in Nat
  BY LengthsAre DEF Text
<1>2. Fits(s, i, 0, Full) <=> Fits(u, j, 0, Full)
  BY DEF Fits
<1>3. PlaceholderAt(s, i) <=> PlaceholderAt(u, j)
  BY <1>2, PlaceholderFits
<1>4. SubSeq(s, i + 1, i + Full) = SubSeq(u, j + 1, j + Full)
  <2>1. PICK n : n = Full
    OBVIOUS
  <2>2. n \in Nat /\ SameChars(s, i, u, j, n)
    BY <1>1, <2>1 DEF SameChars
  <2>3. PiecesAlike(s, i, u, j, n)
    BY <2>2, SamePiece
  <2>. QED
    BY <2>1, <2>3 DEF PiecesAlike
<1>5. TokenAt(s, i) = TokenAt(u, j)
  <2>1. PICK a, b, n : a = i + Len(Prefix) /\ b = j + Len(Prefix) /\ n = Width
    OBVIOUS
  <2>2. a \in Nat /\ b \in Nat /\ n \in Nat /\ a + n <= Len(s) /\ b + n <= Len(u)
    BY <1>1, <2>1
  <2>3. ASSUME NEW k \in 1..n  PROVE  s[a + k] = u[b + k]
    <3>1. Len(Prefix) + k \in 1..Full /\ i + (Len(Prefix) + k) = a + k /\ j + (Len(Prefix) + k) = b + k
      BY <1>1, <2>1
    <3>2. s[i + (Len(Prefix) + k)] = u[j + (Len(Prefix) + k)]
      BY <3>1
    <3>. QED
      BY <3>1, <3>2
  <2>4. PiecesAlike(s, a, u, b, n)
    <3>1. SameChars(s, a, u, b, n)
      BY <2>2, <2>3 DEF SameChars
    <3>. QED
      BY <2>2, <3>1, SamePiece
  <2>. QED
    BY <2>1, <2>4 DEF TokenAt, PiecesAlike
<1>. QED
  BY <1>3, <1>4, <1>5 DEF Resolved, SamePlaceholder

LEMMA PlaceInFront ==
  ASSUME NEW x \in Text, NEW y \in Text, NEW i \in Nat, i + Full <= Len(x)
  PROVE  SamePlaceholder(x \o y, i, x, i)
<1>1. /\ x \o y \in Text /\ Len(x) \in Nat /\ Len(y) \in Nat /\ Len(x \o y) = Len(x) + Len(y)
      /\ \A k \in 1..Len(x) : (x \o y)[k] = x[k]
  BY ConcatIs DEF Text
<1>2. Full \in Nat /\ i + Full <= Len(x \o y)
  BY <1>1, LengthsAre
<1>3. \A k \in 1..Full : i + k \in 1..Len(x)
  BY <1>1, <1>2
<1>. QED
  BY <1>1, <1>2, <1>3, SamePlace

LEMMA PlaceBehind ==
  ASSUME NEW x \in Text, NEW y \in Text, NEW j \in Nat
  PROVE  /\ PlaceholderAt(x \o y, Len(x) + j) <=> PlaceholderAt(y, j)
         /\ PlaceholderAt(y, j) => Resolved(x \o y, Len(x) + j) = Resolved(y, j)
<1>1. /\ x \o y \in Text /\ Len(x) \in Nat /\ Len(y) \in Nat /\ Len(x \o y) = Len(x) + Len(y)
      /\ \A k \in 1..Len(y) : (x \o y)[Len(x) + k] = y[k]
  BY ConcatIs DEF Text
<1>2. Full \in Nat /\ Len(x) + j \in Nat
  BY <1>1, LengthsAre
<1>3. ASSUME PlaceholderAt(x \o y, Len(x) + j) \/ PlaceholderAt(y, j)
      PROVE  SamePlaceholder(x \o y, Len(x) + j, y, j)
  <2>1. j + Full <= Len(y) /\ (Len(x) + j) + Full <= Len(x \o y)
    BY <1>1, <1>2, <1>3 DEF PlaceholderAt
  <2>2. \A k \in 1..Full : j + k \in 1..Len(y) /\ (Len(x) + j) + k = Len(x) + (j + k)
    BY <1>1, <1>2, <2>1
  <2>3. \A k \in 1..Full : (x \o y)[(Len(x) + j) + k] = y[j + k]
    BY <1>1, <2>2
  <2>. QED
    BY <1>1, <1>2, <2>1, <2>3, SamePlace
<1>. QED
  BY <1>3 DEF SamePlaceholder

-----------------------------------------------------------------------------
(* Restoring a text in two parts.                                          *)

\* No placeholder of both is partly in x and partly in y.
Apart(x, y) == \A i \in 0..Len(x) - 1 : PlaceholderAt(x \o y, i) => i + Full <= Len(x)

LEMMA RestoredBehind ==
  ASSUME NEW x \in Text, NEW y \in Text
  PROVE  RestoredFrom(x \o y)[Len(x)] = RestoreInText(y)
<1>1. PICK s, f, g, N, M : s = x \o y /\ f = RestoredFrom(s) /\ g = RestoredFrom(y) /\ N = Len(y) /\ M = Len(x)
  OBVIOUS
<1>2. s \in Text /\ M \in Nat /\ N \in Nat /\ Len(s) = M + N /\ \A k \in 1..N : s[M + k] = y[k]
  BY <1>1, ConcatIs DEF Text
<1>3. f[M + N] = << >> /\ \A i \in 0..(M + N) - 1 : Restored(s, f, i)
  BY <1>1, <1>2, RestoredFromIs
<1>4. g[N] = << >> /\ \A i \in 0..N - 1 : Restored(y, g, i)
  BY <1>1, RestoredFromIs
<1> DEFINE S == {j \in 0..N : f[M + j] = g[j]}
<1>5. N \in S
  BY <1>2, <1>3, <1>4
<1>6. ASSUME NEW j \in 0..N - 1, j + 1..N \in SUBSET S  PROVE  j \in S
  <2>1. j \in Nat /\ M + j \in 0..(M + N) - 1 /\ j + 1 \in j + 1..N /\ j \in 0..N /\ (M + j) + 1 = M + (j + 1)
    BY <1>2
  <2>2. Restored(s, f, M + j) /\ Restored(y, g, j)
    BY <1>3, <1>4, <2>1
  <2>3. /\ PlaceholderAt(s, M + j) <=> PlaceholderAt(y, j)
        /\ PlaceholderAt(y, j) => Resolved(s, M + j) = Resolved(y, j)
    BY <1>1, <2>1, PlaceBehind
  <2>4. CASE PlaceholderAt(y, j)
    <3>1. j + Full \in j + 1..N /\ (M + j) + Full = M + (j + Full)
      <4>1. j \in 0..Len(y) /\ Full \in Nat
        BY <1>1, <2>1, LengthsAre
      <4>2. j + Full \in j + 1..Len(y)
        BY <2>4, <4>1, ResolvedIsText
      <4>. QED
        BY <1>1, <1>2, <4>1, <4>2
    <3>2. f[M + (j + Full)] = g[j + Full]
      BY <1>6, <3>1
    <3>. QED
      BY <2>1, <2>2, <2>3, <2>4, <3>1, <3>2 DEF Restored
  <2>5. CASE ~PlaceholderAt(y, j)
    <3>1. f[M + (j + 1)] = g[j + 1] /\ s[M + (j + 1)] = y[j + 1]
      BY <1>2, <1>6, <2>1
    <3>. QED
      BY <2>1, <2>2, <2>3, <2>5, <3>1 DEF Restored
  <2>. QED
    BY <2>4, <2>5
<1>7. S = 0..N
  <2>1. S \in SUBSET (0..N)
    OBVIOUS
  <2>. HIDE DEF S
  <2>. QED
    BY <1>2, <1>5, <1>6, <2>1, InductionFromTheEnd
<1>8. f[M + 0] = g[0] /\ M + 0 = M
  <2>1. 0 \in 0..N /\ M + 0 = M
    BY <1>2
  <2>2. 0 \in S
    BY <1>7, <2>1
  <2>. QED
    BY <2>1, <2>2
<1>. QED
  BY <1>1, <1>8 DEF RestoreInText

\* What is restored of two texts one after the other (restoreInText) is what is restored of
\* each, if no placeholder is cut.
THEOREM RestoredInParts ==
  ASSUME NEW x \in Text, NEW y \in Text, Apart(x, y)
  PROVE  RestoreInText(x \o y) = RestoreInText(x) \o RestoreInText(y)
<1>1. PICK s, f, g, M, r : s = x \o y /\ f = RestoredFrom(s) /\ g = RestoredFrom(x) /\ M = Len(x) /\ r = RestoreInText(y)
  OBVIOUS
<1>2. /\ s \in Text /\ M \in Nat /\ Len(s) \in Nat /\ M <= Len(s) /\ r \in Text
      /\ \A k \in 1..M : s[k] = x[k]
  <2>1. /\ s \in Text /\ M \in Nat /\ Len(y) \in Nat /\ Len(s) = M + Len(y)
        /\ \A k \in 1..M : s[k] = x[k]
    BY <1>1, ConcatIs DEF Text
  <2>2. r \in Text
    BY <1>1, RestoredIsText
  <2>. QED
    BY <2>1, <2>2
<1>3. f[M] = r /\ \A i \in 0..M - 1 : Restored(s, f, i)
  <2>1. f[M] = r /\ \A i \in 0..Len(s) - 1 : Restored(s, f, i)
    BY <1>1, <1>2, RestoredBehind, RestoredFromIs
  <2>. QED
    BY <1>2, <2>1
<1>4. g[M] = << >> /\ g \in [0..M -> Text] /\ \A i \in 0..M - 1 : Restored(x, g, i)
  BY <1>1, RestoredFromIs
<1> DEFINE S == {i \in 0..M : f[i] = g[i] \o r}
<1>5. M \in S
  <2>1. << >> \o r = r
    BY <1>2 DEF Text
  <2>. QED
    BY <1>2, <1>3, <1>4, <2>1
<1>6. ASSUME NEW i \in 0..M - 1, i + 1..M \in SUBSET S  PROVE  i \in S
  <2>1. i \in Nat /\ i + 1 \in i + 1..M /\ i \in 0..M /\ i + 1 \in 1..M
    BY <1>2
  <2>2. Restored(s, f, i) /\ Restored(x, g, i)
    BY <1>3, <1>4
  <2>3. CASE PlaceholderAt(s, i)
    <3>1. i + Full <= M /\ Full \in Nat \ {0}
      BY <1>1, <2>3, FullIsNat DEF Apart
    <3>2. SamePlaceholder(s, i, x, i)
      BY <1>1, <2>1, <3>1, PlaceInFront
    <3>3. i + Full \in i + 1..M /\ i \in 0..Len(x) /\ PlaceholderAt(x, i)
      BY <1>1, <1>2, <2>1, <2>3, <3>1, <3>2 DEF SamePlaceholder
    <3>4. f[i + Full] = g[i + Full] \o r /\ g[i + Full] \in Text /\ Resolved(x, i) \in Text
      <4>1. i + Full \in 0..M
        BY <2>1, <3>3
      <4>. QED
        BY <1>4, <1>6, <3>3, <4>1, ResolvedIsText
    <3>5. Regroups(Resolved(x, i), g[i + Full], r)
      BY <1>2, <3>4, ConcatRegroups DEF Text
    <3>6. f[i] = Resolved(x, i) \o (g[i + Full] \o r) /\ g[i] = Resolved(x, i) \o g[i + Full]
      BY <2>2, <2>3, <3>2, <3>3, <3>4 DEF Restored, SamePlaceholder
    <3>. QED
      BY <2>1, <3>5, <3>6 DEF Regroups
  <2>4. CASE ~PlaceholderAt(s, i)
    <3>1. ~PlaceholderAt(x, i)
      <4>1. SUFFICES ASSUME PlaceholderAt(x, i)  PROVE  FALSE
        OBVIOUS
      <4>2. i + Full <= Len(x)
        BY <4>1 DEF PlaceholderAt
      <4>. QED
        BY <1>1, <2>1, <2>4, <4>1, <4>2, PlaceInFront DEF SamePlaceholder
    <3>2. s[i + 1] = x[i + 1] /\ f[i + 1] = g[i + 1] \o r /\ g[i + 1] \in Text /\ <<x[i + 1]>> \in Text
      <4>1. i + 1 \in 0..M /\ i + 1 \in 1..Len(x)
        BY <1>1, <1>2, <2>1
      <4>2. i + 1 \in S
        BY <1>6, <2>1
      <4>3. s[i + 1] = x[i + 1] /\ f[i + 1] = g[i + 1] \o r /\ g[i + 1] \in Text
        BY <1>2, <1>4, <2>1, <4>1, <4>2
      <4>4. PICK c \in Char : c = x[i + 1]
        BY <4>1 DEF Text
      <4>5. <<c>> \in Text
        BY DEF Text
      <4>. QED
        BY <4>3, <4>4, <4>5
    <3>3. Regroups(<<x[i + 1]>>, g[i + 1], r)
      BY <1>2, <3>2, ConcatRegroups DEF Text
    <3>4. f[i] = <<x[i + 1]>> \o (g[i + 1] \o r) /\ g[i] = <<x[i + 1]>> \o g[i + 1]
      BY <2>2, <2>4, <3>1, <3>2 DEF Restored
    <3>. QED
      BY <2>1, <3>3, <3>4 DEF Regroups
  <2>. QED
    BY <2>3, <2>4
<1>7. S = 0..M
  <2>1. S \in SUBSET (0..M)
    OBVIOUS
  <2>. HIDE DEF S
  <2>. QED
    BY <1>2, <1>5, <1>6, <2>1, InductionFromTheEnd
<1>8. f[0] = g[0] \o r
  BY <1>2, <1>7
<1>. QED
  BY <1>1, <1>8 DEF RestoreInText

-----------------------------------------------------------------------------
(* Fitting a placeholder.                                                  *)

LEMMA TextsConcat ==
  ASSUME NEW x \in Text, NEW y \in Text
  PROVE  /\ x \o y \in Text /\ Len(x) \in Nat /\ Len(y) \in Nat /\ Len(x \o y) = Len(x) + Len(y)
         /\ \A k \in 1..Len(x) : (x \o y)[k] = x[k]
         /\ \A k \in 1..Len(y) : (x \o y)[Len(x) + k] = y[k]
         /\ x \o << >> = x /\ << >> \o x = x
<1>1. x \in Seq(Char) /\ y \in Seq(Char)
  BY DEF Text
<1>2. x \o << >> = x /\ << >> \o x = x
  BY <1>1
<1>. QED
  BY <1>1, <1>2, ConcatIs DEF Text

LEMMA TextsRegroup ==
  ASSUME NEW x \in Text, NEW y \in Text, NEW z \in Text
  PROVE  Regroups(x, y, z)
BY ConcatRegroups DEF Text

LEMMA FitsAlike ==
  ASSUME NEW s, NEW u, NEW i, NEW j, NEW d, NEW n, \A k \in 1..n : s[i + k] = u[j + k]
  PROVE  Fits(s, i, d, n) <=> Fits(u, j, d, n)
BY DEF Fits

\* A stretch that fits a placeholder fits it everywhere.
LEMMA FitsWithin ==
  ASSUME NEW s, NEW i \in Nat, NEW d \in Nat, NEW n \in Nat, NEW a \in Nat, NEW m \in Nat,
         a + m <= n, Fits(s, i, d, n)
  PROVE  Fits(s, i + a, d + a, m)
<1>1. ASSUME NEW k \in 1..m  PROVE  s[(i + a) + k] \in Allowed((d + a) + k)
  <2>1. a + k \in 1..n /\ (i + a) + k = i + (a + k) /\ (d + a) + k = d + (a + k)
    OBVIOUS
  <2>. QED
    BY <2>1 DEF Fits
<1>. QED
  BY <1>1 DEF Fits

LEMMA FitsInConcat ==
  ASSUME NEW x \in Text, NEW y \in Text, NEW i \in Nat, NEW d \in Nat, NEW n \in Nat
  PROVE  /\ i + n <= Len(x) => (Fits(x \o y, i, d, n) <=> Fits(x, i, d, n))
         /\ i + n <= Len(y) => (Fits(x \o y, Len(x) + i, d, n) <=> Fits(y, i, d, n))
<1>1. /\ Len(x) \in Nat /\ Len(y) \in Nat
      /\ \A k \in 1..Len(x) : (x \o y)[k] = x[k]
      /\ \A k \in 1..Len(y) : (x \o y)[Len(x) + k] = y[k]
  BY TextsConcat
<1>2. ASSUME i + n <= Len(x)  PROVE  Fits(x \o y, i, d, n) <=> Fits(x, i, d, n)
  <2>1. \A k \in 1..n : i + k \in 1..Len(x)
    BY <1>1, <1>2
  <2>. QED
    BY <1>1, <2>1, FitsAlike
<1>3. ASSUME i + n <= Len(y)  PROVE  Fits(x \o y, Len(x) + i, d, n) <=> Fits(y, i, d, n)
  <2>1. \A k \in 1..n : i + k \in 1..Len(y) /\ (Len(x) + i) + k = Len(x) + (i + k)
    BY <1>1, <1>3
  <2>2. \A k \in 1..n : (x \o y)[(Len(x) + i) + k] = y[i + k]
    BY <1>1, <2>1
  <2>. QED
    BY <2>2, FitsAlike
<1>. QED
  BY <1>2, <1>3

\* What begins a placeholder behind x begins it alone.
LEMMA OpensBehind ==
  ASSUME NEW x \in Text, NEW y \in Text, NEW i \in Nat
  PROVE  Opens(x \o y, Len(x) + i) <=> Opens(y, i)
<1>1. Len(x) \in Nat /\ Len(y) \in Nat /\ Len(x \o y) = Len(x) + Len(y)
  BY TextsConcat
<1>2. CASE i < Len(y)
  <2>1. PICK n : n = Len(y) - i
    OBVIOUS
  <2>2. /\ n \in Nat /\ i + n <= Len(y) /\ Len(x \o y) - (Len(x) + i) = n
        /\ Len(x) + i \in 0..Len(x \o y) - 1 /\ i \in 0..Len(y) - 1
    BY <1>1, <1>2, <2>1
  <2>3. 0 \in Nat
    OBVIOUS
  <2>4. Fits(x \o y, Len(x) + i, 0, n) <=> Fits(y, i, 0, n)
    BY <2>2, <2>3, FitsInConcat
  <2>. QED
    BY <2>1, <2>2, <2>4 DEF Opens
<1>3. CASE ~(i < Len(y))
  BY <1>1, <1>3 DEF Opens
<1>. QED
  BY <1>2, <1>3

-----------------------------------------------------------------------------
(* Texts without a placeholder.                                            *)

\* The rest of a text.
Rest(s, i) == SubSeq(s, i + 1, Len(s))

LEMMA RestIs ==
  ASSUME NEW s \in Text
  PROVE  /\ Rest(s, 0) = s /\ Rest(s, Len(s)) = << >>
         /\ \A i \in 0..Len(s) : Rest(s, i) \in Text
         /\ \A i \in 0..Len(s) - 1 : Rest(s, i) = <<s[i + 1]>> \o Rest(s, i + 1)
<1>1. s \in Seq(Char) /\ Len(s) \in Nat
  BY DEF Text
<1>2. Rest(s, 0) = s /\ Rest(s, Len(s)) = << >>
  BY <1>1, SubSeqFull DEF Rest
<1>3. \A i \in 0..Len(s) : Rest(s, i) \in Text
  BY HalvesAre DEF Halves, Rest
<1>4. ASSUME NEW i \in 0..Len(s) - 1  PROVE  Rest(s, i) = <<s[i + 1]>> \o Rest(s, i + 1)
  <2>1. PICK a, n : a = i + 1 /\ n = Len(s)
    OBVIOUS
  <2>2. a \in 1..n /\ n \in Nat /\ s \in Seq(Char) /\ n = Len(s)
    BY <1>1, <2>1
  <2>3. a \in 1..Len(s) + 1 /\ a \in a - 1..Len(s) /\ n \in a..Len(s)
    BY <2>2
  <2>4. SubSeq(s, a, a) \o SubSeq(s, a + 1, n) = SubSeq(s, a, n)
    BY <1>1, <2>3, ConcatAdjacentSubSeq
  <2>5. SubSeq(s, a, a) = <<s[a]>>
    <3>1. PICK z, c : z = SubSeq(s, a, a) /\ c = s[a]
      OBVIOUS
    <3>2. c \in Char /\ z \in Seq(Char) /\ Len(z) = 1 /\ z[1] = c
      BY <2>2, <3>1
    <3>3. z = <<c>>
      BY <3>2
    <3>. QED
      BY <3>1, <3>3
  <2>. QED
    BY <2>1, <2>4, <2>5 DEF Rest
<1>. QED
  BY <1>2, <1>3, <1>4

LEMMA NothingToRestore ==
  ASSUME NEW s \in Text, \A i \in 0..Len(s) - 1 : ~PlaceholderAt(s, i)
  PROVE  RestoreInText(s) = s
<1>1. PICK f, N : f = RestoredFrom(s) /\ N = Len(s)
  OBVIOUS
<1>2. N \in Nat /\ f[N] = << >> /\ \A i \in 0..N - 1 : Restored(s, f, i)
  BY <1>1, RestoredFromIs DEF Text
<1> DEFINE S == {i \in 0..N : f[i] = Rest(s, i)}
<1>3. N \in S
  BY <1>1, <1>2, RestIs
<1>4. ASSUME NEW i \in 0..N - 1, i + 1..N \in SUBSET S  PROVE  i \in S
  <2>1. i \in 0..N /\ i + 1 \in i + 1..N
    BY <1>2
  <2>2. f[i + 1] = Rest(s, i + 1)
    BY <1>4, <2>1
  <2>3. f[i] = <<s[i + 1]>> \o f[i + 1]
    BY <1>1, <1>2 DEF Restored
  <2>4. Rest(s, i) = <<s[i + 1]>> \o Rest(s, i + 1)
    BY <1>1, RestIs
  <2>. QED
    BY <2>1, <2>2, <2>3, <2>4
<1>5. S = 0..N
  <2>1. S \in SUBSET (0..N)
    OBVIOUS
  <2>. HIDE DEF S
  <2>. QED
    BY <1>2, <1>3, <1>4, <2>1, InductionFromTheEnd
<1>6. 0 \in S
  BY <1>2, <1>5
<1>. QED
  BY <1>1, <1>6, RestIs DEF RestoreInText

-----------------------------------------------------------------------------
(* Texts cut between placeholders.                                         *)

LEMMA ApartInFront ==
  ASSUME NEW x \in Text, NEW y \in Text, NEW z \in Text, Apart(x, y \o z)
  PROVE  Apart(x, y)
<1>1. /\ x \o y \in Text /\ (x \o y) \o z = x \o (y \o z) /\ Len(x) \in Nat
  <2>1. Regroups(x, y, z)
    BY TextsRegroup
  <2>. QED
    BY <2>1, TextsConcat DEF Regroups
<1>2. ASSUME NEW i \in 0..Len(x) - 1, PlaceholderAt(x \o y, i)  PROVE  i + Full <= Len(x)
  <2>1. i \in Nat /\ i + Full <= Len(x \o y)
    BY <1>1, <1>2 DEF PlaceholderAt
  <2>2. PlaceholderAt((x \o y) \o z, i)
    BY <1>1, <1>2, <2>1, PlaceInFront DEF SamePlaceholder
  <2>. QED
    BY <1>1, <2>2 DEF Apart
<1>. QED
  BY <1>2 DEF Apart

LEMMA ApartGrows ==
  ASSUME NEW x \in Text, NEW y \in Text, NEW z \in Text, Apart(x, y \o z), Apart(y, z)
  PROVE  Apart(x \o y, z)
<1>1. /\ x \o y \in Text /\ y \o z \in Text /\ (x \o y) \o z = x \o (y \o z) /\ Len(x) \in Nat /\ Len(y) \in Nat
      /\ Len(x \o y) = Len(x) + Len(y)
  <2>1. Regroups(x, y, z)
    BY TextsRegroup
  <2>. QED
    BY <2>1, TextsConcat DEF Regroups
<1>2. ASSUME NEW i \in 0..Len(x \o y) - 1, PlaceholderAt((x \o y) \o z, i)  PROVE  i + Full <= Len(x \o y)
  <2>1. PlaceholderAt(x \o (y \o z), i) /\ i \in Nat /\ Full \in Nat
    BY <1>1, <1>2, LengthsAre
  <2>2. CASE i < Len(x)
    <3>1. i + Full <= Len(x)
      BY <1>1, <2>1, <2>2 DEF Apart
    <3>. QED
      BY <1>1, <2>1, <3>1
  <2>3. CASE ~(i < Len(x))
    <3>1. PICK j : j = i - Len(x)
      OBVIOUS
    <3>2. j \in Nat /\ i = Len(x) + j /\ j \in 0..Len(y) - 1
      BY <1>1, <2>1, <2>3, <3>1
    <3>3. PlaceholderAt(y \o z, j)
      BY <1>1, <2>1, <3>2, PlaceBehind
    <3>4. j + Full <= Len(y)
      BY <3>2, <3>3 DEF Apart
    <3>. QED
      BY <1>1, <2>1, <3>2, <3>4
  <2>. QED
    BY <2>2, <2>3
<1>. QED
  BY <1>2 DEF Apart

-----------------------------------------------------------------------------
(* Cutting a text where a placeholder may begin.                           *)

\* Text f continues a placeholder after its d-th character.
Continues(f, d) == d + Len(f) < Full /\ Fits(f, 0, d, Len(f))

LEMMA OpensAtOnce ==
  ASSUME NEW f \in Text, Opens(f, 0)
  PROVE  Continues(f, 0)
<1>1. Len(f) \in Nat
  BY DEF Text
<1>. QED
  BY <1>1 DEF Opens, Continues

LEMMA ContinuesIn ==
  ASSUME NEW x \in Text, NEW y \in Text, NEW d \in Nat, Continues(x \o y, d)
  PROVE  /\ d + Len(x) < Full /\ Fits(x, 0, d, Len(x))
         /\ Continues(y, d + Len(x))
<1>1. /\ x \o y \in Text /\ Len(x) \in Nat /\ Len(y) \in Nat /\ Len(x \o y) = Len(x) + Len(y)
      /\ Full \in Nat
  BY TextsConcat, LengthsAre
<1>2. PICK m, n, l : m = Len(x) /\ n = Len(y) /\ l = Len(x \o y)
  OBVIOUS
<1>3. m \in Nat /\ n \in Nat /\ l = m + n /\ d + l < Full /\ Fits(x \o y, 0, d, l)
  BY <1>1, <1>2 DEF Continues
<1>4. Fits(x, 0, d, m)
  <2>1. 0 \in Nat /\ l \in Nat /\ 0 + m <= l /\ 0 + 0 = 0 /\ d + 0 = d /\ 0 + m <= Len(x)
    BY <1>2, <1>3
  <2>2. Fits(x \o y, 0 + 0, d + 0, m)
    BY <1>3, <2>1, FitsWithin
  <2>3. Fits(x \o y, 0, d, m)
    BY <2>1, <2>2
  <2>. QED
    BY <1>3, <2>1, <2>3, FitsInConcat
<1>5. Fits(y, 0, d + m, n)
  <2>1. 0 \in Nat /\ l \in Nat /\ m + n <= l /\ 0 + m = m /\ m + 0 = m /\ 0 + n <= Len(y) /\ d + m \in Nat
    BY <1>2, <1>3
  <2>2. Fits(x \o y, 0 + m, d + m, n)
    BY <1>3, <2>1, FitsWithin
  <2>3. Fits(x \o y, Len(x) + 0, d + m, n)
    BY <1>2, <2>1, <2>2
  <2>. QED
    BY <1>3, <2>1, <2>3, FitsInConcat
<1>. QED
  BY <1>1, <1>2, <1>3, <1>4, <1>5 DEF Continues

\* Neither a secret nor an unknown placeholder continues a placeholder.
LEMMA ResolvedContinuesNone ==
  ASSUME SecretsApart, NEW s \in Text, NEW i \in Nat, PlaceholderAt(s, i), NEW d \in Nat
  PROVE  ~(d + Len(Resolved(s, i)) < Full /\ Fits(Resolved(s, i), 0, d, Len(Resolved(s, i))))
<1>1. Full \in Nat /\ Len(s) \in Nat /\ i + Full <= Len(s)
  BY LengthsAre DEF Text, PlaceholderAt
<1>2. CASE TokenAt(s, i) \in DOMAIN SecretOf
  <2>1. PICK t : t = TokenAt(s, i)
    OBVIOUS
  <2>2. t \in DOMAIN SecretOf /\ Resolved(s, i) = SecretOf[t] /\ SecretOf[t] \in Text
    BY <1>2, <2>1, PlaceholderAssumption DEF Resolved
  <2>3. PICK r, n : r = SecretOf[t] /\ n = Len(r)
    OBVIOUS
  <2>4. \A e \in 0..Full : e + n <= Full => ~Fits(r, 0, e, n)
    BY <2>2, <2>3 DEF SecretsApart
  <2>5. n \in Nat
    BY <2>2, <2>3 DEF Text
  <2>6. ASSUME d + n < Full  PROVE  ~Fits(r, 0, d, n)
    <3>1. d \in 0..Full /\ d + n <= Full
      BY <1>1, <2>5, <2>6
    <3>. QED
      BY <2>4, <3>1
  <2>. QED
    BY <2>2, <2>3, <2>6
<1>3. CASE ~(TokenAt(s, i) \in DOMAIN SecretOf)
  <2>1. PICK r : r = Resolved(s, i)
    OBVIOUS
  <2>2. r = SubSeq(s, i + 1, i + Full) /\ Len(r) = Full
    BY <1>1, <1>3, <2>1 DEF Resolved, Text
  <2>. QED
    BY <1>1, <2>1, <2>2
<1>. QED
  BY <1>2, <1>3

\* Nor does one end with the beginning of one.
LEMMA ResolvedBeginsNone ==
  ASSUME SecretsApart, NEW s \in Text, NEW i \in Nat, PlaceholderAt(s, i),
         NEW j \in Nat, j < Len(Resolved(s, i)), j > 0 \/ TokenAt(s, i) \in DOMAIN SecretOf,
         Len(Resolved(s, i)) - j < Full
  PROVE  ~Fits(Resolved(s, i), j, 0, Len(Resolved(s, i)) - j)
<1>1. Full \in Nat \ {0} /\ Len(s) \in Nat /\ i + Full <= Len(s) /\ Len(Prefix) \in Nat /\ Len(Prefix) <= Full
  BY LengthsAre DEF Text, PlaceholderAt
<1>2. CASE TokenAt(s, i) \in DOMAIN SecretOf
  <2>1. PICK t : t = TokenAt(s, i)
    OBVIOUS
  <2>2. t \in DOMAIN SecretOf /\ Resolved(s, i) = SecretOf[t] /\ SecretOf[t] \in Text
    BY <1>2, <2>1, PlaceholderAssumption DEF Resolved
  <2>3. PICK r, l, n : r = SecretOf[t] /\ l = Len(r) /\ n = l - j
    OBVIOUS
  <2>4. \A m \in 1..l : m < Full => ~Fits(r, l - m, 0, m)
    BY <2>2, <2>3 DEF SecretsApart
  <2>5. l \in Nat
    BY <2>2, <2>3 DEF Text
  <2>6. n \in 1..l /\ l - n = j /\ n < Full
    BY <2>2, <2>3, <2>5
  <2>7. ~Fits(r, j, 0, n)
    BY <2>4, <2>6
  <2>. QED
    BY <2>2, <2>3, <2>7
<1>3. CASE ~(TokenAt(s, i) \in DOMAIN SecretOf)
  <2>1. PICK r, n : r = Resolved(s, i) /\ n = Full - j
    OBVIOUS
  <2>2. r = SubSeq(s, i + 1, i + Full)
    BY <1>3, <2>1 DEF Resolved
  <2>3. Len(r) = Full /\ \A k \in 1..Full : r[k] = s[i + k]
    <3>1. PICK f : f = Full
      OBVIOUS
    <3>2. Piece(s, i, f)
      BY <1>1, <3>1, PieceIs
    <3>. QED
      BY <2>2, <3>1, <3>2 DEF Piece
  <2>4. Fits(r, 0, 0, Full)
    <3>1. Fits(s, i, 0, Full)
      BY PlaceholderFits
    <3>2. \A k \in 1..Full : r[0 + k] = s[i + k]
      BY <1>1, <2>3
    <3>. QED
      BY <3>1, <3>2, FitsAlike
  <2>5. j \in 1..Full - 1 /\ n \in Nat \ {0} /\ j + n = Full /\ 0 + j = j /\ 0 \in Nat
    BY <1>1, <1>3, <2>1, <2>3
  <2>6. ASSUME Fits(r, j, 0, n)  PROVE  FALSE
    <3>1. Fits(r, 0, 0, j + n) /\ Fits(r, 0 + j, 0, n) /\ j + n <= Full /\ j + n >= Len(Prefix)
      BY <1>1, <2>4, <2>5, <2>6
    <3>. QED
      BY <2>5, <3>1, NoneInside
  <2>. QED
    BY <2>1, <2>3, <2>6
<1>. QED
  BY <1>2, <1>3

\* Text u is held back from c on: q is let go, p is held.
HeldFrom(u, c, q, p) ==
  /\ c = PartialAtTail(u) /\ q = SubSeq(u, 1, c) /\ p = Rest(u, c)

\* What the cut does.
IsCut(u, c, q, p) ==
  /\ q \in Text /\ p \in Text /\ u = q \o p /\ Len(q) = c /\ Len(p) = Len(u) - c
  /\ c \in 0..Len(u)
  /\ c < Len(u) => Opens(u, c)
  /\ \A i \in 0..Len(u) - 1 : Opens(u, i) => c <= i
  /\ \A k \in 1..c : q[k] = u[k]

LEMMA CutParts ==
  ASSUME NEW u \in Text, NEW c, NEW q, NEW p, HeldFrom(u, c, q, p)
  PROVE  IsCut(u, c, q, p)
<1>1. /\ c \in 0..Len(u) /\ (c < Len(u) => Opens(u, c))
      /\ \A i \in 0..Len(u) - 1 : Opens(u, i) => c <= i
  BY HoldsTheLongest DEF HeldFrom
<1>2. Halves(u, c)
  BY <1>1, HalvesAre
<1>. QED
  BY <1>1, <1>2 DEF HeldFrom, Halves, Rest, IsCut

\* No placeholder, however the text goes on, is partly let go and partly held.
LEMMA CutsNone ==
  ASSUME NEW u \in Text, NEW c, NEW q, NEW p, IsCut(u, c, q, p), NEW t \in Text
  PROVE  Apart(q, p \o t)
<1>1. /\ Full \in Nat \ {0} /\ Len(u) \in Nat /\ Len(Prefix) \in Nat /\ Len(Prefix) <= Full
      /\ c \in Nat /\ c <= Len(u)
  BY LengthsAre DEF Text, IsCut
<1>2. q \o (p \o t) = u \o t /\ u \o t \in Text /\ Len(q) = c
  <2>1. q \in Text /\ p \in Text /\ u = q \o p /\ Len(q) = c
    BY DEF IsCut
  <2>2. Regroups(q, p, t)
    BY <2>1, TextsRegroup
  <2>. QED
    BY <2>1, <2>2, TextsConcat DEF Regroups
<1>3. SUFFICES ASSUME NEW i \in 0..c - 1, PlaceholderAt(u \o t, i), ~(i + Full <= c)  PROVE  FALSE
  BY <1>2 DEF Apart
<1>4. Fits(u \o t, i, 0, Full) /\ i \in Nat /\ i < c /\ i < Len(u) /\ i \in 0..Len(u) - 1
  BY <1>1, <1>2, <1>3, PlaceholderFits
<1>5. ASSUME NEW n \in Nat, n <= Full, i + n <= Len(u)  PROVE  Fits(u, i, 0, n)
  <2>1. 0 \in Nat /\ Full \in Nat /\ 0 + n <= Full /\ i + 0 = i /\ 0 + 0 = 0
    BY <1>1, <1>5
  <2>2. Fits(u \o t, i + 0, 0 + 0, n)
    BY <1>4, <2>1, FitsWithin
  <2>3. Fits(u \o t, i, 0, n)
    BY <2>1, <2>2
  <2>. QED
    BY <1>4, <1>5, <2>1, <2>3, FitsInConcat
<1>6. CASE i + Full > Len(u)
  <2>1. PICK n : n = Len(u) - i
    OBVIOUS
  <2>2. n \in Nat /\ n <= Full /\ i + n <= Len(u) /\ n < Full
    BY <1>1, <1>4, <1>6, <2>1
  <2>3. Opens(u, i)
    BY <1>4, <1>5, <2>1, <2>2 DEF Opens
  <2>4. c <= i
    BY <1>4, <2>3 DEF IsCut
  <2>. QED
    BY <1>1, <1>4, <2>4
<1>7. CASE ~(i + Full > Len(u))
  <2>1. PICK d, n : d = c - i /\ n = Full - d
    OBVIOUS
  <2>2. /\ d \in 1..Full - 1 /\ n \in Nat \ {0} /\ d + n = Full /\ d + n <= Full /\ d + n >= Len(Prefix)
        /\ i + d = c /\ c + n <= Len(u) /\ c < Len(u)
    BY <1>1, <1>3, <1>4, <1>7, <2>1
  <2>3. Fits(u, i, 0, d + n)
    BY <1>1, <1>5, <1>7, <2>2
  <2>4. Opens(u, c)
    BY <2>2 DEF IsCut
  <2>5. Fits(u, i + d, 0, n)
    <3>1. PICK m : m = Len(u) - c
      OBVIOUS
    <3>2. m \in Nat /\ 0 \in Nat /\ 0 + n <= m /\ c + 0 = c /\ 0 + 0 = 0 /\ n \in Nat /\ Fits(u, c, 0, m)
      BY <1>1, <2>2, <2>4, <3>1 DEF Opens
    <3>3. Fits(u, c + 0, 0 + 0, n)
      BY <1>1, <3>2, FitsWithin
    <3>. QED
      BY <2>2, <3>2, <3>3
  <2>. QED
    BY <1>4, <2>2, <2>3, <2>5, NoneInside
<1>. QED
  BY <1>6, <1>7

\* What is held has no placeholder.
LEMMA CutHoldsNone ==
  ASSUME NEW u \in Text, NEW c, NEW q, NEW p, IsCut(u, c, q, p)
  PROVE  RestoreInText(p) = p
<1>1. Len(u) \in Nat /\ c \in 0..Len(u) /\ Len(p) = Len(u) - c /\ p \in Text /\ Full \in Nat
  BY LengthsAre DEF Text, IsCut
<1>2. c < Len(u) => Len(p) < Full
  BY <1>1 DEF Opens, IsCut
<1>3. ASSUME NEW i \in 0..Len(p) - 1  PROVE  ~PlaceholderAt(p, i)
  BY <1>1, <1>2 DEF PlaceholderAt
<1>. QED
  BY <1>1, <1>3, NothingToRestore

-----------------------------------------------------------------------------
(* The restored text is held back where the text is.                       *)

\* What is restored of q from position a on, with p behind it.
Onward(q, p, a) == RestoredFrom(q)[a] \o p

\* It can only continue a placeholder if nothing was restored in it.
LEMMA OnlyTheTextContinues ==
  ASSUME SecretsApart, NEW q \in Text, NEW p \in Text, NEW a \in 0..Len(q), NEW e \in Nat,
         Continues(Onward(q, p, a), e)
  PROVE  RestoredFrom(q)[a] = Rest(q, a)
<1>1. PICK g, N : g = RestoredFrom(q) /\ N = Len(q)
  OBVIOUS
<1>2. N \in Nat /\ g \in [0..N -> Text] /\ g[N] = << >> /\ \A i \in 0..N - 1 : Restored(q, g, i)
  BY <1>1, RestoredFromIs DEF Text
<1> DEFINE S == {i \in 0..N : \A d \in Nat : Continues(g[i] \o p, d) => g[i] = Rest(q, i)}
<1>3. N \in S
  BY <1>1, <1>2, RestIs
<1>4. ASSUME NEW i \in 0..N - 1, i + 1..N \in SUBSET S  PROVE  i \in S
  <2>1. i \in 0..N /\ i \in Nat /\ i + 1 \in i + 1..N /\ i + 1 \in 0..N
    BY <1>2
  <2>2. SUFFICES ASSUME NEW d \in Nat, Continues(g[i] \o p, d)  PROVE  g[i] = Rest(q, i)
    BY <2>1
  <2>3. CASE PlaceholderAt(q, i)
    <3>1. PICK r, h : r = Resolved(q, i) /\ h = g[i + Full]
      OBVIOUS
    <3>2. g[i] = r \o h
      BY <1>2, <2>3, <3>1 DEF Restored
    <3>3. r \in Text /\ h \in Text
      <4>1. i \in 0..Len(q)
        BY <1>1, <2>1
      <4>2. i + Full \in i + 1..Len(q) /\ Resolved(q, i) \in Text
        BY <2>3, <4>1, ResolvedIsText
      <4>3. i + Full \in 0..N
        BY <1>1, <2>1, <4>2
      <4>. QED
        BY <1>2, <3>1, <4>2, <4>3
    <3>4. Continues(r \o (h \o p), d)
      <4>1. Regroups(r, h, p)
        BY <3>3, TextsRegroup
      <4>. QED
        BY <2>2, <3>2, <4>1 DEF Regroups
    <3>5. d + Len(r) < Full /\ Fits(r, 0, d, Len(r))
      BY <3>3, <3>4, TextsConcat, ContinuesIn
    <3>. QED
      BY <2>1, <2>3, <3>1, <3>5, ResolvedContinuesNone
  <2>4. CASE ~PlaceholderAt(q, i)
    <3>1. PICK b, h : b = <<q[i + 1]>> /\ h = g[i + 1]
      OBVIOUS
    <3>2. g[i] = b \o h
      BY <1>2, <2>4, <3>1 DEF Restored
    <3>3. b \in Text /\ h \in Text /\ Len(b) = 1
      <4>1. i + 1 \in 1..Len(q)
        BY <1>1, <1>2, <2>1
      <4>2. PICK x \in Char : x = q[i + 1]
        BY <4>1 DEF Text
      <4>3. <<x>> \in Text /\ Len(<<x>>) = 1
        BY DEF Text
      <4>. QED
        BY <1>2, <2>1, <3>1, <4>2, <4>3
    <3>4. Continues(b \o (h \o p), d)
      <4>1. Regroups(b, h, p)
        BY <3>3, TextsRegroup
      <4>. QED
        BY <2>2, <3>2, <4>1 DEF Regroups
    <3>5. Continues(h \o p, d + 1)
      BY <3>3, <3>4, TextsConcat, ContinuesIn
    <3>6. h = Rest(q, i + 1)
      <4>1. d + 1 \in Nat /\ i + 1 \in S
        BY <1>4, <2>1
      <4>. QED
        BY <3>1, <3>5, <4>1
    <3>. QED
      BY <1>1, <3>1, <3>2, <3>6, RestIs
  <2>. QED
    BY <2>3, <2>4
<1>5. S = 0..N
  <2>1. S \in SUBSET (0..N)
    OBVIOUS
  <2>. HIDE DEF S
  <2>. QED
    BY <1>2, <1>3, <1>4, <2>1, InductionFromTheEnd
<1>6. a \in S
  BY <1>1, <1>5
<1>. QED
  BY <1>1, <1>6 DEF Onward

\* Before p, nothing restored begins a placeholder.
LEMMA NothingOpensBefore ==
  ASSUME SecretsApart, NEW u \in Text, NEW c, NEW q, NEW p, IsCut(u, c, q, p), NEW a \in 0..c
  PROVE  \A j \in Nat : j < Len(RestoredFrom(q)[a]) => ~Opens(Onward(q, p, a), j)
<1>0. q \in Text /\ p \in Text /\ u = q \o p /\ Len(q) = c /\ c \in Nat /\ Len(u) \in Nat /\ c <= Len(u)
      /\ Full \in Nat \ {0}
  BY LengthsAre DEF IsCut, Text
<1>1. PICK g, N : g = RestoredFrom(q) /\ N = Len(q)
  OBVIOUS
<1>2. N \in Nat /\ N = c /\ g \in [0..N -> Text] /\ g[N] = << >> /\ \A i \in 0..N - 1 : Restored(q, g, i)
  BY <1>0, <1>1, RestoredFromIs
<1> DEFINE S == {i \in 0..N : \A j \in Nat : j < Len(g[i]) => ~Opens(g[i] \o p, j)}
<1>3. N \in S
  BY <1>1, <1>2
<1>4. ASSUME NEW i \in 0..N - 1, i + 1..N \in SUBSET S  PROVE  i \in S
  <2>1. i \in 0..N /\ i \in Nat /\ i + 1 \in i + 1..N /\ i + 1 \in 0..N /\ i \in 0..Len(q)
    BY <1>1, <1>2
  <2>2. SUFFICES ASSUME NEW j \in Nat, j < Len(g[i]), Opens(g[i] \o p, j)  PROVE  FALSE
    BY <2>1
  <2>3. ASSUME NEW r \in Text, NEW h \in Text, g[i] = r \o h, NEW m \in i + 1..N, h = g[m], j >= Len(r)
        PROVE  FALSE
    <3>1. g[i] \o p = r \o (h \o p)
      <4>1. Regroups(r, h, p)
        BY <1>0, <2>3, TextsRegroup
      <4>. QED
        BY <2>3, <4>1 DEF Regroups
    <3>2. PICK l : l = j - Len(r)
      OBVIOUS
    <3>3. l \in Nat /\ j = Len(r) + l /\ l < Len(h) /\ h \o p \in Text
      <4>1. /\ Len(r) \in Nat /\ Len(h) \in Nat /\ Len(r \o h) = Len(r) + Len(h) /\ h \o p \in Text
        BY <1>0, <2>3, TextsConcat
      <4>2. Len(g[i]) = Len(r) + Len(h)
        BY <2>3, <4>1
      <4>. QED
        BY <2>2, <2>3, <3>2, <4>1, <4>2
    <3>4. Opens(h \o p, l)
      BY <2>2, <2>3, <3>1, <3>3, OpensBehind
    <3>5. m \in S
      BY <1>4
    <3>. QED
      BY <2>3, <3>3, <3>4, <3>5
  <2>4. CASE PlaceholderAt(q, i)
    <3>1. PICK r, h, m : r = Resolved(q, i) /\ h = g[i + Full] /\ m = i + Full
      OBVIOUS
    <3>2. g[i] = r \o h
      BY <1>2, <2>4, <3>1 DEF Restored
    <3>3. r \in Text /\ h \in Text /\ m \in i + 1..N /\ h = g[m]
      <4>1. i + Full \in i + 1..Len(q) /\ Resolved(q, i) \in Text
        BY <1>0, <2>1, <2>4, ResolvedIsText
      <4>2. m \in 0..N
        BY <1>1, <2>1, <3>1, <4>1
      <4>. QED
        BY <1>1, <1>2, <3>1, <4>1, <4>2
    <3>4. SUFFICES ASSUME j < Len(r)  PROVE  FALSE
      <4>1. Len(r) \in Nat
        BY <3>3, TextsConcat
      <4>2. ASSUME j >= Len(r)  PROVE  FALSE
        BY <2>3, <3>2, <3>3, <4>2
      <4>. QED
        BY <4>1, <4>2
    <3>5. PICK L, n : L = Len(g[i] \o p) /\ n = Len(r) - j
      OBVIOUS
    <3>6. /\ g[i] \o p = r \o (h \o p) /\ h \o p \in Text /\ Len(r) \in Nat /\ L \in Nat /\ L >= Len(r)
          /\ n \in Nat \ {0} /\ j + n = Len(r)
      <4>1. Regroups(r, h, p)
        BY <1>0, <3>3, TextsRegroup
      <4>2. g[i] \o p = r \o (h \o p) /\ h \o p \in Text
        BY <1>0, <3>2, <3>3, <4>1, TextsConcat DEF Regroups
      <4>3. Len(r) \in Nat /\ L \in Nat /\ L >= Len(r)
        <5>1. Len(r) \in Nat /\ Len(h \o p) \in Nat /\ Len(r \o (h \o p)) = Len(r) + Len(h \o p)
          BY <3>3, <4>2, TextsConcat
        <5>. QED
          BY <3>5, <4>2, <5>1
      <4>. QED
        BY <3>4, <3>5, <4>2, <4>3
    <3>7. L - j < Full /\ n < Full /\ Fits(r \o (h \o p), j, 0, L - j)
      BY <1>0, <2>2, <3>4, <3>5, <3>6 DEF Opens
    <3>8. Fits(r, j, 0, n)
      <4>1. PICK k : k = L - j
        OBVIOUS
      <4>2. k \in Nat /\ n \in Nat /\ 0 \in Nat /\ 0 + n <= k /\ j + 0 = j /\ 0 + 0 = 0 /\ j + n <= Len(r)
        BY <3>4, <3>6, <4>1
      <4>3. Fits(r \o (h \o p), j + 0, 0 + 0, n)
        BY <3>7, <4>1, <4>2, FitsWithin
      <4>4. Fits(r \o (h \o p), j, 0, n)
        BY <4>2, <4>3
      <4>. QED
        BY <3>3, <3>6, <4>2, <4>4, FitsInConcat
    <3>9. CASE j > 0 \/ TokenAt(q, i) \in DOMAIN SecretOf
      BY <1>0, <2>1, <2>4, <3>1, <3>4, <3>5, <3>7, <3>8, <3>9, ResolvedBeginsNone
    <3>10. CASE ~(j > 0) /\ ~(TokenAt(q, i) \in DOMAIN SecretOf)
      <4>1. r = SubSeq(q, i + 1, i + Full)
        BY <3>1, <3>10 DEF Resolved
      <4>2. Len(r) = Full
        <5>1. PICK f : f = Full
          OBVIOUS
        <5>2. Piece(q, i, f)
          BY <1>0, <2>1, <2>4, <5>1, PieceIs DEF PlaceholderAt
        <5>. QED
          BY <4>1, <5>1, <5>2 DEF Piece
      <4>. QED
        BY <1>0, <3>6, <3>7, <3>10, <4>2
    <3>. QED
      BY <3>9, <3>10
  <2>5. CASE ~PlaceholderAt(q, i)
    <3>1. PICK b, h, m : b = <<q[i + 1]>> /\ h = g[i + 1] /\ m = i + 1
      OBVIOUS
    <3>2. g[i] = b \o h
      BY <1>2, <2>5, <3>1 DEF Restored
    <3>3. b \in Text /\ h \in Text /\ Len(b) = 1 /\ m \in i + 1..N /\ h = g[m]
      <4>1. i + 1 \in 1..Len(q)
        BY <1>1, <1>2, <2>1
      <4>2. PICK x \in Char : x = q[i + 1]
        BY <1>0, <4>1 DEF Text
      <4>3. <<x>> \in Text /\ Len(<<x>>) = 1
        BY DEF Text
      <4>. QED
        BY <1>2, <2>1, <3>1, <4>2, <4>3
    <3>4. j = 0
      <4>1. ASSUME j >= Len(b)  PROVE  FALSE
        BY <2>3, <3>2, <3>3, <4>1
      <4>. QED
        BY <3>3, <4>1
    <3>5. Continues(g[i] \o p, 0)
      <4>1. g[i] \in Text /\ g[i] \o p \in Text
        BY <1>0, <1>2, <2>1, TextsConcat
      <4>. QED
        BY <2>2, <3>4, <4>1, OpensAtOnce
    <3>6. g[i] = Rest(q, i)
      <4>1. 0 \in Nat
        OBVIOUS
      <4>. QED
        BY <1>0, <1>1, <2>1, <3>5, <4>1, OnlyTheTextContinues DEF Onward
    <3>7. Opens(Rest(q, i) \o p, 0)
      BY <2>2, <3>4, <3>6
    <3>8. PICK x : x = SubSeq(q, 1, i)
      OBVIOUS
    <3>9. x \in Text /\ Rest(q, i) \in Text /\ Len(x) = i /\ x \o Rest(q, i) = q
      BY <1>0, <2>1, <3>8, HalvesAre DEF Halves, Rest
    <3>10. u = x \o (Rest(q, i) \o p) /\ Rest(q, i) \o p \in Text
      <4>1. Regroups(x, Rest(q, i), p)
        BY <1>0, <3>9, TextsRegroup
      <4>. QED
        BY <1>0, <3>9, <4>1, TextsConcat DEF Regroups
    <3>11. Opens(u, i)
      <4>1. 0 \in Nat /\ Len(x) + 0 = i
        BY <2>1, <3>9
      <4>2. Opens(x \o (Rest(q, i) \o p), Len(x) + 0)
        BY <3>7, <3>9, <3>10, <4>1, OpensBehind
      <4>. QED
        BY <3>10, <4>1, <4>2
    <3>12. i \in 0..Len(u) - 1 /\ i < c
      BY <1>0, <1>2, <2>1
    <3>. QED
      BY <1>0, <2>1, <3>11, <3>12 DEF IsCut
  <2>. QED
    BY <2>4, <2>5
<1>5. S = 0..N
  <2>1. S \in SUBSET (0..N)
    OBVIOUS
  <2>. HIDE DEF S
  <2>. QED
    BY <1>2, <1>3, <1>4, <2>1, InductionFromTheEnd
<1>6. a \in S
  BY <1>2, <1>5
<1>. QED
  BY <1>1, <1>6 DEF Onward

\* What the restorer does with a text behind what it held of the one before.
CutsCleanly(u, c, q, p) ==
  /\ q \in Text /\ p \in Text /\ u = q \o p
  /\ RestoreInText(p) = p
  /\ \A t \in Text : Apart(q, p \o t)
  /\ RestoreInText(u) = RestoreInText(q) \o p
  /\ PartialAtTail(RestoreInText(u)) = Len(RestoreInText(q))

\* Restored and then cut is cut and then restored: processEvent may look for a begun
\* placeholder in the text it restored (sse.go, PartialAtTail of the combined text) and
\* still hold back what the upstream's own text leaves unfinished.
THEOREM CutIs ==
  ASSUME SecretsApart, NEW u \in Text, NEW c, NEW q, NEW p, HeldFrom(u, c, q, p)
  PROVE  CutsCleanly(u, c, q, p)
<1>1. IsCut(u, c, q, p)
  BY CutParts
<1>2. q \in Text /\ p \in Text /\ u = q \o p /\ Len(q) = c /\ Len(u) \in Nat /\ c \in 0..Len(u) /\ Len(p) = Len(u) - c
  BY <1>1 DEF IsCut, Text
<1>3. RestoreInText(p) = p /\ \A t \in Text : Apart(q, p \o t)
  BY <1>1, CutHoldsNone, CutsNone
<1>4. RestoreInText(u) = RestoreInText(q) \o p
  <2>1. << >> \in Text /\ p \o << >> = p
    BY <1>2, TextsConcat DEF Text
  <2>2. Apart(q, p \o << >>)
    BY <1>3, <2>1
  <2>3. Apart(q, p)
    BY <2>1, <2>2
  <2>. QED
    BY <1>2, <1>3, <2>3, RestoredInParts
<1>5. PICK v, w, m, l : v = RestoreInText(u) /\ w = RestoreInText(q) /\ m = PartialAtTail(v) /\ l = Len(w)
  OBVIOUS
<1>6. v = w \o p /\ v \in Text /\ w \in Text /\ l \in Nat /\ Len(v) = l + Len(p) /\ Len(v) \in Nat
  <2>1. v \in Text /\ w \in Text /\ v = w \o p
    BY <1>2, <1>4, <1>5, RestoredIsText
  <2>2. Len(w) \in Nat /\ Len(p) \in Nat /\ Len(w \o p) = Len(w) + Len(p)
    BY <1>2, <2>1, TextsConcat
  <2>. QED
    BY <1>5, <2>1, <2>2
<1>7. m \in 0..Len(v) /\ (m < Len(v) => Opens(v, m)) /\ \A i \in 0..Len(v) - 1 : Opens(v, i) => m <= i
  BY <1>5, <1>6, HoldsTheLongest
<1>8. m <= l
  <2>1. CASE c < Len(u)
    <3>1. Opens(u, c)
      BY <1>1, <2>1 DEF IsCut
    <3>2. Opens(p, 0)
      <4>1. 0 \in Nat /\ Len(q) + 0 = c
        BY <1>2
      <4>. QED
        BY <1>2, <3>1, <4>1, OpensBehind
    <3>3. Opens(v, l)
      <4>1. 0 \in Nat /\ Len(w) + 0 = l
        BY <1>5, <1>6
      <4>2. Opens(w \o p, Len(w) + 0)
        BY <1>2, <1>6, <3>2, <4>1, OpensBehind
      <4>. QED
        BY <1>6, <4>1, <4>2
    <3>. QED
      BY <1>7, <3>3 DEF Opens
  <2>2. CASE ~(c < Len(u))
    BY <1>2, <1>6, <1>7, <2>2
  <2>. QED
    BY <2>1, <2>2
<1>9. ~(m < l)
  <2>1. SUFFICES ASSUME m < l  PROVE  FALSE
    OBVIOUS
  <2>2. m \in Nat /\ m < Len(v)
    BY <1>2, <1>6, <1>7, <2>1
  <2>3. Opens(v, m)
    BY <1>7, <2>2
  <2>4. 0 \in 0..c
    BY <1>2
  <2>5. \A j \in Nat : j < Len(RestoredFrom(q)[0]) => ~Opens(Onward(q, p, 0), j)
    BY <1>1, <2>4, NothingOpensBefore
  <2>. QED
    BY <1>5, <1>6, <2>1, <2>2, <2>3, <2>5 DEF RestoreInText, Onward
<1>. QED
  BY <1>2, <1>3, <1>4, <1>5, <1>6, <1>7, <1>8, <1>9 DEF CutsCleanly

-----------------------------------------------------------------------------
(* Lines.                                                                  *)

Cuts(s, Seps) == {0} \cup {i \in 1..Len(s) : s[i] \in Seps}

\* x is what s is cut into after the positions of B, but for its last piece.
PiecesAt(s, B, x) ==
  /\ Cardinality(B) \in Nat /\ Len(x) = Cardinality(B)
  /\ \A n \in 1..Cardinality(B) - 1 :
       /\ Ordered(B)[n] \in B /\ Ordered(B)[n + 1] \in B
       /\ x[n] = SubSeq(s, Ordered(B)[n] + 1, Ordered(B)[n + 1] - 1)

LEMMA SplitIs ==
  ASSUME NEW T, NEW s \in Seq(T), NEW Seps
  PROVE  /\ SplitAtAny(s, Seps) \in Seq(Seq(T))
         /\ PiecesAt(s, Cuts(s, Seps), SplitAtAny(s, Seps))
<1>0. PICK B : B = Cuts(s, Seps)
  OBVIOUS
<1> DEFINE a == Len(s) + 1
           S == B \cup {a}
           cut == Ordered(S)
           c == Cardinality(B)
<1>1. Len(s) \in Nat /\ B \in SUBSET (0..Len(s)) /\ a \in Int
  BY <1>0 DEF Cuts
<1>2. B \in SUBSET Int /\ IsFiniteSet(B) /\ \A x \in B : x < a
  <2>1. IsFiniteSet(0..Len(s)) /\ 0..Len(s) \in SUBSET Int
    BY <1>1, FS_Interval
  <2>2. \A x \in 0..Len(s) : x < a
    BY <1>1
  <2>. HIDE DEF a
  <2>. QED
    BY <1>1, <2>1, <2>2, FS_Subset
<1>3. /\ S \in SUBSET Int /\ IsFiniteSet(S) /\ c \in Nat /\ Cardinality(S) = c + 1
      /\ \A n \in 1..c : Ordered(B)[n] \in B /\ cut[n] = Ordered(B)[n]
      /\ cut[c + 1] = a
  <2>. HIDE DEF a
  <2>. QED
    BY <1>1, <1>2, OrderedTop
<1>4. SplitAtAny(s, Seps) = [n \in 1..c |-> SubSeq(s, cut[n] + 1, cut[n + 1] - 1)]
  <2>1. S = {0, Len(s) + 1} \cup {i \in 1..Len(s) : s[i] \in Seps}
    BY <1>0 DEF Cuts
  <2>2. Len(cut) = c + 1
    <3>. HIDE DEF S, c
    <3>. QED
      BY <1>3, OrderedIs
  <2>. HIDE DEF S, c, cut
  <2>3. SplitAtAny(s, Seps) = [n \in 1..Len(cut) - 1 |-> SubSeq(s, cut[n] + 1, cut[n + 1] - 1)]
    BY <2>1 DEF SplitAtAny, cut
  <2>4. Len(cut) - 1 = c
    BY <1>3, <2>2
  <2>. QED
    BY <2>3, <2>4
<1>. HIDE DEF S, cut, c, a
<1>5. ASSUME NEW n \in 1..c
      PROVE  cut[n] \in 0..Len(s) /\ (cut[n + 1] \in 0..Len(s) \/ cut[n + 1] = Len(s) + 1)
  <2>1. cut[n] \in 0..Len(s)
    BY <1>1, <1>3
  <2>2. n + 1 \in 1..c \/ n + 1 = c + 1
    BY <1>3
  <2>3. cut[n + 1] \in B \/ cut[n + 1] = a
    BY <1>3, <2>2
  <2>. QED
    BY <1>1, <2>1, <2>3 DEF a
<1>6. ASSUME NEW n \in 1..c  PROVE  SubSeq(s, cut[n] + 1, cut[n + 1] - 1) \in Seq(T)
  <2>1. cut[n] + 1 \in 1..Len(s) + 1 /\ cut[n + 1] - 1 \in -1..Len(s)
    BY <1>1, <1>5
  <2>. QED
    BY <1>1, <2>1
<1>7. SplitAtAny(s, Seps) \in Seq(Seq(T)) /\ Len(SplitAtAny(s, Seps)) = c
  <2>1. SplitAtAny(s, Seps) \in [1..c -> Seq(T)]
    BY <1>4, <1>6
  <2>. QED
    BY <1>3, <2>1
<1>8. ASSUME NEW n \in 1..c - 1
      PROVE  /\ Ordered(B)[n] \in B /\ Ordered(B)[n + 1] \in B
             /\ SplitAtAny(s, Seps)[n] = SubSeq(s, Ordered(B)[n] + 1, Ordered(B)[n + 1] - 1)
  <2>1. n \in 1..c /\ n + 1 \in 1..c
    BY <1>3
  <2>. QED
    BY <1>3, <1>4, <2>1
<1>. QED
  BY <1>0, <1>3, <1>7, <1>8 DEF c, PiecesAt

\* x and y have the same pieces, but for the last.
SamePieces(x, y) ==
  Len(x) \in Nat /\ Len(y) = Len(x) /\ \A n \in 1..Len(x) - 1 : y[n] = x[n]

\* Texts cut at the same places are cut into the same pieces, but for the last.
LEMMA SplitAgrees ==
  ASSUME NEW T, NEW s \in Seq(T), NEW t \in Seq(T), NEW Seps, NEW B,
         B = Cuts(s, Seps), B = Cuts(t, Seps),
         \A i \in B, j \in B : SubSeq(t, i + 1, j - 1) = SubSeq(s, i + 1, j - 1)
  PROVE  SamePieces(SplitAtAny(s, Seps), SplitAtAny(t, Seps))
<1> DEFINE c == Cardinality(B)
           x == SplitAtAny(s, Seps)
           y == SplitAtAny(t, Seps)
<1>. HIDE DEF c, x, y
<1>0. PiecesAt(s, B, x) /\ PiecesAt(t, B, y)
  BY SplitIs DEF x, y
<1>1. /\ c \in Nat /\ Len(x) = c
      /\ \A n \in 1..c - 1 : Ordered(B)[n] \in B /\ Ordered(B)[n + 1] \in B
                             /\ x[n] = SubSeq(s, Ordered(B)[n] + 1, Ordered(B)[n + 1] - 1)
  BY <1>0 DEF PiecesAt, c
<1>2. /\ Len(y) = c
      /\ \A n \in 1..c - 1 : y[n] = SubSeq(t, Ordered(B)[n] + 1, Ordered(B)[n + 1] - 1)
  BY <1>0 DEF PiecesAt, c
<1>3. ASSUME NEW n \in 1..c - 1  PROVE  y[n] = x[n]
  <2>1. PICK i \in B, j \in B : i = Ordered(B)[n] /\ j = Ordered(B)[n + 1]
    BY <1>1
  <2>2. x[n] = SubSeq(s, i + 1, j - 1) /\ y[n] = SubSeq(t, i + 1, j - 1)
    BY <1>1, <1>2, <2>1
  <2>. QED
    BY <2>2
<1>4. SamePieces(x, y)
  BY <1>1, <1>2, <1>3 DEF SamePieces
<1>. QED
  BY <1>4 DEF x, y

\* Without its open line a text has the same lines, but for the last.
LEMMA WholeLinesAre ==
  ASSUME NEW T, NEW s \in Seq(T)
  PROVE  LET l == Lines(s)
             w == Lines(WholeLines(s))
         IN  /\ Len(w) = Len(l) /\ Len(l) \in Nat
             /\ \A n \in 1..Len(l) - 1 : w[n] = l[n]
<1> DEFINE ends == {i \in 1..Len(s) : s[i] = Newline}
           g == Greatest(ends)
           w == WholeLines(s)
           B == Cuts(s, {Newline})
           raw == SplitAtAny(s, {Newline})
           rawW == SplitAtAny(w, {Newline})
<1>1. Len(s) \in Nat
  OBVIOUS
<1>2. /\ w \in Seq(T) /\ Cuts(w, {Newline}) = B
      /\ \A i \in B, j \in B : SubSeq(w, i + 1, j - 1) = SubSeq(s, i + 1, j - 1)
  <2>1. CASE ends = {}
    <3>1. w = << >> /\ << >> \in Seq(T)
      BY <2>1 DEF WholeLines
    <3>2. Cuts(w, {Newline}) = {0} /\ B = {0}
      BY <2>1, <3>1 DEF Cuts
    <3>. HIDE DEF w
    <3>3. SubSeq(w, 0 + 1, 0 - 1) = << >> /\ SubSeq(s, 0 + 1, 0 - 1) = << >>
      BY <3>1
    <3>4. \A i \in B, j \in B : i = 0 /\ j = 0
      BY <3>2
    <3>5. \A i \in B, j \in B : SubSeq(w, i + 1, j - 1) = SubSeq(s, i + 1, j - 1)
      BY <3>3, <3>4
    <3>. QED
      BY <3>1, <3>2, <3>5
  <2>2. CASE ends # {}
    <3>1. ends \in SUBSET (0..Len(s))
      BY <1>1
    <3>2. g \in ends /\ \A y \in ends : y <= g
      <4>. HIDE DEF ends
      <4>. QED
        BY <1>1, <2>2, <3>1, GreatestExists
    <3>3. w = SubSeq(s, 1, g) /\ g \in 1..Len(s)
      BY <2>2, <3>2 DEF WholeLines
    <3>4. w \in Seq(T) /\ Len(w) = g /\ \A i \in 1..g : w[i] = s[i]
      <4>. HIDE DEF w, g
      <4>. QED
        BY <1>1, <3>3
    <3>5. {i \in 1..Len(w) : w[i] \in {Newline}} = {i \in 1..Len(s) : s[i] \in {Newline}}
      <4>1. ASSUME NEW i \in 1..Len(w), w[i] = Newline  PROVE  i \in 1..Len(s) /\ s[i] = Newline
        BY <1>1, <3>3, <3>4, <4>1
      <4>2. ASSUME NEW i \in 1..Len(s), s[i] = Newline  PROVE  i \in 1..Len(w) /\ w[i] = Newline
        <5>1. i <= g
          BY <3>2, <4>2
        <5>. QED
          BY <3>3, <3>4, <4>2, <5>1
      <4>. QED
        BY <4>1, <4>2
    <3>6. ASSUME NEW i \in B, NEW j \in B  PROVE  SubSeq(w, i + 1, j - 1) = SubSeq(s, i + 1, j - 1)
      <4>1. i \in 0..g /\ j \in 0..g
        BY <3>2, <3>3 DEF Cuts
      <4>. HIDE DEF w, g
      <4>. QED
        BY <1>1, <3>3, <3>4, <4>1
    <3>. QED
      BY <3>4, <3>5, <3>6 DEF Cuts
  <2>. QED
    BY <2>1, <2>2
<1>. HIDE DEF w
<1>3. PICK Seps : Seps = {Newline}
  OBVIOUS
<1>4. /\ Len(raw) \in Nat /\ Len(rawW) = Len(raw)
      /\ \A n \in 1..Len(raw) - 1 : rawW[n] = raw[n]
  <2>1. PICK C : C = B
    OBVIOUS
  <2>2. C = Cuts(s, Seps) /\ C = Cuts(w, Seps)
        /\ \A i \in C, j \in C : SubSeq(w, i + 1, j - 1) = SubSeq(s, i + 1, j - 1)
    BY <1>2, <1>3, <2>1
  <2>. HIDE DEF B
  <2>3. SamePieces(SplitAtAny(s, Seps), SplitAtAny(w, Seps))
    BY <1>2, <2>2, SplitAgrees
  <2>. QED
    BY <1>3, <2>3 DEF SamePieces
<1>5. /\ Lines(s) = [n \in 1..Len(raw) |-> Trim(raw[n], {Space})]
      /\ Lines(w) = [n \in 1..Len(rawW) |-> Trim(rawW[n], {Space})]
  BY DEF Lines
<1>. HIDE DEF raw, rawW, B
<1>6. Len(Lines(s)) = Len(raw) /\ Len(Lines(w)) = Len(raw) /\ \A n \in 1..Len(raw) - 1 : n \in 1..Len(raw)
  BY <1>4, <1>5
<1>7. \A n \in 1..Len(raw) - 1 : Lines(w)[n] = Lines(s)[n]
  BY <1>4, <1>5, <1>6
<1>. QED
  BY <1>4, <1>6, <1>7 DEF w

\* A line that stands three times stands twice above the open one.
LEMMA DominatingRepeats ==
  ASSUME NEW T, NEW s \in Seq(T), DominatesTail(s, 3)
  PROVE  RepeatedStandaloneLine(WholeLines(s), 2)
<1> DEFINE l == Lines(s)
           w == Lines(WholeLines(s))
<1>1. Len(w) = Len(l) /\ Len(l) \in Nat /\ \A n \in 1..Len(l) - 1 : w[n] = l[n]
  BY WholeLinesAre
<1>2. PICK f \in 1..Len(l) : Standalone(l[f]) /\ Repeats(l, l[f]) >= 3
  BY DEF DominatesTail
<1> DEFINE x == l[f]
           A == {i \in 1..Len(l) : l[i] = x}
           R == {i \in 1..Len(w) : w[i] = x}
<1>. HIDE DEF l, w, x
<1>3. IsFiniteSet(1..Len(l)) /\ IsFiniteSet(1..Len(w))
  BY <1>1, FS_Interval
<1>4. IsFiniteSet(A) /\ IsFiniteSet(R)
  BY <1>3, FS_Subset
<1>5. Cardinality(A) >= 3 /\ Standalone(x)
  BY <1>2 DEF Repeats, x
<1>6. A \ {Len(l)} \in SUBSET R
  <2>1. ASSUME NEW i \in A, i # Len(l)  PROVE  i \in 1..Len(w) /\ w[i] = x
    <3>1. i \in 1..Len(l) - 1
      BY <1>1, <2>1
    <3>. QED
      BY <1>1, <3>1
  <2>. QED
    BY <2>1
<1>7. /\ IsFiniteSet(A \ {Len(l)})
      /\ Cardinality(A \ {Len(l)}) = IF Len(l) \in A THEN Cardinality(A) - 1 ELSE Cardinality(A)
  <2>. HIDE DEF A
  <2>. QED
    BY <1>4, FS_RemoveElement
<1>8. Cardinality(A \ {Len(l)}) <= Cardinality(R) /\ Cardinality(A) \in Nat /\ Cardinality(R) \in Nat
  <2>. HIDE DEF A, R
  <2>. QED
    BY <1>4, <1>6, FS_Subset, FS_CardinalityType
<1>9. Cardinality(R) >= 2
  <2>. HIDE DEF A, R
  <2>. QED
    BY <1>5, <1>7, <1>8
<1>10. PICK i \in R : TRUE
  <2>. HIDE DEF R
  <2>1. Cardinality({}) = 0
    BY FS_EmptySet
  <2>2. R = {} => Cardinality(R) = 0
    BY <2>1
  <2>3. R # {}
    BY <1>9, <2>2
  <2>. QED
    BY <2>3
<1>. QED
  BY <1>5, <1>9, <1>10 DEF RepeatedStandaloneLine, Repeats, w

\* A text the guard lets through as it comes is no flood.
LEMMA UncertainIsNoFlood ==
  ASSUME NEW T, NEW s \in Seq(T), ~Certain(s), ~Forming(s)
  PROVE  ~Strong(s)
BY DominatingRepeats DEF Certain, Forming, Strong

-----------------------------------------------------------------------------
(* The guard's record keeps its types and its bounds.                       *)

GoodGuard(g) ==
  /\ g \in Guard
  /\ Len(g.text) <= MaxBlockText /\ Len(g.held) <= MaxHeld
  /\ g.polluted => g.held = << >>

LEMMA EmptyGuard == GoodGuard(NewGuard)
BY GuardAssumption DEF GoodGuard, NewGuard, Guard, Text

LEMMA PassKeeps ==
  ASSUME NEW g, GoodGuard(g), NEW e \in Event
  PROVE  GoodGuard(Pass(g, e))
BY DEF GoodGuard, Pass, Guard

LEMMA FlushKeeps ==
  ASSUME NEW g, GoodGuard(g)
  PROVE  /\ GoodGuard(FlushHeld(g))
         /\ FlushHeld(g).held = << >>
         /\ FlushHeld(g).text = g.text
<1> DEFINE dropped == [g EXCEPT !.polluted = TRUE, !.held = << >>]
           lifted == [g EXCEPT !.ready = @ \o g.held, !.held = << >>]
<1>1. g \in Guard /\ << >> \in Seq(Event) /\ Len(<< >>) = 0 /\ MaxHeld \in Nat
  BY GuardAssumption DEF GoodGuard
<1>2. g.ready \o g.held \in Seq(Event)
  BY <1>1 DEF Guard
<1>3. dropped \in Guard /\ dropped.held = << >> /\ dropped.text = g.text
  BY <1>1 DEF Guard
<1>4. lifted \in Guard /\ lifted.held = << >> /\ lifted.text = g.text
  BY <1>1, <1>2 DEF Guard
<1>5. FlushHeld(g) \in {dropped, lifted}
  BY DEF FlushHeld
<1>. HIDE DEF dropped, lifted
<1>. QED
  BY <1>1, <1>3, <1>4, <1>5 DEF GoodGuard

LEMMA HoldKeeps ==
  ASSUME NEW g, GoodGuard(g), ~g.polluted, NEW e \in Event
  PROVE  GoodGuard(Hold(g, e))
<1>1. CASE Len(g.held) + 1 > MaxHeld
  <2> DEFINE f == FlushHeld(g)
             h == [f EXCEPT !.guarding = FALSE]
  <2>1. GoodGuard(f)
    BY FlushKeeps
  <2>2. GoodGuard(h)
    <3>. HIDE DEF f
    <3>. QED  BY <2>1 DEF GoodGuard, Guard
  <2>3. GoodGuard(Pass(h, e))
    <3>. HIDE DEF h
    <3>. QED  BY <2>2, PassKeeps
  <2>. QED
    BY <1>1, <2>3 DEF Hold
<1>2. CASE ~(Len(g.held) + 1 > MaxHeld)
  <2>1. /\ Append(g.held, e) \in Seq(Event)
        /\ Len(Append(g.held, e)) = Len(g.held) + 1
        /\ Len(g.held) \in Nat
    BY DEF GoodGuard, Guard
  <2>2. Len(Append(g.held, e)) <= MaxHeld
    BY <1>2, <2>1, GuardAssumption
  <2>. QED
    BY <1>2, <2>1, <2>2 DEF Hold, GoodGuard, Guard
<1>. QED
  BY <1>1, <1>2

LEMMA BoundaryKeeps ==
  ASSUME NEW g, GoodGuard(g), NEW type
  PROVE  GoodGuard(Boundary(g, type))
<1>1. MaxBlockText \in Nat /\ MaxHeld \in Nat /\ << >> \in Seq(Event) /\ << >> \in Text /\ Len(<< >>) = 0
  BY GuardAssumption DEF Text
<1> DEFINE f == FlushHeld(g)
           h == IF g.polluted THEN g ELSE f
<1>2. GoodGuard(f) /\ f.held = << >>
  BY FlushKeeps
<1>3. GoodGuard(h)
  BY <1>2
<1>4. CASE type = "content_block_start"
  <2> DEFINE new == [f EXCEPT !.text = << >>, !.guarding = TRUE, !.polluted = FALSE]
  <2>1. Boundary(g, type) = new
    BY <1>4 DEF Boundary
  <2>2. new \in Guard /\ new.text = << >> /\ new.held = << >>
    <3>. HIDE DEF f
    <3>. QED  BY <1>1, <1>2 DEF GoodGuard, Guard
  <2>. HIDE DEF new
  <2>. QED
    BY <1>1, <2>1, <2>2 DEF GoodGuard
<1>5. CASE type = "content_block_stop"
  <2> DEFINE new == [h EXCEPT !.held = << >>, !.text = << >>, !.guarding = FALSE, !.polluted = FALSE]
  <2>1. Boundary(g, type) = new
    BY <1>5 DEF Boundary
  <2>2. new \in Guard /\ new.text = << >> /\ new.held = << >>
    <3>. HIDE DEF h
    <3>. QED  BY <1>1, <1>3 DEF GoodGuard, Guard
  <2>. HIDE DEF new
  <2>. QED
    BY <1>1, <2>1, <2>2 DEF GoodGuard
<1>6. CASE type \notin {"content_block_start", "content_block_stop"}
  BY <1>6 DEF Boundary
<1>. QED
  BY <1>4, <1>5, <1>6

LEMMA OtherKeeps ==
  ASSUME NEW g, GoodGuard(g), NEW e \in Event
  PROVE  GoodGuard(ConsumeOther(g, e))
<1> DEFINE f == IF g.polluted THEN g ELSE FlushHeld(g)
<1>1. GoodGuard(f)
  BY FlushKeeps
<1>2. GoodGuard(Pass(f, e))
  <2>. HIDE DEF f
  <2>. QED  BY <1>1, PassKeeps
<1>3. CASE g.held # << >> /\ TypeSeen(e) \in {"", "ping"}
  <2>1. ~g.polluted
    BY <1>3 DEF GoodGuard
  <2>. QED
    BY <1>3, <2>1, HoldKeeps DEF ConsumeOther
<1>4. CASE ~(g.held # << >> /\ TypeSeen(e) \in {"", "ping"})
  BY <1>2, <1>4 DEF ConsumeOther
<1>. QED
  BY <1>3, <1>4

LEMMA TextKeeps ==
  ASSUME NEW g, GoodGuard(g), NEW e \in Event, TextOf(e) \in Text
  PROVE  GoodGuard(ConsumeText(g, e))
<1> DEFINE grown == [g EXCEPT !.text = @ \o TextOf(e)]
           full == StripCode(grown.text)
           lifted == FlushHeld(grown)
           flushed == FlushHeld(g)
           over == [flushed EXCEPT !.guarding = FALSE]
           dirty == [grown EXCEPT !.held = << >>, !.polluted = TRUE]
<1>1. GoodGuard(over)
  <2>1. GoodGuard(flushed)
    BY FlushKeeps
  <2>. HIDE DEF flushed
  <2>. QED  BY <2>1 DEF GoodGuard, Guard
<1>2. CASE g.polluted
  BY <1>2 DEF ConsumeText
<1>3. CASE ~g.polluted /\ Len(grown.text) > MaxBlockText
  <2>1. GoodGuard(Pass(over, e))
    <3>. HIDE DEF over
    <3>. QED  BY <1>1, PassKeeps
  <2>. QED
    BY <1>3, <2>1 DEF ConsumeText
<1>4. CASE ~g.polluted /\ ~(Len(grown.text) > MaxBlockText)
  <2>1. grown \in Guard /\ Len(grown.text) <= MaxBlockText
    <3>1. grown.text = g.text \o TextOf(e) /\ g.text \o TextOf(e) \in Text
      BY DEF GoodGuard, Guard, Text
    <3>2. Len(grown.text) \in Nat /\ MaxBlockText \in Nat
      BY <3>1, GuardAssumption DEF Text
    <3>3. grown \in Guard
      BY <3>1 DEF GoodGuard, Guard
    <3>. QED  BY <1>4, <3>2, <3>3
  <2>2. grown.held = g.held /\ grown.polluted = g.polluted
    BY DEF GoodGuard, Guard
  <2>3. GoodGuard(grown) /\ ~grown.polluted
    <3>. HIDE DEF grown
    <3>. QED  BY <1>4, <2>1, <2>2 DEF GoodGuard
  <2>4. GoodGuard(dirty)
    <3>1. << >> \in Seq(Event) /\ Len(<< >>) = 0 /\ MaxHeld \in Nat
      BY GuardAssumption
    <3>2. dirty \in Guard /\ dirty.held = << >> /\ dirty.text = grown.text
      <4>. HIDE DEF grown
      <4>. QED  BY <2>3, <3>1 DEF GoodGuard, Guard
    <3>. HIDE DEF grown, dirty
    <3>. QED  BY <2>3, <3>1, <3>2 DEF GoodGuard
  <2>5. GoodGuard(Hold(grown, e)) /\ GoodGuard(lifted)
    <3>. HIDE DEF grown
    <3>. QED  BY <2>3, HoldKeeps, FlushKeeps
  <2>6. GoodGuard(Pass(lifted, e))
    <3>. HIDE DEF lifted
    <3>. QED  BY <2>5, PassKeeps
  <2>7. ConsumeText(g, e) \in {dirty, Hold(grown, e), lifted, Pass(lifted, e)}
    BY <1>4 DEF ConsumeText
  <2>. HIDE DEF grown, lifted, dirty
  <2>. QED
    BY <2>4, <2>5, <2>6, <2>7
<1>. QED
  BY <1>2, <1>3, <1>4

LEMMA ConsumeKeeps ==
  ASSUME NEW g, GoodGuard(g), NEW e \in Event, IsText(e) => TextOf(e) \in Text
  PROVE  GoodGuard(Consume(g, e))
<1> DEFINE b == Boundary(g, TypeSeen(e))
<1>1. GoodGuard(b)
  BY BoundaryKeeps
<1>2. IsText(e) => GoodGuard(ConsumeText(b, e))
  <2>. HIDE DEF b
  <2>. QED  BY <1>1, TextKeeps
<1>3. GoodGuard(ConsumeOther(b, e))
  <2>. HIDE DEF b
  <2>. QED  BY <1>1, OtherKeeps
<1>. QED
  BY <1>2, <1>3 DEF Consume

\* Numbering an event changes nothing the guard reads.
LEMMA NumberedIsEvent ==
  ASSUME NEW m \in Modes, NEW e \in Offers(m), NEW n \in Nat
  PROVE  LET f == [e EXCEPT !.at = n]
         IN  f \in Event /\ (IsText(f) => TextOf(f) \in Text)
<1> DEFINE f == [e EXCEPT !.at = n]
<1>1. e \in Event /\ (IsText(e) => Len(e.parts) = 1)
  BY StreamAssumption
<1>2. f \in Event /\ f.parts = e.parts /\ f.type = e.type
  BY <1>1 DEF Event
<1>3. ASSUME IsText(f)  PROVE  TextOf(f) \in Text
  <2>1. IsText(e)
    BY <1>2, <1>3 DEF IsText
  <2>2. e.parts \in Seq(Part) /\ Len(e.parts) = 1
    BY <1>1, <2>1 DEF Event
  <2>3. e.parts[1] \in Part
    BY <2>2
  <2>. HIDE DEF f
  <2>. QED
    BY <1>2, <2>3 DEF TextOf, Part
<1>. HIDE DEF f
<1>. QED
  BY <1>2, <1>3 DEF f

-----------------------------------------------------------------------------
(* The templates.                                                          *)

\* What a slot's template must be.
BareTemplate(t, i) ==
  /\ t.own \in 1..Len(t.event.parts) /\ t.event.parts[t.own].idx = i
  /\ \A k \in 1..Len(t.event.parts) : t.event.parts[k].text = << >> /\ t.event.parts[k].kind # "sink"

LEMMA TemplateIsBare ==
  ASSUME NEW e \in Event, NEW k \in 1..Len(e.parts)
  PROVE  BareTemplate(SaveTemplate(e, k), e.parts[k].idx)
<1> DEFINE b == Blank(e)
<1>1. e.parts \in Seq(Part) /\ Len(e.parts) \in Nat
  <2>1. e.parts \in Seq(Part)
    BY DEF Event
  <2>. QED  BY <2>1
<1> DEFINE new == [j \in 1..Len(e.parts) |->
                     IF j \in Displayed(e) THEN [e.parts[j] EXCEPT !.text = << >>]
                                           ELSE [e.parts[j] EXCEPT !.text = << >>, !.kind = "gone"]]
<1>2. b.parts = new
  <2>1. b = [e EXCEPT !.parts = new]
    BY DEF Blank
  <2>. HIDE DEF new, b
  <2>. QED  BY <2>1 DEF Event
<1>3. Len(new) = Len(e.parts)
  BY <1>1
<1>4. \A j \in 1..Len(e.parts) : /\ new[j].text = << >> /\ new[j].kind # "sink"
                                 /\ new[j].idx = e.parts[j].idx
  <2>1. TAKE j \in 1..Len(e.parts)
  <2>2. e.parts[j] \in Part
    BY <1>1
  <2>. QED
    BY <2>2 DEF Part, Displayed
<1>5. SaveTemplate(e, k).event = b /\ SaveTemplate(e, k).own = k
  BY DEF SaveTemplate
<1>. HIDE DEF b, new
<1>. QED
  BY <1>2, <1>3, <1>4, <1>5 DEF BareTemplate

LEMMA BareAre == TemplatesAreBare <=> DOMAIN tmpl = DOMAIN pending /\ \A i \in DOMAIN tmpl : BareTemplate(tmpl[i], i)
BY DEF TemplatesAreBare, BareTemplate

\* An event taken from what the guard let through keeps every template bare.
LEMMA TakeKeepsBare ==
  ASSUME TemplatesAreBare, NEW e \in Event, TakePlain(e) \/ TakeStop(e) \/ TakeDelta(e)
  PROVE  TemplatesAreBare'
<1>1. DOMAIN tmpl = DOMAIN pending /\ \A i \in DOMAIN tmpl : BareTemplate(tmpl[i], i)
  BY BareAre
<1>2. SUFFICES DOMAIN tmpl' = DOMAIN pending' /\ \A i \in DOMAIN tmpl' : BareTemplate(tmpl'[i], i)
  BY DEF TemplatesAreBare, BareTemplate
<1>3. CASE TakePlain(e)
  BY <1>3 DEF TakePlain
<1>4. CASE TakeStop(e)
  BY <1>1, <1>4 DEF TakeStop, Without
<1>5. CASE TakeDelta(e)
  <2> DEFINE claimed == {k \in 1..Len(e.parts) : Claims(e, k)}
             claimant(i) == CHOOSE k \in claimed : e.parts[k].idx = i
             heldBack == {e.parts[k].idx : k \in {j \in claimed : Carry(e, j) # << >>}}
             taking == {e.parts[k].idx : k \in claimed}
  <2>1. /\ pending' = [i \in (DOMAIN pending \ taking) \cup heldBack |->
                         IF i \in heldBack THEN Carry(e, claimant(i)) ELSE pending[i]]
        /\ tmpl' = [i \in (DOMAIN tmpl \ taking) \cup heldBack |->
                      IF i \in heldBack THEN SaveTemplate(e, claimant(i)) ELSE tmpl[i]]
    BY <1>5 DEF TakeDelta
  <2>2. ASSUME NEW i \in heldBack  PROVE  BareTemplate(SaveTemplate(e, claimant(i)), i)
    <3>1. \E k \in claimed : e.parts[k].idx = i
      OBVIOUS
    <3>2. claimant(i) \in claimed /\ e.parts[claimant(i)].idx = i
      BY <3>1
    <3>. QED
      BY <3>2, TemplateIsBare
  <2>. HIDE DEF heldBack, taking, claimant
  <2>3. \A i \in DOMAIN tmpl' : BareTemplate(tmpl'[i], i)
    BY <1>1, <2>1, <2>2
  <2>4. DOMAIN tmpl' = DOMAIN pending'
    BY <1>1, <2>1
  <2>. QED
    BY <2>3, <2>4
<1>. QED
  BY <1>3, <1>4, <1>5

-----------------------------------------------------------------------------
(* What the restorer writes.                                               *)

HeldOK == RestorerTypeOK /\ TemplatesAreBare /\ IsFiniteSet(DOMAIN pending)

LEMMA PartsOfEvent ==
  ASSUME NEW e \in Event
  PROVE  /\ e.parts \in Seq(Part) /\ Len(e.parts) \in Nat /\ DOMAIN e.parts = 1..Len(e.parts)
         /\ \A k \in 1..Len(e.parts) : e.parts[k] \in Part /\ e.parts[k].idx \in Slot
                                       /\ e.parts[k].text \in Text
<1>1. e.parts \in Seq(Part)
  BY DEF Event
<1>2. \A k \in 1..Len(e.parts) : e.parts[k] \in Part
  BY <1>1
<1>. QED
  BY <1>1, <1>2 DEF Part

LEMMA ShownIsText ==
  ASSUME RestorerTypeOK, NEW e \in Event, NEW k \in 1..Len(e.parts)
  PROVE  Shown(e, k) \in Text /\ Carry(e, k) \in Text
<1> DEFINE i == e.parts[k].idx
           before == IF i \in DOMAIN pending THEN pending[i] ELSE << >>
           c == Combined(e, k)
<1>1. e.parts[k].text \in Text
  BY PartsOfEvent
<1>2. before \in Text
  BY DEF RestorerTypeOK, Text
<1>3. before \o e.parts[k].text \in Text
  <2>. HIDE DEF before
  <2>. QED
    BY <1>1, <1>2, ConcatProperties DEF Text
<1>4. c \in Text
  BY <1>3, RestoredIsText DEF Combined
<1>. HIDE DEF c
<1>5. PartialAtTail(c) \in 0..Len(c) /\ Len(c) \in Nat
  BY <1>4, TailIsShort DEF Text
<1>6. SubSeq(c, 1, PartialAtTail(c)) \in Text /\ SubSeq(c, PartialAtTail(c) + 1, Len(c)) \in Text
  BY <1>4, <1>5 DEF Text
<1>7. RestoreInText(e.parts[k].text) \in Text
  BY <1>1, RestoredIsText
<1>. QED
  BY <1>1, <1>6, <1>7 DEF Shown, Carry, Cut, c

\* What replaces the text of an event's parts leaves its sinks alone.
LEMMA SinksStay ==
  ASSUME NEW e \in Event, NEW texts,
         \A k \in 1..Len(e.parts) : texts[k] \in Text
                                    /\ (e.parts[k].kind = "sink" => texts[k] = e.parts[k].text)
  PROVE  LET f == [e EXCEPT !.parts = [k \in 1..Len(e.parts) |-> [e.parts[k] EXCEPT !.text = texts[k]]]]
         IN  f \in Event /\ SinksOf(f) = SinksOf(e)
<1> DEFINE new == [k \in 1..Len(e.parts) |-> [e.parts[k] EXCEPT !.text = texts[k]]]
           f == [e EXCEPT !.parts = new]
           S == {k \in DOMAIN e.parts : e.parts[k].kind = "sink"}
<1>1. ASSUME NEW k \in 1..Len(e.parts)
      PROVE  /\ new[k] \in Part /\ new[k].kind = e.parts[k].kind
             /\ e.parts[k].kind = "sink" => new[k] = e.parts[k]
  <2>1. e.parts[k] \in Part /\ texts[k] \in Text
    BY PartsOfEvent
  <2>2. new[k] = [e.parts[k] EXCEPT !.text = texts[k]]
    OBVIOUS
  <2>. QED
    BY <2>1, <2>2 DEF Part
<1>2. DOMAIN new = 1..Len(e.parts) /\ DOMAIN e.parts = 1..Len(e.parts) /\ Len(e.parts) \in Nat
  BY PartsOfEvent
<1>3. new \in Seq(Part)
  <2>1. new = [k \in 1..Len(e.parts) |-> new[k]]
    OBVIOUS
  <2>. HIDE DEF new
  <2>2. new \in [1..Len(e.parts) -> Part]
    BY <1>1, <2>1
  <2>. QED
    BY <1>2, <2>2
<1>. HIDE DEF new
<1>4. f \in Event /\ f.parts = new
  BY <1>3 DEF Event
<1>. HIDE DEF f
<1>5. {k \in DOMAIN f.parts : f.parts[k].kind = "sink"} = S
  BY <1>1, <1>2, <1>4
<1>6. IsFiniteSet(S) /\ S \in SUBSET Int
  <2>1. S \in SUBSET (DOMAIN e.parts) /\ e.parts \in Seq(Part)
    BY PartsOfEvent
  <2>. HIDE DEF S
  <2>. QED
    BY <2>1, AtPositionsIs
<1>7. AtPositions(f.parts, S) = AtPositions(e.parts, S)
  <2>1. \A k \in S : f.parts[k] = e.parts[k]
    BY <1>1, <1>2, <1>4
  <2>. HIDE DEF S
  <2>. QED
    BY <1>6, <2>1, AtPositionsAgree
<1>. QED
  BY <1>4, <1>5, <1>7 DEF SinksOf, f, new

LEMMA FlushIsBare ==
  ASSUME HeldOK, NEW i \in DOMAIN pending
  PROVE  FlushEvent(i) \in Event /\ SinksOf(FlushEvent(i)) = << >>
<1> DEFINE t == tmpl[i]
           e == t.event
           texts == [k \in 1..Len(e.parts) |-> IF k = t.own THEN pending[i] ELSE e.parts[k].text]
           new == [k \in 1..Len(e.parts) |-> [e.parts[k] EXCEPT !.text = texts[k]]]
<1>1. t \in Template /\ BareTemplate(t, i) /\ pending[i] \in Text
  BY BareAre DEF HeldOK, RestorerTypeOK
<1>2. e \in Event /\ t.own \in 1..Len(e.parts)
  BY <1>1 DEF Template, BareTemplate
<1>3. e.parts \in Seq(Part) /\ Len(e.parts) \in Nat /\ DOMAIN e.parts = 1..Len(e.parts)
      /\ \A k \in 1..Len(e.parts) : e.parts[k] \in Part /\ e.parts[k].text \in Text
  BY <1>2, PartsOfEvent
<1>4. FlushEvent(i) = [e EXCEPT !.parts = new]
  <2>1. FlushEvent(i) = [e EXCEPT !.parts = [e.parts EXCEPT ![t.own] = [e.parts[t.own] EXCEPT !.text = pending[i]]]]
    BY DEF FlushEvent
  <2> DEFINE old == [e.parts EXCEPT ![t.own] = [e.parts[t.own] EXCEPT !.text = pending[i]]]
  <2>2. ASSUME NEW k \in 1..Len(e.parts)  PROVE  old[k] = new[k]
    <3>1. e.parts[k] \in Part
      BY <1>3
    <3>2. new[k] = [e.parts[k] EXCEPT !.text = texts[k]]
      OBVIOUS
    <3>3. CASE k = t.own
      BY <1>2, <1>3, <3>2, <3>3
    <3>4. CASE k # t.own
      <4>1. old[k] = e.parts[k]
        BY <1>3, <3>4
      <4>2. texts[k] = e.parts[k].text
        BY <3>4
      <4>. HIDE DEF texts, new, old
      <4>3. [e.parts[k] EXCEPT !.text = e.parts[k].text] = e.parts[k]
        BY <3>1 DEF Part
      <4>. QED
        BY <3>2, <4>1, <4>2, <4>3
    <3>. QED
      BY <3>3, <3>4
  <2>3. old \in [1..Len(e.parts) -> Part \cup {[e.parts[t.own] EXCEPT !.text = pending[i]]}]
    BY <1>2, <1>3
  <2>4. DOMAIN old = 1..Len(e.parts) /\ DOMAIN new = 1..Len(e.parts)
    BY <1>3
  <2>5. old = new
    <3>1. old = [k \in 1..Len(e.parts) |-> old[k]]
      BY <2>3
    <3>2. new = [k \in 1..Len(e.parts) |-> new[k]]
      OBVIOUS
    <3>. HIDE DEF old, new
    <3>. QED
      BY <2>2, <3>1, <3>2
  <2>. QED
    BY <2>1, <2>5
<1>5. \A k \in 1..Len(e.parts) : e.parts[k].kind # "sink"
  BY <1>1 DEF BareTemplate
<1>6. \A k \in 1..Len(e.parts) : texts[k] \in Text
  BY <1>1, <1>3
<1>. HIDE DEF texts
<1>7. FlushEvent(i) \in Event /\ SinksOf(FlushEvent(i)) = SinksOf(e)
  <2>1. \A k \in 1..Len(e.parts) : texts[k] \in Text
                                   /\ (e.parts[k].kind = "sink" => texts[k] = e.parts[k].text)
    BY <1>5, <1>6
  <2>2. [e EXCEPT !.parts = new] \in Event /\ SinksOf([e EXCEPT !.parts = new]) = SinksOf(e)
    <3>. HIDE DEF e
    <3>. QED
      BY <1>2, <2>1, SinksStay
  <2>. QED
    BY <1>4, <2>2
<1>8. SinksOf(e) = << >>
  <2>1. {k \in DOMAIN e.parts : e.parts[k].kind = "sink"} = {}
    BY <1>3, <1>5
  <2>. QED
    BY <2>1, AtNoPositions DEF SinksOf
<1>. QED
  BY <1>7, <1>8

LEMMA FlushAllIsBare ==
  ASSUME HeldOK
  PROVE  FlushAll \in Seq(Event) /\ \A n \in 1..Len(FlushAll) : SinksOf(FlushAll[n]) = << >>
<1> DEFINE S == DOMAIN pending
           c == Cardinality(S)
<1>1. S \in SUBSET Int /\ IsFiniteSet(S)
  BY SlotAssumption DEF HeldOK, RestorerTypeOK
<1>. HIDE DEF S
<1>2. c \in Nat /\ Len(Ordered(S)) = c /\ \A n \in 1..c : Ordered(S)[n] \in S
  BY <1>1, OrderedIs, FS_CardinalityType
<1>3. FlushAll = [n \in 1..c |-> FlushEvent(Ordered(S)[n])]
  BY <1>2 DEF FlushAll, S
<1>4. \A n \in 1..c : FlushEvent(Ordered(S)[n]) \in Event /\ SinksOf(FlushEvent(Ordered(S)[n])) = << >>
  BY <1>2, FlushIsBare DEF S
<1>. HIDE DEF c
<1>. QED
  BY <1>2, <1>3, <1>4

-----------------------------------------------------------------------------
(* The sinks of several events.                                            *)

LEMMA SinksOfIs ==
  ASSUME NEW e \in Event  PROVE  SinksOf(e) \in Seq(Part)
<1> DEFINE S == {k \in DOMAIN e.parts : e.parts[k].kind = "sink"}
<1>1. S \in SUBSET (DOMAIN e.parts) /\ e.parts \in Seq(Part)
  BY PartsOfEvent
<1>. HIDE DEF S
<1>2. AtPositions(e.parts, S) \in Seq(Part)
  BY <1>1, AtPositionsIs
<1>. QED
  BY <1>2 DEF SinksOf, S

LEMMA SinksOfConcat ==
  ASSUME NEW a \in Seq(Event), NEW b \in Seq(Event)
  PROVE  Sinks(a \o b) = Sinks(a) \o Sinks(b)
<1> DEFINE each(s) == [n \in 1..Len(s) |-> SinksOf(s[n])]
<1>1. ASSUME NEW s \in Seq(Event)  PROVE  each(s) \in Seq(Seq(Part)) /\ Len(each(s)) = Len(s)
  <2>1. Len(s) \in Nat /\ \A n \in 1..Len(s) : SinksOf(s[n]) \in Seq(Part)
    BY SinksOfIs
  <2>. QED
    BY <2>1
<1>2. /\ a \o b \in Seq(Event) /\ Len(a \o b) = Len(a) + Len(b) /\ Len(a) \in Nat /\ Len(b) \in Nat
      /\ \A n \in 1..Len(a) + Len(b) : (a \o b)[n] = IF n <= Len(a) THEN a[n] ELSE b[n - Len(a)]
  BY ConcatProperties
<1>3. each(a \o b) = each(a) \o each(b)
  <2> DEFINE U == Seq(Part)
             l == each(a \o b)
             r == each(a) \o each(b)
  <2>1. /\ r \in Seq(U) /\ Len(r) = Len(a) + Len(b)
        /\ \A n \in 1..Len(a) + Len(b) : r[n] = IF n <= Len(a) THEN each(a)[n] ELSE each(b)[n - Len(a)]
    <3>1. each(a) \in Seq(U) /\ Len(each(a)) = Len(a) /\ each(b) \in Seq(U) /\ Len(each(b)) = Len(b)
      BY <1>1
    <3> DEFINE x == each(a)
               y == each(b)
    <3>2. x \in Seq(U) /\ Len(x) = Len(a) /\ y \in Seq(U) /\ Len(y) = Len(b)
      BY <3>1
    <3>. HIDE DEF x, y, U
    <3>3. /\ x \o y \in Seq(U) /\ Len(x \o y) = Len(x) + Len(y)
          /\ \A n \in 1..Len(x) + Len(y) : (x \o y)[n] = IF n <= Len(x) THEN x[n] ELSE y[n - Len(x)]
      BY <3>2, ConcatProperties
    <3>. QED
      BY <3>2, <3>3 DEF x, y
  <2>2. l \in Seq(U) /\ Len(l) = Len(a) + Len(b)
    BY <1>1, <1>2
  <2>3. ASSUME NEW n \in 1..Len(a) + Len(b)  PROVE  l[n] = r[n]
    <3>1. l[n] = SinksOf((a \o b)[n])
      BY <1>2
    <3>2. CASE n <= Len(a)
      <4>1. n \in 1..Len(a) /\ (a \o b)[n] = a[n] /\ r[n] = each(a)[n]
        BY <1>2, <2>1, <3>2
      <4>. QED
        BY <3>1, <4>1
    <3>3. CASE ~(n <= Len(a))
      <4>1. n - Len(a) \in 1..Len(b) /\ (a \o b)[n] = b[n - Len(a)] /\ r[n] = each(b)[n - Len(a)]
        BY <1>2, <2>1, <3>3
      <4>. QED
        BY <3>1, <4>1
    <3>. QED
      BY <3>2, <3>3
  <2>. HIDE DEF l, r, U
  <2>4. l = r
    BY <2>1, <2>2, <2>3, SeqEqual
  <2>. QED
    BY <2>4 DEF l, r
<1>4. Joined(each(a) \o each(b)) = Joined(each(a)) \o Joined(each(b))
  <2>. HIDE DEF each
  <2>. QED
    BY <1>1, JoinedOfConcat
<1>. QED
  BY <1>3, <1>4 DEF Sinks

LEMMA SinksOfOne ==
  ASSUME NEW e \in Event  PROVE  Sinks(<<e>>) = SinksOf(e)
<1> DEFINE s == SinksOf(e)
<1>1. s \in Seq(Part)
  BY SinksOfIs
<1>. HIDE DEF s
<1>2. << >> \in Seq(Seq(Part)) /\ Append(<< >>, s) = <<s>> /\ << >> \o s = s
  BY <1>1, ConcatEmptySeq
<1>3. Joined(<<s>>) = s
  BY <1>1, <1>2, JoinedOfAppend, JoinedOfNothing
<1>4. [n \in 1..Len(<<e>>) |-> SinksOf(<<e>>[n])] = <<s>>
  BY DEF s
<1>. QED
  BY <1>3, <1>4 DEF Sinks, s

LEMMA SinksOfBare ==
  ASSUME NEW a \in Seq(Event), \A n \in 1..Len(a) : SinksOf(a[n]) = << >>
  PROVE  Sinks(a) = << >>
<1> DEFINE each == [n \in 1..Len(a) |-> SinksOf(a[n])]
<1>1. each \in Seq({<< >>})
  <2>1. Len(a) \in Nat
    OBVIOUS
  <2>. QED
    BY <2>1
<1>. QED
  BY <1>1, JoinedOfEmpties DEF Sinks

-----------------------------------------------------------------------------
(* The steps of the restorer.                                              *)

\* What is written for one event: events, with its sinks and no others.
Writes(e) == \E more \in Seq(Event) : out' = out \o more /\ Sinks(more) = SinksOf(e)

LEMMA BlankIsEvent ==
  ASSUME NEW e \in Event, NEW k \in 1..Len(e.parts)
  PROVE  SaveTemplate(e, k) \in Template
<1> DEFINE new == [j \in 1..Len(e.parts) |->
                     IF j \in Displayed(e) THEN [e.parts[j] EXCEPT !.text = << >>]
                                           ELSE [e.parts[j] EXCEPT !.text = << >>, !.kind = "gone"]]
<1>1. \A j \in 1..Len(e.parts) : new[j] \in Part
  <2>1. TAKE j \in 1..Len(e.parts)
  <2>2. e.parts[j] \in Part /\ << >> \in Text
    BY PartsOfEvent DEF Text
  <2>. QED
    BY <2>2 DEF Part
<1>2. new = [j \in 1..Len(e.parts) |-> new[j]]
  OBVIOUS
<1>3. Blank(e) = [e EXCEPT !.parts = new]
  BY DEF Blank
<1>. HIDE DEF new
<1>4. new \in Seq(Part)
  <2>1. new \in [1..Len(e.parts) -> Part] /\ Len(e.parts) \in Nat
    BY <1>1, <1>2, PartsOfEvent
  <2>. QED
    BY <2>1
<1>5. Blank(e) \in Event
  BY <1>3, <1>4 DEF Event
<1>6. k \in Nat \ {0}
  BY PartsOfEvent
<1>. QED
  BY <1>5, <1>6 DEF SaveTemplate, Template

LEMMA PlainWrites ==
  ASSUME HeldOK, NEW e \in Event, TakePlain(e)
  PROVE  Writes(e) /\ pending' = << >> /\ tmpl' = << >>
<1> DEFINE f == [e EXCEPT !.raw = RestoreInText(e.raw)]
<1>1. f \in Event /\ SinksOf(f) = SinksOf(e)
  <2>1. RestoreInText(e.raw) \in Text
    BY RestoredIsText DEF Event
  <2>2. f \in Event /\ f.parts = e.parts
    BY <2>1 DEF Event
  <2>. QED
    BY <2>2 DEF SinksOf
<1>. HIDE DEF f
<1>2. FlushAll \in Seq(Event) /\ Sinks(FlushAll) = << >>
  BY FlushAllIsBare, SinksOfBare
<1>3. <<f>> \in Seq(Event) /\ Sinks(<<f>>) = SinksOf(e) /\ SinksOf(e) \in Seq(Part)
  BY <1>1, SinksOfOne, SinksOfIs
<1>4. FlushAll \o <<f>> \in Seq(Event) /\ Sinks(FlushAll \o <<f>>) = SinksOf(e)
  <2>1. FlushAll \o <<f>> \in Seq(Event)
    BY <1>2, <1>3, ConcatProperties
  <2>2. Sinks(FlushAll \o <<f>>) = << >> \o SinksOf(e)
    BY <1>2, <1>3, SinksOfConcat
  <2>. QED
    BY <1>3, <2>1, <2>2, ConcatEmptySeq
<1>5. out' = (out \o FlushAll) \o <<f>> /\ pending' = << >> /\ tmpl' = << >>
  BY DEF TakePlain, f
<1>6. out' = out \o (FlushAll \o <<f>>)
  BY <1>2, <1>3, <1>5, ConcatAssociative DEF HeldOK, RestorerTypeOK
<1>. QED
  BY <1>4, <1>5, <1>6 DEF Writes

LEMMA StopWrites ==
  ASSUME HeldOK, NEW e \in Event, TakeStop(e)
  PROVE  Writes(e)
<1>1. <<e>> \in Seq(Event) /\ Sinks(<<e>>) = SinksOf(e) /\ SinksOf(e) \in Seq(Part)
  BY SinksOfOne, SinksOfIs
<1>2. CASE e.index \in DOMAIN pending
  <2> DEFINE f == FlushEvent(e.index)
  <2>1. f \in Event /\ SinksOf(f) = << >>
    BY <1>2, FlushIsBare
  <2>. HIDE DEF f
  <2>2. <<f>> \in Seq(Event) /\ Sinks(<<f>>) = << >> /\ <<f, e>> = <<f>> \o <<e>>
    BY <2>1, SinksOfOne
  <2>3. <<f, e>> \in Seq(Event) /\ Sinks(<<f, e>>) = << >> \o SinksOf(e)
    <3>1. <<f>> \o <<e>> \in Seq(Event)
      BY <1>1, <2>2, ConcatProperties
    <3>2. Sinks(<<f>> \o <<e>>) = Sinks(<<f>>) \o Sinks(<<e>>)
      BY <1>1, <2>2, SinksOfConcat
    <3>. QED
      BY <1>1, <2>2, <3>1, <3>2
  <2>4. Sinks(<<f, e>>) = SinksOf(e)
    BY <1>1, <2>3, ConcatEmptySeq
  <2>5. out' = out \o <<f, e>>
    BY <1>2 DEF TakeStop, f
  <2>. QED
    BY <2>3, <2>4, <2>5 DEF Writes
<1>3. CASE e.index \notin DOMAIN pending
  <2>1. out' = out \o <<e>>
    BY <1>3 DEF TakeStop
  <2>. QED
    BY <1>1, <2>1 DEF Writes
<1>. QED
  BY <1>2, <1>3

LEMMA DeltaWrites ==
  ASSUME HeldOK, NEW e \in Event, TakeDelta(e)
  PROVE  Writes(e)
<1> DEFINE texts == [k \in 1..Len(e.parts) |-> Shown(e, k)]
           new == [k \in 1..Len(e.parts) |-> [e.parts[k] EXCEPT !.text = texts[k]]]
           f == [e EXCEPT !.parts = new]
<1>1. ASSUME NEW k \in 1..Len(e.parts)
      PROVE  texts[k] \in Text /\ (e.parts[k].kind = "sink" => texts[k] = e.parts[k].text)
  <2>1. texts[k] = Shown(e, k) /\ Shown(e, k) \in Text
    BY ShownIsText DEF HeldOK
  <2>2. e.parts[k].kind = "sink" => Shown(e, k) = e.parts[k].text
    BY DEF Shown, Displayed
  <2>. QED
    BY <2>1, <2>2
<1>2. out' = Append(out, f)
  <2>1. out' = Append(out, [e EXCEPT !.parts =
                              [k \in 1..Len(e.parts) |-> [e.parts[k] EXCEPT !.text = Shown(e, k)]]])
    BY DEF TakeDelta
  <2>2. \A k \in 1..Len(e.parts) : texts[k] = Shown(e, k)
    OBVIOUS
  <2>. HIDE DEF texts
  <2>3. new = [k \in 1..Len(e.parts) |-> [e.parts[k] EXCEPT !.text = Shown(e, k)]]
    BY <2>2
  <2>. QED
    BY <2>1, <2>3
<1>. HIDE DEF texts
<1>3. f \in Event /\ SinksOf(f) = SinksOf(e)
  BY <1>1, SinksStay
<1>. HIDE DEF f
<1>4. out' = out \o <<f>>
  BY <1>2, <1>3, AppendIsConcat DEF HeldOK, RestorerTypeOK
<1>5. <<f>> \in Seq(Event) /\ Sinks(<<f>>) = SinksOf(e)
  BY <1>3, SinksOfOne
<1>. QED
  BY <1>4, <1>5 DEF Writes

\* What is held back after an event is a text for each of some slots.
LEMMA DeltaHolds ==
  ASSUME HeldOK, NEW e \in Event, TakeDelta(e)
  PROVE  /\ DOMAIN pending' \subseteq Slot /\ IsFiniteSet(DOMAIN pending')
         /\ \A i \in DOMAIN pending' : pending'[i] \in Text \ {<< >>}
         /\ DOMAIN tmpl' \subseteq Slot /\ \A i \in DOMAIN tmpl' : tmpl'[i] \in Template
<1> DEFINE claimed == {k \in 1..Len(e.parts) : Claims(e, k)}
           claimant(i) == CHOOSE k \in claimed : e.parts[k].idx = i
           tails == {k \in claimed : Carry(e, k) # << >>}
           held == {e.parts[k].idx : k \in tails}
           rest == {e.parts[k].idx : k \in claimed}
<1>1. /\ pending' = [i \in (DOMAIN pending \ rest) \cup held |->
                       IF i \in held THEN Carry(e, claimant(i)) ELSE pending[i]]
      /\ tmpl' = [i \in (DOMAIN tmpl \ rest) \cup held |->
                    IF i \in held THEN SaveTemplate(e, claimant(i)) ELSE tmpl[i]]
  BY DEF TakeDelta
<1>2. ASSUME NEW j \in claimed, NEW k \in claimed, e.parts[j].idx = e.parts[k].idx  PROVE  j = k
  <2>1. j \in Nat /\ k \in Nat /\ j \in Displayed(e) /\ k \in Displayed(e)
        /\ ~(j < k) /\ ~(k < j)
    BY <1>2, PartsOfEvent DEF Claims
  <2>. QED
    BY <2>1
<1>3. ASSUME NEW i \in held
      PROVE  /\ Carry(e, claimant(i)) \in Text \ {<< >>}
             /\ SaveTemplate(e, claimant(i)) \in Template
             /\ i \in Slot
  <2>1. PICK k \in tails : e.parts[k].idx = i
    OBVIOUS
  <2>2. k \in claimed /\ k \in 1..Len(e.parts) /\ Carry(e, k) # << >>
    BY <2>1
  <2>3. claimant(i) \in claimed /\ e.parts[claimant(i)].idx = i
    BY <2>1, <2>2
  <2>4. claimant(i) = k
    <3>. HIDE DEF claimant
    <3>. QED
      BY <1>2, <2>1, <2>2, <2>3
  <2>5. Carry(e, k) \in Text /\ SaveTemplate(e, k) \in Template /\ e.parts[k].idx \in Slot
    BY <2>2, ShownIsText, BlankIsEvent, PartsOfEvent DEF HeldOK
  <2>. QED
    BY <2>1, <2>2, <2>4, <2>5
<1>4. IsFiniteSet(held)
  <2>1. IsFiniteSet(1..Len(e.parts)) /\ tails \in SUBSET (1..Len(e.parts))
    BY PartsOfEvent, FS_Interval
  <2>2. IsFiniteSet(tails)
    BY <2>1, FS_Subset
  <2> DEFINE g == [k \in tails |-> e.parts[k].idx]
  <2>3. g \in Surjection(tails, held)
    BY DEF Surjection
  <2>. HIDE DEF tails, held, g
  <2>. QED
    BY <2>2, <2>3, FS_Surjection
<1>. HIDE DEF held, rest, claimant
<1>5. /\ DOMAIN pending \subseteq Slot /\ IsFiniteSet(DOMAIN pending) /\ DOMAIN tmpl \subseteq Slot
      /\ \A i \in DOMAIN pending : pending[i] \in Text \ {<< >>}
      /\ \A i \in DOMAIN tmpl : tmpl[i] \in Template
  BY DEF HeldOK, RestorerTypeOK
<1>6. IsFiniteSet(DOMAIN pending')
  <2>1. DOMAIN pending' \in SUBSET (DOMAIN pending \cup held)
    BY <1>1
  <2>2. IsFiniteSet(DOMAIN pending \cup held)
    BY <1>4, <1>5, FS_Union
  <2>. QED
    BY <2>1, <2>2, FS_Subset
<1>. QED
  BY <1>1, <1>3, <1>5, <1>6

LEMMA TakeWrites ==
  ASSUME HeldOK, NEW e \in Event, TakePlain(e) \/ TakeStop(e) \/ TakeDelta(e),
         taken' = Append(taken, e)
  PROVE  HeldOK' /\ Writes(e)
<1>1. TemplatesAreBare'
  BY TakeKeepsBare DEF HeldOK
<1>2. Writes(e)
  BY PlainWrites, StopWrites, DeltaWrites
<1>3. out' \in Seq(Event) /\ taken' \in Seq(Event)
  BY <1>2, ConcatProperties DEF Writes, HeldOK, RestorerTypeOK
<1>4. CASE TakePlain(e)
  <2>1. DOMAIN pending' = {} /\ DOMAIN tmpl' = {}
    BY <1>4, PlainWrites
  <2>. QED
    BY <1>1, <1>2, <1>3, <2>1, FS_EmptySet DEF HeldOK, RestorerTypeOK
<1>5. CASE TakeStop(e)
  <2>1. /\ pending' = [i \in DOMAIN pending \ {e.index} |-> pending[i]]
        /\ tmpl' = [i \in DOMAIN tmpl \ {e.index} |-> tmpl[i]]
    BY <1>5 DEF TakeStop, Without
  <2>2. DOMAIN pending' \in SUBSET (DOMAIN pending)
    BY <2>1
  <2>3. IsFiniteSet(DOMAIN pending')
    BY <2>2, FS_Subset DEF HeldOK
  <2>. QED
    BY <1>1, <1>2, <1>3, <2>1, <2>3 DEF HeldOK, RestorerTypeOK
<1>6. CASE TakeDelta(e)
  BY <1>1, <1>2, <1>3, <1>6, DeltaHolds DEF HeldOK, RestorerTypeOK
<1>. QED
  BY <1>4, <1>5, <1>6

LEMMA FinalWrites ==
  ASSUME HeldOK, Final
  PROVE  /\ HeldOK'
         /\ \E more \in Seq(Event) : out' = out \o more /\ Sinks(more) = << >>
<1>1. FlushAll \in Seq(Event) /\ Sinks(FlushAll) = << >>
  BY FlushAllIsBare, SinksOfBare
<1>2. out' = out \o FlushAll /\ pending' = << >> /\ tmpl' = << >> /\ taken' = taken
  BY DEF Final
<1>3. out' \in Seq(Event)
  BY <1>1, <1>2, ConcatProperties DEF HeldOK, RestorerTypeOK
<1>4. DOMAIN pending' = {} /\ DOMAIN tmpl' = {}
  BY <1>2
<1>5. TemplatesAreBare'
  BY <1>2, <1>4 DEF TemplatesAreBare
<1>. QED
  BY <1>1, <1>2, <1>3, <1>4, <1>5, FS_EmptySet DEF HeldOK, RestorerTypeOK

LEMMA SinksAreParts == ASSUME NEW a \in Seq(Event) PROVE Sinks(a) \in Seq(Part)
<1> DEFINE each == [n \in 1..Len(a) |-> SinksOf(a[n])]
<1>1. Len(a) \in Nat /\ \A n \in 1..Len(a) : SinksOf(a[n]) \in Seq(Part)
  BY SinksOfIs
<1>2. each \in Seq(Seq(Part))
  BY <1>1
<1>. QED
  BY <1>2, JoinedIsSeq DEF Sinks

\* What was written for an event has its sinks: all that was taken has reached the client.
LEMMA SinksGrow ==
  ASSUME HeldOK, SinksPassOnce, NEW e \in Event, taken' = Append(taken, e),
         NEW more \in Seq(Event), out' = out \o more, Sinks(more) = SinksOf(e)
  PROVE  SinksPassOnce'
<1>1. out \in Seq(Event) /\ taken \in Seq(Event) /\ <<e>> \in Seq(Event)
  BY DEF HeldOK, RestorerTypeOK
<1>2. taken' = taken \o <<e>>
  BY <1>1, AppendIsConcat
<1>3. Sinks(out \o more) = Sinks(out) \o Sinks(more)
  BY <1>1, SinksOfConcat
<1>4. Sinks(taken \o <<e>>) = Sinks(taken) \o Sinks(<<e>>)
  BY <1>1, SinksOfConcat
<1>5. Sinks(out \o more) = Sinks(taken \o <<e>>)
  BY <1>3, <1>4, SinksOfOne DEF SinksPassOnce
<1>. QED
  BY <1>2, <1>5 DEF SinksPassOnce, Sinks, SinksOf

-----------------------------------------------------------------------------
(* Texts without code.                                                     *)

LEMMA OneIsOne == IsFiniteSet(1..1) /\ Cardinality(1..1) = 1
<1>1. 1..1 = {1}
  OBVIOUS
<1>. QED
  BY <1>1, FS_Singleton

\* A stripped text has the characters of the text and line ends; one piece makes one line.
LEMMA StripIsSeq ==
  ASSUME NEW T, NEW s \in Seq(T)
  PROVE  /\ StripCode(s) \in Seq(T \cup {Newline})
         /\ Cardinality(Cuts(s, {Newline})) = 1 /\ T = {} => StripCode(s) = << >>
<1> DEFINE U == T \cup {Newline}
           raw == SplitAtAny(s, {Newline})
           fences == {i \in 1..Len(raw) : Trim(raw[i], {Space}) # << >> /\ Trim(raw[i], {Space})[1] = Fence}
           kept(i) == i \notin fences /\ Cardinality({f \in fences : f < i}) % 2 = 0
           S == {i \in 1..Len(raw) : kept(i)}
           lines == AtPositions(raw, S)
           bits == [n \in 1..Len(lines) |-> (IF n = 1 THEN << >> ELSE <<Newline>>) \o WithoutSpans(lines[n])]
<1>1. StripCode(s) = Joined(bits)
  BY DEF StripCode
<1>2. raw \in Seq(Seq(T)) /\ PiecesAt(s, Cuts(s, {Newline}), raw)
  BY SplitIs
<1>3. DOMAIN raw = 1..Len(raw) /\ S \in SUBSET (1..Len(raw)) /\ Len(raw) \in Nat
  BY <1>2
<1>. HIDE DEF S, raw
<1>4. lines \in Seq(Seq(T)) /\ Len(lines) = Cardinality(S) /\ Cardinality(S) \in Nat
  <2> DEFINE W == Seq(T)
  <2>. HIDE DEF W
  <2>1. raw \in Seq(W) /\ S \in SUBSET (DOMAIN raw)
    BY <1>2, <1>3 DEF W
  <2>2. lines \in Seq(W) /\ Len(lines) = Cardinality(S) /\ Cardinality(S) \in Nat
    BY <2>1, AtPositionsIs
  <2>. QED
    BY <2>2 DEF W
<1>. HIDE DEF lines
<1>5. ASSUME NEW n \in 1..Len(lines)  PROVE  WithoutSpans(lines[n]) \in Seq(T)
  <2>1. PICK line \in Seq(T) : line = lines[n]
    BY <1>4
  <2> DEFINE ticks == {i \in 1..Len(line) : line[i] = Tick}
             before(i) == Cardinality({t \in ticks : t < i})
             all == Cardinality(ticks)
             inSpan(i) == IF i \in ticks THEN before(i) < 2 * (all \div 2)
                                         ELSE before(i) % 2 = 1 /\ before(i) < all
             R == {i \in 1..Len(line) : ~inSpan(i)}
  <2>2. WithoutSpans(line) = AtPositions(line, R)
    BY DEF WithoutSpans
  <2>3. R \in SUBSET (DOMAIN line)
    BY <2>1
  <2>. HIDE DEF R
  <2>. QED
    BY <2>1, <2>2, <2>3, AtPositionsIs
<1>6. ASSUME NEW n \in 1..Len(lines)
      PROVE  (IF n = 1 THEN << >> ELSE <<Newline>>) \o WithoutSpans(lines[n]) \in Seq(U)
  <2>1. (IF n = 1 THEN << >> ELSE <<Newline>>) \in Seq(U)
    <3>1. Newline \in U
      OBVIOUS
    <3>. HIDE DEF U
    <3>2. << >> \in Seq(U) /\ <<Newline>> \in Seq(U)
      BY <3>1
    <3>. QED
      BY <3>2
  <2>2. PICK x \in Seq(T) : x = WithoutSpans(lines[n])
    BY <1>5
  <2>3. x \in Seq(U)
    <3>1. T \in SUBSET U
      OBVIOUS
    <3>2. Len(x) \in Nat /\ x = [i \in 1..Len(x) |-> x[i]] /\ \A i \in 1..Len(x) : x[i] \in U
      BY <2>2, <3>1, SMTT(30)
    <3>. HIDE DEF U
    <3>. QED
      BY <3>2
  <2>. HIDE DEF U
  <2>. QED
    BY <2>1, <2>2, <2>3
<1>7. StripCode(s) \in Seq(U)
  <2>1. bits \in [1..Len(lines) -> Seq(U)]
    <3>. HIDE DEF U
    <3>. QED
      BY <1>6
  <2>2. bits \in Seq(Seq(U))
    <3> DEFINE W == Seq(U)
               N == Len(lines)
    <3>1. bits \in [1..N -> W] /\ N \in Nat
      BY <1>4, <2>1
    <3>2. \A w \in [1..N -> W] : N \in Nat => w \in Seq(W)
      <4>. HIDE DEF W, N
      <4>. QED
        OBVIOUS
    <3>. HIDE DEF U, bits
    <3>. QED
      BY <3>1, <3>2
  <2>. HIDE DEF U, bits
  <2>. QED
    BY <1>1, <2>2, JoinedIsSeq
<1>8. ASSUME Cardinality(Cuts(s, {Newline})) = 1, T = {}  PROVE  StripCode(s) = << >>
  <2>1. Len(raw) = 1
    BY <1>2, <1>8 DEF PiecesAt
  <2>2. Cardinality(S) <= 1
    <3>1. IsFiniteSet(1..1) /\ Cardinality(1..1) = 1
      BY OneIsOne
    <3>2. S \in SUBSET (1..1)
      BY <1>3, <2>1
    <3>. QED
      BY <3>1, <3>2, FS_Subset
  <2>3. ASSUME NEW n \in 1..Len(lines)  PROVE  bits[n] = << >>
    <3>1. n = 1
      BY <1>4, <2>2
    <3>2. WithoutSpans(lines[n]) = << >>
      BY <1>5, <1>8
    <3>3. bits[n] = << >> \o << >>
      BY <3>1, <3>2
    <3>. QED
      BY <3>3
  <2>4. bits \in Seq({<< >>})
    <3> DEFINE W == {<< >>}
    <3>1. bits = [n \in 1..Len(lines) |-> bits[n]] /\ Len(lines) \in Nat
      BY <1>4
    <3>. HIDE DEF bits
    <3>2. bits \in [1..Len(lines) -> W]
      BY <2>3, <3>1
    <3>. HIDE DEF W
    <3>3. bits \in Seq(W)
      BY <3>1, <3>2
    <3>. QED
      BY <3>3 DEF W
  <2>. HIDE DEF bits
  <2>. QED
    BY <1>1, <2>4, JoinedOfEmpties
<1>. QED
  BY <1>7, <1>8

\* No text is no flood.
LEMMA NothingIsNoFlood == ~Strong(StripCode(<< >>))
<1>1. << >> \in Seq({})
  OBVIOUS
<1>2. ASSUME NEW Seps
      PROVE  Cuts(<< >>, Seps) = {0} /\ Cardinality(Cuts(<< >>, Seps)) = 1 /\ Len(SplitAtAny(<< >>, Seps)) = 1
  <2>1. Cuts(<< >>, Seps) = {0}
    BY DEF Cuts
  <2>2. Cardinality({0}) = 1
    BY FS_Singleton
  <2>3. PiecesAt(<< >>, Cuts(<< >>, Seps), SplitAtAny(<< >>, Seps))
    BY <1>1, SplitIs
  <2>. QED
    BY <2>1, <2>2, <2>3 DEF PiecesAt
<1>3. StripCode(<< >>) = << >>
  BY <1>1, <1>2, StripIsSeq
<1>4. ~DominatesTail(<< >>, 3)
  <2> DEFINE l == Lines(<< >>)
  <2>1. Len(l) = 1
    BY <1>2 DEF Lines
  <2>. HIDE DEF l
  <2>2. ASSUME NEW x  PROVE  ~(Repeats(l, x) >= 3)
    <3> DEFINE R == {i \in 1..Len(l) : l[i] = x}
    <3>1. IsFiniteSet(1..1) /\ Cardinality(1..1) = 1
      BY OneIsOne
    <3>2. R \in SUBSET (1..1)
      BY <2>1
    <3>. HIDE DEF R
    <3>3. Cardinality(R) <= 1 /\ Cardinality(R) \in Nat
      BY <3>1, <3>2, FS_Subset, FS_CardinalityType
    <3>. QED
      BY <3>3 DEF Repeats, R
  <2>. QED
    BY <2>2 DEF DominatesTail, l
<1>5. ~HasRun(<< >>, 5)
  <2> DEFINE split == SplitAtAny(<< >>, {Space, Newline})
             S == {i \in 1..Len(split) : split[i] # << >>}
             fields == AtPositions(split, S)
  <2>1. Len(split) = 1
    BY <1>2
  <2>2. Words(<< >>) = [i \in 1..Len(fields) |-> Trim(fields[i], Punct)]
    BY DEF Words
  <2>3. split \in Seq(Seq({}))
    BY <1>1, SplitIs
  <2>. HIDE DEF split
  <2>4. S \in SUBSET (1..1) /\ S \in SUBSET (DOMAIN split)
    BY <2>1, <2>3
  <2>5. Cardinality(S) <= 1 /\ Cardinality(S) \in Nat
    <3>1. IsFiniteSet(1..1) /\ Cardinality(1..1) = 1
      BY OneIsOne
    <3>. HIDE DEF S
    <3>. QED
      BY <2>4, <3>1, FS_Subset, FS_CardinalityType
  <2>6. Len(fields) = Cardinality(S)
    <3> DEFINE W == Seq({})
    <3>. HIDE DEF W, S
    <3>1. split \in Seq(W)
      BY <2>3 DEF W
    <3>. QED
      BY <2>4, <3>1, AtPositionsIs
  <2>. HIDE DEF fields, S
  <2>7. Len(Words(<< >>)) = Len(fields)
    BY <2>2, <2>5, <2>6
  <2>. QED
    BY <2>5, <2>6, <2>7 DEF HasRun
<1>6. ~Leaked(<< >>)
  BY DEF Leaked
<1>. QED
  BY <1>3, <1>4, <1>5, <1>6 DEF Strong

-----------------------------------------------------------------------------
(* What the guard has seen and what is left of it.                         *)

\* A block's first event, or its end.
Mark(e) == e.type \in {"content_block_start", "content_block_stop"}

\* What may be held, and so lost.
Light(e) == IsText(e) \/ TypeSeen(e) \in {"", "ping"}

\* BlockOf, BlockText, FloodedAt and WithinBounds, of any events received.
BlockIn(r, n) == Greatest({0} \cup {m \in 1..n : Mark(r[m])})

TextFor(r, e, b) == IF IsText(e) /\ BlockIn(r, e.at) = b THEN TextOf(e) ELSE << >>
TextIn(r, s, b) == Joined([n \in 1..Len(s) |-> TextFor(r, s[n], b)])

Shows(full) == Strong(full) \/ Certain(full)
FloodIn(r, b) == \E m \in 1..Len(r) : Shows(StripCode(TextIn(r, SubSeq(r, 1, m), b)))

Within(r, b) ==
  /\ Cardinality({n \in b + 1..Len(r) : BlockIn(r, n) = b}) <= MaxHeld
  /\ Len(TextIn(r, r, b)) <= MaxBlockText

Readable(s) == s \in Seq(Event) /\ \A n \in 1..Len(s) : IsText(s[n]) => TextOf(s[n]) \in Text

\* The events received are numbered.
ReceivedIs(r) == Readable(r) /\ \A n \in 1..Len(r) : r[n].at = n

\* s is what is left of r when some events are taken out.
KeptOf(r, s) ==
  /\ s \in Seq(Event)
  /\ \A k \in 1..Len(s) : s[k].at \in 1..Len(r) /\ r[s[k].at] = s[k]
  /\ \A j, k \in 1..Len(s) : j < k => s[j].at < s[k].at

LEMMA BlockInIs ==
  ASSUME NEW r, NEW n \in Nat
  PROVE  /\ BlockIn(r, n) \in 0..n /\ (BlockIn(r, n) = 0 \/ Mark(r[BlockIn(r, n)]))
         /\ \A m \in 1..n : Mark(r[m]) => m <= BlockIn(r, n)
<1> DEFINE S == {0} \cup {m \in 1..n : Mark(r[m])}
<1>1. S \in SUBSET (0..n) /\ S # {}
  OBVIOUS
<1>2. Greatest(S) \in S /\ \A y \in S : y <= Greatest(S)
  <2>. HIDE DEF S
  <2>. QED
    BY <1>1, GreatestExists
<1>. QED
  BY <1>1, <1>2 DEF BlockIn

LEMMA BlockInIsThis ==
  ASSUME NEW r, NEW n \in Nat, NEW b \in 0..n, b = 0 \/ Mark(r[b]), \A m \in b + 1..n : ~Mark(r[m])
  PROVE  BlockIn(r, n) = b
<1>1. /\ BlockIn(r, n) \in 0..n /\ (BlockIn(r, n) = 0 \/ Mark(r[BlockIn(r, n)]))
      /\ \A m \in 1..n : Mark(r[m]) => m <= BlockIn(r, n)
  BY BlockInIs
<1>2. BlockIn(r, n) <= b
  BY <1>1
<1>3. b <= BlockIn(r, n)
  BY <1>1
<1>. QED
  BY <1>1, <1>2, <1>3

LEMMA BlockInAgrees ==
  ASSUME NEW r, NEW q, NEW n \in Nat, \A m \in 1..n : q[m] = r[m]
  PROVE  BlockIn(q, n) = BlockIn(r, n)
<1>1. {m \in 1..n : Mark(q[m])} = {m \in 1..n : Mark(r[m])}
  OBVIOUS
<1>. QED
  BY <1>1 DEF BlockIn

\* From a block's first event on, up to the next block's, all events are of it.
LEMMA BlockInLasts ==
  ASSUME NEW r, NEW N \in Nat, NEW n \in BlockIn(r, N)..N
  PROVE  BlockIn(r, n) = BlockIn(r, N)
<1> DEFINE b == BlockIn(r, N)
<1>1. b \in 0..N /\ (b = 0 \/ Mark(r[b])) /\ \A m \in 1..N : Mark(r[m]) => m <= b
  BY BlockInIs
<1>. HIDE DEF b
<1>2. n \in b..N
  BY DEF b
<1>3. n \in Nat /\ b \in 0..n /\ \A m \in b + 1..n : ~Mark(r[m])
  BY <1>1, <1>2
<1>4. BlockIn(r, n) = b
  BY <1>1, <1>3, BlockInIsThis
<1>. QED
  BY <1>4 DEF b

\* The texts of a sequence's events.
LEMMA TextInIs ==
  ASSUME NEW r, NEW s, Readable(s), NEW b
  PROVE  TextIn(r, s, b) \in Text
<1> DEFINE t == [n \in 1..Len(s) |-> TextFor(r, s[n], b)]
<1>1. Len(s) \in Nat
  BY DEF Readable
<1>2. t \in [1..Len(s) -> Text]
  <2>1. << >> \in Text
    BY DEF Text
  <2>. QED
    BY <2>1 DEF TextFor, Readable
<1>3. t \in Seq(Text)
  <2>. HIDE DEF t
  <2>. QED
    BY <1>1, <1>2
<1>. HIDE DEF t
<1>4. Joined(t) \in Text
  BY <1>3, JoinedIsSeq DEF Text
<1>. QED
  BY <1>4 DEF TextIn, t

LEMMA ReadableConcat ==
  ASSUME NEW s, NEW h, Readable(s), Readable(h)
  PROVE  Readable(s \o h)
<1>1. s \in Seq(Event) /\ h \in Seq(Event)
  BY DEF Readable
<1>2. /\ s \o h \in Seq(Event) /\ Len(s \o h) = Len(s) + Len(h) /\ Len(s) \in Nat /\ Len(h) \in Nat
      /\ \A i \in 1..Len(s) + Len(h) : (s \o h)[i] = IF i <= Len(s) THEN s[i] ELSE h[i - Len(s)]
  BY <1>1, ConcatProperties
<1>3. \A i \in 1..Len(s) + Len(h) : i \in 1..Len(s) \/ (i > Len(s) /\ i - Len(s) \in 1..Len(h))
  BY <1>2
<1>. QED
  BY <1>2, <1>3 DEF Readable

LEMMA TextInConcat ==
  ASSUME NEW r, NEW b, NEW s, NEW h, Readable(s), Readable(h)
  PROVE  TextIn(r, s \o h, b) = TextIn(r, s, b) \o TextIn(r, h, b)
<1> DEFINE t(x) == [n \in 1..Len(x) |-> TextFor(r, x[n], b)]
<1>1. s \in Seq(Event) /\ h \in Seq(Event)
  BY DEF Readable
<1>2. /\ s \o h \in Seq(Event) /\ Len(s \o h) = Len(s) + Len(h) /\ Len(s) \in Nat /\ Len(h) \in Nat
      /\ \A i \in 1..Len(s) + Len(h) : (s \o h)[i] = IF i <= Len(s) THEN s[i] ELSE h[i - Len(s)]
  BY <1>1, ConcatProperties
<1>3. ASSUME NEW x, Readable(x)  PROVE  t(x) \in Seq(Text) /\ Len(t(x)) = Len(x)
  <2>1. << >> \in Text
    BY DEF Text
  <2>2. t(x) \in [1..Len(x) -> Text] /\ Len(x) \in Nat
    BY <1>3, <2>1 DEF TextFor, Readable
  <2>. HIDE DEF t
  <2>. QED
    BY <2>2
<1>4. t(s) \in Seq(Text) /\ t(h) \in Seq(Text) /\ Len(t(s)) = Len(s) /\ Len(t(h)) = Len(h)
  BY <1>3
<1>5. t(s) \o t(h) = t(s \o h)
  <2>1. /\ t(s) \o t(h) \in Seq(Text) /\ Len(t(s) \o t(h)) = Len(s) + Len(h)
        /\ \A i \in 1..Len(s) + Len(h) : (t(s) \o t(h))[i] = IF i <= Len(s) THEN t(s)[i] ELSE t(h)[i - Len(s)]
    <3>1. PICK x \in Seq(Text), y \in Seq(Text) : x = t(s) /\ y = t(h)
      BY <1>4
    <3>2. /\ x \o y \in Seq(Text) /\ Len(x \o y) = Len(x) + Len(y)
          /\ \A i \in 1..Len(x) + Len(y) : (x \o y)[i] = IF i <= Len(x) THEN x[i] ELSE y[i - Len(x)]
      BY ConcatProperties
    <3>. HIDE DEF t
    <3>. QED
      BY <1>4, <3>1, <3>2
  <2>2. t(s \o h) = [i \in 1..Len(s) + Len(h) |-> TextFor(r, (s \o h)[i], b)]
    BY <1>2
  <2>3. ASSUME NEW i \in 1..Len(s) + Len(h)  PROVE  (t(s) \o t(h))[i] = TextFor(r, (s \o h)[i], b)
    <3>1. CASE i <= Len(s)
      <4>1. i \in 1..Len(s)
        BY <1>2, <3>1
      <4>2. t(s)[i] = TextFor(r, s[i], b)
        BY <4>1
      <4>. HIDE DEF t
      <4>. QED
        BY <1>2, <2>1, <3>1, <4>2
    <3>2. CASE ~(i <= Len(s))
      <4>1. i - Len(s) \in 1..Len(h)
        BY <1>2, <3>2
      <4>2. t(h)[i - Len(s)] = TextFor(r, h[i - Len(s)], b)
        BY <4>1
      <4>. HIDE DEF t
      <4>. QED
        BY <1>2, <2>1, <3>2, <4>2
    <3>. QED
      BY <3>1, <3>2
  <2>4. t(s) \o t(h) = [i \in 1..Len(s) + Len(h) |-> (t(s) \o t(h))[i]]
    <3>. HIDE DEF t
    <3>1. PICK x \in Seq(Text) : x = t(s) \o t(h) /\ Len(x) = Len(s) + Len(h)
      BY <2>1
    <3>2. x = [i \in 1..Len(x) |-> x[i]]
      OBVIOUS
    <3>. QED
      BY <3>1, <3>2
  <2>. HIDE DEF t
  <2>. QED
    BY <2>2, <2>3, <2>4
<1>. HIDE DEF t
<1>6. Joined(t(s) \o t(h)) = Joined(t(s)) \o Joined(t(h))
  BY <1>4, JoinedOfConcat DEF Text
<1>. QED
  BY <1>5, <1>6 DEF TextIn, t

LEMMA TextInNone ==
  ASSUME NEW r, NEW s, Len(s) \in Nat, NEW b, \A n \in 1..Len(s) : TextFor(r, s[n], b) = << >>
  PROVE  TextIn(r, s, b) = << >>
<1> DEFINE t == [n \in 1..Len(s) |-> TextFor(r, s[n], b)]
           W == {<< >>}
<1>1. t \in [1..Len(s) -> W]
  OBVIOUS
<1>2. t \in Seq(W)
  <2>. HIDE DEF t, W
  <2>. QED
    BY <1>1
<1>. HIDE DEF t
<1>3. Joined(t) = << >>
  BY <1>2, JoinedOfEmpties
<1>. QED
  BY <1>3 DEF TextIn, t

LEMMA TextInOne ==
  ASSUME NEW r, NEW f \in Event, IsText(f) => TextOf(f) \in Text, NEW b
  PROVE  Readable(<<f>>) /\ TextIn(r, <<f>>, b) = TextFor(r, f, b) /\ TextFor(r, f, b) \in Text
<1>1. TextFor(r, f, b) \in Text
  BY DEF TextFor, Text
<1>2. Len(<<f>>) = 1 /\ <<f>>[1] = f /\ <<f>> \in Seq(Event)
  OBVIOUS
<1>3. Readable(<<f>>)
  BY <1>2 DEF Readable
<1> DEFINE x == TextFor(r, f, b)
<1>4. [n \in 1..Len(<<f>>) |-> TextFor(r, <<f>>[n], b)] = <<x>>
  BY <1>2
<1>. HIDE DEF x
<1>5. x \in Text
  BY <1>1 DEF x
<1>6. << >> \in Seq(Text) /\ Append(<< >>, x) = <<x>>
  BY <1>5
<1>7. Joined(<<x>>) = << >> \o x
  BY <1>5, <1>6, JoinedOfAppend, JoinedOfNothing DEF Text
<1>8. << >> \o x = x
  BY <1>5, ConcatEmptySeq DEF Text
<1>. QED
  BY <1>1, <1>3, <1>4, <1>7, <1>8 DEF TextIn, x

\* One event more has come.
Grown(r, f, q) ==
  /\ ReceivedIs(r)
  /\ f \in Event /\ f.at = Len(r) + 1 /\ (IsText(f) => TextOf(f) \in Text)
  /\ q = Append(r, f)

LEMMA GrownIs ==
  ASSUME NEW r, NEW f, NEW q, Grown(r, f, q)
  PROVE  /\ ReceivedIs(q) /\ Len(r) \in Nat /\ Len(q) = Len(r) + 1 /\ q[Len(q)] = f
         /\ \A n \in 1..Len(r) : q[n] = r[n]
         /\ \A n \in 0..Len(r) : BlockIn(q, n) = BlockIn(r, n)
         /\ Mark(f) => BlockIn(q, Len(q)) = Len(q)
         /\ ~Mark(f) => BlockIn(q, Len(q)) = BlockIn(r, Len(r))
<1>1. r \in Seq(Event) /\ Len(r) \in Nat
  BY DEF Grown, ReceivedIs, Readable
<1>2. q \in Seq(Event) /\ Len(q) = Len(r) + 1 /\ q[Len(r) + 1] = f /\ \A n \in 1..Len(r) : q[n] = r[n]
  BY <1>1 DEF Grown
<1>3. \A n \in 1..Len(q) : n \in 1..Len(r) \/ n = Len(r) + 1
  BY <1>1, <1>2
<1>4. ReceivedIs(q)
  BY <1>2, <1>3 DEF Grown, ReceivedIs, Readable
<1>5. ASSUME NEW n \in 0..Len(r)  PROVE  BlockIn(q, n) = BlockIn(r, n)
  <2>1. n \in Nat /\ \A m \in 1..n : q[m] = r[m]
    BY <1>1, <1>2
  <2>. QED
    BY <2>1, BlockInAgrees
<1>6. ASSUME Mark(f)  PROVE  BlockIn(q, Len(q)) = Len(q)
  <2>1. Len(q) \in Nat /\ Len(q) \in 0..Len(q) /\ Mark(q[Len(q)])
    BY <1>1, <1>2, <1>6
  <2>2. \A m \in Len(q) + 1..Len(q) : ~Mark(q[m])
    BY <2>1
  <2>. QED
    BY <2>1, <2>2, BlockInIsThis
<1>7. ASSUME ~Mark(f)  PROVE  BlockIn(q, Len(q)) = BlockIn(r, Len(r))
  <2> DEFINE b == BlockIn(r, Len(r))
  <2>1. b \in 0..Len(r) /\ (b = 0 \/ Mark(r[b])) /\ \A m \in 1..Len(r) : Mark(r[m]) => m <= b
    BY <1>1, BlockInIs
  <2>. HIDE DEF b
  <2>2. Len(q) \in Nat /\ b \in 0..Len(q) /\ (b = 0 \/ Mark(q[b]))
    BY <1>1, <1>2, <2>1
  <2>3. ASSUME NEW m \in b + 1..Len(q)  PROVE  ~Mark(q[m])
    <3>1. m \in 1..Len(r) \/ m = Len(r) + 1
      BY <1>1, <1>2, <2>1
    <3>. QED
      BY <1>1, <1>2, <1>7, <2>1, <3>1
  <2>4. BlockIn(q, Len(q)) = b
    BY <2>2, <2>3, BlockInIsThis
  <2>. QED
    BY <2>4 DEF b
<1>. QED
  BY <1>1, <1>2, <1>4, <1>5, <1>6, <1>7

LEMMA KeptIsReadable ==
  ASSUME NEW r, NEW s, ReceivedIs(r), KeptOf(r, s)
  PROVE  Readable(s)
BY DEF ReceivedIs, KeptOf, Readable

LEMMA AllIsKept ==
  ASSUME NEW r, ReceivedIs(r)
  PROVE  KeptOf(r, r)
<1>1. r \in Seq(Event) /\ Len(r) \in Nat
  BY DEF ReceivedIs, Readable
<1>. QED
  BY <1>1 DEF ReceivedIs, KeptOf

\* The first m events.
LEMMA StartIsKept ==
  ASSUME NEW r, ReceivedIs(r), NEW m \in 0..Len(r)
  PROVE  KeptOf(r, SubSeq(r, 1, m)) /\ Readable(SubSeq(r, 1, m))
<1>1. r \in Seq(Event) /\ Len(r) \in Nat
  BY DEF ReceivedIs, Readable
<1>2. /\ SubSeq(r, 1, m) \in Seq(Event) /\ Len(SubSeq(r, 1, m)) = m
      /\ \A i \in 1..m : SubSeq(r, 1, m)[i] = r[i] /\ i \in 1..Len(r)
  BY <1>1
<1>3. KeptOf(r, SubSeq(r, 1, m))
  BY <1>1, <1>2 DEF ReceivedIs, KeptOf
<1>. QED
  BY <1>3, KeptIsReadable

LEMMA KeptGrows ==
  ASSUME NEW r, NEW f, NEW q, Grown(r, f, q), NEW s, KeptOf(r, s)
  PROVE  /\ KeptOf(q, s) /\ Readable(s)
         /\ KeptOf(q, Append(s, f))
<1>1. /\ ReceivedIs(q) /\ Len(r) \in Nat /\ Len(q) = Len(r) + 1 /\ q[Len(q)] = f
      /\ \A n \in 1..Len(r) : q[n] = r[n]
      /\ \A n \in 0..Len(r) : BlockIn(q, n) = BlockIn(r, n)
  BY GrownIs
<1>2. s \in Seq(Event) /\ Len(s) \in Nat /\ f \in Event /\ f.at = Len(r) + 1 /\ ReceivedIs(r)
  BY DEF KeptOf, Grown
<1>3. Readable(s)
  BY <1>2, KeptIsReadable
<1>4. KeptOf(q, s)
  <2>1. \A k \in 1..Len(s) : s[k].at \in 1..Len(q) /\ q[s[k].at] = s[k]
    BY <1>1 DEF KeptOf
  <2>. QED
    BY <2>1 DEF KeptOf
<1>5. KeptOf(q, Append(s, f))
  <2>1. /\ Append(s, f) \in Seq(Event) /\ Len(Append(s, f)) = Len(s) + 1
        /\ Append(s, f)[Len(s) + 1] = f /\ \A k \in 1..Len(s) : Append(s, f)[k] = s[k]
    BY <1>2
  <2>2. \A k \in 1..Len(s) + 1 : k \in 1..Len(s) \/ k = Len(s) + 1
    BY <1>2
  <2>3. \A k \in 1..Len(s) : s[k].at \in 1..Len(r) /\ s[k].at < Len(r) + 1
    BY <1>1 DEF KeptOf
  <2> DEFINE t == Append(s, f)
  <2>. HIDE DEF t
  <2>4. ASSUME NEW j \in 1..Len(t), NEW k \in 1..Len(t), j < k  PROVE  t[j].at < t[k].at
    <3>1. j \in 1..Len(s)
      BY <1>2, <2>1, <2>4 DEF t
    <3>2. CASE k \in 1..Len(s)
      BY <2>1, <2>4, <3>1, <3>2 DEF t, KeptOf
    <3>3. CASE k = Len(s) + 1
      BY <1>2, <2>1, <2>3, <3>1, <3>3 DEF t
    <3>. QED
      BY <2>1, <2>2, <3>2, <3>3 DEF t
  <2>5. ASSUME NEW k \in 1..Len(t)  PROVE  t[k].at \in 1..Len(q) /\ q[t[k].at] = t[k]
    <3>1. CASE k \in 1..Len(s)
      BY <1>4, <2>1, <3>1 DEF t, KeptOf
    <3>2. CASE k = Len(s) + 1
      BY <1>1, <1>2, <2>1, <3>2 DEF t
    <3>. QED
      BY <2>1, <2>2, <3>1, <3>2 DEF t
  <2>6. KeptOf(q, t)
    BY <2>1, <2>4, <2>5 DEF KeptOf, t
  <2>. QED
    BY <2>6 DEF t
<1>. QED
  BY <1>3, <1>4, <1>5

LEMMA TextStays ==
  ASSUME NEW r, NEW f, NEW q, Grown(r, f, q), NEW s, KeptOf(r, s), NEW b
  PROVE  TextIn(q, s, b) = TextIn(r, s, b)
<1>1. Len(r) \in Nat /\ \A n \in 0..Len(r) : BlockIn(q, n) = BlockIn(r, n)
  BY GrownIs
<1>2. ASSUME NEW n \in 1..Len(s)  PROVE  TextFor(q, s[n], b) = TextFor(r, s[n], b)
  <2>1. s[n].at \in 0..Len(r)
    BY <1>1 DEF KeptOf
  <2>. QED
    BY <1>1, <2>1 DEF TextFor
<1>3. [n \in 1..Len(s) |-> TextFor(q, s[n], b)] = [n \in 1..Len(s) |-> TextFor(r, s[n], b)]
  BY <1>2
<1>. QED
  BY <1>3 DEF TextIn

IsConcat(z, x, y) == z = x \o y

LEMMA TextGrows ==
  ASSUME NEW r, NEW f, NEW q, Grown(r, f, q), NEW s, KeptOf(r, s), NEW b
  PROVE  IsConcat(TextIn(q, Append(s, f), b), TextIn(r, s, b), TextFor(q, f, b))
<1>1. s \in Seq(Event) /\ f \in Event /\ (IsText(f) => TextOf(f) \in Text) /\ ReceivedIs(r)
  BY DEF KeptOf, Grown
<1>2. Append(s, f) = s \o <<f>>
  BY <1>1, AppendIsConcat
<1>3. PICK one : one = <<f>>
  OBVIOUS
<1>4. Readable(one)
  BY <1>1, <1>3, TextInOne
<1>5. TextIn(q, one, b) = TextFor(q, f, b)
  BY <1>1, <1>3, TextInOne
<1>6. Readable(s)
  BY <1>1, KeptIsReadable
<1>7. TextIn(q, s \o one, b) = TextIn(q, s, b) \o TextIn(q, one, b)
  BY <1>4, <1>6, TextInConcat
<1>8. TextIn(q, s, b) = TextIn(r, s, b)
  BY TextStays
<1>. QED
  BY <1>2, <1>3, <1>5, <1>7, <1>8 DEF IsConcat

\* A block that shows a flood goes on to.
LEMMA FloodStays ==
  ASSUME NEW r, NEW f, NEW q, Grown(r, f, q), NEW b, FloodIn(r, b)
  PROVE  FloodIn(q, b)
<1>1. PICK m \in 1..Len(r) : Shows(StripCode(TextIn(r, SubSeq(r, 1, m), b)))
  BY DEF FloodIn
<1>2. Len(r) \in Nat /\ Len(q) = Len(r) + 1 /\ \A n \in 1..Len(r) : q[n] = r[n]
  BY GrownIs
<1>3. ReceivedIs(r) /\ r \in Seq(Event)
  BY DEF Grown, ReceivedIs, Readable
<1>4. PICK s : s = SubSeq(r, 1, m)
  OBVIOUS
<1>5. KeptOf(r, s) /\ m \in 1..Len(q)
  BY <1>2, <1>3, <1>4, StartIsKept
<1>6. SubSeq(q, 1, m) = s
  BY <1>2, <1>3, <1>4
<1>7. TextIn(q, s, b) = TextIn(r, s, b)
  BY <1>5, TextStays
<1>. QED
  BY <1>1, <1>4, <1>5, <1>6, <1>7 DEF FloodIn

\* The text of block b as it stands shows it.
LEMMA FloodNow ==
  ASSUME NEW r, ReceivedIs(r), Len(r) > 0, NEW b, Shows(StripCode(TextIn(r, r, b)))
  PROVE  FloodIn(r, b)
<1>1. r \in Seq(Event) /\ Len(r) \in 1..Len(r) /\ SubSeq(r, 1, Len(r)) = r
  BY DEF ReceivedIs, Readable
<1>. QED
  BY <1>1 DEF FloodIn

\* A block within the guard's bounds was so before.
LEMMA WithinBefore ==
  ASSUME NEW r, NEW f, NEW q, Grown(r, f, q), NEW b \in 0..Len(r), Within(q, b)
  PROVE  Within(r, b)
<1>1. /\ Len(r) \in Nat /\ Len(q) = Len(r) + 1
      /\ \A n \in 0..Len(r) : BlockIn(q, n) = BlockIn(r, n)
  BY GrownIs
<1>2. KeptOf(r, r) /\ ReceivedIs(r) /\ q = Append(r, f) /\ f \in Event /\ (IsText(f) => TextOf(f) \in Text)
  BY AllIsKept DEF Grown
<1>3. TextIn(q, q, b) = TextIn(r, r, b) \o TextFor(q, f, b)
  BY <1>2, TextGrows DEF IsConcat
<1>4. TextIn(r, r, b) \in Text /\ TextFor(q, f, b) \in Text
  BY <1>2, KeptIsReadable, TextInIs, TextInOne
<1>5. Len(TextIn(r, r, b)) <= Len(TextIn(q, q, b)) /\ Len(TextIn(r, r, b)) \in Nat /\ Len(TextIn(q, q, b)) \in Nat
  <2> DEFINE x == TextIn(r, r, b)
             y == TextFor(q, f, b)
  <2>1. x \in Seq(Char) /\ y \in Seq(Char) /\ TextIn(q, q, b) = x \o y
    BY <1>3, <1>4 DEF Text
  <2>. HIDE DEF x, y
  <2>2. Len(x \o y) = Len(x) + Len(y) /\ Len(x) \in Nat /\ Len(y) \in Nat
    BY <2>1
  <2>3. Len(x) <= Len(x \o y) /\ Len(x \o y) \in Nat
    BY <2>2
  <2>. QED
    BY <2>1, <2>2, <2>3 DEF x
<1> DEFINE A == {n \in b + 1..Len(r) : BlockIn(r, n) = b}
           B == {n \in b + 1..Len(q) : BlockIn(q, n) = b}
<1>6. A \in SUBSET B /\ B \in SUBSET (1..Len(q))
  BY <1>1
<1>7. IsFiniteSet(B)
  <2>1. IsFiniteSet(1..Len(q))
    BY <1>1, FS_Interval
  <2>. HIDE DEF B
  <2>. QED
    BY <1>6, <2>1, FS_Subset
<1>8. Cardinality(A) <= Cardinality(B) /\ Cardinality(A) \in Nat /\ Cardinality(B) \in Nat
  <2>. HIDE DEF A, B
  <2>. QED
    BY <1>6, <1>7, FS_Subset, FS_CardinalityType
<1>9. Cardinality(B) <= MaxHeld /\ Len(TextIn(q, q, b)) <= MaxBlockText
  BY DEF Within
<1>10. Cardinality(A) <= MaxHeld /\ Len(TextIn(r, r, b)) <= MaxBlockText
  <2>. HIDE DEF A, B
  <2>. QED
    BY <1>5, <1>8, <1>9, GuardAssumption
<1>. QED
  BY <1>10 DEF Within

OnlyFloodIsLost(r, s) ==
  \A n \in 1..Len(r) : (\A k \in 1..Len(s) : s[k].at # n) => Light(r[n]) /\ FloodIn(r, BlockIn(r, n))

NoFloodIn(r, s) == \A b \in 0..Len(r) : Within(r, b) => ~Strong(StripCode(TextIn(r, s, b)))

\* Of the events r, s has been let through and h is held; b is the last block.
Tracks(r, s, h, b) ==
  /\ s \in Seq(Event) /\ h \in Seq(Event)
  /\ KeptOf(r, s \o h) /\ OnlyFloodIsLost(r, s \o h) /\ NoFloodIn(r, s)
  /\ \A k \in 1..Len(h) : h[k].at > b /\ Light(h[k])

LEMMA KeptParts ==
  ASSUME NEW r, NEW s \in Seq(Event), NEW h \in Seq(Event), KeptOf(r, s \o h)
  PROVE  KeptOf(r, s) /\ KeptOf(r, h)
<1>1. /\ Len(s) \in Nat /\ Len(h) \in Nat
      /\ \A k \in 1..Len(s) : k \in 1..Len(s \o h) /\ (s \o h)[k] = s[k]
      /\ \A k \in 1..Len(h) : Len(s) + k \in 1..Len(s \o h) /\ (s \o h)[Len(s) + k] = h[k]
  BY ConcatIs
<1> DEFINE t == s \o h
<1>2. /\ \A k \in 1..Len(t) : t[k].at \in 1..Len(r) /\ r[t[k].at] = t[k]
      /\ \A j, k \in 1..Len(t) : j < k => t[j].at < t[k].at
  BY DEF KeptOf
<1>. HIDE DEF t
<1>3. KeptOf(r, s)
  <2>1. \A k \in 1..Len(s) : s[k].at \in 1..Len(r) /\ r[s[k].at] = s[k]
    BY <1>1, <1>2 DEF t
  <2>2. \A j, k \in 1..Len(s) : j < k => s[j].at < s[k].at
    BY <1>1, <1>2 DEF t
  <2>. QED
    BY <2>1, <2>2 DEF KeptOf
<1>4. KeptOf(r, h)
  <2>1. \A k \in 1..Len(h) : h[k].at \in 1..Len(r) /\ r[h[k].at] = h[k]
    BY <1>1, <1>2 DEF t
  <2>2. ASSUME NEW j \in 1..Len(h), NEW k \in 1..Len(h), j < k  PROVE  h[j].at < h[k].at
    <3>1. Len(s) + j < Len(s) + k
      BY <1>1, <2>2
    <3>. QED
      BY <1>1, <1>2, <3>1 DEF t
  <2>. QED
    BY <2>1, <2>2 DEF KeptOf
<1>. QED
  BY <1>3, <1>4

\* What is not among the events let through is held, or of a block that showed a flood.
LEMMA LostAre ==
  ASSUME NEW r, ReceivedIs(r), NEW s, NEW h, NEW b, b = BlockIn(r, Len(r)), Tracks(r, s, h, b),
         NEW n \in 1..Len(r), \A k \in 1..Len(s) : s[k].at # n
  PROVE  Light(r[n]) /\ (FloodIn(r, BlockIn(r, n)) \/ (h # << >> /\ BlockIn(r, n) = b))
<1>1. s \in Seq(Event) /\ h \in Seq(Event) /\ KeptOf(r, s \o h) /\ Len(r) \in Nat
  BY DEF Tracks, ReceivedIs, Readable
<1>2. CASE \E k \in 1..Len(h) : h[k].at = n
  <2>1. PICK k \in 1..Len(h) : h[k].at = n
    BY <1>2
  <2>2. r[n] = h[k]
    <3>1. KeptOf(r, h)
      BY <1>1, KeptParts
    <3>. QED
      BY <2>1, <3>1 DEF KeptOf
  <2>3. n > b /\ Light(r[n])
    BY <2>1, <2>2 DEF Tracks
  <2>4. b \in 0..Len(r)
    BY <1>1, BlockInIs
  <2>5. n \in BlockIn(r, Len(r))..Len(r)
    BY <1>1, <2>3, <2>4
  <2>6. BlockIn(r, n) = b
    BY <1>1, <2>5, BlockInLasts
  <2>. QED
    BY <1>1, <2>1, <2>3, <2>6
<1>3. CASE \A k \in 1..Len(h) : h[k].at # n
  <2>1. \A k \in 1..Len(s \o h) : (s \o h)[k].at # n
    BY <1>1, <1>3, ConcatIs
  <2>. QED
    BY <2>1 DEF Tracks, OnlyFloodIsLost
<1>. QED
  BY <1>2, <1>3

\* What is held is dropped.
LEMMA DropTracks ==
  ASSUME NEW r, ReceivedIs(r), NEW s, NEW h, NEW b, b = BlockIn(r, Len(r)), Tracks(r, s, h, b), FloodIn(r, b)
  PROVE  Tracks(r, s, << >>, b)
<1>1. s \in Seq(Event) /\ h \in Seq(Event) /\ KeptOf(r, s \o h) /\ NoFloodIn(r, s)
  BY DEF Tracks
<1>2. s \o << >> = s /\ << >> \in Seq(Event) /\ Len(<< >>) = 0
  BY <1>1, ConcatEmptySeq
<1>3. KeptOf(r, s)
  BY <1>1, KeptParts
<1>4. OnlyFloodIsLost(r, s)
  <2>1. ASSUME NEW n \in 1..Len(r), \A k \in 1..Len(s) : s[k].at # n
        PROVE  Light(r[n]) /\ FloodIn(r, BlockIn(r, n))
    BY <2>1, LostAre
  <2>. QED
    BY <2>1 DEF OnlyFloodIsLost
<1>. QED
  BY <1>1, <1>2, <1>3, <1>4 DEF Tracks

\* What is held is let through, unless the block's text was a flood.
LEMMA LiftTracks ==
  ASSUME NEW r, ReceivedIs(r), NEW s, NEW h, NEW b, b = BlockIn(r, Len(r)), Tracks(r, s, h, b),
         Within(r, b) => ~Strong(StripCode(TextIn(r, s \o h, b)))
  PROVE  Tracks(r, s \o h, << >>, b)
<1>1. s \in Seq(Event) /\ h \in Seq(Event) /\ KeptOf(r, s \o h) /\ NoFloodIn(r, s)
      /\ OnlyFloodIsLost(r, s \o h) /\ Len(r) \in Nat
  BY DEF Tracks, ReceivedIs, Readable
<1>2. s \o h \in Seq(Event) /\ (s \o h) \o << >> = s \o h /\ << >> \in Seq(Event) /\ Len(<< >>) = 0
  <2>1. s \o h \in Seq(Event)
    BY <1>1
  <2>. QED
    BY <2>1, ConcatEmptySeq
<1>3. KeptOf(r, s) /\ KeptOf(r, h)
  BY <1>1, KeptParts
<1>4. Readable(s) /\ Readable(h)
  BY <1>3, KeptIsReadable
<1>5. ASSUME NEW x \in 0..Len(r), Within(r, x)  PROVE  ~Strong(StripCode(TextIn(r, s \o h, x)))
  <2>1. CASE x = b
    BY <1>5, <2>1
  <2>2. CASE x # b
    <3>1. ASSUME NEW n \in 1..Len(h)  PROVE  TextFor(r, h[n], x) = << >>
      <4>1. h[n].at > b /\ h[n].at \in 1..Len(r)
        BY <1>3 DEF Tracks, KeptOf
      <4>2. b \in 0..Len(r)
        BY <1>1, BlockInIs
      <4>3. h[n].at \in BlockIn(r, Len(r))..Len(r)
        BY <1>1, <4>1, <4>2
      <4>4. BlockIn(r, h[n].at) = b
        BY <1>1, <4>3, BlockInLasts
      <4>. QED
        BY <2>2, <4>4 DEF TextFor
    <3>2. Len(h) \in Nat
      BY <1>1
    <3>3. TextIn(r, h, x) = << >>
      BY <3>1, <3>2, TextInNone
    <3>4. TextIn(r, s \o h, x) = TextIn(r, s, x) \o TextIn(r, h, x)
      BY <1>4, TextInConcat
    <3>5. TextIn(r, s, x) \in Seq(Char)
      BY <1>4, TextInIs DEF Text
    <3>6. TextIn(r, s \o h, x) = TextIn(r, s, x)
      BY <3>3, <3>4, <3>5, ConcatEmptySeq
    <3>. QED
      BY <1>1, <1>5, <3>6 DEF NoFloodIn
  <2>. QED
    BY <2>1, <2>2
<1>6. NoFloodIn(r, s \o h)
  BY <1>5 DEF NoFloodIn
<1>. QED
  BY <1>1, <1>2, <1>6 DEF Tracks

\* No text has come of a block that starts now.
LEMMA NewBlockHasNoText ==
  ASSUME NEW r, NEW s, ReceivedIs(r), KeptOf(r, s), NEW x, x = Len(r) + 1
  PROVE  TextIn(r, s, x) = << >>
<1>1. s \in Seq(Event) /\ Len(s) \in Nat /\ Len(r) \in Nat
  BY DEF KeptOf, ReceivedIs, Readable
<1>2. ASSUME NEW n \in 1..Len(s)  PROVE  TextFor(r, s[n], x) = << >>
  <2>1. s[n].at \in 1..Len(r)
    BY DEF KeptOf
  <2>2. s[n].at \in Nat
    BY <2>1
  <2>3. BlockIn(r, s[n].at) \in 0..s[n].at
    BY <2>2, BlockInIs
  <2>4. BlockIn(r, s[n].at) # x
    BY <1>1, <2>1, <2>3
  <2>. QED
    BY <2>4 DEF TextFor
<1>. QED
  BY <1>1, <1>2, TextInNone

LEMMA LastIsIn ==
  ASSUME NEW f, NEW s \in Seq(Event), f \in Event
  PROVE  /\ Append(s, f) \in Seq(Event) /\ Len(s) + 1 \in 1..Len(Append(s, f)) /\ Append(s, f)[Len(s) + 1] = f
         /\ \A k \in 1..Len(s) : k \in 1..Len(Append(s, f)) /\ Append(s, f)[k] = s[k]
         /\ \A k \in 1..Len(Append(s, f)) : k \in 1..Len(s) \/ Append(s, f)[k] = f
OBVIOUS

\* The event that comes is let through; nothing is held, or it is dropped.
LEMMA PassTracks ==
  ASSUME NEW r, NEW f, NEW q, Grown(r, f, q), NEW s, NEW h, NEW b, b = BlockIn(r, Len(r)), Tracks(r, s, h, b),
         h = << >> \/ FloodIn(q, b), NEW c, c = BlockIn(q, Len(q)),
         IsText(f) /\ Within(q, c) => ~Strong(StripCode(TextIn(q, Append(s, f), c)))
  PROVE  Tracks(q, Append(s, f), << >>, c)
<1>1. s \in Seq(Event) /\ h \in Seq(Event) /\ KeptOf(r, s \o h) /\ NoFloodIn(r, s) /\ ReceivedIs(r)
      /\ f \in Event /\ f.at = Len(r) + 1 /\ (IsText(f) => TextOf(f) \in Text)
  BY DEF Tracks, Grown
<1> DEFINE t == Append(s, f)
<1>2. /\ t \in Seq(Event) /\ Len(s) + 1 \in 1..Len(t) /\ t[Len(s) + 1] = f
      /\ \A k \in 1..Len(s) : k \in 1..Len(t) /\ t[k] = s[k]
  BY <1>1, LastIsIn
<1>3. KeptOf(r, s)
  BY <1>1, KeptParts
<1>4. KeptOf(q, t) /\ Readable(s)
  BY <1>3, KeptGrows
<1>. HIDE DEF t
<1>5. t \o << >> = t /\ << >> \in Seq(Event) /\ Len(<< >>) = 0
  BY <1>2, ConcatEmptySeq
<1>6. /\ ReceivedIs(q) /\ Len(r) \in Nat /\ Len(q) = Len(r) + 1 /\ q[Len(q)] = f
      /\ \A n \in 1..Len(r) : q[n] = r[n]
      /\ \A n \in 0..Len(r) : BlockIn(q, n) = BlockIn(r, n)
  BY GrownIs
<1>7. OnlyFloodIsLost(q, t)
  <2>1. ASSUME NEW n \in 1..Len(q), \A k \in 1..Len(t) : t[k].at # n
        PROVE  Light(q[n]) /\ FloodIn(q, BlockIn(q, n))
    <3>1. n # Len(r) + 1
      BY <1>1, <1>2, <2>1
    <3>2. n \in 1..Len(r) /\ n \in 0..Len(r)
      BY <1>6, <3>1
    <3>3. \A k \in 1..Len(s) : s[k].at # n
      BY <1>2, <2>1
    <3>4. Light(r[n]) /\ (FloodIn(r, BlockIn(r, n)) \/ (h # << >> /\ BlockIn(r, n) = b))
      BY <1>1, <3>2, <3>3, LostAre
    <3>5. FloodIn(q, BlockIn(r, n))
      BY <3>4, FloodStays
    <3>. QED
      BY <1>6, <3>2, <3>4, <3>5
  <2>. QED
    BY <2>1 DEF OnlyFloodIsLost
<1>8. ASSUME NEW x \in 0..Len(q), Within(q, x)  PROVE  ~Strong(StripCode(TextIn(q, t, x)))
  <2>1. CASE IsText(f) /\ x = c
    BY <1>8, <2>1 DEF t
  <2>2. CASE ~(IsText(f) /\ x = c)
    <3>1. TextFor(q, f, x) = << >>
      BY <1>1, <1>6, <2>2 DEF TextFor
    <3>2. TextIn(r, s, x) \in Seq(Char)
      BY <1>4, TextInIs DEF Text
    <3>3. TextIn(q, t, x) = TextIn(r, s, x)
      <4>1. IsConcat(TextIn(q, Append(s, f), x), TextIn(r, s, x), TextFor(q, f, x))
        BY <1>3, TextGrows
      <4>. QED
        BY <3>1, <3>2, <4>1, ConcatEmptySeq DEF t, IsConcat
    <3>4. CASE x \in 0..Len(r)
      <4>1. Within(r, x)
        BY <1>8, <3>4, WithinBefore
      <4>. QED
        BY <1>1, <3>3, <3>4, <4>1 DEF NoFloodIn
    <3>5. CASE x = Len(q)
      <4>1. TextIn(r, s, x) = << >>
        BY <1>1, <1>3, <1>6, <3>5, NewBlockHasNoText
      <4>. QED
        BY <3>3, <4>1, NothingIsNoFlood
    <3>6. x \in 0..Len(r) \/ x = Len(q)
      BY <1>6
    <3>. QED
      BY <3>4, <3>5, <3>6
  <2>. QED
    BY <2>1, <2>2
<1>9. NoFloodIn(q, t)
  BY <1>8 DEF NoFloodIn
<1>10. Tracks(q, t, << >>, c)
  BY <1>2, <1>4, <1>5, <1>7, <1>9 DEF Tracks
<1>. QED
  BY <1>10 DEF t

\* The event that comes is held.
LEMMA HoldTracks ==
  ASSUME NEW r, NEW f, NEW q, Grown(r, f, q), NEW s, NEW h, NEW b, b = BlockIn(r, Len(r)), Tracks(r, s, h, b),
         Light(f), ~Mark(f)
  PROVE  Tracks(q, s, Append(h, f), b)
<1>1. s \in Seq(Event) /\ h \in Seq(Event) /\ KeptOf(r, s \o h) /\ NoFloodIn(r, s) /\ ReceivedIs(r)
      /\ f \in Event /\ f.at = Len(r) + 1 /\ OnlyFloodIsLost(r, s \o h)
  BY DEF Tracks, Grown
<1>2. /\ ReceivedIs(q) /\ Len(r) \in Nat /\ Len(q) = Len(r) + 1 /\ q[Len(q)] = f
      /\ \A n \in 1..Len(r) : q[n] = r[n]
      /\ \A n \in 0..Len(r) : BlockIn(q, n) = BlockIn(r, n)
  BY GrownIs
<1> DEFINE u == s \o h
           t == Append(u, f)
<1>3. u \in Seq(Event) /\ s \o Append(h, f) = t
  BY <1>1, ConcatAppend
<1>. HIDE DEF u
<1>4. KeptOf(q, t)
  BY <1>1, KeptGrows DEF u
<1>5. /\ t \in Seq(Event) /\ Len(u) + 1 \in 1..Len(t) /\ t[Len(u) + 1] = f
      /\ \A k \in 1..Len(u) : k \in 1..Len(t) /\ t[k] = u[k]
  BY <1>1, <1>3, LastIsIn
<1>. HIDE DEF t
<1>6. OnlyFloodIsLost(q, t)
  <2>1. ASSUME NEW n \in 1..Len(q), \A k \in 1..Len(t) : t[k].at # n
        PROVE  Light(q[n]) /\ FloodIn(q, BlockIn(q, n))
    <3>1. n # Len(r) + 1
      BY <1>1, <1>5, <2>1
    <3>2. n \in 1..Len(r) /\ n \in 0..Len(r)
      BY <1>2, <3>1
    <3>3. \A k \in 1..Len(u) : u[k].at # n
      BY <1>5, <2>1
    <3>4. Light(r[n]) /\ FloodIn(r, BlockIn(r, n))
      BY <1>1, <3>2, <3>3 DEF OnlyFloodIsLost, u
    <3>5. FloodIn(q, BlockIn(r, n))
      BY <3>4, FloodStays
    <3>. QED
      BY <1>2, <3>2, <3>4, <3>5
  <2>. QED
    BY <2>1 DEF OnlyFloodIsLost
<1>7. KeptOf(r, s)
  BY <1>1, KeptParts
<1>8. ASSUME NEW x \in 0..Len(q), Within(q, x)  PROVE  ~Strong(StripCode(TextIn(q, s, x)))
  <2>1. TextIn(q, s, x) = TextIn(r, s, x)
    BY <1>7, TextStays
  <2>2. CASE x \in 0..Len(r)
    <3>1. Within(r, x)
      BY <1>8, <2>2, WithinBefore
    <3>. QED
      BY <1>1, <2>1, <2>2, <3>1 DEF NoFloodIn
  <2>3. CASE x = Len(q)
    <3>1. TextIn(r, s, x) = << >>
      BY <1>1, <1>2, <1>7, <2>3, NewBlockHasNoText
    <3>. QED
      BY <2>1, <3>1, NothingIsNoFlood
  <2>4. x \in 0..Len(r) \/ x = Len(q)
    BY <1>2
  <2>. QED
    BY <2>2, <2>3, <2>4
<1>9. NoFloodIn(q, s)
  BY <1>8 DEF NoFloodIn
<1>10. Append(h, f) \in Seq(Event) /\ \A k \in 1..Len(Append(h, f)) : Append(h, f)[k].at > b /\ Light(Append(h, f)[k])
  <2> DEFINE g == Append(h, f)
  <2>1. /\ g \in Seq(Event)
        /\ \A k \in 1..Len(h) : g[k] = h[k]
        /\ \A k \in 1..Len(g) : k \in 1..Len(h) \/ g[k] = f
    BY <1>1, LastIsIn
  <2>2. b \in 0..Len(r)
    BY <1>2, BlockInIs
  <2>3. f.at > b
    BY <1>1, <1>2, <2>2
  <2>. HIDE DEF g
  <2>4. ASSUME NEW k \in 1..Len(g)  PROVE  g[k].at > b /\ Light(g[k])
    <3>1. CASE k \in 1..Len(h)
      BY <2>1, <3>1 DEF Tracks
    <3>2. CASE g[k] = f
      BY <2>3, <3>2
    <3>. QED
      BY <2>1, <3>1, <3>2
  <2>. QED
    BY <2>1, <2>4 DEF g
<1>. QED
  BY <1>1, <1>3, <1>4, <1>6, <1>9, <1>10 DEF Tracks

-----------------------------------------------------------------------------
(* What the guard knows of the block it is in.                             *)

\* The guard g has seen the events r and let s of them through; b is the last block.
Guards(r, s, g, b) ==
  /\ Tracks(r, s, g.held, b)
  /\ g.held # << >> => g.guarding /\ ~g.polluted
  /\ g.guarding /\ ~g.polluted => g.text = TextIn(r, r, b) /\ TextIn(r, s \o g.held, b) = g.text
  /\ g.polluted => FloodIn(r, b)
  /\ g.guarding \/ ~Within(r, b) \/ (b # 0 /\ r[b].type = "content_block_stop")

LEMMA ConcatsAre ==
  ASSUME NEW T, NEW t \in Seq(T), NEW u \in Seq(T), NEW h \in Seq(T), NEW f \in T
  PROVE  /\ t \o u \in Seq(T) /\ u \o h \in Seq(T) /\ Append(u, f) \in Seq(T) /\ Append(h, f) \in Seq(T)
         /\ t \o Append(u, f) = Append(t \o u, f)
         /\ t \o (u \o h) = (t \o u) \o h
         /\ (t \o u) \o Append(h, f) = Append((t \o u) \o h, f)
         /\ t \o Append(u \o h, f) = (t \o u) \o Append(h, f)
         /\ u \o << >> = u /\ (t \o u) \o << >> = t \o u /\ << >> \in Seq(T)
<1>1. t \o u \in Seq(T) /\ u \o h \in Seq(T) /\ Append(u, f) \in Seq(T) /\ Append(h, f) \in Seq(T) /\ << >> \in Seq(T)
  OBVIOUS
<1>2. t \o Append(u, f) = Append(t \o u, f)
  BY ConcatAppend
<1>3. t \o (u \o h) = (t \o u) \o h
  BY ConcatAssociative
<1>4. (t \o u) \o Append(h, f) = Append((t \o u) \o h, f)
  BY <1>1, ConcatAppend
<1>5. t \o Append(u \o h, f) = Append(t \o (u \o h), f)
  BY <1>1, ConcatAppend
<1>6. u \o << >> = u /\ (t \o u) \o << >> = t \o u
  BY <1>1, ConcatEmptySeq
<1>. QED
  BY <1>1, <1>2, <1>3, <1>4, <1>5, <1>6

\* More held events than the bound allows are more of the block than it allows.
LEMMA HeldFills ==
  ASSUME NEW r, ReceivedIs(r), NEW s, NEW h, NEW b, b = BlockIn(r, Len(r)), Tracks(r, s, h, b), Len(h) > MaxHeld
  PROVE  ~Within(r, b)
<1>1. s \in Seq(Event) /\ h \in Seq(Event) /\ KeptOf(r, h) /\ Len(r) \in Nat /\ Len(h) \in Nat
  <2>1. s \in Seq(Event) /\ h \in Seq(Event) /\ KeptOf(r, s \o h)
    BY DEF Tracks
  <2>2. Len(r) \in Nat
    BY DEF ReceivedIs, Readable
  <2>3. KeptOf(r, h)
    BY <2>1, KeptParts
  <2>. QED
    BY <2>1, <2>2, <2>3
<1> DEFINE D == 1..Len(h)
           f == [k \in D |-> h[k].at]
           A == {f[k] : k \in D}
           B == {n \in b + 1..Len(r) : BlockIn(r, n) = b}
<1>2. b \in 0..Len(r)
  BY <1>1, BlockInIs
<1>3. ASSUME NEW k \in D  PROVE  f[k] \in B
  <2>1. f[k] \in 1..Len(r) /\ f[k] > b
    BY <1>1 DEF KeptOf, Tracks
  <2>2. f[k] \in b + 1..Len(r) /\ f[k] \in b..Len(r)
    BY <1>1, <1>2, <2>1
  <2>3. BlockIn(r, f[k]) = b
    BY <1>1, <2>2, BlockInLasts
  <2>. HIDE DEF f
  <2>. QED
    BY <2>2, <2>3
<1>4. IsFiniteSet(D) /\ Cardinality(D) = Len(h)
  <2>1. 1 \in Int /\ Len(h) \in Int
    BY <1>1
  <2>2. Cardinality(1..Len(h)) = (IF 1 > Len(h) THEN 0 ELSE Len(h) - 1 + 1) /\ IsFiniteSet(1..Len(h))
    BY <2>1, FS_Interval
  <2>. QED
    BY <1>1, <2>2
<1>5. ASSUME NEW x \in D, NEW y \in D, f[x] = f[y]  PROVE  x = y
  <2>1. f[x] \in Nat /\ (x < y => f[x] < f[y]) /\ (y < x => f[y] < f[x])
    BY <1>1 DEF KeptOf
  <2>. HIDE DEF f
  <2>. QED
    BY <1>1, <1>5, <2>1
<1>6. DOMAIN f = D /\ f = [k \in D |-> f[k]]
  OBVIOUS
<1>7. Cardinality(A) = Len(h)
  <2>. HIDE DEF f, D
  <2>. QED
    BY <1>4, <1>5, <1>6, ImageSize
<1>8. A \in SUBSET B
  <2>. HIDE DEF f, D, B
  <2>. QED
    BY <1>3
<1>9. IsFiniteSet(B)
  <2>1. B \in SUBSET (1..Len(r))
    BY <1>1, <1>2
  <2>2. IsFiniteSet(1..Len(r))
    BY <1>1, FS_Interval
  <2>. HIDE DEF B
  <2>. QED
    BY <2>1, <2>2, FS_Subset
<1>10. Cardinality(A) <= Cardinality(B) /\ Cardinality(B) \in Nat
  <2>. HIDE DEF A, B
  <2>. QED
    BY <1>8, <1>9, FS_Subset, FS_CardinalityType
<1>11. Cardinality(B) > MaxHeld
  <2>. HIDE DEF A, B
  <2>. QED
    BY <1>1, <1>7, <1>10, GuardAssumption
<1>12. Within(r, b) => Cardinality(B) <= MaxHeld
  BY DEF Within
<1>. HIDE DEF B
<1>. QED
  BY <1>10, <1>11, <1>12, GuardAssumption

\* What flushHeld may leave.
LEMMA FlushIs ==
  ASSUME NEW g \in Guard
  PROVE  LET x == FlushHeld(g)
         IN  /\ x.held = << >> /\ x.text = g.text /\ x.guarding = g.guarding
             /\ \/ /\ g.held # << >> /\ ~g.polluted /\ Strong(StripCode(g.text))
                   /\ x.ready = g.ready /\ x.polluted
                \/ /\ g.held = << >> \/ g.polluted \/ ~Strong(StripCode(g.text))
                   /\ x.ready = g.ready \o g.held /\ x.polluted = g.polluted
<1>1. CASE g.held # << >> /\ ~g.polluted /\ Strong(StripCode(g.text))
  BY <1>1 DEF FlushHeld, Guard
<1>2. CASE ~(g.held # << >> /\ ~g.polluted /\ Strong(StripCode(g.text)))
  BY <1>2 DEF FlushHeld, Guard
<1>. QED
  BY <1>1, <1>2

LEMMA FlushGuards ==
  ASSUME NEW r, ReceivedIs(r), NEW t \in Seq(Event), NEW g, GoodGuard(g),
         NEW b, b = BlockIn(r, Len(r)), Guards(r, t \o g.ready, g, b)
  PROVE  Guards(r, t \o FlushHeld(g).ready, FlushHeld(g), b)
<1>1. PICK u, h, x, s : u = g.ready /\ h = g.held /\ x = FlushHeld(g) /\ s = t \o u
  OBVIOUS
<1>2. u \in Seq(Event) /\ h \in Seq(Event)
  BY <1>1 DEF GoodGuard, Guard
<1>3. /\ Tracks(r, s, h, b)
      /\ h # << >> => g.guarding /\ ~g.polluted
      /\ g.guarding /\ ~g.polluted => g.text = TextIn(r, r, b) /\ TextIn(r, s \o h, b) = g.text
      /\ g.polluted => FloodIn(r, b)
      /\ g.guarding \/ ~Within(r, b) \/ (b # 0 /\ r[b].type = "content_block_stop")
  BY <1>1 DEF Guards
<1>4. /\ x.held = << >> /\ x.text = g.text /\ x.guarding = g.guarding
      /\ \/ h # << >> /\ ~g.polluted /\ Strong(StripCode(g.text)) /\ x.ready = u /\ x.polluted
         \/ /\ h = << >> \/ g.polluted \/ ~Strong(StripCode(g.text))
            /\ x.ready = u \o h /\ x.polluted = g.polluted
  BY <1>1, FlushIs DEF GoodGuard
<1>5. s \in Seq(Event) /\ t \o (u \o h) = s \o h /\ s \o h \in Seq(Event)
  <2>1. s \in Seq(Event) /\ s \o h \in Seq(Event)
    BY <1>1, <1>2
  <2>2. t \o (u \o h) = (t \o u) \o h
    BY <1>2, ConcatAssociative, SMTT(30)
  <2>. QED
    BY <1>1, <2>1, <2>2
<1>6. (s \o h) \o << >> = s \o h /\ s \o << >> = s
  BY <1>5, ConcatEmptySeq
<1>7. CASE h # << >> /\ ~g.polluted /\ Strong(StripCode(g.text)) /\ x.ready = u /\ x.polluted
  <2>1. Shows(StripCode(TextIn(r, r, b)))
    BY <1>3, <1>7 DEF Shows
  <2>2. Len(r) > 0
    <3>1. KeptOf(r, s \o h)
      BY <1>3 DEF Tracks
    <3>2. KeptOf(r, h)
      BY <1>2, <1>5, <3>1, KeptParts
    <3>3. Len(r) \in Nat
      BY DEF ReceivedIs, Readable
    <3>4. 1 \in 1..Len(h)
      BY <1>2, <1>7
    <3>5. h[1].at \in 1..Len(r)
      BY <3>2, <3>4 DEF KeptOf
    <3>. QED
      BY <3>3, <3>5
  <2>3. FloodIn(r, b)
    BY <2>1, <2>2, FloodNow
  <2>4. Tracks(r, s, << >>, b)
    BY <1>3, <2>3, DropTracks
  <2>5. t \o x.ready = s
    BY <1>1, <1>7
  <2>6. Guards(r, s, x, b)
    BY <1>3, <1>4, <1>7, <2>3, <2>4 DEF Guards
  <2>. QED
    BY <1>1, <2>5, <2>6
<1>8. CASE /\ h = << >> \/ g.polluted \/ ~Strong(StripCode(g.text))
           /\ x.ready = u \o h /\ x.polluted = g.polluted
  <2>1. Tracks(r, s \o h, << >>, b)
    <3>1. CASE h = << >>
      BY <1>3, <1>6, <3>1
    <3>2. CASE h # << >>
      <4>1. ~Strong(StripCode(TextIn(r, s \o h, b)))
        BY <1>3, <1>8, <3>2
      <4>. QED
        BY <1>3, <4>1, LiftTracks
    <3>. QED
      BY <3>1, <3>2
  <2>2. t \o x.ready = s \o h
    BY <1>5, <1>8
  <2>3. PICK w : w = s \o h
    OBVIOUS
  <2>4. Tracks(r, w, << >>, b) /\ w \o << >> = w
    BY <1>6, <2>1, <2>3
  <2>5. x.guarding /\ ~x.polluted => x.text = TextIn(r, r, b) /\ TextIn(r, w \o x.held, b) = x.text
    BY <1>3, <1>4, <1>8, <2>3, <2>4
  <2>6. Guards(r, w, x, b)
    BY <1>3, <1>4, <1>8, <2>4, <2>5 DEF Guards
  <2>. QED
    BY <1>1, <2>2, <2>3, <2>6
<1>. QED
  BY <1>4, <1>7, <1>8

\* The block's text with the event that comes.
LEMMA TextsNow ==
  ASSUME NEW r, NEW f, NEW q, Grown(r, f, q), ~Mark(f), NEW b, b = BlockIn(r, Len(r)),
         NEW s, NEW h, Tracks(r, s, h, b)
  PROVE  /\ BlockIn(q, Len(q)) = b
         /\ IsConcat(TextIn(q, q, b), TextIn(r, r, b), TextFor(q, f, b))
         /\ IsConcat(TextIn(q, s \o Append(h, f), b), TextIn(r, s \o h, b), TextFor(q, f, b))
         /\ TextFor(q, f, b) = IF IsText(f) THEN TextOf(f) ELSE << >>
<1>1. s \in Seq(Event) /\ h \in Seq(Event) /\ f \in Event /\ q = Append(r, f) /\ f.at = Len(r) + 1 /\ ReceivedIs(r)
  BY DEF Tracks, Grown
<1>2. BlockIn(q, Len(q)) = b /\ Len(q) = Len(r) + 1
  BY GrownIs
<1>3. KeptOf(r, r)
  BY <1>1, AllIsKept
<1>4. IsConcat(TextIn(q, Append(r, f), b), TextIn(r, r, b), TextFor(q, f, b))
  BY <1>3, TextGrows
<1>5. PICK u : u = s \o h
  OBVIOUS
<1>6. KeptOf(r, u)
  BY <1>5 DEF Tracks
<1>7. IsConcat(TextIn(q, Append(u, f), b), TextIn(r, u, b), TextFor(q, f, b))
  BY <1>6, TextGrows
<1>8. s \o Append(h, f) = Append(u, f)
  BY <1>1, <1>5, ConcatAppend
<1>9. TextFor(q, f, b) = IF IsText(f) THEN TextOf(f) ELSE << >>
  BY <1>1, <1>2 DEF TextFor
<1>. QED
  BY <1>1, <1>2, <1>4, <1>5, <1>7, <1>8, <1>9

\* An event of the block is held.
LEMMA HoldGuards ==
  ASSUME NEW r, NEW f, NEW q, Grown(r, f, q), ~Mark(f), Light(f), NEW b, b = BlockIn(r, Len(r)),
         NEW s, NEW g, Guards(r, s, g, b), g.guarding, ~g.polluted,
         NEW y, y.held = Append(g.held, f), y.guarding, ~y.polluted, y.text = g.text \o TextFor(q, f, b)
  PROVE  Guards(q, s, y, b)
<1>1. Tracks(r, s, g.held, b) /\ g.text = TextIn(r, r, b) /\ TextIn(r, s \o g.held, b) = g.text
  BY DEF Guards
<1>2. Tracks(q, s, y.held, b)
  BY <1>1, HoldTracks
<1>3. /\ IsConcat(TextIn(q, q, b), TextIn(r, r, b), TextFor(q, f, b))
      /\ IsConcat(TextIn(q, s \o y.held, b), TextIn(r, s \o g.held, b), TextFor(q, f, b))
  <2>1. PICK h : h = g.held
    OBVIOUS
  <2>2. Tracks(r, s, h, b)
    BY <1>1, <2>1
  <2>3. /\ IsConcat(TextIn(q, q, b), TextIn(r, r, b), TextFor(q, f, b))
        /\ IsConcat(TextIn(q, s \o Append(h, f), b), TextIn(r, s \o h, b), TextFor(q, f, b))
    BY <2>2, TextsNow
  <2>. QED
    BY <2>1, <2>3
<1>. QED
  BY <1>1, <1>2, <1>3 DEF Guards, IsConcat

\* An event that is no text to be guarded is let through.
LEMMA PassGuards ==
  ASSUME NEW r, NEW f, NEW q, Grown(r, f, q), ~Mark(f), NEW b, b = BlockIn(r, Len(r)),
         NEW s, NEW g, Guards(r, s, g, b), g.held = << >>,
         IsText(f) => ~g.guarding /\ r[b].type # "content_block_stop",
         NEW y, y.held = << >>, y.text = g.text, y.guarding = g.guarding, y.polluted = g.polluted
  PROVE  Guards(q, Append(s, f), y, b)
<1>0. PICK none : none = << >>
  OBVIOUS
<1>1. /\ Tracks(r, s, << >>, b)
      /\ g.guarding /\ ~g.polluted => g.text = TextIn(r, r, b) /\ TextIn(r, s \o << >>, b) = g.text
      /\ g.polluted => FloodIn(r, b)
      /\ g.guarding \/ ~Within(r, b) \/ (b # 0 /\ r[b].type = "content_block_stop")
  BY DEF Guards
<1>2. /\ BlockIn(q, Len(q)) = b
      /\ IsConcat(TextIn(q, q, b), TextIn(r, r, b), TextFor(q, f, b))
      /\ IsConcat(TextIn(q, s \o Append(none, f), b), TextIn(r, s \o none, b), TextFor(q, f, b))
      /\ TextFor(q, f, b) = IF IsText(f) THEN TextOf(f) ELSE << >>
  <2>1. Tracks(r, s, none, b)
    BY <1>0, <1>1
  <2>. QED
    BY <2>1, TextsNow
<1>3. s \in Seq(Event) /\ f \in Event /\ ReceivedIs(r) /\ Len(r) \in Nat
  BY <1>1 DEF Tracks, Grown, ReceivedIs, Readable
<1>4. s \o Append(<< >>, f) = Append(s, f) /\ Append(s, f) \o << >> = Append(s, f)
  BY <1>3, ConcatsAre
<1>5. b \in 0..Len(r) /\ (b # 0 => q[b] = r[b])
  <2>1. b \in 0..Len(r)
    BY <1>3, BlockInIs
  <2>2. b # 0 => b \in 1..Len(r)
    BY <1>3, <2>1
  <2>. QED
    BY <2>1, <2>2, GrownIs
<1>6. Within(q, b) => Within(r, b)
  BY <1>5, WithinBefore
<1>7. IsText(f) => ~Within(q, b)
  BY <1>1, <1>6
<1>8. Tracks(q, Append(s, f), << >>, b)
  BY <1>1, <1>2, <1>7, PassTracks
<1>9. y.guarding /\ ~y.polluted =>
        y.text = TextIn(q, q, b) /\ TextIn(q, Append(s, f) \o y.held, b) = y.text
  <2>1. SUFFICES ASSUME y.guarding, ~y.polluted
                 PROVE  y.text = TextIn(q, q, b) /\ TextIn(q, Append(s, f) \o y.held, b) = y.text
    OBVIOUS
  <2>2. g.text = TextIn(r, r, b) /\ TextIn(r, s \o << >>, b) = g.text /\ TextFor(q, f, b) = << >>
    BY <1>1, <1>2, <2>1
  <2>3. TextIn(r, r, b) \in Seq(Char)
    BY <1>3, TextInIs DEF ReceivedIs, Text
  <2>4. TextIn(r, r, b) \o << >> = TextIn(r, r, b)
    BY <2>3, ConcatEmptySeq
  <2>. QED
    BY <1>0, <1>2, <1>4, <2>2, <2>4 DEF IsConcat
<1>10. y.polluted => FloodIn(q, b)
  BY <1>1, FloodStays
<1>11. y.guarding \/ ~Within(q, b) \/ (b # 0 /\ q[b].type = "content_block_stop")
  BY <1>1, <1>5, <1>6
<1>. QED
  BY <1>8, <1>9, <1>10, <1>11 DEF Guards

\* The start or the end of a block is let through.
LEMMA MarkGuards ==
  ASSUME NEW r, NEW f, NEW q, Grown(r, f, q), Mark(f), NEW b, b = BlockIn(r, Len(r)),
         NEW s, Tracks(r, s, << >>, b),
         NEW y, y.held = << >>, y.text = << >>, ~y.polluted, y.guarding <=> f.type = "content_block_start",
         NEW c, c = BlockIn(q, Len(q))
  PROVE  Guards(q, Append(s, f), y, c)
<1>1. s \in Seq(Event) /\ f \in Event /\ ReceivedIs(r) /\ q = Append(r, f) /\ KeptOf(r, s \o << >>) /\ Len(r) \in Nat
  BY DEF Tracks, Grown, ReceivedIs, Readable
<1>2. c = Len(r) + 1 /\ q[c] = f /\ c # 0
  BY <1>1, GrownIs
<1>3. ~IsText(f) /\ TextFor(q, f, c) = << >>
  BY DEF IsText, Mark, TextFor
<1>4. Tracks(q, Append(s, f), << >>, c)
  BY <1>3, PassTracks
<1>5. KeptOf(r, r) /\ KeptOf(r, s)
  BY <1>1, AllIsKept, KeptParts, ConcatEmptySeq
<1>6. TextIn(r, r, c) = << >> /\ TextIn(r, s, c) = << >>
  BY <1>1, <1>2, <1>5, NewBlockHasNoText
<1>7. /\ TextIn(q, q, c) = TextIn(r, r, c) \o TextFor(q, f, c)
      /\ TextIn(q, Append(s, f), c) = TextIn(r, s, c) \o TextFor(q, f, c)
  <2>1. IsConcat(TextIn(q, Append(r, f), c), TextIn(r, r, c), TextFor(q, f, c))
    BY <1>5, TextGrows
  <2>2. IsConcat(TextIn(q, Append(s, f), c), TextIn(r, s, c), TextFor(q, f, c))
    BY <1>5, TextGrows
  <2>. QED
    BY <1>1, <2>1, <2>2 DEF IsConcat
<1>8. << >> \o << >> = << >> /\ Append(s, f) \o << >> = Append(s, f)
  BY <1>1, ConcatsAre
<1>9. TextIn(q, q, c) = << >> /\ TextIn(q, Append(s, f) \o << >>, c) = << >>
  BY <1>3, <1>6, <1>7, <1>8
<1>. QED
  BY <1>2, <1>4, <1>9 DEF Guards, Mark

\* What a guard past its bounds has let through it need not have checked.
LEMMA GivenUp ==
  ASSUME NEW r, NEW s, NEW b, Tracks(r, s, << >>, b), ~Within(r, b),
         NEW y, y.held = << >>, ~y.guarding, y.polluted => FloodIn(r, b)
  PROVE  Guards(r, s, y, b)
BY DEF Guards

LEMMA PassIs ==
  ASSUME NEW g \in Guard, NEW e \in Event
  PROVE  LET y == Pass(g, e)
         IN  /\ y.ready = Append(g.ready, e) /\ y.held = g.held /\ y.text = g.text
             /\ y.guarding = g.guarding /\ y.polluted = g.polluted
BY DEF Pass, Guard

\* Held or not, what the guard had is let through before what comes now.
LEMMA SettledGuards ==
  ASSUME NEW r, ReceivedIs(r), NEW t \in Seq(Event), NEW g, GoodGuard(g),
         NEW b, b = BlockIn(r, Len(r)), Guards(r, t \o g.ready, g, b),
         NEW x, x = (IF g.polluted THEN g ELSE FlushHeld(g)) \/ x = FlushHeld(g)
  PROVE  /\ x \in Guard /\ x.held = << >> /\ x.guarding = g.guarding
         /\ t \o x.ready \in Seq(Event) /\ Guards(r, t \o x.ready, x, b)
<1>1. g \in Guard /\ (g.polluted => g.held = << >>)
  BY DEF GoodGuard
<1>2. CASE x = FlushHeld(g)
  <2>1. x \in Guard /\ x.held = << >>
    BY <1>2, FlushKeeps DEF GoodGuard
  <2>2. x.guarding = g.guarding
    BY <1>1, <1>2, FlushIs
  <2>3. x.ready \in Seq(Event)
    BY <2>1 DEF Guard
  <2>4. t \o x.ready \in Seq(Event)
    BY <2>3
  <2>5. Guards(r, t \o x.ready, x, b)
    BY <1>2, FlushGuards
  <2>. QED
    BY <2>1, <2>2, <2>4, <2>5
<1>3. CASE x = g /\ g.polluted
  <2>1. x.ready \in Seq(Event)
    BY <1>1, <1>3 DEF Guard
  <2>2. t \o x.ready \in Seq(Event)
    BY <2>1
  <2>. QED
    BY <1>1, <1>3, <2>2
<1>. QED
  BY <1>2, <1>3

\* A block starts or ends.
LEMMA BoundaryGuards ==
  ASSUME NEW r, NEW f, NEW q, Grown(r, f, q), NEW t \in Seq(Event), NEW g, GoodGuard(g),
         NEW b, b = BlockIn(r, Len(r)), Guards(r, t \o g.ready, g, b), Mark(f),
         NEW c, c = BlockIn(q, Len(q))
  PROVE  Guards(q, t \o Consume(g, f).ready, Consume(g, f), c)
<1>1. f \in Event /\ ReceivedIs(r) /\ ~IsText(f) /\ TypeSeen(f) = f.type
  BY DEF Grown, Mark, IsText, TypeSeen
<1> DEFINE x == IF f.type = "content_block_start" \/ ~g.polluted THEN FlushHeld(g) ELSE g
           y == [x EXCEPT !.held = << >>, !.text = << >>, !.guarding = (f.type = "content_block_start"),
                          !.polluted = FALSE]
<1>2. x = (IF g.polluted THEN g ELSE FlushHeld(g)) \/ x = FlushHeld(g)
  OBVIOUS
<1>3. /\ x \in Guard /\ x.held = << >>
      /\ t \o x.ready \in Seq(Event) /\ Guards(r, t \o x.ready, x, b)
  <2>. HIDE DEF x
  <2>. QED
    BY <1>1, <1>2, SettledGuards
<1>4. Boundary(g, TypeSeen(f)) = y
  <2>1. CASE f.type = "content_block_start"
    <3>1. Boundary(g, TypeSeen(f)) = [x EXCEPT !.text = << >>, !.guarding = TRUE, !.polluted = FALSE]
      BY <1>1, <2>1 DEF Boundary
    <3>. HIDE DEF x
    <3>. QED
      BY <1>3, <2>1, <3>1 DEF Guard
  <2>2. CASE f.type = "content_block_stop"
    <3>1. Boundary(g, TypeSeen(f)) =
            [x EXCEPT !.held = << >>, !.text = << >>, !.guarding = FALSE, !.polluted = FALSE]
      BY <1>1, <2>2 DEF Boundary
    <3>. HIDE DEF x
    <3>. QED
      BY <1>3, <2>2, <3>1 DEF Guard
  <2>. QED
    BY <2>1, <2>2 DEF Mark
<1>. HIDE DEF x
<1>5. /\ y \in Guard /\ y.held = << >> /\ y.text = << >> /\ ~y.polluted /\ y.ready = x.ready
      /\ y.guarding <=> f.type = "content_block_start"
  <2>1. << >> \in Seq(Event) /\ << >> \in Text
    BY DEF Text
  <2>. QED
    BY <1>3, <2>1 DEF Guard
<1>6. FlushHeld(y) = y
  <2>1. x.ready \in Seq(Event)
    BY <1>3 DEF Guard
  <2>2. x.ready \o << >> = x.ready
    BY <2>1, ConcatEmptySeq
  <2>. HIDE DEF y
  <2>3. FlushHeld(y) = [y EXCEPT !.ready = @ \o y.held, !.held = << >>]
    BY <1>5 DEF FlushHeld
  <2>4. y.ready \o y.held = y.ready
    BY <1>5, <2>2
  <2>. QED
    BY <1>5, <2>3, <2>4 DEF Guard
<1>. HIDE DEF y
<1>7. Consume(g, f) = Pass(y, f)
  BY <1>1, <1>4, <1>5, <1>6 DEF Consume, ConsumeOther
<1>8. PICK z : z = Pass(y, f)
  OBVIOUS
<1>9. /\ z.ready = Append(x.ready, f) /\ z.held = << >> /\ z.text = << >> /\ ~z.polluted
      /\ z.guarding <=> f.type = "content_block_start"
  BY <1>1, <1>5, <1>8, PassIs
<1>10. PICK s : s = t \o x.ready
  OBVIOUS
<1>11. Tracks(r, s, << >>, b)
  BY <1>3, <1>10 DEF Guards
<1>12. Guards(q, Append(s, f), z, c)
  BY <1>9, <1>11, MarkGuards
<1>13. t \o Append(x.ready, f) = Append(s, f)
  BY <1>1, <1>3, <1>10, ConcatAppend, SMTT(30) DEF Guard
<1>. QED
  BY <1>7, <1>8, <1>9, <1>12, <1>13

\* What a held event leaves.
LEMMA HeldIs ==
  ASSUME NEW g \in Guard, NEW e \in Event
  PROVE  LET y == [g EXCEPT !.held = Append(@, e)]
         IN  /\ y.ready = g.ready /\ y.held = Append(g.held, e) /\ y.text = g.text
             /\ y.guarding = g.guarding /\ y.polluted = g.polluted
BY DEF Guard

\* An event that is no text of a guarded block.
LEMMA OtherGuards ==
  ASSUME NEW r, NEW f, NEW q, Grown(r, f, q), NEW t \in Seq(Event), NEW g, GoodGuard(g),
         NEW b, b = BlockIn(r, Len(r)), Guards(r, t \o g.ready, g, b), ~Mark(f),
         IsText(f) => ~g.guarding /\ r[b].type # "content_block_stop"
  PROVE  Guards(q, t \o ConsumeOther(g, f).ready, ConsumeOther(g, f), b)
<1>1. f \in Event /\ ReceivedIs(r) /\ g \in Guard /\ g.ready \in Seq(Event) /\ g.held \in Seq(Event)
  BY DEF Grown, GoodGuard, Guard
<1>2. PICK s : s = t \o g.ready
  OBVIOUS
<1>3. Guards(r, s, g, b)
  BY <1>2
<1>4. ReceivedIs(q) /\ BlockIn(q, Len(q)) = b
  BY GrownIs
<1>5. ASSUME g.held # << >>, TypeSeen(f) \in {"", "ping"}
      PROVE  Guards(q, t \o Hold(g, f).ready, Hold(g, f), b)
  <2> DEFINE y == [g EXCEPT !.held = Append(@, f)]
  <2>1. g.guarding /\ ~g.polluted /\ Tracks(r, s, g.held, b) /\ g.text = TextIn(r, r, b)
    BY <1>3, <1>5 DEF Guards
  <2>2. ~IsText(f) /\ Light(f)
    BY <1>5 DEF IsText, Light, TypeSeen
  <2>3. /\ y.ready = g.ready /\ y.held = Append(g.held, f) /\ y.text = g.text
        /\ y.guarding = g.guarding /\ y.polluted = g.polluted
    BY <1>1, HeldIs
  <2>. HIDE DEF y
  <2>4. TextFor(q, f, b) = << >>
    BY <2>2 DEF TextFor
  <2>5. y.text = g.text \o TextFor(q, f, b)
    <3>1. g.text \in Seq(Char)
      BY <1>1 DEF Guard, Text
    <3>. QED
      BY <2>3, <2>4, <3>1, ConcatEmptySeq
  <2>6. Guards(q, s, y, b)
    BY <1>3, <2>1, <2>2, <2>3, <2>5, HoldGuards
  <2>7. CASE Len(g.held) + 1 > MaxHeld
    <3>1. PICK h : h = Append(g.held, f)
      OBVIOUS
    <3>2. Tracks(q, s, h, b)
      BY <2>3, <2>6, <3>1 DEF Guards
    <3>3. Len(h) = Len(g.held) + 1
      BY <1>1, <3>1
    <3>4. ~Within(q, b)
      BY <1>4, <2>7, <3>2, <3>3, HeldFills
    <3> DEFINE x == FlushHeld(g)
               w == [x EXCEPT !.guarding = FALSE]
               z == Pass(w, f)
    <3>5. x \in Guard /\ x.held = << >> /\ Guards(r, t \o x.ready, x, b)
      <4>. HIDE DEF x
      <4>1. x = FlushHeld(g)
        BY DEF x
      <4>. QED
        BY <1>1, <4>1, SettledGuards
    <3>. HIDE DEF x
    <3>6. w \in Guard /\ w.held = << >> /\ w.ready = x.ready /\ ~w.guarding /\ w.polluted = x.polluted
      BY <3>5 DEF Guard
    <3>. HIDE DEF w
    <3>7. z.ready = Append(x.ready, f) /\ z.held = << >> /\ ~z.guarding /\ z.polluted = x.polluted
      BY <1>1, <3>6, PassIs
    <3>. HIDE DEF z
    <3>8. PICK v : v = t \o x.ready
      OBVIOUS
    <3>9. Tracks(r, v, << >>, b) /\ (x.polluted => FloodIn(r, b))
      BY <3>5, <3>8 DEF Guards
    <3>10. Tracks(q, Append(v, f), << >>, b)
      BY <1>4, <2>2, <3>9, PassTracks
    <3>11. z.polluted => FloodIn(q, b)
      BY <3>7, <3>9, FloodStays
    <3>12. Guards(q, Append(v, f), z, b)
      BY <3>4, <3>7, <3>10, <3>11, GivenUp
    <3>13. t \o Append(x.ready, f) = Append(v, f)
      BY <1>1, <3>5, <3>8, ConcatAppend, SMTT(30) DEF Guard
    <3>14. Hold(g, f) = z
      BY <2>7 DEF Hold, x, w, z
    <3>. QED
      BY <3>7, <3>12, <3>13, <3>14
  <2>8. CASE ~(Len(g.held) + 1 > MaxHeld)
    <3>1. Hold(g, f) = y
      BY <2>8 DEF Hold, y
    <3>. QED
      BY <1>2, <2>3, <2>6, <3>1
  <2>. QED
    BY <2>7, <2>8
<1>6. ASSUME ~(g.held # << >> /\ TypeSeen(f) \in {"", "ping"})
      PROVE  Guards(q, t \o ConsumeOther(g, f).ready, ConsumeOther(g, f), b)
  <2>1. PICK x : x = IF g.polluted THEN g ELSE FlushHeld(g)
    OBVIOUS
  <2>2. /\ x \in Guard /\ x.held = << >> /\ x.guarding = g.guarding
        /\ Guards(r, t \o x.ready, x, b)
    BY <1>1, <2>1, SettledGuards
  <2>3. PICK y : y = Pass(x, f)
    OBVIOUS
  <2>4. /\ y.ready = Append(x.ready, f) /\ y.held = << >> /\ y.text = x.text
        /\ y.guarding = x.guarding /\ y.polluted = x.polluted
    BY <1>1, <2>2, <2>3, PassIs
  <2>5. PICK v : v = t \o x.ready
    OBVIOUS
  <2>6. Guards(r, v, x, b)
    BY <2>2, <2>5
  <2>7. IsText(f) => ~x.guarding /\ r[b].type # "content_block_stop"
    BY <2>2
  <2>8. Guards(q, Append(v, f), y, b)
    BY <2>2, <2>4, <2>6, <2>7, PassGuards
  <2>9. t \o Append(x.ready, f) = Append(v, f)
    <3>1. PICK u \in Seq(Event) : u = x.ready
      BY <2>2 DEF Guard
    <3>2. t \in Seq(Event) /\ f \in Event
      BY <1>1
    <3>3. t \o Append(u, f) = Append(t \o u, f)
      BY <3>2, ConcatAppend
    <3>. QED
      BY <2>5, <3>1, <3>3
  <2>10. ConsumeOther(g, f) = y
    BY <1>6, <2>1, <2>3 DEF ConsumeOther
  <2>. QED
    BY <2>4, <2>8, <2>9, <2>10
<1>. QED
  BY <1>5, <1>6 DEF ConsumeOther

\* A block's text grows, as the guard keeps it.
LEMMA GrownText ==
  ASSUME NEW g \in Guard, NEW e \in Event, TextOf(e) \in Text
  PROVE  LET x == [g EXCEPT !.text = @ \o TextOf(e)]
         IN  /\ x \in Guard /\ x.ready = g.ready /\ x.held = g.held /\ IsConcat(x.text, g.text, TextOf(e))
             /\ x.guarding = g.guarding /\ x.polluted = g.polluted
<1>1. g.text \o TextOf(e) \in Text
  BY DEF Guard, Text
<1>. QED
  BY <1>1 DEF Guard, IsConcat

\* A text of a guarded block.
LEMMA TextGuards ==
  ASSUME NEW r, NEW f, NEW q, Grown(r, f, q), NEW t \in Seq(Event), NEW g, GoodGuard(g),
         NEW b, b = BlockIn(r, Len(r)), Guards(r, t \o g.ready, g, b), IsText(f), g.guarding
  PROVE  Guards(q, t \o ConsumeText(g, f).ready, ConsumeText(g, f), b)
<1>1. /\ f \in Event /\ ReceivedIs(r) /\ g \in Guard /\ g.ready \in Seq(Event) /\ g.held \in Seq(Event)
      /\ TextOf(f) \in Text /\ ~Mark(f) /\ Light(f) /\ (g.polluted => g.held = << >>)
  BY DEF Grown, GoodGuard, Guard, IsText, Mark, Light
<1>2. PICK s, h : s = t \o g.ready /\ h = Append(g.held, f)
  OBVIOUS
<1>3. Guards(r, s, g, b) /\ Tracks(r, s, g.held, b) /\ s \in Seq(Event) /\ h \in Seq(Event)
  BY <1>1, <1>2 DEF Guards
<1>4. ReceivedIs(q) /\ BlockIn(q, Len(q)) = b /\ Len(q) > 0
  BY <1>1, GrownIs
<1>5. Tracks(q, s, h, b)
  BY <1>1, <1>2, <1>3, HoldTracks
<1>6. CASE g.polluted
  <2>1. FloodIn(q, b)
    BY <1>3, <1>6, FloodStays DEF Guards
  <2>2. Tracks(q, s, << >>, b)
    BY <1>4, <1>5, <2>1, DropTracks
  <2>3. Guards(q, s, g, b)
    BY <1>1, <1>6, <2>1, <2>2 DEF Guards
  <2>. QED
    BY <1>2, <1>6, <2>3 DEF ConsumeText
<1>7. CASE ~g.polluted
  <2> DEFINE x == [g EXCEPT !.text = @ \o TextOf(f)]
             full == StripCode(x.text)
             lifted == FlushHeld(x)
             over == [FlushHeld(g) EXCEPT !.guarding = FALSE]
             dirty == [x EXCEPT !.held = << >>, !.polluted = TRUE]
             kept == [x EXCEPT !.held = Append(@, f)]
             spilt == [lifted EXCEPT !.guarding = FALSE]
  <2>1. /\ x \in Guard /\ x.ready = g.ready /\ x.held = g.held /\ IsConcat(x.text, g.text, TextOf(f))
        /\ x.guarding = g.guarding /\ x.polluted = g.polluted
    BY <1>1, GrownText
  <2>2. ConsumeText(g, f) = IF Len(x.text) > MaxBlockText THEN Pass(over, f)
                            ELSE IF Certain(full) THEN dirty
                            ELSE IF Forming(full) THEN Hold(x, f)
                            ELSE IF lifted.polluted THEN lifted
                            ELSE Pass(lifted, f)
    BY <1>7 DEF ConsumeText
  <2>3. Hold(x, f) = IF Len(x.held) + 1 > MaxHeld THEN Pass(spilt, f) ELSE kept
    BY DEF Hold
  <2>. HIDE DEF x
  <2>4. /\ kept.ready = x.ready /\ kept.held = Append(x.held, f) /\ kept.text = x.text
        /\ kept.guarding = x.guarding /\ kept.polluted = x.polluted
    BY <1>1, <2>1, HeldIs
  <2>. HIDE DEF kept
  <2>5. TextFor(q, f, b) = TextOf(f)
    BY <1>1, <1>3, TextsNow
  <2>6. kept.text = g.text \o TextFor(q, f, b)
    BY <2>1, <2>4, <2>5 DEF IsConcat
  <2>7. Guards(q, s, kept, b)
    BY <1>1, <1>3, <1>7, <2>1, <2>4, <2>6, HoldGuards
  <2>8. x.text = TextIn(q, q, b) /\ TextIn(q, s \o h, b) = x.text
    BY <1>2, <1>7, <2>1, <2>4, <2>7 DEF Guards
  <2>9. lifted \in Guard /\ over \in Guard /\ over.held = << >> /\ ~over.guarding
        /\ over.ready = FlushHeld(g).ready /\ over.polluted = FlushHeld(g).polluted
    <3>1. lifted \in Guard
      <4>1. << >> \in Seq(Event) /\ x.ready \o x.held \in Seq(Event)
        BY <2>1 DEF Guard
      <4>2. lifted = [x EXCEPT !.polluted = TRUE, !.held = << >>]
            \/ lifted = [x EXCEPT !.ready = @ \o x.held, !.held = << >>]
        BY DEF FlushHeld
      <4>. HIDE DEF lifted
      <4>. QED
        BY <2>1, <4>1, <4>2 DEF Guard
    <3>2. FlushHeld(g) \in Guard /\ FlushHeld(g).held = << >>
      BY FlushKeeps DEF GoodGuard
    <3>. QED
      BY <3>1, <3>2 DEF Guard
  <2>10. CASE Len(x.text) > MaxBlockText
    <3>1. ~Within(q, b)
      BY <2>8, <2>10, GuardAssumption DEF Within
    <3>2. PICK w : w = FlushHeld(g)
      OBVIOUS
    <3>3. /\ w \in Guard /\ w.held = << >> /\ Guards(r, t \o w.ready, w, b)
      BY <1>1, <3>2, SettledGuards
    <3>4. PICK v, z : v = t \o w.ready /\ z = Pass(over, f)
      OBVIOUS
    <3>5. Tracks(r, v, << >>, b) /\ (w.polluted => FloodIn(r, b))
      BY <3>3, <3>4 DEF Guards
    <3>6. Tracks(q, Append(v, f), << >>, b)
      BY <1>4, <3>1, <3>5, PassTracks
    <3>7. /\ z.ready = Append(w.ready, f) /\ z.held = << >> /\ ~z.guarding /\ z.polluted = w.polluted
      <4>. HIDE DEF over
      <4>1. over \in Guard /\ f \in Event
        BY <1>1, <2>9
      <4>2. /\ z.ready = Append(over.ready, f) /\ z.held = over.held
            /\ z.guarding = over.guarding /\ z.polluted = over.polluted
        BY <3>4, <4>1, PassIs
      <4>. QED
        BY <2>9, <3>2, <4>2
    <3>8. z.polluted => FloodIn(q, b)
      BY <3>5, <3>7, FloodStays
    <3>9. Guards(q, Append(v, f), z, b)
      BY <3>1, <3>6, <3>7, <3>8, GivenUp
    <3>10. t \o Append(w.ready, f) = Append(v, f)
      <4>1. w.ready \in Seq(Event) /\ f \in Event
        BY <1>1, <3>3 DEF Guard
      <4>2. t \o Append(w.ready, f) = Append(t \o w.ready, f)
        BY <4>1, ConcatAppend
      <4>. QED
        BY <3>4, <4>2
    <3>. QED
      BY <2>2, <2>10, <3>4, <3>7, <3>9, <3>10
  <2>11. CASE ~(Len(x.text) > MaxBlockText) /\ Certain(full)
    <3>1. FloodIn(q, b)
      BY <1>4, <2>8, <2>11, FloodNow DEF Shows
    <3>2. Tracks(q, s, << >>, b)
      BY <1>4, <1>5, <3>1, DropTracks
    <3>3. dirty.ready = g.ready /\ dirty.held = << >> /\ dirty.polluted /\ dirty.guarding
      BY <2>1 DEF Guard
    <3>. HIDE DEF dirty
    <3>4. Guards(q, s, dirty, b)
      BY <3>1, <3>2, <3>3 DEF Guards
    <3>. QED
      BY <1>2, <2>2, <2>11, <3>3, <3>4
  <2>12. /\ lifted.held = << >> /\ lifted.text = x.text /\ lifted.guarding
         /\ \/ x.held # << >> /\ Strong(full) /\ lifted.ready = g.ready /\ lifted.polluted
            \/ /\ x.held = << >> \/ ~Strong(full)
               /\ lifted.ready = g.ready \o g.held /\ ~lifted.polluted
    BY <1>7, <2>1, FlushIs
  <2>. HIDE DEF lifted
  <2>13. t \o Append(g.ready, f) = Append(s, f) /\ t \o Append(g.ready \o g.held, f) = s \o h
    <3>1. PICK u \in Seq(Event), k \in Seq(Event) : u = g.ready /\ k = g.held
      BY <1>1
    <3>2. f \in Event
      BY <1>1
    <3>3. t \o u \in Seq(Event) /\ u \o k \in Seq(Event)
      OBVIOUS
    <3>4. t \o Append(u, f) = Append(t \o u, f)
      BY <3>2, ConcatAppend
    <3>5. t \o Append(u \o k, f) = Append(t \o (u \o k), f)
      BY <3>2, <3>3, ConcatAppend
    <3>6. (t \o u) \o Append(k, f) = Append((t \o u) \o k, f)
      BY <3>2, <3>3, ConcatAppend
    <3>7. t \o (u \o k) = (t \o u) \o k
      BY ConcatAssociative, SMTT(30)
    <3>. QED
      BY <1>2, <3>1, <3>4, <3>5, <3>6, <3>7
  <2>14. CASE /\ ~(Len(x.text) > MaxBlockText) /\ ~Certain(full) /\ Forming(full)
              /\ Len(x.held) + 1 > MaxHeld
    <3>1. Len(h) = Len(g.held) + 1
      BY <1>1, <1>2
    <3>2. ~Within(q, b)
      BY <1>4, <1>5, <2>1, <2>14, <3>1, HeldFills
    <3>3. spilt \in Guard /\ spilt.held = << >> /\ spilt.ready = lifted.ready /\ ~spilt.guarding
          /\ spilt.polluted = lifted.polluted
      BY <2>9, <2>12 DEF Guard
    <3>. HIDE DEF spilt
    <3>4. PICK z : z = Pass(spilt, f)
      OBVIOUS
    <3>5. z.ready = Append(lifted.ready, f) /\ z.held = << >> /\ ~z.guarding /\ z.polluted = lifted.polluted
      BY <1>1, <3>3, <3>4, PassIs
    <3>6. ConsumeText(g, f) = z
      BY <2>2, <2>3, <2>14, <3>4
    <3>7. CASE x.held # << >> /\ Strong(full) /\ lifted.ready = g.ready /\ lifted.polluted
      <4>1. FloodIn(q, b)
        BY <1>4, <2>8, <3>7, FloodNow DEF Shows
      <4>2. Tracks(q, Append(s, f), << >>, b)
        BY <1>3, <1>4, <3>2, <4>1, PassTracks
      <4>3. Guards(q, Append(s, f), z, b)
        BY <3>2, <3>5, <4>1, <4>2, GivenUp
      <4>. QED
        BY <2>13, <3>5, <3>6, <3>7, <4>3
    <3>8. CASE lifted.ready = g.ready \o g.held /\ ~lifted.polluted
      <4>1. Tracks(q, s \o h, << >>, b)
        BY <1>4, <1>5, <3>2, LiftTracks
      <4>2. PICK v : v = s \o h
        OBVIOUS
      <4>3. Guards(q, v, z, b)
        BY <3>2, <3>5, <3>8, <4>1, <4>2, GivenUp
      <4>. QED
        BY <2>13, <3>5, <3>6, <3>8, <4>2, <4>3
    <3>. QED
      BY <2>12, <3>7, <3>8
  <2>15. CASE /\ ~(Len(x.text) > MaxBlockText) /\ ~Certain(full) /\ Forming(full)
              /\ ~(Len(x.held) + 1 > MaxHeld)
    BY <1>2, <2>1, <2>2, <2>3, <2>4, <2>7, <2>15
  <2>16. CASE ~(Len(x.text) > MaxBlockText) /\ ~Certain(full) /\ ~Forming(full)
    <3>1. ~Strong(full)
      <4>1. x.text \in Seq(Char)
        BY <2>1 DEF Guard, Text
      <4>2. full \in Seq(Char \cup {Newline})
        BY <4>1, StripIsSeq
      <4>. QED
        BY <2>16, <4>2, UncertainIsNoFlood
    <3>2. lifted.ready = g.ready \o g.held /\ ~lifted.polluted
      BY <2>12, <3>1
    <3>3. PICK z, v : z = Pass(lifted, f) /\ v = s \o h
      OBVIOUS
    <3>4. /\ z.ready = Append(g.ready \o g.held, f) /\ z.held = << >> /\ z.text = x.text
          /\ z.guarding /\ ~z.polluted
      <4>1. lifted \in Guard /\ f \in Event
        BY <1>1, <2>9
      <4>2. /\ z.ready = Append(lifted.ready, f) /\ z.held = lifted.held /\ z.text = lifted.text
            /\ z.guarding = lifted.guarding /\ z.polluted = lifted.polluted
        BY <3>3, <4>1, PassIs
      <4>. QED
        BY <2>12, <3>2, <4>2
    <3>5. Tracks(q, v, << >>, b)
      BY <1>4, <1>5, <2>8, <3>1, <3>3, LiftTracks
    <3>6. v \in Seq(Event) /\ v \o << >> = v
      <4>1. v \in Seq(Event)
        BY <1>3, <3>3
      <4>. QED
        BY <4>1, ConcatEmptySeq
    <3>7. Guards(q, v, z, b)
      BY <2>8, <3>3, <3>4, <3>5, <3>6 DEF Guards
    <3>8. ConsumeText(g, f) = z
      BY <2>2, <2>16, <3>2, <3>3
    <3>. QED
      BY <2>13, <3>3, <3>4, <3>7, <3>8
  <2>. QED
    BY <2>10, <2>11, <2>14, <2>15, <2>16
<1>. QED
  BY <1>6, <1>7

LEMMA ConsumeGuards ==
  ASSUME NEW r, NEW f, NEW q, Grown(r, f, q), NEW t \in Seq(Event), NEW g, GoodGuard(g),
         NEW b, b = BlockIn(r, Len(r)), Guards(r, t \o g.ready, g, b),
         IsText(f) => r[b].type # "content_block_stop",
         NEW c, c = BlockIn(q, Len(q))
  PROVE  Guards(q, t \o Consume(g, f).ready, Consume(g, f), c)
<1>1. CASE Mark(f)
  BY <1>1, BoundaryGuards
<1>2. CASE ~Mark(f)
  <2>1. Boundary(g, TypeSeen(f)) = g /\ c = b
    <3>1. TypeSeen(f) \notin {"content_block_start", "content_block_stop"}
      BY <1>2 DEF Mark, TypeSeen
    <3>. QED
      BY <1>2, <3>1, GrownIs DEF Boundary
  <2>2. CASE IsText(f) /\ g.guarding
    BY <2>1, <2>2, TextGuards DEF Consume
  <2>3. CASE ~(IsText(f) /\ g.guarding)
    BY <1>2, <2>1, <2>3, OtherGuards DEF Consume
  <2>. QED
    BY <2>2, <2>3
<1>. QED
  BY <1>1, <1>2

-----------------------------------------------------------------------------
(* The invariant: what the restorer is handed are events, so what it keeps  *)
(* of them is as it should be.                                              *)

\* What is left of the events received is what the guard let through and what it holds.
GuardOK ==
  /\ ReceivedIs(received)
  /\ IF mode.guarded THEN Guards(received, Passed, guard, BlockIn(received, Len(received)))
     ELSE guard.held = << >> /\ Passed = received
  /\ phase \in {"ended", "done"} => guard.held = << >>

StreamInv ==
  /\ mode \in Modes
  /\ received \in Seq(Event)
  /\ GoodGuard(guard)
  /\ HeldOK
  /\ SinksPassOnce
  /\ GuardOK

LEMMA GuardInit == StreamInit => GuardOK
<1>. SUFFICES ASSUME StreamInit  PROVE  GuardOK
  OBVIOUS
<1>1. received = << >> /\ taken = << >> /\ guard = NewGuard /\ phase = "open"
  BY DEF StreamInit, RestorerInit
<1>2. /\ guard.held = << >> /\ guard.ready = << >> /\ guard.text = << >>
      /\ guard.guarding /\ ~guard.polluted
  BY <1>1 DEF NewGuard
<1>3. PICK r : r = << >>
  OBVIOUS
<1>4. r \in Seq(Event) /\ Len(r) = 0 /\ r \o r = r
  BY <1>3
<1>5. ReceivedIs(r) /\ KeptOf(r, r)
  BY <1>4 DEF ReceivedIs, Readable, KeptOf
<1>6. BlockIn(r, Len(r)) = 0
  <2>1. BlockIn(r, 0) \in 0..0
    BY BlockInIs
  <2>. QED
    BY <1>4, <2>1
<1>7. \A b : TextIn(r, r, b) = << >>
  BY <1>4, TextInNone
<1>8. Tracks(r, r, r, 0)
  BY <1>4, <1>5, <1>7, NothingIsNoFlood DEF Tracks, OnlyFloodIsLost, NoFloodIn
<1>9. Guards(r, r, guard, 0)
  BY <1>2, <1>3, <1>4, <1>7, <1>8 DEF Guards
<1>10. Passed = r
  BY <1>1, <1>2, <1>3, <1>4 DEF Passed
<1>. QED
  BY <1>1, <1>2, <1>3, <1>5, <1>6, <1>9, <1>10 DEF GuardOK

LEMMA GuardReceives ==
  ASSUME GuardOK, GoodGuard(guard), taken \in Seq(Event), NEW f, NEW q, Grown(received, f, q),
         phase = "open", IsText(f) => InBlock # {},
         received' = q, UNCHANGED <<taken, mode, phase>>,
         guard' = IF mode.guarded THEN Consume(guard, f) ELSE Pass(guard, f)
  PROVE  GuardOK'
<1>1. PICK r, t, g : r = received /\ t = taken /\ g = guard
  OBVIOUS
<1>2. PICK b, c : b = BlockIn(r, Len(r)) /\ c = BlockIn(q, Len(q))
  OBVIOUS
<1>3. Grown(r, f, q) /\ t \in Seq(Event) /\ GoodGuard(g)
  BY <1>1
<1>4. ReceivedIs(q)
  BY <1>3, GrownIs
<1>5. CASE mode.guarded
  <2>1. Guards(r, t \o g.ready, g, b)
    BY <1>1, <1>2, <1>5 DEF GuardOK, Passed
  <2>2. IsText(f) => r[b].type # "content_block_stop"
    <3> DEFINE marks == {n \in 1..Len(r) : Mark(r[n])}
    <3>1. SUFFICES ASSUME IsText(f)  PROVE  r[b].type # "content_block_stop"
      OBVIOUS
    <3>2. marks = {n \in 1..Len(received) : received[n].type \in {"content_block_start", "content_block_stop"}}
      BY <1>1 DEF Mark
    <3>. HIDE DEF marks
    <3>3. marks # {} /\ r[Greatest(marks)].type = "content_block_start"
      BY <1>1, <3>1, <3>2 DEF InBlock
    <3>4. Greatest(marks) = b
      <4>1. Len(r) \in Nat /\ marks \in SUBSET (0..Len(r)) /\ 0 \notin marks
        BY <1>3 DEF Grown, ReceivedIs, Readable, marks
      <4>2. Greatest(marks) \in marks /\ \A m \in marks : m <= Greatest(marks)
        BY <3>3, <4>1, GreatestExists
      <4>3. b \in 0..Len(r) /\ (b = 0 \/ Mark(r[b])) /\ \A m \in 1..Len(r) : Mark(r[m]) => m <= b
        BY <1>2, <4>1, BlockInIs
      <4>4. Greatest(marks) \in 1..Len(r) /\ Greatest(marks) <= b
        BY <4>2, <4>3 DEF marks
      <4>5. b \in marks
        BY <4>1, <4>3, <4>4 DEF marks
      <4>6. b <= Greatest(marks)
        BY <4>2, <4>5
      <4>. QED
        BY <4>1, <4>3, <4>4, <4>6
    <3>. QED
      BY <3>3, <3>4
  <2>3. Guards(q, t \o Consume(g, f).ready, Consume(g, f), c)
    BY <1>2, <1>3, <2>1, <2>2, ConsumeGuards
  <2>4. guard' = Consume(g, f) /\ taken' = t
    BY <1>1, <1>5
  <2>. QED
    BY <1>2, <1>4, <1>5, <2>3, <2>4 DEF GuardOK, Passed
<1>6. CASE ~mode.guarded
  <2>1. g.held = << >> /\ t \o g.ready = r /\ f \in Event /\ q = Append(r, f)
    BY <1>1, <1>3, <1>6 DEF GuardOK, Passed, Grown
  <2>2. guard'.held = << >> /\ guard'.ready = Append(g.ready, f)
    BY <1>1, <1>6, <2>1, PassIs DEF GoodGuard
  <2>3. t \o Append(g.ready, f) = Append(t \o g.ready, f)
    <3>1. PICK u \in Seq(Event) : u = g.ready
      BY <1>3 DEF GoodGuard, Guard
    <3>2. t \in Seq(Event) /\ f \in Event
      BY <1>3, <2>1
    <3>3. t \o Append(u, f) = Append(t \o u, f)
      BY <3>2, ConcatAppend
    <3>. QED
      BY <3>1, <3>3
  <2>. QED
    BY <1>1, <1>4, <1>6, <2>1, <2>2, <2>3 DEF GuardOK, Passed
<1>. QED
  BY <1>5, <1>6

\* What is handed on is passed on before and after.
LEMMA GuardMoves ==
  ASSUME GuardOK, GoodGuard(guard), taken \in Seq(Event), guard.ready # << >>,
         taken' = Append(taken, Head(guard.ready)), guard' = [guard EXCEPT !.ready = Tail(@)],
         UNCHANGED <<mode, phase, received>>
  PROVE  GuardOK'
<1>1. guard \in Guard /\ guard.ready \in Seq(Event)
  BY DEF GoodGuard, Guard
<1>2. /\ guard'.ready = Tail(guard.ready) /\ guard'.held = guard.held /\ guard'.text = guard.text
      /\ guard'.guarding = guard.guarding /\ guard'.polluted = guard.polluted
  BY <1>1 DEF Guard
<1>3. Passed' = Passed
  <2>1. PICK u, t : u = guard.ready /\ t = taken
    OBVIOUS
  <2>2. u \in Seq(Event) /\ u # << >> /\ t \in Seq(Event)
    BY <1>1, <2>1
  <2>3. Head(u) \in Event /\ Tail(u) \in Seq(Event) /\ u = <<Head(u)>> \o Tail(u)
    BY <2>2
  <2>4. Append(t, Head(u)) = t \o <<Head(u)>> /\ <<Head(u)>> \in Seq(Event)
    BY <2>2, <2>3
  <2>5. (t \o <<Head(u)>>) \o Tail(u) = t \o (<<Head(u)>> \o Tail(u))
    BY <2>2, <2>3, <2>4, ConcatAssociative, SMTT(30)
  <2>6. Append(t, Head(u)) \o Tail(u) = t \o u
    BY <2>3, <2>4, <2>5
  <2>. QED
    BY <1>2, <2>1, <2>6 DEF Passed
<1>4. PICK r, s, g, x, b : r = received /\ s = Passed /\ g = guard /\ x = guard' /\ b = BlockIn(r, Len(r))
  OBVIOUS
<1>5. /\ x.held = g.held /\ x.text = g.text /\ x.guarding = g.guarding /\ x.polluted = g.polluted
  BY <1>2, <1>4
<1>6. Guards(r, s, g, b) => Guards(r, s, x, b)
  BY <1>5 DEF Guards
<1>7. mode.guarded => Guards(r, s, x, b)
  BY <1>4, <1>6 DEF GuardOK
<1>. QED
  BY <1>2, <1>3, <1>4, <1>7 DEF GuardOK

LEMMA GuardEnds ==
  ASSUME GuardOK, GoodGuard(guard), taken \in Seq(Event), guard' = AtEnd(guard),
         UNCHANGED <<taken, mode, received>>
  PROVE  GuardOK'
<1>1. PICK r, t, g, x, b : /\ r = received /\ t = taken /\ g = guard /\ x = AtEnd(g)
                          /\ b = BlockIn(r, Len(r))
  OBVIOUS
<1>2. ReceivedIs(r) /\ t \in Seq(Event) /\ GoodGuard(g)
  BY <1>1 DEF GuardOK
<1>3. CASE mode.guarded
  <2>1. Guards(r, t \o g.ready, g, b)
    BY <1>1, <1>3 DEF GuardOK, Passed
  <2>2. g.held # << >> => ~g.polluted
    BY <2>1 DEF Guards
  <2>3. CASE g.held = << >>
    <3>1. x = g
      BY <1>1, <2>3 DEF AtEnd
    <3>. QED
      BY <1>1, <1>2, <1>3, <2>1, <2>3, <3>1 DEF GuardOK, Passed
  <2>4. CASE g.held # << >>
    <3>1. x = FlushHeld(g)
      BY <1>1, <2>2, <2>4 DEF AtEnd
    <3>2. Guards(r, t \o x.ready, x, b) /\ x.held = << >>
      BY <1>1, <1>2, <2>1, <3>1, FlushGuards, FlushKeeps
    <3>. QED
      BY <1>1, <1>2, <1>3, <3>2 DEF GuardOK, Passed
  <2>. QED
    BY <2>3, <2>4
<1>4. CASE ~mode.guarded
  BY <1>1, <1>2, <1>4 DEF GuardOK, Passed, AtEnd
<1>. QED
  BY <1>3, <1>4

LEMMA StreamInvInit == StreamInit => StreamInv
<1>. SUFFICES ASSUME StreamInit  PROVE  StreamInv
  OBVIOUS
<1>1. pending = << >> /\ tmpl = << >> /\ out = << >> /\ taken = << >>
  BY DEF StreamInit, RestorerInit
<1>2. DOMAIN pending = {} /\ DOMAIN tmpl = {} /\ << >> \in Seq(Event)
  BY <1>1
<1>3. HeldOK
  BY <1>1, <1>2, FS_EmptySet DEF HeldOK, RestorerTypeOK, TemplatesAreBare
<1>4. SinksPassOnce
  BY <1>1 DEF SinksPassOnce
<1>. QED
  BY <1>2, <1>3, <1>4, EmptyGuard, GuardInit DEF StreamInit, StreamInv

LEMMA StreamInvStep == StreamInv /\ [StreamNext]_streamVars => StreamInv'
<1>. SUFFICES ASSUME StreamInv, [StreamNext]_streamVars  PROVE  StreamInv'
  OBVIOUS
<1>. USE DEF StreamInv
<1>1. taken \in Seq(Event)
  BY DEF HeldOK, RestorerTypeOK
<1>2. UNCHANGED restorerVars => HeldOK' /\ SinksPassOnce'
  BY DEF HeldOK, RestorerTypeOK, TemplatesAreBare, SinksPassOnce, Sinks, SinksOf, restorerVars
<1>3. ASSUME NEW e \in Offers(mode), Receive(e)  PROVE  StreamInv'
  <2> DEFINE f == [e EXCEPT !.at = Len(received) + 1]
  <2>1. Len(received) + 1 \in Nat
    OBVIOUS
  <2>2. f \in Event /\ (IsText(f) => TextOf(f) \in Text)
    BY <2>1, NumberedIsEvent
  <2>3. /\ received' = Append(received, f) /\ UNCHANGED <<pending, tmpl, mode>>
        /\ guard' = IF mode.guarded THEN Consume(guard, f) ELSE Pass(guard, f)
    BY <1>3 DEF Receive, restorerVars
  <2>. HIDE DEF f
  <2>4. GoodGuard(guard')
    BY <2>2, <2>3, ConsumeKeeps, PassKeeps
  <2>5. UNCHANGED restorerVars
    BY <1>3 DEF Receive
  <2>6. Grown(received, f, Append(received, f))
    <3>1. f.at = Len(received) + 1
      <4>1. e \in Event
        BY StreamAssumption
      <4>. QED
        BY <4>1 DEF Event, f
    <3>. QED
      BY <2>2, <3>1 DEF GuardOK, Grown
  <2>7. IsText(f) => InBlock # {}
    <3>1. Sends(e) /\ (IsText(f) => e.type = "content_block_delta")
      <4>1. f.type = e.type
        <5>1. e \in Event
          BY StreamAssumption
        <5>. QED
          BY <5>1 DEF Event, f
      <4>. QED
        BY <1>3, <4>1 DEF Receive, IsText
    <3>. QED
      BY <3>1 DEF Sends
  <2>8. phase = "open" /\ UNCHANGED <<taken, mode, phase>>
    BY <1>3 DEF Receive, restorerVars
  <2>9. GuardOK'
    BY <1>1, <2>3, <2>6, <2>7, <2>8, GuardReceives
  <2>. QED
    BY <1>2, <2>2, <2>3, <2>4, <2>5, <2>9
<1>4. ASSUME guard.ready # << >>, guard' = [guard EXCEPT !.ready = Tail(@)]
      PROVE  Head(guard.ready) \in Event /\ GoodGuard(guard')
  <2>1. guard.ready \in Seq(Event)
    BY DEF GoodGuard, Guard
  <2>2. Head(guard.ready) \in Event /\ Tail(guard.ready) \in Seq(Event)
    BY <1>4, <2>1
  <2>. QED
    BY <1>4, <2>2 DEF GoodGuard, Guard
<1>5. CASE Restore
  <2> DEFINE e == Head(guard.ready)
  <2>1. e \in Event /\ GoodGuard(guard')
    BY <1>4, <1>5 DEF Restore
  <2>2. taken' = Append(taken, e) /\ (TakePlain(e) \/ TakeStop(e) \/ TakeDelta(e))
    BY <1>5 DEF Restore, Take
  <2>. HIDE DEF e
  <2>3. HeldOK' /\ Writes(e)
    BY <2>1, <2>2, TakeWrites
  <2>4. PICK more \in Seq(Event) : out' = out \o more /\ Sinks(more) = SinksOf(e)
    BY <2>3 DEF Writes
  <2>5. SinksPassOnce'
    BY <2>1, <2>2, <2>4, SinksGrow
  <2>6. GuardOK'
    <3>1. /\ guard.ready # << >> /\ taken' = Append(taken, Head(guard.ready))
          /\ guard' = [guard EXCEPT !.ready = Tail(@)] /\ UNCHANGED <<mode, phase, received>>
      BY <1>5 DEF Restore, Take
    <3>. QED
      BY <1>1, <3>1, GuardMoves
  <2>. QED
    BY <1>5, <2>1, <2>3, <2>5, <2>6 DEF Restore
<1>6. CASE Copy
  <2>1. GoodGuard(guard')
    BY <1>4, <1>6 DEF Copy
  <2> DEFINE e == Head(guard.ready)
  <2>2. e \in Event
    BY <1>4, <1>6 DEF Copy
  <2>3. taken' = Append(taken, e) /\ out' = Append(out, e) /\ UNCHANGED <<pending, tmpl>>
    BY <1>6 DEF Copy
  <2>. HIDE DEF e
  <2>4. out \in Seq(Event) /\ taken \in Seq(Event)
    BY DEF HeldOK, RestorerTypeOK
  <2>5. out' \in Seq(Event) /\ taken' \in Seq(Event) /\ out' = out \o <<e>> /\ <<e>> \in Seq(Event)
    BY <2>2, <2>3, <2>4
  <2>6. SinksPassOnce'
    BY <2>2, <2>3, <2>5, SinksGrow, SinksOfOne
  <2>7. HeldOK'
    BY <2>3, <2>5 DEF HeldOK, RestorerTypeOK, TemplatesAreBare
  <2>8. GuardOK'
    <3>1. /\ guard.ready # << >> /\ taken' = Append(taken, Head(guard.ready))
          /\ guard' = [guard EXCEPT !.ready = Tail(@)] /\ UNCHANGED <<mode, phase, received>>
      BY <1>6 DEF Copy
    <3>. QED
      BY <1>1, <3>1, GuardMoves
  <2>. QED
    BY <1>6, <2>1, <2>6, <2>7, <2>8 DEF Copy
<1>7. CASE EndOfStream
  <2>1. GoodGuard(guard')
    BY <1>7, FlushKeeps DEF EndOfStream, AtEnd
  <2>2. guard' = AtEnd(guard) /\ UNCHANGED <<taken, mode, received>>
    BY <1>7 DEF EndOfStream, restorerVars
  <2>3. GuardOK'
    BY <1>1, <2>2, GuardEnds
  <2>. QED
    BY <1>2, <1>7, <2>1, <2>3 DEF EndOfStream
<1>8. CASE Finish
  <2>1. Final /\ UNCHANGED <<guard, mode, received>>
    BY <1>8 DEF Finish
  <2>2. HeldOK'
    BY <2>1, FinalWrites
  <2>3. PICK more \in Seq(Event) : out' = out \o more /\ Sinks(more) = << >>
    BY <2>1, FinalWrites
  <2>4. Sinks(out') = Sinks(out) \o << >> /\ Sinks(out) \in Seq(Part) /\ taken' = taken
    BY <2>1, <2>3, SinksOfConcat, SinksAreParts DEF HeldOK, RestorerTypeOK, Final
  <2>5. SinksPassOnce'
    BY <2>4, ConcatEmptySeq DEF SinksPassOnce, Sinks, SinksOf
  <2>6. GuardOK'
    <3>1. UNCHANGED <<taken, guard, mode, received>> /\ phase = "ended"
      BY <1>8 DEF Finish, Final
    <3>. QED
      BY <3>1 DEF GuardOK, Passed
  <2>. QED
    BY <2>1, <2>2, <2>5, <2>6
<1>9. CASE ClientLeaves \/ UNCHANGED streamVars
  <2>1. UNCHANGED <<restorerVars, guard, mode, received>>
    BY <1>9 DEF ClientLeaves, streamVars
  <2>2. UNCHANGED <<taken, guard, mode, received>> /\ (phase' = "left" \/ phase' = phase)
    BY <1>9 DEF ClientLeaves, streamVars, restorerVars
  <2>3. GuardOK'
    BY <2>2 DEF GuardOK, Passed
  <2>. QED
    BY <1>2, <2>1, <2>3
<1>. QED
  BY <1>3, <1>5, <1>6, <1>7, <1>8, <1>9 DEF StreamNext

\* What of the events received was not dropped.
LEMMA KeptIs ==
  ASSUME StreamInv
  PROVE  LET kept == Passed \o guard.held
         IN  KeptOf(received, kept) /\ OnlyFloodIsLost(received, kept)
<1>1. PICK r, s, h, b : r = received /\ s = Passed /\ h = guard.held /\ b = BlockIn(r, Len(r))
  OBVIOUS
<1>2. ReceivedIs(r) /\ r \in Seq(Event)
  BY <1>1 DEF StreamInv, GuardOK, ReceivedIs, Readable
<1>3. CASE mode.guarded
  <2>1. Tracks(r, s, h, b)
    BY <1>1, <1>3 DEF StreamInv, GuardOK, Guards
  <2>. QED
    BY <1>1, <2>1 DEF Tracks
<1>4. CASE ~mode.guarded
  <2>1. s = r /\ h = << >>
    BY <1>1, <1>4 DEF StreamInv, GuardOK
  <2>2. s \o h = r
    BY <1>2, <2>1, ConcatEmptySeq
  <2>3. KeptOf(r, r) /\ OnlyFloodIsLost(r, r)
    BY <1>2, AllIsKept DEF OnlyFloodIsLost, ReceivedIs
  <2>. QED
    BY <1>1, <2>2, <2>3
<1>. QED
  BY <1>3, <1>4

-----------------------------------------------------------------------------
(* The ends of blocks.                                                     *)

\* The last that was said of block j is that it ended.
Closed(s, j) ==
  \E m \in 1..Len(s) :
    /\ s[m].type = "content_block_stop" /\ s[m].index = j
    /\ \A k \in m + 1..Len(s) : ~(s[k].type = "content_block_start" /\ s[k].index = j)

\* TailBeforeStop, of any events.
InTime(s) ==
  \A m, n \in 1..Len(s) :
    /\ m < n
    /\ s[m].type = "content_block_stop"
    /\ SlotText(s[n], s[m].index) # << >>
    => \E k \in m + 1..n - 1 : s[k].type = "content_block_start" /\ s[k].index = s[m].index

\* An event with no text for a block that has ended.
Timely(s, e) == \A j : Closed(s, j) => SlotText(e, j) = << >>

LEMMA SlotTextIs ==
  ASSUME NEW e \in Event, NEW i, SlotText(e, i) # << >>
  PROVE  \E k \in 1..Len(e.parts) : k \in Displayed(e) /\ e.parts[k].idx = i /\ e.parts[k].text # << >>
<1> DEFINE mine == {k \in 1..Len(e.parts) : Claims(e, k) /\ e.parts[k].idx = i}
<1>1. mine # {} /\ SlotText(e, i) = e.parts[Least(mine)].text
  BY DEF SlotText
<1>2. Len(e.parts) \in Nat /\ mine \in SUBSET Nat
  BY PartsOfEvent
<1>3. Least(mine) \in mine
  <2>. HIDE DEF mine
  <2>. QED
    BY <1>1, <1>2, LeastExists
<1>. QED
  BY <1>1, <1>3 DEF Claims

LEMMA ClosedGrows ==
  ASSUME NEW s \in Seq(Event), NEW e \in Event, NEW j
  PROVE  Closed(Append(s, e), j) <=> \/ e.type = "content_block_stop" /\ e.index = j
                                     \/ Closed(s, j) /\ ~(e.type = "content_block_start" /\ e.index = j)
<1> DEFINE q == Append(s, e)
<1>1. Len(s) \in Nat /\ Len(q) = Len(s) + 1 /\ q[Len(s) + 1] = e /\ \A n \in 1..Len(s) : q[n] = s[n]
  OBVIOUS
<1>. HIDE DEF q
<1>2. ASSUME Closed(q, j), ~(e.type = "content_block_stop" /\ e.index = j)
      PROVE  Closed(s, j) /\ ~(e.type = "content_block_start" /\ e.index = j)
  <2>1. PICK m \in 1..Len(q) : /\ q[m].type = "content_block_stop" /\ q[m].index = j
                               /\ \A k \in m + 1..Len(q) : ~(q[k].type = "content_block_start" /\ q[k].index = j)
    BY <1>2 DEF Closed
  <2>2. m \in 1..Len(s)
    BY <1>1, <1>2, <2>1
  <2>3. Len(s) + 1 \in m + 1..Len(q) /\ \A k \in m + 1..Len(s) : k \in m + 1..Len(q) /\ q[k] = s[k]
    BY <1>1, <2>2
  <2>. QED
    BY <1>1, <2>1, <2>2, <2>3 DEF Closed
<1>3. ASSUME e.type = "content_block_stop" /\ e.index = j  PROVE  Closed(q, j)
  <2>1. Len(q) \in 1..Len(q) /\ q[Len(q)] = e /\ Len(q) + 1..Len(q) = {}
    BY <1>1
  <2>. QED
    BY <1>3, <2>1 DEF Closed
<1>4. ASSUME Closed(s, j), ~(e.type = "content_block_start" /\ e.index = j)  PROVE  Closed(q, j)
  <2>1. PICK m \in 1..Len(s) : /\ s[m].type = "content_block_stop" /\ s[m].index = j
                               /\ \A k \in m + 1..Len(s) : ~(s[k].type = "content_block_start" /\ s[k].index = j)
    BY <1>4 DEF Closed
  <2>2. m \in 1..Len(q) /\ q[m] = s[m]
    BY <1>1
  <2>3. ASSUME NEW k \in m + 1..Len(q)  PROVE  ~(q[k].type = "content_block_start" /\ q[k].index = j)
    <3>1. (k \in m + 1..Len(s) /\ q[k] = s[k]) \/ q[k] = e
      BY <1>1
    <3>. QED
      BY <1>4, <2>1, <3>1
  <2>. QED
    BY <2>1, <2>2, <2>3 DEF Closed
<1>. QED
  BY <1>2, <1>3, <1>4 DEF q

LEMMA InTimeGrows ==
  ASSUME NEW s \in Seq(Event), InTime(s), NEW e \in Event, Timely(s, e)
  PROVE  InTime(Append(s, e))
<1> DEFINE q == Append(s, e)
<1>1. Len(s) \in Nat /\ Len(q) = Len(s) + 1 /\ q[Len(s) + 1] = e /\ \A n \in 1..Len(s) : q[n] = s[n]
  OBVIOUS
<1>. HIDE DEF q
<1>2. SUFFICES ASSUME NEW m \in 1..Len(q), NEW n \in 1..Len(q), m < n, q[m].type = "content_block_stop",
                      SlotText(q[n], q[m].index) # << >>
               PROVE  \E k \in m + 1..n - 1 : q[k].type = "content_block_start" /\ q[k].index = q[m].index
  BY DEF InTime, q
<1>3. m \in 1..Len(s) /\ q[m] = s[m]
  BY <1>1, <1>2
<1>4. \A k \in m + 1..n - 1 : q[k] = s[k]
  BY <1>1, <1>3
<1>5. CASE n \in 1..Len(s)
  <2>1. q[n] = s[n]
    BY <1>1, <1>5
  <2>2. \E k \in m + 1..n - 1 : s[k].type = "content_block_start" /\ s[k].index = s[m].index
    BY <1>2, <1>3, <1>5, <2>1 DEF InTime
  <2>. QED
    BY <1>3, <1>4, <2>2
<1>6. CASE n \notin 1..Len(s)
  <2>1. n = Len(s) + 1 /\ q[n] = e /\ m + 1..n - 1 = m + 1..Len(s)
    BY <1>1, <1>6
  <2>2. ~Closed(s, s[m].index)
    BY <1>2, <1>3, <2>1 DEF Timely
  <2>3. \E k \in m + 1..Len(s) : s[k].type = "content_block_start" /\ s[k].index = s[m].index
    BY <1>2, <1>3, <2>2 DEF Closed
  <2>. QED
    BY <1>3, <1>4, <2>1, <2>3
<1>. QED
  BY <1>5, <1>6

\* Events that are no block's start or end, with no text for an ended block.
LEMMA InTimeFlushes ==
  ASSUME NEW s \in Seq(Event), InTime(s), NEW x \in Seq(Event),
         \A n \in 1..Len(x) : ~Mark(x[n]) /\ Timely(s, x[n])
  PROVE  InTime(s \o x) /\ \A j : Closed(s \o x, j) <=> Closed(s, j)
<1> DEFINE q == s \o x
<1>1. /\ q \in Seq(Event) /\ Len(s) \in Nat /\ Len(x) \in Nat /\ Len(q) = Len(s) + Len(x)
      /\ \A n \in 1..Len(s) : q[n] = s[n]
      /\ \A n \in 1..Len(x) : q[Len(s) + n] = x[n]
  BY ConcatProperties
<1>. HIDE DEF q
<1>2. ASSUME NEW n \in 1..Len(q), n > Len(s)  PROVE  ~Mark(q[n]) /\ Timely(s, q[n])
  <2>1. n - Len(s) \in 1..Len(x) /\ q[n] = x[n - Len(s)]
    <3>1. n - Len(s) \in 1..Len(x) /\ Len(s) + (n - Len(s)) = n
      BY <1>1, <1>2
    <3>. QED
      BY <1>1, <3>1
  <2>. QED
    BY <2>1
<1>3. ASSUME NEW j  PROVE  Closed(q, j) <=> Closed(s, j)
  <2>1. ASSUME Closed(q, j)  PROVE  Closed(s, j)
    <3>1. PICK m \in 1..Len(q) : /\ q[m].type = "content_block_stop" /\ q[m].index = j
                                 /\ \A k \in m + 1..Len(q) : ~(q[k].type = "content_block_start" /\ q[k].index = j)
      BY <2>1 DEF Closed
    <3>2. m \in 1..Len(s)
      BY <1>1, <1>2, <3>1 DEF Mark
    <3>3. \A k \in m + 1..Len(s) : k \in m + 1..Len(q) /\ q[k] = s[k]
      BY <1>1, <3>2
    <3>. QED
      BY <1>1, <3>1, <3>2, <3>3 DEF Closed
  <2>2. ASSUME Closed(s, j)  PROVE  Closed(q, j)
    <3>1. PICK m \in 1..Len(s) : /\ s[m].type = "content_block_stop" /\ s[m].index = j
                                 /\ \A k \in m + 1..Len(s) : ~(s[k].type = "content_block_start" /\ s[k].index = j)
      BY <2>2 DEF Closed
    <3>2. m \in 1..Len(q) /\ q[m] = s[m]
      BY <1>1
    <3>3. ASSUME NEW k \in m + 1..Len(q)  PROVE  ~(q[k].type = "content_block_start" /\ q[k].index = j)
      <4>1. CASE k <= Len(s)
        BY <1>1, <3>1, <4>1
      <4>2. CASE k > Len(s)
        <5>1. k \in 1..Len(q)
          BY <1>1
        <5>. QED
          BY <1>2, <4>2, <5>1 DEF Mark
      <4>. QED
        BY <1>1, <4>1, <4>2
    <3>. QED
      BY <3>1, <3>2, <3>3 DEF Closed
  <2>. QED
    BY <2>1, <2>2
<1>4. InTime(q)
  <2>1. SUFFICES ASSUME NEW m \in 1..Len(q), NEW n \in 1..Len(q), m < n, q[m].type = "content_block_stop",
                        SlotText(q[n], q[m].index) # << >>
                 PROVE  \E k \in m + 1..n - 1 : q[k].type = "content_block_start" /\ q[k].index = q[m].index
    BY DEF InTime
  <2>2. m \in 1..Len(s) /\ q[m] = s[m]
    BY <1>1, <1>2, <2>1 DEF Mark
  <2>3. CASE n <= Len(s)
    <3>1. n \in 1..Len(s) /\ q[n] = s[n] /\ \A k \in m + 1..n - 1 : q[k] = s[k]
      BY <1>1, <2>2, <2>3, SMTT(30)
    <3>2. \E k \in m + 1..n - 1 : s[k].type = "content_block_start" /\ s[k].index = s[m].index
      BY <2>1, <2>2, <3>1 DEF InTime
    <3>. QED
      BY <2>2, <3>1, <3>2
  <2>4. CASE n > Len(s)
    <3>1. ~Closed(s, s[m].index)
      BY <1>2, <2>1, <2>2, <2>4 DEF Timely
    <3>2. PICK k \in m + 1..Len(s) : s[k].type = "content_block_start" /\ s[k].index = s[m].index
      BY <2>1, <2>2, <3>1 DEF Closed
    <3>3. k \in m + 1..n - 1 /\ q[k] = s[k]
      BY <1>1, <2>2, <2>4
    <3>. QED
      BY <2>2, <3>2, <3>3
  <2>. QED
    BY <1>1, <2>3, <2>4
<1>. QED
  BY <1>3, <1>4 DEF q

\* A text is received in a block of its slot, or before any block.
InPlace(r, n, i) ==
  \/ \A m \in 1..n - 1 : ~Mark(r[m])
  \/ \E m \in 1..n - 1 : /\ r[m].type = "content_block_start" /\ r[m].index = i
                         /\ \A l \in m + 1..n - 1 : ~Mark(r[l])

Placed(r) == \A n \in 1..Len(r) : \A k \in Displayed(r[n]) : InPlace(r, n, r[n].parts[k].idx)

\* An event whose texts are all for blocks that have not ended.
Current(s, e) == \A k \in Displayed(e) : ~Closed(s, e.parts[k].idx)

LEMMA CurrentIsTimely ==
  ASSUME NEW s, NEW e \in Event, Current(s, e)
  PROVE  Timely(s, e)
BY SlotTextIs DEF Current, Timely

\* What is left of a block's text comes while its block is open.
LEMMA KeptIsTimely ==
  ASSUME NEW r \in Seq(Event), Placed(r), NEW s, KeptOf(r, s),
         \A m \in 1..Len(r) : Mark(r[m]) => \E q \in 1..Len(s) : s[q].at = m,
         NEW t \in Seq(Event), NEW n \in 1..Len(s), Len(t) = n - 1, \A i \in 1..n - 1 : t[i] = s[i]
  PROVE  Current(t, s[n])
<1>1. Len(r) \in Nat /\ Len(s) \in Nat /\ s[n] \in Event
  BY DEF KeptOf
<1>2. SUFFICES ASSUME NEW k \in Displayed(s[n]), Closed(t, s[n].parts[k].idx)  PROVE  FALSE
  BY DEF Current
<1>3. PICK j : s[n].parts[k].idx = j /\ Closed(t, j)
  BY <1>2
<1>4. PICK a \in 1..Len(r) : a = s[n].at /\ r[a] = s[n]
  BY DEF KeptOf
<1>5. InPlace(r, a, j)
  BY <1>3, <1>4 DEF Placed
<1>6. PICK p \in 1..Len(t) : /\ t[p].type = "content_block_stop" /\ t[p].index = j
                             /\ \A l \in p + 1..Len(t) : ~(t[l].type = "content_block_start" /\ t[l].index = j)
  BY <1>3 DEF Closed
<1>7. p \in 1..n - 1 /\ p \in 1..Len(s) /\ s[p] = t[p] /\ p < n
  BY <1>1, <1>6
<1>8. PICK c \in 1..Len(r) : c = s[p].at /\ r[c] = s[p] /\ c < a
  BY <1>4, <1>7 DEF KeptOf
<1>9. Mark(r[c]) /\ c \in 1..a - 1
  BY <1>6, <1>7, <1>8 DEF Mark
<1>10. PICK m \in 1..a - 1 : /\ r[m].type = "content_block_start" /\ r[m].index = j
                             /\ \A l \in m + 1..a - 1 : ~Mark(r[l])
  BY <1>5, <1>9 DEF InPlace
<1>11. PICK q \in 1..Len(s) : s[q].at = m /\ r[m] = s[q]
  <2>1. m \in 1..Len(r) /\ Mark(r[m])
    BY <1>10 DEF Mark
  <2>2. PICK q \in 1..Len(s) : s[q].at = m
    BY <2>1
  <2>3. r[s[q].at] = s[q]
    BY DEF KeptOf
  <2>. QED
    BY <2>2, <2>3
<1>12. c < m
  <2>1. c \notin m + 1..a - 1
    BY <1>9, <1>10
  <2>2. c # m
    BY <1>6, <1>7, <1>8, <1>10
  <2>. QED
    BY <1>9, <2>1, <2>2
<1>13. p < q
  <2>1. q < p => m < c
    BY <1>7, <1>8, <1>11 DEF KeptOf
  <2>2. q # p
    BY <1>8, <1>11, <1>12
  <2>. QED
    BY <1>7, <1>12, <2>1, <2>2
<1>14. q < n
  <2>1. n < q => a < m
    BY <1>4, <1>11 DEF KeptOf
  <2>2. q # n
    BY <1>4, <1>10, <1>11
  <2>. QED
    BY <1>10, <2>1, <2>2
<1>15. q \in p + 1..Len(t) /\ t[q] = s[q]
  BY <1>1, <1>7, <1>13, <1>14
<1>. QED
  BY <1>6, <1>10, <1>11, <1>15

\* An event of the answer, as it was offered.
Offered(m, e) == \E o \in Offers(m) : e.type = o.type /\ e.index = o.index /\ e.parts = o.parts

LEMMA DisplayedIsOf ==
  ASSUME NEW e, NEW o, e.parts = o.parts
  PROVE  Displayed(e) = Displayed(o)
BY DEF Displayed

LEMMA OfferedIs ==
  ASSUME mode \in Modes, NEW e, Offered(mode, e), Displayed(e) # {}
  PROVE  ~Mark(e)
<1>1. PICK o \in Offers(mode) : e.type = o.type /\ e.index = o.index /\ e.parts = o.parts
  BY DEF Offered
<1>2. PICK k : k \in Displayed(o)
  BY <1>1 DEF Displayed
<1>. QED
  BY <1>1, <1>2, ShapeAssumption DEF Mark

LEMMA ReceivesInPlace ==
  ASSUME mode \in Modes, received \in Seq(Event), Placed(received), NEW e \in Offers(mode), Sends(e), NEW f \in Event,
         f.type = e.type, f.index = e.index, f.parts = e.parts,
         \A n \in 1..Len(received) : Offered(mode, received[n])
  PROVE  Placed(Append(received, f)) /\ Offered(mode, f)
<1>1. PICK r, q : r = received /\ q = Append(received, f)
  OBVIOUS
<1>2. /\ Len(r) \in Nat /\ Len(q) = Len(r) + 1 /\ q[Len(r) + 1] = f
      /\ \A n \in 1..Len(r) : q[n] = r[n] /\ r[n] \in Event
  BY <1>1
<1>3. ASSUME NEW k \in Displayed(f)  PROVE  InPlace(r, Len(r) + 1, f.parts[k].idx)
  <2>1. k \in Displayed(e)
    BY <1>3 DEF Displayed
  <2>2. CASE \A o \in Offers(mode) : o.type \notin {"content_block_start", "content_block_stop"}
    <3>1. \A n \in 1..Len(r) : ~Mark(r[n])
      BY <1>1, <2>2 DEF Offered, Mark
    <3>. QED
      BY <1>2, <3>1 DEF InPlace
  <2>3. CASE e.type = "content_block_delta" /\ e.parts[k].idx = e.index
    <3> DEFINE marks == {n \in 1..Len(r) : r[n].type \in {"content_block_start", "content_block_stop"}}
               m == Greatest(marks)
    <3>1. e.index \in InBlock /\ InBlock = IF marks = {} THEN {}
                                           ELSE IF r[m].type = "content_block_start" THEN {r[m].index} ELSE {}
      BY <1>1, <2>3 DEF Sends, InBlock
    <3>2. marks # {} /\ r[m].type = "content_block_start" /\ r[m].index = e.index
      BY <3>1
    <3>3. m \in marks /\ \A l \in marks : l <= m
      <4>1. marks \in SUBSET (0..Len(r)) /\ Len(r) \in Nat
        BY <1>2
      <4>. HIDE DEF marks
      <4>. QED
        BY <3>2, <4>1, GreatestExists
    <3>4. m \in 1..Len(r) /\ \A l \in m + 1..Len(r) : ~Mark(r[l])
      <4>1. m \in 1..Len(r)
        BY <3>3
      <4>2. \A l \in 1..Len(r) : Mark(r[l]) => l <= m
        BY <3>3 DEF Mark
      <4>. HIDE DEF m
      <4>. QED
        BY <1>2, <4>1, <4>2
    <3>. HIDE DEF m, marks
    <3>. QED
      BY <1>2, <2>3, <3>2, <3>4 DEF InPlace
  <2>. QED
    BY <2>1, <2>2, <2>3, ShapeAssumption
<1>4. ASSUME NEW n \in 1..Len(q), NEW k \in Displayed(q[n])  PROVE  InPlace(q, n, q[n].parts[k].idx)
  <2>1. \A m \in 1..n - 1 : q[m] = r[m]
    BY <1>2
  <2>2. InPlace(r, n, q[n].parts[k].idx)
    <3>1. CASE n \in 1..Len(r)
      BY <1>1, <1>2, <1>4, <3>1 DEF Placed
    <3>2. CASE n \notin 1..Len(r)
      <4>1. n = Len(r) + 1 /\ q[n] = f
        BY <1>2, <3>2
      <4>. QED
        BY <1>3, <1>4, <4>1
    <3>. QED
      BY <3>1, <3>2
  <2>3. n \in Nat
    BY <1>2
  <2>4. ASSUME NEW m \in 1..n - 1, \A l \in m + 1..n - 1 : ~Mark(r[l])
        PROVE  q[m] = r[m] /\ \A l \in m + 1..n - 1 : ~Mark(q[l])
    <3>1. \A l \in m + 1..n - 1 : l \in 1..n - 1
      BY <2>3
    <3>. QED
      BY <2>1, <2>4, <3>1
  <2>. QED
    BY <2>1, <2>2, <2>4 DEF InPlace
<1>. QED
  BY <1>1, <1>4 DEF Placed, Offered

\* The client is told the ends of blocks as the restorer is, and in time.
EndsTold ==
  /\ InTime(out)
  /\ \A j : Closed(out, j) <=> Closed(taken, j)
  /\ \A j \in DOMAIN pending : ~Closed(taken, j) /\ ~Mark(tmpl[j].event)

EndsOK ==
  /\ \A n \in 1..Len(received) : Offered(mode, received[n])
  /\ Placed(received)
  /\ mode.restoring \/ DOMAIN pending = {}
  /\ EndsTold

LEMMA HeadIsCurrent ==
  ASSUME StreamInv, EndsOK, guard.ready # << >>
  PROVE  LET e == Head(guard.ready)
         IN  e \in Event /\ Current(taken, e) /\ Offered(mode, e) /\ (Displayed(e) # {} => ~Mark(e))
<1>1. PICK r, t, u, h, e : r = received /\ t = taken /\ u = guard.ready /\ h = guard.held /\ e = Head(u)
  OBVIOUS
<1>2. /\ r \in Seq(Event) /\ t \in Seq(Event) /\ u \in Seq(Event) /\ u # << >> /\ h \in Seq(Event)
      /\ mode \in Modes
  BY <1>1 DEF StreamInv, HeldOK, RestorerTypeOK, GoodGuard, Guard
<1>3. PICK s : s = (t \o u) \o h
  OBVIOUS
<1>4. KeptOf(r, s) /\ OnlyFloodIsLost(r, s)
  BY <1>1, <1>3, KeptIs DEF Passed
<1>5. PICK n : n = Len(t) + 1
  OBVIOUS
<1>6. /\ e \in Event /\ n \in 1..Len(s) /\ Len(t) = n - 1 /\ s[n] = e /\ \A i \in 1..n - 1 : t[i] = s[i]
  <2>1. PICK v : v = t \o u
    OBVIOUS
  <2>2. /\ v \in Seq(Event) /\ Len(v) = Len(t) + Len(u) /\ Len(t) \in Nat /\ Len(u) \in Nat /\ Len(u) > 0
        /\ \A i \in 1..Len(t) : v[i] = t[i]
        /\ v[Len(t) + 1] = u[1]
    BY <1>2, <2>1
  <2>3. Len(s) = Len(v) + Len(h) /\ Len(h) \in Nat /\ \A i \in 1..Len(v) : s[i] = v[i]
    BY <1>2, <1>3, <2>1, <2>2
  <2>4. e = u[1] /\ e \in Event
    BY <1>1, <1>2
  <2>. QED
    BY <1>5, <2>2, <2>3, <2>4
<1>7. \A m \in 1..Len(r) : Mark(r[m]) => \E q \in 1..Len(s) : s[q].at = m
  BY <1>4 DEF OnlyFloodIsLost, Mark, Light, IsText, TypeSeen
<1>8. Current(t, s[n])
  <2>1. Placed(r)
    BY <1>1 DEF EndsOK
  <2>. QED
    BY <1>2, <1>4, <1>6, <1>7, <2>1, KeptIsTimely
<1>9. Offered(mode, e)
  BY <1>1, <1>4, <1>6 DEF EndsOK, KeptOf
<1>. QED
  BY <1>1, <1>2, <1>6, <1>8, <1>9, OfferedIs

LEMMA FlushIsTimely ==
  ASSUME HeldOK, NEW i \in DOMAIN pending, ~Mark(tmpl[i].event), NEW s, ~Closed(s, i)
  PROVE  FlushEvent(i) \in Event /\ ~Mark(FlushEvent(i)) /\ Timely(s, FlushEvent(i))
<1> DEFINE f == FlushEvent(i)
<1>1. PICK t, e, o, p : t = tmpl[i] /\ e = t.event /\ o = t.own /\ p = pending[i]
  OBVIOUS
<1>2. t \in Template /\ BareTemplate(t, i) /\ f \in Event
  BY <1>1, BareAre, FlushIsBare DEF HeldOK, RestorerTypeOK
<1>3. e \in Event /\ o \in 1..Len(e.parts)
  BY <1>1, <1>2 DEF Template, BareTemplate
<1>4. f = [e EXCEPT !.parts = [e.parts EXCEPT ![o] = [e.parts[o] EXCEPT !.text = p]]]
  BY <1>1 DEF FlushEvent
<1>5. PICK new : new = [e.parts EXCEPT ![o] = [e.parts[o] EXCEPT !.text = p]]
  OBVIOUS
<1>6. f.type = e.type /\ f.parts = new
  BY <1>3, <1>4, <1>5 DEF Event
<1>7. /\ DOMAIN e.parts = 1..Len(e.parts) /\ Len(e.parts) \in Nat
      /\ \A k \in 1..Len(e.parts) : e.parts[k] \in Part
  BY <1>3, PartsOfEvent
<1>8. /\ new[o].idx = e.parts[o].idx /\ Len(new) = Len(e.parts)
      /\ \A k \in 1..Len(e.parts) : k # o => new[k] = e.parts[k]
  <2>1. new[o] = [e.parts[o] EXCEPT !.text = p] /\ e.parts[o] \in Part
    BY <1>3, <1>5, <1>7
  <2>2. new[o].idx = e.parts[o].idx
    BY <2>1 DEF Part
  <2>3. DOMAIN new = DOMAIN e.parts /\ \A k \in 1..Len(e.parts) : k # o => new[k] = e.parts[k]
    BY <1>5, <1>7
  <2>4. new \in Seq(Part)
    <3>1. f.parts \in Seq(Part)
      BY <1>2, PartsOfEvent
    <3>. QED
      BY <1>6, <3>1
  <2>5. Len(new) = Len(e.parts)
    BY <1>7, <2>3, <2>4
  <2>. QED
    BY <2>2, <2>3, <2>5
<1>. HIDE DEF f
<1>9. ASSUME NEW j, SlotText(f, j) # << >>  PROVE  j = i
  <2>1. PICK k \in 1..Len(f.parts) : f.parts[k].idx = j /\ f.parts[k].text # << >>
    BY <1>2, <1>9, SlotTextIs
  <2>2. k \in 1..Len(e.parts) /\ new[k].idx = j /\ new[k].text # << >>
    BY <1>6, <1>8, <2>1
  <2>3. e.parts[k].text = << >> /\ e.parts[o].idx = i
    BY <1>1, <1>2, <2>2 DEF BareTemplate
  <2>4. k = o
    BY <1>8, <2>2, <2>3
  <2>. QED
    BY <1>8, <2>2, <2>3, <2>4
<1>. QED
  BY <1>1, <1>2, <1>6, <1>9 DEF Mark, Timely, f

LEMMA FlushAllIsTimely ==
  ASSUME HeldOK, NEW s, \A i \in DOMAIN pending : ~Closed(s, i) /\ ~Mark(tmpl[i].event)
  PROVE  FlushAll \in Seq(Event) /\ \A n \in 1..Len(FlushAll) : ~Mark(FlushAll[n]) /\ Timely(s, FlushAll[n])
<1> DEFINE S == DOMAIN pending
           c == Cardinality(S)
<1>1. S \in SUBSET Int /\ IsFiniteSet(S)
  BY SlotAssumption DEF HeldOK, RestorerTypeOK
<1>. HIDE DEF S
<1>2. c \in Nat /\ Len(Ordered(S)) = c /\ \A n \in 1..c : Ordered(S)[n] \in S
  BY <1>1, OrderedIs, FS_CardinalityType
<1>3. FlushAll = [n \in 1..c |-> FlushEvent(Ordered(S)[n])]
  BY <1>2 DEF FlushAll, S
<1>4. \A n \in 1..c : /\ FlushEvent(Ordered(S)[n]) \in Event /\ ~Mark(FlushEvent(Ordered(S)[n]))
                      /\ Timely(s, FlushEvent(Ordered(S)[n]))
  BY <1>2, FlushIsTimely DEF S
<1>. HIDE DEF c
<1>. QED
  BY <1>2, <1>3, <1>4

LEMMA PlainTells ==
  ASSUME HeldOK, EndsTold, NEW e \in Event, Current(taken, e), taken' = Append(taken, e), TakePlain(e)
  PROVE  EndsTold'
<1> DEFINE f == [e EXCEPT !.raw = RestoreInText(e.raw)]
<1>1. PICK o, t, p : o = out /\ t = taken /\ p = Append(taken, e)
  OBVIOUS
<1>2. /\ o \in Seq(Event) /\ t \in Seq(Event) /\ InTime(o) /\ \A j : Closed(o, j) <=> Closed(t, j)
      /\ \A j \in DOMAIN pending : ~Closed(o, j) /\ ~Mark(tmpl[j].event)
  BY <1>1 DEF HeldOK, RestorerTypeOK, EndsTold
<1>3. f \in Event /\ f.type = "plain" /\ f.parts = e.parts
  <2>1. RestoreInText(e.raw) \in Text
    BY RestoredIsText DEF Event
  <2>. QED
    BY <2>1 DEF Event, TakePlain
<1>4. out' = (o \o FlushAll) \o <<f>> /\ DOMAIN pending' = {}
  BY <1>1 DEF TakePlain
<1>5. e.type = "plain"
  BY DEF TakePlain
<1>. HIDE DEF f
<1>6. PICK v : v = o \o FlushAll
  OBVIOUS
<1>7. FlushAll \in Seq(Event) /\ InTime(v) /\ \A j : Closed(v, j) <=> Closed(o, j)
  BY <1>2, <1>6, FlushAllIsTimely, InTimeFlushes
<1>8. v \in Seq(Event) /\ v \o <<f>> = Append(v, f)
  BY <1>2, <1>3, <1>6, <1>7, ConcatProperties, AppendIsConcat
<1>9. Timely(v, f)
  <2>1. Current(v, f)
    BY <1>1, <1>2, <1>3, <1>7 DEF Current, Displayed
  <2>. QED
    BY <1>3, <2>1, CurrentIsTimely
<1>10. InTime(Append(v, f))
  BY <1>3, <1>7, <1>8, <1>9, InTimeGrows
<1>11. \A j : Closed(Append(v, f), j) <=> Closed(p, j)
  BY <1>1, <1>2, <1>3, <1>5, <1>7, <1>8, ClosedGrows
<1>. QED
  BY <1>1, <1>4, <1>6, <1>8, <1>10, <1>11 DEF EndsTold

\* An event passed on as to its type and the slots of its texts.
LEMMA OneTells ==
  ASSUME NEW o \in Seq(Event), NEW t \in Seq(Event), InTime(o), \A j : Closed(o, j) <=> Closed(t, j),
         NEW e \in Event, Current(t, e),
         NEW f \in Event, f.type = e.type, f.index = e.index,
         \A k \in Displayed(f) : k \in Displayed(e) /\ f.parts[k].idx = e.parts[k].idx
  PROVE  InTime(Append(o, f)) /\ \A j : Closed(Append(o, f), j) <=> Closed(Append(t, e), j)
<1>1. Current(o, f)
  BY DEF Current
<1>2. InTime(Append(o, f))
  BY <1>1, CurrentIsTimely, InTimeGrows
<1>3. \A j : Closed(Append(o, f), j) <=> Closed(Append(t, e), j)
  BY ClosedGrows
<1>. QED
  BY <1>2, <1>3

LEMMA StopTells ==
  ASSUME HeldOK, EndsTold, NEW e \in Event, Current(taken, e), taken' = Append(taken, e), TakeStop(e)
  PROVE  EndsTold'
<1>1. PICK o, t, i : o = out /\ t = taken /\ i = e.index
  OBVIOUS
<1>2. /\ o \in Seq(Event) /\ t \in Seq(Event) /\ InTime(o) /\ \A j : Closed(o, j) <=> Closed(t, j)
      /\ \A j \in DOMAIN pending : ~Closed(o, j) /\ ~Mark(tmpl[j].event)
      /\ DOMAIN tmpl = DOMAIN pending
  BY <1>1 DEF HeldOK, RestorerTypeOK, EndsTold, TemplatesAreBare
<1>3. e.type = "content_block_stop" /\ pending' = Without(pending, {i}) /\ tmpl' = Without(tmpl, {i})
  BY <1>1 DEF TakeStop
<1>4. PICK v \in Seq(Event) : /\ out' = Append(v, e)
                              /\ InTime(v) /\ \A j : Closed(v, j) <=> Closed(o, j)
  <2>1. CASE i \in DOMAIN pending
    <3> DEFINE f == FlushEvent(i)
    <3>1. f \in Event /\ ~Mark(f) /\ Timely(o, f)
      BY <1>2, <2>1, FlushIsTimely
    <3>2. out' = o \o <<f, e>>
      BY <1>1, <2>1 DEF TakeStop
    <3>. HIDE DEF f
    <3>3. <<f>> \in Seq(Event) /\ Len(<<f>>) = 1 /\ <<f>>[1] = f
      BY <3>1
    <3>4. InTime(o \o <<f>>) /\ \A j : Closed(o \o <<f>>, j) <=> Closed(o, j)
      <4>1. \A n \in 1..Len(<<f>>) : ~Mark(<<f>>[n]) /\ Timely(o, <<f>>[n])
        BY <3>1, <3>3
      <4>. QED
        BY <1>2, <3>3, <4>1, InTimeFlushes
    <3>5. o \o <<f, e>> = Append(o \o <<f>>, e) /\ o \o <<f>> \in Seq(Event)
      <4>1. <<f, e>> = Append(<<f>>, e)
        OBVIOUS
      <4>2. o \o Append(<<f>>, e) = Append(o \o <<f>>, e) /\ o \o <<f>> \in Seq(Event)
        BY <1>2, <3>3, ConcatAppend
      <4>. QED
        BY <4>1, <4>2
    <3>. QED
      BY <3>2, <3>4, <3>5
  <2>2. CASE i \notin DOMAIN pending
    <3>1. out' = o \o <<e>>
      BY <1>1, <2>2 DEF TakeStop
    <3>2. o \o <<e>> = Append(o, e)
      BY <1>2, AppendIsConcat
    <3>. QED
      BY <1>2, <3>1, <3>2
  <2>. QED
    BY <2>1, <2>2
<1>5. InTime(Append(v, e)) /\ \A j : Closed(Append(v, e), j) <=> Closed(Append(t, e), j)
  <2>1. \A j : Closed(v, j) <=> Closed(t, j)
    BY <1>2, <1>4
  <2>. QED
    BY <1>1, <1>2, <1>4, <2>1, OneTells
<1>6. ASSUME NEW j \in DOMAIN pending'  PROVE  ~Closed(Append(t, e), j) /\ ~Mark(tmpl'[j].event)
  <2>1. j \in DOMAIN pending /\ j # i /\ tmpl'[j] = tmpl[j]
    BY <1>2, <1>3, <1>6 DEF Without
  <2>2. ~Closed(t, j)
    BY <1>2, <2>1
  <2>. QED
    BY <1>1, <1>2, <2>1, <2>2, ClosedGrows
<1>. QED
  BY <1>1, <1>4, <1>5, <1>6 DEF EndsTold

LEMMA DeltaTells ==
  ASSUME HeldOK, EndsTold, NEW e \in Event, Current(taken, e), Displayed(e) # {} => ~Mark(e),
         taken' = Append(taken, e), TakeDelta(e), HeldOK'
  PROVE  EndsTold'
<1>1. PICK o, t : o = out /\ t = taken
  OBVIOUS
<1>2. /\ o \in Seq(Event) /\ t \in Seq(Event) /\ InTime(o) /\ \A j : Closed(o, j) <=> Closed(t, j)
      /\ \A j \in DOMAIN pending : ~Closed(t, j) /\ ~Mark(tmpl[j].event)
      /\ DOMAIN tmpl = DOMAIN pending
  BY <1>1 DEF HeldOK, RestorerTypeOK, EndsTold, TemplatesAreBare
<1> DEFINE new == [k \in 1..Len(e.parts) |-> [e.parts[k] EXCEPT !.text = Shown(e, k)]]
           f == [e EXCEPT !.parts = new]
<1>3. out' = Append(o, f) /\ e.type \notin {"plain", "content_block_stop"}
  BY <1>1 DEF TakeDelta
<1>4. f \in Event /\ f.type = e.type /\ f.index = e.index /\ f.parts = new
  <2>1. out' \in Seq(Event) /\ Len(out') = Len(o) + 1 /\ out'[Len(o) + 1] = f /\ Len(o) \in Nat
    <3>1. out' \in Seq(Event)
      BY DEF HeldOK, RestorerTypeOK
    <3>. HIDE DEF f
    <3>. QED
      BY <1>2, <1>3, <3>1
  <2>2. f \in Event
    <3>. HIDE DEF f
    <3>. QED
      BY <2>1
  <2>. HIDE DEF new
  <2>3. f.type = e.type /\ f.index = e.index /\ f.parts = new
    BY DEF Event
  <2>. QED
    BY <2>2, <2>3
<1>5. \A k \in Displayed(f) : k \in Displayed(e) /\ f.parts[k].idx = e.parts[k].idx
  <2>1. /\ Len(new) = Len(e.parts) /\ Len(e.parts) \in Nat
        /\ \A k \in 1..Len(e.parts) : e.parts[k] \in Part
    BY PartsOfEvent
  <2>2. ASSUME NEW k \in 1..Len(e.parts)
        PROVE  new[k].idx = e.parts[k].idx /\ new[k].kind = e.parts[k].kind
    <3>1. e.parts[k] \in Part /\ new[k] = [e.parts[k] EXCEPT !.text = Shown(e, k)]
      BY <2>1
    <3>. HIDE DEF new
    <3>. QED
      BY <3>1 DEF Part
  <2>. HIDE DEF new, f
  <2>. QED
    BY <1>4, <2>1, <2>2 DEF Displayed
<1>. HIDE DEF f, new
<1>6. InTime(Append(o, f)) /\ \A j : Closed(Append(o, f), j) <=> Closed(Append(t, e), j)
  BY <1>1, <1>2, <1>4, <1>5, OneTells, SMTT(30)
<1> DEFINE claimed == {k \in 1..Len(e.parts) : Claims(e, k)}
           claimant(i) == CHOOSE k \in claimed : e.parts[k].idx = i
           heldBack == {e.parts[k].idx : k \in {j \in claimed : Carry(e, j) # << >>}}
           taking == {e.parts[k].idx : k \in claimed}
<1>7. /\ DOMAIN pending' = (DOMAIN pending \ taking) \cup heldBack
      /\ tmpl' = [i \in (DOMAIN tmpl \ taking) \cup heldBack |->
                    IF i \in heldBack THEN SaveTemplate(e, claimant(i)) ELSE tmpl[i]]
  BY DEF TakeDelta
<1>8. \A i \in heldBack : \E k \in Displayed(e) : e.parts[k].idx = i
  BY DEF Claims
<1>9. \A k : SaveTemplate(e, k).event.type = e.type
  BY DEF SaveTemplate, Blank, Event
<1>. HIDE DEF heldBack, taking, claimant
<1>10. ASSUME NEW j \in DOMAIN pending'  PROVE  ~Closed(Append(t, e), j) /\ ~Mark(tmpl'[j].event)
  <2>1. CASE j \in heldBack
    <3>1. ~Closed(t, j) /\ ~Mark(e)
      BY <1>1, <1>8, <2>1 DEF Current
    <3>2. tmpl'[j] = SaveTemplate(e, claimant(j))
      BY <1>2, <1>7, <2>1
    <3>. QED
      BY <1>2, <1>3, <1>9, <3>1, <3>2, ClosedGrows DEF Mark
  <2>2. CASE j \notin heldBack
    <3>1. j \in DOMAIN pending /\ tmpl'[j] = tmpl[j]
      BY <1>2, <1>7, <1>10, <2>2
    <3>. QED
      BY <1>2, <1>3, <3>1, ClosedGrows
  <2>. QED
    BY <2>1, <2>2
<1>. QED
  BY <1>1, <1>3, <1>6, <1>10 DEF EndsTold

LEMMA EndsInit == StreamInit => EndsOK
<1>. SUFFICES ASSUME StreamInit  PROVE  EndsOK
  OBVIOUS
<1>1. pending = << >> /\ taken = << >> /\ out = << >> /\ received = << >>
  BY DEF StreamInit, RestorerInit
<1>2. DOMAIN pending = {} /\ \A s : s = << >> => 1..Len(s) = {}
  BY <1>1
<1>. QED
  BY <1>1, <1>2 DEF EndsOK, EndsTold, Placed, InTime, Closed

LEMMA EndsStep == StreamInv /\ EndsOK /\ [StreamNext]_streamVars => EndsOK'
<1>. SUFFICES ASSUME StreamInv, EndsOK, [StreamNext]_streamVars  PROVE  EndsOK'
  OBVIOUS
<1>1. HeldOK /\ EndsTold /\ out \in Seq(Event) /\ taken \in Seq(Event) /\ received \in Seq(Event) /\ mode \in Modes
  BY DEF StreamInv, HeldOK, RestorerTypeOK, EndsOK
<1>2. ASSUME UNCHANGED <<restorerVars, mode, received>>  PROVE  EndsOK'
  BY <1>2 DEF EndsOK, EndsTold, restorerVars, Placed, InTime, Closed, InPlace
<1>3. ASSUME UNCHANGED <<mode, received>>
      PROVE  (\A n \in 1..Len(received') : Offered(mode', received'[n])) /\ Placed(received')
  BY <1>3 DEF EndsOK
<1>4. ASSUME NEW e \in Offers(mode), Receive(e)  PROVE  EndsOK'
  <2> DEFINE f == [e EXCEPT !.at = Len(received) + 1]
  <2>1. f \in Event /\ f.type = e.type /\ f.index = e.index /\ f.parts = e.parts
    <3>1. e \in Event /\ Len(received) + 1 \in Nat
      BY <1>1, StreamAssumption
    <3>. QED
      BY <3>1 DEF Event
  <2>2. received' = Append(received, f) /\ Sends(e) /\ UNCHANGED <<restorerVars, mode>>
    BY <1>4 DEF Receive
  <2>. HIDE DEF f
  <2>3. Placed(received') /\ Offered(mode, f)
    BY <1>1, <2>1, <2>2, ReceivesInPlace DEF EndsOK
  <2>4. ASSUME NEW n \in 1..Len(received')  PROVE  Offered(mode', received'[n])
    <3>1. (n \in 1..Len(received) /\ received'[n] = received[n]) \/ received'[n] = f
      BY <1>1, <2>1, <2>2
    <3>2. Offered(mode, received'[n])
      BY <2>3, <3>1 DEF EndsOK
    <3>. QED
      BY <2>2, <3>2
  <2>5. EndsTold' /\ (mode.restoring \/ DOMAIN pending = {})'
    BY <1>1, <2>2 DEF EndsOK, EndsTold, restorerVars, InTime, Closed
  <2>. QED
    BY <2>3, <2>4, <2>5 DEF EndsOK
<1>5. CASE Restore
  <2> DEFINE e == Head(guard.ready)
  <2>1. guard.ready # << >> /\ mode.restoring /\ UNCHANGED <<mode, received>>
        /\ taken' = Append(taken, e) /\ (TakePlain(e) \/ TakeStop(e) \/ TakeDelta(e))
    BY <1>5 DEF Restore, Take
  <2>2. e \in Event /\ Current(taken, e) /\ (Displayed(e) # {} => ~Mark(e))
    BY <2>1, HeadIsCurrent
  <2>. HIDE DEF e
  <2>3. HeldOK'
    BY <1>1, <2>1, <2>2, TakeWrites
  <2>4. EndsTold'
    BY <1>1, <2>1, <2>2, <2>3, PlainTells, StopTells, DeltaTells
  <2>. QED
    BY <1>3, <2>1, <2>4 DEF EndsOK
<1>6. CASE Copy
  <2> DEFINE e == Head(guard.ready)
  <2>1. guard.ready # << >> /\ ~mode.restoring /\ UNCHANGED <<mode, received, pending, tmpl>>
        /\ taken' = Append(taken, e) /\ out' = Append(out, e)
    BY <1>6 DEF Copy
  <2>2. e \in Event /\ Current(taken, e)
    BY <2>1, HeadIsCurrent
  <2>. HIDE DEF e
  <2>3. DOMAIN pending' = {}
    BY <2>1 DEF EndsOK
  <2>4. InTime(Append(out, e)) /\ \A j : Closed(Append(out, e), j) <=> Closed(Append(taken, e), j)
    BY <1>1, <2>2, OneTells DEF EndsTold
  <2>5. EndsTold'
    BY <2>1, <2>3, <2>4 DEF EndsTold
  <2>. QED
    BY <1>3, <2>1, <2>3, <2>5 DEF EndsOK
<1>7. CASE Finish
  <2>1. /\ out' = out \o FlushAll /\ pending' = << >> /\ UNCHANGED <<taken, mode, received>>
    BY <1>7 DEF Finish, Final
  <2>2. FlushAll \in Seq(Event) /\ \A n \in 1..Len(FlushAll) : ~Mark(FlushAll[n]) /\ Timely(out, FlushAll[n])
    BY <1>1, FlushAllIsTimely DEF EndsTold
  <2>3. InTime(out \o FlushAll) /\ \A j : Closed(out \o FlushAll, j) <=> Closed(out, j)
    BY <1>1, <2>2, InTimeFlushes DEF EndsTold
  <2>4. DOMAIN pending' = {}
    BY <2>1
  <2>5. EndsTold'
    BY <1>1, <2>1, <2>3, <2>4 DEF EndsTold
  <2>. QED
    BY <1>3, <2>1, <2>4, <2>5 DEF EndsOK
<1>8. CASE EndOfStream \/ ClientLeaves \/ UNCHANGED streamVars
  BY <1>2, <1>8 DEF EndOfStream, ClientLeaves, streamVars
<1>. QED
  BY <1>4, <1>5, <1>6, <1>7, <1>8 DEF StreamNext

-----------------------------------------------------------------------------
(* What is said in a slot.                                                 *)

\* The text of slot i in some events.
Said(events, i) == Joined([n \in 1..Len(events) |-> SlotText(events[n], i)])

LEMMA SlotTextIsText ==
  ASSUME NEW e \in Event, NEW i
  PROVE  SlotText(e, i) \in Text
<1> DEFINE mine == {k \in 1..Len(e.parts) : Claims(e, k) /\ e.parts[k].idx = i}
<1>1. Len(e.parts) \in Nat /\ mine \in SUBSET Nat /\ << >> \in Text
  BY PartsOfEvent DEF Text
<1>2. mine # {} => Least(mine) \in 1..Len(e.parts)
  <2>1. mine # {} => Least(mine) \in mine
    <3>. HIDE DEF mine
    <3>. QED
      BY <1>1, LeastExists
  <2>. QED
    BY <2>1
<1>3. mine # {} => e.parts[Least(mine)].text \in Text
  BY <1>2, PartsOfEvent
<1>. QED
  BY <1>1, <1>3 DEF SlotText

\* The text of a slot is that of the part that claims it.
LEMMA SlotTextOfClaim ==
  ASSUME NEW e \in Event, NEW i
  PROVE  /\ \A k \in 1..Len(e.parts) : Claims(e, k) /\ e.parts[k].idx = i => SlotText(e, i) = e.parts[k].text
         /\ (\A k \in 1..Len(e.parts) : ~(Claims(e, k) /\ e.parts[k].idx = i)) => SlotText(e, i) = << >>
<1> DEFINE mine == {k \in 1..Len(e.parts) : Claims(e, k) /\ e.parts[k].idx = i}
<1>1. Len(e.parts) \in Nat /\ mine \in SUBSET Nat
  BY PartsOfEvent
<1>2. ASSUME NEW j \in mine, NEW k \in mine  PROVE  j = k
  <2>1. j \in Nat /\ k \in Nat /\ j \in Displayed(e) /\ k \in Displayed(e) /\ ~(j < k) /\ ~(k < j)
    BY <1>2, PartsOfEvent DEF Claims
  <2>. QED
    BY <2>1
<1>3. ASSUME NEW k \in mine  PROVE  Least(mine) = k
  <2>1. Least(mine) \in mine
    <3>. HIDE DEF mine
    <3>. QED
      BY <1>1, <1>3, LeastExists
  <2>. HIDE DEF mine
  <2>. QED
    BY <1>2, <1>3, <2>1
<1>4. SlotText(e, i) = IF mine = {} THEN << >> ELSE e.parts[Least(mine)].text
  BY DEF SlotText
<1>. QED
  BY <1>3, <1>4

LEMMA SaidIsText ==
  ASSUME NEW a \in Seq(Event), NEW i
  PROVE  Said(a, i) \in Text
<1> DEFINE each == [n \in 1..Len(a) |-> SlotText(a[n], i)]
<1>1. each \in Seq(Seq(Char))
  <2>1. Len(a) \in Nat /\ \A n \in 1..Len(a) : SlotText(a[n], i) \in Seq(Char)
    BY SlotTextIsText DEF Text
  <2>. QED
    BY <2>1
<1>. QED
  BY <1>1, JoinedIsSeq DEF Said, Text

LEMMA SaidOfAppend ==
  ASSUME NEW a \in Seq(Event), NEW e \in Event, NEW i
  PROVE  Said(Append(a, e), i) = Said(a, i) \o SlotText(e, i)
<1> DEFINE each(s) == [n \in 1..Len(s) |-> SlotText(s[n], i)]
<1>1. PICK x, y, z : x = each(a) /\ y = each(Append(a, e)) /\ z = SlotText(e, i)
  OBVIOUS
<1>2. Len(a) \in Nat /\ Len(Append(a, e)) = Len(a) + 1 /\ Append(a, e)[Len(a) + 1] = e
      /\ \A n \in 1..Len(a) : Append(a, e)[n] = a[n]
  OBVIOUS
<1>3. x \in Seq(Seq(Char)) /\ Len(x) = Len(a) /\ z \in Seq(Char)
  <2>1. \A n \in 1..Len(a) : SlotText(a[n], i) \in Seq(Char)
    BY SlotTextIsText DEF Text
  <2>2. z \in Seq(Char)
    BY <1>1, SlotTextIsText DEF Text
  <2>. QED
    BY <1>1, <1>2, <2>1, <2>2
<1>4. y = Append(x, z)
  <2>1. Append(x, z) \in Seq(Seq(Char)) /\ Len(Append(x, z)) = Len(a) + 1 /\ Append(x, z)[Len(a) + 1] = z
        /\ \A n \in 1..Len(a) : Append(x, z)[n] = x[n]
    BY <1>3
  <2>2. \A n \in 1..Len(a) : y[n] = x[n] /\ x[n] \in Seq(Char)
    BY <1>1, <1>2, <1>3
  <2>3. y[Len(a) + 1] = z
    BY <1>1, <1>2
  <2>4. y \in [1..Len(a) + 1 -> Seq(Char)]
    <3>1. \A n \in 1..Len(a) + 1 : n \in 1..Len(a) \/ n = Len(a) + 1
      BY <1>2
    <3>2. DOMAIN y = 1..Len(a) + 1 /\ y = [n \in 1..Len(a) + 1 |-> y[n]]
      BY <1>1, <1>2
    <3>. QED
      BY <1>3, <2>2, <2>3, <3>1, <3>2
  <2>5. y \in Seq(Seq(Char)) /\ Len(y) = Len(a) + 1
    BY <1>2, <2>4
  <2>6. PICK w : w = Append(x, z)
    OBVIOUS
  <2>7. \A n \in 1..Len(y) : y[n] = w[n]
    <3>1. \A n \in 1..Len(a) + 1 : n \in 1..Len(a) \/ n = Len(a) + 1
      BY <1>2
    <3>. QED
      BY <2>1, <2>2, <2>3, <2>5, <2>6, <3>1
  <2>8. y = w
    BY <2>1, <2>5, <2>6, <2>7, SeqEqual
  <2>. QED
    BY <2>6, <2>8
<1>5. Joined(Append(x, z)) = Joined(x) \o z
  BY <1>3, JoinedOfAppend
<1>. QED
  BY <1>1, <1>4, <1>5 DEF Said

LEMMA SaidOfConcat ==
  ASSUME NEW a \in Seq(Event), NEW b \in Seq(Event), NEW i
  PROVE  Said(a \o b, i) = Said(a, i) \o Said(b, i)
<1> DEFINE each(s) == [n \in 1..Len(s) |-> SlotText(s[n], i)]
           U == Seq(Char)
<1>1. ASSUME NEW s \in Seq(Event)  PROVE  each(s) \in Seq(U) /\ Len(each(s)) = Len(s)
  <2>1. Len(s) \in Nat /\ \A n \in 1..Len(s) : SlotText(s[n], i) \in U
    BY SlotTextIsText DEF Text
  <2>. QED
    BY <2>1
<1>2. /\ a \o b \in Seq(Event) /\ Len(a \o b) = Len(a) + Len(b) /\ Len(a) \in Nat /\ Len(b) \in Nat
      /\ \A n \in 1..Len(a) + Len(b) : (a \o b)[n] = IF n <= Len(a) THEN a[n] ELSE b[n - Len(a)]
  BY ConcatProperties
<1>3. PICK x, y, l : x = each(a) /\ y = each(b) /\ l = each(a \o b)
  OBVIOUS
<1>4. /\ x \in Seq(U) /\ Len(x) = Len(a) /\ y \in Seq(U) /\ Len(y) = Len(b)
      /\ l \in Seq(U) /\ Len(l) = Len(a) + Len(b)
  BY <1>1, <1>2, <1>3
<1>5. ASSUME NEW n \in 1..Len(a) + Len(b)  PROVE  l[n] = IF n <= Len(a) THEN x[n] ELSE y[n - Len(a)]
  <2>1. l[n] = SlotText((a \o b)[n], i)
    BY <1>2, <1>3
  <2>2. CASE n <= Len(a)
    <3>1. n \in 1..Len(a) /\ (a \o b)[n] = a[n]
      BY <1>2, <2>2
    <3>. QED
      BY <1>3, <2>1, <2>2, <3>1
  <2>3. CASE ~(n <= Len(a))
    <3>1. n - Len(a) \in 1..Len(b) /\ (a \o b)[n] = b[n - Len(a)]
      BY <1>2, <2>3
    <3>. QED
      BY <1>3, <2>1, <2>3, <3>1
  <2>. QED
    BY <2>2, <2>3
<1>. HIDE DEF U
<1>6. l = x \o y
  <2>1. /\ x \o y \in Seq(U) /\ Len(x \o y) = Len(x) + Len(y)
        /\ \A n \in 1..Len(x) + Len(y) : (x \o y)[n] = IF n <= Len(x) THEN x[n] ELSE y[n - Len(x)]
    <3>1. x \in Seq(U) /\ y \in Seq(U)
      BY <1>4
    <3>. QED
      BY <3>1, ConcatProperties
  <2>2. PICK r : r = x \o y
    OBVIOUS
  <2>3. r \in Seq(U) /\ Len(r) = Len(l) /\ \A n \in 1..Len(l) : l[n] = r[n]
    BY <1>4, <1>5, <2>1, <2>2
  <2>. QED
    BY <1>4, <2>2, <2>3, SeqEqual
<1>7. Joined(x \o y) = Joined(x) \o Joined(y)
  BY <1>4, JoinedOfConcat DEF U
<1>. QED
  BY <1>3, <1>6, <1>7 DEF Said

LEMMA SaidOfOne ==
  ASSUME NEW e \in Event, NEW i
  PROVE  Said(<<e>>, i) = SlotText(e, i)
<1>1. PICK x : x = SlotText(e, i)
  OBVIOUS
<1>2. x \in Seq(Char)
  BY <1>1, SlotTextIsText DEF Text
<1>3. << >> \in Seq(Seq(Char)) /\ Append(<< >>, x) = <<x>> /\ << >> \o x = x
  BY <1>2
<1>4. Joined(<<x>>) = x
  BY <1>2, <1>3, JoinedOfAppend, JoinedOfNothing
<1>5. [n \in 1..Len(<<e>>) |-> SlotText(<<e>>[n], i)] = <<x>>
  BY <1>1
<1>. QED
  BY <1>1, <1>4, <1>5 DEF Said

LEMMA SaidOfNone ==
  ASSUME NEW a \in Seq(Event), NEW i, \A n \in 1..Len(a) : SlotText(a[n], i) = << >>
  PROVE  Said(a, i) = << >>
<1> DEFINE each == [n \in 1..Len(a) |-> SlotText(a[n], i)]
<1>1. each \in Seq({<< >>})
  <2>1. Len(a) \in Nat
    OBVIOUS
  <2>. QED
    BY <2>1
<1>. QED
  BY <1>1, JoinedOfEmpties DEF Said

\* Events that replace texts by others keep who claims what.
SameClaims(e, f) ==
  /\ Len(f.parts) = Len(e.parts)
  /\ Displayed(f) = Displayed(e)
  /\ \A k \in 1..Len(e.parts) : f.parts[k].idx = e.parts[k].idx

LEMMA ClaimsAre ==
  ASSUME NEW e, NEW f, SameClaims(e, f), NEW k
  PROVE  Claims(f, k) <=> Claims(e, k)
<1>1. \A j \in Displayed(e) : j \in 1..Len(e.parts)
  BY DEF Displayed
<1>. QED
  BY <1>1 DEF SameClaims, Claims

\* Each template's own part is the one its slot's tail goes into.
TemplatesClaim == \A i \in DOMAIN tmpl : Claims(tmpl[i].event, tmpl[i].own)

LEMMA SavedClaims ==
  ASSUME NEW e \in Event, NEW k \in 1..Len(e.parts), Claims(e, k)
  PROVE  Claims(SaveTemplate(e, k).event, SaveTemplate(e, k).own)
<1> DEFINE b == Blank(e)
           new == [j \in 1..Len(e.parts) |->
                     IF j \in Displayed(e) THEN [e.parts[j] EXCEPT !.text = << >>]
                                           ELSE [e.parts[j] EXCEPT !.text = << >>, !.kind = "gone"]]
<1>1. e.parts \in Seq(Part) /\ Len(e.parts) \in Nat
  BY PartsOfEvent
<1>2. b.parts = new
  <2>1. b = [e EXCEPT !.parts = new]
    BY DEF Blank
  <2>. HIDE DEF new, b
  <2>. QED  BY <2>1 DEF Event
<1>3. Len(new) = Len(e.parts)
  BY <1>1
<1>4. ASSUME NEW j \in 1..Len(e.parts)
      PROVE  /\ new[j].idx = e.parts[j].idx
             /\ new[j].kind \in {"text", "thinking"} <=> j \in Displayed(e)
  <2>1. e.parts[j] \in Part
    BY <1>1
  <2>2. CASE j \in Displayed(e)
    <3>1. new[j] = [e.parts[j] EXCEPT !.text = << >>] /\ e.parts[j].kind \in {"text", "thinking"}
      BY <2>2 DEF Displayed
    <3>. HIDE DEF new
    <3>. QED
      BY <2>1, <2>2, <3>1 DEF Part
  <2>3. CASE j \notin Displayed(e)
    <3>1. new[j] = [e.parts[j] EXCEPT !.text = << >>, !.kind = "gone"]
      BY <2>3
    <3>. HIDE DEF new
    <3>. QED
      BY <2>1, <2>3, <3>1 DEF Part
  <2>. QED
    BY <2>2, <2>3
<1>5. SaveTemplate(e, k).event = b /\ SaveTemplate(e, k).own = k
  BY DEF SaveTemplate
<1>. HIDE DEF b, new
<1>6. SameClaims(e, b)
  <2>1. Displayed(b) = Displayed(e)
    <3>1. Displayed(b) = {j \in 1..Len(e.parts) : new[j].kind \in {"text", "thinking"}}
      BY <1>2, <1>3 DEF Displayed
    <3>2. Displayed(e) \in SUBSET (1..Len(e.parts))
      BY DEF Displayed
    <3>. QED
      BY <1>4, <3>1, <3>2
  <2>. QED
    BY <1>2, <1>3, <1>4, <2>1 DEF SameClaims
<1>. QED
  BY <1>5, <1>6, ClaimsAre

\* What is held back in slot i.
Pend(i) == IF i \in DOMAIN pending THEN pending[i] ELSE << >>

\* A flush event has its slot's tail and no other text.
LEMMA FlushSays ==
  ASSUME HeldOK, TemplatesClaim, NEW i \in DOMAIN pending, NEW j
  PROVE  SlotText(FlushEvent(i), j) = IF j = i THEN pending[i] ELSE << >>
<1>1. PICK f, t, e, o, p : f = FlushEvent(i) /\ t = tmpl[i] /\ e = t.event /\ o = t.own /\ p = pending[i]
  OBVIOUS
<1>2. t \in Template /\ BareTemplate(t, i) /\ f \in Event /\ Claims(e, o)
  BY <1>1, BareAre, FlushIsBare DEF HeldOK, RestorerTypeOK, TemplatesClaim
<1>3. e \in Event /\ o \in 1..Len(e.parts)
  BY <1>1, <1>2 DEF Template, BareTemplate
<1>4. f = [e EXCEPT !.parts = [e.parts EXCEPT ![o] = [e.parts[o] EXCEPT !.text = p]]]
  BY <1>1 DEF FlushEvent
<1>5. PICK new : new = [e.parts EXCEPT ![o] = [e.parts[o] EXCEPT !.text = p]]
  OBVIOUS
<1>6. f.parts = new
  BY <1>3, <1>4, <1>5 DEF Event
<1>7. /\ DOMAIN e.parts = 1..Len(e.parts) /\ Len(e.parts) \in Nat
      /\ \A k \in 1..Len(e.parts) : e.parts[k] \in Part
  BY <1>3, PartsOfEvent
<1>8. /\ new[o].idx = e.parts[o].idx /\ new[o].kind = e.parts[o].kind /\ new[o].text = p
      /\ Len(new) = Len(e.parts)
      /\ \A k \in 1..Len(e.parts) : k # o => new[k] = e.parts[k]
  <2>1. new[o] = [e.parts[o] EXCEPT !.text = p] /\ e.parts[o] \in Part
    BY <1>3, <1>5, <1>7
  <2>2. new[o].idx = e.parts[o].idx /\ new[o].kind = e.parts[o].kind /\ new[o].text = p
    BY <2>1 DEF Part
  <2>3. DOMAIN new = DOMAIN e.parts /\ \A k \in 1..Len(e.parts) : k # o => new[k] = e.parts[k]
    BY <1>5, <1>7
  <2>4. new \in Seq(Part)
    <3>1. f.parts \in Seq(Part)
      BY <1>2, PartsOfEvent
    <3>. QED
      BY <1>6, <3>1
  <2>5. Len(new) = Len(e.parts)
    BY <1>7, <2>3, <2>4
  <2>. QED
    BY <2>2, <2>3, <2>5
<1>9. SameClaims(e, f)
  <2>1. ASSUME NEW k \in 1..Len(e.parts)
        PROVE  new[k].idx = e.parts[k].idx /\ new[k].kind = e.parts[k].kind
    BY <1>8
  <2>. QED
    BY <1>6, <1>8, <2>1 DEF SameClaims, Displayed
<1>10. Claims(f, o)
  BY <1>2, <1>9, ClaimsAre
<1>11. CASE j = i
  <2>1. o \in 1..Len(f.parts) /\ f.parts[o].idx = j /\ f.parts[o].text = p
    BY <1>1, <1>2, <1>3, <1>6, <1>8, <1>11 DEF BareTemplate
  <2>2. SlotText(f, j) = p
    BY <1>2, <1>10, <2>1, SlotTextOfClaim
  <2>. QED
    BY <1>1, <1>11, <2>2
<1>12. CASE j # i
  <2>1. ASSUME SlotText(f, j) # << >>  PROVE  FALSE
    <3>1. PICK k \in 1..Len(f.parts) : f.parts[k].idx = j /\ f.parts[k].text # << >>
      BY <1>2, <2>1, SlotTextIs
    <3>2. k \in 1..Len(e.parts) /\ new[k].idx = j /\ new[k].text # << >>
      BY <1>6, <1>8, <3>1
    <3>3. e.parts[k].text = << >> /\ e.parts[o].idx = i
      BY <1>1, <1>2, <3>2 DEF BareTemplate
    <3>. QED
      BY <1>8, <1>12, <3>2, <3>3
  <2>. QED
    BY <1>1, <1>12, <2>1
<1>. QED
  BY <1>11, <1>12

\* Flushing all says what is held back in each slot, once.
LEMMA FlushAllSays ==
  ASSUME HeldOK, TemplatesClaim, NEW i
  PROVE  FlushAll \in Seq(Event) /\ Said(FlushAll, i) = Pend(i)
<1> DEFINE S == DOMAIN pending
           c == Cardinality(S)
<1>1. S \in SUBSET Int /\ IsFiniteSet(S)
  BY SlotAssumption DEF HeldOK, RestorerTypeOK
<1>. HIDE DEF S
<1>2. /\ c \in Nat /\ Len(Ordered(S)) = c
      /\ \A n \in 1..c : Ordered(S)[n] \in S /\ Rank(S, Ordered(S)[n]) = n - 1
      /\ \A x \in S : Ordered(S)[Rank(S, x) + 1] = x
  BY <1>1, OrderedIs, FS_CardinalityType
<1>3. FlushAll = [n \in 1..c |-> FlushEvent(Ordered(S)[n])]
  BY <1>2 DEF FlushAll, S
<1>4. FlushAll \in Seq(Event)
  BY FlushAllIsBare
<1>. HIDE DEF c
<1>5. PICK a : a = FlushAll
  OBVIOUS
<1>6. a \in Seq(Event) /\ Len(a) = c
  BY <1>2, <1>3, <1>4, <1>5
<1>7. ASSUME NEW n \in 1..c
      PROVE  SlotText(a[n], i) = IF Ordered(S)[n] = i THEN Pend(i) ELSE << >>
  <2>1. PICK x \in S : x = Ordered(S)[n]
    BY <1>2
  <2>2. a[n] = FlushEvent(x)
    BY <1>3, <1>5, <2>1
  <2>3. x \in DOMAIN pending
    BY DEF S
  <2>4. SlotText(FlushEvent(x), i) = IF i = x THEN pending[x] ELSE << >>
    BY <2>3, FlushSays
  <2>. QED
    BY <2>1, <2>2, <2>3, <2>4 DEF Pend
<1>8. CASE i \in S
  <2>1. PICK m : m = Rank(S, i) + 1
    OBVIOUS
  <2>2. Rank(S, i) \in Nat /\ m \in 1..c /\ Ordered(S)[m] = i
    BY <1>1, <1>2, <1>8, <2>1, RankInRange DEF c
  <2>3. ASSUME NEW n \in 1..c, n # m  PROVE  Ordered(S)[n] # i
    <3>1. Rank(S, Ordered(S)[n]) = n - 1
      BY <1>2
    <3>. QED
      BY <2>1, <2>2, <2>3, <3>1
  <2>4. PICK ss : ss = [n \in 1..Len(a) |-> SlotText(a[n], i)]
    OBVIOUS
  <2>5. ss \in Seq(Seq(Char)) /\ Len(ss) = c
    <3>1. \A n \in 1..Len(a) : SlotText(a[n], i) \in Seq(Char)
      BY <1>6, SlotTextIsText DEF Text
    <3>. QED
      BY <1>2, <1>6, <2>4, <3>1
  <2>6. m \in 1..Len(ss) /\ ss[m] = Pend(i) /\ \A n \in 1..Len(ss) : n # m => ss[n] = << >>
    BY <1>6, <1>7, <2>2, <2>3, <2>4, <2>5
  <2>7. Joined(ss) = ss[m]
    BY <2>5, <2>6, JoinedOfOnly
  <2>. QED
    BY <1>4, <1>5, <2>4, <2>6, <2>7 DEF Said
<1>9. CASE i \notin S
  <2>1. \A n \in 1..Len(a) : SlotText(a[n], i) = << >>
    BY <1>2, <1>6, <1>7, <1>9
  <2>2. Said(a, i) = << >>
    BY <1>6, <2>1, SaidOfNone
  <2>. QED
    BY <1>4, <1>5, <1>9, <2>2 DEF Pend, S
<1>. QED
  BY <1>8, <1>9

-----------------------------------------------------------------------------
(* What should be read in a slot.                                          *)

\* What one event makes of it.
ReadOn(r, e, i) ==
  IF EndsCarry(e, i) THEN [whole |-> r.whole \o RestoreInText(r.open \o SlotText(e, i)), open |-> << >>]
                     ELSE [whole |-> r.whole, open |-> r.open \o SlotText(e, i)]

Page == [whole: Text, open: Text]

LEMMA ReadOnIs ==
  ASSUME NEW r \in Page, NEW e \in Event, NEW i
  PROVE  ReadOn(r, e, i) \in Page
<1>1. PICK w, o, t : w = r.whole /\ o = r.open /\ t = SlotText(e, i)
  OBVIOUS
<1>2. w \in Text /\ o \in Text /\ t \in Text
  BY <1>1, SlotTextIsText DEF Page
<1>3. o \o t \in Text /\ RestoreInText(o \o t) \in Text /\ w \o RestoreInText(o \o t) \in Text /\ << >> \in Text
  <2>1. o \o t \in Text
    BY <1>2, TextsConcat
  <2>2. RestoreInText(o \o t) \in Text
    BY <2>1, RestoredIsText
  <2>. QED
    BY <1>2, <2>1, <2>2, TextsConcat DEF Text
<1>. QED
  BY <1>1, <1>2, <1>3 DEF ReadOn, Page

LEMMA ReadingIs ==
  ASSUME NEW a \in Seq(Event), NEW i
  PROVE  /\ Reading(a, i) \in [0..Len(a) -> Page]
         /\ Reading(a, i)[0] = [whole |-> << >>, open |-> << >>]
         /\ \A n \in 1..Len(a) : Reading(a, i)[n] = ReadOn(Reading(a, i)[n - 1], a[n], i)
<1> DEFINE N == Len(a)
           none == [whole |-> << >>, open |-> << >>]
           step == [n \in 1..N |-> [x \in Page |-> ReadOn(x, a[n], i)]]
           Reads(g) == g = [n \in 0..N |-> IF n = 0 THEN none ELSE ReadOn(g[n - 1], a[n], i)]
<1>1. N \in Nat /\ none \in Page /\ \A n \in 1..N : a[n] \in Event
  BY DEF Page, Text
<1>2. step \in [1..N -> [Page -> Page]]
  BY <1>1, ReadOnIs
<1>3. PICK f \in [0..N -> Page] : Follows(f, N, none, step)
  <2>. HIDE DEF step, N, none
  <2>. QED
    BY <1>1, <1>2, RecursionExists
<1>. HIDE DEF none
<1>4. ASSUME NEW n \in 1..N  PROVE  f[n] = ReadOn(f[n - 1], a[n], i)
  <2>1. n - 1 \in 0..N
    BY <1>1
  <2>2. f[n - 1] \in Page
    BY <1>3, <2>1
  <2>3. f[n] = step[n][f[n - 1]]
    BY <1>3 DEF Follows
  <2>. QED
    BY <2>2, <2>3
<1>5. f[0] = none
  BY <1>3 DEF Follows
<1>6. Reads(f)
  <2>1. ASSUME NEW n \in 0..N  PROVE  f[n] = IF n = 0 THEN none ELSE ReadOn(f[n - 1], a[n], i)
    <3>1. n = 0 \/ (n \in 1..N /\ n # 0)
      BY <1>1
    <3>. QED
      BY <1>4, <1>5, <3>1
  <2>. HIDE DEF N
  <2>. QED
    BY <2>1
<1>7. Reading(a, i) = CHOOSE g : Reads(g)
  BY DEF Reading, ReadOn, none
<1>8. Reads(Reading(a, i))
  <2>. HIDE DEF Reads
  <2>. QED
    BY <1>6, <1>7
<1> DEFINE j == Reading(a, i)
<1>9. j = [n \in 0..N |-> IF n = 0 THEN none ELSE ReadOn(j[n - 1], a[n], i)]
  BY <1>8, Zenon
<1>. HIDE DEF j
<1>10. /\ DOMAIN j = 0..N /\ j = [n \in 0..N |-> j[n]]
       /\ j[0] = none
       /\ \A n \in 1..N : j[n] = ReadOn(j[n - 1], a[n], i)
  <2>1. DOMAIN j = 0..N
    BY <1>9
  <2>2. j = [n \in 0..N |-> j[n]]
    BY <1>9, <2>1
  <2>3. \A n \in 0..N : j[n] = IF n = 0 THEN none ELSE ReadOn(j[n - 1], a[n], i)
    BY <1>9
  <2>4. \A n \in 1..N : n \in 0..N /\ n # 0
    BY <1>1
  <2>5. \A n \in 1..N : j[n] = ReadOn(j[n - 1], a[n], i)
    BY <2>3, <2>4
  <2>6. 0 \in 0..N
    BY <1>1
  <2>7. j[0] = none
    BY <2>3, <2>6
  <2>. QED
    BY <2>1, <2>2, <2>5, <2>7
<1>11. j \in [0..N -> Page]
  <2>1. ASSUME NEW n \in 1..N, j[n - 1] \in Page  PROVE  j[n] \in Page
    BY <1>1, <1>10, <2>1, ReadOnIs
  <2>. HIDE DEF N
  <2>. QED
    BY <1>1, <1>10, <2>1, RecursionTyped
<1>. QED
  BY <1>10, <1>11 DEF j, none

\* After all of some events.
Read(a, i) == Reading(a, i)[Len(a)]

LEMMA ReadIsPage ==
  ASSUME NEW a \in Seq(Event), NEW i
  PROVE  Read(a, i) \in Page
<1>1. Len(a) \in 0..Len(a)
  OBVIOUS
<1>. QED
  BY <1>1, ReadingIs DEF Read

LEMMA ReadGrows ==
  ASSUME NEW a \in Seq(Event), NEW e \in Event, NEW i
  PROVE  Read(Append(a, e), i) = ReadOn(Read(a, i), e, i)
<1>1. PICK b, f, g, N : b = Append(a, e) /\ f = Reading(a, i) /\ g = Reading(b, i) /\ N = Len(a)
  OBVIOUS
<1>2. /\ N \in Nat /\ b \in Seq(Event) /\ Len(b) = N + 1 /\ b[N + 1] = e
      /\ \A n \in 1..N : b[n] = a[n]
  BY <1>1
<1>3. /\ f[0] = g[0]
      /\ \A n \in 1..N : f[n] = ReadOn(f[n - 1], a[n], i)
      /\ \A n \in 1..N + 1 : g[n] = ReadOn(g[n - 1], b[n], i)
  BY <1>1, <1>2, ReadingIs
<1> DEFINE S == {m \in Nat : m <= N => f[m] = g[m]}
<1>4. 0 \in S
  BY <1>3
<1>5. ASSUME NEW m \in S  PROVE  m + 1 \in S
  <2>1. SUFFICES ASSUME m + 1 <= N  PROVE  f[m + 1] = g[m + 1]
    BY <1>5
  <2>2. m \in Nat /\ m <= N /\ (m + 1) - 1 = m /\ m + 1 \in 1..N /\ m + 1 \in 1..N + 1
    BY <1>2, <2>1
  <2>3. f[m] = g[m]
    BY <1>5, <2>2
  <2>4. f[m + 1] = ReadOn(f[(m + 1) - 1], a[m + 1], i) /\ g[m + 1] = ReadOn(g[(m + 1) - 1], b[m + 1], i)
        /\ b[m + 1] = a[m + 1]
    BY <1>2, <1>3, <2>2
  <2>. QED
    BY <2>2, <2>3, <2>4
<1>6. S = Nat
  <2>1. S \in SUBSET Nat
    OBVIOUS
  <2>. HIDE DEF S
  <2>. QED
    BY <1>4, <1>5, <2>1, InductionOnNat
<1>7. f[N] = g[N]
  <2>1. N \in S /\ N <= N
    BY <1>2, <1>6
  <2>. QED
    BY <2>1
<1>8. g[N + 1] = ReadOn(g[N], e, i)
  <2>1. N + 1 \in 1..N + 1 /\ (N + 1) - 1 = N
    BY <1>2
  <2>. QED
    BY <1>2, <1>3, <2>1
<1>. QED
  BY <1>1, <1>2, <1>7, <1>8 DEF Read

-----------------------------------------------------------------------------
(* One slot of a stream.                                                   *)

\* d was delivered and p is held back where r is to be read: what was let go since the last
\* end is restored, and no placeholder, however the text goes on, is partly in it.
InStep(d, p, r) ==
  /\ r \in Page /\ p \in Text /\ RestoreInText(p) = p
  /\ \E o \in Text : /\ r.open = o \o p
                     /\ d = r.whole \o RestoreInText(o)
                     /\ \A t \in Text : Apart(o, p \o t)

LEMMA InStepReads ==
  ASSUME NEW d, NEW p, NEW r, InStep(d, p, r)
  PROVE  d \in Text /\ p \in Text /\ d \o p = r.whole \o RestoreInText(r.open)
<1>1. PICK o \in Text : /\ r.open = o \o p /\ d = r.whole \o RestoreInText(o)
                        /\ \A t \in Text : Apart(o, p \o t)
  BY DEF InStep
<1>2. PICK w, q : w = r.whole /\ q = RestoreInText(o)
  OBVIOUS
<1>3. w \in Text /\ q \in Text /\ p \in Text /\ d = w \o q /\ d \in Text /\ RestoreInText(p) = p
  <2>1. w \in Text /\ q \in Text /\ p \in Text /\ d = w \o q /\ RestoreInText(p) = p
    BY <1>1, <1>2, RestoredIsText DEF InStep, Page
  <2>. QED
    BY <2>1, TextsConcat
<1>4. Apart(o, p)
  <2>1. << >> \in Text /\ p \o << >> = p
    BY <1>3, TextsConcat DEF Text
  <2>2. Apart(o, p \o << >>)
    BY <1>1, <2>1
  <2>. QED
    BY <2>1, <2>2
<1>5. RestoreInText(o \o p) = q \o p
  BY <1>1, <1>2, <1>3, <1>4, RestoredInParts
<1>6. (w \o q) \o p = w \o (q \o p)
  BY <1>3, TextsRegroup, SMTT(30) DEF Regroups
<1>. QED
  BY <1>1, <1>2, <1>3, <1>5, <1>6

LEMMA NothingInStep == InStep(<< >>, << >>, [whole |-> << >>, open |-> << >>])
<1>1. << >> \in Text /\ << >> \o << >> = << >> /\ Len(<< >>) = 0
  BY DEF Text
<1>2. RestoreInText(<< >>) = << >>
  BY <1>1, NothingToRestore
<1>3. \A t \in Text : Apart(<< >>, << >> \o t)
  BY <1>1 DEF Apart
<1>. QED
  BY <1>1, <1>2, <1>3 DEF InStep, Page

\* The text goes on.
LEMMA InStepGoesOn ==
  ASSUME SecretsApart, NEW d, NEW p, NEW r, InStep(d, p, r), NEW t \in Text,
         NEW v, v = RestoreInText(p \o t)
  PROVE  InStep(d \o SubSeq(v, 1, PartialAtTail(v)), Rest(v, PartialAtTail(v)),
                [whole |-> r.whole, open |-> r.open \o t])
<1>1. PICK o \in Text : /\ r.open = o \o p /\ d = r.whole \o RestoreInText(o)
                        /\ \A y \in Text : Apart(o, p \o y)
  BY DEF InStep
<1>2. r.whole \in Text /\ r.open \in Text /\ p \in Text
  BY DEF InStep, Page
<1>3. PICK u, c, q, h : u = p \o t /\ HeldFrom(u, c, q, h)
  BY DEF HeldFrom
<1>4. u \in Text
  BY <1>2, <1>3, TextsConcat
<1>5. CutsCleanly(u, c, q, h)
  BY <1>3, <1>4, CutIs
<1>6. /\ q \in Text /\ h \in Text /\ u = q \o h /\ RestoreInText(h) = h
      /\ \A y \in Text : Apart(q, h \o y)
      /\ v = RestoreInText(q) \o h /\ PartialAtTail(v) = Len(RestoreInText(q))
  BY <1>3, <1>5 DEF CutsCleanly
<1>7. SubSeq(v, 1, PartialAtTail(v)) = RestoreInText(q) /\ Rest(v, PartialAtTail(v)) = h
  <2>1. PICK x : x = RestoreInText(q)
    OBVIOUS
  <2>2. x \in Text /\ v = x \o h /\ PartialAtTail(v) = Len(x) /\ v \in Text
    BY <1>6, <2>1, RestoredIsText, TextsConcat
  <2>3. /\ Len(x) \in Nat /\ Len(h) \in Nat /\ Len(v) = Len(x) + Len(h)
        /\ \A k \in 1..Len(x) : v[k] = x[k]
        /\ \A k \in 1..Len(h) : v[Len(x) + k] = h[k]
    BY <1>6, <2>2, TextsConcat
  <2>4. PICK m : m = Len(x)
    OBVIOUS
  <2>5. m \in 0..Len(v) /\ Len(v) - m = Len(h)
    BY <2>3, <2>4
  <2>6. Halves(v, m)
    BY <2>2, <2>5, HalvesAre
  <2>7. PICK a, b : a = SubSeq(v, 1, m) /\ b = Rest(v, m)
    OBVIOUS
  <2>8. /\ a \in Seq(Char) /\ Len(a) = m /\ b \in Seq(Char) /\ Len(b) = Len(h)
        /\ (\A k \in 1..m : a[k] = v[k]) /\ \A k \in 1..Len(h) : b[k] = v[m + k]
    BY <2>5, <2>6, <2>7 DEF Halves, Rest, Text
  <2>9. a = x
    <3>1. x \in Seq(Char) /\ Len(a) = Len(x) /\ \A k \in 1..Len(a) : a[k] = x[k]
      BY <2>2, <2>3, <2>4, <2>8 DEF Text
    <3>. QED
      BY <2>8, <3>1, SeqEqual
  <2>10. b = h
    <3>1. h \in Seq(Char) /\ Len(b) = Len(h) /\ \A k \in 1..Len(b) : b[k] = h[k]
      BY <1>6, <2>3, <2>4, <2>8 DEF Text
    <3>. QED
      BY <2>8, <3>1, SeqEqual
  <2>. QED
    BY <2>1, <2>2, <2>4, <2>7, <2>9, <2>10
<1>8. r.open \o t = (o \o q) \o h /\ o \o q \in Text /\ r.open \o t \in Text
  <2>1. Regroups(o, p, t) /\ Regroups(o, q, h)
    BY <1>2, <1>6, TextsRegroup
  <2>2. o \o q \in Text /\ r.open \o t \in Text
    BY <1>2, <1>6, TextsConcat
  <2>. QED
    BY <1>1, <1>3, <1>6, <2>1, <2>2 DEF Regroups
<1>9. \A y \in Text : Apart(o, q \o (h \o y))
  <2>1. TAKE y \in Text
  <2>2. t \o y \in Text /\ Regroups(p, t, y) /\ Regroups(q, h, y)
    BY <1>2, <1>6, TextsConcat, TextsRegroup
  <2>3. p \o (t \o y) = q \o (h \o y)
    BY <1>3, <1>6, <2>2 DEF Regroups
  <2>4. Apart(o, p \o (t \o y))
    BY <1>1, <2>2
  <2>. QED
    BY <2>3, <2>4
<1>10. ASSUME NEW y \in Text  PROVE  Apart(o \o q, h \o y)
  <2>1. PICK z : z = h \o y
    OBVIOUS
  <2>2. z \in Text /\ Apart(o, q \o z) /\ Apart(q, z)
    BY <1>6, <1>9, <2>1, TextsConcat
  <2>3. Apart(o \o q, z)
    BY <1>6, <2>2, ApartGrows
  <2>. QED
    BY <2>1, <2>3
<1>11. RestoreInText(o \o q) = RestoreInText(o) \o RestoreInText(q)
  <2>1. << >> \in Text
    BY DEF Text
  <2>2. h \o << >> \in Text /\ Apart(o, q \o (h \o << >>))
    BY <1>6, <1>9, <2>1, TextsConcat
  <2>3. Apart(o, q)
    BY <1>6, <2>2, ApartInFront
  <2>. QED
    BY <1>6, <2>3, RestoredInParts
<1>12. d \o RestoreInText(q) = r.whole \o RestoreInText(o \o q)
  <2>1. PICK w, x, y : w = r.whole /\ x = RestoreInText(o) /\ y = RestoreInText(q)
    OBVIOUS
  <2>2. w \in Text /\ x \in Text /\ y \in Text
    BY <1>2, <1>6, <2>1, RestoredIsText
  <2>3. Regroups(w, x, y)
    BY <2>2, TextsRegroup
  <2>. QED
    BY <1>1, <1>11, <2>1, <2>3 DEF Regroups
<1>13. PICK s : s = [whole |-> r.whole, open |-> r.open \o t]
  OBVIOUS
<1>14. s \in Page /\ s.whole = r.whole /\ s.open = (o \o q) \o h
  BY <1>2, <1>8, <1>13 DEF Page
<1>15. InStep(d \o RestoreInText(q), h, s)
  BY <1>6, <1>8, <1>10, <1>12, <1>14 DEF InStep
<1>. QED
  BY <1>7, <1>13, <1>15

\* What is held back is sent on, and the text ends.
LEMMA InStepEnds ==
  ASSUME NEW d, NEW p, NEW r, InStep(d, p, r)
  PROVE  InStep(d \o p, << >>, [whole |-> r.whole \o RestoreInText(r.open), open |-> << >>])
<1>1. PICK w : w = d \o p
  OBVIOUS
<1>2. w \in Text /\ w = r.whole \o RestoreInText(r.open)
  BY <1>1, InStepReads, TextsConcat
<1>3. << >> \in Text /\ << >> \o << >> = << >> /\ Len(<< >>) = 0 /\ w \o << >> = w
  BY <1>2, TextsConcat DEF Text
<1>4. RestoreInText(<< >>) = << >>
  BY <1>3, NothingToRestore
<1>5. \A t \in Text : Apart(<< >>, << >> \o t)
  BY <1>3 DEF Apart
<1>6. PICK s : s = [whole |-> w, open |-> << >>]
  OBVIOUS
<1>7. s \in Page /\ s.whole = w /\ s.open = << >>
  BY <1>2, <1>3, <1>6 DEF Page
<1>8. InStep(w, << >>, s)
  BY <1>3, <1>4, <1>5, <1>7 DEF InStep
<1>. QED
  BY <1>1, <1>2, <1>6, <1>8

-----------------------------------------------------------------------------
(* Every slot of a stream.                                                 *)

\* Slot i of the stream is in step.
Carried(i) == InStep(Said(out, i), Pend(i), Read(taken, i))

\* A template's own part is the one its slot's tail goes into, whatever is taken.
LEMMA TakeKeepsClaims ==
  ASSUME TemplatesClaim, NEW e \in Event, TakePlain(e) \/ TakeStop(e) \/ TakeDelta(e)
  PROVE  TemplatesClaim'
<1>1. SUFFICES \A i \in DOMAIN tmpl' : Claims(tmpl'[i].event, tmpl'[i].own)
  BY DEF TemplatesClaim, Claims, Displayed
<1>2. CASE TakePlain(e)
  BY <1>2 DEF TakePlain
<1>3. CASE TakeStop(e)
  BY <1>3 DEF TakeStop, Without, TemplatesClaim
<1>4. CASE TakeDelta(e)
  <2> DEFINE claimed == {k \in 1..Len(e.parts) : Claims(e, k)}
             claimant(i) == CHOOSE k \in claimed : e.parts[k].idx = i
             heldBack == {e.parts[k].idx : k \in {j \in claimed : Carry(e, j) # << >>}}
             taking == {e.parts[k].idx : k \in claimed}
  <2>1. tmpl' = [i \in (DOMAIN tmpl \ taking) \cup heldBack |->
                   IF i \in heldBack THEN SaveTemplate(e, claimant(i)) ELSE tmpl[i]]
    BY <1>4 DEF TakeDelta
  <2>2. ASSUME NEW i \in heldBack
        PROVE  Claims(SaveTemplate(e, claimant(i)).event, SaveTemplate(e, claimant(i)).own)
    <3>1. \E k \in claimed : e.parts[k].idx = i
      OBVIOUS
    <3>2. claimant(i) \in claimed
      BY <3>1
    <3>. HIDE DEF claimant
    <3>. QED
      BY <3>2, SavedClaims
  <2>. HIDE DEF heldBack, taking, claimant
  <2>. QED
    BY <2>1, <2>2 DEF TemplatesClaim
<1>. QED
  BY <1>2, <1>3, <1>4

\* What ends all slots leaves each in step.
LEMMA PlainInStep ==
  ASSUME HeldOK, TemplatesClaim, NEW e \in Event, e.parts = << >>, taken' = Append(taken, e), TakePlain(e),
         NEW i, Carried(i)
  PROVE  Carried(i)'
<1> DEFINE f == [e EXCEPT !.raw = RestoreInText(e.raw)]
<1>1. PICK o, d, p, r : o = out /\ d = Said(out, i) /\ p = Pend(i) /\ r = Read(taken, i)
  OBVIOUS
<1>2. o \in Seq(Event) /\ taken \in Seq(Event) /\ InStep(d, p, r)
  BY <1>1 DEF HeldOK, RestorerTypeOK, Carried
<1>3. f \in Event /\ f.parts = << >>
  <2>1. RestoreInText(e.raw) \in Text
    BY RestoredIsText DEF Event
  <2>. QED
    BY <2>1 DEF Event
<1>4. SlotText(e, i) = << >> /\ SlotText(f, i) = << >>
  <2>1. Len(e.parts) = 0 /\ Len(f.parts) = 0
    BY <1>3
  <2>. HIDE DEF f
  <2>. QED
    BY <1>3, <2>1, SlotTextOfClaim
<1>5. out' = (o \o FlushAll) \o <<f>> /\ pending' = << >> /\ e.type = "plain"
  BY <1>1 DEF TakePlain
<1>. HIDE DEF f
<1>6. Said(out', i) = d \o p
  <2>1. FlushAll \in Seq(Event) /\ Said(FlushAll, i) = p
    BY <1>1, FlushAllSays
  <2>2. PICK a : a = FlushAll
    OBVIOUS
  <2>3. a \in Seq(Event) /\ Said(o \o a, i) = d \o p
    <3>1. a \in Seq(Event) /\ Said(a, i) = p /\ Said(o, i) = d
      BY <1>1, <2>1, <2>2
    <3>2. o \in Seq(Event) /\ a \in Seq(Event)
      BY <1>2, <3>1
    <3>3. Said(o \o a, i) = Said(o, i) \o Said(a, i)
      BY ONLY <3>2, SaidOfConcat
    <3>. QED
      BY <3>1, <3>3
  <2>4. PICK v : v = o \o a
    OBVIOUS
  <2>5. v \in Seq(Event) /\ v \o <<f>> = Append(v, f)
    BY <1>2, <1>3, <2>3, <2>4, ConcatProperties, AppendIsConcat
  <2>6. Said(Append(v, f), i) = (d \o p) \o << >>
    <3>1. Said(v, i) = d \o p
      BY <2>3, <2>4
    <3>2. Said(Append(v, f), i) = Said(v, i) \o SlotText(f, i)
      BY <1>3, <2>5, SaidOfAppend
    <3>. QED
      BY <1>4, <3>1, <3>2
  <2>7. d \o p \in Text /\ (d \o p) \o << >> = d \o p
    <3>1. d \in Text /\ p \in Text
      BY <1>2, InStepReads
    <3>2. d \o p \in Text
      BY <3>1, TextsConcat
    <3>. QED
      BY <3>2, TextsConcat
  <2>. QED
    BY <1>5, <2>2, <2>4, <2>5, <2>6, <2>7
<1>7. Pend(i)' = << >>
  BY <1>5 DEF Pend
<1>8. Read(taken', i) = [whole |-> r.whole \o RestoreInText(r.open), open |-> << >>]
  <2>1. Read(taken', i) = ReadOn(r, e, i)
    BY <1>1, <1>2, ReadGrows
  <2>2. r.open \o << >> = r.open
    BY <1>2, TextsConcat DEF InStep, Page
  <2>. QED
    BY <1>4, <1>5, <2>1, <2>2 DEF ReadOn, EndsCarry
<1>9. InStep(d \o p, << >>, [whole |-> r.whole \o RestoreInText(r.open), open |-> << >>])
  BY <1>2, InStepEnds
<1>10. SUFFICES InStep(Said(out', i), Pend(i)', Read(taken', i))
  BY DEF Carried, Said, Read
<1>. QED
  BY <1>6, <1>7, <1>8, <1>9, <1>10

\* The end of a block ends its slot and leaves the others as they were.
LEMMA StopInStep ==
  ASSUME HeldOK, TemplatesClaim, NEW e \in Event, Displayed(e) = {}, taken' = Append(taken, e), TakeStop(e),
         NEW i, Carried(i)
  PROVE  Carried(i)'
<1>1. PICK o, d, p, r, j : o = out /\ d = Said(out, i) /\ p = Pend(i) /\ r = Read(taken, i) /\ j = e.index
  OBVIOUS
<1>2. /\ o \in Seq(Event) /\ taken \in Seq(Event) /\ InStep(d, p, r)
  BY <1>1 DEF HeldOK, RestorerTypeOK, Carried
<1>3. e.type = "content_block_stop" /\ pending' = Without(pending, {j})
      /\ out' = o \o (IF j \in DOMAIN pending THEN <<FlushEvent(j), e>> ELSE <<e>>)
  BY <1>1 DEF TakeStop
<1>4. SlotText(e, i) = << >>
  BY SlotTextOfClaim DEF Claims
<1>5. d \in Text /\ p \in Text /\ d \o << >> = d
  <2>1. d \in Text /\ p \in Text
    BY <1>2, InStepReads
  <2>. QED
    BY <2>1, TextsConcat
<1>6. PICK q \in Text : /\ q = IF j \in DOMAIN pending /\ i = j THEN pending[j] ELSE << >>
                        /\ Said(out', i) = d \o q
  <2>1. CASE j \in DOMAIN pending
    <3>1. PICK f : f = FlushEvent(j)
      OBVIOUS
    <3>2. PICK q : q = SlotText(f, i)
      OBVIOUS
    <3>3. q = IF i = j THEN pending[j] ELSE << >>
      BY <2>1, <3>1, <3>2, FlushSays
    <3>4. f \in Event /\ q \in Text
      BY <2>1, <3>1, <3>2, FlushIsBare, SlotTextIsText
    <3>5. o \o <<f, e>> = Append(Append(o, f), e) /\ Append(o, f) \in Seq(Event)
      <4>1. <<f, e>> = Append(<<f>>, e) /\ <<f>> \in Seq(Event)
        BY <3>4
      <4>2. o \o Append(<<f>>, e) = Append(o \o <<f>>, e)
        BY <1>2, <4>1, ConcatAppend
      <4>3. o \o <<f>> = Append(o, f)
        BY <1>2, <3>4, AppendIsConcat
      <4>. QED
        BY <1>2, <3>4, <4>1, <4>2, <4>3
    <3>6. Said(Append(o, f), i) = d \o q
      BY <1>1, <1>2, <3>2, <3>4, SaidOfAppend
    <3>7. Said(Append(Append(o, f), e), i) = (d \o q) \o << >>
      <4>1. PICK v \in Seq(Event) : v = Append(o, f)
        BY <3>5
      <4>2. Said(Append(v, e), i) = Said(v, i) \o SlotText(e, i)
        BY SaidOfAppend
      <4>. QED
        BY <1>4, <3>6, <4>1, <4>2
    <3>8. (d \o q) \o << >> = d \o q
      <4>1. d \o q \in Text
        BY <1>5, <3>4, TextsConcat
      <4>. QED
        BY <4>1, TextsConcat
    <3>9. out' = Append(Append(o, f), e)
      BY <1>3, <2>1, <3>1, <3>5
    <3>10. Said(out', i) = d \o q
      BY <3>7, <3>8, <3>9
    <3>. QED
      BY <2>1, <3>3, <3>4, <3>10
  <2>2. CASE j \notin DOMAIN pending
    <3>1. out' = Append(o, e)
      BY <1>2, <1>3, <2>2, AppendIsConcat
    <3>2. Said(Append(o, e), i) = d \o << >>
      <4>1. Said(Append(o, e), i) = Said(o, i) \o SlotText(e, i)
        BY <1>2, SaidOfAppend
      <4>. QED
        BY <1>1, <1>4, <4>1
    <3>3. << >> \in Text
      BY DEF Text
    <3>. QED
      BY <2>2, <3>1, <3>2, <3>3
  <2>. QED
    BY <2>1, <2>2
<1>7. Read(taken', i) = ReadOn(r, e, i)
  BY <1>1, <1>2, ReadGrows
<1>8. r.open \o << >> = r.open /\ r = [whole |-> r.whole, open |-> r.open]
  BY <1>2, TextsConcat DEF InStep, Page
<1>9. SUFFICES InStep(Said(out', i), Pend(i)', Read(taken', i))
  BY DEF Carried, Said, Read
<1>10. CASE i = j
  <2>1. q = p
    BY <1>1, <1>6, <1>10 DEF Pend
  <2>2. Pend(i)' = << >>
    BY <1>3, <1>10 DEF Pend, Without
  <2>3. Read(taken', i) = [whole |-> r.whole \o RestoreInText(r.open), open |-> << >>]
    BY <1>1, <1>3, <1>4, <1>7, <1>8, <1>10 DEF ReadOn, EndsCarry
  <2>4. InStep(d \o p, << >>, [whole |-> r.whole \o RestoreInText(r.open), open |-> << >>])
    BY <1>2, InStepEnds
  <2>. QED
    BY <1>6, <2>1, <2>2, <2>3, <2>4
<1>11. CASE i # j
  <2>1. Said(out', i) = d
    BY <1>5, <1>6, <1>11
  <2>2. Pend(i)' = p
    BY <1>1, <1>3, <1>11 DEF Pend, Without
  <2>3. Read(taken', i) = r
    BY <1>1, <1>3, <1>4, <1>7, <1>8, <1>11 DEF ReadOn, EndsCarry
  <2>. QED
    BY <1>2, <2>1, <2>2, <2>3
<1>. QED
  BY <1>10, <1>11

\* What a slot's text becomes is what is shown of it and what is held back.
LEMMA DeltaInStep ==
  ASSUME SecretsApart, HeldOK, HeldOK', NEW e \in Event, taken' = Append(taken, e), TakeDelta(e),
         NEW i, Carried(i)
  PROVE  Carried(i)'
<1>1. PICK o, d, p, r : o = out /\ d = Said(out, i) /\ p = Pend(i) /\ r = Read(taken, i)
  OBVIOUS
<1>2. /\ o \in Seq(Event) /\ taken \in Seq(Event) /\ InStep(d, p, r)
  BY <1>1 DEF HeldOK, RestorerTypeOK, Carried
<1> DEFINE new == [k \in 1..Len(e.parts) |-> [e.parts[k] EXCEPT !.text = Shown(e, k)]]
           f == [e EXCEPT !.parts = new]
<1>3. out' = Append(o, f) /\ e.type \notin {"plain", "content_block_stop"}
  BY <1>1 DEF TakeDelta
<1>4. f \in Event /\ f.parts = new
  <2>1. out' \in Seq(Event) /\ Len(out') = Len(o) + 1 /\ out'[Len(o) + 1] = f /\ Len(o) \in Nat
    <3>1. out' \in Seq(Event)
      BY DEF HeldOK, RestorerTypeOK
    <3>. HIDE DEF f
    <3>. QED
      BY <1>2, <1>3, <3>1
  <2>2. f \in Event
    <3>. HIDE DEF f
    <3>. QED
      BY <2>1
  <2>. HIDE DEF new
  <2>3. f.parts = new
    BY DEF Event
  <2>. QED
    BY <2>2, <2>3
<1>5. /\ Len(new) = Len(e.parts) /\ Len(e.parts) \in Nat
      /\ \A k \in 1..Len(e.parts) : e.parts[k] \in Part
  BY PartsOfEvent
<1>6. ASSUME NEW k \in 1..Len(e.parts)
      PROVE  new[k].idx = e.parts[k].idx /\ new[k].kind = e.parts[k].kind /\ new[k].text = Shown(e, k)
  <2>1. e.parts[k] \in Part /\ new[k] = [e.parts[k] EXCEPT !.text = Shown(e, k)]
    BY <1>5
  <2>. HIDE DEF new
  <2>. QED
    BY <2>1 DEF Part
<1>. HIDE DEF f, new
<1>7. SameClaims(e, f)
  BY <1>4, <1>5, <1>6 DEF SameClaims, Displayed
<1>8. Said(out', i) = d \o SlotText(f, i)
  <2>1. Said(Append(o, f), i) = Said(o, i) \o SlotText(f, i)
    BY <1>2, <1>4, SaidOfAppend
  <2>. QED
    BY <1>1, <1>3, <2>1
<1>9. Read(taken', i) = [whole |-> r.whole, open |-> r.open \o SlotText(e, i)]
  <2>1. Read(taken', i) = ReadOn(r, e, i)
    BY <1>1, <1>2, ReadGrows
  <2>. QED
    BY <1>3, <2>1 DEF ReadOn, EndsCarry
<1> DEFINE claimed == {k \in 1..Len(e.parts) : Claims(e, k)}
           claimant(j) == CHOOSE k \in claimed : e.parts[k].idx = j
           heldBack == {e.parts[k].idx : k \in {j \in claimed : Carry(e, j) # << >>}}
           taking == {e.parts[k].idx : k \in claimed}
<1>10. pending' = [j \in (DOMAIN pending \ taking) \cup heldBack |->
                     IF j \in heldBack THEN Carry(e, claimant(j)) ELSE pending[j]]
  BY DEF TakeDelta
<1>11. SUFFICES InStep(Said(out', i), Pend(i)', Read(taken', i))
  BY DEF Carried, Said, Read
<1>12. CASE \E k \in claimed : e.parts[k].idx = i
  <2>1. PICK k \in claimed : e.parts[k].idx = i
    BY <1>12
  <2>2. k \in 1..Len(e.parts) /\ Claims(e, k) /\ k \in Displayed(e)
    BY DEF Claims
  <2>3. PICK v, t : v = Combined(e, k) /\ t = e.parts[k].text
    OBVIOUS
  <2>4. t \in Text /\ SlotText(e, i) = t
    BY <2>1, <2>2, <2>3, PartsOfEvent, SlotTextOfClaim
  <2>5. v = RestoreInText(p \o t)
    BY <1>1, <2>1, <2>3 DEF Combined, Pend
  <2>6. SlotText(f, i) = SubSeq(v, 1, PartialAtTail(v))
    <3>1. Claims(f, k)
      BY <1>7, <2>2, ClaimsAre
    <3>2. k \in 1..Len(f.parts) /\ f.parts[k].idx = i /\ f.parts[k].text = Shown(e, k)
      BY <1>4, <1>5, <1>6, <2>1, <2>2
    <3>3. SlotText(f, i) = Shown(e, k)
      BY <1>4, <3>1, <3>2, SlotTextOfClaim
    <3>. QED
      BY <2>2, <2>3, <3>3 DEF Shown, Cut
  <2>7. Carry(e, k) = Rest(v, PartialAtTail(v))
    BY <2>3 DEF Carry, Cut, Rest
  <2>8. ASSUME NEW j \in claimed, e.parts[j].idx = i  PROVE  j = k
    <3>1. j \in Nat /\ k \in Nat /\ j \in Displayed(e) /\ k \in Displayed(e) /\ ~(j < k) /\ ~(k < j)
      BY <2>1, <2>2, <2>8, PartsOfEvent DEF Claims
    <3>. QED
      BY <3>1
  <2>9. claimant(i) = k
    <3>1. claimant(i) \in claimed /\ e.parts[claimant(i)].idx = i
      BY <2>1
    <3>. HIDE DEF claimant
    <3>. QED
      BY <2>8, <3>1
  <2>10. i \in taking /\ (i \in heldBack <=> Carry(e, k) # << >>)
    BY <2>1, <2>8
  <2>. HIDE DEF taking, heldBack, claimant
  <2>11. Pend(i)' = Carry(e, k)
    <3>1. CASE Carry(e, k) # << >>
      <4>1. i \in DOMAIN pending' /\ pending'[i] = Carry(e, k)
        BY <1>10, <2>9, <2>10, <3>1
      <4>. QED
        BY <4>1 DEF Pend
    <3>2. CASE Carry(e, k) = << >>
      <4>1. i \notin DOMAIN pending'
        BY <1>10, <2>10, <3>2
      <4>. QED
        BY <3>2, <4>1 DEF Pend
    <3>. QED
      BY <3>1, <3>2
  <2>12. InStep(d \o SubSeq(v, 1, PartialAtTail(v)), Rest(v, PartialAtTail(v)),
                [whole |-> r.whole, open |-> r.open \o t])
    BY <1>2, <2>4, <2>5, InStepGoesOn
  <2>13. PICK x, y, z : x = Said(out', i) /\ y = Pend(i)' /\ z = Read(taken', i)
    OBVIOUS
  <2>14. InStep(x, y, z)
    BY <1>8, <1>9, <2>4, <2>6, <2>7, <2>11, <2>12, <2>13
  <2>. QED
    BY <2>13, <2>14
<1>13. CASE ~\E k \in claimed : e.parts[k].idx = i
  <2>1. \A k \in 1..Len(e.parts) : ~(Claims(e, k) /\ e.parts[k].idx = i)
    BY <1>13
  <2>2. SlotText(e, i) = << >>
    BY <2>1, SlotTextOfClaim
  <2>3. SlotText(f, i) = << >>
    <3>1. \A k \in 1..Len(f.parts) : ~(Claims(f, k) /\ f.parts[k].idx = i)
      <4>1. ASSUME NEW k \in 1..Len(f.parts), Claims(f, k), f.parts[k].idx = i  PROVE  FALSE
        <5>1. Claims(e, k)
          BY <1>7, <4>1, ClaimsAre
        <5>2. k \in 1..Len(e.parts) /\ e.parts[k].idx = i
          BY <1>4, <1>5, <1>6, <4>1
        <5>. QED
          BY <2>1, <5>1, <5>2
      <4>. QED
        BY <4>1
    <3>. QED
      BY <1>4, <3>1, SlotTextOfClaim
  <2>4. i \notin taking /\ i \notin heldBack
    BY <1>13
  <2>. HIDE DEF taking, heldBack, claimant
  <2>5. Pend(i)' = p
    BY <1>1, <1>10, <2>4 DEF Pend
  <2>6. d \o << >> = d /\ r.open \o << >> = r.open /\ r = [whole |-> r.whole, open |-> r.open]
    <3>1. d \in Text /\ r.open \in Text /\ r \in Page
      BY <1>2, InStepReads DEF InStep, Page
    <3>. QED
      BY <3>1, TextsConcat DEF Page
  <2>7. Said(out', i) = d
    BY <1>8, <2>3, <2>6
  <2>8. Read(taken', i) = r
    BY <1>9, <2>2, <2>6
  <2>. QED
    BY <1>2, <2>5, <2>7, <2>8
<1>. QED
  BY <1>12, <1>13

\* Once the held tails are sent on, what was delivered is what should be read.
LEMMA FinalInStep ==
  ASSUME HeldOK, TemplatesClaim, Final, NEW i, Carried(i)
  PROVE  Delivered(i)' = ShouldRead(i)' /\ pending' = << >>
<1>1. PICK o, a, d, p, r : o = out /\ a = FlushAll /\ d = Said(out, i) /\ p = Pend(i) /\ r = Read(taken, i)
  OBVIOUS
<1>2. o \in Seq(Event) /\ a \in Seq(Event) /\ InStep(d, p, r) /\ Said(a, i) = p /\ Said(o, i) = d
  BY <1>1, FlushAllSays DEF HeldOK, RestorerTypeOK, Carried
<1>3. Said(o \o a, i) = d \o p
  BY <1>2, SaidOfConcat
<1>4. d \o p = r.whole \o RestoreInText(r.open)
  BY <1>2, InStepReads
<1>5. out' = o \o a /\ taken' = taken /\ pending' = << >>
  BY <1>1 DEF Final
<1>6. Delivered(i)' = Said(out', i)
  BY DEF Delivered, Said
<1>7. ShouldRead(i)' = r.whole \o RestoreInText(r.open)
  BY <1>1, <1>5 DEF ShouldRead, Read
<1>. QED
  BY <1>3, <1>4, <1>5, <1>6, <1>7

\* Every slot is in step as long as the handler runs, and read in full once it is done.
TextOK ==
  /\ TemplatesClaim
  /\ mode.restoring =>
       \A i \in Slot : IF phase = "done" THEN Delivered(i) = ShouldRead(i) /\ Delivered(i) \in Text
                                         ELSE Carried(i)
  /\ phase = "done" => pending = << >>

LEMMA TextInit == StreamInit => TextOK
<1>. SUFFICES ASSUME StreamInit  PROVE  TextOK
  OBVIOUS
<1>1. pending = << >> /\ tmpl = << >> /\ taken = << >> /\ out = << >> /\ phase = "open"
  BY DEF StreamInit, RestorerInit
<1>2. DOMAIN pending = {} /\ DOMAIN tmpl = {}
  BY <1>1
<1>3. ASSUME NEW i \in Slot  PROVE  Carried(i)
  <2>0. << >> \in Seq(Event) /\ Len(<< >>) = 0
    OBVIOUS
  <2>1. PICK none : none = << >> /\ none \in Seq(Event) /\ Len(none) = 0
    BY <2>0
  <2>2. Said(none, i) = << >>
    <3>1. \A n \in 1..Len(none) : SlotText(none[n], i) = << >>
      BY <2>1
    <3>. QED
      BY <2>1, <3>1, SaidOfNone
  <2>3. Read(none, i) = [whole |-> << >>, open |-> << >>]
    BY <2>1, ReadingIs DEF Read
  <2>4. Pend(i) = << >>
    BY <1>2 DEF Pend
  <2>. QED
    BY <1>1, <2>1, <2>2, <2>3, <2>4, NothingInStep DEF Carried
<1>. QED
  BY <1>1, <1>2, <1>3 DEF TextOK, TemplatesClaim

LEMMA TextStep == ASSUME SecretsApart
                  PROVE  StreamInv /\ EndsOK /\ TextOK /\ [StreamNext]_streamVars => TextOK'
<1>. SUFFICES ASSUME StreamInv, EndsOK, TextOK, [StreamNext]_streamVars  PROVE  TextOK'
  OBVIOUS
<1>1. HeldOK /\ TemplatesClaim /\ mode \in Modes /\ out \in Seq(Event)
  BY DEF StreamInv, TextOK, HeldOK, RestorerTypeOK
<1>2. ASSUME UNCHANGED <<restorerVars, mode>>, (phase # "done" /\ phase' # "done") \/ phase' = phase
      PROVE  TextOK'
  BY <1>2 DEF TextOK, TemplatesClaim, Claims, Displayed, Delivered, ShouldRead, Carried, Said, Pend, Read, restorerVars
<1>3. ASSUME NEW e \in Offers(mode), Receive(e)  PROVE  TextOK'
  <2>1. UNCHANGED <<restorerVars, mode>> /\ phase' = phase
    BY <1>3 DEF Receive
  <2>. QED
    BY <1>2, <2>1
<1>4. CASE Restore
  <2> DEFINE e == Head(guard.ready)
  <2>1. guard.ready # << >> /\ mode.restoring /\ UNCHANGED <<mode, phase>> /\ phase # "done"
        /\ taken' = Append(taken, e) /\ (TakePlain(e) \/ TakeStop(e) \/ TakeDelta(e))
    BY <1>4 DEF Restore, Take
  <2>2. e \in Event /\ Offered(mode, e) /\ (Displayed(e) # {} => ~Mark(e))
    BY <2>1, HeadIsCurrent
  <2>. HIDE DEF e
  <2>3. HeldOK'
    BY <1>1, <2>1, <2>2, TakeWrites
  <2>4. TemplatesClaim'
    BY <1>1, <2>1, <2>2, TakeKeepsClaims
  <2>5. ASSUME NEW i \in Slot  PROVE  Carried(i)'
    <3>1. Carried(i)
      BY <2>1 DEF TextOK
    <3>2. CASE TakePlain(e)
      <4>1. e.parts = << >>
        <5>1. PICK o \in Offers(mode) : e.type = o.type /\ e.parts = o.parts
          BY <2>2 DEF Offered
        <5>. QED
          BY <1>1, <3>2, <5>1, StreamAssumption DEF TakePlain
      <4>. QED
        BY <1>1, <2>1, <2>2, <3>1, <3>2, <4>1, PlainInStep
    <3>3. CASE TakeStop(e)
      <4>1. Displayed(e) = {}
        BY <2>2, <3>3 DEF TakeStop, Mark
      <4>. QED
        BY <1>1, <2>1, <2>2, <3>1, <3>3, <4>1, StopInStep
    <3>4. CASE TakeDelta(e)
      BY <1>1, <2>1, <2>2, <2>3, <3>1, <3>4, DeltaInStep
    <3>. QED
      BY <2>1, <3>2, <3>3, <3>4
  <2>. QED
    BY <2>1, <2>4, <2>5 DEF TextOK
<1>5. CASE Copy
  <2>1. ~mode.restoring /\ UNCHANGED <<pending, tmpl, mode, phase>> /\ phase # "done"
    BY <1>5 DEF Copy
  <2>. QED
    BY <2>1 DEF TextOK, TemplatesClaim, Claims, Displayed
<1>6. CASE EndOfStream
  <2>1. UNCHANGED <<restorerVars, mode>> /\ phase # "done" /\ phase' # "done"
    BY <1>6 DEF EndOfStream
  <2>. QED
    BY <1>2, <2>1
<1>7. CASE Finish
  <2>1. Final /\ phase = "ended" /\ phase' = "done" /\ mode' = mode
    BY <1>7 DEF Finish
  <2>2. pending' = << >> /\ tmpl' = << >>
    BY <2>1 DEF Final
  <2>3. TemplatesClaim'
    BY <2>2 DEF TemplatesClaim
  <2>4. HeldOK'
    BY <1>1, <2>1, FinalWrites
  <2>5. ASSUME NEW i \in Slot, mode.restoring
        PROVE  Delivered(i)' = ShouldRead(i)' /\ Delivered(i)' \in Text
    <3>1. Carried(i)
      BY <2>1, <2>5 DEF TextOK
    <3>2. Delivered(i)' = ShouldRead(i)'
      BY <1>1, <2>1, <3>1, FinalInStep
    <3>3. out' \in Seq(Event)
      BY <2>4 DEF HeldOK, RestorerTypeOK
    <3>4. Said(out', i) \in Text
      BY <3>3, SaidIsText
    <3>. QED
      BY <3>2, <3>4 DEF Delivered, Said
  <2>. QED
    BY <2>1, <2>2, <2>3, <2>5 DEF TextOK
<1>8. CASE ClientLeaves \/ UNCHANGED streamVars
  <2>1. UNCHANGED <<restorerVars, mode>> /\ ((phase # "done" /\ phase' # "done") \/ phase' = phase)
    BY <1>8 DEF ClientLeaves, streamVars
  <2>. QED
    BY <1>2, <2>1
<1>. QED
  BY <1>3, <1>4, <1>5, <1>6, <1>7, <1>8 DEF StreamNext

LEMMA TextSays == StreamInv /\ TextOK => TextIsRestoredWhole
<1>. SUFFICES ASSUME StreamInv, TextOK  PROVE  TextIsRestoredWhole
  OBVIOUS
<1>1. ASSUME mode.restoring, NEW i \in Slot  PROVE  Delivered(i) \o Pend(i) = ShouldRead(i)
  <2>1. Delivered(i) = Said(out, i)
    BY DEF Delivered, Said
  <2>2. CASE phase = "done"
    <3>1. Delivered(i) = ShouldRead(i) /\ Delivered(i) \in Text /\ pending = << >>
      BY <1>1, <2>2 DEF TextOK
    <3>2. Pend(i) = << >>
      BY <3>1 DEF Pend
    <3>3. PICK d : d = Delivered(i)
      OBVIOUS
    <3>4. d \o << >> = d
      BY <3>1, <3>3, TextsConcat
    <3>. QED
      BY <3>1, <3>2, <3>3, <3>4
  <2>3. CASE phase # "done"
    <3>1. PICK d, p, r : d = Said(out, i) /\ p = Pend(i) /\ r = Read(taken, i)
      OBVIOUS
    <3>2. InStep(d, p, r)
      BY <1>1, <2>3, <3>1 DEF TextOK, Carried
    <3>3. d \o p = r.whole \o RestoreInText(r.open)
      BY <3>2, InStepReads
    <3>4. ShouldRead(i) = r.whole \o RestoreInText(r.open)
      BY <3>1 DEF ShouldRead, Read
    <3>. QED
      BY <2>1, <3>1, <3>3, <3>4
  <2>. QED
    BY <2>2, <2>3
<1>. QED
  BY <1>1 DEF TextOK, TextIsRestoredWhole, Pend

-----------------------------------------------------------------------------
(* What holds of every stream.                                            *)

\* A flush delivers one slot's held tail and nothing else, whatever the stream, its
\* slots and the placeholders are (sse.go: the lockstep of pending and tmpl, and the
\* allowlist of reduceToDisplayPayload).
THEOREM FlushesAreBare == StreamSpec => []TemplatesAreBare
<1>1. StreamInv => TemplatesAreBare
  BY DEF StreamInv, HeldOK
<1>. QED
  BY <1>1, StreamInvInit, StreamInvStep, PTL DEF StreamSpec

\* What nobody reads, a tool's arguments among it, reaches the client once, in order and
\* as it was sent, whatever is held back and flushed (sse.go:223-337).
THEOREM SinksReachOnce == StreamSpec => []SinksPassOnce
<1>1. StreamInv => SinksPassOnce
  BY DEF StreamInv
<1>. QED
  BY <1>1, StreamInvInit, StreamInvStep, PTL DEF StreamSpec

\* Nothing of a block's text comes after the end of the block was delivered: what is held of
\* it goes first, however the guard delays events and the restorer holds tails back
\* (sse.go:132, 323-337, flushBlock before content_block_stop).
THEOREM TailsGoFirst == StreamSpec => []TailBeforeStop
<1>1. EndsOK => TailBeforeStop
  BY DEF EndsOK, EndsTold, InTime, TailBeforeStop
<1>. QED
  BY <1>1, StreamInvInit, StreamInvStep, EndsInit, EndsStep, PTL DEF StreamSpec

\* A slot's text at the client, with the tail it still holds, is the upstream's restored as
\* if it had come in one piece, whatever the events it is cut into, the slots and blocks and
\* their order, the placeholders and their secrets, as long as no secret can be mistaken for
\* part of a placeholder (sse.go, processEvent, flushBlock, flushAll and Final).
THEOREM TextsAreWhole == ASSUME SecretsApart PROVE StreamSpec => []TextIsRestoredWhole
<1>1. StreamInv /\ EndsOK /\ TextOK /\ [StreamNext]_streamVars => TextOK'
  BY TextStep
<1>. QED
  BY <1>1, TextSays, StreamInvInit, StreamInvStep, EndsInit, EndsStep, TextInit, PTL DEF StreamSpec

LEMMA GuardSays == StreamInv => FloodNeverLeaks /\ OnlyFloodIsDropped
<1>. SUFFICES ASSUME StreamInv  PROVE  FloodNeverLeaks /\ OnlyFloodIsDropped
  OBVIOUS
<1>1. PICK r, s, h, b : r = received /\ s = Passed /\ h = guard.held /\ b = BlockIn(r, Len(r))
  OBVIOUS
<1>2. ReceivedIs(r) /\ r \in Seq(Event) /\ Len(r) \in Nat /\ (phase = "done" => h = << >>)
  BY <1>1 DEF StreamInv, GuardOK, ReceivedIs, Readable
<1>3. mode.guarded => Tracks(r, s, h, b)
  BY <1>1 DEF StreamInv, GuardOK, Guards
<1>4. \A n : BlockOf(n) = BlockIn(r, n)
  BY <1>1 DEF BlockOf, BlockIn, Mark
<1>5. ASSUME NEW e, NEW x  PROVE  BlockText(e, x) = TextIn(r, e, x)
  BY <1>4 DEF BlockText, TextIn, TextFor
<1>6. FloodNeverLeaks
  <2>1. SUFFICES ASSUME mode.guarded, NEW x \in Blocks, WithinBounds(x)
                 PROVE  ~Strong(StripCode(BlockText(Passed, x)))
    BY DEF FloodNeverLeaks
  <2>2. PICK n \in 1..Len(r) : x = BlockIn(r, n)
    BY <1>1, <1>4 DEF Blocks
  <2>3. x \in 0..Len(r)
    <3>1. n \in Nat
      OBVIOUS
    <3>2. x \in 0..n
      BY <2>2, <3>1, BlockInIs
    <3>. QED
      BY <1>2, <3>2
  <2>4. Within(r, x)
    BY <1>1, <1>4, <1>5, <2>1 DEF WithinBounds, Within
  <2>. QED
    BY <1>1, <1>3, <1>5, <2>1, <2>3, <2>4 DEF Tracks, NoFloodIn
<1>7. PICK kept : kept = s \o h
  OBVIOUS
<1>8. KeptOf(r, kept) /\ OnlyFloodIsLost(r, kept)
  BY <1>1, <1>7, KeptIs
<1>9. OnlyFloodIsDropped
  <2>1. \A k \in 1..Len(kept) - 1 : kept[k].at < kept[k + 1].at
    <3>1. Len(kept) \in Nat
      BY <1>8 DEF KeptOf
    <3>2. \A k \in 1..Len(kept) - 1 : k \in 1..Len(kept) /\ k + 1 \in 1..Len(kept) /\ k < k + 1
      BY <3>1
    <3>. QED
      BY <1>8, <3>2 DEF KeptOf
  <2>2. ASSUME NEW n \in 1..Len(r), \A k \in 1..Len(kept) : kept[k].at # n
        PROVE  /\ IsText(r[n]) \/ TypeSeen(r[n]) \in {"", "ping"}
               /\ \E m \in 1..Len(r) : FloodedAt(m, BlockOf(n))
    <3>1. Light(r[n]) /\ FloodIn(r, BlockIn(r, n))
      BY <1>8, <2>2 DEF OnlyFloodIsLost
    <3>2. PICK m \in 1..Len(r) : Shows(StripCode(TextIn(r, SubSeq(r, 1, m), BlockIn(r, n))))
      BY <3>1 DEF FloodIn
    <3>3. FloodedAt(m, BlockOf(n))
      BY <1>1, <1>4, <1>5, <3>2 DEF FloodedAt, Shows
    <3>. QED
      BY <3>1, <3>3 DEF Light
  <2>. QED
    BY <1>1, <1>2, <1>7, <2>1, <2>2 DEF OnlyFloodIsDropped
<1>. QED
  BY <1>6, <1>9

\* Whatever the guard takes for a flood, what it lets through of a block within its bounds
\* is not one: no hold that is lifted, no end of block or stream lets one out
\* (claude_guard.go, flushHeld: "lifting a hold can never leak a confirmed flood").
THEOREM FloodsStayIn == StreamSpec => []FloodNeverLeaks
<1>1. StreamInv => FloodNeverLeaks
  BY GuardSays
<1>. QED
  BY <1>1, StreamInvInit, StreamInvStep, PTL DEF StreamSpec

\* The guard delays and keeps the order, and drops nothing but the text, and the pings held
\* with it, of a block that at some point was a flood (claude_guard.go, consume and hold).
THEOREM NothingElseIsLost == StreamSpec => []OnlyFloodIsDropped
<1>1. StreamInv => OnlyFloodIsDropped
  BY GuardSays
<1>. QED
  BY <1>1, StreamInvInit, StreamInvStep, PTL DEF StreamSpec

\* The guard never keeps more text or more events than its bounds, and holds nothing
\* of a block it has given up (claude_guard.go), whatever the bounds and the stream.
THEOREM GuardIsBounded == StreamSpec => []GuardInBounds
<1>1. StreamInv => GuardInBounds
  BY DEF StreamInv, GoodGuard, GuardInBounds
<1>. QED
  BY <1>1, StreamInvInit, StreamInvStep, PTL DEF StreamSpec
=============================================================================
