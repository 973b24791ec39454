-------------------------- MODULE RelayPickProofs --------------------------
(***************************************************************************)
(* Proofs about the selection of a relay key, for token lists of any       *)
(* length, any tokens and any groups, and that reading the list in pages   *)
(* from a changing account is one way to get such a list.                  *)
(***************************************************************************)
EXTENDS TokenPages, TextsProofs

Within(t, tier) == Considered(t) /\ TierOf(t) = tier

Known(L) == \A j \in DOMAIN L : L[j].quota # Unknown

\* What the loop knows of a tier after the first n tokens of L: c is its
\* candidate, or it has none.
BestOf(L, n, c, tier) ==
  /\ c = 0 => \A j \in 1..n : ~Within(L[j], tier)
  /\ c # 0 =>
       /\ c \in 1..n /\ Within(L[c], tier)
       /\ tier \in {"auto", "plain"} =>
            \A j \in 1..n : Within(L[j], tier) => ~OutranksOnHeadroom(L[j], L[c])
       /\ \A j \in 1..(c - 1) : Within(L[j], tier) =>
            tier \in {"auto", "plain"} /\ (Known(L) => OutranksOnHeadroom(L[c], L[j]))

\* How far down the tokens of a tier are.
TierDepth(tier) ==
  CASE tier = "auto" -> IF probe = "unusable" THEN 5 ELSE 1
    [] tier = "plain" -> 2
    [] tier = "system" -> 3
    [] tier = "drained" -> 4

Empty(L, tier) == \A j \in DOMAIN L : ~Within(L[j], tier)

WhileScanning ==
  pc = "scan" =>
    /\ list = first
    /\ i \in 1..(Len(first) + 1)
    /\ \A tier \in Tier : BestOf(first, i - 1, cand[tier], tier)

OnceScanned ==
  pc \in {"probe", "relist", "uncreated"} =>
    /\ list = first
    /\ \A tier \in Tier : BestOf(first, Len(first), cand[tier], tier)

WhileRescanning ==
  pc = "rescan" =>
    /\ i \in 1..(Len(list) + 1)
    /\ \A tier \in Tier \ {"plain"} : BestOf(first, Len(first), cand[tier], tier)
    /\ BestOf(list, i - 1, cand["plain"], "plain")

WhileMissing ==
  /\ pc \in {"relist", "uncreated"} => cand["plain"] = 0
  /\ pc \in {"relist", "uncreated", "rescan"} \/ created =>
       /\ want \in {GroupAuto, SelectAuto}
       /\ Empty(first, "plain")

Asking ==
  /\ pc = "probe" => cand["auto"] # 0 /\ cand[Downgrade] # 0
  /\ probe # "unasked" => pc \in {"fetch", "done", "failed"}

Fresh == pc = "list" => cand = NoCandidate /\ ~created

Unpicked == pc \notin {"fetch", "done", "failed"} => pick = NoPick

PickInv ==
  /\ PickTypeOK
  /\ WhileScanning /\ OnceScanned /\ WhileRescanning /\ WhileMissing
  /\ Fresh /\ Asking /\ Unpicked
  /\ NoBetterKey /\ NewestOfEquals /\ NoKeyOnlyWithoutKeys

-----------------------------------------------------------------------------
(* The ranking.                                                            *)

LEMMA QuotaTypes ==
  ASSUME NEW t \in Token
  PROVE  t.quota \in Int \cup {Unlimited, Unknown} /\ t.enabled \in BOOLEAN
BY PickAssumption

LEMMA OutranksIrreflexive ==
  ASSUME NEW t \in Token PROVE ~OutranksOnHeadroom(t, t)
BY QuotaTypes, PickAssumption DEF OutranksOnHeadroom

LEMMA OutranksTransitive ==
  ASSUME NEW t \in Token, NEW u \in Token, NEW v \in Token,
         OutranksOnHeadroom(t, u), OutranksOnHeadroom(u, v)
  PROVE  OutranksOnHeadroom(t, v)
BY QuotaTypes, PickAssumption DEF OutranksOnHeadroom

\* Known quotas rank totally: what does not outrank v is outranked by what does.
LEMMA OutranksTotal ==
  ASSUME NEW t \in Token, NEW u \in Token, NEW v \in Token,
         u.quota # Unknown,
         OutranksOnHeadroom(t, v), ~OutranksOnHeadroom(u, v)
  PROVE  OutranksOnHeadroom(t, u)
BY QuotaTypes, PickAssumption DEF OutranksOnHeadroom

\* One turn of the loop, for a token of the tier and for one of another.
LEMMA BestOfReplaced ==
  ASSUME NEW L \in Seq(Token), NEW n \in Nat, n + 1 \in DOMAIN L,
         NEW c \in Nat, NEW tier, BestOf(L, n, c, tier),
         Within(L[n + 1], tier),
         \/ c = 0
         \/ tier \in {"auto", "plain"} /\ OutranksOnHeadroom(L[n + 1], L[c])
  PROVE  BestOf(L, n + 1, n + 1, tier)
<1>1. \A j \in 1..(n + 1) : L[j] \in Token
  OBVIOUS
<1>2. CASE c = 0
  <2>1. \A j \in 1..n : ~Within(L[j], tier) BY <1>2 DEF BestOf
  <2>2. \A j \in 1..(n + 1) : j \in 1..n \/ j = n + 1 OBVIOUS
  <2>3. 1..((n + 1) - 1) = 1..n /\ n + 1 # 0 /\ n + 1 \in 1..(n + 1) OBVIOUS
  <2>4. ~OutranksOnHeadroom(L[n + 1], L[n + 1]) BY <1>1, <2>3, OutranksIrreflexive
  <2> QED BY <2>1, <2>2, <2>3, <2>4 DEF BestOf
<1>3. CASE c # 0
  <2>1. /\ c \in 1..n /\ Within(L[c], tier)
        /\ tier \in {"auto", "plain"} /\ OutranksOnHeadroom(L[n + 1], L[c])
        /\ \A j \in 1..n : Within(L[j], tier) => ~OutranksOnHeadroom(L[j], L[c])
    BY <1>3 DEF BestOf
  <2>2. \A j \in 1..(n + 1) : j \in 1..n \/ j = n + 1 OBVIOUS
  <2>3. 1..((n + 1) - 1) = 1..n /\ n + 1 # 0 /\ n + 1 \in 1..(n + 1) OBVIOUS
  <2>4. ASSUME NEW j \in 1..(n + 1), Within(L[j], tier)
        PROVE  ~OutranksOnHeadroom(L[j], L[n + 1])
    <3>1. CASE j = n + 1 BY <3>1, <1>1, OutranksIrreflexive
    <3>2. CASE j \in 1..n
      <4>1. ~OutranksOnHeadroom(L[j], L[c]) BY <2>1, <2>4, <3>2
      <4> QED BY <4>1, <1>1, <2>1, <2>3, <3>2, OutranksTransitive
    <3> QED BY <2>2, <3>1, <3>2
  <2>5. ASSUME NEW j \in 1..n, Within(L[j], tier), Known(L)
        PROVE  OutranksOnHeadroom(L[n + 1], L[j])
    <3>1. ~OutranksOnHeadroom(L[j], L[c]) BY <2>1, <2>5
    <3>2. L[j].quota # Unknown BY <2>5 DEF Known
    <3>3. L[j] \in Token /\ L[c] \in Token /\ L[n + 1] \in Token BY <1>1, <2>1
    <3> QED BY <2>1, <3>1, <3>2, <3>3, OutranksTotal
  <2> QED BY <2>1, <2>3, <2>4, <2>5 DEF BestOf
<1> QED BY <1>2, <1>3

LEMMA BestOfKept ==
  ASSUME NEW L \in Seq(Token), NEW n \in Nat, n + 1 \in DOMAIN L,
         NEW c \in Nat, NEW tier, BestOf(L, n, c, tier),
         \/ ~Within(L[n + 1], tier)
         \/ /\ c # 0
            /\ tier \in {"auto", "plain"} => ~OutranksOnHeadroom(L[n + 1], L[c])
  PROVE  BestOf(L, n + 1, c, tier)
<1>1. \A j \in 1..(n + 1) : j \in 1..n \/ j = n + 1 OBVIOUS
<1>2. 1..n \subseteq 1..(n + 1) OBVIOUS
<1> QED BY <1>1, <1>2 DEF BestOf

LEMMA BestOfNothing ==
  ASSUME NEW L, NEW tier PROVE BestOf(L, 0, 0, tier)
BY DEF BestOf

LEMMA BestOfNone ==
  ASSUME NEW L \in Seq(Token), NEW tier, BestOf(L, Len(L), 0, tier)
  PROVE  Empty(L, tier)
BY DEF BestOf, Empty

LEMMA TierOfInTier == \A t : TierOf(t) \in Tier
BY DEF TierOf, Tier

\* Reading the request only, the tiers outlive any step that keeps it.
LEMMA WithinKept ==
  ASSUME want' = want
  PROVE  /\ \A t : Considered(t)' <=> Considered(t)
         /\ \A t : TierOf(t)' = TierOf(t)
         /\ \A t, tier : Within(t, tier)' <=> Within(t, tier)
         /\ \A L, n, c, tier : BestOf(L, n, c, tier)' <=> BestOf(L, n, c, tier)
         /\ \A L, tier : Empty(L, tier)' <=> Empty(L, tier)
<1>1. \A t : Considered(t)' <=> Considered(t) BY DEF Considered
<1>2. \A t : TierOf(t)' = TierOf(t) BY DEF TierOf, Exhausted
<1>3. \A t, tier : Within(t, tier)' <=> Within(t, tier) BY <1>1, <1>2 DEF Within
<1>4. \A L, n, c, tier : BestOf(L, n, c, tier)' <=> BestOf(L, n, c, tier)
  BY <1>3 DEF BestOf, Known, OutranksOnHeadroom
<1>5. \A L, tier : Empty(L, tier)' <=> Empty(L, tier) BY <1>3 DEF Empty
<1> QED BY <1>1, <1>2, <1>3, <1>4, <1>5

\* Settling for the candidate of a tier is right when the tiers above are empty.
LEMMA SettleBest ==
  ASSUME want' = want,
         NEW L \in Seq(Token), NEW tier \in Tier, NEW c \in DOMAIN L,
         BestOf(L, Len(L), c, tier),
         \A other \in Tier : TierDepth(other)' < TierDepth(tier)' => Empty(L, other),
         pick' = [among |-> L, at |-> c]
  PROVE  NoBetterKey' /\ NewestOfEquals'
<1>1. /\ \A t : Considered(t)' <=> Considered(t)
      /\ \A t : TierOf(t)' = TierOf(t)
  BY WithinKept
<1>2. c # 0 /\ c \in 1..Len(L) /\ Len(L) \in Nat OBVIOUS
<1>3. Considered(L[c]) /\ TierOf(L[c]) = tier BY <1>2 DEF BestOf, Within
<1>4. pick'.among = L /\ pick'.at = c /\ Picked' = L[c] BY DEF Picked
<1>5. \A a, b \in Tier : TierDepth(a)' \in 1..5 /\ (a # b => TierDepth(a)' # TierDepth(b)')
  BY DEF TierDepth, Tier
<1>6. ASSUME NEW j \in DOMAIN L, Considered(L[j])
      PROVE  /\ TierDepth(tier)' <= TierDepth(TierOf(L[j]))'
             /\ TierOf(L[j]) = tier /\ tier \in {"auto", "plain"}
                  => ~OutranksOnHeadroom(L[j], L[c])
  <2>1. TierOf(L[j]) \in Tier BY TierOfInTier
  <2>2. ~(TierDepth(TierOf(L[j]))' < TierDepth(tier)')
    BY <1>1, <1>6, <2>1 DEF Empty, Within
  <2>3. TierDepth(tier)' <= TierDepth(TierOf(L[j]))' BY <1>1, <1>5, <2>1, <2>2
  <2> QED BY <1>2, <1>6, <2>3 DEF BestOf, Within
<1>7. \A t : Depth(t)' = TierDepth(TierOf(t))' BY DEF Depth, TierDepth, TierOf
<1>8. /\ Depth(L[c])' = TierDepth(tier)'
      /\ TierDepth(tier)' \notin {3, 4} => tier \in {"auto", "plain"}
  BY <1>1, <1>3, <1>7 DEF TierDepth, Tier
<1>9. ASSUME NEW j \in DOMAIN L, Considered(L[j])
      PROVE  /\ Depth(L[j])' = TierDepth(TierOf(L[j]))'
             /\ TierOf(L[j]) # tier => Depth(L[c])' < Depth(L[j])'
             /\ ~(Depth(L[j])' < Depth(L[c])')
  BY <1>1, <1>5, <1>6, <1>7, <1>8, <1>9, TierOfInTier
<1>10. NoBetterKey'
  <2>1. ASSUME NEW j \in DOMAIN L, Considered(L[j])' PROVE ~Beats(L[j], L[c])'
    <3>1. ~(Depth(L[j])' < Depth(L[c])') BY <1>1, <1>9, <2>1
    <3>2. SUFFICES ASSUME Depth(L[j])' = Depth(L[c])', Depth(L[j])' \notin {3, 4}
                   PROVE  ~OutranksOnHeadroom(L[j], L[c])
      BY <3>1 DEF Beats, OutranksOnHeadroom
    <3>3. TierOf(L[j]) = tier
      <4>1. SUFFICES ASSUME TierOf(L[j]) # tier PROVE FALSE OBVIOUS
      <4>2. Depth(L[c])' < Depth(L[j])' BY <1>1, <1>9, <2>1, <4>1
      <4>3. Depth(L[c])' \in 1..5 BY <1>5, <1>8
      <4> QED BY <3>2, <4>2, <4>3
    <3> QED BY <1>1, <1>6, <1>8, <2>1, <3>2, <3>3
  <2> QED BY <1>1, <1>3, <1>4, <2>1 DEF NoBetterKey
<1>11. NewestOfEquals'
  <2>1. SUFFICES ASSUME Known(L), NEW j \in 1..(c - 1), Considered(L[j])'
                 PROVE  Beats(L[c], L[j])'
    BY <1>4 DEF NewestOfEquals, Known
  <2>2. j \in DOMAIN L BY <1>2
  <2>3. CASE TierOf(L[j]) = tier
    <3>1. tier \in {"auto", "plain"} /\ OutranksOnHeadroom(L[c], L[j])
      BY <1>1, <1>2, <2>1, <2>3 DEF BestOf, Within
    <3>2. Depth(L[j])' = Depth(L[c])'
      BY <1>1, <1>8, <1>9, <2>1, <2>2, <2>3
    <3>3. Depth(L[c])' \notin {3, 4} BY <1>8, <3>1 DEF TierDepth
    <3> QED BY <3>1, <3>2, <3>3 DEF Beats, OutranksOnHeadroom
  <2>4. CASE TierOf(L[j]) # tier
    BY <1>1, <1>9, <2>1, <2>2, <2>4 DEF Beats
  <2> QED BY <2>3, <2>4
<1> QED BY <1>10, <1>11

-----------------------------------------------------------------------------
(* The invariant.                                                          *)

LEMMA PickInitInv == PickInit => PickInv
<1> SUFFICES ASSUME PickInit PROVE PickInv OBVIOUS
<1>1. PickTypeOK
  <2>1. cand \in [Tier -> Nat] /\ \A tier \in Tier : cand[tier] = 0
    BY DEF PickInit, NoCandidate
  <2>2. first \in Seq(Token) /\ list \in Seq(Token) BY DEF PickInit
  <2> QED BY <2>1, <2>2 DEF PickInit, PickTypeOK
<1>2. NoBetterKey /\ NewestOfEquals /\ NoKeyOnlyWithoutKeys
  BY DEF PickInit, NoBetterKey, NewestOfEquals, NoKeyOnlyWithoutKeys
<1> QED
  BY <1>1, <1>2 DEF PickInit, PickInv, WhileScanning, OnceScanned, WhileRescanning,
     WhileMissing, Fresh, Asking, Unpicked

LEMMA NoneConsidered ==
  ASSUME NEW L \in Seq(Token), \A tier \in Tier : Empty(L, tier)
  PROVE  ~\E j \in DOMAIN L : Considered(L[j])
BY TierOfInTier DEF Empty, Within

LEMMA DowngradeIs ==
  /\ Downgrade \in {"plain", "system", "drained"} /\ Downgrade \in Tier
  /\ cand[Downgrade] = 0 =>
       cand["plain"] = 0 /\ cand["system"] = 0 /\ cand["drained"] = 0
  /\ Downgrade # "plain" => cand["plain"] = 0
  /\ Downgrade = "drained" => cand["system"] = 0
BY DEF Downgrade, Tier

\* A step that settles for a tier, the tiers above it being empty.
LEMMA SettleStep ==
  ASSUME PickInv, NEW tier \in Tier, NEW L \in Seq(Token),
         L = IF tier \in {"system", "drained"} THEN first ELSE list,
         cand[tier] # 0, BestOf(L, Len(L), cand[tier], tier),
         \A other \in Tier : TierDepth(other)' < TierDepth(tier)' => Empty(L, other),
         Settle(tier), UNCHANGED <<want, first, list, i, cand, created>>,
         probe' \in {"unasked", "usable", "unusable", "unanswered"}
  PROVE  PickInv'
<1>1. cand[tier] \in DOMAIN L BY DEF PickInv, PickTypeOK
<1>2. pick' = [among |-> L, at |-> cand[tier]] /\ pc' = "fetch" BY DEF Settle
<1>3. NoBetterKey' /\ NewestOfEquals' BY <1>1, <1>2, SettleBest
<1>4. PickTypeOK' BY <1>1, <1>2 DEF PickInv, PickTypeOK
<1>5. WhileMissing'
  BY <1>2, WithinKept DEF PickInv, WhileMissing
<1> QED
  BY <1>2, <1>3, <1>4, <1>5 DEF PickInv, WhileScanning, OnceScanned, WhileRescanning,
     Fresh, Asking, Unpicked, NoKeyOnlyWithoutKeys

LEMMA ListStep == PickInv /\ (List \/ ListFails) => PickInv'
<1> SUFFICES ASSUME PickInv, List \/ ListFails PROVE PickInv' OBVIOUS
<1>1. /\ pc = "list" /\ want' = want /\ cand' = cand /\ probe' = probe
      /\ created' = created /\ pick' = pick
  BY DEF List, ListFails
<1>2. cand = NoCandidate /\ ~created /\ pick = NoPick /\ probe = "unasked"
  BY <1>1 DEF PickInv, Fresh, Unpicked, Asking, PickTypeOK
<1>3. NoBetterKey' /\ NewestOfEquals'
  BY <1>1, <1>2 DEF NoBetterKey, NewestOfEquals
<1>4. CASE List
  <2>1. first' \in Seq(Token) /\ list' = first' /\ i' = 1 /\ pc' = "scan"
    BY <1>4 DEF List
  <2>2. PickTypeOK' BY <1>1, <1>2, <2>1 DEF PickInv, PickTypeOK, NoCandidate
  <2>3. \A tier \in Tier : BestOf(first', 0, cand[tier], tier)
    BY <1>2, BestOfNothing DEF NoCandidate
  <2>4. WhileScanning'
    <3>1. i' \in 1..(Len(first') + 1) /\ i' - 1 = 0 BY <2>1
    <3> QED BY <1>1, <2>1, <2>3, <3>1, WithinKept DEF WhileScanning
  <2> QED
    BY <1>1, <1>2, <1>3, <2>1, <2>2, <2>4 DEF PickInv, OnceScanned, WhileRescanning,
       WhileMissing, Fresh, Asking, Unpicked, NoKeyOnlyWithoutKeys
<1>5. CASE ListFails
  <2>1. first' = first /\ list' = list /\ i' = i /\ pc' = "failed" BY <1>5 DEF ListFails
  <2>2. PickTypeOK' BY <1>1, <2>1 DEF PickInv, PickTypeOK
  <2> QED
    BY <1>1, <1>2, <1>3, <2>1, <2>2 DEF PickInv, WhileScanning, OnceScanned,
       WhileRescanning, WhileMissing, Fresh, Asking, Unpicked, NoKeyOnlyWithoutKeys
<1> QED BY <1>4, <1>5

LEMMA ScanStep == PickInv /\ Scan => PickInv'
<1> SUFFICES ASSUME PickInv, Scan PROVE PickInv' OBVIOUS
<1> DEFINE here == TierOf(list[i])
<1>1. /\ pc = "scan" /\ pc' = "scan" /\ i <= Len(list) /\ i' = i + 1
      /\ UNCHANGED <<want, first, list, probe, created, pick>>
  BY DEF Scan
<1>2. /\ list = first /\ first \in Seq(Token) /\ i \in Nat /\ i \in DOMAIN first
      /\ cand \in [Tier -> Nat] /\ pick = NoPick
      /\ \A tier \in Tier : BestOf(first, i - 1, cand[tier], tier)
  BY <1>1 DEF PickInv, PickTypeOK, WhileScanning, Unpicked
<1>3. here \in Tier BY TierOfInTier
<1>4. cand' = IF Considered(list[i]) /\ Replaces(i, here)
              THEN [cand EXCEPT ![here] = i] ELSE cand
  BY DEF Scan
<1>5. cand' \in [Tier -> Nat]
      /\ \A tier \in Tier : cand'[tier] = IF Considered(list[i]) /\ Replaces(i, here)
                                             /\ tier = here THEN i ELSE cand[tier]
  BY <1>2, <1>3, <1>4
<1> HIDE DEF here
<1>6. ASSUME NEW tier \in Tier PROVE BestOf(first, i, cand'[tier], tier)
  <2>1. i - 1 \in Nat /\ (i - 1) + 1 = i BY <1>2
  <2>2. CASE Within(list[i], tier) /\ Replaces(i, tier)
    <3>1. cand'[tier] = i BY <1>5, <2>2 DEF Within, here
    <3>2. cand[tier] = 0 \/ (tier \in {"auto", "plain"}
                               /\ OutranksOnHeadroom(first[i], first[cand[tier]]))
      BY <1>2, <2>2 DEF Replaces
    <3>3. BestOf(first, (i - 1) + 1, (i - 1) + 1, tier)
      BY <1>2, <2>1, <2>2, <3>2, BestOfReplaced
    <3> QED BY <2>1, <3>1, <3>3
  <2>3. CASE ~(Within(list[i], tier) /\ Replaces(i, tier))
    <3>1. cand'[tier] = cand[tier] BY <1>5, <2>3 DEF Within, here
    <3>2. \/ ~Within(first[i], tier)
          \/ /\ cand[tier] # 0
             /\ tier \in {"auto", "plain"} =>
                  ~OutranksOnHeadroom(first[i], first[cand[tier]])
      BY <1>2, <2>3 DEF Replaces
    <3>3. BestOf(first, (i - 1) + 1, cand[tier], tier)
      BY <1>2, <2>1, <3>2, BestOfKept
    <3> QED BY <2>1, <3>1, <3>3
  <2> QED BY <2>2, <2>3
<1>7. WhileScanning'
  <2>1. i' \in 1..(Len(first) + 1) /\ i' - 1 = i BY <1>1, <1>2
  <2> QED BY <1>1, <1>2, <1>6, <2>1, WithinKept DEF WhileScanning
<1>8. PickTypeOK'
  <2>1. \A tier \in Tier : cand'[tier] # 0 => cand'[tier] \in DOMAIN first
    BY <1>2, <1>5 DEF PickInv, PickTypeOK
  <2> QED BY <1>1, <1>2, <1>5, <2>1 DEF PickInv, PickTypeOK
<1>9. WhileMissing' BY <1>1, WithinKept DEF PickInv, WhileMissing
<1> QED
  BY <1>1, <1>2, <1>7, <1>8, <1>9 DEF PickInv, OnceScanned, WhileRescanning, Fresh,
     Asking, Unpicked, NoBetterKey, NewestOfEquals, NoKeyOnlyWithoutKeys

\* After the first loop.
LEMMA ScannedIs ==
  ASSUME PickInv, Scanned
  PROVE  /\ list = first /\ first \in Seq(Token) /\ pick = NoPick /\ probe = "unasked"
         /\ \A tier \in Tier : BestOf(first, Len(first), cand[tier], tier)
         /\ \A tier \in Tier : cand[tier] = 0 => Empty(first, tier)
<1>1. /\ list = first /\ first \in Seq(Token) /\ pick = NoPick /\ probe = "unasked"
      /\ i \in 1..(Len(first) + 1) /\ i > Len(first)
      /\ \A tier \in Tier : BestOf(first, i - 1, cand[tier], tier)
  BY DEF Scanned, PickInv, PickTypeOK, WhileScanning, Unpicked, Asking
<1>2. i - 1 = Len(first) BY <1>1
<1>3. \A tier \in Tier : BestOf(first, Len(first), cand[tier], tier) BY <1>1, <1>2
<1> QED BY <1>1, <1>3, BestOfNone

LEMMA AskGrantStep == PickInv /\ AskGrant => PickInv'
<1> SUFFICES ASSUME PickInv, AskGrant PROVE PickInv' OBVIOUS
<1>1. /\ Scanned /\ pc = "scan" /\ pc' = "probe"
      /\ cand["auto"] # 0 /\ cand[Downgrade] # 0
      /\ UNCHANGED <<want, first, list, i, cand, probe, created, pick>>
  BY DEF AskGrant, Scanned
<1>2. Downgrade' = Downgrade BY <1>1 DEF Downgrade
<1>3. OnceScanned' BY <1>1, ScannedIs, WithinKept DEF OnceScanned
<1>4. WhileMissing' BY <1>1, WithinKept DEF PickInv, WhileMissing
<1>5. Asking' /\ Unpicked' BY <1>1, <1>2, ScannedIs DEF Asking, Unpicked
<1>6. NoBetterKey' /\ NewestOfEquals'
  BY <1>1, ScannedIs DEF NoBetterKey, NewestOfEquals
<1>7. PickTypeOK' BY <1>1 DEF PickInv, PickTypeOK
<1> QED
  BY <1>1, <1>3, <1>4, <1>5, <1>6, <1>7 DEF PickInv, WhileScanning, WhileRescanning,
     Fresh, NoKeyOnlyWithoutKeys

\* Above the tier Downgrade names there is only, perhaps, the auto tier.
LEMMA AboveDowngrade ==
  ASSUME NEW tier \in Tier, tier = Downgrade,
         NEW other \in Tier, TierDepth(other)' < TierDepth(tier)'
  PROVE  (other = "auto" /\ probe' # "unusable") \/ cand[other] = 0
BY DowngradeIs DEF TierDepth, Tier

LEMMA NothingAboveAuto ==
  ASSUME probe' # "unusable", NEW other \in Tier
  PROVE  ~(TierDepth(other)' < TierDepth("auto")')
BY DEF TierDepth, Tier

LEMMA WantsDiffer == GroupAuto # Default /\ SelectAuto # Default
<1>1. GroupAuto \in Group /\ Default \notin Group /\ SelectAuto \notin Group \cup {Default}
  BY PickAssumption
<1> QED BY <1>1

LEMMA WantIsAuto == want \in {GroupAuto, SelectAuto} /\ want \in Group => want = GroupAuto
<1>1. SelectAuto \notin Group BY PickAssumption
<1> QED BY <1>1

LEMMA AutoTierIsOfDefault ==
  want # Default => \A L : Empty(L, "auto")
BY DEF Empty, Within, TierOf

\* Giving up with nothing to settle for.
LEMMA GiveUpStep ==
  ASSUME PickInv, pc \in {"scan", "uncreated", "rescan", "relist"},
         pc' \in {"noKey", "createErr", "failed"},
         pc' # "failed" => \A tier \in Tier : Empty(first, tier),
         UNCHANGED <<want, first, list, i, cand, probe, created, pick>>
  PROVE  PickInv'
<1>1. pick = NoPick /\ probe = "unasked" /\ first \in Seq(Token)
  BY DEF PickInv, PickTypeOK, Unpicked, Asking
<1>2. NoBetterKey' /\ NewestOfEquals' BY <1>1 DEF NoBetterKey, NewestOfEquals
<1>3. NoKeyOnlyWithoutKeys'
  <2>1. pc' # "failed" => ~\E j \in DOMAIN first : Considered(first[j])
    BY <1>1, NoneConsidered
  <2> QED BY <2>1, WithinKept DEF NoKeyOnlyWithoutKeys
<1>4. WhileMissing' BY WithinKept DEF PickInv, WhileMissing
<1>5. PickTypeOK' BY DEF PickInv, PickTypeOK
<1> QED
  BY <1>1, <1>2, <1>3, <1>4, <1>5 DEF PickInv, WhileScanning, OnceScanned,
     WhileRescanning, Fresh, Asking, Unpicked

LEMMA ProbeStep ==
  ASSUME PickInv, NEW answer \in {"usable", "unusable", "unanswered"}, Probe(answer)
  PROVE  PickInv'
<1>1. /\ pc = "probe" /\ probe' = answer
      /\ UNCHANGED <<want, first, list, i, cand, created>>
  BY DEF Probe
<1>2. /\ list = first /\ first \in Seq(Token)
      /\ cand["auto"] # 0 /\ cand[Downgrade] # 0
      /\ \A t \in Tier : BestOf(first, Len(first), cand[t], t)
  BY <1>1 DEF PickInv, PickTypeOK, OnceScanned, Asking
<1>3. PICK tier \in Tier : tier = IF answer = "unusable" THEN Downgrade ELSE "auto"
  BY DowngradeIs DEF Tier
<1>4. Settle(tier) /\ cand[tier] # 0 BY <1>2, <1>3 DEF Probe
<1>5. ASSUME NEW other \in Tier, TierDepth(other)' < TierDepth(tier)' PROVE Empty(first, other)
  <2>1. cand[other] = 0
    BY <1>1, <1>3, <1>5, AboveDowngrade, NothingAboveAuto
  <2> QED BY <1>2, <2>1, BestOfNone
<1> QED BY <1>1, <1>2, <1>4, <1>5, SettleStep

LEMMA SettleDefaultStep == PickInv /\ SettleDefault => PickInv'
<1> SUFFICES ASSUME PickInv, SettleDefault PROVE PickInv' OBVIOUS
<1>1. /\ Scanned /\ pc = "scan"
      /\ UNCHANGED <<want, first, list, i, cand, probe, created>>
  BY DEF SettleDefault, Scanned
<1>2. /\ list = first /\ first \in Seq(Token) /\ probe = "unasked"
      /\ \A t \in Tier : BestOf(first, Len(first), cand[t], t)
      /\ \A t \in Tier : cand[t] = 0 => Empty(first, t)
  BY <1>1, ScannedIs
<1>3. CASE cand["auto"] # 0
  <2>1. "auto" \in Tier /\ Settle("auto") BY <1>3 DEF SettleDefault, Tier
  <2>2. \A other \in Tier : ~(TierDepth(other)' < TierDepth("auto")')
    BY <1>1, <1>2, NothingAboveAuto
  <2> QED BY <1>1, <1>2, <1>3, <2>1, <2>2, SettleStep
<1>4. CASE cand["auto"] = 0 /\ cand[Downgrade] # 0
  <2>1. PICK tier \in Tier : tier = Downgrade BY DowngradeIs
  <2>2. Settle(tier) /\ cand[tier] # 0 BY <1>4, <2>1 DEF SettleDefault
  <2>3. \A other \in Tier : TierDepth(other)' < TierDepth(tier)' => Empty(first, other)
    BY <1>2, <1>4, <2>1, AboveDowngrade
  <2> QED BY <1>1, <1>2, <2>2, <2>3, SettleStep
<1>5. CASE cand["auto"] = 0 /\ cand[Downgrade] = 0
  <2>1. pc' = "noKey" /\ pick' = pick BY <1>5 DEF SettleDefault
  <2>2. \A t \in Tier : Empty(first, t) BY <1>2, <1>5, DowngradeIs DEF Tier
  <2> QED BY <1>1, <2>1, <2>2, GiveUpStep
<1> QED BY <1>3, <1>4, <1>5

LEMMA SettleGroupStep == PickInv /\ SettleGroup => PickInv'
<1> SUFFICES ASSUME PickInv, SettleGroup PROVE PickInv' OBVIOUS
<1>1. /\ Scanned /\ pc = "scan" /\ want # Default
      /\ UNCHANGED <<want, first, list, i, cand, probe, created>>
  BY DEF SettleGroup, Scanned
<1>2. /\ list = first /\ first \in Seq(Token) /\ probe = "unasked"
      /\ \A t \in Tier : BestOf(first, Len(first), cand[t], t)
      /\ \A t \in Tier : cand[t] = 0 => Empty(first, t)
  BY <1>1, ScannedIs
<1>3. Empty(first, "auto") BY <1>1, AutoTierIsOfDefault
<1>4. CASE cand[Downgrade] # 0
  <2>1. PICK tier \in Tier : tier = Downgrade BY DowngradeIs
  <2>2. Settle(tier) /\ cand[tier] # 0 BY <1>4, <2>1 DEF SettleGroup
  <2>3. \A other \in Tier : TierDepth(other)' < TierDepth(tier)' => Empty(first, other)
    BY <1>2, <1>3, <2>1, AboveDowngrade
  <2> QED BY <1>1, <1>2, <2>2, <2>3, SettleStep
<1>5. CASE cand[Downgrade] = 0
  <2>1. pc' = "noKey" /\ pick' = pick BY <1>5 DEF SettleGroup
  <2>2. \A t \in Tier : Empty(first, t) BY <1>2, <1>3, <1>5, DowngradeIs DEF Tier
  <2> QED BY <1>1, <2>1, <2>2, GiveUpStep
<1> QED BY <1>4, <1>5

LEMMA CreateStep == PickInv /\ (Create \/ RelistFails) => PickInv'
<1> SUFFICES ASSUME PickInv, Create \/ RelistFails PROVE PickInv' OBVIOUS
<1>1. /\ pc \in {"scan", "relist"} /\ pc' \in {"relist", "uncreated", "failed"}
      /\ UNCHANGED <<want, first, list, i, cand, probe, pick>>
      /\ created' \in {created, TRUE}
  BY DEF Create, RelistFails, Scanned
<1>2. /\ list = first /\ first \in Seq(Token) /\ pick = NoPick /\ probe = "unasked"
      /\ \A t \in Tier : BestOf(first, Len(first), cand[t], t)
      /\ want \in {GroupAuto, SelectAuto} /\ cand["plain"] = 0
      /\ Empty(first, "plain")
  <2>1. CASE Create
    <3>1. Missing /\ Scanned BY <2>1 DEF Create
    <3>2. want \in {GroupAuto, SelectAuto} /\ cand["plain"] = 0 BY <3>1 DEF Missing
    <3>3. "plain" \in Tier BY DEF Tier
    <3> QED BY <3>1, <3>2, <3>3, ScannedIs
  <2>2. CASE RelistFails
    BY <2>2 DEF RelistFails, PickInv, PickTypeOK, OnceScanned, WhileMissing, Unpicked, Asking
  <2> QED BY <2>1, <2>2
<1>3. PickTypeOK' BY <1>1 DEF PickInv, PickTypeOK
<1>4. OnceScanned' BY <1>1, <1>2, WithinKept DEF OnceScanned
<1>5. WhileMissing' BY <1>1, <1>2, WithinKept DEF WhileMissing
<1>6. NoBetterKey' /\ NewestOfEquals' BY <1>1, <1>2 DEF NoBetterKey, NewestOfEquals
<1> QED
  BY <1>1, <1>2, <1>3, <1>4, <1>5, <1>6 DEF PickInv, WhileScanning, WhileRescanning,
     Fresh, Asking, Unpicked, NoKeyOnlyWithoutKeys

LEMMA RelistStep == PickInv /\ Relist => PickInv'
<1> SUFFICES ASSUME PickInv, Relist PROVE PickInv' OBVIOUS
<1>1. /\ pc = "relist" /\ pc' = "rescan" /\ list' \in Seq(Token) /\ i' = 1
      /\ cand' = [cand EXCEPT !["plain"] = 0]
      /\ UNCHANGED <<want, first, probe, created, pick>>
  BY PickAssumption DEF Relist
<1>2. /\ list = first /\ first \in Seq(Token) /\ pick = NoPick /\ probe = "unasked"
      /\ \A t \in Tier : BestOf(first, Len(first), cand[t], t)
      /\ want \in {GroupAuto, SelectAuto} /\ cand["plain"] = 0 /\ cand \in [Tier -> Nat]
      /\ Empty(first, "plain")
  BY <1>1 DEF PickInv, PickTypeOK, OnceScanned, WhileMissing, Unpicked, Asking
<1>3. cand' = cand BY <1>1, <1>2 DEF Tier
<1>4. cand["auto"] = 0
  <2>1. want # Default BY <1>2, WantsDiffer
  <2> QED BY <1>2, <2>1, AutoTierIsOfDefault DEF BestOf, Empty, Tier
<1>5. PickTypeOK'
  <2>1. \A t \in Tier : cand[t] # 0 => t \in {"system", "drained"}
    BY <1>2, <1>4 DEF Tier
  <2> QED BY <1>1, <1>2, <1>3, <2>1 DEF PickInv, PickTypeOK
<1>6. WhileRescanning'
  <2>1. i' \in 1..(Len(list') + 1) /\ i' - 1 = 0 BY <1>1
  <2>2. BestOf(list', 0, 0, "plain") BY BestOfNothing
  <2> QED BY <1>1, <1>2, <1>3, <2>1, <2>2, WithinKept DEF WhileRescanning
<1>7. WhileMissing' BY <1>1, <1>2, WithinKept DEF WhileMissing
<1>8. NoBetterKey' /\ NewestOfEquals' BY <1>1, <1>2 DEF NoBetterKey, NewestOfEquals
<1> QED
  BY <1>1, <1>2, <1>5, <1>6, <1>7, <1>8 DEF PickInv, WhileScanning, OnceScanned,
     Fresh, Asking, Unpicked, NoKeyOnlyWithoutKeys

LEMMA RescanStep == PickInv /\ Rescan => PickInv'
<1> SUFFICES ASSUME PickInv, Rescan PROVE PickInv' OBVIOUS
<1>1. /\ pc = "rescan" /\ pc' = "rescan" /\ i <= Len(list) /\ i' = i + 1
      /\ UNCHANGED <<want, first, list, probe, created, pick>>
  BY DEF Rescan
<1>2. /\ list \in Seq(Token) /\ i \in Nat /\ i \in DOMAIN list /\ first \in Seq(Token)
      /\ cand \in [Tier -> Nat] /\ pick = NoPick /\ "plain" \in Tier
      /\ \A tier \in Tier \ {"plain"} : BestOf(first, Len(first), cand[tier], tier)
      /\ BestOf(list, i - 1, cand["plain"], "plain")
  BY <1>1 DEF PickInv, PickTypeOK, WhileRescanning, Unpicked, Tier
<1>3. i - 1 \in Nat /\ (i - 1) + 1 = i BY <1>2
<1>4. /\ cand' \in [Tier -> Nat]
      /\ \A tier \in Tier \ {"plain"} : cand'[tier] = cand[tier]
      /\ BestOf(list, i, cand'["plain"], "plain")
      /\ cand'["plain"] \in {i, cand["plain"]}
  <2>1. CASE Within(list[i], "plain") /\ Replaces(i, "plain")
    <3>1. cand' = [cand EXCEPT !["plain"] = i] BY <2>1 DEF Rescan, Within
    <3>2. \/ cand["plain"] = 0
          \/ OutranksOnHeadroom(list[i], list[cand["plain"]])
      BY <2>1 DEF Replaces
    <3>3. BestOf(list, (i - 1) + 1, (i - 1) + 1, "plain")
      BY <1>2, <1>3, <2>1, <3>2, BestOfReplaced
    <3> QED BY <1>2, <1>3, <3>1, <3>3
  <2>2. CASE ~(Within(list[i], "plain") /\ Replaces(i, "plain"))
    <3>1. cand' = cand BY <2>2 DEF Rescan, Within
    <3>2. \/ ~Within(list[i], "plain")
          \/ /\ cand["plain"] # 0
             /\ ~OutranksOnHeadroom(list[i], list[cand["plain"]])
      BY <2>2 DEF Replaces
    <3>3. BestOf(list, (i - 1) + 1, cand["plain"], "plain")
      BY <1>2, <1>3, <3>2, BestOfKept
    <3> QED BY <1>2, <1>3, <3>1, <3>3
  <2> QED BY <2>1, <2>2
<1>5. WhileRescanning'
  <2>1. i' \in 1..(Len(list) + 1) /\ i' - 1 = i BY <1>1, <1>2
  <2> QED BY <1>1, <1>2, <1>4, <2>1, WithinKept DEF WhileRescanning
<1>6. PickTypeOK'
  <2>1. \A tier \in Tier : cand'[tier] # 0 =>
          cand'[tier] \in DOMAIN (IF tier \in {"system", "drained"} THEN first ELSE list)
    BY <1>2, <1>4 DEF PickInv, PickTypeOK
  <2> QED BY <1>1, <1>2, <1>4, <2>1 DEF PickInv, PickTypeOK
<1>7. WhileMissing' BY <1>1, WithinKept DEF PickInv, WhileMissing
<1> QED
  BY <1>1, <1>2, <1>5, <1>6, <1>7 DEF PickInv, OnceScanned, WhileScanning, Fresh,
     Asking, Unpicked, NoBetterKey, NewestOfEquals, NoKeyOnlyWithoutKeys

\* Settling for, or without, a last resort once no auto key could be had.
LEMMA SettleLastStep == PickInv /\ (SettleCreated \/ SettleUncreated) => PickInv'
<1> SUFFICES ASSUME PickInv, SettleCreated \/ SettleUncreated PROVE PickInv' OBVIOUS
<1>1. /\ pc \in {"rescan", "uncreated"}
      /\ UNCHANGED <<want, first, list, i, cand, probe, created>>
  BY DEF SettleCreated, SettleUncreated
<1>2. /\ first \in Seq(Token) /\ list \in Seq(Token) /\ probe = "unasked"
      /\ want \in {GroupAuto, SelectAuto} /\ Empty(first, "plain")
      /\ cand \in [Tier -> Nat]
  BY <1>1 DEF PickInv, PickTypeOK, WhileMissing, Asking
<1>3. /\ \A tier \in {"system", "drained"} : BestOf(first, Len(first), cand[tier], tier)
      /\ cand["plain"] # 0 => BestOf(list, Len(list), cand["plain"], "plain")
  <2>1. CASE SettleUncreated
    <3>1. pc = "uncreated" BY <2>1 DEF SettleUncreated
    <3> QED BY <3>1 DEF PickInv, OnceScanned, WhileMissing, Tier
  <2>2. CASE SettleCreated
    <3>1. pc = "rescan" /\ i > Len(list) BY <2>2 DEF SettleCreated
    <3>2. /\ i \in 1..(Len(list) + 1)
          /\ \A tier \in {"system", "drained"} :
               BestOf(first, Len(first), cand[tier], tier)
          /\ BestOf(list, i - 1, cand["plain"], "plain")
      BY <3>1 DEF PickInv, WhileRescanning, Tier
    <3>3. i - 1 = Len(list) BY <1>2, <3>1, <3>2
    <3> QED BY <3>2, <3>3
  <2> QED BY <1>1, <2>1, <2>2
<1>4. \A L : Empty(L, "auto") BY <1>2, AutoTierIsOfDefault, WantsDiffer
<1>5. \A tier \in {"system", "drained"} : cand[tier] = 0 => Empty(first, tier)
  BY <1>2, <1>3, BestOfNone
<1>6. ASSUME NEW tier \in Tier, tier = Downgrade, Settle(tier), cand[tier] # 0
      PROVE  PickInv'
  <2>1. PICK L \in Seq(Token) :
          L = IF tier \in {"system", "drained"} THEN first ELSE list
    BY <1>2
  <2>2. tier \in {"plain", "system", "drained"} BY <1>6, DowngradeIs
  <2>3. BestOf(L, Len(L), cand[tier], tier) BY <1>3, <1>6, <2>1, <2>2
  <2>4. ASSUME NEW other \in Tier, TierDepth(other)' < TierDepth(tier)'
        PROVE  Empty(L, other)
    <3>1. CASE other = "auto" BY <1>4, <3>1
    <3>2. CASE other # "auto"
      <4>1. cand[other] = 0 /\ other \in {"plain", "system", "drained"}
        BY <1>6, <2>4, <3>2, AboveDowngrade DEF Tier
      <4>2. tier # "plain"
        <5>1. SUFFICES ASSUME tier = "plain" PROVE FALSE OBVIOUS
        <5> QED BY <1>6, <4>1, <5>1, <2>4 DEF TierDepth
      <4>3. L = first BY <2>1, <2>2, <4>2
      <4> QED BY <1>2, <1>5, <4>1, <4>3
    <3> QED BY <3>1, <3>2
  <2> QED BY <1>1, <1>2, <1>6, <2>1, <2>3, <2>4, SettleStep
<1>7. CASE Settle(Downgrade) /\ cand[Downgrade] # 0
  BY <1>6, <1>7, DowngradeIs
<1>8. CASE pc' = "failed" /\ pick' = pick BY <1>1, <1>8, GiveUpStep
<1>9. CASE pc' \in {"noKey", "createErr"} /\ pick' = pick /\ cand[Downgrade] = 0
  <2>1. \A tier \in Tier : Empty(first, tier)
    BY <1>2, <1>4, <1>5, <1>9, DowngradeIs DEF Tier
  <2> QED BY <1>1, <1>9, <2>1, GiveUpStep
<1>10. \/ Settle(Downgrade) /\ cand[Downgrade] # 0
       \/ pc' = "failed" /\ pick' = pick
       \/ pc' \in {"noKey", "createErr"} /\ pick' = pick /\ cand[Downgrade] = 0
  BY DEF SettleCreated, SettleUncreated, Downgrade
<1> QED BY <1>7, <1>8, <1>9, <1>10

LEMMA FetchStep == PickInv /\ (Fetch \/ UNCHANGED pickVars) => PickInv'
<1> SUFFICES ASSUME PickInv, Fetch \/ UNCHANGED pickVars PROVE PickInv' OBVIOUS
<1>1. UNCHANGED <<want, first, list, i, cand, probe, created, pick>>
      /\ (pc' = pc \/ (pc = "fetch" /\ pc' \in {"done", "failed"}))
  BY DEF Fetch, pickVars
<1>2. NoBetterKey' /\ NewestOfEquals'
  BY <1>1, SMTT(30) DEF PickInv, NoBetterKey, NewestOfEquals, Picked, Considered, Beats, Depth,
     TierOf, Exhausted, OutranksOnHeadroom
<1>3. NoKeyOnlyWithoutKeys' BY <1>1, WithinKept DEF PickInv, NoKeyOnlyWithoutKeys
<1>4. WhileScanning' /\ OnceScanned' /\ WhileRescanning' /\ WhileMissing'
  BY <1>1, WithinKept DEF PickInv, WhileScanning, OnceScanned, WhileRescanning, WhileMissing
<1>5. Asking' /\ Fresh' /\ Unpicked'
  BY <1>1 DEF PickInv, Asking, Fresh, Unpicked, Downgrade
<1>6. PickTypeOK' BY <1>1 DEF PickInv, PickTypeOK
<1> QED BY <1>2, <1>3, <1>4, <1>5, <1>6 DEF PickInv

\* A new call starts as the first one did.
LEMMA AgainStep == Again => PickInv'
<1> SUFFICES ASSUME Again PROVE PickInv' OBVIOUS
<1>1. PickTypeOK'
  <2>1. cand' \in [Tier -> Nat] /\ \A tier \in Tier : cand'[tier] = 0
    BY DEF Again, NoCandidate
  <2>2. first' \in Seq(Token) /\ list' \in Seq(Token) BY DEF Again
  <2> QED BY <2>1, <2>2 DEF Again, PickTypeOK
<1>2. NoBetterKey' /\ NewestOfEquals' /\ NoKeyOnlyWithoutKeys'
  BY DEF Again, NoBetterKey, NewestOfEquals, NoKeyOnlyWithoutKeys
<1> QED
  BY <1>1, <1>2 DEF Again, PickInv, WhileScanning, OnceScanned, WhileRescanning,
     WhileMissing, Fresh, Asking, Unpicked

LEMMA PickNextInv == PickInv /\ [PickNext]_pickVars => PickInv'
BY ListStep, ScanStep, AskGrantStep, ProbeStep, SettleDefaultStep, SettleGroupStep,
   CreateStep, RelistStep, RescanStep, SettleLastStep, FetchStep, AgainStep DEF PickNext

-----------------------------------------------------------------------------
(* What is read of an account that changes meanwhile.                      *)

Row == [id : Nat, token : Token]

Passing == {k \in DOMAIN rows : filters => rows[k].token.enabled}

ListedIds == {rows[k].id : k \in Passing}

\* How many of the ids in L are newer than x: as many rows are listed before it.
NewerThan(L, x) == Cardinality({y \in L : y > x})

\* Ids are given out in order, and each once.
NewestFirst ==
  /\ \A j, k \in DOMAIN rows : j < k => rows[k].id < rows[j].id
  /\ \A k \in DOMAIN rows : rows[k].id < NewId

\* The ids the pages so far have passed over.
Skipped == {x \in stayed \ IdsOf(got) : NewerThan(ListedIds, x) < Len(got)}

WhileReading ==
  Reading =>
    /\ stayed \subseteq ListedIds
    /\ got = <<>> => stayed = {}
    /\ Cardinality(Skipped) <= left

KeyRead == \E n \in DOMAIN got : got[n].token = AutoKey

\* The one auto key made since a key was last removed or disabled is there for the
\* list under way to find, and for the selection that follows it.
KeyStands ==
  made # 0 =>
    /\ made = 1
    /\ \E k \in DOMAIN rows :
         /\ rows[k].token = AutoKey
         /\ Reading /\ ~KeyRead => Len(got) <= NewerThan(ListedIds, rows[k].id)
    /\ pc = "scan" => \E n \in DOMAIN first : first[n] = AutoKey

PagesInv ==
  /\ PickInv
  /\ PagesTypeOK /\ NewestFirst
  /\ WhileReading /\ ListsWhatStayed /\ KeyStands

LEMMA NewerIsFewer ==
  ASSUME NEW L \in SUBSET Nat, IsFiniteSet(L), NEW x \in Nat
  PROVE  /\ NewerThan(L, x) \in Nat
         /\ x \in L => NewerThan(L, x) < Cardinality(L)
<1> DEFINE A == {y \in L : y > x}
<1>1. A \in SUBSET L /\ x \notin A
  OBVIOUS
<1>2. IsFiniteSet(A) /\ Cardinality(A) <= Cardinality(L)
  BY <1>1, FS_Subset
<1>3. Cardinality(A) \in Nat /\ Cardinality(L) \in Nat
  BY <1>2, FS_CardinalityType
<1>4. x \in L => Cardinality(A) # Cardinality(L)
  BY <1>1, <1>2, FS_Subset
<1> QED BY <1>2, <1>3, <1>4 DEF NewerThan

LEMMA NewerGrows ==
  ASSUME NEW M \in SUBSET Nat, IsFiniteSet(M), NEW L \in SUBSET M, NEW x \in Nat
  PROVE  NewerThan(L, x) <= NewerThan(M, x)
<1> DEFINE A == {y \in L : y > x}
           B == {y \in M : y > x}
<1>1. A \in SUBSET B /\ IsFiniteSet(B)
  <2>1. B \in SUBSET M /\ A \in SUBSET B OBVIOUS
  <2> QED BY <2>1, FS_Subset
<1> QED BY <1>1, FS_Subset DEF NewerThan

LEMMA NewerDiffers ==
  ASSUME NEW L \in SUBSET Nat, IsFiniteSet(L), NEW x \in L, NEW y \in L,
         NewerThan(L, x) = NewerThan(L, y)
  PROVE  x = y
<1>1. ASSUME NEW a \in L, NEW b \in L, a < b PROVE NewerThan(L, b) # NewerThan(L, a)
  <2> DEFINE A == {z \in L : z > a}
             B == {z \in L : z > b}
  <2>1. B \in SUBSET A /\ b \in A /\ b \notin B
    <3>1. \A z \in L : z > b => z > a BY <1>1
    <3>2. b > a /\ ~(b > b) BY <1>1
    <3> QED BY <3>1, <3>2
  <2>2. A \in SUBSET L OBVIOUS
  <2>3. IsFiniteSet(A) BY <2>2, FS_Subset
  <2>4. Cardinality(A) # Cardinality(B) BY <2>1, <2>3, FS_Subset
  <2> QED BY <2>4 DEF NewerThan
<1>2. x \in Nat /\ y \in Nat /\ (x < y \/ y < x \/ x = y) OBVIOUS
<1> QED BY <1>1, <1>2

LEMMA NewerLoses ==
  ASSUME NEW L \in SUBSET Nat, IsFiniteSet(L), NEW gone, NEW x \in Nat
  PROVE  /\ NewerThan(L \ {gone}, x) \in Nat
         /\ NewerThan(L, x) <= NewerThan(L \ {gone}, x) + 1
<1> DEFINE A == {y \in L : y > x}
<1>1. {y \in L \ {gone} : y > x} = A \ {gone} OBVIOUS
<1>2. IsFiniteSet(A)
  <2>1. A \in SUBSET L OBVIOUS
  <2> QED BY <2>1, FS_Subset
<1>3. /\ IsFiniteSet(A \ {gone})
      /\ Cardinality(A \ {gone}) = IF gone \in A THEN Cardinality(A) - 1 ELSE Cardinality(A)
  BY <1>2, FS_RemoveElement
<1>4. Cardinality(A) \in Nat /\ Cardinality(A \ {gone}) \in Nat
  BY <1>2, <1>3, FS_CardinalityType
<1>5. NewerThan(L, x) = Cardinality(A) /\ NewerThan(L \ {gone}, x) = Cardinality(A \ {gone})
  BY <1>1 DEF NewerThan
<1> HIDE DEF A
<1> QED BY <1>3, <1>4, <1>5

LEMMA RowsAreTyped == PagesTypeOK => \A k \in DOMAIN rows : rows[k] \in Row /\ rows[k].id \in Nat
<1> SUFFICES ASSUME PagesTypeOK, NEW k \in DOMAIN rows PROVE rows[k] \in Row /\ rows[k].id \in Nat
  OBVIOUS
<1>1. rows \in Seq(Row) BY DEF PagesTypeOK, Row
<1>2. rows[k] \in Row BY <1>1
<1> QED BY <1>2 DEF Row

\* The gateway's answer, by ids: each listed row stands behind those that are newer.
ListedIs ==
  /\ ListedIds \in SUBSET Nat /\ IsFiniteSet(ListedIds)
  /\ IdsOf(Listed) = ListedIds
  /\ Listed \in Seq(Row) /\ Len(Listed) = Cardinality(ListedIds)
  /\ \A k \in Passing :
       /\ NewerThan(ListedIds, rows[k].id) + 1 \in 1..Len(Listed)
       /\ Listed[NewerThan(ListedIds, rows[k].id) + 1] = rows[k]

LEMMA ListedInOrder == PagesTypeOK /\ NewestFirst => ListedIs
<1> SUFFICES ASSUME PagesTypeOK, NewestFirst PROVE ListedIs OBVIOUS
<1>1. rows \in Seq(Row) /\ Passing \in SUBSET (DOMAIN rows) BY DEF PagesTypeOK, Row, Passing
<1>2. /\ IsFiniteSet(Passing) /\ Passing \in SUBSET Nat /\ Cardinality(Passing) \in Nat
      /\ Listed \in Seq(Row) /\ Len(Listed) = Cardinality(Passing)
      /\ \A n \in 1..Cardinality(Passing) : \E k \in Passing : Listed[n] = rows[k]
      /\ \A k \in Passing : /\ Rank(Passing, k) + 1 \in 1..Cardinality(Passing)
                            /\ Listed[Rank(Passing, k) + 1] = rows[k]
  <2>1. Listed = AtPositions(rows, Passing) BY DEF Listed, Passing
  <2> QED BY <1>1, <2>1, AtPositionsIs
<1>3. \A k \in Passing : rows[k] \in Row /\ rows[k].id \in Nat
  BY <1>1, RowsAreTyped
<1>4. \A j, k \in Passing : j < k <=> rows[k].id < rows[j].id
  <2>1. TAKE j, k \in Passing
  <2>2. j \in Nat /\ k \in Nat /\ (j < k \/ k < j \/ j = k) BY <1>2
  <2>3. j < k => rows[k].id < rows[j].id BY <1>1 DEF NewestFirst
  <2>4. k < j => rows[j].id < rows[k].id BY <1>1 DEF NewestFirst
  <2> QED BY <1>3, <2>2, <2>3, <2>4
<1>5. \A j, k \in Passing : rows[j].id = rows[k].id => j = k
  <2>1. TAKE j, k \in Passing
  <2>2. j \in Nat /\ k \in Nat /\ (j < k \/ k < j \/ j = k) BY <1>2
  <2> QED BY <1>3, <1>4, <2>2
<1> DEFINE idOf(S) == [k \in S |-> rows[k].id]
<1>6. ASSUME NEW S \in SUBSET Passing
      PROVE  /\ IsFiniteSet({rows[k].id : k \in S})
             /\ Cardinality({rows[k].id : k \in S}) = Cardinality(S)
  <2>1. IsFiniteSet(S) BY <1>2, FS_Subset
  <2>2. PICK f : f = [k \in S |-> rows[k].id] OBVIOUS
  <2>3. DOMAIN f = S /\ f = [k \in S |-> f[k]] /\ \A k \in S : f[k] = rows[k].id BY <2>2
  <2>4. \A j, k \in S : f[j] = f[k] => j = k BY <1>5, <2>3
  <2>5. {f[k] : k \in S} = {rows[k].id : k \in S} BY <2>3
  <2>6. IsFiniteSet({f[k] : k \in S}) /\ Cardinality({f[k] : k \in S}) = Cardinality(S)
    BY <2>1, <2>3, <2>4, ImageSize
  <2> QED BY <2>5, <2>6
<1>7. ListedIds \in SUBSET Nat /\ IsFiniteSet(ListedIds) /\ Cardinality(ListedIds) = Cardinality(Passing)
  BY <1>3, <1>6 DEF ListedIds
<1>8. ASSUME NEW k \in Passing PROVE NewerThan(ListedIds, rows[k].id) = Rank(Passing, k)
  <2> DEFINE S == {j \in Passing : j < k}
  <2>1. {y \in ListedIds : y > rows[k].id} = {rows[j].id : j \in S}
    <3>1. \A j \in Passing : rows[j].id > rows[k].id <=> j < k BY <1>3, <1>4
    <3> QED BY <3>1 DEF ListedIds
  <2>2. Cardinality({rows[j].id : j \in S}) = Cardinality(S) BY <1>6
  <2> QED BY <2>1, <2>2 DEF NewerThan, Rank
<1>9. IdsOf(Listed) = ListedIds
  <2>1. DOMAIN Listed = 1..Cardinality(Passing) BY <1>2
  <2>2. \A n \in DOMAIN Listed : Listed[n].id \in ListedIds BY <1>2, <2>1 DEF ListedIds
  <2>3. \A k \in Passing : \E n \in DOMAIN Listed : Listed[n].id = rows[k].id BY <1>2, <2>1
  <2> QED BY <2>2, <2>3 DEF IdsOf, ListedIds
<1> QED BY <1>2, <1>7, <1>8, <1>9 DEF ListedIs

\* The page that is read next holds the rows that follow those read, all of them
\* when the list ends with it.
PageIs ==
  /\ Page \in Seq(Row)
  /\ \A k \in Passing :
       /\ Len(got) <= NewerThan(ListedIds, rows[k].id)
       /\ NewerThan(ListedIds, rows[k].id) < Len(got) + Len(Page)
       => \E n \in DOMAIN Page : Page[n] = rows[k]
  /\ \A total \in {0, Len(Listed)} : Enough(total) => Cardinality(ListedIds) <= Len(got) + Len(Page)
  /\ \A total : ~Enough(total) => Len(Page) > 0

LEMMA PageFollows == PagesTypeOK /\ NewestFirst => PageIs
<1> SUFFICES ASSUME PagesTypeOK, NewestFirst PROVE PageIs OBVIOUS
<1>1. ListedIs BY ListedInOrder
<1> DEFINE m == Len(got)
           c == Len(Listed)
           upTo == IF m + PageSize <= c THEN m + PageSize ELSE c
<1>2. /\ m \in Nat /\ c \in Nat /\ PageSize \in Nat \ {0} /\ Listed \in Seq(Row)
      /\ c = Cardinality(ListedIds)
  BY <1>1, PagesAssumption DEF PagesTypeOK, ListedIs
<1>3. Min({m + PageSize, c}) = upTo
  <2>1. upTo \in {m + PageSize, c} /\ \A y \in {m + PageSize, c} : upTo <= y BY <1>2
  <2>2. \A x \in {m + PageSize, c} : (\A y \in {m + PageSize, c} : x <= y) => x = upTo BY <1>2
  <2> HIDE DEF upTo, m, c
  <2> QED BY <2>1, <2>2 DEF Min
<1>4. Page = SubSeq(Listed, m + 1, upTo) BY <1>3 DEF Page
<1>5. upTo \in Nat /\ upTo <= c /\ upTo <= m + PageSize BY <1>2
<1>6. \A n \in (m + 1)..upTo : Listed[n] \in Row BY <1>2, <1>5
<1> HIDE DEF m, c, upTo
<1>7. /\ Page \in Seq(Row) /\ Len(Page) = (IF m + 1 <= upTo THEN upTo - (m + 1) + 1 ELSE 0)
      /\ \A n \in 1..(upTo - (m + 1) + 1) : Page[n] = Listed[(m + 1) + n - 1]
  BY <1>2, <1>4, <1>5, <1>6, SubSeqProperties
<1>8. ASSUME NEW k \in Passing, m <= NewerThan(ListedIds, rows[k].id),
             NewerThan(ListedIds, rows[k].id) < m + Len(Page)
      PROVE  \E n \in DOMAIN Page : Page[n] = rows[k]
  <2>1. PICK r : r = NewerThan(ListedIds, rows[k].id) OBVIOUS
  <2>2. r + 1 \in 1..c /\ Listed[r + 1] = rows[k] BY <1>1, <2>1 DEF ListedIs, c
  <2>3. r \in Nat
    <3>1. rows[k].id \in Nat BY RowsAreTyped DEF Passing
    <3> QED BY <1>1, <2>1, <3>1, NewerIsFewer DEF ListedIs
  <2>4. m <= r /\ r < m + Len(Page) /\ m + 1 <= upTo BY <1>2, <1>5, <1>7, <1>8, <2>1, <2>3
  <2>5. (r - m) + 1 \in 1..(upTo - (m + 1) + 1) /\ (m + 1) + ((r - m) + 1) - 1 = r + 1
    BY <1>2, <1>5, <1>7, <2>3, <2>4
  <2>6. Page[(r - m) + 1] = rows[k] BY <1>7, <2>2, <2>5
  <2>7. (r - m) + 1 \in DOMAIN Page BY <1>2, <1>5, <1>7, <2>4, <2>5
  <2> QED BY <2>6, <2>7
<1>9. ASSUME NEW total \in {0, c}, Enough(total) PROVE c <= m + Len(Page)
  <2>1. CASE total > 0 /\ m + Len(Page) >= total BY <1>2, <1>7, <1>9, <2>1
  <2>2. CASE Len(Page) < PageSize
    <3>1. upTo = c \/ upTo = m + PageSize BY DEF upTo
    <3> QED BY <1>2, <1>5, <1>7, <2>2, <3>1
  <2> QED BY <1>9, <2>1, <2>2 DEF Enough, m
<1>10. ASSUME NEW total, ~Enough(total) PROVE Len(Page) > 0
  <2>1. ~(Len(Page) < PageSize) /\ Len(Page) \in Nat BY <1>7, <1>10 DEF Enough
  <2> QED BY <1>2, <2>1
<1> QED BY <1>2, <1>7, <1>8, <1>9, <1>10 DEF PageIs, m, c

\* Reading the page: what it was to hold is read, and nothing is skipped.
LEMMA PageIsRead ==
  ASSUME PagesTypeOK, NewestFirst, WhileReading, KeyStands, Reading,
         got' = got \o Page, stayed' = StayedSoFar
  PROVE  /\ got' \in Seq(Row) /\ Len(got') = Len(got) + Len(Page) /\ Len(Page) \in Nat
         /\ stayed' \subseteq ListedIds /\ IsFiniteSet(stayed')
         /\ \A x \in stayed' \ IdsOf(got') :
              NewerThan(ListedIds, x) < Len(got') => x \in Skipped
         /\ IsFiniteSet(Skipped)
         /\ KeyRead => KeyRead'
         /\ \A k \in DOMAIN rows :
              rows[k].token = AutoKey /\ ~KeyRead' /\ Len(got) <= NewerThan(ListedIds, rows[k].id)
                => Len(got') <= NewerThan(ListedIds, rows[k].id)
<1>1. ListedIs /\ PageIs BY ListedInOrder, PageFollows
<1>2. got \in Seq(Row) /\ Page \in Seq(Row) /\ rows \in Seq(Row) BY <1>1 DEF PagesTypeOK, PageIs, Row
<1>3. /\ got' \in Seq(Row) /\ Len(got') = Len(got) + Len(Page) /\ Len(Page) \in Nat /\ Len(got) \in Nat
      /\ \A n \in DOMAIN got : n \in DOMAIN got' /\ got'[n] = got[n]
      /\ \A n \in DOMAIN Page : Len(got) + n \in DOMAIN got' /\ got'[Len(got) + n] = Page[n]
  BY <1>2
<1>4. stayed' \subseteq ListedIds /\ IsFiniteSet(stayed')
  BY <1>1 DEF StayedSoFar, ListedIs, WhileReading, PagesTypeOK
<1>5. IdsOf(got) \subseteq IdsOf(got') BY <1>3 DEF IdsOf
<1>6. ASSUME NEW k \in Passing, Len(got) <= NewerThan(ListedIds, rows[k].id),
             NewerThan(ListedIds, rows[k].id) < Len(got')
      PROVE  \E n \in DOMAIN got' : got'[n] = rows[k]
  <2>1. PICK n \in DOMAIN Page : Page[n] = rows[k] BY <1>1, <1>3, <1>6 DEF PageIs
  <2> QED BY <1>3, <2>1
<1>7. ASSUME NEW x \in stayed' \ IdsOf(got'), NewerThan(ListedIds, x) < Len(got')
      PROVE  x \in Skipped
  <2>1. PICK k \in Passing : x = rows[k].id BY <1>4, <1>7 DEF ListedIds
  <2>2. x \in Nat /\ x \in ListedIds BY <1>1, <1>4, <1>7 DEF ListedIs
  <2>3. NewerThan(ListedIds, x) \in Nat BY <1>1, <2>2, NewerIsFewer DEF ListedIs
  <2>4. ~(Len(got) <= NewerThan(ListedIds, x))
    <3>1. SUFFICES ASSUME Len(got) <= NewerThan(ListedIds, x) PROVE FALSE OBVIOUS
    <3>2. PICK n \in DOMAIN got' : got'[n] = rows[k] BY <1>6, <1>7, <2>1, <3>1
    <3> QED BY <1>7, <2>1, <3>2 DEF IdsOf
  <2>5. NewerThan(ListedIds, x) < Len(got) BY <1>3, <2>3, <2>4
  <2>6. got # <<>>
    <3>1. SUFFICES ASSUME got = <<>> PROVE FALSE OBVIOUS
    <3>2. Len(got) = 0 BY <3>1
    <3> QED BY <2>3, <2>5, <3>2
  <2>7. stayed' = stayed BY <2>6 DEF StayedSoFar
  <2> QED BY <1>5, <1>7, <2>5, <2>7 DEF Skipped
<1>8. IsFiniteSet(Skipped)
  <2>1. Skipped \in SUBSET stayed BY DEF Skipped
  <2> QED BY <2>1, FS_Subset DEF PagesTypeOK
<1>9. KeyRead => KeyRead' BY <1>3 DEF KeyRead
<1>10. ASSUME NEW k \in DOMAIN rows, rows[k].token = AutoKey, ~KeyRead',
              Len(got) <= NewerThan(ListedIds, rows[k].id)
       PROVE  Len(got') <= NewerThan(ListedIds, rows[k].id)
  <2>1. k \in Passing BY <1>10 DEF Passing, AutoKey
  <2>2. NewerThan(ListedIds, rows[k].id) \in Nat
    <3>1. rows[k].id \in Nat BY RowsAreTyped
    <3> QED BY <1>1, <3>1, NewerIsFewer DEF ListedIs
  <2>3. SUFFICES ASSUME NewerThan(ListedIds, rows[k].id) < Len(got') PROVE FALSE
    BY <1>3, <2>2
  <2>4. PICK n \in DOMAIN got' : got'[n] = rows[k] BY <1>6, <1>10, <2>1, <2>3
  <2> QED BY <1>10, <2>4 DEF KeyRead
<1> QED BY <1>3, <1>4, <1>7, <1>8, <1>9, <1>10

-----------------------------------------------------------------------------
(* What a change made elsewhere does to the list.                          *)

\* Every id that was listed is; or one is not, and then no auto key is counted.
Grows ==
  /\ ListedIds \subseteq ListedIds'
  /\ \A k \in DOMAIN rows :
       rows[k].token = AutoKey => \E j \in DOMAIN rows' : rows'[j] = rows[k]

Shrinks == \E gone : ListedIds' = ListedIds \ {gone}

AccountKept == PagesTypeOK' /\ NewestFirst' /\ (Grows \/ made' = 0) /\ (Grows \/ Shrinks)

LEMMA InsertKeeps ==
  ASSUME PagesTypeOK, NewestFirst, NEW t \in Token, Insert(t), filters' = filters,
         changes' \in {changes, changes + 1}
  PROVE  /\ rows' \in Seq(Row) /\ NewestFirst' /\ Grows
         /\ 1 \in DOMAIN rows' /\ rows'[1] = [id |-> NewId, token |-> t]
<1> DEFINE new == [id |-> NewId, token |-> t]
<1>1. rows \in Seq(Row) /\ Len(rows) \in Nat /\ changes \in Nat
  BY PagesAssumption DEF PagesTypeOK, Row
<1>2. new \in Row /\ NewId \in Nat /\ new.id = NewId /\ new.token = t BY <1>1 DEF NewId, Row
<1>3. rows' = <<new>> \o rows BY DEF Insert
<1> HIDE DEF new
<1>4. <<new>> \in Seq(Row) /\ Len(<<new>>) = 1 /\ <<new>>[1] = new BY <1>2
<1>5. /\ rows' \in Seq(Row) /\ Len(rows') = Len(rows) + 1 /\ DOMAIN rows' = 1..(Len(rows) + 1)
      /\ rows'[1] = new
      /\ \A k \in DOMAIN rows : k + 1 \in DOMAIN rows' /\ rows'[k + 1] = rows[k]
      /\ \A k \in DOMAIN rows' : k = 1 \/ (k - 1 \in DOMAIN rows /\ rows'[k] = rows[k - 1])
  BY <1>1, <1>3, <1>4
<1>6. NewestFirst'
  <2>1. NewId < NewId' BY <1>1, <1>5 DEF NewId
  <2>2. \A k \in DOMAIN rows : rows[k].id < NewId /\ rows[k].id \in Nat
    BY RowsAreTyped DEF NewestFirst
  <2>3. \A k \in DOMAIN rows' : rows'[k].id < NewId'
    <3> TAKE k \in DOMAIN rows'
    <3>1. CASE k = 1 BY <1>2, <1>5, <2>1, <3>1
    <3>2. CASE k # 1
      <4>1. k - 1 \in DOMAIN rows /\ rows'[k] = rows[k - 1] BY <1>5, <3>2
      <4>2. PICK x : x = rows[k - 1].id OBVIOUS
      <4>3. NewId' \in Nat /\ x \in Nat /\ x < NewId
        BY <1>1, <1>5, <2>2, <4>1, <4>2 DEF NewId
      <4>4. x < NewId' BY <1>2, <2>1, <4>3
      <4> QED BY <4>1, <4>2, <4>4
    <3> QED BY <3>1, <3>2
  <2>4. \A j, k \in DOMAIN rows' : j < k => rows'[k].id < rows'[j].id
    <3> SUFFICES ASSUME NEW j \in DOMAIN rows', NEW k \in DOMAIN rows', j < k
                 PROVE  rows'[k].id < rows'[j].id
      OBVIOUS
    <3>1. k # 1 /\ j \in Nat /\ k \in Nat BY <1>1, <1>5
    <3>2. k - 1 \in DOMAIN rows /\ rows'[k] = rows[k - 1] BY <1>5, <3>1
    <3>3. CASE j = 1 BY <1>2, <1>5, <2>2, <3>2, <3>3
    <3>4. CASE j # 1
      <4>1. j - 1 \in DOMAIN rows /\ rows'[j] = rows[j - 1] /\ j - 1 < k - 1 BY <1>5, <3>1, <3>4
      <4>2. rows[k - 1].id < rows[j - 1].id BY <3>2, <4>1 DEF NewestFirst
      <4> QED BY <3>2, <4>1, <4>2
    <3> QED BY <3>3, <3>4
  <2> QED BY <2>3, <2>4 DEF NewestFirst
<1>7. Grows
  <2>1. \A k \in Passing : k + 1 \in Passing' /\ rows'[k + 1].id = rows[k].id
    BY <1>5 DEF Passing
  <2>2. ListedIds \subseteq ListedIds' BY <2>1 DEF ListedIds
  <2> QED BY <1>5, <2>2 DEF Grows
<1> QED BY <1>5, <1>6, <1>7 DEF new

LEMMA RemoveKeeps ==
  ASSUME PagesTypeOK, NewestFirst, NEW k \in DOMAIN rows, rows' = RemoveAt(rows, k),
         filters' = filters, changes' = changes + 1
  PROVE  rows' \in Seq(Row) /\ NewestFirst' /\ Shrinks
<1>1. rows \in Seq(Row) /\ Len(rows) \in Nat /\ changes \in Nat /\ DOMAIN rows = 1..Len(rows)
  BY PagesAssumption DEF PagesTypeOK, Row
<1>2. k \in 1..Len(rows) BY <1>1
<1>3. /\ SubSeq(rows, 1, k - 1) \in Seq(Row) /\ Len(SubSeq(rows, 1, k - 1)) = k - 1
      /\ \A n \in 1..(k - 1) : SubSeq(rows, 1, k - 1)[n] = rows[n]
  BY <1>1, <1>2
<1>4. /\ SubSeq(rows, k + 1, Len(rows)) \in Seq(Row)
      /\ Len(SubSeq(rows, k + 1, Len(rows))) = Len(rows) - k
      /\ \A n \in 1..(Len(rows) - k) : SubSeq(rows, k + 1, Len(rows))[n] = rows[k + n]
  BY <1>1, <1>2
<1>5. rows' = SubSeq(rows, 1, k - 1) \o SubSeq(rows, k + 1, Len(rows)) BY DEF RemoveAt
<1>6. /\ rows' \in Seq(Row) /\ Len(rows') = Len(rows) - 1 /\ DOMAIN rows' = 1..(Len(rows) - 1)
      /\ \A n \in 1..(Len(rows) - 1) : rows'[n] = IF n < k THEN rows[n] ELSE rows[n + 1]
  <2>1. PICK front \in Seq(Row) : front = SubSeq(rows, 1, k - 1) BY <1>3
  <2>2. PICK back \in Seq(Row) : back = SubSeq(rows, k + 1, Len(rows)) BY <1>4
  <2>3. /\ front \o back \in Seq(Row) /\ Len(front \o back) = (k - 1) + (Len(rows) - k)
        /\ \A n \in 1..((k - 1) + (Len(rows) - k)) :
             (front \o back)[n] = IF n <= k - 1 THEN front[n] ELSE back[n - (k - 1)]
    <3>1. Len(front) = k - 1 /\ Len(back) = Len(rows) - k BY <1>3, <1>4, <2>1, <2>2
    <3>2. /\ front \o back \in Seq(Row) /\ Len(front \o back) = Len(front) + Len(back)
          /\ \A n \in 1..(Len(front) + Len(back)) :
               (front \o back)[n] = IF n <= Len(front) THEN front[n] ELSE back[n - Len(front)]
      BY ConcatProperties
    <3> QED BY <3>1, <3>2
  <2>4. (k - 1) + (Len(rows) - k) = Len(rows) - 1 BY <1>1, <1>2
  <2>5. ASSUME NEW n \in 1..(Len(rows) - 1)
        PROVE  (front \o back)[n] = IF n < k THEN rows[n] ELSE rows[n + 1]
    <3>1. CASE n < k
      <4>1. n <= k - 1 /\ n \in 1..(k - 1) BY <1>2, <3>1
      <4> QED BY <1>3, <2>1, <2>3, <2>4, <3>1, <4>1
    <3>2. CASE ~(n < k)
      <4>1. ~(n <= k - 1) /\ n - (k - 1) \in 1..(Len(rows) - k) /\ k + (n - (k - 1)) = n + 1
        BY <1>1, <1>2, <3>2
      <4> QED BY <1>4, <2>2, <2>3, <2>4, <3>2, <4>1
    <3> QED BY <3>1, <3>2
  <2>6. rows' = front \o back BY <1>5, <2>1, <2>2
  <2>7. DOMAIN (front \o back) = 1..(Len(rows) - 1) BY <2>3, <2>4
  <2> QED BY <2>3, <2>4, <2>5, <2>6, <2>7
<1>7. NewId' = NewId BY <1>1, <1>6 DEF NewId
<1> DEFINE old(n) == IF n < k THEN n ELSE n + 1
<1>8. \A n \in DOMAIN rows' : old(n) \in DOMAIN rows /\ old(n) # k /\ rows'[n] = rows[old(n)]
  BY <1>1, <1>2, <1>6
<1>9. \A j \in DOMAIN rows : j # k => \E n \in DOMAIN rows' : old(n) = j
  <2> SUFFICES ASSUME NEW j \in DOMAIN rows, j # k PROVE \E n \in DOMAIN rows' : old(n) = j
    OBVIOUS
  <2>1. CASE j < k
    <3>1. j \in DOMAIN rows' /\ old(j) = j BY <1>1, <1>2, <1>6, <2>1
    <3> QED BY <3>1
  <2>2. CASE ~(j < k)
    <3>1. j - 1 \in DOMAIN rows' /\ old(j - 1) = j BY <1>1, <1>2, <1>6, <2>2
    <3> QED BY <3>1
  <2> QED BY <2>1, <2>2
<1>10. NewestFirst'
  <2>1. \A m, n \in DOMAIN rows' : m < n => old(m) < old(n) BY <1>1, <1>2, <1>6
  <2> HIDE DEF old
  <2> QED BY <1>7, <1>8, <2>1 DEF NewestFirst
<1>11. ListedIds' = ListedIds \ {rows[k].id}
  <2>1. \A j \in DOMAIN rows : j # k => rows[j].id # rows[k].id
    <3> TAKE j \in DOMAIN rows
    <3>1. j < k \/ k < j \/ j = k BY <1>1
    <3>2. rows[j].id \in Nat /\ rows[k].id \in Nat BY RowsAreTyped
    <3>3. j < k => rows[k].id < rows[j].id BY DEF NewestFirst
    <3>4. k < j => rows[j].id < rows[k].id BY DEF NewestFirst
    <3> QED BY <3>1, <3>2, <3>3, <3>4
  <2> HIDE DEF old
  <2>2. \A n \in Passing' : old(n) \in Passing /\ old(n) # k /\ rows'[n].id = rows[old(n)].id
    BY <1>8 DEF Passing
  <2>3. \A j \in Passing \ {k} : \E n \in Passing' : rows'[n].id = rows[j].id
    <3> TAKE j \in Passing \ {k}
    <3>1. PICK n \in DOMAIN rows' : old(n) = j BY <1>9 DEF Passing
    <3> QED BY <1>8, <3>1 DEF Passing
  <2>4. ListedIds' \subseteq ListedIds \ {rows[k].id}
    <3> SUFFICES ASSUME NEW n \in Passing' PROVE rows'[n].id \in ListedIds \ {rows[k].id}
      BY DEF ListedIds
    <3>1. old(n) \in Passing /\ old(n) # k /\ rows'[n].id = rows[old(n)].id BY <2>2
    <3> QED BY <2>1, <3>1 DEF ListedIds, Passing
  <2>5. ListedIds \ {rows[k].id} \subseteq ListedIds'
    BY <2>3 DEF ListedIds
  <2> QED BY <2>4, <2>5
<1> QED BY <1>6, <1>10, <1>11 DEF Shrinks

LEMMA SwitchKeeps ==
  ASSUME PagesTypeOK, NewestFirst, NEW k \in DOMAIN rows, NEW b \in BOOLEAN,
         rows[k].token.enabled # b, rows' = [rows EXCEPT ![k].token.enabled = b],
         filters' = filters, changes' = changes + 1
  PROVE  rows' \in Seq(Row) /\ NewestFirst' /\ (IF b THEN Grows ELSE Grows \/ Shrinks)
<1> DEFINE r == [rows[k] EXCEPT !.token.enabled = b]
<1>1. rows \in Seq(Row) /\ Len(rows) \in Nat /\ changes \in Nat /\ DOMAIN rows = 1..Len(rows)
  BY PagesAssumption DEF PagesTypeOK, Row
<1>2. rows[k] \in Row BY RowsAreTyped
<1>3. [rows[k].token EXCEPT !.enabled = b] \in Token BY <1>2, PagesAssumption DEF Row
<1>4. r \in Row /\ r.id = rows[k].id /\ r.token = [rows[k].token EXCEPT !.enabled = b]
  BY <1>2, <1>3 DEF Row
<1>5. r.token.enabled = b
  <2>1. rows[k].token \in Token BY <1>2 DEF Row
  <2> QED BY <1>4, <2>1, PickAssumption
<1>6. rows' = [rows EXCEPT ![k] = r] OBVIOUS
<1> HIDE DEF r
<1>7. /\ rows' \in Seq(Row) /\ DOMAIN rows' = DOMAIN rows /\ Len(rows') = Len(rows)
      /\ rows'[k] = r /\ \A j \in DOMAIN rows : j # k => rows'[j] = rows[j]
  BY <1>1, <1>4, <1>6, SMTT(30)
<1>8. \A j \in DOMAIN rows : rows'[j].id = rows[j].id BY <1>4, <1>7
<1>9. NewestFirst'
  <2>1. NewId < NewId' /\ NewId \in Nat /\ NewId' \in Nat BY <1>1, <1>7 DEF NewId
  <2>2. \A j \in DOMAIN rows : rows[j].id \in Nat /\ rows[j].id < NewId
    BY RowsAreTyped DEF NewestFirst
  <2>3. \A j \in DOMAIN rows : rows[j].id < NewId' BY <2>1, <2>2
  <2> QED BY <1>7, <1>8, <2>3 DEF NewestFirst
<1>10. /\ \A j \in Passing \ {k} : j \in Passing'
       /\ \A j \in Passing' \ {k} : j \in Passing
       /\ b => k \in Passing'
       /\ filters /\ ~b => k \notin Passing'
       /\ ~filters => Passing' = DOMAIN rows /\ Passing = DOMAIN rows
  BY <1>5, <1>7 DEF Passing
<1>11. CASE b
  <2>1. Passing \subseteq Passing' BY <1>10, <1>11
  <2>2. ListedIds \subseteq ListedIds' BY <1>8, <2>1 DEF ListedIds, Passing
  <2>3. \A j \in DOMAIN rows : rows[j].token = AutoKey => rows'[j] = rows[j]
    <3> TAKE j \in DOMAIN rows
    <3>1. rows[k].token.enabled # TRUE /\ AutoKey.enabled = TRUE BY <1>11 DEF AutoKey
    <3> QED BY <1>7, <3>1
  <2> QED BY <1>7, <1>9, <1>11, <2>2, <2>3 DEF Grows
<1>12. CASE ~b /\ ~filters
  <2>1. ListedIds' = ListedIds BY <1>8, <1>10, <1>12 DEF ListedIds
  <2>2. ListedIds = ListedIds \ {NewId}
    <3>1. \A j \in DOMAIN rows : rows[j].id # NewId
      BY <1>1, RowsAreTyped DEF NewestFirst, NewId
    <3> QED BY <3>1 DEF ListedIds, Passing
  <2> QED BY <1>7, <1>9, <1>12, <2>1, <2>2 DEF Shrinks
<1>13. CASE ~b /\ filters
  <2>1. \A j \in DOMAIN rows : j # k => rows[j].id # rows[k].id
    <3> TAKE j \in DOMAIN rows
    <3>1. j < k \/ k < j \/ j = k BY <1>1
    <3>2. rows[j].id \in Nat /\ rows[k].id \in Nat BY RowsAreTyped
    <3>3. j < k => rows[k].id < rows[j].id BY DEF NewestFirst
    <3>4. k < j => rows[j].id < rows[k].id BY DEF NewestFirst
    <3> QED BY <3>1, <3>2, <3>3, <3>4
  <2>2. Passing' = Passing \ {k} BY <1>10, <1>13
  <2>3. ListedIds' = {rows[j].id : j \in Passing \ {k}}
    <3>1. \A j \in Passing' : rows'[j].id = rows[j].id BY <1>8, <2>2 DEF Passing
    <3> QED BY <2>2, <3>1 DEF ListedIds
  <2>4. ListedIds' = ListedIds \ {rows[k].id}
    <3>1. \A j \in Passing : j # k => rows[j].id # rows[k].id BY <2>1 DEF Passing
    <3> QED BY <2>3, <3>1 DEF ListedIds
  <2> QED BY <1>7, <1>9, <1>13, <2>4 DEF Shrinks
<1> QED BY <1>11, <1>12, <1>13

LEMMA ListedInOrderNext == PagesTypeOK' /\ NewestFirst' => ListedIs'
BY ListedInOrder, PTL

\* While the account changes, no more is skipped than left it.
LEMMA ChangeSkips ==
  ASSUME PagesTypeOK, NewestFirst, WhileReading, Change, AccountKept
  PROVE  WhileReading'
<1> DEFINE L == ListedIds
           M == ListedIds'
<1>1. ListedIs BY ListedInOrder
<1>2. ListedIs' BY ListedInOrderNext DEF AccountKept
<1>3. /\ L \in SUBSET Nat /\ IsFiniteSet(L) /\ IdsOf(Listed) = L
      /\ M \in SUBSET Nat /\ IsFiniteSet(M) /\ IdsOf(Listed)' = M
  BY <1>1, <1>2 DEF ListedIs
<1>4. /\ Reading /\ got' = got /\ IdsOf(got)' = IdsOf(got)
      /\ stayed' = stayed \cap M
      /\ left' = IF got = <<>> THEN 0 ELSE left + Cardinality(L \ M)
  BY <1>3 DEF Change, IdsOf
<1>5. stayed \subseteq L /\ (got = <<>> => stayed = {}) /\ Cardinality(Skipped) <= left
      /\ IsFiniteSet(stayed) /\ left \in Nat /\ Len(got) \in Nat
  BY <1>4 DEF WhileReading, PagesTypeOK
<1>6. Skipped' = {x \in (stayed \cap M) \ IdsOf(got) : NewerThan(M, x) < Len(got)}
  BY <1>4 DEF Skipped, NewerThan
<1>7. IsFiniteSet(Skipped) /\ Cardinality(Skipped) \in Nat
  <2>1. Skipped \in SUBSET stayed BY DEF Skipped
  <2>2. IsFiniteSet(Skipped) BY <1>5, <2>1, FS_Subset
  <2> QED BY <2>2, FS_CardinalityType
<1> HIDE DEF L, M
<1>8. SUFFICES Cardinality(Skipped') <= left' BY <1>4, <1>5 DEF WhileReading, M
<1>9. CASE got = <<>>
  <2>1. Skipped' = {} BY <1>5, <1>6, <1>9
  <2> QED BY <1>4, <1>9, <2>1, FS_EmptySet
<1>10. CASE got # <<>> /\ L \subseteq M
  <2>1. Skipped' \in SUBSET Skipped
    <3> SUFFICES ASSUME NEW x \in stayed \ IdsOf(got), NewerThan(M, x) < Len(got)
                 PROVE  NewerThan(L, x) < Len(got)
      BY <1>6 DEF Skipped, L
    <3>1. x \in Nat BY <1>3, <1>5
    <3>2. NewerThan(L, x) <= NewerThan(M, x) BY <1>3, <1>10, <3>1, NewerGrows
    <3>3. NewerThan(L, x) \in Nat /\ NewerThan(M, x) \in Nat BY <1>3, <3>1, NewerIsFewer
    <3> QED BY <1>5, <3>2, <3>3
  <2>2. Cardinality(Skipped') <= Cardinality(Skipped) BY <1>7, <2>1, FS_Subset
  <2>3. L \ M = {} BY <1>10
  <2>4. Cardinality(L \ M) = 0 BY <2>3, FS_EmptySet
  <2>5. IsFiniteSet(Skipped') BY <1>7, <2>1, FS_Subset
  <2>6. Cardinality(Skipped') \in Nat BY <2>5, FS_CardinalityType
  <2>7. left' = left BY <1>4, <1>5, <1>10, <2>4
  <2> QED BY <1>5, <1>7, <2>2, <2>6, <2>7
<1>11. CASE got # <<>> /\ ~(L \subseteq M)
  <2>1. PICK gone : M = L \ {gone}
    BY <1>11 DEF AccountKept, Grows, Shrinks, L, M
  <2>2. gone \in L /\ L \ M = {gone} BY <1>11, <2>1
  <2>3. left' = left + 1 BY <1>4, <1>11, <2>2, FS_Singleton
  <2>4. \A x \in Skipped' \ Skipped : x \in L /\ NewerThan(L, x) = Len(got)
    <3> TAKE x \in Skipped' \ Skipped
    <3>1. /\ x \in stayed \ IdsOf(got) /\ NewerThan(M, x) < Len(got)
          /\ ~(NewerThan(L, x) < Len(got))
      BY <1>6 DEF Skipped, L
    <3>2. x \in Nat /\ x \in L BY <1>3, <1>5, <3>1
    <3>3. NewerThan(M, x) \in Nat /\ NewerThan(L, x) <= NewerThan(M, x) + 1
      BY <1>3, <2>1, <3>2, NewerLoses
    <3>4. NewerThan(L, x) \in Nat BY <1>3, <3>2, NewerIsFewer
    <3> QED BY <1>5, <3>1, <3>2, <3>3, <3>4
  <2>5. \E z : Skipped' \subseteq Skipped \cup {z}
    <3>1. CASE Skipped' \subseteq Skipped BY <3>1
    <3>2. CASE ~(Skipped' \subseteq Skipped)
      <4>1. PICK z \in Skipped' \ Skipped : TRUE BY <3>2
      <4>2. \A x \in Skipped' \ Skipped : x = z
        <5> TAKE x \in Skipped' \ Skipped
        <5>1. x \in L /\ z \in L /\ NewerThan(L, x) = NewerThan(L, z) BY <2>4, <4>1
        <5> QED BY <1>3, <5>1, NewerDiffers
      <4> QED BY <4>2
    <3> QED BY <3>1, <3>2
  <2>6. PICK z : Skipped' \in SUBSET (Skipped \cup {z}) BY <2>5
  <2>7. /\ IsFiniteSet(Skipped \cup {z})
        /\ Cardinality(Skipped \cup {z})
             = IF z \in Skipped THEN Cardinality(Skipped) ELSE Cardinality(Skipped) + 1
    BY <1>7, FS_AddElement
  <2>8. IsFiniteSet(Skipped') /\ Cardinality(Skipped') <= Cardinality(Skipped \cup {z})
    BY <2>6, <2>7, FS_Subset
  <2>9. Cardinality(Skipped') \in Nat BY <2>8, FS_CardinalityType
  <2> QED BY <1>5, <1>7, <2>3, <2>7, <2>8, <2>9
<1> QED BY <1>9, <1>10, <1>11

-----------------------------------------------------------------------------
(* The pages.                                                              *)

LEMMA ChoosePicks == Choose => PickNext
BY DEF Choose, PickNext

LEMMA ListingPicks ==
  ASSUME NEW total, ReadPage(total) \/ LastPage(total) PROVE [PickNext]_pickVars
BY DEF ReadPage, LastPage, PickNext, pickVars

LEMMA CreatingPicks == CreateKey \/ CreateRefused => PickNext
BY DEF CreateKey, CreateRefused, PickNext

LEMMA ChangeHides == Change => UNCHANGED pickVars
BY DEF Change

LEMMA PagesStepsPick == [PagesNext]_<<pickVars, pagesVars>> => [PickNext]_pickVars
<1> SUFFICES ASSUME [PagesNext]_<<pickVars, pagesVars>> PROVE [PickNext]_pickVars OBVIOUS
<1>1. CASE \E total \in {0, Len(Listed)} : ReadPage(total) \/ LastPage(total)
  BY <1>1, ListingPicks
<1>2. CASE CreateKey \/ CreateRefused BY <1>2, CreatingPicks
<1>3. CASE \E t \in Others : AddElsewhere(t)
  BY <1>3, ChangeHides DEF AddElsewhere
<1>4. CASE \E k \in DOMAIN rows :
             RemoveElsewhere(k) \/ DisableElsewhere(k) \/ EnableElsewhere(k)
  BY <1>4, ChangeHides DEF RemoveElsewhere, DisableElsewhere, EnableElsewhere
<1>5. CASE Choose BY <1>5, ChoosePicks
<1>6. CASE NextCall BY <1>6 DEF NextCall, PickNext
<1>7. CASE UNCHANGED <<pickVars, pagesVars>> BY <1>7
<1> QED BY <1>1, <1>2, <1>3, <1>4, <1>5, <1>6, <1>7 DEF PagesNext

\* tokens.go:73-97 under relaykey.go:68-201: whatever is changed elsewhere between
\* two pages, and whether or not the gateway filters, counts, or answers a creation,
\* each step of the detailed call is a step of the selection, or none: every theorem
\* below about PickSpec holds of it.
THEOREM PagesImplementPick == PagesSpec => PickSpec
<1>1. PagesInit => PickInit BY DEF PagesInit
<1> QED BY <1>1, PagesStepsPick, PTL DEF PagesSpec, PickSpec

-----------------------------------------------------------------------------
(* The account's invariant.                                                *)

LEMMA PagesInitInv == PagesInit => PagesInv
<1> SUFFICES ASSUME PagesInit PROVE PagesInv OBVIOUS
<1>1. PickInv BY PickInitInv DEF PagesInit
<1>2. PICK account \in Accounts :
        rows = [k \in DOMAIN account |-> [id |-> Len(account) + 1 - k, token |-> account[k]]]
  BY DEF PagesInit
<1>3. account \in Seq(Token) /\ Len(account) \in Nat /\ DOMAIN account = 1..Len(account)
  BY PagesAssumption
<1>4. \A k \in 1..Len(account) : [id |-> Len(account) + 1 - k, token |-> account[k]] \in Row
  BY <1>3 DEF Row
<1>5. rows \in Seq(Row) /\ Len(rows) = Len(account)
  <2>1. rows \in [1..Len(account) -> Row] BY <1>2, <1>3, <1>4
  <2> QED BY <1>3, <2>1
<1>6. /\ filters \in BOOLEAN /\ got = <<>> /\ stayed = {} /\ left = 0 /\ made = 0
      /\ changes = 0 /\ calls = 1 /\ pc = "list"
  BY DEF PagesInit, PickInit
<1>7. PagesTypeOK
  <2>1. got \in Seq(Row) /\ IsFiniteSet(stayed) BY <1>6, FS_EmptySet
  <2>2. changes \in 0..MaxChanges /\ calls \in 1..MaxCalls BY <1>6, PagesAssumption
  <2> QED BY <1>5, <1>6, <2>1, <2>2 DEF PagesTypeOK, Row
<1>8. NewestFirst
  <2>1. NewId = Len(account) + 1 BY <1>3, <1>5, <1>6 DEF NewId
  <2>2. \A k \in DOMAIN rows : k \in 1..Len(account) /\ rows[k].id = Len(account) + 1 - k
    BY <1>2, <1>3
  <2> QED BY <1>3, <2>1, <2>2 DEF NewestFirst
<1>9. WhileReading
  <2>1. Skipped = {} BY <1>6 DEF Skipped
  <2> QED BY <1>6, <2>1, FS_EmptySet DEF WhileReading
<1> QED BY <1>1, <1>6, <1>7, <1>8, <1>9 DEF PagesInv, ListsWhatStayed, KeyStands

\* A step that leaves the account and the list alone; a call that begins, or moves
\* on, finds the list empty.
LEMMA AccountIsKept ==
  ASSUME PagesInv, PickInv', UNCHANGED <<rows, filters, made, changes>>,
         calls' \in 1..MaxCalls,
         \/ UNCHANGED <<got, stayed, left>>
         \/ got' = <<>> /\ stayed' = {} /\ left' = 0 /\ pc' = "list",
         pc' \in {"scan", "rescan"} => pc = pc' /\ first' = first,
         Reading' => Reading \/ (got' = <<>> /\ stayed' = {})
  PROVE  PagesInv'
<1>1. PagesTypeOK'
  <2>1. /\ got \in Seq(Row) /\ rows \in Seq(Row)
        /\ IsFiniteSet(stayed) /\ left \in Nat /\ made \in Nat
        /\ filters \in BOOLEAN /\ changes \in 0..MaxChanges
    BY DEF PagesInv, PagesTypeOK, Row
  <2>2. got' \in Seq(Row) /\ left' \in Nat
    <3>1. <<>> \in Seq(Row) /\ 0 \in Nat OBVIOUS
    <3> QED BY <2>1, <3>1
  <2>3. IsFiniteSet(stayed')
    <3>1. IsFiniteSet({}) BY FS_EmptySet
    <3> QED BY <2>1, <3>1
  <2>4. rows' \in Seq(Row) /\ made' \in Nat /\ filters' \in BOOLEAN /\ changes' \in 0..MaxChanges
    BY <2>1
  <2> QED BY <2>2, <2>3, <2>4 DEF PagesTypeOK, Row
<1>2. NewestFirst' BY DEF PagesInv, NewestFirst, NewId
<1>3. ListedIds' = ListedIds BY DEF ListedIds, Passing
<1>4. ListedIs BY ListedInOrder DEF PagesInv
<1>5. WhileReading'
  <2>1. SUFFICES ASSUME Reading' PROVE WhileReading' BY DEF WhileReading
  <2>2. CASE got' = <<>> /\ stayed' = {}
    <3>1. Skipped' = {} BY <2>2 DEF Skipped
    <3>2. Cardinality(Skipped') = 0 BY <3>1, FS_EmptySet
    <3>3. left' \in Nat BY <1>1 DEF PagesTypeOK
    <3> QED BY <2>2, <3>2, <3>3 DEF WhileReading
  <2>3. CASE Reading /\ ~(got' = <<>> /\ stayed' = {})
    <3>1. UNCHANGED <<got, stayed, left>> BY <2>3
    <3>2. Skipped' = Skipped BY <1>3, <3>1 DEF Skipped, IdsOf
    <3> QED BY <1>3, <2>3, <3>1, <3>2 DEF WhileReading, PagesInv
  <2> QED BY <2>1, <2>2, <2>3
<1>6. ListsWhatStayed' BY DEF ListsWhatStayed, PagesInv, IdsOf
<1>7. KeyStands'
  <2>1. SUFFICES ASSUME made # 0 PROVE KeyStands' BY DEF KeyStands
  <2>2. PICK k \in DOMAIN rows :
          /\ rows[k].token = AutoKey
          /\ Reading /\ ~KeyRead => Len(got) <= NewerThan(ListedIds, rows[k].id)
    BY <2>1 DEF PagesInv, KeyStands
  <2>3. Reading' /\ ~KeyRead' => Len(got') <= NewerThan(ListedIds, rows[k].id)
    <3>1. CASE got' = <<>>
      <4>1. rows[k].id \in Nat BY RowsAreTyped DEF PagesInv
      <4>2. NewerThan(ListedIds, rows[k].id) \in Nat BY <1>4, <4>1, NewerIsFewer DEF ListedIs
      <4>3. Len(got') = 0 BY <3>1
      <4> QED BY <4>2, <4>3
    <3>2. CASE got' = got /\ Reading BY <2>2, <3>2 DEF KeyRead
    <3> QED BY <3>1, <3>2
  <2>4. pc' = "scan" => \E n \in DOMAIN first' : first'[n] = AutoKey
    BY <2>1 DEF PagesInv, KeyStands
  <2> QED BY <1>3, <2>1, <2>2, <2>3, <2>4 DEF PagesInv, KeyStands
<1> QED BY <1>1, <1>2, <1>5, <1>6, <1>7 DEF PagesInv

LEMMA ChooseKeeps == PagesInv /\ PickInv' /\ Choose => PagesInv'
<1> SUFFICES ASSUME PagesInv, PickInv', Choose PROVE PagesInv' OBVIOUS
<1>1. UNCHANGED <<rows, filters, got, stayed, left, made, changes, calls>>
  BY DEF Choose, pagesVars
<1>2. pc' \in {"scan", "rescan"} => pc = pc' /\ first' = first
  BY DEF Choose, ListFails, Scan, AskGrant, Probe, SettleDefault, SettleGroup, Settle,
     RelistFails, Rescan, SettleCreated, SettleUncreated, Fetch
<1>3. pc' \notin {"list", "relist"}
  BY DEF Choose, ListFails, Scan, AskGrant, Probe, SettleDefault, SettleGroup, Settle,
     RelistFails, Rescan, SettleCreated, SettleUncreated, Fetch
<1>4. calls' \in 1..MaxCalls BY <1>1 DEF PagesInv, PagesTypeOK
<1> QED BY <1>1, <1>2, <1>3, <1>4, AccountIsKept DEF Reading

LEMMA ReadPageKeeps ==
  ASSUME PagesInv, PickInv', NEW total, ReadPage(total)
  PROVE  PagesInv'
<1>1. /\ Reading /\ ~Enough(total) /\ got' = got \o Page /\ stayed' = StayedSoFar
      /\ UNCHANGED <<pickVars, rows, filters, left, made, changes, calls>>
  BY DEF ReadPage
<1>2. PagesTypeOK /\ NewestFirst /\ WhileReading /\ KeyStands BY DEF PagesInv
<1>3. /\ got' \in Seq(Row) /\ Len(got') = Len(got) + Len(Page) /\ Len(Page) \in Nat
      /\ stayed' \subseteq ListedIds /\ IsFiniteSet(stayed')
      /\ \A x \in stayed' \ IdsOf(got') :
           NewerThan(ListedIds, x) < Len(got') => x \in Skipped
      /\ IsFiniteSet(Skipped)
      /\ KeyRead => KeyRead'
      /\ \A k \in DOMAIN rows :
           rows[k].token = AutoKey /\ ~KeyRead' /\ Len(got) <= NewerThan(ListedIds, rows[k].id)
             => Len(got') <= NewerThan(ListedIds, rows[k].id)
  BY <1>1, <1>2, PageIsRead
<1>4. PagesTypeOK' BY <1>1, <1>2, <1>3 DEF PagesTypeOK, Row
<1>5. NewestFirst' BY <1>1, <1>2 DEF NewestFirst, NewId
<1>6. ListedIds' = ListedIds /\ Reading' /\ UNCHANGED <<pc, first>>
  BY <1>1 DEF ListedIds, Passing, Reading, pickVars
<1>7. WhileReading'
  <2>1. got' # <<>>
    <3>1. Len(Page) > 0 BY <1>1, <1>2, PageFollows DEF PageIs
    <3>2. Len(got) \in Nat BY <1>2 DEF PagesTypeOK
    <3>3. Len(got') # 0 BY <1>3, <3>1, <3>2
    <3> QED BY <3>3
  <2>2. Skipped' \in SUBSET Skipped
    <3>1. Skipped' = {x \in stayed' \ IdsOf(got') : NewerThan(ListedIds, x) < Len(got')}
      BY <1>6 DEF Skipped, IdsOf
    <3> QED BY <1>3, <3>1
  <2>3. Cardinality(Skipped') <= Cardinality(Skipped) BY <1>3, <2>2, FS_Subset
  <2>4. Cardinality(Skipped') \in Nat /\ Cardinality(Skipped) \in Nat
    <3>1. IsFiniteSet(Skipped') BY <1>3, <2>2, FS_Subset
    <3> QED BY <1>3, <3>1, FS_CardinalityType
  <2>5. Cardinality(Skipped) <= left /\ left' = left /\ left \in Nat
    BY <1>1, <1>2 DEF WhileReading, PagesTypeOK
  <2>6. Cardinality(Skipped') <= left' BY <2>3, <2>4, <2>5
  <2> QED BY <1>3, <1>6, <2>1, <2>6 DEF WhileReading
<1>8. KeyStands'
  <2>1. SUFFICES ASSUME made # 0 PROVE KeyStands' BY <1>1 DEF KeyStands
  <2>2. PICK k \in DOMAIN rows :
          /\ rows[k].token = AutoKey
          /\ ~KeyRead => Len(got) <= NewerThan(ListedIds, rows[k].id)
    BY <1>1, <1>2, <2>1 DEF KeyStands
  <2>3. ~KeyRead' => Len(got') <= NewerThan(ListedIds, rows[k].id) BY <1>3, <2>2
  <2> QED BY <1>1, <1>2, <1>6, <2>1, <2>2, <2>3 DEF KeyStands
<1>9. ListsWhatStayed' BY <1>6 DEF ListsWhatStayed, Reading
<1> QED BY <1>4, <1>5, <1>7, <1>8, <1>9 DEF PagesInv

LEMMA LastPageKeeps ==
  ASSUME PagesInv, PickInv', NEW total \in {0, Len(Listed)}, LastPage(total)
  PROVE  PagesInv'
<1>1. /\ Reading /\ Enough(total) /\ got' = got \o Page /\ stayed' = StayedSoFar
      /\ UNCHANGED <<rows, filters, left, made, changes, calls>>
  BY DEF LastPage
<1>2. PagesTypeOK /\ NewestFirst /\ WhileReading /\ KeyStands BY DEF PagesInv
<1>3. /\ got' \in Seq(Row) /\ Len(got') = Len(got) + Len(Page) /\ Len(Page) \in Nat
      /\ stayed' \subseteq ListedIds /\ IsFiniteSet(stayed')
      /\ \A x \in stayed' \ IdsOf(got') :
           NewerThan(ListedIds, x) < Len(got') => x \in Skipped
      /\ IsFiniteSet(Skipped)
      /\ KeyRead => KeyRead'
      /\ \A k \in DOMAIN rows :
           rows[k].token = AutoKey /\ ~KeyRead' /\ Len(got) <= NewerThan(ListedIds, rows[k].id)
             => Len(got') <= NewerThan(ListedIds, rows[k].id)
  BY <1>1, <1>2, PageIsRead
<1>4. PagesTypeOK' BY <1>1, <1>2, <1>3 DEF PagesTypeOK, Row
<1>5. NewestFirst' BY <1>1, <1>2 DEF NewestFirst, NewId
<1>6. ListedIs BY <1>2, ListedInOrder
<1>7. \A x \in ListedIds : NewerThan(ListedIds, x) \in Nat /\ NewerThan(ListedIds, x) < Len(got')
  <2> TAKE x \in ListedIds
  <2>1. Cardinality(ListedIds) <= Len(got')
    BY <1>1, <1>2, <1>3, PageFollows DEF PageIs
  <2>2. /\ NewerThan(ListedIds, x) \in Nat /\ NewerThan(ListedIds, x) < Cardinality(ListedIds)
    BY <1>6, NewerIsFewer DEF ListedIs
  <2>3. Cardinality(ListedIds) \in Nat /\ Len(got') \in Nat
    BY <1>3, <1>6, FS_CardinalityType DEF ListedIs
  <2> QED BY <2>1, <2>2, <2>3
<1>8. pc' \in {"scan", "rescan"} /\ (pc' = "scan" => first' = TokensOf(got'))
  BY DEF LastPage, List, Relist
<1>9. ListsWhatStayed'
  <2>1. stayed' \ IdsOf(got') \in SUBSET Skipped BY <1>3, <1>7
  <2>2. Cardinality(stayed' \ IdsOf(got')) <= Cardinality(Skipped) BY <1>3, <2>1, FS_Subset
  <2>3. Cardinality(stayed' \ IdsOf(got')) \in Nat /\ Cardinality(Skipped) \in Nat
    <3>1. IsFiniteSet(stayed' \ IdsOf(got')) BY <1>3, <2>1, FS_Subset
    <3> QED BY <1>3, <3>1, FS_CardinalityType
  <2>4. Cardinality(Skipped) <= left /\ left' = left /\ left \in Nat
    BY <1>1, <1>2 DEF WhileReading, PagesTypeOK
  <2>5. Cardinality(stayed' \ IdsOf(got')) <= left' BY <2>2, <2>3, <2>4
  <2>6. IdsOf(got)' = IdsOf(got') BY DEF IdsOf
  <2> QED BY <2>5, <2>6 DEF ListsWhatStayed
<1>10. WhileReading' BY <1>8 DEF WhileReading, Reading
<1>11. KeyStands'
  <2>1. SUFFICES ASSUME made # 0 PROVE KeyStands' BY <1>1 DEF KeyStands
  <2>2. PICK k \in DOMAIN rows :
          /\ rows[k].token = AutoKey
          /\ ~KeyRead => Len(got) <= NewerThan(ListedIds, rows[k].id)
    BY <1>1, <1>2, <2>1 DEF KeyStands
  <2>3. KeyRead'
    <3>1. SUFFICES ASSUME ~KeyRead' PROVE FALSE OBVIOUS
    <3>2. Len(got') <= NewerThan(ListedIds, rows[k].id) BY <1>3, <2>2, <3>1
    <3>3. k \in Passing BY <2>2 DEF Passing, AutoKey
    <3>4. rows[k].id \in ListedIds BY <3>3 DEF ListedIds
    <3>5. PICK r \in Nat : r = NewerThan(ListedIds, rows[k].id) BY <1>7, <3>4
    <3> QED BY <1>3, <1>7, <3>2, <3>4, <3>5
  <2>4. PICK n \in DOMAIN got' : got'[n].token = AutoKey BY <2>3 DEF KeyRead
  <2>5. pc' = "scan" => n \in DOMAIN first' /\ first'[n] = AutoKey
    BY <1>8, <2>4 DEF TokensOf
  <2> QED BY <1>1, <1>2, <1>8, <2>1, <2>2, <2>5 DEF KeyStands, Reading
<1> QED BY <1>4, <1>5, <1>9, <1>10, <1>11 DEF PagesInv

\* No key is made while the one made before stands.
LEMMA CreateMakesTheFirst == PagesInv /\ Create => made = 0
<1> SUFFICES ASSUME PagesInv, Create, made # 0 PROVE FALSE OBVIOUS
<1>1. Scanned /\ pc = "scan" /\ want \in {GroupAuto, SelectAuto} /\ cand["plain"] = 0
  BY DEF Create, Scanned, Missing
<1>2. PICK n \in DOMAIN first : first[n] = AutoKey BY <1>1 DEF PagesInv, KeyStands
<1>3. "plain" \in Tier BY DEF Tier
<1>4. Empty(first, "plain") BY <1>1, <1>3, ScannedIs DEF PagesInv
<1>5. Considered(first[n])
  BY <1>1, <1>2, WantIsAuto DEF Considered, AutoKey
<1>6. ~Exhausted(first[n]) BY <1>2, PickAssumption DEF Exhausted, AutoKey
<1>7. TierOf(first[n]) = "plain"
  BY <1>1, <1>2, <1>6, WantsDiffer DEF TierOf, AutoKey
<1> QED BY <1>4, <1>5, <1>7 DEF Empty, Within

LEMMA CreateKeyKeeps == PagesInv /\ PickInv' /\ CreateKey => PagesInv'
<1> SUFFICES ASSUME PagesInv, PickInv', CreateKey PROVE PagesInv' OBVIOUS
<1>1. /\ Create /\ Insert(AutoKey) /\ made' = made + 1 /\ got' = <<>> /\ stayed' = {} /\ left' = 0
      /\ UNCHANGED <<filters, changes, calls>>
  BY DEF CreateKey
<1>2. made' = 1 /\ pc' \in {"relist", "uncreated"}
  BY <1>1, CreateMakesTheFirst DEF Create
<1>3. PagesTypeOK /\ NewestFirst /\ AutoKey \in Token BY PagesAssumption DEF PagesInv
<1>4. /\ rows' \in Seq(Row) /\ NewestFirst'
      /\ 1 \in DOMAIN rows' /\ rows'[1] = [id |-> NewId, token |-> AutoKey]
  <2>1. changes' \in {changes, changes + 1} BY <1>1
  <2> QED BY <1>1, <1>3, <2>1, InsertKeeps
<1>5. PagesTypeOK'
  <2>1. got' \in Seq(Row) /\ IsFiniteSet(stayed') BY <1>1, FS_EmptySet
  <2> QED BY <1>1, <1>2, <1>3, <1>4, <2>1 DEF PagesTypeOK, Row
<1>6. WhileReading'
  <2>1. Skipped' = {} BY <1>1 DEF Skipped
  <2>2. Cardinality(Skipped') = 0 BY <2>1, FS_EmptySet
  <2> QED BY <1>1, <2>2 DEF WhileReading
<1>7. KeyStands'
  <2>1. ListedIs' BY <1>4, <1>5, ListedInOrderNext
  <2>2. \A k \in DOMAIN rows' : rows'[k].id \in Nat
    <3>1. (\A k \in DOMAIN rows : rows[k] \in Row /\ rows[k].id \in Nat)'
      BY <1>5, RowsAreTyped, PTL
    <3> QED BY <3>1
  <2>3. NewerThan(ListedIds', rows'[1].id) \in Nat
    <3>1. rows'[1].id \in Nat BY <1>4, <2>2
    <3> QED BY <2>1, <3>1, NewerIsFewer DEF ListedIs
  <2>4. Len(got') = 0 BY <1>1
  <2>5. rows'[1].token = AutoKey BY <1>4
  <2>6. Len(got') <= NewerThan(ListedIds', rows'[1].id) BY <2>3, <2>4
  <2> QED BY <1>2, <1>4, <2>5, <2>6 DEF KeyStands
<1>8. ListsWhatStayed' BY <1>2 DEF ListsWhatStayed
<1> QED BY <1>4, <1>5, <1>6, <1>7, <1>8 DEF PagesInv

\* A change made elsewhere that keeps the account in order.
LEMMA ChangeKeeps == PagesInv /\ PickInv' /\ Change /\ AccountKept /\ made' \in {0, made} => PagesInv'
<1> SUFFICES ASSUME PagesInv, PickInv', Change, AccountKept, made' \in {0, made} PROVE PagesInv'
  OBVIOUS
<1>1. PagesTypeOK /\ NewestFirst /\ WhileReading /\ KeyStands BY DEF PagesInv
<1>2. PagesTypeOK' /\ NewestFirst' BY DEF AccountKept
<1>3. WhileReading' BY <1>1, ChangeSkips
<1>4. Reading /\ Reading' /\ UNCHANGED <<pc, first, got>> BY DEF Change, pickVars, Reading
<1>5. ListsWhatStayed' BY <1>4 DEF ListsWhatStayed, Reading
<1>6. KeyStands'
  <2>1. SUFFICES ASSUME made' # 0 PROVE KeyStands' BY DEF KeyStands
  <2>2. made' = made /\ Grows BY <2>1 DEF AccountKept
  <2>3. PICK k \in DOMAIN rows :
          /\ rows[k].token = AutoKey
          /\ ~KeyRead => Len(got) <= NewerThan(ListedIds, rows[k].id)
    BY <1>1, <1>4, <2>1, <2>2 DEF KeyStands
  <2>4. PICK j \in DOMAIN rows' : rows'[j] = rows[k] BY <2>2, <2>3 DEF Grows
  <2>5. ListedIs /\ ListedIs' BY <1>1, <1>2, ListedInOrder, ListedInOrderNext
  <2>6. rows[k].id \in Nat BY <1>1, RowsAreTyped
  <2>7. /\ NewerThan(ListedIds, rows[k].id) <= NewerThan(ListedIds', rows[k].id)
        /\ NewerThan(ListedIds, rows[k].id) \in Nat /\ NewerThan(ListedIds', rows[k].id) \in Nat
    BY <2>2, <2>5, <2>6, NewerGrows, NewerIsFewer DEF ListedIs, Grows
  <2>8. Len(got) \in Nat BY <1>1 DEF PagesTypeOK
  <2>9. ~KeyRead' => Len(got') <= NewerThan(ListedIds', rows'[j].id)
    <3>1. KeyRead' <=> KeyRead BY <1>4 DEF KeyRead
    <3> QED BY <1>4, <2>3, <2>4, <2>7, <2>8, <3>1
  <2> QED BY <1>1, <1>4, <2>1, <2>2, <2>3, <2>4, <2>9 DEF KeyStands, Reading
<1> QED BY <1>2, <1>3, <1>5, <1>6 DEF PagesInv

\* What a change made elsewhere leaves well typed, given the rows.
LEMMA ChangeTypes ==
  ASSUME PagesTypeOK, Change, rows' \in Seq(Row), made' \in {0, made}
  PROVE  PagesTypeOK'
<1>1. /\ changes' = changes + 1 /\ changes < MaxChanges /\ UNCHANGED <<filters, got, calls>>
      /\ stayed' = stayed \cap IdsOf(Listed')
      /\ left' = IF got = <<>> THEN 0 ELSE left + Cardinality(IdsOf(Listed) \ IdsOf(Listed'))
  BY DEF Change
<1>2. IsFiniteSet(stayed') BY <1>1, FS_Intersection DEF PagesTypeOK
<1>3. changes' \in 0..MaxChanges BY <1>1, PagesAssumption DEF PagesTypeOK
<1>4. IsFiniteSet(IdsOf(Listed))
  <2>1. Len(rows) \in Nat /\ rows \in Seq(Row) BY DEF PagesTypeOK, Row
  <2>2. Passing \in SUBSET (DOMAIN rows) BY DEF Passing
  <2>3. Listed = AtPositions(rows, Passing) BY DEF Listed, Passing
  <2>4. Listed \in Seq(Row) BY <2>1, <2>2, <2>3, AtPositionsIs
  <2>5. Len(Listed) \in Nat /\ DOMAIN Listed = 1..Len(Listed) BY <2>4
  <2>6. IsFiniteSet(1..Len(Listed)) BY <2>5, FS_Interval
  <2>7. IsFiniteSet({Listed[k].id : k \in 1..Len(Listed)})
    <3>1. PICK f : f = [k \in 1..Len(Listed) |-> Listed[k].id] OBVIOUS
    <3>2. f \in Surjection(1..Len(Listed), {Listed[k].id : k \in 1..Len(Listed)})
      BY <3>1 DEF Surjection
    <3> QED BY <2>6, <3>2, FS_Surjection
  <2> QED BY <2>5, <2>7 DEF IdsOf
<1>5. left' \in Nat
  <2>1. IsFiniteSet(IdsOf(Listed) \ IdsOf(Listed')) BY <1>4, FS_Difference
  <2>2. Cardinality(IdsOf(Listed) \ IdsOf(Listed')) \in Nat BY <2>1, FS_CardinalityType
  <2> QED BY <1>1, <2>2 DEF PagesTypeOK
<1> QED BY <1>1, <1>2, <1>3, <1>5 DEF PagesTypeOK, Row

LEMMA PagesNextInv == PagesInv /\ [PagesNext]_<<pickVars, pagesVars>> => PagesInv'
<1> SUFFICES ASSUME PagesInv, [PagesNext]_<<pickVars, pagesVars>> PROVE PagesInv' OBVIOUS
<1>1. PickInv'
  <2>1. [PickNext]_pickVars BY PagesStepsPick
  <2> QED BY <2>1, PickNextInv DEF PagesInv
<1>2. PagesTypeOK /\ NewestFirst /\ calls \in 1..MaxCalls /\ rows \in Seq(Row)
  BY DEF PagesInv, PagesTypeOK, Row
<1>3. CASE \E total \in {0, Len(Listed)} : ReadPage(total) \/ LastPage(total)
  BY <1>1, <1>3, ReadPageKeeps, LastPageKeeps
<1>4. CASE CreateKey BY <1>1, <1>4, CreateKeyKeeps
<1>5. CASE CreateRefused
  <2>1. UNCHANGED <<rows, filters, got, stayed, left, made, changes, calls>> /\ pc' = "uncreated"
    BY <1>5 DEF CreateRefused, pagesVars
  <2> QED BY <1>1, <1>2, <2>1, AccountIsKept DEF Reading
<1>6. ASSUME NEW t \in Others, AddElsewhere(t) PROVE PagesInv'
  <2>1. Insert(t) /\ Change /\ made' = made /\ t \in Token
    BY <1>6, PagesAssumption DEF AddElsewhere
  <2>2. filters' = filters /\ changes' \in {changes, changes + 1} BY <2>1 DEF Change
  <2>3. rows' \in Seq(Row) /\ NewestFirst' /\ Grows BY <1>2, <2>1, <2>2, InsertKeeps
  <2>4. PagesTypeOK' BY <1>2, <2>1, <2>3, ChangeTypes
  <2> QED BY <1>1, <2>1, <2>3, <2>4, ChangeKeeps DEF AccountKept
<1>7. ASSUME NEW k \in DOMAIN rows, RemoveElsewhere(k) PROVE PagesInv'
  <2>1. rows' = RemoveAt(rows, k) /\ Change /\ made' = 0 BY <1>7 DEF RemoveElsewhere
  <2>2. filters' = filters /\ changes' = changes + 1 BY <2>1 DEF Change
  <2>3. rows' \in Seq(Row) /\ NewestFirst' /\ Shrinks BY <1>2, <2>1, <2>2, RemoveKeeps
  <2>4. PagesTypeOK' BY <1>2, <2>1, <2>3, ChangeTypes
  <2> QED BY <1>1, <2>1, <2>3, <2>4, ChangeKeeps DEF AccountKept
<1>8. ASSUME NEW k \in DOMAIN rows, DisableElsewhere(k) PROVE PagesInv'
  <2>1. /\ rows[k].token.enabled # FALSE /\ rows' = [rows EXCEPT ![k].token.enabled = FALSE]
        /\ Change /\ made' = 0
    BY <1>8 DEF DisableElsewhere
  <2>2. filters' = filters /\ changes' = changes + 1 BY <2>1 DEF Change
  <2>3. rows' \in Seq(Row) /\ NewestFirst' /\ (Grows \/ Shrinks)
    BY <1>2, <2>1, <2>2, SwitchKeeps
  <2>4. PagesTypeOK' BY <1>2, <2>1, <2>3, ChangeTypes
  <2> QED BY <1>1, <2>1, <2>3, <2>4, ChangeKeeps DEF AccountKept
<1>9. ASSUME NEW k \in DOMAIN rows, EnableElsewhere(k) PROVE PagesInv'
  <2>1. /\ rows[k].token.enabled # TRUE /\ rows' = [rows EXCEPT ![k].token.enabled = TRUE]
        /\ Change /\ made' = made
    BY <1>9 DEF EnableElsewhere
  <2>2. filters' = filters /\ changes' = changes + 1 BY <2>1 DEF Change
  <2>3. rows' \in Seq(Row) /\ NewestFirst' /\ Grows
    BY <1>2, <2>1, <2>2, SwitchKeeps
  <2>4. PagesTypeOK' BY <1>2, <2>1, <2>3, ChangeTypes
  <2> QED BY <1>1, <2>1, <2>3, <2>4, ChangeKeeps DEF AccountKept
<1>10. CASE Choose BY <1>1, <1>10, ChooseKeeps
<1>11. CASE NextCall
  <2>1. /\ pc' = "list" /\ got' = <<>> /\ stayed' = {} /\ left' = 0 /\ calls' = calls + 1
        /\ calls < MaxCalls /\ UNCHANGED <<rows, filters, made, changes>>
    BY <1>11 DEF NextCall, Again
  <2>2. calls' \in 1..MaxCalls BY <1>2, <2>1, PagesAssumption
  <2> QED BY <1>1, <1>2, <2>1, <2>2, AccountIsKept DEF Reading
<1>12. CASE UNCHANGED <<pickVars, pagesVars>>
  <2>1. /\ UNCHANGED <<rows, filters, got, stayed, left, made, changes, calls>>
        /\ UNCHANGED <<pc, first>>
    BY <1>12 DEF pickVars, pagesVars
  <2> QED BY <1>1, <1>2, <2>1, AccountIsKept DEF Reading
<1> QED
  BY <1>3, <1>4, <1>5, <1>6, <1>7, <1>8, <1>9, <1>10, <1>11, <1>12 DEF PagesNext

THEOREM PagesInvariant == PagesSpec => []PagesInv
BY PagesInitInv, PagesNextInv, PTL DEF PagesSpec

\* tokens.go:67, for accounts and pages of any size, whatever the owner changes
\* between two pages: a list misses no more of the keys that were there all along
\* than left the account meanwhile.
THEOREM ListsMissNoMoreThanLeft == PagesSpec => []ListsWhatStayed
<1>1. PagesInv => ListsWhatStayed BY DEF PagesInv
<1> QED BY <1>1, PagesInvariant, PTL

\* relaykey.go:317, for any number of calls, whatever becomes of the creation's answer:
\* no second key is created unless a key was removed or disabled since the first.
THEOREM NoSecondKey == PagesSpec => []CreatedOnce
<1>1. PagesInv => CreatedOnce BY DEF PagesInv, KeyStands, CreatedOnce
<1> QED BY <1>1, PagesInvariant, PTL

-----------------------------------------------------------------------------
THEOREM PickInvariant == PickSpec => []PickInv
BY PickInitInv, PickNextInv, PTL DEF PickSpec

\* relaykey.go:75-89, for lists of any length: the key picked is of the best tier
\* the list has, and in the upper tiers no key of the list outranks it.
THEOREM PickIsBest == PickSpec => []NoBetterKey
<1>1. PickInv => NoBetterKey BY DEF PickInv
<1> QED BY <1>1, PickInvariant, PTL

\* relaykey.go:110, for lists of any length: between equals the newest is picked.
THEOREM PickIsNewest == PickSpec => []NewestOfEquals
<1>1. PickInv => NewestOfEquals BY DEF PickInv
<1> QED BY <1>1, PickInvariant, PTL

\* relaykey.go:25 and 188-200: an account with any enabled key that serves the
\* request is never told that it has none.
THEOREM NoKeyIsTrue == PickSpec => []NoKeyOnlyWithoutKeys
<1>1. PickInv => NoKeyOnlyWithoutKeys BY DEF PickInv
<1> QED BY <1>1, PickInvariant, PTL

\* relaykey.go:157 and 322: no key is created beside a usable auto key.
THEOREM CreationIsNeeded == PickSpec => []CreatesOnlyWhenMissing
<1>1. PickInv => CreatesOnlyWhenMissing
  <2>1. SUFFICES ASSUME PickInv, created, NEW j \in DOMAIN first,
                        first[j].enabled, first[j].group = GroupAuto, ~first[j].system,
                        ~Exhausted(first[j])
                 PROVE  FALSE
    BY DEF CreatesOnlyWhenMissing
  <2>2. want \in {GroupAuto, SelectAuto} /\ Empty(first, "plain")
    BY <2>1 DEF PickInv, WhileMissing
  <2>3. Considered(first[j])
    BY <2>1, <2>2, WantIsAuto DEF Considered
  <2>4. TierOf(first[j]) = "plain" BY <2>1, <2>2, WantsDiffer DEF TierOf
  <2> QED BY <2>2, <2>3, <2>4 DEF Empty, Within
<1> QED BY <1>1, PickInvariant, PTL
=============================================================================
