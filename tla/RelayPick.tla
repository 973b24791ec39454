----------------------------- MODULE RelayPick -----------------------------
(***************************************************************************)
(* Which of an account's relay keys a launch gets: the selection inside    *)
(* api.ResolveRelayKey and api.SelectAutoRelayKey (relaykey.go), from the  *)
(* list of the account's tokens to the token whose key is fetched, and one *)
(* call after another.  The list is newest first and any list: TokenPages  *)
(* says how it is read, and from what.                                     *)
(*                                                                         *)
(* A token is what selection reads of it.  A quota is a number, Unlimited, *)
(* or Unknown where the gateway is too old to say (remain_quota is nil,    *)
(* whatever unlimited_quota says).                                         *)
(*                                                                         *)
(* Faulty definitions are mistakes this code could have made.              *)
(***************************************************************************)
EXTENDS Integers, Sequences

CONSTANTS
  Token,      \* tokens, as [enabled, group, system, quota] records
  Group,      \* group names
  GroupAuto,  \* the group that routes across all groups
  Default,    \* the request for the account's default key
  SelectAuto, \* the request of SelectAutoRelayKey
  Unlimited, Unknown

Want == Group \cup {Default, SelectAuto}

ASSUME PickAssumption ==
  /\ Token \subseteq [enabled : BOOLEAN, group : Group, system : BOOLEAN,
                      quota : Int \cup {Unlimited, Unknown}]
  /\ GroupAuto \in Group
  /\ Default \notin Group /\ SelectAuto \notin Group \cup {Default}
  /\ Unlimited \notin Int /\ Unknown \notin Int \cup {Unlimited}

VARIABLES
  want,     \* the group asked for, Default or SelectAuto
  pc,       \* where the call is
  first,    \* the list it read first
  list,     \* the list it reads now
  i,        \* the loop's position in list
  cand,     \* per tier the position of its candidate, 0 for none
  probe,    \* autoGroupUsable's answer, if asked
  created,  \* has it created a key?
  pick      \* the token it settles on: a list and a position

pickVars == <<want, pc, first, list, i, cand, probe, created, pick>>

Tier == {"auto", "plain", "system", "drained"}
NoCandidate == [tier \in Tier |-> 0]
NoPick == [among |-> <<>>, at |-> 0]

PickTypeOK ==
  /\ want \in Want
  /\ pc \in {"list", "scan", "probe", "relist", "rescan", "uncreated",
             "fetch", "done", "noKey", "createErr", "failed"}
  /\ first \in Seq(Token) /\ list \in Seq(Token)
  /\ i \in Nat
  /\ cand \in [Tier -> Nat]
  /\ \A tier \in Tier :
       cand[tier] # 0 =>
         cand[tier] \in DOMAIN (IF tier \in {"system", "drained"} THEN first ELSE list)
  /\ probe \in {"unasked", "usable", "unusable", "unanswered"}
  /\ created \in BOOLEAN
  /\ pick = NoPick \/ (pick.among \in Seq(Token) /\ pick.at \in DOMAIN pick.among)

-----------------------------------------------------------------------------
(* Judging tokens.                                                         *)

Exhausted(t) == t.quota \in Int /\ t.quota <= 0

OutranksOnHeadroom(t, u) ==
  /\ Unknown \notin {t.quota, u.quota}
  /\ u.quota # Unlimited
  /\ t.quota = Unlimited \/ t.quota > u.quota

\* The loops skip what cannot serve the request.
Considered(t) ==
  /\ t.enabled
  /\ want = SelectAuto => t.group = GroupAuto /\ ~t.system
  /\ want \in Group => t.group = want

\* The auto tier is filled before anyone looks at the quota.
FaultyTierOf(t) ==
  IF t.system THEN "system"
  ELSE IF want = Default /\ t.group = GroupAuto THEN "auto"
  ELSE IF Exhausted(t) THEN "drained"
  ELSE "plain"

\* The tier of a considered token.  Only a default launch sets auto keys apart.
TierOf(t) ==
  IF t.system THEN "system"
  ELSE IF Exhausted(t) THEN "drained"
  ELSE IF want = Default /\ t.group = GroupAuto THEN "auto"
  ELSE "plain"

\* The last of equals.
FaultyReplaces(j, tier) ==
  \/ cand[tier] = 0
  \/ tier \in {"auto", "plain"} /\ ~OutranksOnHeadroom(list[cand[tier]], list[j])

\* The first of its tier is remembered; in the two upper tiers, until a later
\* one outranks it.
Replaces(j, tier) ==
  \/ cand[tier] = 0
  \/ tier \in {"auto", "plain"} /\ OutranksOnHeadroom(list[j], list[cand[tier]])

\* No room for drained keys: an account that has no other is told it has none.
FaultyDowngrade ==
  IF cand["plain"] # 0 THEN "plain" ELSE "system"

\* Where to go without an auto key, and the last resorts of an explicit group.
Downgrade ==
  IF cand["plain"] # 0 THEN "plain"
  ELSE IF cand["system"] # 0 THEN "system"
  ELSE "drained"

\* System and drained candidates are copies taken from the first list.
Settle(tier) ==
  /\ pick' = [among |-> IF tier \in {"system", "drained"} THEN first ELSE list,
              at |-> cand[tier]]
  /\ pc' = "fetch"

-----------------------------------------------------------------------------
(* The call.                                                               *)

List ==
  /\ pc = "list"
  /\ first' \in Seq(Token) /\ list' = first'
  /\ i' = 1
  /\ pc' = "scan"
  /\ UNCHANGED <<want, cand, probe, created, pick>>

ListFails ==
  /\ pc = "list"
  /\ pc' = "failed"
  /\ UNCHANGED <<want, first, list, i, cand, probe, created, pick>>

Scan ==
  /\ pc = "scan" /\ i <= Len(list)
  /\ cand' = IF Considered(list[i]) /\ Replaces(i, TierOf(list[i]))
             THEN [cand EXCEPT ![TierOf(list[i])] = i] ELSE cand
  /\ i' = i + 1
  /\ UNCHANGED <<want, pc, first, list, probe, created, pick>>

Scanned == pc = "scan" /\ i > Len(list)

\* A default launch with an auto key asks for the group's grant only when there
\* is another key to go to.
AskGrant ==
  /\ Scanned /\ want = Default
  /\ cand["auto"] # 0 /\ cand[Downgrade] # 0
  /\ pc' = "probe"
  /\ UNCHANGED <<want, first, list, i, cand, probe, created, pick>>

Probe(answer) ==
  /\ pc = "probe"
  /\ probe' = answer
  /\ Settle(IF answer = "unusable" THEN Downgrade ELSE "auto")
  /\ UNCHANGED <<want, first, list, i, cand, created>>

SettleDefault ==
  /\ Scanned /\ want = Default
  /\ cand["auto"] = 0 \/ cand[Downgrade] = 0
  /\ IF cand["auto"] # 0 THEN Settle("auto")
     ELSE IF cand[Downgrade] # 0 THEN Settle(Downgrade)
     ELSE pc' = "noKey" /\ UNCHANGED pick
  /\ UNCHANGED <<want, first, list, i, cand, probe, created>>

\* A drained key is replaced, whatever else there is.
FaultyMissing ==
  /\ want \in {GroupAuto, SelectAuto}
  /\ cand["plain"] = 0 \/ cand["drained"] # 0

\* Neither request for an auto key is content without one of the upper tier.
Missing == want \in {GroupAuto, SelectAuto} /\ cand["plain"] = 0

SettleGroup ==
  /\ Scanned /\ want # Default /\ ~Missing
  /\ IF cand[Downgrade] # 0 THEN Settle(Downgrade)
     ELSE pc' = "noKey" /\ UNCHANGED pick
  /\ UNCHANGED <<want, first, list, i, cand, probe, created>>

\* CreateToken: an unlimited key in the auto group.
Create ==
  /\ Scanned /\ want # Default /\ Missing
  /\ \/ pc' = "relist" /\ created' = TRUE
     \/ pc' = "uncreated" /\ UNCHANGED created
  /\ UNCHANGED <<want, first, list, i, cand, probe, pick>>

Relist ==
  /\ pc = "relist"
  /\ list' \in Seq(Token)
  /\ i' = 1
  /\ cand' = [cand EXCEPT !["plain"] = 0]
  /\ pc' = "rescan"
  /\ UNCHANGED <<want, first, probe, created, pick>>

\* SelectAutoRelayKey gives up here; the resolver treats it as a failed create.
RelistFails ==
  /\ pc = "relist"
  /\ pc' = IF want = SelectAuto THEN "failed" ELSE "uncreated"
  /\ UNCHANGED <<want, first, list, i, cand, probe, created, pick>>

Rescan ==
  /\ pc = "rescan" /\ i <= Len(list)
  /\ cand' = IF /\ Considered(list[i]) /\ TierOf(list[i]) = "plain"
                /\ Replaces(i, "plain")
             THEN [cand EXCEPT !["plain"] = i] ELSE cand
  /\ i' = i + 1
  /\ UNCHANGED <<want, pc, first, list, probe, created, pick>>

SettleCreated ==
  /\ pc = "rescan" /\ i > Len(list)
  /\ IF cand["plain"] # 0 \/ (want # SelectAuto /\ cand[Downgrade] # 0)
     THEN Settle(Downgrade)
     ELSE pc' = (IF want = SelectAuto THEN "failed" ELSE "noKey") /\ UNCHANGED pick
  /\ UNCHANGED <<want, first, list, i, cand, probe, created>>

SettleUncreated ==
  /\ pc = "uncreated"
  /\ IF cand[Downgrade] # 0 THEN Settle(Downgrade)
     ELSE pc' = "createErr" /\ UNCHANGED pick
  /\ UNCHANGED <<want, first, list, i, cand, probe, created>>

\* TokenKey of the pick.
Fetch ==
  /\ pc = "fetch"
  /\ pc' \in {"done", "failed"}
  /\ UNCHANGED <<want, first, list, i, cand, probe, created, pick>>

Ended == pc \in {"done", "noKey", "createErr", "failed"}

\* The next call, for any group: nothing is kept of the one before.
Again ==
  /\ Ended
  /\ want' \in Want
  /\ pc' = "list"
  /\ first' = <<>> /\ list' = <<>>
  /\ i' = 1
  /\ cand' = NoCandidate
  /\ probe' = "unasked"
  /\ created' = FALSE
  /\ pick' = NoPick

-----------------------------------------------------------------------------
PickInit ==
  /\ want \in Want
  /\ pc = "list"
  /\ first = <<>> /\ list = <<>>
  /\ i = 1
  /\ cand = NoCandidate
  /\ probe = "unasked"
  /\ created = FALSE
  /\ pick = NoPick

PickNext ==
  \/ List \/ ListFails \/ Scan
  \/ AskGrant \/ \E answer \in {"usable", "unusable", "unanswered"} : Probe(answer)
  \/ SettleDefault \/ SettleGroup
  \/ Create \/ Relist \/ RelistFails \/ Rescan
  \/ SettleCreated \/ SettleUncreated
  \/ Fetch \/ Again

PickSpec == PickInit /\ [][PickNext]_pickVars

-----------------------------------------------------------------------------
(* Properties.                                                             *)

\* How far down a token is, an auto key known to be unusable last of all.
Depth(t) ==
  IF t.system THEN 3
  ELSE IF Exhausted(t) THEN 4
  ELSE IF want # Default \/ t.group # GroupAuto THEN 2
  ELSE IF probe = "unusable" THEN 5 ELSE 1

Beats(t, u) ==
  \/ Depth(t) < Depth(u)
  \/ Depth(t) = Depth(u) /\ Depth(t) \notin {3, 4} /\ OutranksOnHeadroom(t, u)

Picked == pick.among[pick.at]

\* relaykey.go:75-89, 109, 124 and tokens.go:41: no key of the list is better than the
\* one picked from it, by tier or, within the upper tiers, by headroom, be it newer or
\* older (relaykey_test.go:1258, 1294). The head of the file (relaykey.go:4-5) and the
\* comment at line 244 still state the rule this one replaced, the newest enabled key:
\* of keys of unequal headroom it is not the one the code picks.
NoBetterKey ==
  pick # NoPick =>
    /\ Considered(Picked)
    /\ \A j \in DOMAIN pick.among :
         Considered(pick.among[j]) => ~Beats(pick.among[j], Picked)

\* tokens.go:45 and relaykey.go:110: between equals the newest is picked, as far
\* as the gateway tells the quotas.
NewestOfEquals ==
  pick # NoPick /\ (\A j \in DOMAIN pick.among : pick.among[j].quota # Unknown) =>
    \A j \in 1..(pick.at - 1) :
      Considered(pick.among[j]) => Beats(Picked, pick.among[j])

\* relaykey.go:25 and 188-200: an account is told it has no key, or that none
\* could be created, only when it has none that serves the request, drained and
\* system keys included.
NoKeyOnlyWithoutKeys ==
  pc \in {"noKey", "createErr"} => ~\E j \in DOMAIN first : Considered(first[j])

\* relaykey.go:157 and 322: a key is created only for an account without a usable
\* auto key of its own, so one that is created is found again, never repeated.
CreatesOnlyWhenMissing ==
  created => ~\E j \in DOMAIN first :
    first[j].enabled /\ first[j].group = GroupAuto /\ ~first[j].system /\ ~Exhausted(first[j])
=============================================================================
