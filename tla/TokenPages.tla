----------------------------- MODULE TokenPages -----------------------------
(***************************************************************************)
(* RelayPick over the account it reads: listTokens (tokens.go) reads the   *)
(* keys newest first, a page at a time and each page by its offset, while  *)
(* the owner adds, removes, disables and enables keys elsewhere.  The      *)
(* gateway answers one page as of one moment.  An old gateway may ignore   *)
(* the status filter and may not report the total.  CreateToken may be     *)
(* refused, or may succeed without its answer arriving; the caller then    *)
(* calls again.                                                            *)
(*                                                                         *)
(* The account is external to src/.  stayed, left and made are history.    *)
(* Faulty definitions are mistakes this code could have made.              *)
(***************************************************************************)
EXTENDS RelayPick, Texts, SequencesExt

CONSTANTS
  Accounts,    \* the accounts a first call may find
  Others,      \* the tokens that are added elsewhere
  PageSize,
  MaxChanges,  \* bound on changes made elsewhere
  MaxCalls     \* bound on calls

\* The key createAutoToken makes.
AutoKey == [enabled |-> TRUE, group |-> GroupAuto, system |-> FALSE, quota |-> Unlimited]

\* Any key may be disabled and enabled.
ASSUME PagesAssumption ==
  /\ Accounts \subseteq Seq(Token) /\ Others \cup {AutoKey} \subseteq Token
  /\ \A t \in Token, b \in BOOLEAN : [t EXCEPT !.enabled = b] \in Token
  /\ PageSize \in Nat \ {0}
  /\ MaxChanges \in Nat /\ MaxCalls \in Nat \ {0}

VARIABLES
  rows,     \* the account's keys, newest first, as [id, token] records
  filters,  \* does the gateway heed the status filter?
  got,      \* the rows this list has read
  stayed,   \* the ids that were listed ever since this list began
  left,     \* how many ids ceased to be listed since then
  made,     \* the auto keys created since a key was last removed or disabled
  changes, calls

pagesVars == <<rows, filters, got, stayed, left, made, changes, calls>>

IdsOf(s) == {s[k].id : k \in DOMAIN s}
TokensOf(s) == [k \in DOMAIN s |-> s[k].token]

NewId == Len(rows) + changes + 1

PagesTypeOK ==
  /\ rows \in Seq([id : Nat, token : Token]) /\ got \in Seq([id : Nat, token : Token])
  /\ filters \in BOOLEAN
  /\ IsFiniteSet(stayed)
  /\ left \in Nat /\ made \in Nat /\ changes \in 0..MaxChanges /\ calls \in 1..MaxCalls

-----------------------------------------------------------------------------
(* One page.                                                               *)

\* The rows the gateway pages through.
Listed == AtPositions(rows, {k \in DOMAIN rows : filters => rows[k].token.enabled})

\* Pages counted from zero: the first is never read.
FaultyPage ==
  SubSeq(Listed, Len(got) + PageSize + 1, Min({Len(got) + 2 * PageSize, Len(Listed)}))

\* Every page before this one was full, so its offset is what was read.
Page == SubSeq(Listed, Len(got) + 1, Min({Len(got) + PageSize, Len(Listed)}))

Enough(total) ==
  \/ total > 0 /\ Len(got) + Len(Page) >= total
  \/ Len(Page) < PageSize

Reading == pc \in {"list", "relist"}

StayedSoFar == IF got = <<>> THEN IdsOf(Listed) ELSE stayed

\* A page, from a gateway that reports the total or one that does not.
ReadPage(total) ==
  /\ Reading /\ ~Enough(total)
  /\ got' = got \o Page
  /\ stayed' = StayedSoFar
  /\ UNCHANGED <<pickVars, rows, filters, left, made, changes, calls>>

\* The page that ends the list.
LastPage(total) ==
  /\ Reading /\ Enough(total)
  /\ got' = got \o Page
  /\ stayed' = StayedSoFar
  /\ \/ first' = TokensOf(got') /\ List
     \/ list' = TokensOf(got') /\ Relist
  /\ UNCHANGED <<rows, filters, left, made, changes, calls>>

-----------------------------------------------------------------------------
(* The account, external to src/.                                          *)

Insert(t) == rows' = <<[id |-> NewId, token |-> t]>> \o rows

\* CreateToken inserts, whether or not its answer arrives ...
CreateKey ==
  /\ Create
  /\ Insert(AutoKey)
  /\ made' = made + 1
  /\ got' = <<>> /\ stayed' = {} /\ left' = 0
  /\ UNCHANGED <<filters, changes, calls>>

\* ... or is refused.
CreateRefused ==
  /\ Create /\ pc' = "uncreated"
  /\ UNCHANGED pagesVars

\* A change made elsewhere, while the account is being read.
Change ==
  /\ Reading /\ changes < MaxChanges
  /\ changes' = changes + 1
  /\ UNCHANGED <<pickVars, filters, got, calls>>
  /\ stayed' = stayed \cap IdsOf(Listed')
  /\ left' = IF got = <<>> THEN 0 ELSE left + Cardinality(IdsOf(Listed) \ IdsOf(Listed'))

AddElsewhere(t) == Insert(t) /\ Change /\ UNCHANGED made

RemoveElsewhere(k) == rows' = RemoveAt(rows, k) /\ Change /\ made' = 0

DisableElsewhere(k) ==
  /\ rows[k].token.enabled
  /\ rows' = [rows EXCEPT ![k].token.enabled = FALSE]
  /\ Change /\ made' = 0

EnableElsewhere(k) ==
  /\ ~rows[k].token.enabled
  /\ rows' = [rows EXCEPT ![k].token.enabled = TRUE]
  /\ Change /\ UNCHANGED made

-----------------------------------------------------------------------------
\* What the call does with the lists it has read.
Choose ==
  /\ \/ ListFails \/ Scan \/ AskGrant
     \/ \E answer \in {"usable", "unusable", "unanswered"} : Probe(answer)
     \/ SettleDefault \/ SettleGroup
     \/ RelistFails \/ Rescan \/ SettleCreated \/ SettleUncreated
     \/ Fetch
  /\ UNCHANGED pagesVars

NextCall ==
  /\ Again /\ calls < MaxCalls
  /\ calls' = calls + 1
  /\ got' = <<>> /\ stayed' = {} /\ left' = 0
  /\ UNCHANGED <<rows, filters, made, changes>>

PagesInit ==
  /\ PickInit
  /\ \E account \in Accounts :
       rows = [k \in DOMAIN account |-> [id |-> Len(account) + 1 - k, token |-> account[k]]]
  /\ filters \in BOOLEAN
  /\ got = <<>> /\ stayed = {} /\ left = 0 /\ made = 0
  /\ changes = 0 /\ calls = 1

PagesNext ==
  \/ \E total \in {0, Len(Listed)} : ReadPage(total) \/ LastPage(total)
  \/ CreateKey \/ CreateRefused
  \/ \E t \in Others : AddElsewhere(t)
  \/ \E k \in DOMAIN rows : RemoveElsewhere(k) \/ DisableElsewhere(k) \/ EnableElsewhere(k)
  \/ Choose \/ NextCall

PagesSpec == PagesInit /\ [][PagesNext]_<<pickVars, pagesVars>>

-----------------------------------------------------------------------------
(* Properties.                                                             *)

\* tokens.go:67: the pages follow the account to its end.  A key that was there all
\* the while is missing from the list only when another left between two pages,
\* and no more are missing than left.
ListsWhatStayed ==
  pc \in {"scan", "rescan"} => Cardinality(stayed \ IdsOf(got)) <= left

\* relaykey.go:317: "It cannot loop": whatever happens to the creation's answer,
\* the key it made serves the calls that follow, and a second one is created only
\* when a key was removed or disabled in between.
CreatedOnce == made <= 1
=============================================================================
