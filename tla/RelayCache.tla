----------------------------- MODULE RelayCache -----------------------------
(***************************************************************************)
(* The relay key cached in the credentials file, and the calls of api that *)
(* change it (relaykey.go): the default-group ResolveRelayKey, the forced  *)
(* RefreshOAuthRelayKey, InvalidateCachedRelayKey and SelectRelayKey.      *)
(* Each works on the credentials a CLI process has loaded, asks the        *)
(* gateway, and writes the whole file back; a process may make any of them *)
(* in any order, and may be killed at any time.                            *)
(*                                                                         *)
(* A relay key is a token of the account, or the access token of an OAuth2 *)
(* login, numbered in the order the gateway issued them.  Which token a    *)
(* resolution picks is RelayPick's subject: here it is any.                *)
(*                                                                         *)
(* Faulty definitions are mistakes this code could have made.              *)
(***************************************************************************)
EXTENDS Naturals

CONSTANTS
  Proc,       \* CLI processes
  Token,      \* the account's tokens, whose keys can be fetched
  None,       \* no key, no refresh token, no choice
  Management, \* the access token of a login that is not OAuth2
  Failed,     \* a call returned an error and no key
  MaxIssued,  \* bound: the access tokens an OAuth2 session issues
  Overlap     \* may several processes be between a load and their exit?

ASSUME CacheAssumption ==
  /\ None \notin Token \cup Nat
  /\ Management \notin Token \cup Nat \cup {None}
  /\ Failed \notin Token \cup Nat \cup {None}
  /\ Token \cap Nat = {}
  /\ MaxIssued \in Nat \ {0}
  /\ Overlap \in BOOLEAN

VARIABLES
  disk,     \* credentials.json
  mem,      \* the credentials each process has loaded
  pc,       \* where the process is in a call; "ready" between calls
  call,     \* the call it is in, or was in last
  got,      \* what that call returned
  issued,   \* the gateway's OAuth2 session: access tokens issued so far
  current,  \* and the refresh token it accepts
  due,      \* the access tokens within relayKeyRefreshSkew of their expiry
  chosen,   \* auxiliary: the user's choice of a token, until it is rejected
  lost      \* auxiliary: an answer or a save of a refresh was lost

procVars == <<mem, pc, call, got>>
gatewayVars == <<issued, current, due>>
cacheVars == <<disk, procVars, gatewayVars, chosen, lost>>

Issued == 1..MaxIssued
Key == Token \cup Issued \cup {None}

\* stamped: RelayKeySystemChecked and RelayKeyQuotaChecked.  client: is there an
\* OAuthClientID?  expires: is RelayKeyExpiresAt known?
\* Only an OAuth2 login has refresh material.
Credentials ==
  {c \in [key : Key, access : Issued \cup {Management}, refresh : Issued \cup {None},
          client : BOOLEAN, expires : BOOLEAN, stamped : BOOLEAN] :
     c.expires \/ c.refresh # None => c.client}

\* What a process holds before it has loaded any.
Blank ==
  [key |-> None, access |-> Management, refresh |-> None,
   client |-> FALSE, expires |-> FALSE, stamped |-> FALSE]

CacheTypeOK ==
  /\ disk \in Credentials
  /\ mem \in [Proc -> Credentials]
  /\ pc \in [Proc -> {"idle", "ready", "refreshing", "listing", "saving"}]
  /\ call \in [Proc -> {"none", "resolve", "refresh", "invalidate", "select"}]
  /\ got \in [Proc -> Key \cup {Failed}]
  /\ issued \in Issued /\ current \in Issued
  /\ due \subseteq Issued
  /\ chosen \in Token \cup {None}
  /\ lost \in BOOLEAN

-----------------------------------------------------------------------------
(* Processes.                                                              *)

Load(p) ==
  /\ pc[p] = "idle"
  /\ Overlap \/ \A q \in Proc : pc[q] = "idle"
  /\ mem' = [mem EXCEPT ![p] = disk]
  /\ pc' = [pc EXCEPT ![p] = "ready"]
  /\ UNCHANGED <<disk, call, got, gatewayVars, chosen, lost>>

\* The process ends, between two calls or within one.
Exit(p) ==
  /\ pc[p] # "idle"
  /\ mem' = [mem EXCEPT ![p] = Blank]
  /\ pc' = [pc EXCEPT ![p] = "idle"]
  /\ call' = [call EXCEPT ![p] = "none"]
  /\ got' = [got EXCEPT ![p] = None]
  /\ lost' = (lost \/ (pc[p] = "saving" /\ call[p] \in {"resolve", "refresh"}
                          /\ mem[p].refresh # None))
  /\ UNCHANGED <<disk, gatewayVars, chosen>>

Begin(p, c) == pc[p] = "ready" /\ call' = [call EXCEPT ![p] = c]
Continue(p, step) == pc' = [pc EXCEPT ![p] = step] /\ UNCHANGED got
Return(p, result) ==
  /\ pc' = [pc EXCEPT ![p] = "ready"]
  /\ got' = [got EXCEPT ![p] = result]

-----------------------------------------------------------------------------
(* ResolveRelayKey of the default group.                                   *)

\* refreshRelayKeyIfNeeded has something to renew.
RefreshDue(c) == c.refresh # None /\ c.client /\ c.expires /\ c.key \in due

\* The cached key is used as it is.
Trusted(c) == c.stamped \/ c.client

Resolve(p) ==
  /\ Begin(p, "resolve")
  /\ IF mem[p].key # None /\ RefreshDue(mem[p]) THEN Continue(p, "refreshing")
     ELSE IF mem[p].key # None /\ Trusted(mem[p]) THEN Return(p, mem[p].key)
     ELSE Continue(p, "listing")
  /\ UNCHANGED <<disk, mem, gatewayVars, chosen, lost>>

\* The cache is forgotten before its replacement is found.
FaultyListFails(p) ==
  /\ pc[p] = "listing"
  /\ Return(p, Failed)
  /\ UNCHANGED <<disk, mem, call, gatewayVars, chosen, lost>>

\* No list, no token or no key: an unstamped cache is still good.
ListFails(p) ==
  /\ pc[p] = "listing"
  /\ Return(p, IF mem[p].key # None THEN mem[p].key ELSE Failed)
  /\ UNCHANGED <<disk, mem, call, gatewayVars, chosen, lost>>

Picked(p, t) ==
  /\ pc[p] = "listing"
  /\ mem' = [mem EXCEPT ![p].key = t, ![p].stamped = TRUE]
  /\ Continue(p, "saving")
  /\ UNCHANGED <<disk, call, gatewayVars, chosen, lost>>

-----------------------------------------------------------------------------
(* The refresh, due or forced.                                             *)

ForceRefresh(p) ==
  /\ Begin(p, "refresh")
  /\ IF mem[p].refresh # None /\ mem[p].client
     THEN Continue(p, "refreshing")
     ELSE Return(p, Failed)
  /\ UNCHANGED <<disk, mem, gatewayVars, chosen, lost>>

\* The gateway issues an access token, and rotates the refresh token or not.
Issue(rotates) ==
  /\ issued < MaxIssued
  /\ issued' = issued + 1
  /\ current' = IF rotates THEN issued + 1 ELSE current
  /\ UNCHANGED due

\* A refresh token the answer leaves out is taken to be gone.
FaultyRefreshed(p, rotates, expires) ==
  /\ pc[p] = "refreshing" /\ mem[p].refresh = current
  /\ Issue(rotates)
  /\ mem' = [mem EXCEPT ![p].key = issued + 1, ![p].access = issued + 1,
                        ![p].refresh = IF rotates THEN issued + 1 ELSE None,
                        ![p].expires = expires]
  /\ Continue(p, "saving")
  /\ UNCHANGED <<disk, call, chosen, lost>>

\* An answer without a refresh token leaves the old one in use.
Refreshed(p, rotates, expires) ==
  /\ pc[p] = "refreshing" /\ mem[p].refresh = current
  /\ Issue(rotates)
  /\ mem' = [mem EXCEPT ![p].key = issued + 1, ![p].access = issued + 1,
                        ![p].refresh = current', ![p].expires = expires]
  /\ Continue(p, "saving")
  /\ UNCHANGED <<disk, call, chosen, lost>>

\* A due refresh that fails leaves the cached key, a forced one no key.
RefreshFails(p) ==
  /\ pc[p] = "refreshing"
  /\ Return(p, IF call[p] = "resolve" THEN mem[p].key ELSE Failed)
  /\ UNCHANGED <<disk, mem, call, gatewayVars, chosen, lost>>

\* The gateway has rotated, its answer does not arrive.
AnswerLost(p) ==
  /\ pc[p] = "refreshing" /\ mem[p].refresh = current
  /\ Issue(TRUE)
  /\ lost' = TRUE
  /\ Return(p, IF call[p] = "resolve" THEN mem[p].key ELSE Failed)
  /\ UNCHANGED <<disk, mem, call, chosen>>

-----------------------------------------------------------------------------
(* InvalidateCachedRelayKey and SelectRelayKey.                            *)

\* The key is cleared in OAuth mode too.
FaultyInvalidate(p) ==
  /\ Begin(p, "invalidate")
  /\ IF mem[p].key = None
     THEN Return(p, None) /\ UNCHANGED <<mem, chosen>>
     ELSE /\ mem' = [mem EXCEPT ![p].key = None]
          /\ chosen' = None
          /\ Continue(p, "saving")
  /\ UNCHANGED <<disk, gatewayVars, lost>>

\* The gateway has rejected the cached key.  An OAuth2 login waits for its refresh.
Invalidate(p) ==
  /\ Begin(p, "invalidate")
  /\ IF mem[p].key = None \/ (mem[p].refresh # None /\ mem[p].client)
     THEN Return(p, None) /\ UNCHANGED <<mem, chosen>>
     ELSE /\ mem' = [mem EXCEPT ![p].key = None]
          /\ chosen' = None
          /\ Continue(p, "saving")
  /\ UNCHANGED <<disk, gatewayVars, lost>>

\* The choice is not stamped, so the next launch makes its own.
FaultySelect(p, t) ==
  /\ Begin(p, "select")
  /\ mem' = [mem EXCEPT ![p].key = t, ![p].refresh = None,
                        ![p].expires = FALSE, ![p].client = FALSE]
  /\ Continue(p, "saving")
  /\ UNCHANGED <<disk, gatewayVars, chosen, lost>>

\* An explicit choice is stamped, and leaves the OAuth2 login.
Select(p, t) ==
  /\ Begin(p, "select")
  /\ mem' = [mem EXCEPT ![p].key = t, ![p].stamped = TRUE, ![p].refresh = None,
                        ![p].expires = FALSE, ![p].client = FALSE]
  /\ Continue(p, "saving")
  /\ UNCHANGED <<disk, gatewayVars, chosen, lost>>

\* Its key cannot be fetched.
SelectFails(p) ==
  /\ Begin(p, "select")
  /\ Return(p, Failed)
  /\ UNCHANGED <<disk, mem, gatewayVars, chosen, lost>>

-----------------------------------------------------------------------------
(* config.Save, the last step of every call that changed something.        *)

Save(p) ==
  /\ pc[p] = "saving"
  /\ disk' = mem[p]
  /\ chosen' = IF call[p] = "select" THEN mem[p].key ELSE chosen
  /\ Return(p, mem[p].key)
  /\ UNCHANGED <<mem, call, gatewayVars, lost>>

\* ErrCacheSave comes with the key, the error of the other two calls alone.
SaveFails(p) ==
  /\ pc[p] = "saving"
  /\ lost' = (lost \/ mem[p].refresh # None)
  /\ Return(p, IF call[p] \in {"resolve", "refresh"} THEN mem[p].key ELSE Failed)
  /\ UNCHANGED <<disk, mem, call, gatewayVars, chosen>>

\* An access token comes near its expiry.
Age(n) ==
  /\ n <= issued /\ n \notin due
  /\ due' = due \cup {n}
  /\ UNCHANGED <<disk, procVars, issued, current, chosen, lost>>

-----------------------------------------------------------------------------
\* A login of either kind; a cache from before the stamps, or none.
Logins ==
  {c \in Credentials :
     \/ c.access = Management /\ c.key \in Token \cup {None} /\ c.refresh = None
          /\ ~c.client /\ ~c.expires
     \/ c.access = 1 /\ c.key = 1 /\ c.refresh \in {1, None} /\ c.client /\ ~c.stamped}

CacheInit ==
  /\ disk \in Logins
  /\ mem = [p \in Proc |-> Blank]
  /\ pc = [p \in Proc |-> "idle"]
  /\ call = [p \in Proc |-> "none"]
  /\ got = [p \in Proc |-> None]
  /\ issued = 1 /\ current = 1
  /\ due = {}
  /\ chosen = None
  /\ lost = FALSE

CacheNext ==
  \/ \E p \in Proc :
       \/ Load(p) \/ Exit(p)
       \/ Resolve(p) \/ ListFails(p)
       \/ \E t \in Token : Picked(p, t) \/ Select(p, t)
       \/ ForceRefresh(p) \/ RefreshFails(p) \/ AnswerLost(p)
       \/ \E rotates, expires \in BOOLEAN : Refreshed(p, rotates, expires)
       \/ Invalidate(p) \/ SelectFails(p)
       \/ Save(p) \/ SaveFails(p)
  \/ \E n \in Issued : Age(n)

CacheSpec == CacheInit /\ [][CacheNext]_cacheVars

-----------------------------------------------------------------------------
(* Properties.                                                             *)

\* relaykey.go:253: while there is a refresh token to renew it with, the cached
\* key is the access token of the login, in the file as in every process: it is
\* never cleared, which would strand the next run, and never another key.
OAuthKeyInSync ==
  \A c \in {disk} \cup {mem[p] : p \in Proc} : c.refresh # None => c.key = c.access

\* relaykey.go:276-279: an explicit choice of a key stays the cached key until the
\* gateway rejects it or the user chooses again.
ChoiceSticks == chosen # None => disk.key = chosen

\* oauth2.go:158: a login whose refreshes were all answered and saved holds the
\* refresh token the gateway accepts, whenever no process is at work.
RefreshTokenIsCurrent ==
  (\A p \in Proc : pc[p] = "idle") /\ ~lost /\ disk.client /\ issued > 1
    => disk.refresh = current

\* relaykey.go:46 and 220-221: a process that has a cached key is never told there is
\* none, whatever of its resolution fails; and a forced refresh, which is asked for
\* because the cached key was rejected, never hands that key back: it returns the
\* newest access token of the session or an error, also when an earlier rotation was
\* lost on its way.
KeyOrError ==
  \A p \in Proc : pc[p] = "ready" =>
    /\ call[p] = "resolve" /\ got[p] = Failed => mem[p].key = None
    /\ call[p] = "refresh" => got[p] \in {issued, Failed}
=============================================================================
