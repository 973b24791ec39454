# Verification of the EveryAPI SDK

The SDK is the Go library under the `everyapi` command.  It stores the accounts
a user is signed in to, finds the relay key a launch rides on, runs the
sign-ins, subscribes to gateway events, and runs two proxies on the user's own
machine: the connector, which takes a coding tool's traffic to the gateway, and
the sanitizer, which replaces secrets by placeholders on the way out and puts
them back on the way in.

This directory holds TLA+ models of it, the TLC runs that check them on small
instances, and TLAPS proofs of the properties that matter most for every
instance.

1. [The system](#1-the-system): components, state, operations, what is hard
2. [The modules](#2-the-modules) and how they correspond to the code
3. [The runs](#3-the-runs): what each one asks, its bounds, what it shows
4. [Fairness](#4-fairness)
5. [The proofs](#5-the-proofs)
6. [Where the code and its words disagree](#6-where-the-code-and-its-words-disagree)
7. [What is not modelled](#7-what-is-not-modelled)
8. [The plan](#8-the-plan)
9. [Working on it](#9-working-on-it)

Line numbers below are those of the source at the modelled commit.
`PROJECT.json` gives the lines of every definition.

## 1. The system

### How the parts interact

```
 CLI process                            this machine
 ┌──────────────────────────┐           ┌─────────────────────────────────┐
 │ config   accounts, login │── files ──│ credentials.json  accounts/*.json│
 │   ▲  Load / Save         │           │ accounts/index.json  settings…   │
 │ api   ResolveRelayKey ───┼─ HTTPS ─┐ │ sanitizer-key  sanitizer.json    │
 │ api   OAuth, device poll ┼─ HTTPS ─┤ └─────────────────────────────────┘
 │ oauthloopback  /callback │◀ browser│
 │ api   SubscribeEvents ◀──┼── SSE ──┤
 └──────────────────────────┘         ▼
 coding tool ──CONNECT/TLS──▶ connector ──▶ gateway, or the vendor itself
 coding tool ──HTTP─────────▶ sanitizer ──▶ upstream
                                └ rewrite ▶   ◀ guard ◀ restore
```

Four kinds of sharing make the difficult behaviour: files that several
processes read, change in memory and write back whole; one table of secrets
under a mutex that every request of the sanitizer goes through; goroutines that
talk over small channels and are cancelled by a context; and connections that
have been hijacked out of `net/http`'s sight.

### Components

**config: account store** (`config/accounts.go`, `config/config.go`).
State: `credentials.json` (the active account), `accounts/<name>.json` (one per
parked account), `accounts/index.json` (the active account's name, stamped with
the identity it belongs to), and in each process the path of the account it is
pinned to.  Operations: SwitchAccount (549), login (ParkActive,
SetActiveAccountName), RenameAccount, DeleteAccount, RemoveAllAccounts,
ListAccounts, SelectAccount, Load, Save, Delete.  Hard: an operation writes up
to four files and may be killed between any two; the index may be lost or stale
and a name is then derived from the credential; two accounts may share a
username; other processes hold a credential in memory meanwhile.  Correct when
no account is ever lost except by its own sign-out, and an operation that
completes does what it says.

**config: settings** (`config/settings.go`).  State: `settings.json`, a temp file
per save, and each process's copy.  Operations: LoadSettings (175), a change of
one preference, SaveSettings (195), which writes the whole file through a rename.
Hard: commands overlap without a lock, and may fail or be killed between any two
steps.  Correct when the file is whole at every moment and a change is lost only
to a copy loaded before it was saved.

**api: relay key selection** (`api/relaykey.go`, `api/tokens.go`,
`api/telemetry.go`).  No state; the account's tokens are read newest first, a
page at a time by offset, and a loop over them keeps a best candidate in each of
several tiers, asks the gateway whether a group is granted, creates a key if none
serves and lists again.  Hard: the account may change between two pages, and a
creation may succeed unheard.  Correct when no better key was passed over, in any
order of the list, "no key" is only said when there is none, and no call that
follows creates a second key.

**api: relay key cache and OAuth2 rotation** (`api/relaykey.go`,
`config/config.go`).  State: the key, refresh token, expiry and resolver stamp
in the credentials file, and a copy in each process.  Operations:
ResolveRelayKey, RefreshOAuthRelayKey, InvalidateCachedRelayKey, SelectRelayKey.
Hard: a refresh rotates the refresh token before it is saved; saves fail,
answers are lost, processes are killed; an OAuth2 login's key is its access
token, which may not list tokens.

**sanitizer: placeholder table** (`sanitizer/mapping.go`,
`sanitizer/placeholder.go`).  State: two maps and a recency order under one
mutex, with a cap.  Correct when the maps are inverses and eviction is exactly
least recently used.

**sanitizer: proxy server** (`sanitizer/server.go`).  State: the table, the
handlers in flight, the server, shutdown and parent-watch goroutines.  Hard:
requests interleave on the table, evictions come between the rewrite of a
request and the restore of its answer, and a shutdown drains some handlers and
abandons others.

**sanitizer: request rewriting, buffered restore, install key**
(`sanitizer/protocol*.go`, `detector.go`, `config.go`, `restore.go`,
`installkey.go`).  State: the install key file, which first runs make without a
lock; the rest is a walk over a JSON body.  Hard: a conversation repeats restored
answers in every request, so the same secret must be masked to the same
placeholder wherever it comes back, and tool arguments must never get a secret
restored into them; a first run may read the key file between its creation and
its writing.

**sanitizer: streamed restore** (`sanitizer/sse.go`, `placeholder.go`).  State,
per stream: the tail held back in each display slot and the event that will
deliver it.  Hard: a placeholder may be cut at any byte over any number of
events, interleaved with other slots.

**sanitizer: Claude guard** (`sanitizer/claude_guard.go`).  State, per stream:
held events, the block's text, whether it is polluted.  Decides on prefixes
whether an answer has degenerated into a flood.

**connector: connections and relaying** (`connector/server.go`), and
**routing** (`connector/target.go`).  State: the connections and the table of
hijacked sockets a shutdown sweeps.  Operations: tunnel (dialed directly or
through the parent's proxy), intercept, relay, replay, Serve.  Hard: lock regions
of the table fall between steps of a connection, every call can fail while a
socket is open, a proxy may go silent, a request may be replayed once.

**api: event stream** (`api/events.go`).  State: a reader goroutine, two
channels of one place, the parser's half-built event, the reconnect loop.
Hard: what the select sees first, and what becomes of a reader whose parser has
left.

**api: device and OAuth2 sign-in** (`api/device_auth.go`, `api/oauth2.go`,
`api/seller_oauth.go`).  PollUntilDone, OAuth2PollUntilDone and
PollSellerCodexUntilDone: interval, slow_down, a budget of consecutive failures,
and what each makes of a reply.  Their starts are single requests; the answer to
OAuth2DeviceStart (78) decides whether a gateway is taken to have OAuth2 at all.

**api: HTTP client** (`api/client.go`, doHTTP 84, do 137) and the **endpoint
wrappers** over it.  No state.  A call is checked, sent, sent once more to the
global gateway if the China gateway's name has no record, and its reply turned
into a result.  Hard: a request that may have run must not be sent again, and a
failure must be reported as the one it was.

**api: diagnostic chat** (`api/diagnostics.go`).  State: what has arrived of a
streamed reply.  Hard: the stream may break off, overrun its limit, or go on
after it said it was done.

**oauthloopback: callback listener** (`oauthloopback/listener.go`).  State: the
delivered flag, the result channel.  Hard: callbacks race each other, Wait,
Close and a cancellation.

**Data**: the built-in detectors (`sanitizer/detectors_builtin.go`, regular
expressions and checksums) and `otelagentsession` (a mapping of attributes to
records, field by field).  A model of these would repeat their text.

The hazards found in all of them, each at its line with the properties that
look for it, are listed in `PROJECT.json`.

## 2. The modules

```
 SignedIn  ◀─ refines ─ AccountStore ◀─ AccountSessions
                                               ▲
                                       AccountStoreProofs

 Mapping ◀─ SanitizerProxy ◀─────────────────┐
                                             ├ SanitizerProofs
 Texts ◀─ Detect ◀─ Bodies ◀─ Conversation ◀─┘

 Texts ◀─ Placeholders ◀─ SSERestorer ┐
 Texts ◀─ Flood ◀─ ClaudeGuard ───────┴◀ ResponseStream ◀─ StreamProofs

 RelayPick ◀─ TokenPages ◀─ RelayPickProofs

 RelayCache, Settings, InstallKey ◀─ ConfigFiles ◀─ ConfigFilesProofs

 Routing ◀─ Connector ◀─ ConnectorProofs

                ┌ EventStream, Loopback ◀────────────────┐
 CallContext ◀──┤                                        ├ LongCalls ◀─ LongCallsProofs
                └ HttpCall ◀── DevicePoll, DiagStream ◀──┘

 Texts ◀─ TextsProofs ◀─ all proof modules but those of accounts and files
```

Arrows point from a module to one that EXTENDS it (or, for SignedIn, instances
it).  `MC<Module>` gives a module its instances for TLC.  Definitions named
`Faulty...` stand beside the one they vary: mistakes the code could have made.
Replacing the correct definition by such a one must break the property it is
listed with in `PROJECT.json`; that every property has one shows that it
depends on the code.

**SignedIn** is the promise of the account store without a file in sight: a set
of accounts and the active one.  Accounts enter by a login, leave only by their
own sign-out (or when their file is damaged), and making another account active
costs nobody a session.

**AccountStore** is the store file by file.  A credential is abstracted to the
account it signs in to (SameAccount), a file to an account, `None` or `Corrupt`.
One action is one file written, atomic as `writeFileAtomic` makes it:
BeginSwitch, ParkOutgoing, Promote, RecordSwitch, RemoveIncoming for
SwitchAccount; BeginLogin, LoginPark, LoginSave, LoginIndex for the login the
package documents; the renames, the sign-outs; `Interrupt` for a kill or an
error return between two writes; the Damage actions for what happens to files
outside.  `op` is what the operation holds in memory.  `released` is auxiliary:
who has been signed out.  LoadedName and ActiveAccountName are loadActive and
ActiveAccountName, stamps included.  The constant Numbered lists what
UniqueAccountName tries for each name that is taken (`-2`, `-3`, in that order),
GivenNames which names a user may rename which account to.

**AccountSessions** adds processes: Select resolves a pin to a path once, Load
takes a credential into memory, Save writes it to that path.  The library asks
for the cross-process lock in SwitchAccount only; LockedCommands says whether
commands hold it from Load to Save.  That is an assumption about the caller, so no
property is about it; what goes wrong without it is in section 6.

**Mapping** is the table under its mutex, each method one action; PutOrGet is
Hit or Mint, with Touched moving a token to the end of the order and Victims
naming what a full table evicts.  `newer` is auxiliary: which secrets were cited
since each one's last citation.
**SanitizerProxy** puts handlers on it: Accept, Begin (the body is read and
scanned), Replace one match, Forward, Respond, Restore one placeholder, End;
and Serve's goroutines as Cancel, ParentExits, WatchParent, BeginShutdown,
Drained, GraceOver, ServeEnds, Return.

**RelayPick** is one selection, its loop one token at a time (Scan, with
TierOf, Replaces and OutranksOnHeadroom as the branch conditions), then the
grant probe, Create, Relist, Rescan and the settling of each case.  There the
list is one answer of the gateway.  **TokenPages** puts the account under it:
ReadPage and LastPage are listTokens' loop, CreateKey and CreateRefused what a
creation comes to (its answer may be lost either way), NextCall a call that
follows, and AddElsewhere, RemoveElsewhere, DisableElsewhere and EnableElsewhere
what the owner does meanwhile.  A gateway may ignore the status filter and may
not report the total.  `stayed`, `left` and `made` are history.

**RelayCache** is the credentials file, the copies, and the gateway's issued
tokens numbered in order.  Each call is Begin, one action per answer of the
gateway, Save or SaveFails.  **Settings** is `settings.json`: LoadSettings,
SetPreference, then the atomic write as CreateTemp, WriteTemp and RenameTemp, with
a failure or a kill (SaveSettingsFails) between any two; `latest`, `older` and
`undone` are auxiliary.  **InstallKey** is the sanitizer's key file, each process
looking, reading, creating (which empties the file) and writing, every error
ignored as the code ignores it; a key is named for the process that made it, and
`late` and `missed` are auxiliary.  **ConfigFiles** puts the three in one
directory.  No step touches two files, so a behavior is about one of them.

**Routing** is Registry.Decide with the targets' real route tables over paths
as sequences of segments; Clean is `path.Clean`.  **Connector** gives every
connection a program counter over the steps of the tunnel or of the interception
(each lock region of trackConn is one), a client and an upstream socket, and the
request under way; `copies`, how often it was written, is auxiliary.  A dial is
direct (Dialed) or goes through the parent's proxy as dialViaHTTPProxy does:
DialProxy opens the socket, BoundSetup puts the deadline on it, ProxyGrants or
ProxyFails ends the handshake and the CONNECT, HandBack takes the deadline off
again, and each step may fail with the socket open (BoundFails, ProxyFails,
HandBackFails).  Serve is Cancel, ListenerFails, Shutdown, Drained, Sweep.

**Placeholders** treats text as characters: RestoreInText and PartialAtTail are
the code's scans.  **SSERestorer** takes an event at a time: TakeDelta,
TakeStop, TakePlain, FlushAll, with `pending` and `tmpl` the maps of the code; what
a synthetic event was stripped of keeps its place as a part of kind "gone".
**Flood** holds the guard's predicates on text, **ClaudeGuard** its consume,
hold and flushHeld as operators on one record.  **ResponseStream** runs
upstream, guard, restorer and client in the order handleProxy does.

**Detect** is BuildDetectors, Scan and ReplaceWith, where a regular expression
is the set of the character sequences it matches, blanks and all, of which it takes
the longest (a lazy one is the set of its shortest matches); what it takes is gone
for its later matches even if it then fails its checksum.  **Bodies** is the walk:
a body is its strings, each with the path to it, since both walks decide by that
path alone.
PickProtocol, the key sets of the three protocols, RewriteString and the
restores of a buffered answer (one value, several, plain text) are the code's.
**Conversation** is a client that repeats the whole history, an upstream that
may quote any placeholder it has seen, and a proxy that may be restarted and
read its install key back or make a new one.

**EventStream** has the reader's steps (ReaderReads, ReaderFails, ReaderSends,
ReaderLeaves) and the parser's (Connect, TakeLine, Send, Leave, Retry) over
lineCh, errCh, done and the subscriber's channel.  **HttpCall** is one call of
the client: InvalidArguments, SendRequest, RequestFails (with the one fallback),
TakeResponse; a reply is its status and what its body says, and Verdict what the
four kinds of call make of it.  `ran` is history: the gateways that ran the
request.  **DevicePoll** is Wake and Ask, over the replies of HttpCall, which
EnvelopeAnswer and FormAnswer read as do and oauth2Form would.  **DiagStream** is
the streamed reply a line at a time: TakeDelta, TakeDone, TakeError, TakeJunk and
StreamEnds.  **Loopback** is handleCallback as its critical section (Claim,
Reject), its send (Deliver) and its reply, with Wait and Close.  **LongCalls**
gives a caller one of these calls, under a context that may be cancelled.

`PROJECT.json` maps every definition that models code to its lines.
External ones are mostly the environment: a gateway's answers, an upstream's
events, a user, a filesystem that is damaged, and the CLI's login.

## 3. The runs

Nine runs must pass; each of their properties fails once the definition its
mutant names is replaced by the mistake.  Three runs must find a violation: what
they show is in section 6.

### AccountsCrash

*Can a crash, a failure or damage anywhere lose or hide a session?*  Three
accounts and four names; every operation may stop between any two writes, every
file may be damaged, one account may be renamed.  No two accounts ever go by
the same name.

| property | says |
|---|---|
| ActiveNameShadowsNobody | the name the active credential goes by never hides another account's file |
| SwitchLeavesBothStored | wherever a switch stops, the outgoing account has a file and the incoming one those it should |

Three accounts are the fewest with an outgoing, an incoming and a bystander; the
fourth name is the one the rename gives, and what UniqueAccountName tries for a
second `alice`.  The operations need no bound: the state space is finite.

### SessionsLocked

*What happens when usernames collide, names are reused, and commands hold
credentials in memory?*  Two accounts that derive the same name, three names
the user may give to anybody, an index that may predate stamps, damaged
credentials, and two processes, pinned or not, that hold the lock from Load to
Save.  Operations are not interrupted and the index is not damaged: with shared
names the promise needs both (section 6).

| property | says |
|---|---|
| ImplementsSignedIn | the files implement SignedIn: an account leaves only by its own sign-out, the active one changes only to one that is stored |
| CompletedTakesEffect | a switch or login that completes leaves the account it was asked for active, under the name it was asked for |

A third name is needed for the collision's `-2` and for a name to move to while
both others are in use.  ImplementsSignedIn is also about the processes: a
credential written back over another account's file would lose that account.

### Proxy

*Do requests that share the table disturb one another, and does Serve end?*
Three secrets through a table of two, so that one request evicts what another
needs; two requests; a placeholder that nobody minted.

| property | says |
|---|---|
| HeldAreTheRecent | the table holds exactly the Cap secrets cited most recently |
| RestoredIsItsOwn | a placeholder is restored to the secret it was made of, or not at all |
| OwnPlaceholderRestored | a request's own placeholder is restored unless Cap other secrets were cited since |
| DroppedWhenDrained | a shutdown that drained its handlers leaves no secret in the table |
| ServeReturns | a cancellation, the parent's death or a failed listener ends Serve though handlers hang |

### RelayPick

*Is it the right key, and is no key made twice?*  Every account of up to three
keys of eight kinds (drained, capped, unlimited and unmetered ones in two groups,
a system key, a disabled one), read in pages of two, with one change made
elsewhere between two pages; two calls in a row, each for any request, and every
answer of the lists, the probe and the creation.  Three keys are the fewest in
which a better key stands before, a worse one after, and a third in another tier,
and they take two pages; one change is the least that shifts a page, two calls the
least for a repetition.

| property | says |
|---|---|
| NoBetterKey | no key of the list is of a better tier than the one picked, or outranks it there |
| NewestOfEquals | when quotas are known, every newer key that serves the request is worse |
| NoKeyOnlyWithoutKeys | "no key" is only said to an account without one |
| ListsWhatStayed | a list misses no more of the keys that were there all along than left the account while it was read |
| CreatedOnce | whatever becomes of a creation's answer, no second key is created unless one was removed or disabled since |

### ConfigFiles

*Do the files that processes share without a lock hold what they should?*  A
behavior is about one of three files.  Commands end, so deadlock is not looked
for.

`credentials.json`: commands of two processes, one after the other (Overlap =
FALSE: the library leaves overlapping commands to its callers), each making any
calls in any order; three access tokens, so that a rotated refresh token can be
rotated again; two tokens of the account.  `settings.json`: three commands that
overlap, so that one may save what it loaded before two others' saves; two
preferences of two choices.  `sanitizer-key`: three processes, so that two first
runs race and a third comes when they have settled, or have not.

| property | says |
|---|---|
| OAuthKeyInSync | credentials with a refresh token have the login's access token as their key, in the file and in every process |
| ChoiceSticks | a key chosen explicitly stays on disk until it is rejected or another is chosen |
| RefreshTokenIsCurrent | while saves succeed and answers arrive, the refresh token on disk is the gateway's current one |
| KeyOrError | a process that holds a cached key is never told there is none, whatever fails, and a rejected key is never handed back |
| SettingsKept | settings.json is whole at every moment, and holds each preference as last saved unless a command saved a stale copy |
| LateRunsAgree | processes that come once a whole key is in the file and nobody is about to write one all use that one, unless looking at it or reading it fails |

### Connector

*Is a request sent once, and is every socket closed?*  Two connections, each
tunnelled (directly or through a proxy) or intercepted, a failure possible at every
call, a shutdown at any time; requests on every path of up to four of nine segments for the Anthropic
and the Gemini target.  Connections meet only in the table and in Serve, so two
of them are enough; four segments reach every listed route plus a dot segment or
an empty one to be cleaned away.

| property | says |
|---|---|
| SentOnce | no request is written to its destination twice |
| OpenIsTracked | an established connection's open sockets are in the table the shutdown closes |
| NothingLeaks | the socket to the other end, or to the proxy, is closed on each way out of the dial, the proxy's setup, the hijack and the pipe; a connection that is over has closed its sockets and left the table |
| RoutedAsListed | the gateway gets listed routes only, the vendor no request that would be one for a model: judged by an independent, step-by-step simplification of the path |
| EstablishedEnds | what is established when a shutdown begins comes to its end |
| SetupIsBounded | a dial ends though the proxy goes silent, and the deadline that ends it is never left on a tunnel |

### Streams

*Does what the client reads equal what the upstream meant?*  Streams of up to
six events through the guard, four through the restorer, five through both.
Text is cut into events at every place the pieces allow; tokens are one
character wide, so that a placeholder is six and fits three events with two
cuts inside.  The caps (12 characters of block text, 3 held events) are small
enough to be reached.

| property | says |
|---|---|
| TextIsRestoredWhole | each slot's text, as delivered, is the restore of its whole text, wherever it was cut |
| SinksPassOnce | what is not display text is delivered once and in order |
| TailBeforeStop | a held tail comes out before the event that closes its block |
| FloodNeverLeaks | what the guard lets through of a block that stayed within its caps is never itself a flood, however it is cut |
| OnlyFloodIsDropped | order is kept, and a block loses text only if at some point its text was a flood |

### Conversation

*Do secrets stay home when answers come back in the next request?*  Two requests
in three protocols and one path nobody claims; seven texts in which keys of two
vendors, a private key with anything between its header and its footer, a number
with a checksum that may hold blanks, and a pattern of the user's overlap, in every
kind of place (system prompt, message, tool result, tool arguments, data URL,
binary payload, model name, tool name, a body that is not JSON); answers of up to
three characters, blanks and digits, and placeholders: any that was seen, or a
made-up one; one restart that may lose the key file.  Two requests are what a
repetition needs.

| property | says |
|---|---|
| SecretsStayHome | a secret, in the client's words or in a repeated answer, leaves only where its own detector missed it: where its expression took more or other text than the secret into a match that failed its checksum or lost to a longer one; numeric ones are not looked for in tool arguments, nor any where no text key leads |
| HistoryIsStable | the upstream sees the client's words as it saw them before, and its own in a repeated answer in which the detectors find again what was restored and nothing else; after a restart too unless the key file was lost |
| RestoredButInSinks | prose gets its secrets back, tool arguments never, one value of an answer at a time |

Both exceptions occur in the run and are real.  With the Luhn detector on
(`detectors_builtin.go:168`), `12 4111111111111111` is one match of 18 digits that
fails its checksum, and the card number leaves; and a restored `12 <<card>>` is not
masked back.  What the exceptions leave is exact: no other secret leaves, and no
other answer changes.

### LongCalls

*Does a call always return, and what does it return?*  One of these, cancelled at
any moment: a subscription over two connections that break off anywhere (a
channel of one event instead of eight, one data line per event instead of 1 MiB:
the same paths, sooner); a sign-in of up to four polls in each of the three flows,
with every reply and a budget of two failures, so that the budget can be used up,
or used and reset; one request of each kind, to each gateway, with every reply and
every failure; a streamed reply of up to four lines against a limit of two units
of text, so that it can be reached, overrun, completed and continued; three
callbacks, two of them successful.

| property | says |
|---|---|
| EventsInOrder | events surface whole, in the order sent, none made of two connections' halves |
| PollsAsTold | a sign-in ends on the answer it should, waits as told and gives up after its budget of consecutive failures |
| SentOnceAndTold | a request runs once, elsewhere than it was meant to only if the China gateway has no name, and success, an expired session and a missing OAuth2 are each said only of a gateway that said so |
| WholeRepliesOnly | what was shown of a streamed reply is a beginning of it, and success means all of it, with nothing after its end |
| OneCallbackWins | one callback is delivered, and no other is told it succeeded |
| EveryCallEnds | a cancelled call returns and its goroutines end, a request returns uncancelled too, and no connection leaves a reader goroutine behind |

## 4. Fairness

Only three specifications assume any; the other properties are safety.

- **SanitizerProxy.**  Weak fairness of the parent watch (a ticker), of the
  shutdown's start, of its five-second limit (`http.Shutdown` with a deadline),
  of ListenAndServe's return once the shutdown has begun, and of Serve's return.
  Nothing makes a handler, an upstream or the caller move, so ServeReturns holds
  with handlers that hang.
- **Connector.**  Weak fairness of Shutdown, its drain with a deadline and the
  Sweep; of a dial, which takes ten seconds at most (`server.go:229`); of setting
  and clearing the deadline on a proxy's socket, and of the end of what the proxy is
  asked once that deadline stands or the socket is closed; of a pipe's or a read's
  end once its socket is closed; of Untrack; and of the failure of a round trip or
  an answer once the context is done.  No peer ever has to say anything.
- **LongCalls.**  Goroutines are scheduled, timers fire, and a request through
  the SDK's HTTP client ends within its 30 seconds (`client.go`), the body of a
  streamed diagnostic reply included.  The subscription and each reader have a
  weak fairness of their own; the other calls share one, which suffices because a
  caller makes one call at a time and only a listener's handlers run beside it,
  each with a few steps to take.  Not assumed:
  that the gateway answers the events request (it has no time-out before the
  headers) unless the context is cancelled, that an open connection carries
  anything, that the subscriber reads, that a callback arrives.

## 5. The proofs

Eight modules of theorems, checked by TLAPS from nothing but the named
assumptions on the constants (`...Assumption`, which TLC evaluates in every run).
Each safety theorem goes by an inductive invariant, one lemma per action or
group of actions, and PTL in the last step.  Of the 40 properties the passing
runs check, 36 are stated by a theorem; the other four are liveness.

| theorem | says, for every value of the constants | inductive invariant |
|---|---|---|
| TypeCorrect, CrashSafeSwitch | the store is well typed; a switch cut short anywhere leaves both accounts their files | ShapeInv: what an operation in progress knows of the files (SwitchShape, LoginShape) |
| NoShadow, StoreImplementsSignedIn | no name hides another's file; the store implements SignedIn | IInv: ShapeInv with who may be parked under which name (NamesShape, OwnNamed) |
| OperationsTakeEffect, SessionsImplementSignedIn | the same with any number of processes that hold credentials in memory, if commands take the lock; an operation that completes does what it was asked | SessionsInv: a process between Load and Save is alone, and its file is as it loaded it (LoadedIsThere) |
| MappingTypeCorrect, TableStaysConsistent, EvictionIsExact | the table's types, agreement, and exact LRU | MInv: Shape, WithinCap, Recency (newer is what stands behind an entry in the order), Cited |
| NoForeignSecret, DrainedServeForgets | a placeholder is restored to its own secret only; a drained Serve keeps none | PInv: Mapping's Shape, RestoredIsItsOwn and StaysDrained (nothing starts once the shutdown has begun) |
| ProxyImplementsMapping, OwnSecretsComeBack | the handlers use the table by its operations only, so all that holds of it holds here; a request's placeholders come back unless Cap others were cited since | MInv and PInv, with what a request has sent (SentInv) |
| SecretsStay | in a JSON request that a protocol claims, a secret is forwarded only where its own detector took more or other text than it into a match that was dropped, for any detectors | ConvInv |
| HistoryStays | while the install key lasts, every string of the client is masked as before, and a repeated answer to what the upstream wrote if the detectors find in it what was restored and nothing else, for any detectors | ConvInv |
| RestoredOutsideSinks | tool arguments come back as written, words for the user without a placeholder the table knows | ConvInv |
| PickIsBest, PickIsNewest, NoKeyIsTrue, CreationIsNeeded | the key picked is the best and the newest, "no key" is true, and no key is created beside a usable auto key, for lists of any length | PickInv: BestOf, what each candidate is among the tokens read so far, in each step of the selection |
| PagesImplementPick | reading an account page by page while it changes implements RelayPick, so the four hold of what was listed | none: a step of the pages is one of RelayPick's or hidden from it |
| ListsMissNoMoreThanLeft, NoSecondKey | a list misses one key for one that left; a key whose creation was not heard of is not created again | PagesInv: the rows read and unread against those that stayed and left (WhileReading), and that a list under way has not passed the key that was made (KeyStands) |
| OAuthStaysInSync | key and access token agree, overlapping processes included | SyncInv: a resolution that lists has no refresh token; a choice about to be saved has none |
| ChoiceIsKept | a choice sticks, for processes that do not overlap | StickInv: nothing that would replace the key is left beside it, in the file or in memory |
| CallsReturnAsTold, RotationsAreKept | a cached key is served and a rejected one never handed back; the refresh token on disk is current while saves succeed; for processes that do not overlap | ReturnInv: one call at a time (Alone), what each holds of the gateway's answers (CallsAreKnown), and that the newest tokens are on disk or about to be saved (TokenIsSaved) |
| SettingsSurvive | settings.json stays whole and loses a change only to a stale copy, for any commands and preferences | SettingsInv: a temp file about to be renamed is whole (TempIsWritten), a copy nobody overtook differs from the file in its own change only (CopyIsCurrent), the overtaken have loaded (OlderHaveLoaded) |
| SettledKeyIsShared | processes that come once a key has settled share it, for any number of them | InstallInv: a settled file stays settled (StaysSettled), who reads it gets its key (HeldWhenRead), a writer finds it there (WrittenIsThere) |
| RequestsAreSentOnce, OpenSocketsAreTracked, OverMeansClosed | the three safety properties of connections, each exit of a dial through a proxy among them | ConnectorInv: SentInv (what may be sent again was never written) and Kept (where the sockets are in each phase) |
| RequestsGoWhereListed | the gateway gets listed routes only and the vendor no request for a model, for any targets and paths of any length | RoutedInv: a request under way has arrived and was let through by Decide |
| TailIsShort | what PartialAtTail holds back is shorter than a placeholder, so the restorer's cap on a tail never applies | a lemma about an operator, by least and greatest elements |
| HoldsTheLongest, RestoredInParts, CutIs | PartialAtTail holds back exactly the longest tail that may become a placeholder; a restore in parts is the restore of the whole where no placeholder is cut; to restore and then cut is to cut and then restore | lemmas about operators, by induction from a text's end |
| TextsAreWhole | each slot's text, as delivered, is the restore of its whole text, for any texts and cuts, if SecretsApart | TextOK: in each slot, what was delivered and what is held are the restore of what was read and its tail (InStep), and a template carries text of its own slot only (TemplatesClaim) |
| FlushesAreBare, SinksReachOnce | whatever may be flushed delivers one tail and nothing else; what nobody reads passes once | StreamInv: HeldOK (each tail has a template of its slot and nothing else) |
| TailsGoFirst | after a block's end none of its text follows | EndsOK: the client is told the ends of blocks as the restorer is (EndsTold), and text stands in open blocks of what is received (Placed) |
| FloodsStayIn, NothingElseIsLost | the guard's promise, both ways: no flood gets out, nothing but a flood is dropped | GuardOK: what was received is what passed, what is held, and text of flooded blocks; what passed of the block under way is no flood |
| GuardIsBounded | the guard's caps, for any upstream | StreamInv with GoodGuard, kept by every call of consume |
| FirstCallbackWins | the callback Wait returns is the first, and no other is told it succeeded, for any number of them | LoopbackInv: who holds the delivered flag is who filled the channel |
| RequestsRunOnce, SignInsEndAsTold | a request runs at one gateway at most and its outcome is told as it was; a sign-in of any length ends and waits as told | HttpInv, PollInv |
| RepliesAreWhole | what is shown of a streamed reply is a beginning of it within its limit, and success means all of it | DiagInv |
| EventsStayInOrder, CallsAreTyped | what reaches the subscriber is, connection after connection, a beginning of the events its lines completed, for any lines and channel size; the calls are well typed | EventsInv: what the parser holds is what the lines it has read mean (ParserHas), and those are the lines the reader has without the one in its channel and the one in its hand (ReadersOK) |

Why the strengthening is needed.  For the store, ActiveNameShadowsNobody is not
inductive: a park writes to a name computed when the operation began, so the
invariant has to remember, step by step, what the operation read.  NoShadow,
StoreImplementsSignedIn and SessionsImplementSignedIn are proved under
SafeSetting: either operations run to their end and nobody damages the index,
whatever the names; or anything may happen, and no two accounts may ever go by
one name.  The run AccountsIndexLost shows that without it the claim is false.
For the refinement, the invariant gives what each file write replaces, and a
write that changes neither Stored nor the active account is a stutter.  For the
selection, the loop invariant must speak of every tier at once, because which one
is settled on is only decided after the loop.  For the table, eviction's
exactness is about a history the code does not keep; Recency ties it to the order.

For the key cache, neither property says anything of a call under way,
so the invariant has to carry what the call knows from each answer to its save.
For the settings, it has to say when a copy in memory may still be trusted.

For the routing, the property judges a path by simplifying it in any order of
steps; Clean takes one.  The proof shows that each step leaves Clean's result as
it is and makes the path shorter, so that all orders end in Clean's.

For the guard, a decision is taken on a prefix of the block and on a text with
its open line left out.  Neither promise is inductive: GuardOK says of the block
under way what the text that passed, the text that is held and the decision so
far have to do with each other, and of the blocks that are over that they were
floods or passed whole.

For the restored text, the property compares the end with the whole, and the code
restores first and looks for a tail afterwards, in a text that already holds
secrets.  Three facts about the operators carry it.  A tail that is held back is
the longest that may still become a placeholder (HoldsTheLongest), since Prefix
has no beginning that is also its end.  No placeholder crosses that cut, whatever
follows, so that the text before it may be restored alone (RestoredInParts).  And
the restore moves the cut without changing the tail (CutIs): in a secret no
placeholder may begin or go on.  InStep says of each slot what the three keep:
delivered text followed by the tail is the restore of all that was read.  A tail
is delivered by a flush, before the event that ends its block, or by the next
event of its slot, and the proof has one lemma for each way to take an event
(PlainInStep, StopInStep, DeltaInStep, FinalInStep).

CutIs needs SecretsApart: no secret ends with the beginning of a placeholder and
none could stand inside one.  The detectors that are on by default
(`detectors_builtin.go`) find no other secrets: what each matches has no `<`, or
ends in `-` (a PEM block), and it begins with something no placeholder has: a `-`, a
lower-case letter beyond `f` among its first ones, or twenty capitals and digits of
which the first four are AWS's.  A rule of the user's, or one of the
numeric detectors that are off by default, may match digits only; a secret of that
kind, restored at the end of an unfinished placeholder, could be held back as if it
belonged to one, and the theorem says nothing of it.  TLC evaluates SecretsApart on
the secrets of the instance (MCResponseStream).

For the events, the property says what a connection's lines mean when they are
read as a whole; the parser reads them one by one, behind a reader that is up to two
lines ahead.  EventsIn and EventAt are shown to grow line by line as the parser does
(EventsInNext, HoldsAfterLine), and EventsInv says how far it has come.

For the conversations, the work is in the operators, for any detectors at all.
Where a secret stands in a text, its detector takes it whole, or a hit reaches over
one of its ends (HitsStanding).  The greedy choice keeps every match that comes
before all it overlaps, and whatever it drops overlaps one it keeps (KeptAre).  Each
element of a masked text is a placeholder that was put in or stood in the text
before, in their order (ReplacedTrace), so characters that stand side by side in it
did so in the text, and no match took any of them (RunCameFrom).  Hence a secret in
a masked text was missed (LeftIsMissed): had its detector taken it whole, that match
would have been kept, or dropped for one that takes part of it.  In a restored text
the secrets stand where the placeholders stood (SpansAre).  If the detectors find
these again and nothing else, every hit that is found, or touches one of them, lies
in one (RestoredConfined), so each is found whole (OwnSecretFound) and kept
(OwnSecretKept), and the masked text is the quotation again (RestoredIsMasked).  ConvInv carries this through a conversation: where each
string stands in a request and that it was masked to what the upstream saw of it
(MeantInv), what was forwarded under which key (ForwardedInv), that the table
knows placeholders of the running key only (MintedInv), and what an answer under
way was restored from (AnswerInv).

The assumptions the theorems rest on are those TLC evaluates: that sets which the
code makes finite are, that limits are numbers, and the shape of the data.  Those
that say more are about the environment.  ConversationAssumption: no secret looks
like a data: URL, and an upstream writes none.  It says nothing of what the
detectors match.  PlacesAssumption says which strings are meant: words of users and
models, and tool strings, stand under keys that are searched; an answer's tool
arguments, and nothing else of it, under keys that keep placeholders; all others
where no text key leads, or in binary payloads.  ShapeAssumption: an upstream answers without blocks, or
with text in deltas of its blocks only.  StreamAssumption: the guard's text events have
one part and data that is no JSON none.  PlaceholderAssumption is what the proofs
need of the code's `<<__EVERYAPI_SECRET_` and `__>>`: no beginning of the one is also
its end, and the other has neither a digit of a token nor a `<`.  The others give types to what the modules
take as data.

Induction.  The library's induction theorems take an operator as parameter, which
no installed prover instantiates.  Where a proof needs induction it goes by the
least element of a set of counterexamples instead, and a recursive function is
shown to satisfy its equation by the set of the partial functions that do
(TextsProofs: InductionOnNat, RecursionExists, RecursionTyped; SanitizerProofs:
InductionDown, RecursionDown, for functions that recur from a text's end).  What stays out of
reach is a fold of the community modules (FoldLeft, SelectSeq): Walk and Detectors
are opaque to the proofs, which use what the assumptions say of them.

The type invariants are parts of proved invariants or were checked while the
models grew, and have no run of their own: a type that is wrong shows nothing
about the code.  TableConsistent and CreatesOnlyWhenMissing, which hold of a
single method and a single branch, are stated by their theorems alone.

Left to TLC: liveness (ServeReturns, EstablishedEnds, SetupIsBounded,
EveryCallEnds), which needs fairness and ENABLED.  All other properties of passing runs are proved.

## 6. Where the code and its words disagree

- **AccountsIndexLost**: `accounts.go:42` says that a corrupt or missing index
  costs the user a name, never a session.  With two accounts of one username it
  may cost the session: the active one, stored as `alice-2`, goes by its derived
  name `alice` once the index is gone, and the next switch or login parks it
  over `accounts/alice.json`, the other account's only file.
- **StreamsPartialWord**: `claude_guard.go:94` says that a partial word can only
  delay a run match, never invent one.  A delta that ends inside a word whose
  beginning is the repeated one does invent it: `no no no no no|rth`.  In this
  run text deltas may end inside a word; in Streams they do not, so that the
  rest of OnlyFloodIsDropped is checked for what it is.
- **EventsLost**: `events_test.go:44,70` expect the event of a stream that ends
  cleanly after its blank line.  The reader may leave that line in lineCh and the
  end of the stream in errCh before parseSSE looks; its select then takes either,
  and the event may be lost.  EventsInOrder therefore says that what surfaces is
  a prefix of what each connection carried, and this run that it need not be all.

Met while modelling, and disclosed here without a run of their own.  Comments that
are older than the code, or hold with a reservation:

- the head of `relaykey.go` says that the default launch takes "the enabled
  auto-group token when the account has one, else the newest enabled token" (4) and
  a group launch the "newest enabled token whose Group matches" (5), and the comment
  at 244 repeats it.  The code ranks by tier first (system-managed and drained keys,
  auto keys among them, come last) and within a tier by what is left of the quota
  (`relaykey.go:75-89,109,124`, `tokens.go:41`, `relaykey_test.go:1258,1279,1294`); the
  newest is taken of equals only.  NoBetterKey and NewestOfEquals state the code's
  rule, which those comments and tests give as the correction of the older one;
- `accounts.go:566` and `config.go:167,210` say that a process pinned to an account
  works on that account's file, "never" on the active one's.  A pin is a path
  resolved once: if the pinned account was the active one and another process
  switches, the path is then another account's file, and Load, Save and `logout`
  (Delete, `config.go:263`) go there;
- `protocol_openai.go:12,14` list `messages[].name` and the strings in
  `tools[].function.parameters` as sanitised, `protocol_gemini.go` those in
  `functionDeclarations[].parameters`.  The walk goes by key: `name` is left out on
  purpose (`protocol_openai.go:44`, `protocol_test.go:228`), and of the parameters
  only what stands under `description` or another text key is searched.
  Conversation treats the others as the code does: they are forwarded untouched.

And what no text promises:

- overlapping commands write whole files back, and may overwrite a key chosen
  meanwhile (`relaykey.go:283`);
- first runs that race for the sanitizer's key keep different ones for as long as
  they live, for the file is not read again after it is written
  (`installkey.go:54`); LateRunsAgree speaks of those that come later;
- a command that saves settings it loaded before another's save undoes that
  change (`settings.go:195`); SettingsKept says that this is the only way;
- a key that leaves the account between two pages of its list hides another from
  it (`tokens.go:93`); ListsWhatStayed says that it is one for one;
- an interrupted switch of a renamed account may leave a second row of it, one
  file going by the derived and one by the given name (`accounts.go:519`), and
  with shared usernames may shadow;
- the `input` key of an OpenAI responses request is excluded from numeric
  detectors as tool arguments are, though there it holds the user's prompt
  (`protocol.go:57`): a number in it leaves as it is;
- a handler that outlives the five-second shutdown may put secrets into a table
  that was already dropped (`server.go:180`); DroppedWhenDrained excludes it;
- a tunnel dialed, or a client hijacked, after the sweep is tracked by a table
  nobody sweeps again (`connector/server.go:197`);
- a match that fails its checksum, or loses to a longer one that overlaps it, is
  dropped with all the text it took.  With the Luhn detector on, the card number in
  `12 4111111111111111` leaves, since the detector takes all 18 digits for one
  number (`detectors_builtin.go:168,172`, `detector.go:50`), and of two overlapping
  secrets the part that only the shorter one covers leaves (`detector.go:73`);
- for the same reasons a restored answer may be masked differently when it comes
  back: `12 <<card>>`, a quoted placeholder behind a PEM header (the private-key
  detector is on by default, `detectors_builtin.go:144`), or one that touches
  letters a detector takes with it.  SecretsStayHome and HistoryIsStable state
  exactly when;
- the idle timer of a subscription also runs while a slow subscriber holds up
  the parser, and no time-out covers the wait for the stream's headers.

## 7. What is not modelled

| part | why |
|---|---|
| built-in detectors | regular expressions and checksums: data.  Conversation takes what they match as a constant |
| fields of requests and replies, headers, the cookie jar, URL building | data: a reply is its status and what its body says |
| reporting of certificate pins | never changes a call's outcome; its log-once set only silences repeats |
| otelagentsession | a mapping, field by field |
| getters and defaults of settings, ArtifactReportsFresh | each reads one field |
| UpdateToken's read before write (`tokens.go:252`) | the caller's read-modify-write, on the gateway |
| SaveAccount | nothing in the repository calls it; a stutter at this abstraction |
| temp files of the account store | a rename is one step there; Settings has the atomic write in full |
| table size and eviction counters, proxy counters, control endpoints | read only for display |
| header copying, content codings, HTML-error rewrite, HTTP/1.1 framing | change no state the properties see |
| group-scoped resolutions in RelayCache | read and write no cached state; RelayPick models their choice |
| certificate cache, NewRegistry's validation, host normalisation | one locked lookup; string checks at start |
| bytes into SSE frames, maxFrameBytes, a last incomplete frame | forwarded untouched before the restorer |
| an SSE body without its content type | restored as plain text; the streams here are labelled |
| ~~~ fences, indented code, letter case in the guard | handled as the forms that are modelled |
| back-off, jitter, intervals as durations | a timer that is set may fire at any moment |
| order of JSON keys, form of numbers | not looked at by any property |
| JSON values after the first of a request's body | dropped when something in the first was masked, kept if not (`protocol.go:139`); clients send one |
| word boundaries (`\b`) of the built-in expressions | a match is judged by its own characters; an expression that looks around it finds fewer |
| form texts in RestoredButInSinks | restored as one plain text, whatever it holds |
| a user pattern that matches the empty string | words are non-empty |
| a restart of the proxy inside an answer | the client's connection breaks with it |

## 8. The plan

Done, in this order: the account store with its promise and proofs; the table
and the proxy; key selection and the key cache; the connector; streams;
the long calls; bodies and conversations; the pages of the token list; the HTTP
client, the three sign-ins and the streamed diagnostic reply; settings and the
install key, with proofs about all the shared files; the proofs about the proxy
and the store with its processes, the calls with the event subscription, paging,
routing, the guard, conversations and streamed text.

Next, the most important first:

1. **Connections that outlive Serve** (`connector/server.go:197`): a dial or a hijack
   that ends after the sweep.  A property needs a promise to go by, and no text
   makes one.
2. **Secrets that look like a piece of a placeholder**: what a stream does to
   them (see SecretsApart in section 5), with a run that has some.
3. **Commands without the lock, and pins to the account that was active**
   (`config.go:210`, `accounts.go:566`): AccountSessions has both (LockedCommands =
   FALSE, a pin of LivePath's account); a run that shows what they cost.
4. Wider instances where they are cheap: three connections in Connector, three
   requests in Conversation, two changes in TokenPages.

An abstract specification worth adding: a table that never evicts, which Mapping
implements for Cap = 0.

## 9. Working on it

`tlc -workers 2 -config <Run>.cfg MC<Module>` runs a check; the table of runs in
`PROJECT.json` gives the pairs.  `tlapm <Module>Proofs.tla` checks a proof
module.  A change of the code starts at the definitions whose lines it touches
(`PROJECT.json`, "map"); the properties they bear on are those whose mutants vary
them.
