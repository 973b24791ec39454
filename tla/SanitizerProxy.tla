--------------------------- MODULE SanitizerProxy ---------------------------
(***************************************************************************)
(* One run of the sanitizer proxy (sanitizer/server.go): handlers that     *)
(* share the table of Mapping, each replacing the secrets of its request   *)
(* and restoring the placeholders of its response one at a time; and the   *)
(* three goroutines of Serve (the server, the shutdown, the parent watch). *)
(*                                                                         *)
(* A body is the set of secrets the detectors find in it; a response is    *)
(* any sequence of placeholders, the request's own or not.  Buffered and   *)
(* streamed responses differ in when bytes are written, not in the table   *)
(* lookups, which are what is modelled of a restore.                       *)
(***************************************************************************)
EXTENDS Mapping

CONSTANTS
  Request,  \* the requests of this run
  Bodies,   \* the sets of secrets their bodies may hold
  Watched,  \* is there a parent process to watch (Config.ParentPID)?
  Nothing   \* no placeholder shown yet; a placeholder left as it is

ASSUME ProxyAssumption ==
  /\ Bodies \subseteq SUBSET Real
  /\ Watched \in BOOLEAN

VARIABLES
  phase,      \* where each request's handler is
  todo,       \* the secrets of its body not replaced yet
  sent,       \* the tokens in the body it forwards
  shown,      \* the last placeholder of the response under way, and what the client got for it
  cancelled,  \* Serve's context
  parent,     \* is the watched parent process alive?
  serving,    \* Serve itself: "accept", "stopping", "returned"
  shutdown    \* the shutdown goroutine: "parked", "draining", "drained", "timedout"

handlerVars == <<phase, todo, sent, shown>>
serveVars == <<cancelled, parent, serving, shutdown>>
proxyVars == <<mappingVars, handlerVars, serveVars>>

Active(q) == phase[q] \in {"read", "rewrite", "upstream", "restore"}

ProxyTypeOK ==
  /\ MappingTypeOK
  /\ phase \in [Request -> {"none", "read", "rewrite", "upstream", "restore", "done"}]
  /\ todo \in [Request -> SUBSET Real]
  /\ sent \in [Request -> SUBSET Token]
  /\ shown \in [Request -> {Nothing} \cup (Token \X (Real \cup {Nothing}))]
  /\ cancelled \in BOOLEAN
  /\ parent \in BOOLEAN
  /\ serving \in {"accept", "stopping", "returned"}
  /\ shutdown \in {"parked", "draining", "drained", "timedout"}

-----------------------------------------------------------------------------
(* handleProxy.                                                            *)

\* A request arrives, on a new connection or an open one; its body is to be read
\* and decoded.
Accept(q) ==
  /\ shutdown = "parked"
  /\ phase[q] = "none"
  /\ phase' = [phase EXCEPT ![q] = "read"]
  /\ UNCHANGED <<mappingVars, todo, sent, shown, serveVars>>

\* On a protocol's path, its body is to be rewritten.
Begin(q, body) ==
  /\ phase[q] = "read"
  /\ phase' = [phase EXCEPT ![q] = "rewrite"]
  /\ todo' = [todo EXCEPT ![q] = body]
  /\ UNCHANGED <<mappingVars, sent, shown, serveVars>>

\* On any other path it is forwarded as it is.
BeginUnscanned(q) ==
  /\ phase[q] = "read"
  /\ phase' = [phase EXCEPT ![q] = "upstream"]
  /\ UNCHANGED <<mappingVars, todo, sent, shown, serveVars>>

\* ReplaceWith, one match: the last of its secret in the body, or not.
Replace(q, r) ==
  /\ phase[q] = "rewrite" /\ r \in todo[q]
  /\ PutOrGet(r)
  /\ sent' = [sent EXCEPT ![q] = @ \cup {TokenOf[r]}]
  /\ \E rest \in {todo[q], todo[q] \ {r}} : todo' = [todo EXCEPT ![q] = rest]
  /\ UNCHANGED <<phase, shown, serveVars>>

\* Every secret is replaced.
Forward(q) ==
  /\ phase[q] = "rewrite" /\ todo[q] = {}
  /\ phase' = [phase EXCEPT ![q] = "upstream"]
  /\ UNCHANGED <<mappingVars, todo, sent, shown, serveVars>>

Respond(q) ==
  /\ phase[q] = "upstream"
  /\ phase' = [phase EXCEPT ![q] = "restore"]
  /\ UNCHANGED <<mappingVars, todo, sent, shown, serveVars>>

\* restoreInText, one placeholder: its secret if the table knows it.
Restore(q, t) ==
  /\ phase[q] = "restore"
  /\ shown' = [shown EXCEPT ![q] = <<t, IF Known(t) THEN byToken[t] ELSE Nothing>>]
  /\ UNCHANGED <<mappingVars, phase, todo, sent, serveVars>>

\* The response is complete; or the body was refused or, once rewritten, cannot be
\* encoded again; the upstream failed, RequestTimeout fired or the client left.
End(q) ==
  /\ Active(q)
  /\ phase[q] = "rewrite" => todo[q] = {}
  /\ phase' = [phase EXCEPT ![q] = "done"]
  /\ shown' = [shown EXCEPT ![q] = Nothing]
  /\ UNCHANGED <<mappingVars, todo, sent, serveVars>>

-----------------------------------------------------------------------------
(* Serve.                                                                  *)

\* The caller cancels the context.
Cancel ==
  /\ ~cancelled
  /\ cancelled' = TRUE
  /\ UNCHANGED <<mappingVars, handlerVars, parent, serving, shutdown>>

\* The parent process exits, and watchParent's next tick sees it.
ParentExits ==
  /\ Watched /\ parent
  /\ parent' = FALSE
  /\ UNCHANGED <<mappingVars, handlerVars, cancelled, serving, shutdown>>

WatchParent ==
  /\ ~parent /\ ~cancelled
  /\ cancelled' = TRUE
  /\ UNCHANGED <<mappingVars, handlerVars, parent, serving, shutdown>>

\* The goroutine parked on ctx.Done calls http.Shutdown: no new connections, and
\* at most five seconds for the active ones.
BeginShutdown ==
  /\ cancelled /\ shutdown = "parked"
  /\ shutdown' = "draining"
  /\ UNCHANGED <<mappingVars, handlerVars, cancelled, parent, serving>>

Drained ==
  /\ shutdown = "draining"
  /\ \A q \in Request : ~Active(q)
  /\ shutdown' = "drained"
  /\ UNCHANGED <<mappingVars, handlerVars, cancelled, parent, serving>>

GraceOver ==
  /\ shutdown = "draining"
  /\ shutdown' = "timedout"
  /\ UNCHANGED <<mappingVars, handlerVars, cancelled, parent, serving>>

\* http.Serve fails, and the shutdown goroutine is left parked.
FaultyServeEnds ==
  /\ serving = "accept"
  /\ serving' = "stopping"
  /\ UNCHANGED <<mappingVars, handlerVars, cancelled, parent, shutdown>>

\* http.Serve returns, because of the shutdown or of a fatal accept error.
\* cancelRun fires whichever it was.
ServeEnds ==
  /\ serving = "accept"
  /\ serving' = "stopping"
  /\ cancelled' = TRUE
  /\ UNCHANGED <<mappingVars, handlerVars, parent, shutdown>>

\* The table is dropped without waiting for the shutdown.
FaultyReturn ==
  /\ serving = "stopping"
  /\ serving' = "returned"
  /\ Reset
  /\ UNCHANGED <<handlerVars, cancelled, parent, shutdown>>

\* <-doneShutdown, then mapping.Reset.
Return ==
  /\ serving = "stopping"
  /\ shutdown \in {"drained", "timedout"}
  /\ serving' = "returned"
  /\ Reset
  /\ UNCHANGED <<handlerVars, cancelled, parent, shutdown>>

-----------------------------------------------------------------------------
ProxyInit ==
  /\ MappingInit
  /\ phase = [q \in Request |-> "none"]
  /\ todo = [q \in Request |-> {}]
  /\ sent = [q \in Request |-> {}]
  /\ shown = [q \in Request |-> Nothing]
  /\ cancelled = FALSE
  /\ parent = TRUE
  /\ serving = "accept"
  /\ shutdown = "parked"

ServeNext ==
  \/ Cancel \/ ParentExits \/ WatchParent
  \/ BeginShutdown \/ Drained \/ GraceOver
  \/ ServeEnds \/ Return

ProxyNext ==
  \/ \E q \in Request :
       \/ Accept(q) \/ BeginUnscanned(q)
       \/ \E body \in Bodies : Begin(q, body)
       \/ \E r \in Real : Replace(q, r)
       \/ Forward(q) \/ Respond(q) \/ End(q)
       \/ \E t \in Token : Restore(q, t)
  \/ ServeNext

\* The runtime runs every goroutine, the ticker ticks, and http.Shutdown gives up
\* after five seconds.  Nothing makes a handler, an upstream or the caller move.
Fairness ==
  /\ WF_proxyVars(WatchParent)
  /\ WF_proxyVars(BeginShutdown)
  /\ WF_proxyVars(GraceOver)
  /\ WF_proxyVars(shutdown # "parked" /\ ServeEnds)
  /\ WF_proxyVars(Return)

ProxySpec == ProxyInit /\ [][ProxyNext]_proxyVars /\ Fairness

-----------------------------------------------------------------------------
(* Properties.                                                             *)

\* mapping.go:14: a placeholder is only ever replaced by the secret it was made
\* of, whatever was evicted and minted again meanwhile.
RestoredIsItsOwn ==
  \A q \in Request :
    shown[q] # Nothing /\ shown[q][2] # Nothing => TokenOf[shown[q][2]] = shown[q][1]

\* mapping.go:16: while the proxy serves, a request's own placeholder comes back
\* as the secret unless Cap other secrets were cited since.
OwnPlaceholderRestored ==
  [][\A q \in Request : \A r \in Real :
       /\ Restore(q, TokenOf[r])
       /\ TokenOf[r] \in sent[q]
       /\ serving # "returned"
       /\ Cap = 0 \/ Cardinality(newer[r]) < Cap
       => shown'[q] = <<TokenOf[r], r>>]_proxyVars

\* server.go:179: when the shutdown drained every handler, Serve leaves no secret
\* behind, then or later.
DroppedWhenDrained ==
  serving = "returned" /\ shutdown = "drained" => Held = {} /\ DOMAIN byToken = {}

\* server.go:155-174: a cancelled proxy, one whose parent is gone and one whose
\* listener failed all come to an end, hanging handlers or not.
ServeReturns ==
  cancelled \/ ~parent \/ serving = "stopping" ~> serving = "returned"
=============================================================================
