----------------------------- MODULE Connector ------------------------------
(***************************************************************************)
(* One run of the connector (connector/server.go): client connections that *)
(* CONNECT to a vendor's host and are intercepted, or to any other host    *)
(* and are tunnelled; and Serve, whose context may be cancelled at any     *)
(* time.  Once hijacked, a connection is out of the sight of net/http:     *)
(* Shutdown does not wait for it, only the table conns can close it.       *)
(*                                                                         *)
(* Every lock region of trackConn and every call that can block is a step. *)
(*                                                                         *)
(* Faulty definitions are mistakes this code could have made.              *)
(***************************************************************************)
EXTENDS Routing

CONSTANTS
  Conn,     \* the client connections of this run
  Method,   \* the methods of intercepted requests
  Path,     \* and their paths
  Target,   \* the targets of the registry
  NoRequest \* no request under way

ASSUME ConnectorAssumption == Target \subseteq DOMAIN DefaultTargets /\ Path \subseteq Seq(STRING)

VARIABLES
  phase,     \* what becomes of each connection
  client,    \* the socket to the client: "none", "open", "closed"
  upstream,  \* the socket of a tunnel's other end; "bounded": open, with a deadline
  tracked,   \* conns: the sockets closeHijackedConnections will close
  request,   \* the intercepted request under way
  attempt,   \* which RoundTrip it is in
  onWire,    \* has this RoundTrip written it?
  wrote,     \* wroteRequest: has any?
  copies,    \* auxiliary: how often it was written
  cancelled, \* Serve's context
  serving,   \* http.Server: "accept", "failed" (its listener), "shutdown"
  watcher    \* the goroutine of Serve: "parked", "draining", "sweeping", "done"

socketVars == <<phase, client, upstream, tracked>>
tripVars == <<request, attempt, onWire, wrote, copies>>
serveVars == <<cancelled, serving, watcher>>
connectorVars == <<socketVars, tripVars, serveVars>>

Phase ==
  {"none", "waiting", "dialing", "proxied", "asking", "granted", "dialed", "hijacked",
   "halved", "piping", "minting", "handshaking", "reading", "sending", "answering", "ending", "gone"}

Socket == Conn \X {"client", "upstream"}
Both(c) == {<<c, "client">>, <<c, "upstream">>}

\* An intercepted request: where the registry sends it; a body of none, up to 64 MiB,
\* or more; whether its route is listed for the relay; and whether a server that
\* simplifies its path would find a model route there.
Arrival(t, m, p, b) ==
  LET target == DefaultTargets[t] IN
  [to |-> Decide(target, m, p),
   body |-> b,
   listed |-> Simplified(p) = {p} /\ \E r \in ToSet(target.routes) :
                r.action = "relay" /\ Matches(r, m, p),
   model |-> \E q \in Simplified(p) : Sensitive(target, q)]

Arrivals == {Arrival(t, m, p, b) :
               t \in Target, m \in Method, p \in Path, b \in {"none", "small", "large"}}

ConnectorTypeOK ==
  /\ phase \in [Conn -> Phase]
  /\ client \in [Conn -> {"none", "open", "closed"}]
  /\ upstream \in [Conn -> {"none", "open", "bounded", "closed"}]
  /\ tracked \subseteq Socket
  /\ request \in [Conn -> Arrivals \cup {NoRequest}]
  /\ attempt \in [Conn -> 0..2]
  /\ onWire \in [Conn -> BOOLEAN] /\ wrote \in [Conn -> BOOLEAN]
  /\ copies \in [Conn -> 0..2]
  /\ cancelled \in BOOLEAN
  /\ serving \in {"accept", "failed", "shutdown"}
  /\ watcher \in {"parked", "draining", "sweeping", "done"}
  /\ \A c \in Conn : (request[c] = NoRequest) = (phase[c] \notin {"sending", "answering"})

-----------------------------------------------------------------------------
(* The ends of a connection.                                               *)

Move(c, from, to) == phase[c] = from /\ phase' = [phase EXCEPT ![c] = to]
Close(c) == client' = [client EXCEPT ![c] = "closed"]
CloseUpstream(c) == upstream' = [upstream EXCEPT ![c] = "closed"]

Connect(c) ==
  /\ serving = "accept"
  /\ Move(c, "none", "waiting")
  /\ client' = [client EXCEPT ![c] = "open"]
  /\ UNCHANGED <<upstream, tracked, tripVars, serveVars>>

\* The client closes the connection, or sends what its reader must refuse.
ClientLeaves(c) ==
  /\ client[c] = "open"
  /\ Close(c)
  /\ UNCHANGED <<phase, upstream, tracked, tripVars, serveVars>>

UpstreamLeaves(c) ==
  /\ upstream[c] \in {"open", "bounded"}
  /\ CloseUpstream(c)
  /\ UNCHANGED <<phase, client, tracked, tripVars, serveVars>>

\* A connection that waits for a request is closed: by the client, by
\* ReadHeaderTimeout, by Shutdown.
HangUp(c) ==
  /\ Move(c, "waiting", "gone")
  /\ Close(c)
  /\ UNCHANGED <<upstream, tracked, tripVars, serveVars>>

\* After an error response the server reads the next request, unless it shuts down.
Reply(c, from) ==
  IF serving = "shutdown" THEN Move(c, from, "gone") /\ Close(c)
  ELSE Move(c, from, "waiting") /\ UNCHANGED client

\* handleProxy, of anything but a CONNECT to a host and a port.
Refuse(c) ==
  /\ Reply(c, "waiting")
  /\ UNCHANGED <<upstream, tracked, tripVars, serveVars>>

-----------------------------------------------------------------------------
(* handleTunnel.                                                           *)

ConnectTunnel(c) ==
  /\ Move(c, "waiting", "dialing")
  /\ UNCHANGED <<client, upstream, tracked, tripVars, serveVars>>

\* The destination, or the parent's proxy, cannot be reached.
DialFails(c) ==
  /\ Reply(c, "dialing")
  /\ UNCHANGED <<upstream, tracked, tripVars, serveVars>>

\* The parent has no proxy, or one of another kind.
Dialed(c) ==
  /\ Move(c, "dialing", "dialed")
  /\ upstream' = [upstream EXCEPT ![c] = "open"]
  /\ UNCHANGED <<client, tracked, tripVars, serveVars>>

\* dialViaHTTPProxy: the proxy is reached, and has only so long to open the tunnel.
DialProxy(c) ==
  /\ Move(c, "dialing", "proxied")
  /\ upstream' = [upstream EXCEPT ![c] = "open"]
  /\ UNCHANGED <<client, tracked, tripVars, serveVars>>

\* Only the dial is bounded.
FaultyBoundSetup(c) ==
  /\ Move(c, "proxied", "asking")
  /\ UNCHANGED <<client, upstream, tracked, tripVars, serveVars>>

BoundSetup(c) ==
  /\ Move(c, "proxied", "asking")
  /\ upstream' = [upstream EXCEPT ![c] = IF @ = "open" THEN "bounded" ELSE @]
  /\ UNCHANGED <<client, tracked, tripVars, serveVars>>

BoundFails(c) ==
  /\ Reply(c, "proxied")
  /\ CloseUpstream(c)
  /\ UNCHANGED <<tracked, tripVars, serveVars>>

\* A proxy that refuses is left connected.
FaultyProxyFails(c) ==
  /\ Reply(c, "asking")
  /\ UNCHANGED <<upstream, tracked, tripVars, serveVars>>

\* No handshake, no CONNECT written, no response in time, or not a 200.
ProxyFails(c) ==
  /\ Reply(c, "asking")
  /\ CloseUpstream(c)
  /\ UNCHANGED <<tracked, tripVars, serveVars>>

ProxyGrants(c) ==
  /\ Move(c, "asking", "granted")
  /\ UNCHANGED <<client, upstream, tracked, tripVars, serveVars>>

\* Bytes after the response, or a deadline that cannot be cleared.
HandBackFails(c) ==
  /\ Reply(c, "granted")
  /\ CloseUpstream(c)
  /\ UNCHANGED <<tracked, tripVars, serveVars>>

HandBack(c) ==
  /\ Move(c, "granted", "dialed")
  /\ upstream' = [upstream EXCEPT ![c] = IF @ = "bounded" THEN "open" ELSE @]
  /\ UNCHANGED <<client, tracked, tripVars, serveVars>>

HijackFails(c) ==
  /\ Reply(c, "dialed")
  /\ CloseUpstream(c)
  /\ UNCHANGED <<tracked, tripVars, serveVars>>

Hijack(c) ==
  /\ Move(c, "dialed", "hijacked")
  /\ UNCHANGED <<client, upstream, tracked, tripVars, serveVars>>

TrackClient(c) ==
  /\ Move(c, "hijacked", "halved")
  /\ tracked' = tracked \cup {<<c, "client">>}
  /\ UNCHANGED <<client, upstream, tripVars, serveVars>>

\* Only the client's socket is known to the shutdown.
FaultyTrackUpstream(c) ==
  /\ Move(c, "halved", "piping")
  /\ UNCHANGED <<client, upstream, tracked, tripVars, serveVars>>

TrackUpstream(c) ==
  /\ Move(c, "halved", "piping")
  /\ tracked' = tracked \cup {<<c, "upstream">>}
  /\ UNCHANGED <<client, upstream, tripVars, serveVars>>

\* pipeTunnel: one direction ends, and with it both.
PipeEnds(c) ==
  /\ {"closed", "bounded"} \cap {client[c], upstream[c]} # {}
  /\ Move(c, "piping", "ending")
  /\ Close(c) /\ CloseUpstream(c)
  /\ UNCHANGED <<tracked, tripVars, serveVars>>

Untrack(c) ==
  /\ Move(c, "ending", "gone")
  /\ tracked' = tracked \ Both(c)
  /\ UNCHANGED <<client, upstream, tripVars, serveVars>>

-----------------------------------------------------------------------------
(* handleIntercept and serveInterceptedHTTP.                               *)

\* Hijacked at once: the certificate of its host is next.
ConnectIntercept(c) ==
  /\ Move(c, "waiting", "minting")
  /\ UNCHANGED <<client, upstream, tracked, tripVars, serveVars>>

\* Bytes before the 200, or no certificate.
MintFails(c) ==
  /\ Move(c, "minting", "gone")
  /\ Close(c)
  /\ UNCHANGED <<upstream, tracked, tripVars, serveVars>>

\* The shutdown does not know of intercepted clients.
FaultyMinted(c) ==
  /\ Move(c, "minting", "handshaking")
  /\ UNCHANGED <<client, upstream, tracked, tripVars, serveVars>>

Minted(c) ==
  /\ Move(c, "minting", "handshaking")
  /\ tracked' = tracked \cup {<<c, "client">>}
  /\ UNCHANGED <<client, upstream, tripVars, serveVars>>

Handshake(c) ==
  /\ client[c] = "open"
  /\ Move(c, "handshaking", "reading")
  /\ UNCHANGED <<client, upstream, tracked, tripVars, serveVars>>

\* The handshake, or the next request, cannot be read.
ReadFails(c) ==
  /\ client[c] = "closed"
  /\ Move(c, "handshaking", "ending") \/ Move(c, "reading", "ending")
  /\ UNCHANGED <<client, upstream, tracked, tripVars, serveVars>>

\* Blocked by the registry, or too large to be captured: an error response, which
\* closes the connection.
Block(c, r) ==
  /\ client[c] = "open"
  /\ r.to = "block" \/ (r.to = "relay" /\ r.body = "large")
  /\ Move(c, "reading", "ending")
  /\ Close(c)
  /\ UNCHANGED <<upstream, tracked, tripVars, serveVars>>

Send(c, r) ==
  /\ client[c] = "open"
  /\ r.to = "direct" \/ (r.to = "relay" /\ r.body # "large")
  /\ Move(c, "reading", "sending")
  /\ request' = [request EXCEPT ![c] = r]
  /\ attempt' = [attempt EXCEPT ![c] = 1]
  /\ UNCHANGED <<client, upstream, tracked, onWire, wrote, copies, serveVars>>

\* The transport writes the request, unless its context is done.
Write(c) ==
  /\ phase[c] = "sending" /\ ~onWire[c] /\ ~cancelled
  /\ onWire' = [onWire EXCEPT ![c] = TRUE]
  /\ wrote' = [wrote EXCEPT ![c] = TRUE]
  /\ copies' = [copies EXCEPT ![c] = @ + 1]
  /\ UNCHANGED <<socketVars, request, attempt, serveVars>>

\* Any first failure is put down to the network.
FaultyReplayable(c) ==
  attempt[c] = 1 /\ request[c].to = "relay" /\ request[c].body = "small" /\ ~cancelled

\* A captured body that was never written may be sent again, once.
Replayable(c) ==
  /\ attempt[c] = 1
  /\ request[c].to = "relay" /\ request[c].body = "small"
  /\ ~wrote[c] /\ ~cancelled

RequestDone(c) ==
  /\ request' = [request EXCEPT ![c] = NoRequest]
  /\ attempt' = [attempt EXCEPT ![c] = 0]
  /\ onWire' = [onWire EXCEPT ![c] = FALSE]
  /\ wrote' = [wrote EXCEPT ![c] = FALSE]
  /\ copies' = [copies EXCEPT ![c] = 0]

Replay(c) ==
  /\ phase[c] = "sending" /\ Replayable(c)
  /\ attempt' = [attempt EXCEPT ![c] = @ + 1]
  /\ onWire' = [onWire EXCEPT ![c] = FALSE]
  /\ UNCHANGED <<socketVars, request, wrote, copies, serveVars>>

\* RoundTrip has failed for good: a 502, which closes the connection.
TripFails(c) ==
  /\ Move(c, "sending", "ending")
  /\ ~Replayable(c)
  /\ Close(c)
  /\ RequestDone(c)
  /\ UNCHANGED <<upstream, tracked, serveVars>>

Answer(c) ==
  /\ onWire[c]
  /\ Move(c, "sending", "answering")
  /\ UNCHANGED <<client, upstream, tracked, tripVars, serveVars>>

Answered(c) ==
  /\ client[c] = "open"
  /\ \/ Move(c, "answering", "reading") /\ UNCHANGED client
     \/ Move(c, "answering", "ending") /\ Close(c)
  /\ RequestDone(c)
  /\ UNCHANGED <<upstream, tracked, serveVars>>

\* The client has left, or the upstream body ends early: with the context, or not.
AnswerFails(c) ==
  /\ Move(c, "answering", "ending")
  /\ Close(c)
  /\ RequestDone(c)
  /\ UNCHANGED <<upstream, tracked, serveVars>>

-----------------------------------------------------------------------------
(* Serve.                                                                  *)

Cancel ==
  /\ ~cancelled
  /\ cancelled' = TRUE
  /\ UNCHANGED <<socketVars, tripVars, serving, watcher>>

\* http.Serve returns an error that is not ErrServerClosed.
ListenerFails ==
  /\ serving = "accept"
  /\ serving' = "failed"
  /\ UNCHANGED <<socketVars, tripVars, cancelled, watcher>>

\* Shutdown closes the listener: http.Serve, and Serve, return.
Shutdown ==
  /\ watcher = "parked" /\ cancelled
  /\ watcher' = "draining"
  /\ serving' = "shutdown"
  /\ UNCHANGED <<socketVars, tripVars, cancelled>>

\* Serve has returned already: nobody is left to sweep.
WatcherLeaves ==
  /\ watcher = "parked" /\ serving = "failed"
  /\ watcher' = "done"
  /\ UNCHANGED <<socketVars, tripVars, cancelled, serving>>

\* Every connection net/http knows of is idle, or two seconds have passed.
Drained ==
  /\ watcher = "draining"
  /\ watcher' = "sweeping"
  /\ UNCHANGED <<socketVars, tripVars, cancelled, serving>>

\* closeHijackedConnections
Sweep ==
  /\ watcher = "sweeping"
  /\ watcher' = "done"
  /\ client' = [c \in Conn |-> IF <<c, "client">> \in tracked THEN "closed" ELSE client[c]]
  /\ upstream' = [c \in Conn |->
                    IF <<c, "upstream">> \in tracked THEN "closed" ELSE upstream[c]]
  /\ tracked' = {}
  /\ UNCHANGED <<phase, tripVars, cancelled, serving>>

-----------------------------------------------------------------------------
ConnectorInit ==
  /\ phase = [c \in Conn |-> "none"]
  /\ client = [c \in Conn |-> "none"]
  /\ upstream = [c \in Conn |-> "none"]
  /\ tracked = {}
  /\ request = [c \in Conn |-> NoRequest]
  /\ attempt = [c \in Conn |-> 0]
  /\ onWire = [c \in Conn |-> FALSE] /\ wrote = [c \in Conn |-> FALSE]
  /\ copies = [c \in Conn |-> 0]
  /\ cancelled = FALSE
  /\ serving = "accept"
  /\ watcher = "parked"

TunnelNext(c) ==
  \/ ConnectTunnel(c) \/ DialFails(c) \/ Dialed(c)
  \/ DialProxy(c) \/ BoundSetup(c) \/ BoundFails(c) \/ ProxyFails(c) \/ ProxyGrants(c)
  \/ HandBack(c) \/ HandBackFails(c)
  \/ HijackFails(c) \/ Hijack(c)
  \/ TrackClient(c) \/ TrackUpstream(c) \/ PipeEnds(c) \/ UpstreamLeaves(c)

InterceptNext(c) ==
  \/ ConnectIntercept(c) \/ MintFails(c) \/ Minted(c) \/ Handshake(c) \/ ReadFails(c)
  \/ \E r \in Arrivals : Block(c, r) \/ Send(c, r)
  \/ Write(c) \/ Replay(c) \/ TripFails(c) \/ Answer(c) \/ Answered(c) \/ AnswerFails(c)

ServeNext ==
  Cancel \/ ListenerFails \/ Shutdown \/ WatcherLeaves \/ Drained \/ Sweep

ConnectorNext ==
  \/ \E c \in Conn :
       \/ Connect(c) \/ ClientLeaves(c) \/ HangUp(c) \/ Refuse(c) \/ Untrack(c)
       \/ TunnelNext(c) \/ InterceptNext(c)
  \/ ServeNext

\* A goroutine that is not blocked goes on; one that waits for a peer does so only
\* until its own socket is closed or a deadline on it passes, a dial has taken ten
\* seconds, or its request's context is done.
ConnectorFairness ==
  /\ WF_connectorVars(Shutdown) /\ WF_connectorVars(Drained) /\ WF_connectorVars(Sweep)
  /\ \A c \in Conn :
       /\ WF_connectorVars(DialFails(c) \/ Dialed(c) \/ DialProxy(c))
       /\ WF_connectorVars(BoundSetup(c) \/ BoundFails(c))
       /\ WF_connectorVars(upstream[c] # "open" /\ (ProxyFails(c) \/ ProxyGrants(c)))
       /\ WF_connectorVars(HandBack(c) \/ HandBackFails(c))
       /\ WF_connectorVars(PipeEnds(c)) /\ WF_connectorVars(Untrack(c))
       /\ WF_connectorVars(ReadFails(c))
       /\ WF_connectorVars(cancelled /\ TripFails(c))
       /\ WF_connectorVars(cancelled /\ AnswerFails(c))

ConnectorSpec == ConnectorInit /\ [][ConnectorNext]_connectorVars /\ ConnectorFairness

-----------------------------------------------------------------------------
(* Properties.                                                             *)

\* server.go:462-473: the gateway never gets a request twice: it is replayed once,
\* and only if no copy of it was written.
SentOnce == \A c \in Conn : copies[c] <= 1

\* server.go:214, 215, 372: the socket of a tunnel or an intercepted client is open only if
\* the shutdown can find it, or while its handler is about to record it.
OpenIsTracked ==
  \A c \in Conn :
    /\ phase[c] \in {"piping", "handshaking", "reading", "sending", "answering"}
         /\ client[c] = "open" => <<c, "client">> \in tracked
    /\ phase[c] = "piping" /\ upstream[c] = "open" => <<c, "upstream">> \in tracked

AtProxy == {"proxied", "asking", "granted"}

\* server.go:203, 281-325 and 331-344: the socket to the destination, or to the proxy, is
\* closed on every way out of the dial, the proxy's setup, the hijack and the pipe; and a
\* connection that is over leaves none open and none in the table, whatever ended it.
NothingLeaks ==
  \A c \in Conn :
    /\ phase[c] \notin AtProxy \cup {"dialed", "hijacked", "halved", "piping"} =>
         upstream[c] \notin {"open", "bounded"}
    /\ phase[c] = "gone" => client[c] = "closed" /\ Both(c) \cap tracked = {}

\* target.go:94-133: the gateway only gets requests for listed routes, and the vendor
\* none that it would read as one for a model.
RoutedAsListed ==
  \A c \in Conn : copies[c] > 0 =>
    IF request[c].to = "relay" THEN request[c].listed ELSE ~request[c].model

Established ==
  {"piping", "handshaking", "reading", "sending", "answering", "ending"}

\* server.go:163-167: what is established when the shutdown begins comes to its end,
\* however long its two peers would go on.
EstablishedEnds ==
  \A c \in Conn : watcher = "draining" /\ phase[c] \in Established ~> phase[c] = "gone"

\* server.go:257, 279 and 323: a proxy that takes the connection and goes silent does not
\* hold the handler for ever, and the deadline that sees to it never ends up in a tunnel.
SetupIsBounded ==
  \A c \in Conn :
    /\ phase[c] \in {"dialing"} \cup AtProxy ~> phase[c] \notin {"dialing"} \cup AtProxy
    /\ [](phase[c] = "piping" => upstream[c] # "bounded")
=============================================================================
