------------------------------ MODULE Loopback ------------------------------
(***************************************************************************)
(* package oauthloopback: a listener on the loopback interface that waits  *)
(* for one OAuth callback.  Every request to /callback runs handleCallback *)
(* in a goroutine of its own; the caller waits, then closes.               *)
(***************************************************************************)
EXTENDS CallContext, Naturals, Sequences

CONSTANTS
  Callback,    \* the requests that may reach /callback
  Successful,  \* those with a code and without an error
  NoCallback

ASSUME LoopbackAssumption == Successful \subseteq Callback /\ NoCallback \notin Callback

VARIABLES
  listener,   \* "off", "open" or "closed": closed is set, Shutdown is called
  handler,    \* each request: "none", "arrived", "claimed", "delivered", "answered"
  reply,      \* the page it was answered with
  delivered,  \* the sticky flag, under mu
  resultCh,   \* a channel of capacity one
  wait,       \* Wait: "off", "waiting", "got" or "cancelled"
  got         \* the callback it returned

loopbackVars == <<listener, handler, reply, delivered, resultCh, wait, got>>

LoopbackTypeOK ==
  /\ listener \in {"off", "open", "closed"}
  /\ handler \in [Callback -> {"none", "arrived", "claimed", "delivered", "answered"}]
  /\ reply \in [Callback -> {"none", "success", "failure", "duplicate"}]
  /\ delivered \in BOOLEAN
  /\ resultCh \in Seq(Callback) /\ Len(resultCh) <= 1
  /\ wait \in {"off", "waiting", "got", "cancelled"}
  /\ got \in Callback \cup {NoCallback}

\* A closed listener accepts nobody; Shutdown lets the handlers under way end.
Arrive(k) ==
  /\ listener = "open" /\ handler[k] = "none"
  /\ handler' = [handler EXCEPT ![k] = "arrived"]
  /\ UNCHANGED <<listener, reply, delivered, resultCh, wait, got>>

\* Whether a result was delivered is read off the channel.
FaultyClaim(k) ==
  /\ handler[k] = "arrived" /\ resultCh = << >>
  /\ delivered' = TRUE
  /\ handler' = [handler EXCEPT ![k] = "claimed"]
  /\ UNCHANGED <<listener, reply, resultCh, wait, got>>

\* The first under the lock claims the delivery ...
Claim(k) ==
  /\ handler[k] = "arrived" /\ ~delivered
  /\ delivered' = TRUE
  /\ handler' = [handler EXCEPT ![k] = "claimed"]
  /\ UNCHANGED <<listener, reply, resultCh, wait, got>>

\* ... every other is told so.
Reject(k) ==
  /\ handler[k] = "arrived" /\ delivered
  /\ handler' = [handler EXCEPT ![k] = "answered"]
  /\ reply' = [reply EXCEPT ![k] = "duplicate"]
  /\ UNCHANGED <<listener, delivered, resultCh, wait, got>>

\* The send does not block: on a full channel the result would be dropped.
Deliver(k) ==
  /\ handler[k] = "claimed"
  /\ resultCh' = IF resultCh = << >> THEN <<k>> ELSE resultCh
  /\ handler' = [handler EXCEPT ![k] = "delivered"]
  /\ UNCHANGED <<listener, reply, delivered, wait, got>>

Reply(k) ==
  /\ handler[k] = "delivered"
  /\ handler' = [handler EXCEPT ![k] = "answered"]
  /\ reply' = [reply EXCEPT ![k] = IF k \in Successful THEN "success" ELSE "failure"]
  /\ UNCHANGED <<listener, delivered, resultCh, wait, got>>

HandlerStep(k) == Claim(k) \/ Reject(k) \/ Deliver(k) \/ Reply(k)

\* The callback alone is waited for.
FaultyWait ==
  /\ wait = "waiting" /\ resultCh # << >>
  /\ wait' = "got" /\ got' = Head(resultCh) /\ resultCh' = << >>
  /\ UNCHANGED <<listener, handler, reply, delivered>>

\* Wait's select; when both are ready it takes either.
Wait ==
  /\ wait = "waiting"
  /\ \/ cancelled /\ wait' = "cancelled" /\ UNCHANGED <<resultCh, got>>
     \/ /\ resultCh # << >>
        /\ wait' = "got" /\ got' = Head(resultCh) /\ resultCh' = << >>
  /\ UNCHANGED <<listener, handler, reply, delivered>>

\* The caller's deferred Close.
Close ==
  /\ wait \in {"got", "cancelled"} /\ listener = "open"
  /\ listener' = "closed"
  /\ UNCHANGED <<handler, reply, delivered, resultCh, wait, got>>

-----------------------------------------------------------------------------
(* Properties.                                                             *)

Told == {k \in Callback : reply[k] \in {"success", "failure"}}

\* At most one browser is told how the sign-in went, and it is the one whose
\* callback Wait returns: whatever else hits the port before Close, is answered
\* as a duplicate and displaces nothing.
OneCallbackWins ==
  /\ \A k, l \in Told : k = l
  /\ wait = "got" => Told \subseteq {got}
  /\ \A k \in Told : got = k \/ resultCh = <<k>>
=============================================================================
