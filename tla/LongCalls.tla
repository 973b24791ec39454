----------------------------- MODULE LongCalls -----------------------------
(***************************************************************************)
(* The calls of the SDK: those that last until the gateway, the browser or *)
(* the caller ends them (the event subscription, the device sign-ins, the  *)
(* wait for an OAuth callback) and those of one request, whose reply may   *)
(* be streamed.  A caller makes one of them and owns its context.          *)
(***************************************************************************)
EXTENDS EventStream, DevicePoll, DiagStream, Loopback

requestCallVars == <<httpVars, diagVars>>
callVars == <<cancelled, eventVars, pollVars, requestCallVars, loopbackVars>>

CallsTypeOK ==
  /\ cancelled \in BOOLEAN
  /\ EventsTypeOK /\ PollTypeOK /\ HttpTypeOK /\ DiagTypeOK /\ LoopbackTypeOK

CallsInit ==
  /\ cancelled = FALSE
  /\ \/ sub = "dial" /\ poll = "off" /\ call = "off" /\ listener = "off"
     \/ sub = "off" /\ poll = "sleep" /\ call = "off" /\ listener = "off"
     \/ sub = "off" /\ poll = "off" /\ call = "send" /\ listener = "off"
     \/ sub = "off" /\ poll = "off" /\ call = "off" /\ listener = "open"
  /\ wire \in IF sub = "off" THEN {[c \in Conns |-> << >>]} ELSE Streams
  /\ reader = [c \in Conns |-> "none"] /\ taken = [c \in Conns |-> 0] /\ lineCh = [c \in Conns |-> 0]
  /\ failure = [c \in Conns |-> "none"] /\ errCh = [c \in Conns |-> FALSE]
  /\ conn = 0 /\ name = NoName /\ data = << >>
  /\ outcome = "none" /\ out = << >> /\ received = << >>
  /\ flow \in IF poll = "off" THEN {"device"} ELSE Flow
  /\ first \in Intervals /\ interval = FirstInterval(first)
  /\ fails = 0 /\ answers = << >> /\ result = "none"
  /\ IF call = "off" THEN kind = "plain" /\ asked = "other" /\ exists = TRUE
     ELSE kind \in Kind /\ asked \in Gateway /\ exists \in BOOLEAN
  /\ at = asked /\ ran = << >> /\ response = NoResponse /\ told = "none"
  /\ said = << >> /\ emitted = << >>
  /\ handler = [k \in Callback |-> "none"] /\ reply = [k \in Callback |-> "none"]
  /\ delivered = FALSE /\ resultCh = << >> /\ got = NoCallback
  /\ wait = IF listener = "open" THEN "waiting" ELSE "off"

Cancel ==
  /\ ~cancelled /\ cancelled' = TRUE
  /\ UNCHANGED <<eventVars, pollVars, requestCallVars, loopbackVars>>

EventsCall(step) == step /\ UNCHANGED <<pollVars, requestCallVars, loopbackVars>>
PollCall(step) == step /\ UNCHANGED <<cancelled, eventVars, requestCallVars, loopbackVars>>
RequestCall(step) == step /\ UNCHANGED <<cancelled, eventVars, pollVars, loopbackVars>>
LoopbackCall(step) == step /\ UNCHANGED <<cancelled, eventVars, pollVars, requestCallVars>>

\* The goroutines of the other calls.  A caller makes one call, and only a listener's
\* has goroutines beside it, each with a few steps to take: fairness to all of them
\* together is fairness to each.
OtherStep ==
  \/ PollCall(PollStep) \/ RequestCall(DiagStep)
  \/ LoopbackCall(Wait) \/ \E k \in Callback : LoopbackCall(HandlerStep(k))

CallsNext ==
  \/ Cancel
  \/ EventsCall(SubscriptionStep) \/ EventsCall(SubscriberTakes)
  \/ \E c \in Conns : EventsCall(ReaderStep(c))
  \/ OtherStep
  \/ LoopbackCall(Close) \/ \E k \in Callback : LoopbackCall(Arrive(k))

\* Goroutines are scheduled, timers fire and a request of the HTTP client ends
\* within its 30 seconds.  A connection that is open may stay silent, a
\* gateway may leave the events request unanswered (no time-out is set on it),
\* the subscriber may never read, and no callback need arrive.
Fairness ==
  /\ WF_callVars((sub = "dial" => cancelled) /\ EventsCall(SubscriptionStep))
  /\ \A c \in Conns :
       WF_callVars((reader[c] = "read" /\ Parsing(c) => cancelled) /\ EventsCall(ReaderStep(c)))
  /\ WF_callVars(OtherStep)

CallsSpec == CallsInit /\ [][CallsNext]_callVars /\ Fairness

-----------------------------------------------------------------------------
(* Properties.                                                             *)

AllEnded ==
  /\ sub \in {"off", "closed"} /\ \A c \in Conns : reader[c] \in {"none", "gone"}
  /\ poll \in {"off", "done"}
  /\ call \in {"off", "ended"}
  /\ wait # "waiting"

\* A reader whose connection is over, which nobody may leave parked on a channel.
LeftBehind(c) == reader[c] \notin {"none", "gone"} /\ ~Parsing(c)

\* A cancelled call returns, whatever it waits for and whoever holds it up:
\* a subscriber who no longer reads, a silent connection, a gateway that does
\* not answer, a browser that never comes.  Its goroutines end with it, and a
\* reader with its connection, cancelled or not.  A call of one request returns
\* uncancelled too: its time is limited.
EveryCallEnds ==
  /\ cancelled \/ call # "off" ~> AllEnded
  /\ (\E c \in Conns : LeftBehind(c)) ~> \A c \in Conns : ~LeftBehind(c)
=============================================================================
