---------------------------- MODULE EventStream ----------------------------
(***************************************************************************)
(* api.SubscribeEvents (api/events.go): the subscription goroutine with    *)
(* its reconnect loop, parseSSE, which it runs on each connection, and the *)
(* reader goroutine each parseSSE starts.  Reader and parser talk through  *)
(* lineCh and errCh, both of capacity one; the subscriber reads out.       *)
(*                                                                         *)
(* The lines a connection would carry are settled before it; when they     *)
(* arrive, and when it breaks off, is not.  A data line has the number of  *)
(* its connection, so that an event shows where each part of it came from. *)
(* Durations are left out: a timer that is set may fire at any moment.     *)
(***************************************************************************)
EXTENDS CallContext, Texts, Naturals, Sequences, SequencesExt

CONSTANTS
  Type,       \* event types, "heartbeat" and "hello" among them
  MaxConns,   \* bound on the connections the gateway accepts
  Streams,    \* the lines each of them may carry
  OutCap,     \* capacity of the channel to the subscriber (8 in the code)
  MaxData,    \* maxEventBytes, in data lines
  NoName      \* the empty eventName

ASSUME EventStreamAssumption ==
  /\ {"heartbeat", "hello"} \subseteq Type /\ NoName \notin Type
  /\ {MaxConns, OutCap, MaxData} \subseteq Nat \ {0}

Conns == 1..MaxConns
Line == [kind: {"event"}, arg: Type] \cup [kind: {"data"}, arg: Conns]
          \cup [kind: {"blank", "comment"}, arg: {NoName}]
\* The data lines of a stream have the number of their connection.
Numbered(stream) == \A c \in Conns : \A n \in DOMAIN stream[c] : stream[c][n].kind = "data" => stream[c][n].arg = c
ASSUME StreamsAssumption == Streams \subseteq [Conns -> Seq(Line)] /\ \A stream \in Streams : Numbered(stream)
Event == [type: Type, data: Seq(Conns)]

VARIABLES
  wire,      \* the lines of each connection
  reader,    \* each connection's reader goroutine: "none", "read", "line", "error", "gone"
  taken,     \* how many lines it has read; "line" and "error" are what it holds
  lineCh,    \* the line in each lineCh, by its number; 0 if empty
  failure,   \* how its body ended, for the reader: "none", "eof" or "error"
  errCh,     \* has that been sent to errCh?
  sub,       \* the subscription: "off", "dial", "parse", "send", "backoff", "closed"
  conn,      \* its connection, by number
  name, data,  \* parseSSE's eventName and dataLines
  outcome,   \* what the last connection ended with
  out,       \* the channel to the subscriber
  received   \* what the subscriber has read from it

readerVars == <<reader, taken, lineCh, failure, errCh>>
parserVars == <<name, data>>
eventVars == <<wire, readerVars, sub, conn, parserVars, outcome, out, received>>

EventsTypeOK ==
  /\ wire \in [Conns -> Seq(Line)]
  /\ reader \in [Conns -> {"none", "read", "line", "error", "gone"}]
  /\ \A c \in Conns : taken[c] \in 0..Len(wire[c]) /\ lineCh[c] \in 0..taken[c]
  /\ failure \in [Conns -> {"none", "eof", "error"}] /\ errCh \in [Conns -> BOOLEAN]
  /\ sub \in {"off", "dial", "parse", "send", "backoff", "closed"}
  /\ conn \in 0..MaxConns
  /\ name \in Type \cup {NoName} /\ data \in Seq(Conns) /\ Len(data) <= MaxData
  /\ outcome \in {"none", "nil", "eof", "error", "unauthorized"}
  /\ out \in Seq(Event) /\ Len(out) <= OutCap
  /\ received \in Seq(Event)

\* parseSSE is running on c; done is closed, and the body, when it returns.
Parsing(c) == c = conn /\ sub \in {"parse", "send"}

SubscriberTakes ==
  /\ out # << >>
  /\ received' = Append(received, Head(out)) /\ out' = Tail(out)
  /\ UNCHANGED <<cancelled, wire, readerVars, sub, conn, parserVars, outcome>>

-----------------------------------------------------------------------------
(* The reader goroutine of connection c.                                   *)

\* A closed body may still have whole lines in the reader's buffer.
ReaderReads(c) ==
  /\ reader[c] = "read" /\ taken[c] < Len(wire[c])
  /\ taken' = [taken EXCEPT ![c] = @ + 1]
  /\ reader' = [reader EXCEPT ![c] = "line"]
  /\ UNCHANGED <<lineCh, failure, errCh>>

\* The end of the body: the gateway's, at any moment, or the close of it by
\* parseSSE's caller or the context.
ReaderFails(c, how) ==
  /\ reader[c] = "read"
  /\ ~Parsing(c) \/ cancelled => how = "error"
  /\ reader' = [reader EXCEPT ![c] = "error"]
  /\ failure' = [failure EXCEPT ![c] = how]
  /\ UNCHANGED <<taken, lineCh, errCh>>

ReaderSends(c) ==
  \/ /\ reader[c] = "line" /\ lineCh[c] = 0
     /\ lineCh' = [lineCh EXCEPT ![c] = taken[c]]
     /\ reader' = [reader EXCEPT ![c] = "read"]
     /\ UNCHANGED <<taken, failure, errCh>>
  \/ /\ reader[c] = "error" /\ ~errCh[c]
     /\ errCh' = [errCh EXCEPT ![c] = TRUE]
     /\ reader' = [reader EXCEPT ![c] = "gone"]
     /\ UNCHANGED <<taken, lineCh, failure>>

\* done is closed.
ReaderLeaves(c) ==
  /\ reader[c] \in {"line", "error"} /\ ~Parsing(c)
  /\ reader' = [reader EXCEPT ![c] = "gone"]
  /\ UNCHANGED <<taken, lineCh, failure, errCh>>

ReaderStep(c) ==
  /\ \/ ReaderReads(c) \/ (\E how \in {"eof", "error"} : ReaderFails(c, how))
     \/ ReaderSends(c) \/ ReaderLeaves(c)
  /\ UNCHANGED <<cancelled, wire, sub, conn, parserVars, outcome, out, received>>

-----------------------------------------------------------------------------
(* The subscription goroutine.                                             *)

\* A new connection takes up what the last one left of an event.
FaultyConnect ==
  /\ sub = "dial" /\ ~cancelled /\ conn < MaxConns
  /\ conn' = conn + 1 /\ sub' = "parse" /\ outcome' = "none"
  /\ reader' = [reader EXCEPT ![conn + 1] = "read"]
  /\ UNCHANGED <<cancelled, wire, taken, lineCh, failure, errCh, name, data, out, received>>

\* streamEvents gets its 200 and calls parseSSE.
Connect ==
  /\ sub = "dial" /\ ~cancelled /\ conn < MaxConns
  /\ conn' = conn + 1 /\ sub' = "parse" /\ outcome' = "none"
  /\ reader' = [reader EXCEPT ![conn + 1] = "read"]
  /\ name' = NoName /\ data' = << >>
  /\ UNCHANGED <<cancelled, wire, taken, lineCh, failure, errCh, out, received>>

\* streamEvents returned: the loop ends on a cancelled context or a 401.
Return(result) ==
  /\ outcome' = result
  /\ sub' = IF cancelled \/ result = "unauthorized" THEN "closed" ELSE "backoff"
  /\ UNCHANGED <<cancelled, wire, readerVars, conn, parserVars, out, received>>

Refused(result) ==
  /\ sub = "dial" /\ result \in {"error", "unauthorized"}
  /\ Return(result)

\* The ways out of parseSSE's select: the context, which also ends a send, the
\* idle timer, which a slow subscriber does not stop, and the reader's error.
Leave ==
  \/ sub \in {"parse", "send"} /\ cancelled /\ Return("nil")
  \/ sub = "parse" /\ Return("error")
  \/ sub = "parse" /\ errCh[conn] /\ Return(failure[conn])

Surfaces(event) == event.data # << >> /\ event.type \notin {NoName, "heartbeat", "hello"}

\* The blank line ends an event nobody is to see.
Skips == ~Surfaces([type |-> name, data |-> data])

TakeLine ==
  LET line == wire[conn][lineCh[conn]]
  IN  /\ sub = "parse" /\ lineCh[conn] # 0
      /\ lineCh' = [lineCh EXCEPT ![conn] = 0]
      /\ \/ /\ line.kind = "blank" /\ Skips
            /\ name' = NoName /\ data' = << >>
            /\ UNCHANGED <<sub, outcome>>
         \/ /\ line.kind = "blank" /\ ~Skips
            /\ sub' = "send" /\ UNCHANGED <<name, data, outcome>>
         \/ line.kind = "event" /\ name' = line.arg /\ UNCHANGED <<data, sub, outcome>>
         \/ /\ line.kind = "data" /\ Len(data) < MaxData
            /\ data' = Append(data, line.arg) /\ UNCHANGED <<name, sub, outcome>>
         \/ /\ line.kind = "data" /\ Len(data) = MaxData
            /\ outcome' = "error" /\ sub' = IF cancelled THEN "closed" ELSE "backoff"
            /\ UNCHANGED <<name, data>>
         \/ line.kind = "comment" /\ UNCHANGED <<name, data, sub, outcome>>
      /\ UNCHANGED <<cancelled, wire, reader, taken, failure, errCh, conn, out, received>>

\* out <- ev, once there is room.
Send ==
  /\ sub = "send" /\ Len(out) < OutCap
  /\ out' = Append(out, [type |-> name, data |-> data])
  /\ sub' = "parse" /\ name' = NoName /\ data' = << >>
  /\ UNCHANGED <<cancelled, wire, readerVars, conn, outcome, received>>

\* The pause between two connections; the context cuts it short.
Retry ==
  /\ sub = "backoff"
  /\ sub' \in IF cancelled THEN {"dial", "closed"} ELSE {"dial"}
  /\ UNCHANGED <<cancelled, wire, readerVars, conn, parserVars, outcome, out, received>>

SubscriptionStep ==
  \/ Connect \/ (\E result \in {"error", "unauthorized"} : Refused(result))
  \/ Leave \/ TakeLine \/ Send \/ Retry

-----------------------------------------------------------------------------
(* What a connection's lines mean, read off them as a whole.               *)

\* The lines of one kind before b with no blank line between.
Part(lines, b, what) ==
  {i \in 1..(b - 1) : lines[i].kind = what /\ \A j \in i..(b - 1) : lines[j].kind # "blank"}

\* The event that a blank line at b ends.
EventAt(lines, b) ==
  LET args  == [i \in DOMAIN lines |-> lines[i].arg]
      names == Part(lines, b, "event")
  IN  [type |-> IF names = {} THEN NoName ELSE args[Greatest(names)],
       data |-> AtPositions(args, Part(lines, b, "data"))]

\* The events that the first k lines complete, those that nobody is to see left out.
Completes(lines, b) == lines[b].kind = "blank" /\ Surfaces(EventAt(lines, b))
EventsIn(lines, k) == AtPositions([b \in 1..k |-> EventAt(lines, b)], {b \in 1..k : Completes(lines, b)})

\* What has surfaced so far, and what of it from c.
Surfaced == received \o out
SurfacedOf(c) == AtPositions(Surfaced, {n \in DOMAIN Surfaced : Surfaced[n].data[1] = c})

-----------------------------------------------------------------------------
(* Properties.                                                             *)

\* What reaches the subscriber is, connection after connection, a beginning of
\* the events the gateway completed on it: none lost in the middle, repeated or
\* out of order, and none put together of parts of two events or connections.
EventsInOrder ==
  /\ \A c \in Conns : IsPrefix(SurfacedOf(c), EventsIn(wire[c], taken[c]))
  /\ \A m, n \in 1..Len(Surfaced) : m < n => Surfaced[m].data[1] <= Surfaced[n].data[1]

\* events_test.go: an event that is complete when the stream ends cleanly is
\* delivered.
CompleteEventsArrive ==
  sub = "backoff" /\ outcome = "eof" => SurfacedOf(conn) = EventsIn(wire[conn], taken[conn])
=============================================================================
