--------------------------- MODULE ResponseStream ---------------------------
(***************************************************************************)
(* The way of a streamed response through handleProxy                      *)
(* (sanitizer/server.go): upstream, guard, restorer, client, each event    *)
(* taken by one stage before the next is read.                             *)
(***************************************************************************)
EXTENDS SSERestorer, ClaudeGuard

CONSTANTS
  Modes,      \* the settings to run: [guarded, restoring : BOOLEAN]
  Offers(_),  \* the events an upstream may send under each
  MaxEvents   \* bound on the length of a stream, for each

ASSUME StreamAssumption ==
  /\ Modes \subseteq [guarded: BOOLEAN, restoring: BOOLEAN]
  /\ \A m \in Modes : \A e \in Offers(m) :
       /\ e \in Event
       /\ IsText(e) => Len(e.parts) = 1
       /\ e.type = "plain" => e.parts = << >>

\* An upstream answers in one shape: choices or candidates, without blocks, or blocks,
\* whose text comes in deltas of their own (displaySlots).
ASSUME ShapeAssumption ==
  \A m \in Modes :
    \/ \A e \in Offers(m) : e.type \notin {"content_block_start", "content_block_stop"}
    \/ \A e \in Offers(m) : \A k \in Displayed(e) :
         e.type = "content_block_delta" /\ e.parts[k].idx = e.index

VARIABLES
  mode,      \* is the guard on, and are there detectors and so placeholders?
  phase,     \* of the handler's loop: "open", "ended" (read error or EOF), "done", "left"
  received   \* the events the upstream has sent, numbered

streamVars == <<restorerVars, guard, mode, phase, received>>

Guard == [held: Seq(Event), text: Text, guarding: BOOLEAN, polluted: BOOLEAN, ready: Seq(Event)]

StreamTypeOK ==
  /\ RestorerTypeOK
  /\ guard \in Guard /\ GuardInBounds
  /\ mode \in Modes
  /\ phase \in {"open", "ended", "done", "left"}
  /\ received \in Seq(Event)
  /\ mode.restoring \/ pending = << >>

-----------------------------------------------------------------------------
(* The upstream.  It sends a block's deltas and its end while that block is *)
(* open; a block may go without an end.                                     *)

InBlock ==
  LET marks == {n \in 1..Len(received) : received[n].type \in {"content_block_start", "content_block_stop"}}
  IN  IF marks = {} THEN {}
      ELSE LET last == received[Greatest(marks)]
           IN  IF last.type = "content_block_start" THEN {last.index} ELSE {}

Sends(e) ==
  /\ e \in Offers(mode)
  /\ Len(received) < MaxEvents[mode]
  /\ e.type \in {"content_block_delta", "content_block_stop"} => e.index \in InBlock

\* Read: the guard, if there is one, takes the next event.
Receive(e) ==
  LET numbered == [e EXCEPT !.at = Len(received) + 1]
  IN  /\ phase = "open" /\ guard.ready = << >>
      /\ Sends(e)
      /\ received' = Append(received, numbered)
      /\ guard' = IF mode.guarded THEN Consume(guard, numbered) ELSE Pass(guard, numbered)
      /\ UNCHANGED <<restorerVars, mode, phase>>

\* What Read returned goes through the restorer, event by event, to the client.
Restore ==
  /\ mode.restoring /\ phase \in {"open", "ended"} /\ guard.ready # << >>
  /\ Take(Head(guard.ready))
  /\ guard' = [guard EXCEPT !.ready = Tail(@)]
  /\ UNCHANGED <<mode, phase, received>>

\* Without detectors no placeholder was ever made: the stream is copied.
Copy ==
  /\ ~mode.restoring /\ phase \in {"open", "ended"} /\ guard.ready # << >>
  /\ taken' = Append(taken, Head(guard.ready))
  /\ out' = Append(out, Head(guard.ready))
  /\ guard' = [guard EXCEPT !.ready = Tail(@)]
  /\ UNCHANGED <<pending, tmpl, mode, phase, received>>

\* The upstream closes, or the connection to it breaks.
EndOfStream ==
  /\ phase = "open" /\ guard.ready = << >>
  /\ phase' = "ended"
  /\ guard' = AtEnd(guard)
  /\ UNCHANGED <<restorerVars, mode, received>>

Finish ==
  /\ phase = "ended" /\ guard.ready = << >>
  /\ phase' = "done"
  /\ Final
  /\ UNCHANGED <<guard, mode, received>>

\* The client is gone: the handler stops at its next write.
ClientLeaves ==
  /\ phase \in {"open", "ended"}
  /\ phase' = "left"
  /\ UNCHANGED <<restorerVars, guard, mode, received>>

StreamInit ==
  /\ RestorerInit
  /\ guard = NewGuard
  /\ mode \in Modes
  /\ phase = "open"
  /\ received = << >>

StreamNext ==
  \/ \E e \in Offers(mode) : Receive(e)
  \/ Restore \/ Copy \/ EndOfStream \/ Finish \/ ClientLeaves

StreamSpec == StreamInit /\ [][StreamNext]_streamVars

-----------------------------------------------------------------------------
(* What the restorer must do.                                              *)

\* The text of slot i in an event, if a part of it claims the slot.
SlotText(e, i) ==
  LET mine == {k \in 1..Len(e.parts) : Claims(e, k) /\ e.parts[k].idx = i}
  IN  IF mine = {} THEN << >> ELSE e.parts[Least(mine)].text

Delivered(i) == Joined([n \in 1..Len(out) |-> SlotText(out[n], i)])

\* The events that end what slot i may carry.
EndsCarry(e, i) == e.type = "plain" \/ (e.type = "content_block_stop" /\ e.index = i)

\* Of slot i after each of some events: the restored text up to the last of them that
\* ended it, and the text since.
Reading(events, i) ==
  LET upTo[n \in 0..Len(events)] ==
        IF n = 0 THEN [whole |-> << >>, open |-> << >>]
        ELSE LET open == upTo[n - 1].open \o SlotText(events[n], i)
             IN  IF EndsCarry(events[n], i)
                 THEN [whole |-> upTo[n - 1].whole \o RestoreInText(open), open |-> << >>]
                 ELSE [whole |-> upTo[n - 1].whole, open |-> open]
  IN  upTo

\* What a person should read in slot i: the restored whole of the text between two
\* such events, however it was cut into events.
ShouldRead(i) ==
  LET last == Reading(taken, i)[Len(taken)]
  IN  last.whole \o RestoreInText(last.open)

\* A slot's text at the client is the text of the upstream with its placeholders
\* restored, but for the tail held back; and no tail is held once the stream is
\* done.  (pending and tmpl carried by hand through processEvent, the flushes and
\* the templates: a lost, repeated or misplaced tail breaks it.)
TextIsRestoredWhole ==
  /\ mode.restoring =>
       \A i \in Slot : Delivered(i) \o (IF i \in DOMAIN pending THEN pending[i] ELSE << >>)
                         = ShouldRead(i)
  /\ phase = "done" => pending = << >>

\* Whatever may be flushed delivers the held tail of its own slot and nothing else:
\* no text, tool argument or metadata the client already has ("keeps the two in
\* lockstep"; the allowlist of reduceToDisplayPayload).
TemplatesAreBare ==
  /\ DOMAIN tmpl = DOMAIN pending
  /\ \A i \in DOMAIN tmpl :
       LET parts == tmpl[i].event.parts
           own == tmpl[i].own
       IN  /\ own \in 1..Len(parts) /\ parts[own].idx = i
           /\ \A k \in 1..Len(parts) : parts[k].text = << >> /\ parts[k].kind # "sink"

SinksOf(e) == AtPositions(e.parts, {k \in DOMAIN e.parts : e.parts[k].kind = "sink"})
Sinks(events) == Joined([n \in 1..Len(events) |-> SinksOf(events[n])])

\* Tool arguments, finish reasons and other parts nobody reads reach the client
\* once, in order and never restored, though events are replayed to deliver tails
\* (reduceToDisplayPayload).
SinksPassOnce == Sinks(out) = Sinks(taken)

\* Once a block's end is delivered, no text of it follows until it starts anew.
TailBeforeStop ==
  \A m, n \in 1..Len(out) :
    /\ m < n
    /\ out[m].type = "content_block_stop"
    /\ SlotText(out[n], out[m].index) # << >>
    => \E k \in m + 1..n - 1 : out[k].type = "content_block_start" /\ out[k].index = out[m].index

-----------------------------------------------------------------------------
(* What the guard must do.  A block is named by the number of the event     *)
(* that starts it; 0 before the first.                                      *)

BlockOf(n) ==
  Greatest({0} \cup {m \in 1..n : received[m].type \in {"content_block_start", "content_block_stop"}})

\* The text of block b in a sequence of numbered events.
BlockText(events, b) ==
  Joined([n \in 1..Len(events) |->
    IF IsText(events[n]) /\ BlockOf(events[n].at) = b THEN TextOf(events[n]) ELSE << >>])

Blocks == {BlockOf(n) : n \in 1..Len(received)}

Passed == taken \o guard.ready

\* Block b never met a bound of the guard.
WithinBounds(b) ==
  /\ Cardinality({n \in b + 1..Len(received) : BlockOf(n) = b}) <= MaxHeld
  /\ Len(BlockText(received, b)) <= MaxBlockText

\* What the guard lets through of a block's text is never itself a flood
\* ("lifting a hold can never leak a confirmed flood"), however the text is cut and
\* whatever ends the block.
FloodNeverLeaks ==
  mode.guarded =>
    \A b \in Blocks : WithinBounds(b) => ~Strong(StripCode(BlockText(Passed, b)))

\* The text of block b as it stood after event n, or with its open line left out,
\* is a flood.
FloodedAt(n, b) ==
  LET full == StripCode(BlockText(SubSeq(received, 1, n), b))
  IN  Strong(full) \/ Certain(full)

\* The guard delays, and keeps the order; what it drops is text (or a ping held
\* with it) of a block that at some point was a flood.
OnlyFloodIsDropped ==
  LET kept == Passed \o guard.held
      lost == {n \in 1..Len(received) : \A k \in 1..Len(kept) : kept[k].at # n}
  IN  /\ \A k \in 1..Len(kept) - 1 : kept[k].at < kept[k + 1].at
      /\ \A n \in lost : /\ IsText(received[n]) \/ TypeSeen(received[n]) \in {"", "ping"}
                         /\ \E m \in 1..Len(received) : FloodedAt(m, BlockOf(n))
      /\ phase = "done" => guard.held = << >>

\* A run may be met late but is never invented ("a partial word can only delay a
\* run match, never invent one"): a block that lost text though no line of it
\* repeated has five equal words in a row when it ends.
RunsAreReal ==
  \A n \in 1..Len(received) :
    LET b == BlockOf(n - 1)
        end == SubSeq(received, 1, n)
        whole == StripCode(BlockText(end, b))
    IN  /\ received[n].type = "content_block_stop"
        /\ \E m \in 1..n - 1 : /\ BlockOf(m) = b /\ IsText(received[m])
                               /\ \A k \in 1..Len(Passed) : Passed[k].at # m
        /\ ~Leaked(whole) /\ ~RepeatedStandaloneLine(whole, 3)
        => HasRun(whole, 5)
=============================================================================
