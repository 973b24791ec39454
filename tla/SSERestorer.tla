---------------------------- MODULE SSERestorer ----------------------------
(***************************************************************************)
(* The restorer of a streamed response (sanitizer/sse.go), between the     *)
(* events an upstream sends and those the client receives.                 *)
(*                                                                         *)
(* An event is the decoded form of one SSE frame.  Its parts stand, in     *)
(* order, for what the three wire shapes hold: display text ("text" and    *)
(* "thinking", each with the slot its tail is carried under: the block,    *)
(* the choice, or the candidate and part) and everything else that is      *)
(* delivered once only ("sink": tool arguments, a finish reason, usage,    *)
(* metadata).  A "plain" event's data is no JSON object.  What a synthetic *)
(* event was stripped of is "gone".                                        *)
(* Bytes are framed into events before this module: a frame the stream     *)
(* never completes, or above maxFrameBytes, is forwarded as it is and not  *)
(* modelled.                                                               *)
(***************************************************************************)
EXTENDS Placeholders, Integers

CONSTANT Slot  \* the indices of blocks, choices or parts
ASSUME SlotAssumption == Slot \subseteq Int

Part == [idx: Slot, kind: {"text", "thinking", "sink", "gone"}, text: Text]

Event ==
  [type: {"content_block_start", "content_block_delta", "content_block_stop", "message_delta",
          "ping", "plain", ""},
   index: Slot, parts: Seq(Part), raw: Text, at: Nat]

VARIABLES
  pending,  \* the tail held back in each slot that holds one
  tmpl,     \* for each of them, the event that will deliver it and the part it goes into
  taken,    \* the events processed so far
  out       \* the events written to the client so far

restorerVars == <<pending, tmpl, taken, out>>

Template == [event: Event, own: Nat \ {0}]

RestorerTypeOK ==
  /\ DOMAIN pending \subseteq Slot /\ \A i \in DOMAIN pending : pending[i] \in Text \ {<< >>}
  /\ DOMAIN tmpl \subseteq Slot /\ \A i \in DOMAIN tmpl : tmpl[i] \in Template
  /\ taken \in Seq(Event)
  /\ out \in Seq(Event)

-----------------------------------------------------------------------------
(* What an event holds.                                                    *)

\* displaySlots: the parts whose text a person reads.
Displayed(e) == {k \in 1..Len(e.parts) : e.parts[k].kind \in {"text", "thinking"}}

\* Of two display parts of one slot, the first carries the slot's tail.
Claims(e, k) ==
  k \in Displayed(e) /\ \A j \in Displayed(e) : j < k => e.parts[j].idx # e.parts[k].idx

\* Faulty: only the display parts are blanked.
FaultyKeepSinks(e) ==
  [e EXCEPT !.parts = [k \in 1..Len(e.parts) |->
     IF k \in Displayed(e) THEN [e.parts[k] EXCEPT !.text = << >>] ELSE e.parts[k]]]

\* reduceToDisplayPayload, after the display parts were blanked: nothing is left
\* that the client already has.
Blank(e) ==
  [e EXCEPT !.parts = [k \in 1..Len(e.parts) |->
     IF k \in Displayed(e) THEN [e.parts[k] EXCEPT !.text = << >>]
                           ELSE [e.parts[k] EXCEPT !.text = << >>, !.kind = "gone"]]]

\* saveTemplate.
SaveTemplate(e, k) == [event |-> Blank(e), own |-> k]

-----------------------------------------------------------------------------
(* Flushing.                                                               *)

\* flushBlock: the synthetic event for a held tail.
FlushEvent(i) == [tmpl[i].event EXCEPT !.parts[tmpl[i].own].text = pending[i]]

Without(f, S) == [i \in DOMAIN f \ S |-> f[i]]

\* flushAll: the held tails in the order of their slots.
FlushAll ==
  LET order == Ordered(DOMAIN pending) IN [n \in 1..Len(order) |-> FlushEvent(order[n])]

-----------------------------------------------------------------------------
(* processEvent.  (A tail longer than maxCarry would be sent on: none is.) *)

\* No JSON object: everything held goes first, and the data is restored as text.
TakePlain(e) ==
  /\ e.type = "plain"
  /\ out' = (out \o FlushAll) \o <<[e EXCEPT !.raw = RestoreInText(e.raw)]>>
  /\ pending' = << >>
  /\ tmpl' = << >>

\* Faulty: the end of a block passes before its tail.
FaultyStopFirst(e) ==
  /\ e.type = "content_block_stop"
  /\ out' = out \o (IF e.index \in DOMAIN pending THEN <<e, FlushEvent(e.index)>> ELSE <<e>>)
  /\ pending' = Without(pending, {e.index})
  /\ tmpl' = Without(tmpl, {e.index})

\* The end of a block: what it holds goes first.
TakeStop(e) ==
  /\ e.type = "content_block_stop"
  /\ out' = out \o (IF e.index \in DOMAIN pending THEN <<FlushEvent(e.index), e>> ELSE <<e>>)
  /\ pending' = Without(pending, {e.index})
  /\ tmpl' = Without(tmpl, {e.index})

\* A part's text behind what its slot held back, with the placeholders restored.
Combined(e, k) ==
  LET i == e.parts[k].idx
  IN  RestoreInText((IF i \in DOMAIN pending THEN pending[i] ELSE << >>) \o e.parts[k].text)

Cut(e, k) == PartialAtTail(Combined(e, k))
Carry(e, k) == SubSeq(Combined(e, k), Cut(e, k) + 1, Len(Combined(e, k)))

\* What the client gets in place of part k.
Shown(e, k) ==
  IF k \notin Displayed(e) THEN e.parts[k].text
  ELSE IF Claims(e, k) THEN SubSeq(Combined(e, k), 1, Cut(e, k))
  ELSE RestoreInText(e.parts[k].text)

\* Any other event: each slot's text is emitted up to where a placeholder may begin.
TakeDelta(e) ==
  LET claimed == {k \in 1..Len(e.parts) : Claims(e, k)}
      claimant(i) == CHOOSE k \in claimed : e.parts[k].idx = i
      held == {e.parts[k].idx : k \in {j \in claimed : Carry(e, j) # << >>}}
      rest == {e.parts[k].idx : k \in claimed}
  IN  /\ e.type \notin {"plain", "content_block_stop"}
      /\ out' = Append(out, [e EXCEPT !.parts =
                   [k \in 1..Len(e.parts) |-> [e.parts[k] EXCEPT !.text = Shown(e, k)]]])
      /\ pending' = [i \in (DOMAIN pending \ rest) \cup held |->
                       IF i \in held THEN Carry(e, claimant(i)) ELSE pending[i]]
      /\ tmpl' = [i \in (DOMAIN tmpl \ rest) \cup held |->
                    IF i \in held THEN SaveTemplate(e, claimant(i)) ELSE tmpl[i]]

\* Write, one event.
Take(e) ==
  /\ taken' = Append(taken, e)
  /\ TakePlain(e) \/ TakeStop(e) \/ TakeDelta(e)

\* Final, when the upstream has closed.
Final ==
  /\ out' = out \o FlushAll
  /\ pending' = << >>
  /\ tmpl' = << >>
  /\ UNCHANGED taken

RestorerInit ==
  /\ pending = << >>
  /\ tmpl = << >>
  /\ taken = << >>
  /\ out = << >>

=============================================================================
