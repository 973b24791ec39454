---------------------------- MODULE ClaudeGuard ----------------------------
(***************************************************************************)
(* The guard on a streamed Claude answer (sanitizer/claude_guard.go): it   *)
(* lets events through as they come, delays those with which a flood may   *)
(* be forming, and drops a block's text once the flood is certain.         *)
(*                                                                         *)
(* The guard is one record, changed by the calls of consume in the order   *)
(* the code makes them.  Events are SSERestorer's; a text delta is a       *)
(* content_block_delta with a "text" part.  Sizes are counted in           *)
(* characters of text and, for what is held, in events.                    *)
(***************************************************************************)
EXTENDS Flood

CONSTANTS
  MaxBlockText,  \* maxClaudeGuardBlockText
  MaxHeld        \* maxClaudeGuardHeldBytes

ASSUME GuardAssumption == MaxBlockText \in Nat /\ MaxHeld \in Nat

VARIABLE guard

GuardInBounds ==
  /\ Len(guard.text) <= MaxBlockText /\ Len(guard.held) <= MaxHeld
  /\ guard.polluted => guard.held = << >>

\* newClaudeGuardStream.  ready is the code's pending: what the next Read returns.
NewGuard == [held |-> << >>, text |-> << >>, guarding |-> TRUE, polluted |-> FALSE, ready |-> << >>]

-----------------------------------------------------------------------------

\* claudeSSEEventText.
IsText(e) == e.type = "content_block_delta" /\ \E k \in 1..Len(e.parts) : e.parts[k].kind = "text"
TextOf(e) == e.parts[1].text
TypeSeen(e) == IF e.type = "plain" THEN "" ELSE e.type

Pass(g, e) == [g EXCEPT !.ready = Append(@, e)]

\* Faulty: what is held goes on without a last look.
FaultyFlushHeld(g) == [g EXCEPT !.ready = @ \o g.held, !.held = << >>]

\* flushHeld: the last look at the block's whole text before what is held goes on.
FlushHeld(g) ==
  IF g.held # << >> /\ ~g.polluted /\ Strong(StripCode(g.text))
  THEN [g EXCEPT !.polluted = TRUE, !.held = << >>]
  ELSE [g EXCEPT !.ready = @ \o g.held, !.held = << >>]

\* hold.
Hold(g, e) ==
  IF Len(g.held) + 1 > MaxHeld THEN Pass([FlushHeld(g) EXCEPT !.guarding = FALSE], e)
                               ELSE [g EXCEPT !.held = Append(@, e)]

\* The start or the end of a block.
Boundary(g, type) ==
  CASE type = "content_block_start" ->
         [FlushHeld(g) EXCEPT !.text = << >>, !.guarding = TRUE, !.polluted = FALSE]
    [] type = "content_block_stop" ->
         [(IF g.polluted THEN g ELSE FlushHeld(g)) EXCEPT
            !.held = << >>, !.text = << >>, !.guarding = FALSE, !.polluted = FALSE]
    [] OTHER -> g

\* An event that is no text of a guarded block.
ConsumeOther(g, e) ==
  IF g.held # << >> /\ TypeSeen(e) \in {"", "ping"} THEN Hold(g, e)
  ELSE Pass(IF g.polluted THEN g ELSE FlushHeld(g), e)

\* A flood for certain, as the stream shows it: the last line, if not ended, does
\* not count as a line; its words do.
Certain(full) == DominatesTail(WholeLines(full), 3) \/ HasRun(full, 5) \/ Leaked(full)

Forming(full) == RepeatedStandaloneLine(WholeLines(full), 2) \/ EndsInRun(full, 2)

ConsumeText(g, e) ==
  LET grown == [g EXCEPT !.text = @ \o TextOf(e)]
      full == StripCode(grown.text)
      lifted == FlushHeld(grown)
  IN  IF g.polluted THEN g
      ELSE IF Len(grown.text) > MaxBlockText
           THEN Pass([FlushHeld(g) EXCEPT !.guarding = FALSE], e)
      ELSE IF Certain(full) THEN [grown EXCEPT !.held = << >>, !.polluted = TRUE]
      ELSE IF Forming(full) THEN Hold(grown, e)
      ELSE IF lifted.polluted THEN lifted
      ELSE Pass(lifted, e)

\* consume.
Consume(g, e) ==
  LET b == Boundary(g, TypeSeen(e))
  IN  IF IsText(e) /\ b.guarding THEN ConsumeText(b, e) ELSE ConsumeOther(b, e)

\* Faulty: what is held when the stream ends is lost.
FaultyAtEnd(g) == g

\* Read at the end of the stream, when there is nothing left to return.
AtEnd(g) == IF g.held # << >> /\ ~g.polluted THEN FlushHeld(g) ELSE g

=============================================================================
