------------------------------- MODULE Flood -------------------------------
(***************************************************************************)
(* The shapes claude_guard.go takes for a degenerated answer: one word     *)
(* alone on line after line, one word over and over, leaked tool markup.   *)
(* A text is a sequence of characters in which Fence stands for ``` at the *)
(* start of a line, Tick for an inline code mark and Markup for the tool   *)
(* call frame (or the retry message) that is searched for as it stands.    *)
(* ~~~ fences and indented code, dropped the same way, and letter case,    *)
(* folded before words are compared, are left out.                         *)
(***************************************************************************)
EXTENDS Texts

CONSTANTS
  Letter,   \* the characters that make a word
  Punct,    \* those trimmed off a word
  Space, Newline, Fence, Tick, Markup,
  MaxWord   \* the longest flood token; the code has 16

ASSUME FloodAssumption == MaxWord \in Nat \ {0}

\* The pieces of s between the characters of Seps, the empty ones included.
SplitAtAny(s, Seps) ==
  LET cut == Ordered({0, Len(s) + 1} \cup {i \in 1..Len(s) : s[i] \in Seps})
  IN  [n \in 1..Len(cut) - 1 |-> SubSeq(s, cut[n] + 1, cut[n + 1] - 1)]

\* s without the characters of Cutset at its ends.
Trim(s, Cutset) ==
  LET solid == {i \in 1..Len(s) : s[i] \notin Cutset}
  IN  IF solid = {} THEN << >>
      ELSE SubSeq(s, Least(solid), Greatest(solid))

\* strings.Fields, each trimmed of punctuation.
Words(s) ==
  LET split == SplitAtAny(s, {Space, Newline})
      fields == AtPositions(split, {i \in 1..Len(split) : split[i] # << >>})
  IN  [i \in 1..Len(fields) |-> Trim(fields[i], Punct)]

\* The lines, each without the space around it.
Lines(s) ==
  LET raw == SplitAtAny(s, {Newline}) IN [i \in 1..Len(raw) |-> Trim(raw[i], {Space})]

\* claudeFloodToken: word-sized and letter-bearing.
FloodToken(w) == Len(w) \in 1..MaxWord /\ \E i \in 1..Len(w) : w[i] \in Letter

\* Does the text hold one flood token n times in a row (LongestTokenRun >= n)?
HasRun(s, n) ==
  LET w == Words(s)
  IN  \E i \in 1..Len(w) : /\ i + n - 1 <= Len(w)
                           /\ FloodToken(w[i])
                           /\ \A j \in i..i + n - 1 : w[j] = w[i]

\* Does it end in one (trailingTokenRun >= n)?
EndsInRun(s, n) ==
  LET w == Words(s)
  IN  /\ Len(w) >= n
      /\ FloodToken(w[Len(w)])
      /\ \A j \in Len(w) - n + 1..Len(w) : w[j] = w[Len(w)]

Standalone(line) == FloodToken(line) /\ \A i \in 1..Len(line) : line[i] # Space

Repeats(lines, w) == Cardinality({i \in 1..Len(lines) : lines[i] = w})

\* RepeatedStandaloneLine.
RepeatedStandaloneLine(s, n) ==
  LET lines == Lines(s)
  IN  \E i \in 1..Len(lines) : Standalone(lines[i]) /\ Repeats(lines, lines[i]) >= n

\* repeatedStandaloneLineDominatesTail: a token on n lines, from whose first one on
\* lines of repeating tokens are more than two thirds of those not blank.
DominatesTail(s, n) ==
  LET lines == Lines(s)
      repeating == {i \in 1..Len(lines) : Standalone(lines[i]) /\ Repeats(lines, lines[i]) >= 2}
      filled == {i \in 1..Len(lines) : lines[i] # << >>}
  IN  \E f \in repeating :
        /\ Repeats(lines, lines[f]) >= n
        /\ \A i \in 1..f - 1 : lines[i] # lines[f]
        /\ 3 * Cardinality({i \in repeating : i >= f}) > 2 * Cardinality({i \in filled : i >= f})

\* A line without the spans between two marks.
WithoutSpans(line) ==
  LET ticks == {i \in 1..Len(line) : line[i] = Tick}
      before(i) == Cardinality({t \in ticks : t < i})
      all == Cardinality(ticks)
      inSpan(i) == IF i \in ticks THEN before(i) < 2 * (all \div 2)
                                  ELSE before(i) % 2 = 1 /\ before(i) < all
  IN  AtPositions(line, {i \in 1..Len(line) : ~inSpan(i)})

\* stripClaudeGuardMarkdownCode: without fenced blocks, their fences and inline code.
StripCode(s) ==
  LET raw == SplitAtAny(s, {Newline})
      fences == {i \in 1..Len(raw) : Trim(raw[i], {Space}) # << >> /\ Trim(raw[i], {Space})[1] = Fence}
      kept(i) == i \notin fences /\ Cardinality({f \in fences : f < i}) % 2 = 0
      lines == AtPositions(raw, {i \in 1..Len(raw) : kept(i)})
  IN  Joined([n \in 1..Len(lines) |-> (IF n = 1 THEN << >> ELSE <<Newline>>) \o WithoutSpans(lines[n])])

Leaked(s) == \E i \in 1..Len(s) : s[i] = Markup

\* claudeTextHasStrongPollution, of a text already stripped.
Strong(s) == DominatesTail(s, 3) \/ HasRun(s, 5) \/ Leaked(s)

\* lineView: without an unterminated last line.
WholeLines(s) ==
  LET ends == {i \in 1..Len(s) : s[i] = Newline}
  IN  IF ends = {} THEN << >> ELSE SubSeq(s, 1, Greatest(ends))

=============================================================================
