------------------------------- MODULE Detect -------------------------------
(***************************************************************************)
(* Finding and replacing secrets in one string of a request                *)
(* (sanitizer/detector.go).                                                *)
(*                                                                         *)
(* A text is a sequence of characters and placeholders.  A regular         *)
(* expression is the set of the character sequences it matches, of any     *)
(* characters, blanks among them; greedy, it takes the longest that fits.  *)
(* A lazy one is the set of its shortest matches.  What an expression asks *)
(* of the text around a match (\b) is left out.                            *)
(***************************************************************************)
EXTENDS Texts, SequencesExt

CONSTANTS
  Char,      \* characters
  BuiltIn,   \* detectors in order of registration: a name, the words it matches,
             \* those that pass its checksum, and whether it is a numeric one
  OptIn,     \* the ones that are off unless the user wants them
  FileConfig \* the user's sanitizer.json: names disabled, names enabled, and
             \* patterns, which may not compile

CompileUserPatterns(patterns) == SelectSeq(patterns, LAMBDA p : p.compiles)

\* BuildDetectors
Detectors ==
  SelectSeq(BuiltIn, LAMBDA d : d.name \notin FileConfig.disabled)
  \o SelectSeq(OptIn, LAMBDA d : d.name \in FileConfig.enabled \ FileConfig.disabled)
  \o CompileUserPatterns(FileConfig.custom)

ASSUME DetectorsAssumption ==
  /\ Len(Detectors) \in Nat
  /\ \A d \in 1..Len(Detectors) :
       /\ Detectors[d].words \subseteq Seq(Char) \ {<< >>}
       /\ Detectors[d].valid \subseteq Detectors[d].words
       /\ Detectors[d].numeric \in BOOLEAN

\* deriveToken: the placeholder of a secret under an install key.
Placeholder(key, secret) == [key |-> key, secret |-> secret]

IsPlaceholder(atom) == atom \notin Char

\* nonNumericDetectors, unless numeric ones are welcome.
Applicable(numericOK) == {d \in 1..Len(Detectors) : numericOK \/ ~Detectors[d].numeric}

Span(text, m) == SubSeq(text, m.start, m.end - 1)

\* How much of the text from i on a detector's expression takes.
Longest(text, d, i) ==
  Max({n \in 1..(Len(text) + 1 - i) : SubSeq(text, i, i + n - 1) \in Detectors[d].words} \cup {0})

\* FindAllStringIndex from each position on: a hit consumes the text whether or not
\* it passes the checksum; end is exclusive.
Hits(text, d) ==
  LET hits[i \in 1..(Len(text) + 1)] ==
        IF i > Len(text) THEN {}
        ELSE LET n == Longest(text, d, i)
             IN  IF n = 0 THEN hits[i + 1]
                 ELSE {[start |-> i, end |-> i + n, by |-> d]} \cup hits[i + n]
  IN  hits

Find(text, d) == {m \in Hits(text, d)[1] : Span(text, m) \in Detectors[d].valid}

\* Longest first, then from the left, then by registration.
Before(m, n) ==
  LET longer(a, b) == a.end - a.start > b.end - b.start
  IN  \/ longer(m, n)
      \/ ~longer(n, m) /\ m.start < n.start
      \/ ~longer(n, m) /\ m.start = n.start /\ m.by < n.by

Overlap(m, n) == m.start < n.end /\ n.start < m.end

\* The matches that overlap none of those kept, and the first of some in the order.
Free(all, kept) == {m \in all : \A k \in kept : ~Overlap(m, k)}
Best(matches) == CHOOSE m \in matches : \A n \in matches \ {m} : Before(m, n)

\* What is kept of the matches after each number of rounds.
KeptUpTo(all) ==
  LET kept[n \in 0..Cardinality(all)] ==
        IF n = 0 THEN {}
        ELSE LET free == Free(all, kept[n - 1])
             IN  IF free = {} THEN kept[n - 1] ELSE kept[n - 1] \cup {Best(free)}
  IN  kept

Scan(text, detectors) ==
  LET all == UNION {Find(text, d) : d \in detectors} IN KeptUpTo(all)[Cardinality(all)]

\* The text from each position on with its matches replaced.
ReplacedFrom(key, text, matches) ==
  LET from[i \in 1..(Len(text) + 1)] ==
        IF i > Len(text) THEN << >>
        ELSE IF \E m \in matches : m.start = i
             THEN LET m == CHOOSE x \in matches : x.start = i
                  IN  <<Placeholder(key, Span(text, m))>> \o from[m.end]
             ELSE <<text[i]>> \o from[i + 1]
  IN  from

ReplaceWith(key, text, matches) == ReplacedFrom(key, text, matches)[1]

ScanAndReplaceText(key, text, numericOK) ==
  ReplaceWith(key, text, Scan(text, Applicable(numericOK)))
=============================================================================
