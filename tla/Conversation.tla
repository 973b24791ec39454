---------------------------- MODULE Conversation ----------------------------
(***************************************************************************)
(* A client that talks to a model through the sanitizer, with answers that *)
(* are not streamed.  Every request carries the whole history: the         *)
(* client's own words, and the answers as it received them.  handleProxy   *)
(* rewrites the request and restores the answer; whatever placeholder the  *)
(* upstream has seen it may quote.  Between two requests the proxy may be   *)
(* restarted: its table is gone, the install key is read from its file, or *)
(* made anew.  The table never evicts here (SanitizerProxy models that).   *)
(***************************************************************************)
EXTENDS Bodies

CONSTANTS
  Says,     \* what the client may say: [url, json, path, text, kind]
  Echoes,   \* where answers are, and where the next request repeats them:
            \* [protocol, from, to, kind]
  Letter,   \* the characters an upstream answers with
  MaxQuote, \* bound on the length of an answer
  MaxTurns, \* bound on the requests of a conversation
  MaxStarts \* bound on the restarts of the proxy

\* What a string is: words of a user or a model; tool arguments and results; or any
\* other: what no key of a protocol's text leads to, and binary payloads.
Kind == {"prose", "tool", "other"}

Secrets == UNION {Detectors[d].valid : d \in 1..Len(Detectors)}

\* No secret looks like the start of a data: URL.
ASSUME ConversationAssumption ==
  /\ Letter \subseteq Char \ {DataURL}
  /\ \A w \in Secrets : ~IsDataURL(w)
  /\ {MaxQuote, MaxTurns, MaxStarts} \subseteq Nat
  /\ \A k \in 0..(MaxStarts + 1), w \in Secrets \cup {<< >>} : IsPlaceholder(Placeholder(k, w))

\* Where the strings of each kind are: words of users and models, and tool strings,
\* under keys that are searched, the latter under those that tell of tools too; and
\* an answer's tool arguments, and nothing else of it, under keys that keep placeholders.
Searched(to, path) == Walk(to, path).inScope /\ ~Walk(to, path).skipped
InPlace(to, kind, path) == Searched(to, path) /\ (kind = "prose" <=> Walk(to, path).numericOK)

ASSUME PlacesAssumption ==
  /\ \A s \in Says :
       /\ s.kind \in Kind /\ s.json \in BOOLEAN /\ s.text \in Seq(Char)
       /\ s.json /\ PickProtocol(s.url) # "none" =>
            IF s.kind = "other" THEN ~Searched(PickProtocol(s.url), s.path) \/ IsDataURL(s.text)
            ELSE InPlace(PickProtocol(s.url), s.kind, s.path) /\ ~IsDataURL(s.text)
  /\ \A e \in Echoes :
       /\ e.kind = "tool" <=> {e.from[n].key : n \in 1..Len(e.from)} \cap RestoreForbiddenKeys # {}
       /\ e.kind \in {"prose", "tool"}
       /\ e.protocol # "none" => InPlace(e.protocol, e.kind, e.to)

VARIABLES
  protocol,   \* what the path of the requests says, or "none"
  json,       \* are their bodies JSON?
  history,    \* the client's strings: [path, text, kind, own], its own or repeated
  meant,      \* what the upstream was shown, or said, when each of them came up
  forwarded,  \* the strings of the last request as the upstream got them
  key,        \* the install key of the running proxy
  lost,       \* auxiliary: did the file of the install key fail a restart?
  starts,     \* restarts so far
  minted,     \* the placeholders in the table
  answer,     \* the answer: its form and its values, [path, text, kind, decodes, stray]
  received,   \* the values as the client got them
  pc,         \* "say", "answer" or "take"
  turns

processVars == <<key, lost, starts>>
convVars == <<protocol, json, history, meant, forwarded, minted, answer, received, pc, turns,
              processVars>>

NoAnswer == [form |-> "none", values |-> << >>]

Quoted(text) == {a \in ToSet(text) : IsPlaceholder(a)}
Seen == UNION {Quoted(forwarded[n].text) : n \in 1..Len(forwarded)}
KnownIn(text) == Quoted(text) \cap minted

\* The client extends its history and sends it whole; the table knows what the running
\* proxy made of it.
Say(s) ==
  LET whole == Append(history,
                      [path |-> s.path, text |-> s.text, kind |-> s.kind, own |-> TRUE])
      to    == PickProtocol(s.url)
      out   == RewriteRequest(key, to, s.json, whole)
  IN  /\ pc = "say" /\ turns < MaxTurns
      /\ turns > 0 => to = protocol /\ s.json = json
      /\ protocol' = to /\ json' = s.json
      /\ history' = whole /\ forwarded' = out
      /\ minted' = minted \cup {a \in UNION {Quoted(out[n].text) : n \in 1..Len(out)} : a.key = key}
      /\ meant' = Append(meant, Last(out).text)
      /\ pc' = "answer" /\ turns' = turns + 1
      /\ UNCHANGED <<answer, received, processVars>>

\* What an upstream writes: letters, placeholders it has seen and one it made up.
Made == Placeholder(0, << >>)
Quotations == BoundedSeq(Letter \cup Seen \cup {Made}, MaxQuote)

\* The upstream answers with two values, the first of which may be broken off and the
\* second a stray bracket, and the proxy restores them. A plain text holds no tool
\* arguments.
Value(e, text, decodes, stray) ==
  [path |-> e.from, kind |-> e.kind, text |-> text, decodes |-> decodes, stray |-> stray]

UpstreamAnswers ==
  /\ pc = "answer" /\ turns < MaxTurns
  /\ \E text \in Quotations :
       \E form \in {"json", "ndjson", "text"}, decodes \in BOOLEAN, stray \in BOOLEAN,
          e, f \in {x \in Echoes : x.protocol = protocol} :
         LET values == <<Value(e, text, decodes, FALSE), Value(f, text, ~stray, stray)>>
         IN  /\ form = "text" => e.kind = "prose" /\ f.kind = "prose"
             /\ answer' = [form |-> form, values |-> values]
             /\ received' = RestoreResponse(minted, form, values)
  /\ pc' = "take"
  /\ UNCHANGED <<protocol, json, history, meant, forwarded, minted, turns, processVars>>

\* The client will repeat one of the values it can read.
Take(e) ==
  /\ pc = "take" /\ e.protocol = protocol
  /\ \E n \in 1..Len(received) :
       /\ received[n].path = e.from /\ received[n].decodes
       /\ history' = Append(history,
                           [path |-> e.to, text |-> received[n].text, kind |-> e.kind, own |-> FALSE])
       /\ meant' = Append(meant, answer.values[n].text)
  /\ answer' = NoAnswer /\ received' = << >>
  /\ pc' = "say"
  /\ UNCHANGED <<protocol, json, forwarded, minted, turns, processVars>>

\* A key of every process's own.
FaultyLoadOrCreateInstallKey(readable) == key + 1

\* loadOrCreateInstallKey: the file is missing, too short, not private or could
\* not be written when it is not readable.
LoadOrCreateInstallKey(readable) == IF readable THEN key ELSE key + 1

Restart(readable) ==
  /\ pc = "say" /\ turns > 0 /\ starts < MaxStarts
  /\ key' = LoadOrCreateInstallKey(readable)
  /\ lost' = (lost \/ ~readable)
  /\ starts' = starts + 1
  /\ minted' = {}
  /\ UNCHANGED <<protocol, json, history, meant, forwarded, answer, received, pc, turns>>

ConvInit ==
  /\ key = 1 /\ lost = FALSE /\ starts = 0
  /\ protocol = "none" /\ json = FALSE
  /\ history = << >> /\ meant = << >> /\ forwarded = << >> /\ minted = {}
  /\ answer = NoAnswer /\ received = << >>
  /\ pc = "say" /\ turns = 0

ConvNext ==
  \/ \E s \in Says : Say(s)
  \/ UpstreamAnswers
  \/ \E e \in Echoes : Take(e)
  \/ \E readable \in BOOLEAN : Restart(readable)

ConvSpec == ConvInit /\ [][ConvNext]_convVars

-----------------------------------------------------------------------------
(* Properties.                                                             *)

StandsAt(text, w, i) == i + Len(w) <= Len(text) + 1 /\ SubSeq(text, i, i + Len(w) - 1) = w

\* A hit that shares some of the text from i up to j but not its bounds.
Reaches(m, i, j) == m.start < j /\ i < m.end /\ (m.start < i \/ j < m.end)

\* The secret w of a detector stands in a text where the detector's own expression
\* took more or other text than w, and that was not replaced: it failed its checksum
\* (a number that runs on from w), or shares text with a longer match (detector.go:73).
Missed(text, detectors, d, w) ==
  \E i \in 1..Len(text), h \in Hits(text, d)[1] \ Scan(text, detectors) :
    StandsAt(text, w, i) /\ Reaches(h, i, i + Len(w))

\* Of the secrets of the detectors, what was sent of a text has those it missed there.
OnlyMissed(sent, text, detectors) ==
  \A d \in detectors : \A w \in Detectors[d].valid :
    (\E i \in 1..Len(sent) : StandsAt(sent, w, i)) => Missed(text, detectors, d, w)

\* A secret, whether the client wrote it or repeats it from a restored answer, leaves
\* the machine in a JSON request a protocol claims only where it was missed so, wherever
\* in the words of a user or model, or in the arguments and results of tools, it stands;
\* numeric ones are not looked for in the latter. What no text key leads to is forwarded
\* untouched (protocol.go:10,82).
SecretsStayHome ==
  json /\ protocol # "none" =>
    \A n \in 1..Len(forwarded) :
      IF history[n].kind = "other" THEN forwarded[n] = history[n]
      ELSE OnlyMissed(forwarded[n].text, history[n].text, Applicable(history[n].kind = "prose"))

\* Where the secrets restored in a text stand.
RestoredSpans(quoted, text) ==
  LET known == Quoted(quoted) \ Quoted(text)
      upTo  == JoinedUpTo(Pieces(known, quoted))
  IN  {[start |-> Len(upTo[n - 1]) + 1, end |-> Len(upTo[n]) + 1] :
         n \in {x \in 1..Len(quoted) : quoted[x] \in known}}

\* The detectors find no secrets in a text but those restored, and take no other text
\* of these into a hit: "12 " before a card number, or a PEM header before a key, would.
OnlyRestored(quoted, text) ==
  LET places == RestoredSpans(quoted, text)
  IN  \A d \in 1..Len(Detectors) : \A h \in Hits(text, d)[1] :
        h \in Find(text, d) \/ (\E s \in places : Overlap(s, h)) =>
          \E s \in places : s.start <= h.start /\ h.end <= s.end

\* The upstream is shown its own words, and the client's, as it saw them before:
\* an answer in which the detectors find again what was restored, and nothing else,
\* is masked back to the very text the upstream wrote, by a restarted proxy too unless
\* the key file was lost, so the prompt it has cached still fits (protocol.go:158,162,
\* installkey.go:30).
HistoryIsStable ==
  ~lost => \A n \in 1..Len(forwarded) :
             history[n].own \/ OnlyRestored(meant[n], history[n].text) =>
               forwarded[n].text = meant[n]

\* restore.go:10: of an answer that decodes, tool arguments keep every placeholder
\* as the upstream wrote it, in whatever sequence of values they come, and words
\* for the user keep none that the table knows.
RestoredButInSinks ==
  pc = "take" /\ answer.form # "text" =>
    \A n \in 1..Len(received) :
      IF received[n].kind = "tool" THEN received[n].text = answer.values[n].text
      ELSE KnownIn(received[n].text) # {} =>
             \E m \in 1..Len(received) : ~received[m].decodes /\ (answer.form = "json" \/ m = n)
=============================================================================
