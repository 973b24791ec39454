----------------------------- MODULE DiagStream -----------------------------
(***************************************************************************)
(* DiagnosticChatStream (api/diagnostics.go): the lines of a streamed      *)
(* reply, handed on as they come, and what the caller is told when they    *)
(* end.  A line is what the stream checks it for; every other line, for    *)
(* its version, its fields or its values, is junk.                         *)
(***************************************************************************)
EXTENDS HttpCall, SequencesExt

CONSTANTS
  MaxReply,  \* the largest reply, in units of text (8 KiB in the code)
  MaxLines   \* bound on the lines of a stream

ASSUME DiagAssumption == MaxReply \in Nat \ {0} /\ MaxLines \in Nat

DiagLine ==
  [kind : {"delta"}, size : 1..MaxReply] \cup [kind : {"done", "error", "junk"}, size : {0}]

VARIABLES
  said,    \* the lines read
  emitted  \* the deltas the caller's emit was called with

diagVars == <<said, emitted>>

DiagTypeOK == said \in Seq(DiagLine) /\ emitted \in Seq(DiagLine)

\* totalBytes: the size of the first n lines, for every n, and of all of them.
SizeUpTo(s) == LET f[n \in 0..Len(s)] == IF n = 0 THEN 0 ELSE f[n - 1] + s[n].size IN f
Size(s) == SizeUpTo(s)[Len(s)]

\* Has the stream said that the reply is whole?
Whole == \E n \in DOMAIN said : said[n].kind = "done"

ReadsOn == UNCHANGED <<call, told>>

\* A delta goes to emit, which may fail, unless the reply grows too large by it.
TakeDelta(line) ==
  /\ line.kind = "delta" /\ ~Whole
  /\ \/ /\ Size(emitted) + line.size > MaxReply
        /\ Tell("too large") /\ UNCHANGED emitted
     \/ /\ Size(emitted) + line.size <= MaxReply
        /\ emitted' = Append(emitted, line)
        /\ ReadsOn \/ Tell("emit")

TakeDone(line) ==
  /\ line.kind = "done" /\ ~Whole /\ emitted # <<>>
  /\ ReadsOn /\ UNCHANGED emitted

\* An error counts even after the reply is whole.
TakeError(line) == line.kind = "error" /\ Tell("stream error") /\ UNCHANGED emitted

TakeJunk(line) ==
  /\ \/ line.kind = "junk"
     \/ line.kind = "delta" /\ Whole
     \/ line.kind = "done" /\ (Whole \/ emitted = <<>>)
  /\ Tell("invalid") /\ UNCHANGED emitted

TakeDiagLine(line) ==
  /\ call = "stream" /\ Len(said) < MaxLines
  /\ said' = Append(said, line)
  /\ TakeDelta(line) \/ TakeDone(line) \/ TakeError(line) \/ TakeJunk(line)
  /\ UNCHANGED <<requestVars, at, ran, response>>

\* A stream that ends is a reply, if it said anything.
FaultyEnding(how) ==
  IF how = "broken" THEN "transport" ELSE IF emitted = <<>> THEN "truncated" ELSE "ok"

\* The end of the stream: a clean one, or a lost connection, an overlong line,
\* the client's timeout or the cancelled context.
Ending(how) ==
  IF how = "broken" THEN "transport" ELSE IF Whole THEN "ok" ELSE "truncated"

StreamEnds(how) ==
  /\ call = "stream"
  /\ Tell(Ending(how))
  /\ UNCHANGED <<requestVars, at, ran, response, said, emitted>>

DiagStep ==
  \/ HttpStep /\ UNCHANGED diagVars
  \/ \E line \in DiagLine : TakeDiagLine(line)
  \/ \E how \in {"end", "broken"} : StreamEnds(how)

-----------------------------------------------------------------------------
(* Properties.                                                             *)

\* diagnostics.go:94-142: what the caller has shown is always a beginning of the
\* reply, in order and within its size, and success means that it was shown whole
\* and that nothing came after it.
WholeRepliesOnly ==
  /\ IsPrefix(emitted, said) /\ Size(emitted) <= MaxReply
  /\ kind = "stream" /\ told = "ok" =>
       /\ emitted # <<>>
       /\ Front(said) = emitted /\ Last(said).kind = "done"
=============================================================================
