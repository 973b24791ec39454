------------------------------- MODULE Bodies -------------------------------
(***************************************************************************)
(* The bodies of a request and of its buffered answer: which strings of a  *)
(* JSON tree are searched for secrets on the way out (sanitizer/           *)
(* protocol*.go), and which get theirs back on the way in (restore.go).    *)
(*                                                                         *)
(* Both walks treat a string by the path that leads to it, so a body is    *)
(* its strings, each with its path: the steps from the root, a key of an   *)
(* object (of a tool_result one or not) or an element of an array.         *)
(***************************************************************************)
EXTENDS Detect

CONSTANT DataURL   \* the character a data: URL begins with

ASSUME BodiesAssumption == DataURL \in Char

Element == "[]"
At(key) == [key |-> key, result |-> FALSE]

BinaryExcludeKeys == {"source", "data", "inlineData"}
NumericExcludeKeys == {"input", "arguments", "args", "default", "enum", "const"}
RestoreForbiddenKeys == {"input", "arguments", "args", "partial_json"}

AnthropicTextKeys == {"content", "text", "input", "description", "system"}
OpenAITextKeys ==
  {"content", "text", "arguments", "description", "input", "instructions", "prompt", "suffix"}
GeminiTextKeys == {"text", "description", "args", "response"}

TextKeys(protocol) ==
  CASE protocol = "anthropic" -> AnthropicTextKeys
    [] protocol = "openai" -> OpenAITextKeys
    [] protocol = "gemini" -> GeminiTextKeys

\* PathMatch, for a URL path that is one of the prefixes.
AnthropicPaths == {"/v1/messages", "/v1/complete"}
OpenAIPaths == {"/v1/chat/completions", "/v1/completions", "/v1/embeddings", "/v1/responses"}
GeminiPaths == {"/v1beta/models/", "/v1/models/"}

PickProtocol(url) ==
  CASE url \in AnthropicPaths -> "anthropic"
    [] url \in GeminiPaths -> "gemini"
    [] url \in OpenAIPaths -> "openai"
    [] OTHER -> "none"

-----------------------------------------------------------------------------
(* The request.                                                            *)

\* walkJSON, one step down; an array changes nothing.
Descend(protocol, w, step) ==
  [skipped   |-> w.skipped \/ step.key \in BinaryExcludeKeys,
   inScope   |-> w.inScope \/ step.key \in TextKeys(protocol),
   numericOK |-> w.numericOK /\ ~step.result /\ step.key \notin NumericExcludeKeys]

Walk(protocol, path) ==
  FoldLeft(LAMBDA w, step : Descend(protocol, w, step),
           [skipped |-> FALSE, inScope |-> FALSE, numericOK |-> TRUE], path)

IsDataURL(text) == text # << >> /\ Head(text) = DataURL

\* Only strings under a key are looked at, not those of an array.
FaultyRewriteString(key, protocol, leaf) ==
  LET w == Walk(protocol, leaf.path)
  IN  IF w.inScope /\ ~w.skipped /\ ~IsDataURL(leaf.text) /\ Last(leaf.path).key # Element
      THEN [leaf EXCEPT !.text = ScanAndReplaceText(key, @, w.numericOK)]
      ELSE leaf

\* What walkJSON and the function it is given make of one string.
RewriteString(key, protocol, leaf) ==
  LET w == Walk(protocol, leaf.path)
  IN  IF w.inScope /\ ~w.skipped /\ ~IsDataURL(leaf.text)
      THEN [leaf EXCEPT !.text = ScanAndReplaceText(key, @, w.numericOK)]
      ELSE leaf

\* A body that is no JSON is forwarded as it is, and so is one no protocol claims.
RewriteRequest(key, protocol, json, leaves) ==
  IF json /\ protocol # "none"
  THEN [n \in 1..Len(leaves) |-> RewriteString(key, protocol, leaves[n])]
  ELSE leaves

-----------------------------------------------------------------------------
(* The answer: a sequence of JSON values, each of one string here, that    *)
(* may not decode, or be no value but a stray bracket that closes nothing; *)
(* or a text.                                                              *)

\* restoreInText: a placeholder the table does not know stays.
Pieces(minted, text) ==
  [n \in 1..Len(text) |->
     IF IsPlaceholder(text[n]) /\ text[n] \in minted THEN text[n].secret ELSE <<text[n]>>]

RestoreInText(minted, text) == Joined(Pieces(minted, text))

\* Only the innermost key is looked at.
FaultyInSink(path) == path # << >> /\ Last(path).key \in RestoreForbiddenKeys

InSink(path) == \E n \in 1..Len(path) : path[n].key \in RestoreForbiddenKeys

RestoreValue(minted, v) ==
  IF InSink(v.path) THEN v ELSE [v EXCEPT !.text = RestoreInText(minted, @)]

\* One value, or several in a row: all are restored if all decode. A stray bracket
\* after the first is taken for the end (dec.More): a first value in which something
\* was restored is all that is left.
RestoreBufferedJSON(minted, values) ==
  LET restored == [n \in 1..Len(values) |-> RestoreValue(minted, values[n])]
  IN  IF \A n \in 1..Len(values) : values[n].decodes THEN restored
      ELSE IF values[1].decodes /\ values[2].stray /\ restored[1] # values[1]
      THEN <<restored[1]>>
      ELSE values

RestoreNDJSON(minted, lines) ==
  [n \in 1..Len(lines) |-> RestoreBufferedJSON(minted, <<lines[n]>>)[1]]

\* restoreResponseBytes (a binary answer never gets here).
RestoreResponse(minted, form, values) ==
  CASE form = "ndjson" -> RestoreNDJSON(minted, values)
    [] form = "json" -> RestoreBufferedJSON(minted, values)
    [] form = "text" -> [n \in 1..Len(values) |->
                           [values[n] EXCEPT !.text = RestoreInText(minted, @)]]
=============================================================================
