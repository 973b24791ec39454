--------------------------- MODULE MCConversation ---------------------------
(***************************************************************************)
(* Instance of Conversation for TLC: keys of two vendors, one a special    *)
(* case of the other, a private key between its header and footer with     *)
(* anything between them, a number that may hold blanks and has a          *)
(* checksum, and a pattern of the user's that overlaps with these.         *)
(***************************************************************************)
EXTENDS Conversation

CONSTANTS sk, ant, k, d, sp, begin, end, url

Secret(name, w) == [name |-> name, words |-> w, valid |-> w, numeric |-> FALSE]
Number(name, w, v) == [name |-> name, words |-> w, valid |-> v, numeric |-> TRUE]
Pattern(w, ok) == [name |-> "custom", words |-> w, valid |-> w, numeric |-> FALSE, compiles |-> ok]

MCBuiltIn ==
  <<Secret("anthropic", {<<sk, ant, k>>, <<sk, ant, k, d>>}),
    Secret("openai", {<<sk, k>>, <<sk, ant>>, <<sk, ant, k>>, <<sk, ant, k, d>>, <<sk, d, k, d>>}),
    Secret("pem", {<<begin>> \o body \o <<end>> : body \in BoundedSeq({k, d, sp}, 2)}),
    Secret("github", {<<k, k>>})>>
MCOptIn ==
  <<Number("luhn", {<<d, d>>, <<d, d, d>>, <<d, sp, d>>, <<d, sp, d, d>>, <<d, d, sp, d>>},
                   {<<d, d>>, <<d, sp, d>>}),
    Number("id", {<<d, k>>}, {<<d, k>>})>>
MCFileConfig ==
  [disabled |-> {"github"}, enabled |-> {"luhn", "github"},
   custom |-> <<Pattern({<<d>>}, FALSE), Pattern({<<k, d>>}, TRUE)>>]

Path(keys) == [n \in 1..Len(keys) |-> At(keys[n])]
\* A path through a tool_result, whose key is the last.
ResultPath(keys) == [Path(keys) EXCEPT ![Len(keys)].result = TRUE]

Spoken ==
  {<<sk, ant, k>>, <<k, sp, sk, k>>, <<k, d, d>>, <<d, sp, d, d>>, <<sk, k, sp, d, d>>,
   <<sk, d, k, d>>, <<begin, sp, k, end>>}

Place(at, kind, path, texts) ==
  {[url |-> at, json |-> TRUE, kind |-> kind, path |-> path, text |-> t] : t \in texts}

Other(at, path, t) ==
  [url |-> at, json |-> TRUE, kind |-> "other", path |-> Path(path), text |-> t]

MCSays ==
  Place("/v1/messages", "prose", Path(<<"messages", Element, "content", Element>>), Spoken) \cup
  Place("/v1/messages", "prose", Path(<<"system", Element, "text">>), {<<sk, ant, k>>}) \cup
  Place("/v1/messages", "tool", ResultPath(<<"messages", Element, "content", Element, "content">>),
        {<<sk, k, sp, d, d>>, <<k, d, d>>}) \cup
  Place("/v1/chat/completions", "prose", Path(<<"messages", Element, "content">>),
        {<<sk, k, sp, d, d>>, <<begin, sp, k, end>>}) \cup
  \* the words of a user, but under a key protocol.go:57 takes for tool arguments
  Place("/v1/responses", "tool", Path(<<"input", Element>>), {<<sk, k, sp, d, d>>}) \cup
  Place("/v1beta/models/", "prose", Path(<<"contents", Element, "parts", Element, "text">>),
        {<<k, sp, sk, k>>}) \cup
  {Other("/v1/messages", <<"model">>, <<sk, k>>),
   Other("/v1/messages", <<"messages", Element, "content", Element, "source", "data">>, <<sk, k>>),
   Other("/v1/chat/completions", <<"tools", Element, "function", "name">>, <<d, d>>),
   Other("/v1/chat/completions", <<"messages", Element, "content", Element, "image_url", "url">>, <<url, sk, k>>),
   Other("/v1beta/models/", <<"contents", Element, "parts", Element, "inlineData", "data">>, <<sk, k>>),
   Other("/v1/audio", <<"text">>, <<sk, k>>),
   [url |-> "/v1/chat/completions", json |-> FALSE, kind |-> "prose", path |-> << >>, text |-> <<sk, k>>]}

Echo(proto, kind, from, to) ==
  [protocol |-> proto, kind |-> kind, from |-> Path(from), to |-> Path(to)]

MCEchoes ==
  {Echo("anthropic", "prose", <<"content", Element, "text">>, <<"messages", Element, "content", Element, "text">>),
   Echo("anthropic", "prose", <<"content", Element, "thinking">>, <<"messages", Element, "content", Element, "thinking">>),
   Echo("anthropic", "tool", <<"content", Element, "input", "command">>,
        <<"messages", Element, "content", Element, "input", "command">>),
   Echo("openai", "prose", <<"choices", Element, "message", "content">>, <<"messages", Element, "content">>),
   Echo("openai", "tool", <<"choices", Element, "message", "tool_calls", Element, "function", "arguments">>,
        <<"messages", Element, "tool_calls", Element, "function", "arguments">>),
   Echo("gemini", "prose", <<"candidates", Element, "content", "parts", Element, "text">>,
        <<"contents", Element, "parts", Element, "text">>),
   Echo("gemini", "tool", <<"candidates", Element, "content", "parts", Element, "functionCall", "args", "command">>,
        <<"contents", Element, "parts", Element, "functionCall", "args", "command">>),
   Echo("none", "prose", <<"text">>, <<"text">>)}
=============================================================================
