------------------------------ MODULE HttpCall ------------------------------
(***************************************************************************)
(* One call of the SDK to a gateway (api/client.go): the arguments are     *)
(* looked at, the request is sent, sent once more when the China gateway   *)
(* has no name, and what comes back is told to the caller.  Every method   *)
(* of Client but the event subscription is such a call.                    *)
(*                                                                         *)
(* A gateway runs a request when it gets it, whether or not its answer     *)
(* arrives.  A reply is its status and what its body says.  What net/http  *)
(* repeats of itself, on a connection that had gone away, is the request   *)
(* it was.                                                                 *)
(***************************************************************************)
EXTENDS CallContext, Naturals, Sequences

CONSTANT NoResponse

Gateway == {"cn", "global", "other"}
Kind == {"plain", "confirmed", "start", "stream"}

\* The codes a poll is answered with, and what any other body says: success, with
\* or without the data that confirms it, a failure, the failure of one who is not
\* known (the code "unauthorized", or OAuth2's invalid_client), or no JSON.
Code == {"pending", "slow_down", "expired", "denied", "authorized", "unknown"}
Body == {"done", "empty", "refusal", "unauthorized", "garbled"}
Response == [status : {"2xx", "401", "403", "404", "other"}, says : Body \cup Code]

ASSUME HttpAssumption == NoResponse \notin Response

VARIABLES
  call,    \* the call: "off", "send", "flight", "stream" or "ended"
  kind,    \* what its wrapper makes of a reply
  asked,   \* the gateway it is for
  exists,  \* has that gateway's name a DNS record?
  at,      \* the gateway it is sent to now
  ran,     \* the gateways that have run the request
  response, \* what one of them answered, if it arrived
  told     \* what the caller was told: "none", "ok" or an error

requestVars == <<kind, asked, exists>>
httpVars == <<call, requestVars, at, ran, response, told>>

HttpTypeOK ==
  /\ call \in {"off", "send", "flight", "stream", "ended"}
  /\ kind \in Kind /\ {asked, at} \subseteq Gateway /\ exists \in BOOLEAN
  /\ ran \in Seq(Gateway)
  /\ response \in Response \cup {NoResponse}
  /\ told \in {"none", "ok", "invalid", "transport", "401", "403", "404", "other",
               "undecodable", "refused", "unconfirmed", "unavailable", "truncated", "too large", "stream error", "emit"}

-----------------------------------------------------------------------------
(* What a reply comes to.                                                  *)

\* do's error: an APIError with its status, a decoding error, or none.  The
\* envelope's code makes a 401 of a 200.
DoError(r) ==
  IF r.status # "2xx" THEN r.status
  ELSE IF r.says = "unauthorized" THEN "401"
  ELSE IF r.says = "garbled" THEN "undecodable"
  ELSE "none"

\* What a wrapper returns: TokenKey and the deletions of sessions and webhooks
\* look at the data too.
WrapperVerdict(k, r) ==
  IF DoError(r) # "none" THEN DoError(r)
  ELSE IF r.says = "refusal" THEN "refused"
  ELSE IF k = "confirmed" /\ r.says = "empty" THEN "unconfirmed"
  ELSE "ok"

\* OAuth2DeviceStart: "unavailable" sends the caller to the legacy sign-in.
StartVerdict(r) ==
  IF r.status = "404" \/ r.says = "unauthorized" THEN "unavailable"
  ELSE IF r.status # "2xx" THEN r.status
  ELSE IF r.says = "refusal" THEN "refused"
  ELSE IF r.says \in {"empty", "garbled"} THEN "unavailable"
  ELSE "ok"

Verdict(r) == IF kind = "start" THEN StartVerdict(r) ELSE WrapperVerdict(kind, r)

Tell(verdict) == call' = "ended" /\ told' = verdict

-----------------------------------------------------------------------------
(* The call.                                                               *)

\* A wrapper's own check of its arguments.
InvalidArguments ==
  /\ call = "send" /\ at = asked
  /\ Tell("invalid")
  /\ UNCHANGED <<requestVars, at, ran, response>>

SendRequest ==
  /\ call = "send" /\ ~cancelled
  /\ at = asked => exists
  /\ call' = "flight" /\ ran' = Append(ran, at)
  /\ UNCHANGED <<requestVars, at, response, told>>

\* Any failure sends the request to the other gateway.
FaultyFallsBack(how) == at = "cn"

\* No record for the China gateway's name.
FallsBack(how) == how = "no such host" /\ at = "cn"

\* Do's error: the name does not exist, no connection, or no answer: in time, or
\* before the context is cancelled, or that can be read to its end.
RequestFails(how) ==
  /\ \/ how = "no such host" /\ call = "send" /\ at = asked /\ ~exists
     \/ how = "unreachable" /\ call = "send"
     \/ how = "no answer" /\ call = "flight"
  /\ \/ FallsBack(how) /\ at' = "global" /\ call' = "send" /\ UNCHANGED told
     \/ ~FallsBack(how) /\ Tell("transport") /\ UNCHANGED at
  /\ UNCHANGED <<requestVars, ran, response>>

TakeResponse(r) ==
  /\ call = "flight"
  /\ response' = r
  /\ \/ kind # "stream" /\ Tell(Verdict(r))
     \/ kind = "stream" /\ r.status # "2xx" /\ Tell(r.status)
     \/ /\ kind = "stream" /\ r.status = "2xx" /\ r.says = "done"
        /\ call' = "stream" /\ UNCHANGED told
  /\ UNCHANGED <<requestVars, at, ran>>

\* Replies that tell the calls apart; the codes are the polls'.
HttpStep ==
  \/ InvalidArguments \/ SendRequest
  \/ \E how \in {"no such host", "unreachable", "no answer"} : RequestFails(how)
  \/ \E r \in Response : r.says \in Body /\ TakeResponse(r)

-----------------------------------------------------------------------------
(* Properties.                                                             *)

\* client.go:82: no request is run twice, or by a gateway of another region than
\* the caller's, unless the China gateway has no name at all.  Success, an expired
\* session and a gateway without OAuth2 are each reported only of one that ran the
\* request and said so: no failure passes for them.
SentOnceAndTold ==
  /\ Len(ran) <= 1
  /\ \A n \in DOMAIN ran :
       ran[n] = asked \/ (asked = "cn" /\ ran[n] = "global" /\ ~exists)
  /\ told \in {"ok", "401", "unavailable"} => ran # <<>> /\ response # NoResponse
  /\ told = "ok" => response.status = "2xx" /\ response.says \in {"done", "empty"}
  /\ told = "401" => response.status = "401" \/ response.says = "unauthorized"
  /\ told = "unavailable" =>
       response.status \in {"404", "2xx"} \/ response.says = "unauthorized"
=============================================================================
