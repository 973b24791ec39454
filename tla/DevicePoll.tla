----------------------------- MODULE DevicePoll -----------------------------
(***************************************************************************)
(* The three polling loops of a sign-in: PollUntilDone (api/device_auth.go)*)
(* OAuth2PollUntilDone (api/oauth2.go) and PollSellerCodexUntilDone        *)
(* (api/seller_oauth.go): sleep, ask, heed the answer.  What the gateway   *)
(* answers, and whether its answer arrives, is left open; a question is    *)
(* one step, for what happens to a request is HttpCall's.                  *)
(***************************************************************************)
EXTENDS HttpCall, FiniteSets

CONSTANTS
  Intervals,    \* the first intervals a gateway may ask for, in seconds
  RetryBudget,  \* pollTransientRetryBudget
  MaxPolls      \* bound on the questions of one sign-in

ASSUME PollAssumption ==
  /\ Intervals \subseteq Nat /\ RetryBudget \in Nat /\ MaxPolls \in Nat

VARIABLES
  flow,      \* the sign-in: "device", "oauth2" or "seller"
  poll,      \* the loop: "off", "sleep", "ask" or "done"
  first,     \* the interval the gateway asked for
  interval,  \* the interval in use
  fails,     \* transientFails
  answers,   \* what every question came to
  result     \* what the loop returned

pollVars == <<flow, poll, first, interval, fails, answers, result>>

Flow == {"device", "oauth2", "seller"}

\* "lost" is every error that is no *APIError, "refused" every one that is, but
\* "region", the device flow's 403.
Final == {"authorized", "expired", "denied", "refused", "region"}
Answer == Final \cup {"lost", "pending", "slow_down"}

\* Through do.  Success is the seller's "authorized"; a status or a code that is
\* not known is an error of no type, like no answer at all.
EnvelopeAnswer(f, r) ==
  IF DoError(r) \in {"none", "undecodable"}
  THEN IF r.says = "done" /\ f = "seller" THEN "authorized"
       ELSE IF r.says \in Code \ {"unknown"} THEN r.says ELSE "lost"
  ELSE IF DoError(r) = "403" /\ f = "device" THEN "region"
  ELSE "refused"

\* Through oauth2Form: whatever the status, the body decides, and one that says
\* nothing decides against.
FormAnswer(r) == IF r.says \in Code \ {"unknown"} THEN r.says ELSE "refused"

AnswerOf(f, r) ==
  IF r = NoResponse THEN "lost"
  ELSE IF f = "oauth2" THEN FormAnswer(r) ELSE EnvelopeAnswer(f, r)

AnswersIn == [f \in Flow |-> {AnswerOf(f, r) : r \in Response \cup {NoResponse}}]

PollTypeOK ==
  /\ flow \in Flow
  /\ poll \in {"off", "sleep", "ask", "done"}
  /\ first \in Intervals /\ interval \in Nat /\ fails \in 0..(RetryBudget + 1)
  /\ answers \in Seq(Answer) /\ Len(answers) <= MaxPolls
  /\ result \in Final \cup {"none", "cancelled", "gave_up"}

FirstInterval(secs) == IF secs = 0 THEN 5 ELSE secs

\* select: the context, or the end of the interval.
Wake ==
  /\ poll = "sleep"
  /\ \/ cancelled /\ poll' = "done" /\ result' = "cancelled"
     \/ Len(answers) < MaxPolls /\ poll' = "ask" /\ UNCHANGED result
  /\ UNCHANGED <<flow, first, interval, fails, answers>>

\* A failure that is forgiven for good: healthy answers do not reset the count.
FaultyHeed(a) ==
  /\ fails' = IF a = "lost" THEN fails + 1 ELSE fails
  /\ interval' = IF a = "slow_down" THEN interval + 5 ELSE interval
  /\ \/ a \in Final /\ poll' = "done" /\ result' = a
     \/ a = "lost" /\ fails' > RetryBudget /\ poll' = "done" /\ result' = "gave_up"
     \/ /\ IF a = "lost" THEN fails' <= RetryBudget ELSE a \notin Final
        /\ poll' = "sleep" /\ UNCHANGED result

Heed(a) ==
  /\ fails' = IF a = "lost" THEN fails + 1 ELSE 0
  /\ interval' = IF a = "slow_down" THEN interval + 5 ELSE interval
  /\ \/ a \in Final /\ poll' = "done" /\ result' = a
     \/ a = "lost" /\ fails' > RetryBudget /\ poll' = "done" /\ result' = "gave_up"
     \/ /\ IF a = "lost" THEN fails' <= RetryBudget ELSE a \notin Final
        /\ poll' = "sleep" /\ UNCHANGED result

\* A cancelled context ends the request under way without an answer.
Ask(a) ==
  /\ poll = "ask"
  /\ cancelled => a = "lost"
  /\ answers' = Append(answers, a)
  /\ Heed(a)
  /\ UNCHANGED <<flow, first>>

PollStep == Wake \/ (\E a \in AnswersIn[flow] : Ask(a))

-----------------------------------------------------------------------------
(* Properties.                                                             *)

\* The loop has failed RetryBudget + 1 times in a row when the i-th answer is in.
Exhausted(i) == i > RetryBudget /\ \A n \in (i - RetryBudget)..i : answers[n] = "lost"

\* A sign-in ends with the gateway's first final answer, with nothing asked
\* after it, or after RetryBudget + 1 failures in a row and no fewer; and it
\* never polls faster than the gateway has asked it to.
PollsAsTold ==
  LET n == Len(answers)
      ended == {i \in 1..n : answers[i] \in Final \/ Exhausted(i)}
  IN  /\ ended \subseteq {n}
      /\ ended = {} => result \in {"none", "cancelled"}
      /\ ended # {} => result = IF answers[n] = "lost" THEN "gave_up" ELSE answers[n]
      /\ interval = FirstInterval(first) + 5 * Cardinality({i \in 1..n : answers[i] = "slow_down"})
=============================================================================
