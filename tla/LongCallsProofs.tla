-------------------------- MODULE LongCallsProofs --------------------------
(***************************************************************************)
(* The calls of the SDK, for any number of callbacks, polls, replies and   *)
(* lines: what each of them tells its caller is what happened.             *)
(***************************************************************************)
EXTENDS LongCalls, TextsProofs

-----------------------------------------------------------------------------
(* Induction over a set of naturals, and what it shows of Size.            *)

\* f sums up the sizes of s, as far as m.
SumsUpTo(f, s, m) ==
  \A n \in 0..m : f[n] = IF n = 0 THEN 0 ELSE f[n - 1] + s[n].size

LEMMA SizesAreNat ==
  ASSUME NEW s \in Seq(DiagLine), NEW n \in 1..Len(s)
  PROVE  s[n].size \in Nat
<1>1. s[n] \in DiagLine
  OBVIOUS
<1> QED
  BY <1>1, DiagAssumption DEF DiagLine

\* The recursive function of SizeUpTo exists.
LEMMA SumExists ==
  ASSUME NEW s \in Seq(DiagLine)
  PROVE  SizeUpTo(s) \in [0..Len(s) -> Nat] /\ SumsUpTo(SizeUpTo(s), s, Len(s))
<1> DEFINE Summed == {m \in Nat : m <= Len(s) => \E f \in [0..m -> Nat] : SumsUpTo(f, s, m)}
<1>1. 0 \in Summed
  <2>1. [n \in 0..0 |-> 0] \in [0..0 -> Nat] /\ SumsUpTo([n \in 0..0 |-> 0], s, 0)
    BY DEF SumsUpTo
  <2> QED
    BY <2>1
<1>2. ASSUME NEW m \in Summed PROVE m + 1 \in Summed
  <2> SUFFICES ASSUME m + 1 <= Len(s)
               PROVE  \E f \in [0..(m + 1) -> Nat] : SumsUpTo(f, s, m + 1)
    BY <1>2, SMTT(30)
  <2>1. PICK f \in [0..m -> Nat] : SumsUpTo(f, s, m)
    BY <1>2
  <2>2. s[m + 1].size \in Nat
    BY <1>2, SizesAreNat
  <2> DEFINE g == [n \in 0..(m + 1) |-> IF n <= m THEN f[n] ELSE f[m] + s[m + 1].size]
  <2>3. g \in [0..(m + 1) -> Nat]
    BY <2>2, <1>2
  <2>4. \A n \in 0..m : g[n] = IF n = 0 THEN 0 ELSE g[n - 1] + s[n].size
    BY <2>1, <1>2 DEF SumsUpTo
  <2>5. g[m + 1] = g[m] + s[m + 1].size /\ m + 1 # 0
    BY <1>2
  <2>6. SumsUpTo(g, s, m + 1)
    <3> SUFFICES ASSUME NEW n \in 0..(m + 1)
                 PROVE  g[n] = IF n = 0 THEN 0 ELSE g[n - 1] + s[n].size
      BY DEF SumsUpTo
    <3>1. m \in Nat
      BY <1>2
    <3>2. n \in 0..m \/ n = m + 1
      BY <3>1
    <3>3. (m + 1) - 1 = m
      BY <3>1
    <3> HIDE DEF g
    <3> QED
      BY <2>4, <2>5, <3>2, <3>3
  <2> QED
    BY <2>3, <2>6
<1>3. Len(s) \in Summed
  <2> HIDE DEF Summed
  <2>1. Summed \in SUBSET Nat
    BY DEF Summed
  <2>2. Summed = Nat
    BY <1>1, <1>2, <2>1, InductionOnNat
  <2> QED
    BY <2>2
<1>4. PICK f \in [0..Len(s) -> Nat] : SumsUpTo(f, s, Len(s))
  BY <1>3
<1> DEFINE Sums(g) == g = [n \in 0..Len(s) |-> IF n = 0 THEN 0 ELSE g[n - 1] + s[n].size]
<1>5. Sums(f)
  BY <1>4 DEF SumsUpTo
<1>6. SizeUpTo(s) = CHOOSE g : Sums(g)
  BY DEF SizeUpTo
<1>7. Sums(SizeUpTo(s))
  <2> HIDE DEF Sums
  <2> QED
    BY <1>5, <1>6
<1> DEFINE sums == SizeUpTo(s)
<1>8. sums = [n \in 0..Len(s) |-> IF n = 0 THEN 0 ELSE sums[n - 1] + s[n].size]
  BY <1>7, Zenon
<1> HIDE DEF sums
<1>9. SumsUpTo(sums, s, Len(s))
  <2>1. \A n \in 0..Len(s) : sums[n] = IF n = 0 THEN 0 ELSE sums[n - 1] + s[n].size
    BY <1>8
  <2> QED
    BY <2>1 DEF SumsUpTo
<1> DEFINE Typed == {m \in Nat : m <= Len(s) => sums[m] \in Nat}
<1>10. 0 \in Typed
  BY <1>9 DEF SumsUpTo
<1>11. ASSUME NEW m \in Typed PROVE m + 1 \in Typed
  <2> SUFFICES ASSUME m + 1 <= Len(s) PROVE sums[m + 1] \in Nat
    BY <1>11
  <2>1. m \in Nat /\ sums[m] \in Nat /\ s[m + 1].size \in Nat
    BY <1>11, SizesAreNat
  <2>2. sums[m + 1] = sums[(m + 1) - 1] + s[m + 1].size
    BY <1>9, <2>1 DEF SumsUpTo
  <2> QED
    BY <2>1, <2>2
<1>12. Typed = Nat
  <2> HIDE DEF Typed
  <2>1. Typed \in SUBSET Nat
    BY DEF Typed
  <2> QED
    BY <1>10, <1>11, <2>1, InductionOnNat
<1>13. \A m \in 0..Len(s) : sums[m] \in Nat
  BY <1>12
<1>14. sums \in [0..Len(s) -> Nat]
  BY <1>8, <1>13
<1> QED
  BY <1>9, <1>14 DEF sums

LEMMA SizeOfAppend ==
  ASSUME NEW s \in Seq(DiagLine), NEW l \in DiagLine
  PROVE  Size(Append(s, l)) = Size(s) + l.size
<1> DEFINE t == Append(s, l)
           f == SizeUpTo(s)
           g == SizeUpTo(t)
<1>1. t \in Seq(DiagLine) /\ Len(t) = Len(s) + 1 /\ t[Len(t)] = l
      /\ \A n \in 1..Len(s) : t[n] = s[n]
  OBVIOUS
<1>2. SumsUpTo(f, s, Len(s)) /\ SumsUpTo(g, t, Len(s) + 1)
  BY <1>1, SumExists
<1> HIDE DEF t, f, g
<1> DEFINE Agreed == {m \in Nat : m <= Len(s) => f[m] = g[m]}
<1>3. 0 \in Agreed
  BY <1>2 DEF SumsUpTo
<1>4. ASSUME NEW m \in Agreed PROVE m + 1 \in Agreed
  <2> SUFFICES ASSUME m + 1 <= Len(s) PROVE f[m + 1] = g[m + 1]
    BY <1>4
  <2>1. m \in Nat /\ f[m] = g[m] /\ t[m + 1] = s[m + 1] /\ (m + 1) - 1 = m
    BY <1>1, <1>4
  <2>2. /\ f[m + 1] = f[(m + 1) - 1] + s[m + 1].size
        /\ g[m + 1] = g[(m + 1) - 1] + t[m + 1].size
    BY <1>2, <2>1 DEF SumsUpTo
  <2> QED
    BY <2>1, <2>2
<1>5. Agreed = Nat
  <2> HIDE DEF Agreed
  <2>1. Agreed \in SUBSET Nat
    BY DEF Agreed
  <2> QED
    BY <1>3, <1>4, <2>1, InductionOnNat
<1>6. f[Len(s)] = g[Len(s)]
  <2>1. Len(s) \in Agreed
    BY <1>5
  <2> QED
    BY <2>1
<1>7. g[Len(s) + 1] = g[Len(s)] + l.size
  <2>1. Len(s) + 1 \in 0..(Len(s) + 1) /\ Len(s) + 1 # 0 /\ (Len(s) + 1) - 1 = Len(s)
    OBVIOUS
  <2>2. g[Len(s) + 1] = g[(Len(s) + 1) - 1] + t[Len(s) + 1].size
    BY <1>2, <2>1 DEF SumsUpTo
  <2> QED
    BY <1>1, <2>1, <2>2
<1>8. Size(s) = f[Len(s)] /\ Size(t) = g[Len(t)]
  BY DEF Size, f, g
<1> QED
  BY <1>1, <1>6, <1>7, <1>8 DEF t

LEMMA SizeOfNothing == Size(<< >>) = 0
<1>1. << >> \in Seq(DiagLine) /\ Len(<< >>) = 0 /\ 0 \in 0..0
  OBVIOUS
<1>2. SumsUpTo(SizeUpTo(<< >>), << >>, 0)
  BY <1>1, SumExists
<1>3. SizeUpTo(<< >>)[0] = 0
  BY <1>1, <1>2 DEF SumsUpTo
<1> QED
  BY <1>1, <1>3 DEF Size

-----------------------------------------------------------------------------
(* The OAuth callback.                                                     *)

\* The request the sign-in belongs to: it has claimed the delivery.
Claimant(k) == handler[k] \in {"claimed", "delivered"} \/ k \in Told

Handed(k) == handler[k] = "delivered" \/ k \in Told

\* Where a result is: it was sent, and is in the channel or with the caller.
ResultOf(k) ==
  \/ resultCh = <<k>> /\ wait # "got"
  \/ resultCh = << >> /\ got = k

LoopbackInv ==
  /\ LoopbackTypeOK
  /\ \A k \in Callback : reply[k] # "none" => handler[k] = "answered"
  /\ wait = "got" <=> got # NoCallback
  /\ ~delivered => resultCh = << >> /\ wait # "got"
  /\ \A k \in Callback : Claimant(k) => delivered
  /\ \A k, l \in Callback : Claimant(k) /\ Claimant(l) => k = l
  /\ \A k \in Callback : handler[k] = "claimed" => resultCh = << >> /\ wait # "got"
  /\ \A k \in Callback : Handed(k) => ResultOf(k)

LEMMA LoopbackInit == CallsInit => LoopbackInv
<1> SUFFICES ASSUME CallsInit PROVE LoopbackInv
  OBVIOUS
<1>1. /\ handler = [k \in Callback |-> "none"] /\ reply = [k \in Callback |-> "none"]
      /\ delivered = FALSE /\ resultCh = << >> /\ got = NoCallback
      /\ wait \in {"off", "waiting"} /\ listener \in {"off", "open"}
  BY DEF CallsInit
<1>2. \A k \in Callback : ~Claimant(k) /\ ~Handed(k)
  BY <1>1 DEF Claimant, Handed, Told
<1>3. LoopbackTypeOK
  <2>1. << >> \in Seq(Callback) /\ Len(<< >>) <= 1
    OBVIOUS
  <2> QED
    BY <1>1, <2>1 DEF LoopbackTypeOK
<1> QED
  BY LoopbackAssumption, <1>1, <1>2, <1>3 DEF LoopbackInv

LEMMA LoopbackSteps ==
  [CallsNext]_callVars =>
    \/ UNCHANGED loopbackVars
    \/ Wait \/ Close
    \/ \E k \in Callback : HandlerStep(k) \/ Arrive(k)
  BY DEF CallsNext, callVars, Cancel, EventsCall, PollCall, RequestCall, LoopbackCall, OtherStep

LEMMA LoopbackStep == LoopbackInv /\ [CallsNext]_callVars => LoopbackInv'
<1> SUFFICES ASSUME LoopbackInv, [CallsNext]_callVars PROVE LoopbackInv'
  OBVIOUS
<1> USE LoopbackAssumption
        DEF LoopbackInv, LoopbackTypeOK, Claimant, Handed, Told, ResultOf
<1>1. CASE UNCHANGED loopbackVars
  BY <1>1 DEF loopbackVars
<1>2. CASE Wait
  <2>1. CASE cancelled /\ wait' = "cancelled" /\ UNCHANGED <<resultCh, got>>
    BY <1>2, <2>1 DEF Wait
  <2>2. CASE resultCh # << >> /\ wait' = "got" /\ got' = Head(resultCh) /\ resultCh' = << >>
    <3>1. Head(resultCh) \in Callback /\ resultCh' \in Seq(Callback) /\ Len(resultCh') = 0
      BY <2>2
    <3>2. \A k \in Callback : Handed(k) => Head(resultCh) = k
      BY <1>2, <2>2 DEF Wait
    <3>3. delivered /\ \A k \in Callback : handler[k] # "claimed"
      BY <2>2
    <3> QED
      BY <1>2, <2>2, <3>1, <3>2, <3>3 DEF Wait
  <2> QED
    BY <1>2, <2>1, <2>2 DEF Wait
<1>3. CASE Close
  BY <1>3 DEF Close
<1>4. ASSUME NEW k \in Callback, HandlerStep(k) \/ Arrive(k) PROVE LoopbackInv'
  <2>1. CASE Arrive(k)
    BY <2>1 DEF Arrive
  <2>2. CASE Claim(k)
    BY <2>2 DEF Claim
  <2>3. CASE Reject(k)
    BY <2>3 DEF Reject
  <2>4. CASE Deliver(k)
    <3>1. resultCh' = <<k>> /\ wait # "got" /\ handler[k] = "claimed"
      BY <2>4 DEF Deliver
    <3>2. resultCh' \in Seq(Callback) /\ Len(resultCh') = 1 /\ resultCh' # << >>
      BY <3>1
    <3>3. /\ handler' = [handler EXCEPT ![k] = "delivered"]
          /\ UNCHANGED <<listener, reply, delivered, wait, got>>
      BY <2>4 DEF Deliver
    <3>4. \A l \in Callback : l # k => ~Claimant(l) /\ ~Handed(l) /\ handler[l] # "claimed"
      BY <3>1
    <3>5. \A l \in Callback : l # k => ~Claimant(l)' /\ ~Handed(l)' /\ handler'[l] # "claimed"
      BY <3>3, <3>4
    <3>6. ~delivered => FALSE
      BY <3>1
    <3>7. LoopbackTypeOK'
      BY <3>2, <3>3
    <3> HIDE DEF LoopbackTypeOK, Claimant, Handed
    <3>8. \A l \in Callback : Handed(l)' => ResultOf(l)'
      <4> HIDE DEF LoopbackInv
      <4>1. ResultOf(k)'
        BY <3>1, <3>3 DEF ResultOf
      <4> HIDE DEF ResultOf
      <4> QED
        BY <3>5, <4>1
    <3>9. \A l \in Callback : handler'[l] # "claimed"
      BY <3>3, <3>5 DEF LoopbackTypeOK
    <3> QED
      BY <3>1, <3>3, <3>5, <3>6, <3>7, <3>8, <3>9 DEF LoopbackTypeOK
  <2>5. CASE Reply(k)
    BY <2>5 DEF Reply
  <2> QED
    BY <1>4, <2>1, <2>2, <2>3, <2>4, <2>5 DEF HandlerStep
<1> QED
  BY <1>1, <1>2, <1>3, <1>4, LoopbackSteps

\* oauthloopback/listener.go:108-140, handleCallback: however many requests reach the listener, and in
\* whatever order their handlers, the caller and its context move, one browser at most
\* is told how the sign-in went: the one whose callback Wait returns.
THEOREM FirstCallbackWins == CallsSpec => []OneCallbackWins
<1>1. LoopbackInv => OneCallbackWins
  BY DEF LoopbackInv, OneCallbackWins, Claimant, Handed, ResultOf, Told
<1> QED
  BY LoopbackInit, LoopbackStep, <1>1, PTL DEF CallsSpec

-----------------------------------------------------------------------------
(* A call of one request.                                                  *)

\* What each verdict takes.
ToldRightly ==
  /\ told = "ok" => response.status = "2xx" /\ response.says \in {"done", "empty"}
  /\ told = "401" => response.status = "401" \/ response.says = "unauthorized"
  /\ told = "unavailable" =>
       response.status \in {"404", "2xx"} \/ response.says = "unauthorized"

HttpInv ==
  /\ HttpTypeOK
  /\ at = asked \/ (asked = "cn" /\ at = "global" /\ ~exists)
  /\ ran \in {<< >>, <<at>>}
  /\ call \in {"off", "send"} => ran = << >>
  /\ call \in {"flight", "stream"} => ran = <<at>>
  /\ response # NoResponse => ran = <<at>>
  /\ call # "ended" => told = "none"
  /\ call \in {"off", "send", "flight"} => response = NoResponse
  /\ call = "stream" => response \in Response /\ response.status = "2xx" /\ response.says = "done"
  /\ told \in {"ok", "401", "unavailable"} => response \in Response
  /\ ToldRightly

LEMMA HttpInit == CallsInit => HttpInv
<1> SUFFICES ASSUME CallsInit PROVE HttpInv
  OBVIOUS
<1>1. /\ call \in {"off", "send"} /\ kind \in Kind /\ asked \in Gateway /\ exists \in BOOLEAN
      /\ at = asked /\ ran = << >> /\ response = NoResponse /\ told = "none"
  BY DEF CallsInit, Kind, Gateway
<1>2. << >> \in Seq(Gateway)
  OBVIOUS
<1> QED
  BY <1>1, <1>2 DEF HttpInv, HttpTypeOK, ToldRightly

LEMMA RequestSteps ==
  [CallsNext]_callVars => UNCHANGED requestCallVars \/ DiagStep
  BY DEF CallsNext, callVars, Cancel, EventsCall, PollCall, RequestCall, LoopbackCall,
         OtherStep, requestCallVars

\* What a reply may come to, with the status and the body it takes.
LEMMA VerdictIsRight ==
  ASSUME kind \in Kind, NEW r \in Response, r.says \in Body
  PROVE  /\ Verdict(r) \in {"ok", "401", "403", "404", "other", "undecodable", "refused",
                            "unconfirmed", "unavailable"}
         /\ Verdict(r) = "ok" => r.status = "2xx" /\ r.says \in {"done", "empty"}
         /\ Verdict(r) = "401" => r.status = "401" \/ r.says = "unauthorized"
         /\ Verdict(r) = "unavailable" =>
              r.status \in {"404", "2xx"} \/ r.says = "unauthorized"
<1>1. r.status \in {"2xx", "401", "403", "404", "other"}
  BY DEF Response
<1>2. CASE kind = "start"
  BY <1>1, <1>2 DEF Verdict, StartVerdict, Body
<1>3. CASE kind # "start"
  BY <1>1, <1>3 DEF Verdict, WrapperVerdict, DoError, Body
<1> QED
  BY <1>2, <1>3

LEMMA SingletonIsSeq ==
  ASSUME NEW S, NEW x \in S
  PROVE  <<x>> \in Seq(S)
  OBVIOUS

LEMMA HttpStepKeeps ==
  ASSUME HttpInv, DiagStep
  PROVE  HttpInv'
<1> USE HttpAssumption DEF HttpInv, HttpTypeOK, ToldRightly, requestVars, Tell
<1>1. CASE InvalidArguments
  BY <1>1 DEF InvalidArguments
<1>2. CASE SendRequest
  <2>1. ran' = <<at>> /\ at \in Gateway
    BY <1>2 DEF SendRequest
  <2>2. ran' \in Seq(Gateway)
    BY <2>1, SingletonIsSeq, Zenon
  <2> QED
    BY <1>2, <2>1, <2>2 DEF SendRequest
<1>3. ASSUME NEW how \in {"no such host", "unreachable", "no answer"}, RequestFails(how)
      PROVE  HttpInv'
  <2>1. CASE FallsBack(how)
    BY <1>3, <2>1 DEF RequestFails, FallsBack, Gateway
  <2>2. CASE ~FallsBack(how)
    BY <1>3, <2>2 DEF RequestFails
  <2> QED
    BY <2>1, <2>2
<1>4. ASSUME NEW r \in Response, r.says \in Body, TakeResponse(r) PROVE HttpInv'
  <2>1. r.status \in {"2xx", "401", "403", "404", "other"}
    BY DEF Response
  <2>2. CASE kind # "stream" /\ Tell(Verdict(r))
    BY <1>4, <2>2, VerdictIsRight DEF TakeResponse
  <2>3. CASE kind = "stream" /\ r.status # "2xx" /\ Tell(r.status)
    BY <1>4, <2>1, <2>3 DEF TakeResponse
  <2>4. CASE kind = "stream" /\ r.status = "2xx" /\ r.says = "done" /\ call' = "stream"
             /\ UNCHANGED told
    BY <1>4, <2>4 DEF TakeResponse
  <2> QED
    BY <1>4, <2>2, <2>3, <2>4 DEF TakeResponse
<1>5. ASSUME NEW line \in DiagLine, TakeDiagLine(line) PROVE HttpInv'
  <2>1. /\ call = "stream" /\ UNCHANGED <<kind, asked, exists, at, ran, response>>
        /\ \/ UNCHANGED <<call, told>>
           \/ call' = "ended" /\ told' \in {"too large", "emit", "stream error", "invalid"}
    BY <1>5 DEF TakeDiagLine, TakeDelta, TakeDone, TakeError, TakeJunk, ReadsOn
  <2> QED
    BY <2>1
<1>6. ASSUME NEW how \in {"end", "broken"}, StreamEnds(how) PROVE HttpInv'
  BY <1>6 DEF StreamEnds, Ending
<1> QED
  BY <1>1, <1>2, <1>3, <1>4, <1>5, <1>6 DEF DiagStep, HttpStep

LEMMA HttpInvHolds == CallsSpec => []HttpInv
<1>1. HttpInv /\ UNCHANGED requestCallVars => HttpInv'
  <2> SUFFICES ASSUME HttpInv, UNCHANGED requestCallVars PROVE HttpInv'
    OBVIOUS
  <2>1. UNCHANGED <<call, kind, asked, exists, at, ran, response, told>>
    BY DEF requestCallVars, httpVars, requestVars
  <2>2. HttpTypeOK' /\ ToldRightly'
    BY <2>1 DEF HttpInv, HttpTypeOK, ToldRightly
  <2> QED
    BY <2>1, <2>2 DEF HttpInv
<1> QED
  BY HttpInit, RequestSteps, HttpStepKeeps, <1>1, PTL DEF CallsSpec

\* client.go:82 and the wrappers: whatever fails, and whatever comes back, a request is
\* run at most once, by a gateway of the caller's region unless that has no name, and
\* success, an expired session and a missing OAuth2 are reported only of a gateway that
\* ran it and said so.
THEOREM RequestsRunOnce == CallsSpec => []SentOnceAndTold
<1>1. HttpInv => SentOnceAndTold
  <2> SUFFICES ASSUME HttpInv PROVE SentOnceAndTold
    OBVIOUS
  <2>1. CASE ran = << >>
    BY <2>1, HttpAssumption DEF HttpInv, ToldRightly, SentOnceAndTold
  <2>2. CASE ran = <<at>>
    <3>1. Len(ran) = 1 /\ DOMAIN ran = {1} /\ ran[1] = at /\ ran # << >>
      BY <2>2
    <3> QED
      BY <3>1, HttpAssumption DEF HttpInv, ToldRightly, SentOnceAndTold
  <2> QED
    BY <2>1, <2>2 DEF HttpInv
<1> QED
  BY HttpInvHolds, <1>1, PTL

-----------------------------------------------------------------------------
(* The diagnostic chat.                                                    *)

\* What has been read is what was handed on, and perhaps the line that made it whole.
ReadIsShown ==
  /\ said = emitted \/ \E l \in DiagLine : said = Append(emitted, l) /\ l.kind = "done"
  /\ emitted = << >> => said = << >>

DiagInv ==
  /\ DiagTypeOK
  /\ \A n \in DOMAIN emitted : emitted[n].kind = "delta"
  /\ Size(emitted) <= MaxReply
  /\ call \in {"off", "send", "flight"} => said = << >> /\ emitted = << >>
  /\ call = "stream" => ReadIsShown
  /\ WholeRepliesOnly

LEMMA PrefixOfAppend ==
  ASSUME NEW S, NEW s \in Seq(S), NEW t \in Seq(S), NEW x \in S, IsPrefix(s, t)
  PROVE  IsPrefix(s, Append(t, x))
<1>1. Len(s) \in Nat /\ Len(t) \in Nat /\ Len(s) <= Len(t) /\ Len(Append(t, x)) = Len(t) + 1
  BY DEF IsPrefix
<1>2. \A n \in 1..Len(t) : Append(t, x)[n] = t[n]
  OBVIOUS
<1>3. SubSeq(Append(t, x), 1, Len(s)) = SubSeq(t, 1, Len(s))
  BY <1>1, <1>2
<1> QED
  BY <1>1, <1>3 DEF IsPrefix

LEMMA PrefixOfItself ==
  ASSUME NEW S, NEW s \in Seq(S)
  PROVE  IsPrefix(s, s)
  BY DEF IsPrefix

LEMMA FrontOfAppend ==
  ASSUME NEW S, NEW s \in Seq(S), NEW x \in S
  PROVE  Front(Append(s, x)) = s /\ Last(Append(s, x)) = x
<1>1. Len(Append(s, x)) = Len(s) + 1 /\ Len(s) \in Nat
  OBVIOUS
<1>2. SubSeq(Append(s, x), 1, (Len(s) + 1) - 1) = s
  OBVIOUS
<1> QED
  BY <1>1, <1>2 DEF Front, Last

LEMMA DiagInit == CallsInit => DiagInv
<1> SUFFICES ASSUME CallsInit PROVE DiagInv
  OBVIOUS
<1>1. said = << >> /\ emitted = << >> /\ told = "none" /\ call \in {"off", "send"}
  BY DEF CallsInit
<1>2. << >> \in Seq(DiagLine) /\ DOMAIN << >> = {}
  OBVIOUS
<1>3. IsPrefix(<< >>, << >>)
  BY <1>2, PrefixOfItself
<1> QED
  BY <1>1, <1>2, <1>3, SizeOfNothing, DiagAssumption DEF DiagInv, DiagTypeOK, WholeRepliesOnly

LEMMA DiagStepKeeps ==
  ASSUME HttpInv, DiagInv, DiagStep
  PROVE  DiagInv'
<1> USE DEF Tell
<1>1. CASE HttpStep /\ UNCHANGED diagVars
  <2>1. UNCHANGED <<said, emitted>>
    BY <1>1 DEF diagVars
  <2>2. call \in {"send", "flight"} /\ call' \in {"send", "flight", "stream", "ended"}
    BY <1>1
    DEF HttpStep, InvalidArguments, SendRequest, RequestFails, TakeResponse, requestVars
  <2>3. said = << >> /\ emitted = << >>
    BY <2>2 DEF DiagInv
  <2>4. kind' = kind /\ (kind = "stream" => told' # "ok")
    <3>1. CASE InvalidArguments
      BY <3>1 DEF InvalidArguments, requestVars
    <3>2. CASE SendRequest
      BY <3>2, <2>2 DEF SendRequest, requestVars, HttpInv
    <3>3. ASSUME NEW how \in {"no such host", "unreachable", "no answer"}, RequestFails(how)
          PROVE  kind' = kind /\ (kind = "stream" => told' # "ok")
      BY <3>3, <2>2 DEF RequestFails, requestVars, HttpInv
    <3>4. ASSUME NEW r \in Response, TakeResponse(r)
          PROVE  kind' = kind /\ (kind = "stream" => told' # "ok")
      BY <3>4, <2>2 DEF TakeResponse, requestVars, HttpInv, Response
    <3> QED
      BY <1>1, <3>1, <3>2, <3>3, <3>4 DEF HttpStep
  <2>5. ReadIsShown'
    BY <2>1, <2>3 DEF ReadIsShown
  <2>6. WholeRepliesOnly'
    BY <2>1, <2>4 DEF WholeRepliesOnly, DiagInv
  <2> QED
    BY <2>1, <2>3, <2>5, <2>6 DEF DiagInv, DiagTypeOK
<1>2. ASSUME NEW line \in DiagLine, TakeDiagLine(line) PROVE DiagInv'
  <2>1. /\ call = "stream" /\ told = "none" /\ kind' = kind
        /\ said' = Append(said, line)
        /\ said \in Seq(DiagLine) /\ emitted \in Seq(DiagLine) /\ ReadIsShown
        /\ IsPrefix(emitted, said) /\ Size(emitted) <= MaxReply
        /\ \A n \in DOMAIN emitted : emitted[n].kind = "delta"
    BY <1>2 DEF TakeDiagLine, requestVars, HttpInv, DiagInv, DiagTypeOK, WholeRepliesOnly
  <2>2. said' \in Seq(DiagLine) /\ IsPrefix(emitted, said')
    BY <2>1, PrefixOfAppend
  <2>3. ASSUME call' = "ended", told' # "ok", emitted' = emitted PROVE DiagInv'
    BY <2>1, <2>2, <2>3 DEF DiagInv, DiagTypeOK, WholeRepliesOnly
  <2>4. ~Whole => said = emitted
    <3> SUFFICES ASSUME NEW l \in DiagLine, said = Append(emitted, l), l.kind = "done"
                 PROVE  Whole
      BY <2>1 DEF ReadIsShown
    <3>1. Len(emitted) + 1 \in DOMAIN said /\ said[Len(emitted) + 1] = l
      BY <2>1
    <3> QED
      BY <3>1 DEF Whole
  <2>5. CASE TakeDelta(line)
    <3>1. CASE emitted' = emitted
      <4>1. Append(emitted, line) # emitted
        BY <2>1
      <4> QED
        BY <2>3, <2>5, <3>1, <4>1 DEF TakeDelta
    <3>2. CASE emitted' # emitted
      <4>1. /\ emitted' = Append(emitted, line) /\ said' = emitted'
            /\ Size(emitted) + line.size <= MaxReply
            /\ call' \in {"stream", "ended"} /\ told' # "ok"
        BY <2>1, <2>4, <2>5, <3>2 DEF TakeDelta, ReadsOn
      <4>2. Size(emitted') <= MaxReply
        BY <2>1, <4>1, SizeOfAppend
      <4>3. emitted' # << >> /\ \A n \in DOMAIN emitted' : emitted'[n].kind = "delta"
        <5>1. /\ Len(emitted') = Len(emitted) + 1 /\ emitted'[Len(emitted) + 1] = line
              /\ \A n \in 1..Len(emitted) : emitted'[n] = emitted[n]
          BY <2>1, <4>1
        <5>2. line.kind = "delta"
          BY <2>5 DEF TakeDelta
        <5>3. \A n \in 1..(Len(emitted) + 1) : emitted'[n].kind = "delta"
          BY <2>1, <5>1, <5>2, SMTT(30)
        <5>4. emitted' \in Seq(DiagLine) /\ Len(emitted') # 0
          BY <2>1, <4>1
        <5> QED
          BY <5>1, <5>3, <5>4
      <4>4. IsPrefix(emitted', said')
        BY <2>2, <4>1, PrefixOfItself
      <4>5. ReadIsShown'
        BY <4>1, <4>3 DEF ReadIsShown
      <4> QED
        BY <2>2, <4>1, <4>2, <4>3, <4>4, <4>5 DEF DiagInv, DiagTypeOK, WholeRepliesOnly
    <3> QED
      BY <3>1, <3>2
  <2>6. CASE TakeDone(line)
    <3>1. /\ emitted' = emitted /\ emitted # << >> /\ call' = call /\ told' = told
          /\ said' = Append(emitted, line) /\ line.kind = "done"
      BY <2>1, <2>4, <2>6 DEF TakeDone, ReadsOn
    <3>2. ReadIsShown'
      BY <3>1 DEF ReadIsShown
    <3> QED
      BY <2>1, <2>2, <3>1, <3>2 DEF DiagInv, DiagTypeOK, WholeRepliesOnly
  <2>7. CASE TakeError(line)
    BY <2>3, <2>7 DEF TakeError
  <2>8. CASE TakeJunk(line)
    BY <2>3, <2>8 DEF TakeJunk
  <2> QED
    BY <1>2, <2>5, <2>6, <2>7, <2>8 DEF TakeDiagLine
<1>3. ASSUME NEW how \in {"end", "broken"}, StreamEnds(how) PROVE DiagInv'
  <2>1. /\ call = "stream" /\ call' = "ended" /\ told' = Ending(how)
        /\ UNCHANGED <<kind, said, emitted>>
    BY <1>3 DEF StreamEnds, requestVars
  <2>2. ReadIsShown /\ DiagTypeOK /\ IsPrefix(emitted, said)
    BY <2>1 DEF DiagInv, WholeRepliesOnly
  <2>3. ASSUME told' = "ok"
        PROVE  emitted # << >> /\ Front(said) = emitted /\ Last(said).kind = "done"
    <3>1. Whole
      BY <2>1, <2>3 DEF Ending
    <3>2. PICK l \in DiagLine : said = Append(emitted, l) /\ l.kind = "done"
      <4>1. said # emitted
        BY <3>1 DEF DiagInv, Whole
      <4> QED
        BY <2>2, <4>1 DEF ReadIsShown
    <3>3. Front(said) = emitted /\ Last(said) = l
      BY <2>2, <3>2, FrontOfAppend DEF DiagTypeOK
    <3>4. emitted # << >>
      BY <2>2, <3>2 DEF ReadIsShown, DiagTypeOK
    <3> QED
      BY <3>2, <3>3, <3>4
  <2>4. WholeRepliesOnly'
    BY <2>1, <2>2, <2>3 DEF WholeRepliesOnly, DiagInv
  <2> QED
    BY <2>1, <2>4 DEF DiagInv, DiagTypeOK
<1> QED
  BY <1>1, <1>2, <1>3 DEF DiagStep

LEMMA DiagInvHolds == CallsSpec => []DiagInv
<1>1. DiagInv /\ UNCHANGED requestCallVars => DiagInv'
  <2> SUFFICES ASSUME DiagInv, UNCHANGED requestCallVars PROVE DiagInv'
    OBVIOUS
  <2>1. UNCHANGED <<call, kind, told, said, emitted>>
    BY DEF requestCallVars, httpVars, requestVars, diagVars
  <2> QED
    BY <2>1 DEF DiagInv, DiagTypeOK, WholeRepliesOnly, ReadIsShown
<1> QED
  BY DiagInit, HttpInvHolds, RequestSteps, DiagStepKeeps, <1>1, PTL DEF CallsSpec

\* diagnostics.go:94-142: for a reply of any size and any number of lines, what has been
\* shown is a beginning of it within its size, and success means all of it, and nothing
\* after it.
THEOREM RepliesAreWhole == CallsSpec => []WholeRepliesOnly
<1>1. DiagInv => WholeRepliesOnly
  BY DEF DiagInv
<1> QED
  BY DiagInvHolds, <1>1, PTL

-----------------------------------------------------------------------------
(* The polling of a sign-in.                                               *)

\* The polls it may have ended with.
Ended == {i \in 1..Len(answers) : answers[i] \in Final \/ Exhausted(i)}

SlowDowns == {i \in 1..Len(answers) : answers[i] = "slow_down"}

\* fails counts the failures at the end of what was answered, and no more.
FailsAreTheLast ==
  LET n == Len(answers)
  IN  /\ fails <= n
      /\ \A i \in (n - fails + 1)..n : answers[i] = "lost"
      /\ fails < n => answers[n - fails] # "lost"

PollInv ==
  /\ PollTypeOK
  /\ FailsAreTheLast
  /\ interval = FirstInterval(first) + 5 * Cardinality(SlowDowns)
  /\ poll = "ask" => Len(answers) < MaxPolls
  /\ poll # "done" => Ended = {} /\ fails <= RetryBudget /\ result = "none"
  /\ poll = "done" =>
       \/ Ended = {} /\ result = "cancelled"
       \/ /\ Ended = {Len(answers)}
          /\ result = IF answers[Len(answers)] = "lost" THEN "gave_up" ELSE answers[Len(answers)]

LEMMA PollInit == CallsInit => PollInv
<1> SUFFICES ASSUME CallsInit PROVE PollInv
  OBVIOUS
<1>1. /\ answers = << >> /\ fails = 0 /\ result = "none" /\ poll \in {"off", "sleep"}
      /\ first \in Intervals /\ interval = FirstInterval(first) /\ flow \in Flow
  BY DEF CallsInit, Flow
<1>2. << >> \in Seq(Answer) /\ Len(answers) = 0
  BY <1>1
<1>3. SlowDowns = {} /\ Ended = {}
  BY <1>2 DEF SlowDowns, Ended
<1>4. Cardinality(SlowDowns) = 0
  BY <1>3, FS_EmptySet
<1>5. interval \in Nat
  BY <1>1, PollAssumption DEF FirstInterval
<1> QED
  BY <1>1, <1>2, <1>3, <1>4, <1>5, PollAssumption DEF PollInv, PollTypeOK, FailsAreTheLast

LEMMA PollSteps ==
  [CallsNext]_callVars => UNCHANGED pollVars \/ PollStep
  BY DEF CallsNext, callVars, Cancel, EventsCall, PollCall, RequestCall, LoopbackCall, OtherStep

LEMMA AnswersAreKnown ==
  ASSUME NEW f \in Flow, NEW a \in AnswersIn[f]
  PROVE  a \in Answer
<1>1. PICK r \in Response \cup {NoResponse} : a = AnswerOf(f, r)
  BY DEF AnswersIn
<1>2. CASE r = NoResponse
  BY <1>1, <1>2 DEF AnswerOf, Answer
<1>3. CASE r # NoResponse /\ f = "oauth2"
  BY <1>1, <1>3 DEF AnswerOf, Answer, FormAnswer, Code, Final
<1>4. CASE r # NoResponse /\ f # "oauth2"
  BY <1>1, <1>4 DEF AnswerOf, Answer, EnvelopeAnswer, Code, Final
<1> QED
  BY <1>2, <1>3, <1>4

\* One more answer: what there was stays as it was.
LEMMA OneMoreAnswer ==
  ASSUME PollTypeOK, NEW a \in Answer, answers' = Append(answers, a),
         NEW n \in Nat, n = Len(answers)
  PROVE  /\ answers' \in Seq(Answer) /\ Len(answers') = n + 1
         /\ answers'[n + 1] = a
         /\ \A i \in 1..n : answers'[i] = answers[i]
         /\ Ended' = Ended \cup (IF a \in Final \/ Exhausted(n + 1)' THEN {n + 1} ELSE {})
<1>1. answers \in Seq(Answer) /\ RetryBudget \in Nat
  BY PollAssumption DEF PollTypeOK
<1>2. /\ answers' \in Seq(Answer) /\ Len(answers') = n + 1 /\ answers'[n + 1] = a
      /\ \A i \in 1..n : answers'[i] = answers[i]
  BY <1>1
<1>3. \A i \in 1..n : Exhausted(i)' <=> Exhausted(i)
  BY <1>1, <1>2 DEF Exhausted
<1>4. Ended' = {i \in 1..(n + 1) : answers'[i] \in Final \/ Exhausted(i)'}
  BY <1>2 DEF Ended
<1>5. Ended = {i \in 1..n : answers'[i] \in Final \/ Exhausted(i)'}
  BY <1>2, <1>3 DEF Ended
<1>6. CASE a \in Final \/ Exhausted(n + 1)'
  BY <1>2, <1>4, <1>5, <1>6
<1>7. CASE ~(a \in Final \/ Exhausted(n + 1)')
  BY <1>2, <1>4, <1>5, <1>7
<1> QED
  BY <1>2, <1>6, <1>7

\* The loop is exhausted when its count says so.
CountsOut == Exhausted(Len(answers)) <=> fails > RetryBudget

LEMMA ExhaustedWhenCounted == PollTypeOK /\ FailsAreTheLast => CountsOut
<1> SUFFICES ASSUME PollTypeOK, FailsAreTheLast PROVE CountsOut
  OBVIOUS
<1> DEFINE n == Len(answers)
<1>1. n \in Nat /\ RetryBudget \in Nat /\ fails \in Nat /\ fails <= n
  BY PollAssumption DEF PollTypeOK, FailsAreTheLast
<1>2. ASSUME fails > RetryBudget PROVE Exhausted(n)
  <2>1. \A i \in (n - RetryBudget)..n : i \in (n - fails + 1)..n
    BY <1>1, <1>2
  <2> QED
    BY <1>1, <1>2, <2>1 DEF Exhausted, FailsAreTheLast
<1>3. ASSUME Exhausted(n) PROVE fails > RetryBudget
  <2> SUFFICES ASSUME fails <= RetryBudget PROVE FALSE
    BY <1>1
  <2>1. fails < n /\ n - fails \in (n - RetryBudget)..n
    BY <1>1, <1>3 DEF Exhausted
  <2> QED
    BY <1>3, <2>1 DEF Exhausted, FailsAreTheLast
<1> QED
  BY <1>2, <1>3 DEF CountsOut

\* Heed counts on from the last answer, or starts anew.
LEMMA FailsStayTheLast ==
  ASSUME PollTypeOK, FailsAreTheLast, NEW a \in Answer, answers' = Append(answers, a),
         fails' = IF a = "lost" THEN fails + 1 ELSE 0
  PROVE  FailsAreTheLast'
<1>0. PICK n \in Nat : n = Len(answers)
  BY DEF PollTypeOK
<1>1. /\ Len(answers') = n + 1 /\ answers'[n + 1] = a /\ n \in Nat
      /\ \A i \in 1..n : answers'[i] = answers[i]
  BY <1>0, OneMoreAnswer
<1>2. fails \in Nat /\ fails <= n
  BY <1>0, PollAssumption DEF PollTypeOK, FailsAreTheLast
<1>3. CASE a = "lost"
  <2>1. fails' = fails + 1 /\ (n + 1) - fails' = n - fails
    BY <1>2, <1>3
  <2>2. \A i \in (n + 1 - fails' + 1)..(n + 1) : answers'[i] = "lost"
    <3> SUFFICES ASSUME NEW i \in (n + 1 - fails' + 1)..(n + 1) PROVE answers'[i] = "lost"
      OBVIOUS
    <3>1. CASE i = n + 1
      BY <1>1, <1>3, <3>1
    <3>2. CASE i # n + 1
      <4>1. i \in (n - fails + 1)..n /\ i \in 1..n
        BY <1>1, <1>2, <2>1, <3>2
      <4> QED
        BY <1>0, <1>1, <4>1 DEF FailsAreTheLast
    <3> QED
      BY <3>1, <3>2
  <2>3. fails' < n + 1 => answers'[n + 1 - fails'] # "lost"
    <3> SUFFICES ASSUME fails' < n + 1 PROVE answers'[n - fails] # "lost"
      BY <1>1, <1>2, <2>1
    <3>1. fails < n /\ n - fails \in 1..n
      BY <1>1, <1>2, <2>1
    <3> QED
      BY <1>0, <1>1, <3>1 DEF FailsAreTheLast
  <2> QED
    BY <1>1, <1>2, <2>1, <2>2, <2>3 DEF FailsAreTheLast
<1>4. CASE a # "lost"
  BY <1>1, <1>4 DEF FailsAreTheLast
<1> QED
  BY <1>3, <1>4

LEMMA SlowDownsAreCounted ==
  ASSUME PollTypeOK, NEW a \in Answer, answers' = Append(answers, a),
         interval = FirstInterval(first) + 5 * Cardinality(SlowDowns), first' = first,
         interval' = IF a = "slow_down" THEN interval + 5 ELSE interval
  PROVE  interval' = FirstInterval(first)' + 5 * Cardinality(SlowDowns')
<1>0. PICK n \in Nat : n = Len(answers)
  BY DEF PollTypeOK
<1>1. /\ Len(answers') = n + 1 /\ answers'[n + 1] = a /\ n \in Nat
      /\ \A i \in 1..n : answers'[i] = answers[i]
  BY <1>0, OneMoreAnswer
<1>2. SlowDowns \in SUBSET (1..n)
  BY <1>0 DEF SlowDowns
<1>3. IsFiniteSet(SlowDowns)
  <2>1. IsFiniteSet(1..n)
    BY FS_Interval
  <2> QED
    BY <1>2, <2>1, FS_Subset, Zenon
<1>4. Cardinality(SlowDowns) \in Nat
  BY <1>3, FS_CardinalityType, Zenon
<1>5. FirstInterval(first) \in Nat
  BY PollAssumption DEF PollTypeOK, FirstInterval
<1>6. n + 1 \notin SlowDowns
  BY <1>0 DEF SlowDowns
<1>7. CASE a = "slow_down"
  <2>1. SlowDowns' = SlowDowns \cup {n + 1}
    BY <1>0, <1>1, <1>7 DEF SlowDowns
  <2>2. Cardinality(SlowDowns') = Cardinality(SlowDowns) + 1
    BY <1>3, <1>6, <2>1, FS_AddElement, Zenon
  <2> QED
    BY <1>4, <1>5, <1>7, <2>2 DEF FirstInterval
<1>8. CASE a # "slow_down"
  <2>1. SlowDowns' = SlowDowns
    BY <1>0, <1>1, <1>8 DEF SlowDowns
  <2> QED
    BY <1>8, <2>1 DEF FirstInterval
<1> QED
  BY <1>7, <1>8

LEMMA AskKeeps ==
  ASSUME PollInv, NEW a \in AnswersIn[flow], Ask(a)
  PROVE  PollInv'
<1>0. PollTypeOK /\ FailsAreTheLast /\ flow \in Flow
  BY DEF PollInv, PollTypeOK
<1>n. PICK n \in Nat : n = Len(answers)
  BY <1>0 DEF PollTypeOK
<1>1. a \in Answer
  BY <1>0, AnswersAreKnown
<1>2. /\ answers' = Append(answers, a) /\ poll = "ask" /\ flow' = flow /\ first' = first
      /\ fails' = IF a = "lost" THEN fails + 1 ELSE 0
      /\ interval' = IF a = "slow_down" THEN interval + 5 ELSE interval
  BY DEF Ask, Heed
<1>3. Ended = {} /\ fails <= RetryBudget /\ result = "none" /\ n < MaxPolls
  BY <1>2, <1>n DEF PollInv
<1>4. /\ n \in Nat /\ fails \in Nat /\ interval \in Nat /\ RetryBudget \in Nat /\ MaxPolls \in Nat
  BY <1>0, PollAssumption DEF PollTypeOK
<1>5. /\ answers' \in Seq(Answer) /\ Len(answers') = n + 1 /\ answers'[n + 1] = a
      /\ Ended' = IF a \in Final \/ Exhausted(n + 1)' THEN {n + 1} ELSE {}
  BY <1>0, <1>1, <1>2, <1>3, <1>n, OneMoreAnswer
<1>6. FailsAreTheLast'
  BY <1>0, <1>1, <1>2, FailsStayTheLast
<1>7. interval' = FirstInterval(first)' + 5 * Cardinality(SlowDowns')
  BY <1>0, <1>1, <1>2, SlowDownsAreCounted DEF PollInv
<1>8. PollTypeOK'
  <2>1. fails' \in 0..(RetryBudget + 1) /\ interval' \in Nat
    BY <1>2, <1>3, <1>4
  <2>2. poll' \in {"sleep", "done"} /\ result' \in Final \cup {"none", "gave_up"}
    BY <1>2, <1>3 DEF Ask, Heed
  <2> QED
    BY <1>0, <1>2, <1>3, <1>4, <1>5, <2>1, <2>2 DEF PollTypeOK
<1>9. Exhausted(n + 1)' <=> fails' > RetryBudget
  <2>1. CountsOut'
    BY <1>6, <1>8, ExhaustedWhenCounted, PTL
  <2> QED
    BY <1>5, <2>1 DEF CountsOut, Exhausted
<1>10. "lost" \notin Final
  BY DEF Final
<1>11. CASE a \in Final
  BY <1>2, <1>4, <1>5, <1>6, <1>7, <1>8, <1>10, <1>11 DEF PollInv, Ask, Heed
<1>12. CASE a = "lost" /\ fails' > RetryBudget
  BY <1>2, <1>4, <1>5, <1>6, <1>7, <1>8, <1>9, <1>10, <1>12 DEF PollInv, Ask, Heed
<1>13. CASE a \notin Final /\ ~(a = "lost" /\ fails' > RetryBudget)
  <2>1. poll' = "sleep" /\ result' = "none" /\ fails' <= RetryBudget
    BY <1>2, <1>3, <1>4, <1>13 DEF Ask, Heed
  <2>2. Ended' = {}
    BY <1>2, <1>4, <1>5, <1>9, <1>13, <2>1
  <2> QED
    BY <1>6, <1>7, <1>8, <2>1, <2>2 DEF PollInv
<1> QED
  BY <1>11, <1>12, <1>13

LEMMA PollStepKeeps == PollInv /\ [CallsNext]_callVars => PollInv'
<1> SUFFICES ASSUME PollInv, [CallsNext]_callVars PROVE PollInv'
  OBVIOUS
<1>1. ASSUME UNCHANGED <<flow, first, interval, fails, answers>>
      PROVE  Ended' = Ended /\ SlowDowns' = SlowDowns /\ FailsAreTheLast'
  BY <1>1 DEF Ended, SlowDowns, Exhausted, FailsAreTheLast, PollInv
<1>2. CASE UNCHANGED pollVars
  BY <1>1, <1>2 DEF pollVars, PollInv, PollTypeOK, FirstInterval
<1>3. CASE Wake
  BY <1>1, <1>3 DEF Wake, PollInv, PollTypeOK, FirstInterval
<1>4. ASSUME NEW a \in AnswersIn[flow], Ask(a) PROVE PollInv'
  BY <1>4, AskKeeps
<1> QED
  BY <1>2, <1>3, <1>4, PollSteps DEF PollStep

\* device_auth.go, oauth2.go and seller_oauth.go: for any retry budget and number of
\* polls, whatever is answered or lost, a sign-in ends with the first final answer or the
\* first RetryBudget + 1 failures in a row, asks nothing more, and never polls faster than
\* it was told.
THEOREM SignInsEndAsTold == CallsSpec => []PollsAsTold
<1>1. PollInv => PollsAsTold
  <2> SUFFICES ASSUME PollInv PROVE PollsAsTold
    OBVIOUS
  <2>1. interval = FirstInterval(first)
          + 5 * Cardinality({i \in 1..Len(answers) : answers[i] = "slow_down"})
    BY DEF PollInv, SlowDowns
  <2>2. \/ Ended = {} /\ result \in {"none", "cancelled"}
        \/ /\ Ended = {Len(answers)}
           /\ result = IF answers[Len(answers)] = "lost" THEN "gave_up" ELSE answers[Len(answers)]
    BY DEF PollInv
  <2> QED
    BY <2>1, <2>2 DEF PollsAsTold, Ended
<1> QED
  BY PollInit, PollStepKeeps, <1>1, PTL DEF CallsSpec

-----------------------------------------------------------------------------
(* What the lines of a connection mean, one line at a time.                 *)

\* A position above all others adds its element at the end.
LEMMA AtPositionsTop ==
  ASSUME NEW s, NEW S \in SUBSET Int, IsFiniteSet(S), NEW a \in Int, \A x \in S : x < a
  PROVE  AtPositions(s, S \cup {a}) = Append(AtPositions(s, S), s[a])
<1>1. PICK n : n = Cardinality(S)
  OBVIOUS
<1>2. n \in Nat /\ Cardinality(S \cup {a}) = n + 1
  BY <1>1, OrderedTop
<1>3. /\ \A i \in 1..n : Ordered(S \cup {a})[i] = Ordered(S)[i]
      /\ Ordered(S \cup {a})[n + 1] = a
  <2>1. /\ \A i \in 1..Cardinality(S) : Ordered(S \cup {a})[i] = Ordered(S)[i]
        /\ Ordered(S \cup {a})[Cardinality(S) + 1] = a
    BY OrderedTop
  <2> QED
    BY <1>1, <2>1
<1> DEFINE f == [i \in 1..n |-> s[Ordered(S)[i]]]
           g == [i \in 1..(n + 1) |-> s[Ordered(S \cup {a})[i]]]
           T == {s[Ordered(S)[i]] : i \in 1..n} \cup {s[a]}
<1>4. AtPositions(s, S) = f /\ AtPositions(s, S \cup {a}) = g
  BY <1>1, <1>2 DEF AtPositions
<1>5. f \in [1..n -> T] /\ s[a] \in T
  OBVIOUS
<1>6. g[n + 1] = s[a] /\ \A i \in 1..n : g[i] = f[i]
  <2>1. n + 1 \in 1..(n + 1) /\ \A i \in 1..n : i \in 1..(n + 1)
    BY <1>2
  <2>2. g[n + 1] = s[Ordered(S \cup {a})[n + 1]]
    BY <2>1
  <2>3. \A i \in 1..n : g[i] = s[Ordered(S \cup {a})[i]]
    BY <2>1
  <2>4. \A i \in 1..n : f[i] = s[Ordered(S)[i]]
    OBVIOUS
  <2>. HIDE DEF f, g
  <2>. QED
    BY <1>3, <2>2, <2>3, <2>4
<1>7. DOMAIN g = 1..(n + 1)
  OBVIOUS
<1>8. g \in [1..(n + 1) -> T]
  <2>1. \A i \in 1..(n + 1) : i \in 1..n \/ i = n + 1
    BY <1>2
  <2>2. \A i \in 1..(n + 1) : g[i] \in T
    BY <1>5, <1>6, <2>1
  <2>. QED
    BY <2>2
<1>9. g = Append(f, s[a])
  <2>. HIDE DEF f, g, T
  <2>1. f \in Seq(T) /\ Len(f) = n
    BY <1>2, <1>5
  <2>2. g \in Seq(T) /\ Len(g) = n + 1
    BY <1>2, <1>8
  <2>3. Append(f, s[a]) \in Seq(T) /\ Len(Append(f, s[a])) = n + 1
    BY <1>5, <2>1
  <2>4. ASSUME NEW i \in 1..(n + 1)  PROVE  g[i] = Append(f, s[a])[i]
    <3>1. i \in 1..n \/ i = n + 1
      BY <1>2
    <3>. QED
      BY <1>2, <1>5, <1>6, <2>1, <3>1
  <2>. QED
    BY <1>2, <2>2, <2>3, <2>4
<1>. QED
  BY <1>4, <1>9

\* The lines of a part are finitely many, and before b.
LEMMA PartFinite ==
  ASSUME NEW lines, NEW b \in Nat \ {0}, NEW what
  PROVE  /\ Part(lines, b, what) \in SUBSET (1..(b - 1)) /\ IsFiniteSet(Part(lines, b, what))
         /\ Part(lines, b, what) \in SUBSET Int /\ \A i \in Part(lines, b, what) : i < b
<1>1. Part(lines, b, what) \in SUBSET (1..(b - 1))
  BY DEF Part
<1>2. IsFiniteSet(1..(b - 1))
  BY FS_Interval
<1>3. IsFiniteSet(Part(lines, b, what))
  BY <1>1, <1>2, FS_Subset
<1>4. \A i \in 1..(b - 1) : i \in Int /\ i < b
  OBVIOUS
<1>. QED
  BY <1>1, <1>3, <1>4

\* What one more line makes of a part.
LEMMA PartOfNothing == ASSUME NEW lines, NEW what PROVE Part(lines, 1, what) = {}
BY DEF Part

LEMMA PartAfterBlank ==
  ASSUME NEW lines, NEW b \in Nat \ {0}, lines[b].kind = "blank", NEW what
  PROVE  Part(lines, b + 1, what) = {}
<1> SUFFICES ASSUME NEW i \in Part(lines, b + 1, what)  PROVE  FALSE
  OBVIOUS
<1>1. i \in 1..b /\ \A j \in i..b : lines[j].kind # "blank"
  BY DEF Part
<1>2. b \in i..b
  BY <1>1
<1>. QED
  BY <1>1, <1>2

LEMMA PartAfterLine ==
  ASSUME NEW lines, NEW b \in Nat \ {0}, lines[b].kind # "blank", NEW what
  PROVE  Part(lines, b + 1, what) = Part(lines, b, what) \cup (IF lines[b].kind = what THEN {b} ELSE {})
<1>1. (b + 1) - 1 = b
  OBVIOUS
<1>2. ASSUME NEW i \in Part(lines, b + 1, what)
      PROVE  i \in Part(lines, b, what) \/ (i = b /\ lines[b].kind = what)
  <2>1. i \in 1..b /\ lines[i].kind = what /\ \A j \in i..b : lines[j].kind # "blank"
    BY <1>1 DEF Part
  <2>2. i = b \/ i \in 1..(b - 1)
    BY <2>1
  <2>3. \A j \in i..(b - 1) : j \in i..b
    BY <2>1
  <2>. QED
    BY <2>1, <2>2, <2>3 DEF Part
<1>3. ASSUME NEW i \in Part(lines, b, what)  PROVE  i \in Part(lines, b + 1, what)
  <2>1. i \in 1..(b - 1) /\ lines[i].kind = what /\ \A j \in i..(b - 1) : lines[j].kind # "blank"
    BY DEF Part
  <2>2. \A j \in i..b : j \in i..(b - 1) \/ j = b
    BY <2>1
  <2>3. i \in 1..b
    BY <2>1
  <2>. QED
    BY <1>1, <2>1, <2>2, <2>3 DEF Part
<1>4. lines[b].kind = what => b \in Part(lines, b + 1, what)
  <2>1. b \in 1..b /\ \A j \in b..b : j = b
    OBVIOUS
  <2>. QED
    BY <1>1, <2>1 DEF Part
<1>. QED
  BY <1>2, <1>3, <1>4

LEMMA GreatestOfTop ==
  ASSUME NEW S \in SUBSET Int, NEW a \in Int, \A x \in S : x < a
  PROVE  Greatest(S \cup {a}) = a
<1>1. \E x \in S \cup {a} : \A y \in S \cup {a} : y <= x
  OBVIOUS
<1>2. /\ Greatest(S \cup {a}) \in S \cup {a}
      /\ \A y \in S \cup {a} : y <= Greatest(S \cup {a})
  BY <1>1 DEF Greatest
<1>3. PICK g : g = Greatest(S \cup {a})
  OBVIOUS
<1>4. g \in S \cup {a} /\ g \in Int /\ a <= g
  BY <1>2, <1>3
<1>5. g \notin S
  BY <1>4
<1>. QED
  BY <1>3, <1>4, <1>5

\* What a parser that has read the lines before b is to hold.
Holds(lines, b, n, d) == EventAt(lines, b) = [type |-> n, data |-> d]

\* What it is to hold at the start, after a blank line and after another line.
LEMMA HoldsNothing ==
  ASSUME NEW lines
  PROVE  Holds(lines, 1, NoName, << >>)
BY PartOfNothing, AtNoPositions DEF Holds, EventAt

LEMMA HoldsAfterBlank ==
  ASSUME NEW lines, NEW b \in Nat \ {0}, lines[b].kind = "blank"
  PROVE  Holds(lines, b + 1, NoName, << >>)
BY PartAfterBlank, AtNoPositions DEF Holds, EventAt

LEMMA HoldsAfterLine ==
  ASSUME NEW lines, NEW b \in DOMAIN lines, b \in Nat \ {0}, NEW n, NEW d, Holds(lines, b, n, d)
  PROVE  /\ lines[b].kind = "event" => Holds(lines, b + 1, lines[b].arg, d)
         /\ lines[b].kind = "data" => Holds(lines, b + 1, n, Append(d, lines[b].arg))
         /\ lines[b].kind = "comment" => Holds(lines, b + 1, n, d)
<1> DEFINE args == [i \in DOMAIN lines |-> lines[i].arg]
           names(k) == Part(lines, k, "event")
           loads(k) == Part(lines, k, "data")
           type(k) == IF names(k) = {} THEN NoName ELSE args[Greatest(names(k))]
<1>1. \A k : EventAt(lines, k) = [type |-> type(k), data |-> AtPositions(args, loads(k))]
  BY DEF EventAt
<1>2. n = type(b) /\ d = AtPositions(args, loads(b))
  BY <1>1 DEF Holds
<1>3. args[b] = lines[b].arg
  OBVIOUS
<1>4. \A k, m, e : type(k) = m /\ AtPositions(args, loads(k)) = e => Holds(lines, k, m, e)
  BY <1>1 DEF Holds
<1>5. /\ lines[b].kind # "blank" => names(b + 1) = names(b) \cup (IF lines[b].kind = "event" THEN {b} ELSE {})
      /\ lines[b].kind # "blank" => loads(b + 1) = loads(b) \cup (IF lines[b].kind = "data" THEN {b} ELSE {})
  BY PartAfterLine
<1>6. /\ names(b) \in SUBSET Int /\ loads(b) \in SUBSET Int /\ IsFiniteSet(loads(b))
      /\ (\A x \in names(b) : x < b) /\ \A x \in loads(b) : x < b
  BY PartFinite
<1>7. b \in Int
  OBVIOUS
<1>8. CASE lines[b].kind = "event"
  <2>1. names(b + 1) = names(b) \cup {b} /\ loads(b + 1) = loads(b)
    <3>. HIDE DEF names, loads
    <3>. QED
      BY <1>8, <1>5
  <2>2. Greatest(names(b) \cup {b}) = b
    <3>. HIDE DEF names, loads
    <3>. QED
      BY <1>6, <1>7, GreatestOfTop
  <2>3. type(b + 1) = lines[b].arg
    BY <1>3, <2>1, <2>2
  <2>. HIDE DEF names, loads, type, args
  <2>. QED
    BY <1>2, <1>4, <1>8, <2>1, <2>3
<1>9. CASE lines[b].kind = "data"
  <2>1. names(b + 1) = names(b) /\ loads(b + 1) = loads(b) \cup {b}
    <3>. HIDE DEF names, loads
    <3>. QED
      BY <1>9, <1>5
  <2>2. AtPositions(args, loads(b) \cup {b}) = Append(AtPositions(args, loads(b)), args[b])
    <3>. HIDE DEF names, loads, args
    <3>. QED
      BY <1>6, <1>7, AtPositionsTop
  <2>3. type(b + 1) = type(b)
    BY <2>1
  <2>. HIDE DEF names, loads, type, args
  <2>. QED
    BY <1>2, <1>3, <1>4, <1>9, <2>1, <2>2, <2>3
<1>10. CASE lines[b].kind = "comment"
  <2>1. names(b + 1) = names(b) /\ loads(b + 1) = loads(b)
    <3>. HIDE DEF names, loads
    <3>. QED
      BY <1>10, <1>5
  <2>2. type(b + 1) = type(b)
    BY <2>1
  <2>. HIDE DEF names, loads, type, args
  <2>. QED
    BY <1>2, <1>4, <1>10, <2>1, <2>2
<1>. QED
  BY <1>8, <1>9, <1>10

\* One more line completes an event or none.
LEMMA NoEventsYet == ASSUME NEW lines PROVE EventsIn(lines, 0) = << >>
<1>1. {b \in 1..0 : Completes(lines, b)} = {}
  OBVIOUS
<1>. QED
  BY <1>1, AtNoPositions DEF EventsIn

LEMMA EventsInNext ==
  ASSUME NEW lines, NEW k \in Nat
  PROVE  EventsIn(lines, k + 1) = IF Completes(lines, k + 1) THEN Append(EventsIn(lines, k), EventAt(lines, k + 1))
                                                              ELSE EventsIn(lines, k)
<1> DEFINE upTo(m) == [b \in 1..m |-> EventAt(lines, b)]
           ends(m) == {b \in 1..m : Completes(lines, b)}
<1>1. EventsIn(lines, k + 1) = AtPositions(upTo(k + 1), ends(k + 1)) /\ EventsIn(lines, k) = AtPositions(upTo(k), ends(k))
  BY DEF EventsIn
<1>2. ends(k) \in SUBSET Int /\ IsFiniteSet(ends(k)) /\ ends(k) \in SUBSET (1..k)
  <2>1. ends(k) \in SUBSET (1..k) /\ IsFiniteSet(1..k)
    BY FS_Interval
  <2>. QED
    BY <2>1, FS_Subset
<1>3. AtPositions(upTo(k + 1), ends(k)) = AtPositions(upTo(k), ends(k))
  <2>1. \A b \in ends(k) : upTo(k + 1)[b] = upTo(k)[b]
    OBVIOUS
  <2>. HIDE DEF upTo, ends
  <2>. QED
    BY <1>2, <2>1, AtPositionsAgree
<1>4. ends(k + 1) = ends(k) \cup (IF Completes(lines, k + 1) THEN {k + 1} ELSE {})
  <2>1. 1..(k + 1) = (1..k) \cup {k + 1}
    OBVIOUS
  <2>. QED
    BY <2>1
<1>5. upTo(k + 1)[k + 1] = EventAt(lines, k + 1)
  <2>1. k + 1 \in 1..(k + 1)
    OBVIOUS
  <2>. QED
    BY <2>1
<1>6. AtPositions(upTo(k + 1), ends(k) \cup {k + 1}) = Append(AtPositions(upTo(k + 1), ends(k)), upTo(k + 1)[k + 1])
  <2>1. k + 1 \in Int /\ \A x \in ends(k) : x < k + 1
    OBVIOUS
  <2>. HIDE DEF upTo, ends
  <2>. QED
    BY <1>2, <2>1, AtPositionsTop
<1>. HIDE DEF upTo, ends
<1>. QED
  BY <1>1, <1>3, <1>4, <1>5, <1>6

\* The events of the first lines begin those of more lines.
LEMMA EventsInBegin ==
  ASSUME NEW lines, NEW j \in Nat, NEW k \in Nat, j <= k
  PROVE  IsPrefix(EventsIn(lines, j), EventsIn(lines, k))
<1> DEFINE T == {EventAt(lines, b) : b \in Nat}
           S == {m \in Nat : IsPrefix(EventsIn(lines, j), EventsIn(lines, j + m))}
<1>1. ASSUME NEW m \in Nat  PROVE  EventsIn(lines, m) \in Seq(T)
  <2> DEFINE s == [b \in 1..m |-> EventAt(lines, b)]
  <2>1. s \in Seq(T) /\ DOMAIN s = 1..m
    OBVIOUS
  <2>2. {b \in 1..m : Completes(lines, b)} \in SUBSET (DOMAIN s)
    OBVIOUS
  <2>. HIDE DEF s, T
  <2>3. AtPositions(s, {b \in 1..m : Completes(lines, b)}) \in Seq(T)
    BY <2>1, <2>2, AtPositionsIs
  <2>. QED
    BY <2>3 DEF EventsIn, s
<1>. HIDE DEF T
<1>2. 0 \in S
  <2>1. j + 0 = j
    OBVIOUS
  <2>2. IsPrefix(EventsIn(lines, j), EventsIn(lines, j))
    BY <1>1, PrefixOfItself
  <2>. QED
    BY <2>1, <2>2
<1>3. ASSUME NEW m \in S  PROVE  m + 1 \in S
  <2>1. m \in Nat /\ j + m \in Nat /\ j + (m + 1) = (j + m) + 1
    OBVIOUS
  <2>2. IsPrefix(EventsIn(lines, j), EventsIn(lines, j + m))
    OBVIOUS
  <2>3. EventAt(lines, (j + m) + 1) \in T
    BY <2>1 DEF T
  <2>4. IsPrefix(EventsIn(lines, j), Append(EventsIn(lines, j + m), EventAt(lines, (j + m) + 1)))
    BY <1>1, <2>1, <2>2, <2>3, PrefixOfAppend
  <2>5. IsPrefix(EventsIn(lines, j), EventsIn(lines, (j + m) + 1))
    <3>1. \/ EventsIn(lines, (j + m) + 1) = EventsIn(lines, j + m)
          \/ EventsIn(lines, (j + m) + 1) = Append(EventsIn(lines, j + m), EventAt(lines, (j + m) + 1))
      BY <2>1, EventsInNext
    <3>. QED
      BY <2>2, <2>4, <3>1
  <2>. QED
    BY <2>1, <2>5
<1>4. \A m \in Nat : m \in S
  <2>1. S \in SUBSET Nat
    OBVIOUS
  <2>. HIDE DEF S
  <2>. QED
    BY <1>2, <1>3, <2>1, InductionOnNat
<1>5. k - j \in Nat /\ j + (k - j) = k
  OBVIOUS
<1>6. IsPrefix(EventsIn(lines, j), EventsIn(lines, j + (k - j)))
  BY <1>4, <1>5
<1>. QED
  BY <1>5, <1>6

\* The events of a sequence that are of one connection.
PickedOf(s, c) == AtPositions(s, {n \in DOMAIN s : s[n].data[1] = c})

LEMMA PickedOfNone ==
  ASSUME NEW s, NEW c, \A n \in DOMAIN s : s[n].data[1] # c
  PROVE  PickedOf(s, c) = << >>
<1>1. {n \in DOMAIN s : s[n].data[1] = c} = {}
  OBVIOUS
<1>. QED
  BY <1>1, AtNoPositions DEF PickedOf

LEMMA PickedOfMore ==
  ASSUME NEW s \in Seq(Event), NEW e \in Event, NEW c
  PROVE  PickedOf(Append(s, e), c) = IF e.data[1] = c THEN Append(PickedOf(s, c), e) ELSE PickedOf(s, c)
<1> DEFINE t == Append(s, e)
           of(u) == {n \in DOMAIN u : u[n].data[1] = c}
<1>1. PICK k : k = Len(s)
  OBVIOUS
<1>2. /\ k \in Nat /\ DOMAIN s = 1..k /\ DOMAIN t = 1..(k + 1) /\ t[k + 1] = e
      /\ \A n \in 1..k : t[n] = s[n]
  BY <1>1
<1>3. of(s) \in SUBSET Int /\ IsFiniteSet(of(s)) /\ of(s) \in SUBSET (1..k)
  <2>1. IsFiniteSet(1..k)
    BY <1>2, FS_Interval
  <2>2. of(s) \in SUBSET (1..k)
    BY <1>2
  <2>3. \A n \in 1..k : n \in Int
    OBVIOUS
  <2>. HIDE DEF t, of
  <2>. QED
    BY <2>1, <2>2, <2>3, FS_Subset
<1>4. of(t) = of(s) \cup (IF e.data[1] = c THEN {k + 1} ELSE {})
  <2>1. 1..(k + 1) = (1..k) \cup {k + 1}
    BY <1>2
  <2>. HIDE DEF t
  <2>. QED
    BY <1>2, <2>1
<1>5. AtPositions(t, of(s)) = AtPositions(s, of(s))
  <2>1. \A n \in of(s) : t[n] = s[n]
    BY <1>2, <1>3
  <2>. HIDE DEF t, of
  <2>. QED
    BY <1>3, <2>1, AtPositionsAgree
<1>6. AtPositions(t, of(s) \cup {k + 1}) = Append(AtPositions(t, of(s)), t[k + 1])
  <2>1. k + 1 \in Int /\ \A x \in of(s) : x < k + 1
    BY <1>2, <1>3
  <2>. HIDE DEF t, of
  <2>. QED
    BY <1>3, <2>1, AtPositionsTop
<1>7. PickedOf(t, c) = AtPositions(t, of(t)) /\ PickedOf(s, c) = AtPositions(s, of(s))
  BY DEF PickedOf
<1>8. PickedOf(t, c) = IF e.data[1] = c THEN Append(PickedOf(s, c), e) ELSE PickedOf(s, c)
  <2>. HIDE DEF t, of
  <2>. QED
    BY <1>2, <1>4, <1>5, <1>6, <1>7
<1>. QED
  BY <1>8

-----------------------------------------------------------------------------
(* The event subscription.                                                  *)

\* How many lines of c the parser has read: those the reader has, without the one
\* in the channel and the one in its hand.
ParsedOf(c) ==
  IF lineCh[c] # 0 THEN lineCh[c] - 1 ELSE IF reader[c] = "line" THEN taken[c] - 1 ELSE taken[c]

ReadersOK ==
  /\ taken \in [Conns -> Nat] /\ lineCh \in [Conns -> Nat] /\ Numbered(wire)
  /\ \A c \in Conns : c > conn => reader[c] = "none" /\ taken[c] = 0 /\ lineCh[c] = 0
  /\ \A c \in Conns : reader[c] = "line" => taken[c] >= 1
  /\ sub \in {"parse", "send"} =>
       /\ conn \in Conns
       /\ lineCh[conn] \in {0, IF reader[conn] = "line" THEN taken[conn] - 1 ELSE taken[conn]}

EventsBase == EventsTypeOK /\ ReadersOK

\* All that parseSSE returning changes.
Rests ==
  /\ sub' \in {"dial", "backoff", "closed"} /\ outcome' \in {"none", "nil", "eof", "error", "unauthorized"}
  /\ UNCHANGED <<wire, readerVars, conn, parserVars, out, received>>

\* All of TakeLine that its cases have in common.
TakesLine ==
  /\ sub = "parse" /\ lineCh[conn] # 0 /\ lineCh' = [lineCh EXCEPT ![conn] = 0]
  /\ sub' \in {"parse", "send", "backoff", "closed"}
  /\ outcome' \in {"none", "nil", "eof", "error", "unauthorized"}
  /\ name' \in Type \cup {NoName} /\ data' \in Seq(Conns) /\ Len(data') <= MaxData
  /\ UNCHANGED <<wire, reader, taken, failure, errCh, conn, out, received>>

\* The bounds are positive numbers.
LEMMA ConnsAre == MaxConns \in Nat /\ MaxConns >= 1 /\ OutCap \in Nat /\ MaxData \in Nat /\ MaxData >= 1 /\ OutCap >= 1
BY EventStreamAssumption

\* The line in the channel is the one after those the parser has read.
LEMMA LineIs ==
  ASSUME EventsBase, sub = "parse", lineCh[conn] # 0
  PROVE  /\ conn \in Conns /\ lineCh[conn] = ParsedOf(conn) + 1 /\ ParsedOf(conn) \in Nat
         /\ lineCh[conn] \in 1..taken[conn] /\ lineCh[conn] \in DOMAIN wire[conn]
         /\ wire[conn] \in Seq(Line) /\ wire[conn][lineCh[conn]] \in Line
<1>1. conn \in Conns /\ lineCh[conn] \in Nat /\ taken[conn] \in Nat
  BY DEF EventsBase, ReadersOK
<1>2. lineCh[conn] \in 0..taken[conn] /\ taken[conn] \in 0..Len(wire[conn]) /\ wire[conn] \in Seq(Line)
  BY <1>1 DEF EventsBase, EventsTypeOK
<1>3. lineCh[conn] \in 1..Len(wire[conn]) /\ lineCh[conn] \in 1..taken[conn]
  BY <1>1, <1>2
<1>4. wire[conn][lineCh[conn]] \in Line /\ DOMAIN wire[conn] = 1..Len(wire[conn])
  BY <1>2, <1>3
<1>. QED
  BY <1>1, <1>2, <1>3, <1>4 DEF ParsedOf

LEMMA TakeLineIs == EventsBase /\ TakeLine => TakesLine
<1> SUFFICES ASSUME EventsBase, TakeLine  PROVE  TakesLine
  OBVIOUS
<1>1. sub = "parse" /\ lineCh[conn] # 0
  BY DEF TakeLine
<1>2. PICK line : line = wire[conn][lineCh[conn]]
  OBVIOUS
<1>3. line \in Line
  BY <1>1, <1>2, LineIs
<1>4. /\ name \in Type \cup {NoName} /\ data \in Seq(Conns) /\ Len(data) <= MaxData
      /\ outcome \in {"none", "nil", "eof", "error", "unauthorized"}
  BY DEF EventsBase, EventsTypeOK
<1>5. << >> \in Seq(Conns) /\ Len(<< >>) <= MaxData
  BY ConnsAre
<1>6. /\ line.kind = "event" => line.arg \in Type
      /\ line.kind = "data" => line.arg \in Conns
  BY <1>3 DEF Line
<1>7. \A x \in Conns : Append(data, x) \in Seq(Conns) /\ Len(Append(data, x)) = Len(data) + 1
  BY <1>4
<1>8. Len(data) \in Nat /\ MaxData \in Nat
  BY <1>4, ConnsAre
<1>9. CASE line.kind = "blank"
  BY <1>1, <1>2, <1>4, <1>5, <1>9 DEF TakeLine, TakesLine
<1>10. CASE line.kind = "event"
  BY <1>1, <1>2, <1>4, <1>6, <1>10 DEF TakeLine, TakesLine
<1>11. CASE line.kind = "data"
  BY <1>1, <1>2, <1>4, <1>6, <1>7, <1>8, <1>11 DEF TakeLine, TakesLine
<1>12. CASE line.kind = "comment"
  BY <1>1, <1>2, <1>4, <1>12 DEF TakeLine, TakesLine
<1>. QED
  BY <1>3, <1>9, <1>10, <1>11, <1>12 DEF Line

LEMMA RestsAre ==
  EventsBase /\ ((\E how \in {"error", "unauthorized"} : Refused(how)) \/ Leave \/ Retry) => Rests
<1> SUFFICES ASSUME EventsBase, (\E how \in {"error", "unauthorized"} : Refused(how)) \/ Leave \/ Retry
             PROVE  Rests
  OBVIOUS
<1> DEFINE Outcomes == {"none", "nil", "eof", "error", "unauthorized"}
<1>1. ASSUME NEW how \in Outcomes, Return(how)  PROVE  Rests
  BY <1>1 DEF Return, Rests
<1>2. CASE \E how \in {"error", "unauthorized"} : Refused(how)
  BY <1>1, <1>2 DEF Refused
<1>3. CASE Leave
  <2>1. sub \in {"parse", "send"} => failure[conn] \in Outcomes
    BY DEF EventsBase, EventsTypeOK, ReadersOK
  <2>. QED
    BY <1>1, <1>3, <2>1 DEF Leave
<1>4. CASE Retry
  BY <1>4 DEF Retry, Rests, EventsBase, EventsTypeOK
<1>. QED
  BY <1>2, <1>3, <1>4

LEMMA RestsKeepBase == ASSUME EventsBase, Rests PROVE EventsBase'
<1>1. UNCHANGED <<wire, reader, taken, lineCh, failure, errCh, conn, name, data, out, received>>
  BY DEF Rests, readerVars, parserVars
<1>2. EventsTypeOK'
  BY <1>1 DEF Rests, EventsBase, EventsTypeOK
<1>3. ReadersOK'
  BY <1>1 DEF Rests, EventsBase, ReadersOK, Numbered
<1>. QED
  BY <1>2, <1>3 DEF EventsBase

LEMMA TakesKeepBase == ASSUME EventsBase, TakesLine PROVE EventsBase'
<1>1. conn \in Conns /\ lineCh \in [Conns -> Nat] /\ taken \in [Conns -> Nat]
  BY DEF TakesLine, EventsBase, ReadersOK
<1>2. lineCh' \in [Conns -> Nat] /\ \A c \in Conns : lineCh'[c] = IF c = conn THEN 0 ELSE lineCh[c]
  BY <1>1 DEF TakesLine
<1>3. \A c \in Conns : lineCh'[c] \in 0..taken[c]
  BY <1>1, <1>2, SMTT(30) DEF EventsBase, EventsTypeOK
<1>4. EventsTypeOK'
  BY <1>3 DEF TakesLine, EventsBase, EventsTypeOK
<1>5. ReadersOK'
  BY <1>1, <1>2 DEF TakesLine, EventsBase, ReadersOK, Numbered
<1>. QED
  BY <1>4, <1>5 DEF EventsBase

LEMMA ConnectKeepsBase == ASSUME EventsBase, Connect PROVE EventsBase'
<1>1. PICK k : k = conn + 1
  OBVIOUS
<1>2. /\ k \in Conns /\ k \in 0..MaxConns /\ conn \in Nat /\ conn < k /\ conn' = k
      /\ reader[k] = "none" /\ taken[k] = 0 /\ lineCh[k] = 0
  <2>1. conn \in Nat /\ conn < MaxConns /\ conn' = conn + 1
    BY DEF Connect, EventsBase, EventsTypeOK
  <2>2. k \in Conns /\ k > conn /\ k \in 0..MaxConns
    BY <1>1, <2>1, ConnsAre DEF Conns
  <2>. QED
    BY <1>1, <2>1, <2>2 DEF EventsBase, ReadersOK
<1>3. reader' = [reader EXCEPT ![k] = "read"] /\ sub' = "parse" /\ outcome' = "none" /\ name' = NoName /\ data' = << >>
  BY <1>1 DEF Connect
<1>4. UNCHANGED <<wire, taken, lineCh, failure, errCh, out, received>>
  BY DEF Connect
<1>5. reader' \in [Conns -> {"none", "read", "line", "error", "gone"}]
      /\ \A c \in Conns : reader'[c] = IF c = k THEN "read" ELSE reader[c]
  BY <1>2, <1>3 DEF EventsBase, EventsTypeOK
<1>6. << >> \in Seq(Conns) /\ Len(<< >>) <= MaxData
  BY ConnsAre
<1>7. EventsTypeOK'
  BY <1>2, <1>3, <1>4, <1>5, <1>6 DEF EventsBase, EventsTypeOK
<1>8. \A c \in Conns : c > k => c > conn /\ c # k
  BY <1>2 DEF Conns
<1>9. ReadersOK'
  BY <1>2, <1>3, <1>4, <1>5, <1>8 DEF EventsBase, ReadersOK, Numbered
<1>. QED
  BY <1>7, <1>9 DEF EventsBase

\* All of a reader's step that matters to the parser.
ReaderMoves(c) ==
  /\ UNCHANGED <<wire, sub, conn, name, data, out, received, outcome>>
  /\ \A d \in Conns \ {c} : taken'[d] = taken[d] /\ lineCh'[d] = lineCh[d] /\ reader'[d] = reader[d]
  /\ reader[c] # "none" /\ taken[c] <= taken'[c]
  /\ Parsing(c) => ParsedOf(c)' = ParsedOf(c)

LEMMA ReaderKeepsBase ==
  ASSUME EventsBase, NEW c \in Conns, ReaderStep(c)
  PROVE  EventsBase' /\ ReaderMoves(c)
<1> DEFINE States == {"none", "read", "line", "error", "gone"}
<1>1. /\ taken \in [Conns -> Nat] /\ lineCh \in [Conns -> Nat] /\ reader \in [Conns -> States]
      /\ errCh \in [Conns -> BOOLEAN] /\ failure \in [Conns -> {"none", "eof", "error"}]
      /\ taken[c] \in Nat /\ lineCh[c] \in Nat
      /\ taken[c] \in 0..Len(wire[c]) /\ Len(wire[c]) \in Nat /\ lineCh[c] \in 0..taken[c]
  BY DEF EventsBase, EventsTypeOK, ReadersOK
<1>2. UNCHANGED <<wire, sub, conn, name, data, out, received, outcome>>
  BY DEF ReaderStep, parserVars
<1>3. Parsing(c) => lineCh[c] \in {0, IF reader[c] = "line" THEN taken[c] - 1 ELSE taken[c]}
  BY DEF EventsBase, ReadersOK, Parsing
<1>4. reader[c] = "line" => taken[c] >= 1
  BY DEF EventsBase, ReadersOK
<1>5. PICK r, n, l : r = reader'[c] /\ n = taken'[c] /\ l = lineCh'[c]
  OBVIOUS
\* What of the readers' state a step of c sets, and to what.
<1> DEFINE Sets == /\ reader' = [reader EXCEPT ![c] = r]
                   /\ taken' = [taken EXCEPT ![c] = n]
                   /\ lineCh' = [lineCh EXCEPT ![c] = l]
                   /\ r \in States /\ n \in Nat /\ l \in Nat
                   /\ n \in 0..Len(wire[c]) /\ l \in 0..n /\ taken[c] <= n
                   /\ reader[c] # "none" /\ r # "none" /\ (r = "line" => n >= 1)
                   /\ failure' \in [Conns -> {"none", "eof", "error"}]
                   /\ errCh' \in [Conns -> BOOLEAN]
           Parsed(x, y, z) == IF x # 0 THEN x - 1 ELSE IF y = "line" THEN z - 1 ELSE z
           Steady == Parsing(c) => /\ l \in {0, IF r = "line" THEN n - 1 ELSE n}
                                   /\ Parsed(l, r, n) = Parsed(lineCh[c], reader[c], taken[c])
<1>6. ASSUME ReaderReads(c)  PROVE  Sets /\ Steady
  <2>1. r = "line" /\ n = taken[c] + 1 /\ l = lineCh[c] /\ reader[c] = "read" /\ n <= Len(wire[c])
    BY <1>1, <1>5, <1>6 DEF ReaderReads
  <2>2. Sets
    BY <1>1, <1>5, <1>6, <2>1 DEF ReaderReads
  <2>3. Steady
    BY <1>1, <1>3, <2>1
  <2>. QED
    BY <2>2, <2>3
<1>7. ASSUME NEW how \in {"eof", "error"}, ReaderFails(c, how)  PROVE  Sets /\ Steady
  <2>1. r = "error" /\ n = taken[c] /\ l = lineCh[c] /\ reader[c] = "read"
    BY <1>1, <1>5, <1>7 DEF ReaderFails
  <2>2. Sets
    BY <1>1, <1>5, <1>7, <2>1 DEF ReaderFails
  <2>3. Steady
    BY <1>1, <1>3, <2>1
  <2>. QED
    BY <2>2, <2>3
<1>8. ASSUME ReaderSends(c)  PROVE  Sets /\ Steady
  <2>1. CASE reader[c] = "line"
    <3>1. r = "read" /\ n = taken[c] /\ l = taken[c] /\ lineCh[c] = 0
      BY <1>1, <1>5, <1>8, <2>1 DEF ReaderSends
    <3>2. Sets
      BY <1>1, <1>5, <1>8, <2>1, <3>1 DEF ReaderSends
    <3>3. Steady
      BY <1>1, <1>3, <1>4, <2>1, <3>1
    <3>. QED
      BY <3>2, <3>3
  <2>2. CASE reader[c] # "line"
    <3>1. r = "gone" /\ n = taken[c] /\ l = lineCh[c] /\ reader[c] = "error"
      BY <1>1, <1>5, <1>8, <2>2 DEF ReaderSends
    <3>2. /\ errCh' = [errCh EXCEPT ![c] = TRUE] /\ reader' = [reader EXCEPT ![c] = "gone"]
          /\ UNCHANGED <<taken, lineCh, failure>>
      BY <1>8, <2>2 DEF ReaderSends
    <3>3. Sets
      BY <1>1, <1>5, <3>1, <3>2
    <3>4. Steady
      BY <1>1, <1>3, <3>1
    <3>. QED
      BY <3>3, <3>4
  <2>. QED
    BY <2>1, <2>2
<1>9. ASSUME ReaderLeaves(c)  PROVE  Sets /\ Steady
  <2>1. r = "gone" /\ n = taken[c] /\ l = lineCh[c] /\ reader[c] \in {"line", "error"} /\ ~Parsing(c)
    BY <1>1, <1>5, <1>9 DEF ReaderLeaves
  <2>2. Sets
    BY <1>1, <1>5, <1>9, <2>1 DEF ReaderLeaves
  <2>. QED
    BY <2>1, <2>2
<1>10. Sets /\ Steady
  BY <1>6, <1>7, <1>8, <1>9 DEF ReaderStep
<1>. HIDE DEF Steady
<1>11. /\ reader' \in [Conns -> States] /\ taken' \in [Conns -> Nat] /\ lineCh' \in [Conns -> Nat]
       /\ reader'[c] = r /\ taken'[c] = n /\ lineCh'[c] = l
       /\ \A d \in Conns : d # c => reader'[d] = reader[d] /\ taken'[d] = taken[d] /\ lineCh'[d] = lineCh[d]
  BY <1>1, <1>10
<1>12. EventsTypeOK'
  <2>1. \A d \in Conns : taken'[d] \in 0..Len(wire[d]) /\ lineCh'[d] \in 0..taken'[d]
    BY <1>10, <1>11 DEF EventsBase, EventsTypeOK
  <2>. QED
    BY <1>2, <1>10, <1>11, <2>1 DEF EventsBase, EventsTypeOK
<1>13. c \in Conns /\ ~(c > conn)
  BY <1>10 DEF EventsBase, ReadersOK
<1>14. ReadersOK'
  <2>1. \A d \in Conns : d > conn => reader'[d] = "none" /\ taken'[d] = 0 /\ lineCh'[d] = 0
    BY <1>11, <1>13 DEF EventsBase, ReadersOK
  <2>2. \A d \in Conns : reader'[d] = "line" => taken'[d] >= 1
    BY <1>10, <1>11 DEF EventsBase, ReadersOK
  <2>3. ASSUME sub \in {"parse", "send"}
        PROVE  /\ conn \in Conns
               /\ lineCh'[conn] \in {0, IF reader'[conn] = "line" THEN taken'[conn] - 1 ELSE taken'[conn]}
    <3>1. conn \in Conns /\ lineCh[conn] \in {0, IF reader[conn] = "line" THEN taken[conn] - 1 ELSE taken[conn]}
      BY <2>3 DEF EventsBase, ReadersOK
    <3>2. CASE conn = c
      BY <1>10, <1>11, <2>3, <3>1, <3>2 DEF Steady, Parsing
    <3>3. CASE conn # c
      BY <1>11, <3>1, <3>3
    <3>. QED
      BY <3>2, <3>3, <3>1
  <2>4. Numbered(wire)'
    BY <1>2 DEF EventsBase, ReadersOK, Numbered
  <2>. QED
    BY <1>2, <1>11, <2>1, <2>2, <2>3, <2>4 DEF ReadersOK
<1>15. Parsing(c) => ParsedOf(c)' = ParsedOf(c)
  BY <1>10, <1>11 DEF Steady, ParsedOf
<1>16. ReaderMoves(c)
  BY <1>2, <1>10, <1>11, <1>15 DEF ReaderMoves
<1>. QED
  BY <1>12, <1>14, <1>16 DEF EventsBase

\* What has surfaced of c is what its first j lines complete.
SoFar(c, j) == PickedOf(Surfaced, c) = EventsIn(wire[c], j)

\* What the parser holds once it has read p lines.
ParserHas(p) ==
  /\ \A i \in DOMAIN data : data[i] = conn
  /\ sub = "parse" => SoFar(conn, p) /\ Holds(wire[conn], p + 1, name, data)
  /\ sub = "send" =>
       /\ p >= 1 /\ SoFar(conn, p - 1) /\ Holds(wire[conn], p, name, data)
       /\ wire[conn][p].kind = "blank" /\ Surfaces([type |-> name, data |-> data])

ParserOK == sub \in {"parse", "send"} => \E p \in Nat : p = ParsedOf(conn) /\ ParserHas(p)

\* Connection after connection.
InTurn(s, last) ==
  /\ \A n \in DOMAIN s : s[n].data # << >> /\ s[n].data[1] \in Int /\ s[n].data[1] <= last
  /\ \A m, n \in 1..Len(s) : m < n => s[m].data[1] <= s[n].data[1]

EventsInv ==
  /\ EventsBase /\ ParserOK
  /\ \A c \in Conns : \E j \in 0..taken[c] : SoFar(c, j)
  /\ InTurn(Surfaced, conn)

\* A step after which what surfaced is as it was, and no connection has read less.
Hushed ==
  /\ UNCHANGED <<wire, conn, received, out>>
  /\ \A c \in Conns : taken[c] <= taken'[c]

LEMMA HushedKeeps ==
  ASSUME EventsInv, EventsBase', Hushed
  PROVE  /\ \A c, j : SoFar(c, j)' = SoFar(c, j)
         /\ ParserOK' => EventsInv'
<1>1. Surfaced' = Surfaced /\ wire' = wire /\ conn' = conn
  BY DEF Hushed, Surfaced
<1>2. \A c, j : SoFar(c, j)' = SoFar(c, j)
  BY <1>1 DEF SoFar
<1>3. InTurn(Surfaced, conn)'
  BY <1>1 DEF EventsInv
<1>4. ASSUME NEW c \in Conns  PROVE  \E j \in 0..taken'[c] : SoFar(c, j)'
  <2>1. PICK j \in 0..taken[c] : SoFar(c, j)
    BY DEF EventsInv
  <2>2. taken[c] \in Nat /\ taken'[c] \in Nat /\ taken[c] <= taken'[c]
    BY DEF Hushed, EventsInv, EventsBase, ReadersOK
  <2>3. j \in 0..taken'[c]
    BY <2>2
  <2>. QED
    BY <1>2, <2>1, <2>3
<1>. QED
  BY <1>2, <1>3, <1>4 DEF EventsInv

LEMMA ReaderKeepsEvents ==
  ASSUME EventsInv, NEW c \in Conns, ReaderStep(c)
  PROVE  EventsInv'
<1>1. EventsBase' /\ ReaderMoves(c)
  BY ReaderKeepsBase DEF EventsInv
<1>2. UNCHANGED <<wire, sub, conn, name, data, out, received>>
  BY <1>1 DEF ReaderMoves
<1>3. Hushed
  <2>1. \A d \in Conns : taken[d] \in Nat
    BY DEF EventsInv, EventsBase, ReadersOK
  <2>. QED
    BY <1>1, <1>2, <2>1 DEF Hushed, ReaderMoves
<1>4. \A d, j : SoFar(d, j)' = SoFar(d, j)
  BY <1>1, <1>3, HushedKeeps
<1>5. ParserOK'
  <2> SUFFICES ASSUME sub' \in {"parse", "send"}
               PROVE  \E p \in Nat : p = ParsedOf(conn)' /\ ParserHas(p)'
    BY DEF ParserOK
  <2>1. conn \in Conns /\ sub \in {"parse", "send"}
    BY <1>2 DEF EventsInv, EventsBase, ReadersOK
  <2>2. PICK p \in Nat : p = ParsedOf(conn) /\ ParserHas(p)
    BY <2>1 DEF EventsInv, ParserOK
  <2>3. ParsedOf(conn)' = ParsedOf(conn)
    <3>1. CASE conn = c
      BY <1>1, <1>2, <2>1, <3>1 DEF ReaderMoves, ParsedOf, Parsing
    <3>2. CASE conn # c
      BY <1>1, <1>2, <2>1, <3>2 DEF ReaderMoves, ParsedOf
    <3>. QED
      BY <3>1, <3>2
  <2>4. ParserHas(p)'
    <3>1. ParserHas(p)
      BY <2>2
    <3>2. SoFar(conn, p)' = SoFar(conn, p) /\ SoFar(conn, p - 1)' = SoFar(conn, p - 1)
      BY <1>2, <1>4 DEF SoFar
    <3>. QED
      BY <1>2, <3>1, <3>2 DEF ParserHas
  <2>. QED
    BY <2>2, <2>3, <2>4
<1>. QED
  BY <1>1, <1>3, <1>5, HushedKeeps

LEMMA RestsKeepEvents == ASSUME EventsInv, Rests PROVE EventsInv'
<1>1. EventsBase'
  BY RestsKeepBase DEF EventsInv
<1>2. UNCHANGED <<wire, conn, received, out, taken>>
  BY DEF Rests, readerVars
<1>3. \A c \in Conns : taken[c] \in Nat
  BY DEF EventsInv, EventsBase, ReadersOK
<1>4. Hushed
  BY <1>2, <1>3 DEF Hushed
<1>5. ParserOK'
  BY DEF Rests, ParserOK
<1>. QED
  BY <1>1, <1>4, <1>5, HushedKeeps

\* A line that completes no event changes nothing of what is to have surfaced.
LEMMA NothingCompleted ==
  ASSUME NEW c, NEW p \in Nat, SoFar(c, p), ~Completes(wire[c], p + 1)
  PROVE  SoFar(c, p + 1)
BY EventsInNext DEF SoFar

LEMMA TakeLineKeepsEvents == ASSUME EventsInv, TakeLine PROVE EventsInv'
<1>1. TakesLine
  BY TakeLineIs DEF EventsInv
<1>2. EventsBase'
  BY <1>1, TakesKeepBase DEF EventsInv
<1>3. UNCHANGED <<wire, reader, taken, conn, received, out>> /\ sub = "parse" /\ lineCh[conn] # 0
  BY <1>1 DEF TakesLine
<1>4. Hushed
  <2>1. \A c \in Conns : taken[c] \in Nat
    BY DEF EventsInv, EventsBase, ReadersOK
  <2>. QED
    BY <1>3, <2>1 DEF Hushed
<1>5. \A d, j : SoFar(d, j)' = SoFar(d, j)
  BY <1>2, <1>4, HushedKeeps
<1>6. PICK p \in Nat : p = ParsedOf(conn) /\ ParserHas(p)
  BY <1>3 DEF EventsInv, ParserOK
<1>7. /\ conn \in Conns /\ lineCh[conn] = p + 1 /\ p + 1 \in DOMAIN wire[conn] /\ wire[conn][p + 1] \in Line
      /\ p + 1 \in Nat \ {0}
  BY <1>3, <1>6, LineIs DEF EventsInv
<1>8. ParsedOf(conn)' = p + 1
  <2>1. lineCh \in [Conns -> Nat] /\ taken[conn] \in Nat
    BY <1>7 DEF EventsInv, EventsBase, ReadersOK
  <2>2. lineCh'[conn] = 0
    BY <1>1, <1>7, <2>1 DEF TakesLine
  <2>3. lineCh[conn] = IF reader[conn] = "line" THEN taken[conn] - 1 ELSE taken[conn]
    BY <1>3 DEF EventsInv, EventsBase, ReadersOK
  <2>. QED
    BY <1>3, <1>7, <2>2, <2>3 DEF ParsedOf
<1>9. PICK line : line = wire[conn][p + 1]
  OBVIOUS
<1>10. /\ \A i \in DOMAIN data : data[i] = conn
       /\ SoFar(conn, p) /\ Holds(wire[conn], p + 1, name, data)
  BY <1>3, <1>6 DEF ParserHas
<1>11. Completes(wire[conn], p + 1) <=> line.kind = "blank" /\ ~Skips
  BY <1>9, <1>10 DEF Completes, Holds, Skips
<1>12. data \in Seq(Conns) /\ Len(data) \in Nat
  BY DEF EventsInv, EventsBase, EventsTypeOK
<1>13. SUFFICES ASSUME sub' \in {"parse", "send"}  PROVE  ParserHas(p + 1)'
  <2>1. sub' \in {"parse", "send"} => ParserHas(p + 1)'
    BY <1>13
  <2>2. ParserOK'
    BY <1>7, <1>8, <2>1 DEF ParserOK
  <2>. QED
    BY <1>2, <1>4, <2>2, HushedKeeps
\* What is to be shown of a step that stays in the parser, and of one that leaves to send.
<1>14. ASSUME sub' = "parse", \A i \in DOMAIN data' : data'[i] = conn,
              ~Completes(wire[conn], p + 1), Holds(wire[conn], p + 2, name', data')
       PROVE  ParserHas(p + 1)'
  <2>1. SoFar(conn, p + 1)
    BY <1>10, <1>14, NothingCompleted
  <2>2. SoFar(conn, p + 1)'
    BY <1>3, <1>5, <2>1 DEF SoFar
  <2>3. Holds(wire[conn], (p + 1) + 1, name', data')
    BY <1>14
  <2>. QED
    BY <1>3, <1>14, <2>2, <2>3 DEF ParserHas
<1>15. (p + 1) + 1 = p + 2
  OBVIOUS
<1>16. CASE line.kind = "blank"
  <2>1. CASE Skips
    <3>1. sub' = "parse" /\ name' = NoName /\ data' = << >>
      BY <1>3, <1>7, <1>9, <1>16, <2>1 DEF TakeLine
    <3>2. Holds(wire[conn], p + 2, NoName, << >>)
      BY <1>7, <1>9, <1>15, <1>16, HoldsAfterBlank
    <3>. QED
      BY <1>11, <1>14, <2>1, <3>1, <3>2
  <2>2. CASE ~Skips
    <3>1. sub' = "send" /\ name' = name /\ data' = data
      BY <1>3, <1>7, <1>9, <1>16, <2>2 DEF TakeLine
    <3>2. SoFar(conn, (p + 1) - 1)'
      <4>1. (p + 1) - 1 = p
        OBVIOUS
      <4>. QED
        BY <1>3, <1>5, <1>10, <4>1 DEF SoFar
    <3>3. Surfaces([type |-> name, data |-> data])
      BY <2>2 DEF Skips
    <3>. QED
      BY <1>3, <1>7, <1>9, <1>10, <1>16, <3>1, <3>2, <3>3 DEF ParserHas, Surfaces
  <2>. QED
    BY <2>1, <2>2
<1>17. CASE line.kind = "event"
  <2>1. name' = line.arg /\ data' = data /\ sub' = "parse"
    BY <1>3, <1>7, <1>9, <1>17 DEF TakeLine
  <2>2. Holds(wire[conn], p + 2, line.arg, data)
    BY <1>7, <1>9, <1>10, <1>15, <1>17, HoldsAfterLine
  <2>. QED
    BY <1>10, <1>11, <1>14, <1>17, <2>1, <2>2
<1>18. CASE line.kind = "data"
  <2>1. name' = name /\ data' = Append(data, line.arg) /\ sub' = "parse"
    BY <1>3, <1>7, <1>9, <1>13, <1>18 DEF TakeLine
  <2>2. line.arg = conn
    BY <1>7, <1>9, <1>18 DEF EventsInv, EventsBase, ReadersOK, Numbered
  <2>3. \A i \in DOMAIN data' : data'[i] = conn
    <3>1. \A i \in 1..(Len(data) + 1) : i \in 1..Len(data) \/ i = Len(data) + 1
      BY <1>12
    <3>. QED
      BY <1>7, <1>10, <1>12, <2>1, <2>2, <3>1
  <2>4. Holds(wire[conn], p + 2, name, Append(data, line.arg))
    BY <1>7, <1>9, <1>10, <1>15, <1>18, HoldsAfterLine
  <2>. QED
    BY <1>11, <1>14, <1>18, <2>1, <2>3, <2>4
<1>19. CASE line.kind = "comment"
  <2>1. name' = name /\ data' = data /\ sub' = "parse"
    BY <1>3, <1>7, <1>9, <1>19 DEF TakeLine
  <2>2. Holds(wire[conn], p + 2, name, data)
    BY <1>7, <1>9, <1>10, <1>15, <1>19, HoldsAfterLine
  <2>. QED
    BY <1>10, <1>11, <1>14, <1>19, <2>1, <2>2
<1>. QED
  BY <1>7, <1>9, <1>16, <1>17, <1>18, <1>19 DEF Line

LEMMA SurfacedIs ==
  ASSUME EventsBase
  PROVE  /\ received \in Seq(Event) /\ out \in Seq(Event) /\ Surfaced \in Seq(Event)
         /\ conn \in 0..MaxConns /\ conn \in Nat
<1>1. received \in Seq(Event) /\ out \in Seq(Event) /\ conn \in 0..MaxConns
  BY DEF EventsBase, EventsTypeOK
<1>2. received \o out \in Seq(Event)
  BY <1>1
<1>. QED
  BY <1>1, <1>2 DEF Surfaced

LEMMA ConnectKeepsEvents == ASSUME EventsInv, Connect PROVE EventsInv'
<1>1. EventsBase'
  BY ConnectKeepsBase DEF EventsInv
<1>2. /\ UNCHANGED <<wire, taken, lineCh, received, out>> /\ conn' = conn + 1 /\ sub' = "parse"
      /\ name' = NoName /\ data' = << >> /\ reader' = [reader EXCEPT ![conn + 1] = "read"] /\ conn < MaxConns
  BY DEF Connect
<1>3. PICK k : k = conn + 1
  OBVIOUS
<1>4. conn \in Nat /\ Surfaced \in Seq(Event) /\ conn' = k /\ conn < k /\ k \in Conns
  BY <1>2, <1>3, SurfacedIs, ConnsAre DEF EventsInv, Conns
<1>5. Surfaced' = Surfaced
  BY <1>2 DEF Surfaced
<1>6. \A c, j : SoFar(c, j)' = SoFar(c, j)
  BY <1>2, <1>5 DEF SoFar
<1>7. InTurn(Surfaced, conn)'
  <2>1. \A x \in Int : x <= conn => x <= k
    BY <1>4 DEF Conns
  <2>2. InTurn(Surfaced, conn)
    BY DEF EventsInv
  <2>3. InTurn(Surfaced, k)
    BY <2>1, <2>2 DEF InTurn
  <2>. QED
    BY <1>4, <1>5, <2>3
<1>8. \A c \in Conns : \E j \in 0..taken'[c] : SoFar(c, j)'
  BY <1>2, <1>6 DEF EventsInv
<1>9. SoFar(k, 0)
  <2>1. \A n \in DOMAIN Surfaced : Surfaced[n].data[1] # k
    <3>1. \A n \in DOMAIN Surfaced : Surfaced[n].data[1] \in Int /\ Surfaced[n].data[1] <= conn
      BY DEF EventsInv, InTurn
    <3>. QED
      BY <1>4, <3>1
  <2>. QED
    BY <2>1, PickedOfNone, NoEventsYet DEF SoFar
<1>10. ParsedOf(conn)' = 0
  <2>1. reader'[k] = "read" /\ taken[k] = 0 /\ lineCh[k] = 0
    BY <1>2, <1>3, <1>4 DEF EventsInv, EventsBase, EventsTypeOK, ReadersOK
  <2>. QED
    BY <1>2, <1>4, <2>1 DEF ParsedOf
<1>11. ParserHas(0)'
  <2>1. SoFar(conn, 0)'
    BY <1>2, <1>4, <1>6, <1>9 DEF SoFar
  <2>2. Holds(wire[k], 0 + 1, NoName, << >>)
    <3>1. 0 + 1 = 1
      OBVIOUS
    <3>. QED
      BY <3>1, HoldsNothing
  <2>3. DOMAIN data' = {}
    BY <1>2
  <2>. QED
    BY <1>2, <1>4, <2>1, <2>2, <2>3 DEF ParserHas
<1>12. ParserOK'
  BY <1>10, <1>11 DEF ParserOK
<1>. QED
  BY <1>1, <1>7, <1>8, <1>12 DEF EventsInv

LEMMA SubscriberKeepsEvents == ASSUME EventsInv, SubscriberTakes PROVE EventsInv'
<1>1. /\ out # << >> /\ received' = Append(received, Head(out)) /\ out' = Tail(out)
      /\ UNCHANGED <<wire, readerVars, sub, conn, name, data, outcome>>
  BY DEF SubscriberTakes, parserVars
<1>2. received \in Seq(Event) /\ out \in Seq(Event)
  BY SurfacedIs DEF EventsInv
<1>3. Surfaced' = Surfaced
  <2>1. Append(received, Head(out)) \o Tail(out) = received \o out
    BY <1>1, <1>2
  <2>. QED
    BY <1>1, <2>1 DEF Surfaced
<1>4. EventsBase'
  <2>1. received' \in Seq(Event) /\ out' \in Seq(Event) /\ Len(out') <= OutCap
    <3>1. Len(out) <= OutCap /\ OutCap \in Nat
      BY ConnsAre DEF EventsInv, EventsBase, EventsTypeOK
    <3>. QED
      BY <1>1, <1>2, <3>1
  <2>2. EventsTypeOK'
    BY <1>1, <2>1 DEF EventsInv, EventsBase, EventsTypeOK, readerVars
  <2>3. ReadersOK'
    BY <1>1 DEF EventsInv, EventsBase, ReadersOK, readerVars, Numbered
  <2>. QED
    BY <2>2, <2>3 DEF EventsBase
<1>5. \A c, j : SoFar(c, j)' = SoFar(c, j)
  BY <1>1, <1>3 DEF SoFar
<1>6. UNCHANGED <<wire, reader, taken, lineCh, sub, conn, name, data>>
  BY <1>1 DEF readerVars
<1>7. ParserOK'
  <2> SUFFICES ASSUME sub \in {"parse", "send"}
               PROVE  \E p \in Nat : p = ParsedOf(conn)' /\ ParserHas(p)'
    BY <1>6 DEF ParserOK
  <2>1. PICK p \in Nat : p = ParsedOf(conn) /\ ParserHas(p)
    BY DEF EventsInv, ParserOK
  <2>2. ParsedOf(conn)' = ParsedOf(conn)
    BY <1>6 DEF ParsedOf
  <2>3. SoFar(conn, p)' = SoFar(conn, p) /\ SoFar(conn, p - 1)' = SoFar(conn, p - 1)
    BY <1>5, <1>6 DEF SoFar
  <2>4. ParserHas(p)'
    BY <1>6, <2>1, <2>3 DEF ParserHas
  <2>. QED
    BY <2>1, <2>2, <2>4
<1>8. InTurn(Surfaced, conn)'
  BY <1>3, <1>6 DEF EventsInv
<1>9. \A c \in Conns : \E j \in 0..taken'[c] : SoFar(c, j)'
  BY <1>5, <1>6 DEF EventsInv
<1>. QED
  BY <1>4, <1>7, <1>8, <1>9 DEF EventsInv

\* An event of the connection in hand comes after all others.
LEMMA InTurnMore ==
  ASSUME NEW s \in Seq(Event), NEW last \in Int, InTurn(s, last), NEW e \in Event, e.data # << >>, e.data[1] = last
  PROVE  InTurn(Append(s, e), last)
<1>1. PICK k : k = Len(s)
  OBVIOUS
<1>2. PICK t : t = Append(s, e)
  OBVIOUS
<1>3. k \in Nat /\ DOMAIN s = 1..k
  BY <1>1
<1>4. DOMAIN t = 1..(k + 1) /\ Len(t) = k + 1 /\ t[k + 1] = e /\ \A n \in 1..k : t[n] = s[n]
  BY <1>1, <1>2
<1>5. \A n \in 1..(k + 1) : n \in 1..k \/ n = k + 1
  BY <1>3
<1>6. \A n \in 1..k : s[n].data # << >> /\ s[n].data[1] \in Int /\ s[n].data[1] <= last
  BY <1>3 DEF InTurn
<1>7. \A m, n \in 1..k : m < n => s[m].data[1] <= s[n].data[1]
  BY <1>1 DEF InTurn
<1>8. \A n \in 1..(k + 1) : t[n].data # << >> /\ t[n].data[1] \in Int /\ t[n].data[1] <= last
  BY <1>4, <1>5, <1>6
<1>9. ASSUME NEW m \in 1..(k + 1), NEW n \in 1..(k + 1), m < n  PROVE  t[m].data[1] <= t[n].data[1]
  <2>1. m \in 1..k
    BY <1>3, <1>9
  <2>2. CASE n \in 1..k
    BY <1>4, <1>7, <1>9, <2>1, <2>2
  <2>3. CASE n = k + 1
    BY <1>4, <1>6, <2>1, <2>3
  <2>. QED
    BY <1>5, <2>2, <2>3
<1>. QED
  BY <1>2, <1>4, <1>8, <1>9 DEF InTurn

LEMMA SendKeepsEvents == ASSUME EventsInv, Send PROVE EventsInv'
<1>1. PICK e : e = [type |-> name, data |-> data]
  OBVIOUS
<1>2. /\ sub = "send" /\ Len(out) < OutCap /\ out' = Append(out, e)
      /\ sub' = "parse" /\ name' = NoName /\ data' = << >>
      /\ UNCHANGED <<wire, reader, taken, lineCh, failure, errCh, conn, outcome, received>>
  BY <1>1 DEF Send, readerVars
<1>3. PICK p \in Nat : p = ParsedOf(conn) /\ ParserHas(p)
  BY <1>2 DEF EventsInv, ParserOK
<1>4. /\ p >= 1 /\ SoFar(conn, p - 1) /\ Holds(wire[conn], p, name, data)
      /\ wire[conn][p].kind = "blank" /\ Surfaces(e) /\ \A i \in DOMAIN data : data[i] = conn
  BY <1>1, <1>2, <1>3 DEF ParserHas
<1>5. conn \in Conns /\ conn \in Int
  BY <1>2, SurfacedIs DEF EventsInv, EventsBase, ReadersOK
<1>6. data \in Seq(Conns) /\ name \in Type \cup {NoName} /\ received \in Seq(Event) /\ out \in Seq(Event)
  BY DEF EventsInv, EventsBase, EventsTypeOK
<1>7. e \in Event /\ e.data = data /\ data # << >>
  BY <1>1, <1>4, <1>6 DEF Event, Surfaces
<1>8. e.data[1] = conn
  <2>1. 1 \in DOMAIN data
    BY <1>6, <1>7
  <2>. QED
    BY <1>4, <1>7, <2>1
<1>9. Surfaced \in Seq(Event) /\ Surfaced' = Append(Surfaced, e)
  <2>1. received \o Append(out, e) = Append(received \o out, e)
    BY <1>6, <1>7, ConcatAppend
  <2>. QED
    BY <1>2, <2>1, SurfacedIs DEF Surfaced, EventsInv
<1>10. EventsBase'
  <2>1. out' \in Seq(Event) /\ Len(out') <= OutCap
    BY <1>2, <1>6, <1>7, ConnsAre
  <2>2. << >> \in Seq(Conns) /\ Len(<< >>) <= MaxData
    BY ConnsAre
  <2>3. EventsTypeOK'
    BY <1>2, <2>1, <2>2 DEF EventsInv, EventsBase, EventsTypeOK
  <2>4. ReadersOK'
    BY <1>2 DEF EventsInv, EventsBase, ReadersOK, Numbered
  <2>. QED
    BY <2>3, <2>4 DEF EventsBase
<1>11. SoFar(conn, p)'
  <2>1. PICK q : q = p - 1
    OBVIOUS
  <2>2. q \in Nat /\ q + 1 = p
    BY <1>4, <2>1
  <2>3. EventAt(wire[conn], p) = e
    BY <1>1, <1>4 DEF Holds
  <2>4. Completes(wire[conn], p)
    BY <1>4, <2>3 DEF Completes
  <2>5. EventsIn(wire[conn], p) = Append(EventsIn(wire[conn], q), e)
    BY <2>2, <2>3, <2>4, EventsInNext
  <2>6. PickedOf(Append(Surfaced, e), conn) = Append(PickedOf(Surfaced, conn), e)
    BY <1>7, <1>8, <1>9, PickedOfMore
  <2>7. PickedOf(Surfaced, conn) = EventsIn(wire[conn], q)
    BY <1>4, <2>1 DEF SoFar
  <2>. QED
    BY <1>2, <1>9, <2>5, <2>6, <2>7 DEF SoFar
<1>12. ASSUME NEW c \in Conns, c # conn, NEW j, SoFar(c, j)  PROVE  SoFar(c, j)'
  <2>1. PickedOf(Append(Surfaced, e), c) = PickedOf(Surfaced, c)
    BY <1>7, <1>8, <1>9, <1>12, PickedOfMore
  <2>. QED
    BY <1>2, <1>9, <1>12, <2>1 DEF SoFar
<1>13. p \in 0..taken[conn]
  <2>1. /\ taken[conn] \in Nat /\ lineCh[conn] \in 0..taken[conn]
    BY <1>5 DEF EventsInv, EventsBase, EventsTypeOK, ReadersOK
  <2>. QED
    BY <1>3, <2>1 DEF ParsedOf
<1>14. \A c \in Conns : \E j \in 0..taken'[c] : SoFar(c, j)'
  <2>1. SUFFICES ASSUME NEW c \in Conns  PROVE  \E j \in 0..taken[c] : SoFar(c, j)'
    BY <1>2
  <2>2. CASE c = conn
    BY <1>2, <1>11, <1>13, <2>2 DEF SoFar
  <2>3. CASE c # conn
    BY <1>12, <2>3 DEF EventsInv
  <2>. QED
    BY <2>2, <2>3
<1>15. ParserOK'
  <2>1. ParsedOf(conn)' = p
    BY <1>2, <1>3 DEF ParsedOf
  <2>2. p \in Nat \ {0}
    BY <1>4
  <2>3. Holds(wire[conn], p + 1, NoName, << >>)
    BY <1>4, <2>2, HoldsAfterBlank
  <2>4. ParserHas(p)'
    <3>1. DOMAIN data' = {}
      BY <1>2
    <3>. QED
      BY <1>2, <1>11, <2>3, <3>1 DEF ParserHas
  <2>. QED
    BY <2>1, <2>4 DEF ParserOK
<1>16. InTurn(Surfaced, conn)'
  <2>1. InTurn(Surfaced, conn)
    BY DEF EventsInv
  <2>2. InTurn(Append(Surfaced, e), conn)
    BY <1>5, <1>7, <1>8, <1>9, <2>1, InTurnMore
  <2>. QED
    BY <1>2, <1>9, <2>2
<1>. QED
  BY <1>10, <1>14, <1>15, <1>16 DEF EventsInv

LEMMA EventsInit == CallsInit => EventsInv
<1> SUFFICES ASSUME CallsInit  PROVE  EventsInv
  OBVIOUS
<1>1. /\ sub \in {"off", "dial"} /\ conn = 0 /\ name = NoName /\ data = << >> /\ outcome = "none"
      /\ out = << >> /\ received = << >>
      /\ reader = [c \in Conns |-> "none"] /\ taken = [c \in Conns |-> 0] /\ lineCh = [c \in Conns |-> 0]
      /\ failure = [c \in Conns |-> "none"] /\ errCh = [c \in Conns |-> FALSE]
      /\ wire \in IF sub = "off" THEN {[c \in Conns |-> << >>]} ELSE Streams
  BY DEF CallsInit
<1>2. wire \in [Conns -> Seq(Line)] /\ Numbered(wire)
  <2>1. CASE sub = "off"
    <3>1. wire = [c \in Conns |-> << >>]
      BY <1>1, <2>1
    <3>2. << >> \in Seq(Line) /\ DOMAIN << >> = {}
      OBVIOUS
    <3>3. \A c \in Conns : DOMAIN wire[c] = {}
      BY <3>1, <3>2
    <3>4. wire \in [Conns -> Seq(Line)]
      BY <3>1, <3>2
    <3>. QED
      BY <3>3, <3>4 DEF Numbered
  <2>2. CASE sub # "off"
    BY <1>1, <2>2, StreamsAssumption
  <2>. QED
    BY <2>1, <2>2
<1>3. EventsBase
  <2>1. \A c \in Conns : Len(wire[c]) \in Nat
    BY <1>2
  <2>2. EventsTypeOK
    BY <1>1, <1>2, <2>1, ConnsAre DEF EventsTypeOK
  <2>3. ReadersOK
    BY <1>1, <1>2 DEF ReadersOK
  <2>. QED
    BY <2>2, <2>3 DEF EventsBase
<1>4. Surfaced = << >>
  BY <1>1 DEF Surfaced
<1>5. InTurn(Surfaced, conn)
  BY <1>4 DEF InTurn
<1>6. ASSUME NEW c \in Conns  PROVE  SoFar(c, 0)
  BY <1>4, PickedOfNone, NoEventsYet DEF SoFar
<1>7. \A c \in Conns : 0 \in 0..taken[c]
  BY <1>1
<1>. QED
  BY <1>1, <1>3, <1>5, <1>6, <1>7 DEF EventsInv, ParserOK

LEMMA EventsStep == EventsInv /\ [CallsNext]_callVars => EventsInv'
<1> SUFFICES ASSUME EventsInv, [CallsNext]_callVars  PROVE  EventsInv'
  OBVIOUS
<1>1. CASE UNCHANGED eventVars
  <2>1. UNCHANGED <<wire, reader, taken, lineCh, failure, errCh, sub, conn, name, data, outcome, out, received>>
    BY <1>1 DEF eventVars, readerVars, parserVars
  <2>. QED
    BY <2>1 DEF EventsInv, EventsBase, EventsTypeOK, ReadersOK, Numbered, ParserOK, ParserHas, ParsedOf, SoFar, Surfaced
<1>2. CASE SubscriptionStep
  <2>1. CASE (\E how \in {"error", "unauthorized"} : Refused(how)) \/ Leave \/ Retry
    BY <2>1, RestsAre, RestsKeepEvents DEF EventsInv
  <2>. QED
    BY <1>2, <2>1, ConnectKeepsEvents, TakeLineKeepsEvents, SendKeepsEvents DEF SubscriptionStep
<1>3. UNCHANGED eventVars \/ SubscriptionStep \/ SubscriberTakes \/ \E c \in Conns : ReaderStep(c)
  BY DEF CallsNext, callVars, Cancel, EventsCall, OtherStep, PollCall, RequestCall, LoopbackCall
<1>. QED
  BY <1>1, <1>2, <1>3, SubscriberKeepsEvents, ReaderKeepsEvents

\* events.go:47-212: for any number of connections, any lines on them and any channel and event
\* size, the subscriber has, connection after connection, a beginning of the events that the
\* lines completed.
THEOREM EventsStayInOrder == CallsSpec => []EventsInOrder
<1>1. EventsInv => EventsInOrder
  <2> SUFFICES ASSUME EventsInv  PROVE  EventsInOrder
    OBVIOUS
  <2>1. ASSUME NEW c \in Conns  PROVE  IsPrefix(SurfacedOf(c), EventsIn(wire[c], taken[c]))
    <3>1. PICK j \in 0..taken[c] : SoFar(c, j)
      BY DEF EventsInv
    <3>2. taken[c] \in Nat /\ j \in Nat /\ j <= taken[c]
      BY DEF EventsInv, EventsBase, ReadersOK
    <3>3. SurfacedOf(c) = EventsIn(wire[c], j)
      BY <3>1 DEF SoFar, PickedOf, SurfacedOf
    <3>. QED
      BY <3>2, <3>3, EventsInBegin
  <2>2. \A m, n \in 1..Len(Surfaced) : m < n => Surfaced[m].data[1] <= Surfaced[n].data[1]
    BY DEF EventsInv, InTurn
  <2>. QED
    BY <2>1, <2>2 DEF EventsInOrder
<1>. QED
  BY EventsInit, EventsStep, <1>1, PTL DEF CallsSpec

-----------------------------------------------------------------------------
(* Types.                                                                   *)

ContextOK == cancelled \in BOOLEAN

LEMMA ContextStep == ContextOK /\ [CallsNext]_callVars => ContextOK'
<1> SUFFICES ASSUME cancelled \in BOOLEAN, [CallsNext]_callVars  PROVE  cancelled' \in BOOLEAN
  BY DEF ContextOK
<1>1. CASE Cancel
  BY <1>1 DEF Cancel
<1>2. CASE SubscriptionStep \/ SubscriberTakes \/ \E c \in Conns : ReaderStep(c)
  <2>1. cancelled' = cancelled
    BY <1>2
    DEF SubscriptionStep, Connect, Refused, Leave, Return, TakeLine, Send, Retry, SubscriberTakes, ReaderStep
  <2>. QED
    BY <2>1
<1>3. Cancel \/ UNCHANGED cancelled \/ SubscriptionStep \/ SubscriberTakes \/ \E c \in Conns : ReaderStep(c)
  BY DEF CallsNext, callVars, EventsCall, OtherStep, PollCall, RequestCall, LoopbackCall
<1>. QED
  BY <1>1, <1>2, <1>3

\* events.go:47, device_auth.go:119, oauth2.go:113, diagnostics.go:59, client.go:84 and
\* oauthloopback/listener.go:108: in every state of the calls, whatever their bounds, the state of each
\* is of its kind and its channels and counters keep to their capacities.
THEOREM CallsAreTyped == CallsSpec => []CallsTypeOK
<1>1. EventsInv /\ LoopbackInv /\ HttpInv /\ DiagInv /\ PollInv /\ ContextOK => CallsTypeOK
  BY DEF ContextOK, EventsInv, EventsBase, LoopbackInv, HttpInv, DiagInv, PollInv, CallsTypeOK
<1>2. CallsInit => ContextOK
  BY DEF CallsInit, ContextOK
<1>. QED
  BY EventsInit, EventsStep, LoopbackInit, LoopbackStep, HttpInvHolds, DiagInvHolds, PollInit, PollStepKeeps,
     ContextStep, <1>1, <1>2, PTL DEF CallsSpec
=============================================================================
