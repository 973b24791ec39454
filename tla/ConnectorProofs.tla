-------------------------- MODULE ConnectorProofs ---------------------------
(***************************************************************************)
(* For any number of connections, targets and paths: what the connector    *)
(* sends it sends once and to where its route says, the shutdown can find  *)
(* every open socket, and a connection that is over leaves nothing behind. *)
(***************************************************************************)
EXTENDS Connector, TextsProofs

Shape ==
  /\ phase \in [Conn -> Phase]
  /\ client \in [Conn -> {"none", "open", "closed"}]
  /\ upstream \in [Conn -> {"none", "open", "bounded", "closed"}]
  /\ tracked \subseteq Socket
  /\ onWire \in [Conn -> BOOLEAN] /\ wrote \in [Conn -> BOOLEAN]
  /\ copies \in [Conn -> Nat]

\* A request that may be sent again has never been written.
SentInv ==
  \A c \in Conn : onWire[c] = wrote[c] /\ copies[c] = (IF wrote[c] THEN 1 ELSE 0)

\* Where the sockets of one connection are, phase by phase.
Kept(c) ==
  /\ phase[c] \in {"halved", "piping", "handshaking", "reading", "sending", "answering"}
       /\ client[c] = "open" => <<c, "client">> \in tracked
  /\ phase[c] = "piping" /\ upstream[c] = "open" => <<c, "upstream">> \in tracked
  /\ phase[c] \notin {"proxied", "asking", "granted", "dialed", "hijacked", "halved", "piping"} =>
       upstream[c] \notin {"open", "bounded"}
  /\ phase[c] \in {"ending", "gone"} => client[c] = "closed"
  /\ phase[c] \in {"none", "waiting", "dialing", "proxied", "asking", "granted", "dialed",
                   "hijacked", "minting", "gone"} =>
       <<c, "client">> \notin tracked /\ <<c, "upstream">> \notin tracked

ConnectorInv == Shape /\ SentInv /\ \A c \in Conn : Kept(c)

-----------------------------------------------------------------------------
LEMMA ConnectorInvInit == ConnectorInit => ConnectorInv
  BY DEF ConnectorInit, ConnectorInv, Shape, SentInv, Kept, Phase, Socket

\* A step of one connection leaves the sockets of the others where they are.
LEMMA ConnectionStep ==
  ASSUME ConnectorInv, NEW c \in Conn,
         \/ Connect(c) \/ ClientLeaves(c) \/ HangUp(c) \/ Refuse(c) \/ Untrack(c)
         \/ TunnelNext(c) \/ InterceptNext(c)
  PROVE  ConnectorInv'
<1> USE DEF ConnectorInv, Shape, SentInv, Kept, Phase, Socket, Move, Close,
            CloseUpstream, tripVars, socketVars
<1>1. CASE Connect(c)
  BY <1>1 DEF Connect
<1>2. CASE ClientLeaves(c)
  BY <1>2 DEF ClientLeaves
<1>3. CASE HangUp(c)
  BY <1>3 DEF HangUp
<1>4. CASE Refuse(c)
  BY <1>4 DEF Refuse, Reply
<1>5. CASE Untrack(c)
  BY <1>5 DEF Untrack, Both
<1>6. CASE ConnectTunnel(c)
  BY <1>6 DEF ConnectTunnel
<1>7. CASE DialFails(c)
  BY <1>7 DEF DialFails, Reply
<1>8. CASE Dialed(c)
  BY <1>8 DEF Dialed
<1>9. CASE HijackFails(c)
  BY <1>9 DEF HijackFails, Reply
<1>10. CASE Hijack(c)
  BY <1>10 DEF Hijack
<1>11. CASE TrackClient(c)
  BY <1>11 DEF TrackClient
<1>12. CASE TrackUpstream(c)
  BY <1>12 DEF TrackUpstream
<1>13. CASE PipeEnds(c)
  BY <1>13 DEF PipeEnds
<1>14. CASE UpstreamLeaves(c)
  BY <1>14 DEF UpstreamLeaves
<1>15. CASE ConnectIntercept(c)
  BY <1>15 DEF ConnectIntercept
<1>16. CASE MintFails(c)
  BY <1>16 DEF MintFails
<1>17. CASE Minted(c)
  BY <1>17 DEF Minted
<1>18. CASE Handshake(c)
  BY <1>18 DEF Handshake
<1>19. CASE ReadFails(c)
  BY <1>19 DEF ReadFails
<1>20. ASSUME NEW r \in Arrivals, Block(c, r) PROVE ConnectorInv'
  BY <1>20 DEF Block
<1>21. ASSUME NEW r \in Arrivals, Send(c, r) PROVE ConnectorInv'
  BY <1>21 DEF Send
<1>22. CASE Write(c)
  <2>0. copies[c] = 0
    BY <1>22 DEF Write
  <2>1. copies' = [copies EXCEPT ![c] = 1]
    BY <1>22, <2>0, 0 + 1 = 1 DEF Write
  <2>2. onWire' = [onWire EXCEPT ![c] = TRUE] /\ wrote' = [wrote EXCEPT ![c] = TRUE]
    BY <1>22 DEF Write
  <2>3. UNCHANGED socketVars
    BY <1>22 DEF Write
  <2>4. Shape'
    BY <2>1, <2>2, <2>3
  <2>5. SentInv'
    BY <2>1, <2>2
  <2> QED
    BY <2>3, <2>4, <2>5
<1>23. CASE Replay(c)
  <2>0. attempt[c] = 1
    BY <1>23 DEF Replay, Replayable
  <2>1. attempt' = [attempt EXCEPT ![c] = 2]
    BY <1>23, <2>0, 1 + 1 = 2 DEF Replay
  <2>2. onWire' = [onWire EXCEPT ![c] = FALSE] /\ UNCHANGED <<socketVars, request, wrote, copies>>
    BY <1>23 DEF Replay
  <2>3. Shape'
    BY <2>1, <2>2
  <2>4. ~wrote[c]
    BY <1>23 DEF Replay, Replayable
  <2>5. SentInv'
    BY <2>1, <2>2, <2>4
  <2> QED
    BY <2>2, <2>3, <2>5
<1>24. CASE TripFails(c)
  BY <1>24 DEF TripFails, RequestDone
<1>25. CASE Answer(c)
  BY <1>25 DEF Answer
<1>26. CASE Answered(c)
  <2>1. CASE Move(c, "answering", "reading") /\ UNCHANGED client
    BY <1>26, <2>1 DEF Answered, RequestDone
  <2>2. CASE Move(c, "answering", "ending") /\ Close(c)
    BY <1>26, <2>2 DEF Answered, RequestDone
  <2> QED
    BY <1>26, <2>1, <2>2 DEF Answered
<1>27. CASE AnswerFails(c)
  BY <1>27 DEF AnswerFails, RequestDone
<1>30. CASE DialProxy(c)
  BY <1>30 DEF DialProxy
<1>31. CASE BoundSetup(c)
  BY <1>31 DEF BoundSetup
<1>32. CASE BoundFails(c)
  BY <1>32 DEF BoundFails, Reply
<1>33. CASE ProxyFails(c)
  BY <1>33 DEF ProxyFails, Reply
<1>34. CASE ProxyGrants(c)
  BY <1>34 DEF ProxyGrants
<1>35. CASE HandBack(c)
  BY <1>35 DEF HandBack
<1>36. CASE HandBackFails(c)
  BY <1>36 DEF HandBackFails, Reply
<1> HIDE DEF ConnectorInv, Shape, SentInv, Kept, Phase, Socket, Move, Close,
             CloseUpstream, tripVars, socketVars
<1>28. CASE TunnelNext(c)
  BY <1>6, <1>7, <1>8, <1>9, <1>10, <1>11, <1>12, <1>13, <1>14, <1>28,
     <1>30, <1>31, <1>32, <1>33, <1>34, <1>35, <1>36
  DEF TunnelNext
<1>29. CASE InterceptNext(c)
  BY <1>15, <1>16, <1>17, <1>18, <1>19, <1>20, <1>21, <1>22, <1>23, <1>24, <1>25,
     <1>26, <1>27, <1>29
  DEF InterceptNext
<1> QED
  BY <1>1, <1>2, <1>3, <1>4, <1>5, <1>28, <1>29

LEMMA ServeStep == ConnectorInv /\ ServeNext => ConnectorInv'
<1> SUFFICES ASSUME ConnectorInv, ServeNext PROVE ConnectorInv'
  OBVIOUS
<1> USE DEF ConnectorInv, Shape, SentInv, Kept, Phase, Socket, tripVars, socketVars
<1>1. CASE Sweep
  BY <1>1 DEF Sweep
<1>2. CASE UNCHANGED <<socketVars, tripVars>>
  BY <1>2
<1> QED
  BY <1>1, <1>2 DEF ServeNext, Cancel, ListenerFails, Shutdown, WatcherLeaves, Drained

LEMMA ConnectorInvStep == ConnectorInv /\ [ConnectorNext]_connectorVars => ConnectorInv'
<1>1. CASE UNCHANGED connectorVars
  BY <1>1 DEF ConnectorInv, Shape, SentInv, Kept, connectorVars, tripVars, socketVars
<1> QED
  BY <1>1, ConnectionStep, ServeStep DEF ConnectorNext

LEMMA ConnectorInvHolds == ConnectorSpec => []ConnectorInv
  BY ConnectorInvInit, ConnectorInvStep, PTL DEF ConnectorSpec

\* server.go:462-473: whatever fails and is cancelled, no request is written twice.
THEOREM RequestsAreSentOnce == ConnectorSpec => []SentOnce
<1>1. ConnectorInv => SentOnce
  BY DEF ConnectorInv, SentInv, SentOnce
<1> QED
  BY <1>1, ConnectorInvHolds, PTL

\* server.go:214, 215, 372: no socket of an established connection escapes the sweep.
THEOREM OpenSocketsAreTracked == ConnectorSpec => []OpenIsTracked
<1>1. ConnectorInv => OpenIsTracked
  BY DEF ConnectorInv, Kept, OpenIsTracked
<1> QED
  BY <1>1, ConnectorInvHolds, PTL

\* server.go:203, 281-325 and 331-344: whatever step fails, of the dial, of the setup
\* through a proxy or later, the socket to the other end is closed when its handler is
\* done with it, and a connection that is over has closed and forgotten its sockets.
THEOREM OverMeansClosed == ConnectorSpec => []NothingLeaks
<1>1. ConnectorInv => NothingLeaks
  BY DEF ConnectorInv, Kept, NothingLeaks, AtProxy, Both
<1> QED
  BY <1>1, ConnectorInvHolds, PTL

-----------------------------------------------------------------------------
(* Paths: what path.Clean makes of one, and that there is no other way to   *)
(* simplify it.                                                             *)

Segment == STRING
Paths == Seq(Segment)
Dots == {"", ".", ".."}

LEMMA KeepingIs ==
  ASSUME NEW k \in Paths, NEW x \in Segment
  PROVE  Keeping(k, x) \in Paths
<1>1. k \in Seq(Segment)
  BY DEF Paths
<1>2. Append(k, x) \in Seq(Segment)
  BY <1>1
<1>3. k # << >> => Front(k) \in Seq(Segment)
  <2>1. k # << >> => Len(k) \in Nat /\ 1 <= Len(k)
    BY <1>1
  <2>2. k # << >> => SubSeq(k, 1, Len(k) - 1) \in Seq(Segment)
    BY <1>1, <2>1
  <2>. QED
    BY <2>2 DEF Front
<1>4. Keeping(k, x) \in {k, Append(k, x)} \/ (k # << >> /\ Keeping(k, x) = Front(k))
  BY DEF Keeping
<1>. QED
  BY <1>1, <1>2, <1>3, <1>4 DEF Paths

LEMMA CleanUpToIs ==
  ASSUME NEW p \in Paths
  PROVE  /\ CleanUpTo(p) \in [0..Len(p) -> Paths] /\ CleanUpTo(p)[0] = << >>
         /\ \A n \in 1..Len(p) : CleanUpTo(p)[n] = Keeping(CleanUpTo(p)[n - 1], p[n])
<1> DEFINE N == Len(p)
           step == [n \in 1..N |-> [k \in Paths |-> Keeping(k, p[n])]]
           Cleans(g) == g = [n \in 0..N |-> IF n = 0 THEN << >> ELSE Keeping(g[n - 1], p[n])]
<1>1. N \in Nat /\ << >> \in Paths /\ \A n \in 1..N : p[n] \in Segment
  BY DEF Paths
<1>2. step \in [1..N -> [Paths -> Paths]]
  BY <1>1, KeepingIs
<1>3. PICK f \in [0..N -> Paths] : Follows(f, N, << >>, step)
  <2>. HIDE DEF step, N
  <2>. QED
    BY <1>1, <1>2, RecursionExists
<1>4. ASSUME NEW n \in 1..N  PROVE  n - 1 \in 0..N /\ n # 0 /\ f[n] = Keeping(f[n - 1], p[n])
  <2>1. n - 1 \in 0..N /\ n # 0
    BY <1>1
  <2>2. f[n - 1] \in Paths /\ f[n] = step[n][f[n - 1]]
    BY <1>3, <2>1 DEF Follows
  <2>. QED
    BY <2>1, <2>2
<1>5. Cleans(f)
  <2>1. ASSUME NEW n \in 0..N  PROVE  f[n] = IF n = 0 THEN << >> ELSE Keeping(f[n - 1], p[n])
    <3>1. n = 0 \/ n \in 1..N
      BY <1>1
    <3>2. f[0] = << >>
      BY <1>3 DEF Follows
    <3>. HIDE DEF N
    <3>. QED
      BY <1>4, <3>1, <3>2
  <2>. HIDE DEF N
  <2>. QED
    BY <2>1
<1>6. CleanUpTo(p) = CHOOSE g : Cleans(g)
  BY DEF CleanUpTo
<1>7. Cleans(CleanUpTo(p))
  <2>. HIDE DEF Cleans
  <2>. QED
    BY <1>5, <1>6
<1> DEFINE c == CleanUpTo(p)
<1>8. c = [n \in 0..N |-> IF n = 0 THEN << >> ELSE Keeping(c[n - 1], p[n])]
  BY <1>7, Zenon
<1>. HIDE DEF c
<1>9. /\ DOMAIN c = 0..N /\ c = [n \in 0..N |-> c[n]] /\ c[0] = << >>
      /\ \A n \in 1..N : c[n] = Keeping(c[n - 1], p[n])
  <2>1. DOMAIN c = 0..N
    BY <1>8
  <2>2. c = [n \in 0..N |-> c[n]]
    BY <1>8, <2>1
  <2>3. \A n \in 0..N : c[n] = IF n = 0 THEN << >> ELSE Keeping(c[n - 1], p[n])
    BY <1>8
  <2>4. 0 \in 0..N /\ \A n \in 1..N : n \in 0..N /\ n # 0
    BY <1>1
  <2>. HIDE DEF N
  <2>. QED
    BY <2>1, <2>2, <2>3, <2>4
<1>10. c \in [0..N -> Paths]
  <2>1. ASSUME NEW n \in 1..N, c[n - 1] \in Paths  PROVE  c[n] \in Paths
    BY <1>1, <1>9, <2>1, KeepingIs
  <2>. HIDE DEF N
  <2>. QED
    BY <1>1, <1>9, <2>1, RecursionTyped
<1>. QED
  BY <1>9, <1>10 DEF c

GoOnAlike(p, i, q, j, N) == \A m \in 1..N : p[i + m] = q[j + m]

\* Two paths that go on alike from where as much is kept of them.
LEMMA CleanGoesOn ==
  ASSUME NEW p \in Paths, NEW q \in Paths, NEW i \in Nat, NEW j \in Nat, NEW N \in Nat,
         i + N <= Len(p), j + N <= Len(q), CleanUpTo(p)[i] = CleanUpTo(q)[j],
         GoOnAlike(p, i, q, j, N)
  PROVE  CleanUpTo(p)[i + N] = CleanUpTo(q)[j + N]
<1>1. PICK f, g : f = CleanUpTo(p) /\ g = CleanUpTo(q)
  OBVIOUS
<1>2. /\ \A n \in 1..Len(p) : f[n] = Keeping(f[n - 1], p[n])
      /\ \A n \in 1..Len(q) : g[n] = Keeping(g[n - 1], q[n])
      /\ f[i] = g[j]
  BY <1>1, CleanUpToIs
<1>. Len(p) \in Nat /\ Len(q) \in Nat
  BY DEF Paths
<1> DEFINE S == {m \in Nat : m <= N => f[i + m] = g[j + m]}
<1>3. 0 \in S
  BY <1>2
<1>4. ASSUME NEW m \in S  PROVE  m + 1 \in S
  <2>1. SUFFICES ASSUME m + 1 <= N  PROVE  f[i + (m + 1)] = g[j + (m + 1)]
    OBVIOUS
  <2>2. m \in Nat /\ m <= N /\ f[i + m] = g[j + m]
    BY <2>1
  <2>3. /\ i + (m + 1) \in 1..Len(p) /\ (i + (m + 1)) - 1 = i + m
        /\ j + (m + 1) \in 1..Len(q) /\ (j + (m + 1)) - 1 = j + m /\ m + 1 \in 1..N
    <3>1. PICK a, b : a = Len(p) /\ b = Len(q)
      OBVIOUS
    <3>2. a \in Nat /\ b \in Nat /\ i + N <= a /\ j + N <= b
      BY <3>1
    <3>. HIDE DEF S
    <3>3. m \in Nat /\ m + 1 <= N
      BY <2>1, <2>2
    <3>4. /\ i + (m + 1) \in 1..a /\ (i + (m + 1)) - 1 = i + m
          /\ j + (m + 1) \in 1..b /\ (j + (m + 1)) - 1 = j + m /\ m + 1 \in 1..N
      BY <3>2, <3>3
    <3>. QED
      BY <3>1, <3>4
  <2>. QED
    BY <1>2, <2>2, <2>3 DEF GoOnAlike
<1>5. S = Nat
  <2>. HIDE DEF S
  <2>1. S \in SUBSET Nat
    BY DEF S
  <2>. QED
    BY <1>3, <1>4, <2>1, InductionOnNat
<1>6. N \in S
  BY <1>5
<1>. QED
  BY <1>1, <1>6

LEMMA WithoutIs ==
  ASSUME NEW p \in Paths, NEW i \in 1..Len(p), NEW d \in {0, 1}, i + d <= Len(p)
  PROVE  LET q == Without(p, i, i + d)
         IN  /\ q \in Paths /\ Len(q) = Len(p) - (d + 1) /\ Len(q) \in Nat
             /\ \A m \in 1..i - 1 : q[m] = p[m]
             /\ \A m \in i..Len(q) : q[m] = p[m + (d + 1)]
<1>1. PICK a, b, n : a = SubSeq(p, 1, i - 1) /\ b = SubSeq(p, i + d + 1, n) /\ n = Len(p)
  OBVIOUS
<1>2. n \in Nat /\ i \in Nat /\ i >= 1 /\ d \in Nat
  BY <1>1 DEF Paths
<1>3. /\ a \in Paths /\ Len(a) = i - 1 /\ \A m \in 1..i - 1 : a[m] = p[m]
  BY <1>1, <1>2 DEF Paths
<1>4. /\ b \in Paths /\ Len(b) = n - (i + d) /\ \A m \in 1..n - (i + d) : b[m] = p[i + d + m]
  BY <1>1, <1>2 DEF Paths
<1>5. PICK q : q = a \o b
  OBVIOUS
<1>6. /\ q \in Paths /\ Len(q) = Len(a) + Len(b)
      /\ \A m \in 1..Len(a) : q[m] = a[m]
      /\ \A m \in 1..Len(b) : q[Len(a) + m] = b[m]
  BY <1>3, <1>4, <1>5, ConcatProperties, SMTT(30) DEF Paths
<1>7. Len(q) = n - (d + 1) /\ Len(q) \in Nat
  BY <1>1, <1>2, <1>3, <1>4, <1>6
<1>8. ASSUME NEW m \in i..Len(q)  PROVE  q[m] = p[m + (d + 1)]
  <2>1. PICK l : l = m - (i - 1)
    OBVIOUS
  <2>2. l \in 1..Len(b) /\ Len(a) + l = m /\ i + d + l = m + (d + 1)
    BY <1>2, <1>3, <1>4, <1>7, <2>1
  <2>. QED
    BY <1>4, <1>6, <2>2
<1>9. \A m \in 1..i - 1 : q[m] = p[m]
  BY <1>2, <1>3, <1>6
<1>10. Without(p, i, i + d) = q
  BY <1>1, <1>5 DEF Without
<1>. QED
  BY <1>1, <1>6, <1>7, <1>8, <1>9, <1>10

\* A segment or two may go where they leave no trace in what is kept.
LEMMA WithoutIsClean ==
  ASSUME NEW p \in Paths, NEW i \in 1..Len(p), NEW d \in {0, 1}, i + d <= Len(p),
         CleanUpTo(p)[i + d] = CleanUpTo(p)[i - 1]
  PROVE  Clean(Without(p, i, i + d)) = Clean(p)
<1>1. PICK q : q = Without(p, i, i + d)
  OBVIOUS
<1>2. /\ q \in Paths /\ Len(q) = Len(p) - (d + 1) /\ Len(q) \in Nat
      /\ \A m \in 1..i - 1 : q[m] = p[m]
      /\ \A m \in i..Len(q) : q[m] = p[m + (d + 1)]
  BY <1>1, WithoutIs
<1>3. Len(p) \in Nat /\ i \in Nat /\ d \in Nat /\ i - 1 \in Nat /\ i - 1 <= Len(q)
  BY <1>2 DEF Paths
<1>4. CleanUpTo(p)[i - 1] = CleanUpTo(q)[i - 1]
  <2>1. CleanUpTo(p)[0] = CleanUpTo(q)[0]
    BY <1>2, CleanUpToIs
  <2>2. PICK z, M : z = 0 /\ M = i - 1
    OBVIOUS
  <2>3. z \in Nat /\ M \in Nat /\ z + M <= Len(p) /\ z + M <= Len(q) /\ z + M = i - 1
    BY <1>2, <1>3, <2>2
  <2>4. GoOnAlike(p, z, q, z, M)
    BY <1>2, <2>2 DEF GoOnAlike
  <2>5. CleanUpTo(p)[z] = CleanUpTo(q)[z]
    BY <2>1, <2>2
  <2>6. CleanUpTo(p)[z + M] = CleanUpTo(q)[z + M]
    BY <1>2, <2>3, <2>4, <2>5, CleanGoesOn
  <2>. QED
    BY <2>3, <2>6
<1>5. PICK N, u, v : N = Len(p) - (i + d) /\ u = i + d /\ v = i - 1
  OBVIOUS
<1>6. /\ N \in Nat /\ u \in Nat /\ v \in Nat /\ u + N = Len(p) /\ v + N = Len(q)
      /\ u + N <= Len(p) /\ v + N <= Len(q)
  BY <1>2, <1>3, <1>5
<1>7. GoOnAlike(p, u, q, v, N)
  <2>. SUFFICES ASSUME NEW m \in 1..N  PROVE  p[u + m] = q[v + m]
    BY DEF GoOnAlike
  <2>1. v + m \in i..Len(q) /\ (v + m) + (d + 1) = u + m
    BY <1>3, <1>5, <1>6
  <2>. QED
    BY <1>2, <2>1
<1>8. CleanUpTo(p)[u + N] = CleanUpTo(q)[v + N]
  <2>1. CleanUpTo(p)[u] = CleanUpTo(q)[v]
    BY <1>4, <1>5
  <2>2. q \in Paths /\ u \in Nat /\ v \in Nat /\ N \in Nat /\ u + N <= Len(p) /\ v + N <= Len(q)
    BY <1>2, <1>6
  <2>. QED
    BY <1>7, <2>1, <2>2, CleanGoesOn
<1>. QED
  BY <1>1, <1>6, <1>8 DEF Clean

\* A simplification takes segments away and nothing of what is kept.
LEMMA SimplerIs ==
  ASSUME NEW p \in Paths, NEW q \in Simpler(p)
  PROVE  q \in Paths /\ Len(q) \in Nat /\ Len(q) < Len(p) /\ Clean(q) = Clean(p)
<1>1. PICK f : f = CleanUpTo(p)
  OBVIOUS
<1>2. /\ Len(p) \in Nat /\ DOMAIN p = 1..Len(p) /\ f[0] = << >>
      /\ \A n \in 1..Len(p) : f[n] = Keeping(f[n - 1], p[n]) /\ p[n] \in Segment
      /\ \A n \in 0..Len(p) : f[n] \in Paths
  <2>1. /\ f[0] = << >> /\ \A n \in 1..Len(p) : f[n] = Keeping(f[n - 1], p[n])
        /\ \A n \in 0..Len(p) : f[n] \in Paths
    BY <1>1, CleanUpToIs
  <2>2. /\ Len(p) \in Nat /\ DOMAIN p = 1..Len(p) /\ \A n \in 1..Len(p) : p[n] \in Segment
    BY DEF Paths
  <2>. QED
    BY <2>1, <2>2
<1>3. ASSUME NEW i \in 1..Len(p), NEW d \in {0, 1}, i + d <= Len(p), q = Without(p, i, i + d),
             f[i + d] = f[i - 1]
      PROVE  q \in Paths /\ Len(q) \in Nat /\ Len(q) < Len(p) /\ Clean(q) = Clean(p)
  <2>1. q \in Paths /\ Len(q) = Len(p) - (d + 1) /\ Len(q) \in Nat
    BY <1>3, WithoutIs
  <2>2. Clean(q) = Clean(p)
    BY <1>1, <1>3, WithoutIsClean
  <2>. QED
    BY <1>2, <2>1, <2>2
<1>4. CASE \E i \in 1..Len(p) : q = Without(p, i, i) /\ (p[i] \in {"", "."} \/ (i = 1 /\ p[i] = ".."))
  <2>1. PICK i \in 1..Len(p) : q = Without(p, i, i) /\ (p[i] \in {"", "."} \/ (i = 1 /\ p[i] = ".."))
    BY <1>4
  <2>2. PICK d \in {0, 1} : d = 0
    OBVIOUS
  <2>3. i + d = i /\ i + d <= Len(p) /\ i \in Nat
    BY <1>2, <2>2
  <2>4. f[i] = f[i - 1]
    <3>1. f[i] = Keeping(f[i - 1], p[i])
      BY <1>2
    <3>2. CASE p[i] \in {"", "."}
      BY <3>1, <3>2 DEF Keeping
    <3>3. CASE i = 1 /\ p[i] = ".."
      <4>1. f[i - 1] = << >>
        BY <1>2, <3>3
      <4>. QED
        BY <3>1, <3>3, <4>1 DEF Keeping
    <3>. QED
      BY <2>1, <3>2, <3>3
  <2>. QED
    BY <1>3, <2>1, <2>2, <2>3, <2>4
<1>5. CASE \E i \in 1..Len(p) : i # Len(p) /\ q = Without(p, i, i + 1) /\ p[i] \notin Dots /\ p[i + 1] = ".."
  <2>1. PICK i \in 1..Len(p) : i # Len(p) /\ q = Without(p, i, i + 1) /\ p[i] \notin Dots /\ p[i + 1] = ".."
    BY <1>5
  <2>2. PICK d \in {0, 1} : d = 1
    OBVIOUS
  <2>3. i + d <= Len(p) /\ i + 1 = i + d /\ i + 1 \in 1..Len(p) /\ (i + 1) - 1 = i /\ i - 1 \in 0..Len(p)
    BY <1>2, <2>1, <2>2
  <2>4. f[i + 1] = f[i - 1]
    <3>1. PICK k, x : k = f[i - 1] /\ x = p[i]
      OBVIOUS
    <3>2. f[i] = Keeping(k, x) /\ f[i + 1] = Keeping(f[i], "..") /\ k \in Seq(Segment) /\ x \in Segment
      BY <1>2, <2>1, <2>3, <3>1 DEF Paths
    <3>3. Keeping(k, x) = Append(k, x)
      BY <2>1, <3>1 DEF Keeping, Dots
    <3>4. Append(k, x) # << >> /\ SubSeq(Append(k, x), 1, Len(Append(k, x)) - 1) = k
      <4>1. PICK a : a = Append(k, x)
        OBVIOUS
      <4>2. a \in Seq(Segment) /\ Len(a) = Len(k) + 1 /\ Len(k) \in Nat /\ \A n \in 1..Len(k) : a[n] = k[n]
        BY <3>2, <4>1
      <4>3. SubSeq(a, 1, Len(k)) = k
        BY <3>2, <4>2
      <4>4. a # << >> /\ Len(a) - 1 = Len(k)
        BY <4>2
      <4>. QED
        BY <4>1, <4>3, <4>4
    <3>5. Keeping(Append(k, x), "..") = k
      BY <3>4 DEF Keeping, Front
    <3>. QED
      BY <3>1, <3>2, <3>3, <3>5
  <2>. QED
    BY <1>3, <2>1, <2>2, <2>3, <2>4
<1>6. q \in UNION {{Without(p, i, i) : i \in {j \in DOMAIN p : p[j] \in {"", "."} \/ (j = 1 /\ p[j] = "..")}},
                   {Without(p, i, i + 1) : i \in {j \in DOMAIN p \ {Len(p)} : p[j] \notin Dots /\ p[j + 1] = ".."}}}
  BY DEF Simpler, Dots
<1>. QED
  BY <1>2, <1>4, <1>5, <1>6

\* A path that cannot be simplified is kept whole.
LEMMA PlainIsClean ==
  ASSUME NEW p \in Paths, Simpler(p) = {}
  PROVE  Clean(p) = p
<1>1. PICK f : f = CleanUpTo(p)
  OBVIOUS
<1>2. /\ Len(p) \in Nat /\ DOMAIN p = 1..Len(p) /\ f[0] = << >>
      /\ \A n \in 1..Len(p) : f[n] = Keeping(f[n - 1], p[n]) /\ p[n] \in Segment
      /\ p \in Seq(Segment)
  BY <1>1, CleanUpToIs DEF Paths
<1>3. \A j \in 1..Len(p) : p[j] \notin {"", "."} /\ ~(j = 1 /\ p[j] = "..")
  <2>1. {j \in DOMAIN p : p[j] \in {"", "."} \/ (j = 1 /\ p[j] = "..")} = {}
    BY DEF Simpler
  <2>. QED
    BY <1>2, <2>1
<1>4. \A j \in 1..Len(p) : j # Len(p) => ~(p[j] \notin Dots /\ p[j + 1] = "..")
  <2>1. {j \in DOMAIN p \ {Len(p)} : p[j] \notin {"", ".", ".."} /\ p[j + 1] = ".."} = {}
    BY DEF Simpler
  <2>. QED
    BY <1>2, <2>1 DEF Dots
<1>5. \A j \in 1..Len(p) : p[j] # ".."
  <2> DEFINE S == {j \in 1..Len(p) : p[j] = ".."}
  <2>1. SUFFICES ASSUME S # {}  PROVE  FALSE
    OBVIOUS
  <2>2. PICK j \in S : \A l \in S : j <= l
    <3>1. S \in SUBSET Nat
      BY <1>2
    <3>. HIDE DEF S
    <3>. QED
      BY <2>1, <3>1, LeastExists
  <2>3. j \in 1..Len(p) /\ p[j] = ".." /\ j # 1
    BY <1>3
  <2>4. PICK m \in 1..Len(p) : m = j - 1 /\ m + 1 = j /\ m # Len(p)
    <3>1. j - 1 \in 1..Len(p) /\ (j - 1) + 1 = j /\ j - 1 # Len(p)
      BY <1>2, <2>3
    <3>. QED
      BY <3>1
  <2>5. p[m] = ".."
    BY <1>3, <1>4, <2>3, <2>4 DEF Dots
  <2>6. j <= m
    BY <2>2, <2>5
  <2>. QED
    BY <1>2, <2>4, <2>6
<1> DEFINE S == {n \in Nat : n <= Len(p) => f[n] = SubSeq(p, 1, n)}
<1>6. 0 \in S
  <2>1. SubSeq(p, 1, 0) = << >>
    OBVIOUS
  <2>. QED
    BY <1>2, <2>1
<1>7. ASSUME NEW n \in S  PROVE  n + 1 \in S
  <2>1. SUFFICES ASSUME n + 1 <= Len(p)  PROVE  f[n + 1] = SubSeq(p, 1, n + 1)
    OBVIOUS
  <2>2. n \in Nat /\ n + 1 \in 1..Len(p) /\ (n + 1) - 1 = n /\ f[n] = SubSeq(p, 1, n)
    BY <1>2, <2>1
  <2>3. f[n + 1] = Keeping(f[n], p[n + 1]) /\ p[n + 1] \notin Dots
    BY <1>2, <1>3, <1>5, <2>2 DEF Dots
  <2>4. f[n + 1] = Append(SubSeq(p, 1, n), p[n + 1])
    BY <2>2, <2>3 DEF Keeping, Dots
  <2>5. SubSeq(p, 1, n + 1) = Append(SubSeq(p, 1, n), p[n + 1])
    <3>1. PICK a, m : a = SubSeq(p, 1, n) /\ m = n + 1
      OBVIOUS
    <3>2. m \in 1..Len(p) /\ n \in Nat /\ m = n + 1
      BY <2>2, <3>1
    <3>3. a \in Seq(Segment) /\ Len(a) = n /\ p[m] \in Segment /\ \A i \in 1..n : a[i] = p[i]
      BY <1>2, <3>1, <3>2
    <3>4. PICK b : b = Append(a, p[m])
      OBVIOUS
    <3>5. b \in Seq(Segment) /\ Len(b) = m /\ \A i \in 1..m : b[i] = p[i]
      BY <3>2, <3>3, <3>4
    <3>6. PICK c : c = SubSeq(p, 1, m)
      OBVIOUS
    <3>7. c \in Seq(Segment) /\ Len(c) = m /\ \A i \in 1..m : c[i] = p[i]
      BY <1>2, <3>2, <3>6
    <3>8. b = c
      BY <3>5, <3>7, SeqEqual
    <3>. QED
      BY <3>1, <3>4, <3>6, <3>8
  <2>. QED
    BY <2>4, <2>5
<1>8. S = Nat
  <2>. HIDE DEF S
  <2>1. S \in SUBSET Nat
    BY DEF S
  <2>. QED
    BY <1>6, <1>7, <2>1, InductionOnNat
<1>9. Len(p) \in S
  BY <1>2, <1>8
<1>10. f[Len(p)] = p
  <2>1. f[Len(p)] = SubSeq(p, 1, Len(p))
    BY <1>9
  <2>2. SubSeq(p, 1, Len(p)) = p
    BY <1>2, SubSeqFull
  <2>. QED
    BY <2>1, <2>2
<1>. QED
  BY <1>1, <1>10 DEF Clean

\* One simplification of each path of a set that has one.
SimplifiedOnce(x) == UNION {IF Simpler(p) = {} THEN {p} ELSE Simpler(p) : p \in x}

LEMMA SimplifiedUpToIs ==
  ASSUME NEW p \in Paths
  PROVE  /\ SimplifiedUpTo(p)[0] = {p}
         /\ \A n \in 1..Len(p) : SimplifiedUpTo(p)[n] = SimplifiedOnce(SimplifiedUpTo(p)[n - 1])
<1> DEFINE N == Len(p)
           T == SUBSET Paths
           step == [n \in 1..N |-> [x \in T |-> SimplifiedOnce(x)]]
           Simplifies(g) == g = [n \in 0..N |-> IF n = 0 THEN {p} ELSE SimplifiedOnce(g[n - 1])]
<1>1. N \in Nat /\ {p} \in T
  BY DEF Paths
<1>2. step \in [1..N -> [T -> T]]
  <2>1. \A x \in T : SimplifiedOnce(x) \in T
    BY SimplerIs DEF SimplifiedOnce
  <2>. HIDE DEF T
  <2>. QED
    BY <2>1
<1>3. PICK f \in [0..N -> T] : Follows(f, N, {p}, step)
  <2>. HIDE DEF step, N, T
  <2>. QED
    BY <1>1, <1>2, RecursionExists
<1>4. ASSUME NEW n \in 1..N  PROVE  n - 1 \in 0..N /\ n # 0 /\ f[n] = SimplifiedOnce(f[n - 1])
  <2>1. n - 1 \in 0..N /\ n # 0
    BY <1>1
  <2>. HIDE DEF T
  <2>2. f[n - 1] \in T /\ f[n] = step[n][f[n - 1]]
    BY <1>3, <2>1 DEF Follows
  <2>. QED
    BY <2>1, <2>2
<1>5. Simplifies(f)
  <2>1. ASSUME NEW n \in 0..N  PROVE  f[n] = IF n = 0 THEN {p} ELSE SimplifiedOnce(f[n - 1])
    <3>1. n = 0 \/ n \in 1..N
      BY <1>1
    <3>2. f[0] = {p}
      BY <1>3 DEF Follows
    <3>. HIDE DEF N
    <3>. QED
      BY <1>4, <3>1, <3>2
  <2>. HIDE DEF N, T
  <2>. QED
    BY <2>1
<1>6. SimplifiedUpTo(p) = CHOOSE g : Simplifies(g)
  BY DEF SimplifiedUpTo, SimplifiedOnce
<1>7. Simplifies(SimplifiedUpTo(p))
  <2>. HIDE DEF Simplifies
  <2>. QED
    BY <1>5, <1>6
<1> DEFINE c == SimplifiedUpTo(p)
<1>8. c = [n \in 0..N |-> IF n = 0 THEN {p} ELSE SimplifiedOnce(c[n - 1])]
  BY <1>7, Zenon
<1>. HIDE DEF c
<1>9. \A n \in 0..N : c[n] = IF n = 0 THEN {p} ELSE SimplifiedOnce(c[n - 1])
  BY <1>8
<1>10. 0 \in 0..N /\ \A n \in 1..N : n \in 0..N /\ n # 0
  BY <1>1
<1>11. c[0] = {p} /\ \A n \in 1..N : c[n] = SimplifiedOnce(c[n - 1])
  <2>. HIDE DEF N
  <2>. QED
    BY <1>9, <1>10
<1>. QED
  BY <1>11 DEF c

\* Whatever is simplified first, what comes of it is what path.Clean makes.
LEMMA SimplifiedIsClean ==
  ASSUME NEW p \in Paths
  PROVE  Simplified(p) = {Clean(p)}
<1>1. PICK f, N : f = SimplifiedUpTo(p) /\ N = Len(p)
  OBVIOUS
<1>2. N \in Nat /\ f[0] = {p} /\ \A n \in 1..N : f[n] = SimplifiedOnce(f[n - 1])
  BY <1>1, SimplifiedUpToIs DEF Paths
<1> DEFINE Fine(n, q) == q \in Paths /\ Clean(q) = Clean(p) /\ (Simpler(q) = {} \/ Len(q) <= N - n)
           S == {n \in Nat : n <= N => f[n] # {} /\ \A q \in f[n] : Fine(n, q)}
<1>3. 0 \in S
  <2>1. Fine(0, p)
    BY <1>1, <1>2
  <2>. HIDE DEF Fine
  <2>. QED
    BY <1>2, <2>1
<1>4. ASSUME NEW n \in S  PROVE  n + 1 \in S
  <2>1. SUFFICES ASSUME n + 1 <= N  PROVE  f[n + 1] # {} /\ \A q \in f[n + 1] : Fine(n + 1, q)
    OBVIOUS
  <2>2. n \in Nat /\ f[n + 1] = SimplifiedOnce(f[n]) /\ f[n] # {} /\ \A q \in f[n] : Fine(n, q)
    <3>1. n \in Nat /\ n <= N /\ n + 1 \in 1..N /\ (n + 1) - 1 = n
      BY <1>2, <2>1
    <3>2. f[n] # {} /\ \A q \in f[n] : Fine(n, q)
      BY <3>1
    <3>. QED
      BY <1>2, <3>1, <3>2
  <2>3. f[n + 1] # {}
    <3>1. PICK o : o \in f[n]
      BY <2>2
    <3>2. PICK q : q \in IF Simpler(o) = {} THEN {o} ELSE Simpler(o)
      OBVIOUS
    <3>3. q \in SimplifiedOnce(f[n])
      BY <3>1, <3>2 DEF SimplifiedOnce
    <3>. QED
      BY <2>2, <3>3
  <2>4. ASSUME NEW q \in f[n + 1]  PROVE  Fine(n + 1, q)
    <3>1. PICK o \in f[n] : q \in IF Simpler(o) = {} THEN {o} ELSE Simpler(o)
      BY <2>2 DEF SimplifiedOnce
    <3>2. Fine(n, o)
      BY <2>2
    <3>3. CASE Simpler(o) = {}
      BY <3>1, <3>2, <3>3
    <3>4. CASE Simpler(o) # {}
      <4>1. q \in Simpler(o) /\ o \in Paths /\ Clean(o) = Clean(p) /\ Len(o) <= N - n
        BY <3>1, <3>2, <3>4
      <4>2. q \in Paths /\ Len(q) \in Nat /\ Len(q) < Len(o) /\ Clean(q) = Clean(o)
        BY <4>1, SimplerIs
      <4>3. Len(o) \in Nat
        BY <4>1 DEF Paths
      <4>4. Len(q) <= N - (n + 1)
        BY <1>2, <2>2, <4>1, <4>2, <4>3
      <4>. QED
        BY <4>1, <4>2, <4>4
    <3>. QED
      BY <3>3, <3>4
  <2>. QED
    BY <2>3, <2>4
<1>5. S = Nat
  <2>. HIDE DEF S
  <2>1. S \in SUBSET Nat
    BY DEF S
  <2>. QED
    BY <1>3, <1>4, <2>1, InductionOnNat
<1>6. f[N] # {} /\ \A q \in f[N] : Fine(N, q)
  <2>1. N \in S
    BY <1>2, <1>5
  <2>. QED
    BY <1>2, <2>1
<1>7. ASSUME NEW q \in f[N]  PROVE  q = Clean(p)
  <2>1. q \in Paths /\ Clean(q) = Clean(p) /\ (Simpler(q) = {} \/ Len(q) <= N - N)
    BY <1>6
  <2>2. Simpler(q) = {}
    <3>1. ASSUME NEW o \in Simpler(q)  PROVE  FALSE
      <4>1. Len(o) \in Nat /\ Len(o) < Len(q) /\ Len(q) \in Nat
        BY <2>1, <3>1, SimplerIs DEF Paths
      <4>2. Len(q) <= 0
        BY <1>2, <2>1, <3>1
      <4>. QED
        BY <4>1, <4>2
    <3>. QED
      BY <3>1
  <2>. QED
    BY <2>1, <2>2, PlainIsClean
<1>8. Simplified(p) = f[N]
  BY <1>1 DEF Simplified
<1>. QED
  BY <1>6, <1>7, <1>8

\* No route sends a request on to the vendor.
LEMMA RoutesAre ==
  ASSUME NEW t \in DOMAIN DefaultTargets
  PROVE  LET s == DefaultTargets[t].routes
         IN  /\ Len(s) \in Nat /\ DOMAIN s = 1..Len(s)
             /\ \A i \in 1..Len(s) : s[i].action \in {"relay", "block"}
<1> DEFINE Acts(r) == r.action \in {"relay", "block"}
<1>1. t \in {"anthropic", "openai", "gemini"}
  BY DEF DefaultTargets
<1>2. ASSUME NEW a, NEW b, NEW c, NEW d, Acts(a), Acts(b), Acts(c), Acts(d)
      PROVE  LET s == <<a, b, c, d>>
             IN  Len(s) \in Nat /\ DOMAIN s = 1..Len(s) /\ \A i \in 1..Len(s) : Acts(s[i])
  <2>. HIDE DEF Acts
  <2>. QED
    BY <1>2
<1>3. ASSUME NEW a, NEW b, NEW c, NEW d, NEW e, NEW f, NEW g,
             Acts(a), Acts(b), Acts(c), Acts(d), Acts(e), Acts(f), Acts(g)
      PROVE  LET s == <<a, b, c, d, e, f, g>>
             IN  Len(s) \in Nat /\ DOMAIN s = 1..Len(s) /\ \A i \in 1..Len(s) : Acts(s[i])
  <2>. HIDE DEF Acts
  <2>. QED
    BY <1>3
<1>4. \A m, p, x : Acts(Exact(m, p, "relay")) /\ Acts(Exact(m, p, "block")) /\ Acts(Under(m, p, x, "relay"))
  BY DEF Exact, Under
<1>. HIDE DEF Acts
<1>5. LET s == DefaultTargets[t].routes
      IN  Len(s) \in Nat /\ DOMAIN s = 1..Len(s) /\ \A i \in 1..Len(s) : Acts(s[i])
  <2>1. CASE t = "anthropic"
    <3>1. \E a, b, c, d : Acts(a) /\ Acts(b) /\ Acts(c) /\ Acts(d) /\ DefaultTargets[t].routes = <<a, b, c, d>>
      BY <1>4, <2>1 DEF DefaultTargets
    <3>. QED
      BY <1>2, <3>1
  <2>2. CASE t = "openai"
    <3>1. \E a, b, c, d, e, f, g :
            /\ Acts(a) /\ Acts(b) /\ Acts(c) /\ Acts(d) /\ Acts(e) /\ Acts(f) /\ Acts(g)
            /\ DefaultTargets[t].routes = <<a, b, c, d, e, f, g>>
      BY <1>4, <2>2 DEF DefaultTargets
    <3>. QED
      BY <1>3, <3>1
  <2>3. CASE t = "gemini"
    <3>1. \E a, b, c, d : Acts(a) /\ Acts(b) /\ Acts(c) /\ Acts(d) /\ DefaultTargets[t].routes = <<a, b, c, d>>
      BY <1>4, <2>3 DEF DefaultTargets
    <3>. QED
      BY <1>2, <3>1
  <2>. QED
    BY <1>1, <2>1, <2>2, <2>3
<1>. QED
  BY <1>5 DEF Acts

\* The first route that matches is one that does.
LEMMA RoutedIs ==
  ASSUME NEW t \in DOMAIN DefaultTargets, NEW m, NEW p, Routed(DefaultTargets[t], m, p) # "none"
  PROVE  \E r \in ToSet(DefaultTargets[t].routes) :
           /\ r.action = Routed(DefaultTargets[t], m, p) /\ r.action \in {"relay", "block"}
           /\ Matches(r, m, p)
<1>1. PICK target, s : target = DefaultTargets[t] /\ s = target.routes
  OBVIOUS
<1>2. Len(s) \in Nat /\ DOMAIN s = 1..Len(s) /\ \A i \in 1..Len(s) : s[i].action \in {"relay", "block"}
  BY <1>1, RoutesAre
<1> DEFINE I == {i \in 1..Len(s) : Matches(s[i], m, p)}
           first == IF I # {} THEN Min(I) ELSE 0
<1>3. Routed(target, m, p) = IF first = 0 THEN "none" ELSE s[first].action
  BY <1>1 DEF Routed, SelectInSeq
<1>4. I # {} /\ first = Min(I)
  <2>. HIDE DEF I
  <2>1. first # 0
    BY <1>1, <1>3
  <2>. QED
    BY <2>1
<1>5. first \in I
  <2>1. I \in SUBSET Nat
    BY <1>2
  <2>2. Min(I) = Least(I)
    BY DEF Min, Least
  <2>. HIDE DEF I
  <2>3. Least(I) \in I
    BY <1>4, <2>1, LeastExists
  <2>. QED
    BY <1>4, <2>2, <2>3
<1>6. first # 0
  BY <1>2, <1>5
<1>. HIDE DEF first
<1>7. s[first] \in ToSet(s) /\ Matches(s[first], m, p)
  BY <1>2, <1>5 DEF ToSet
<1>8. s[first].action = Routed(target, m, p) /\ s[first].action \in {"relay", "block"}
  BY <1>2, <1>3, <1>5, <1>6
<1>. QED
  BY <1>1, <1>7, <1>8

\* A request for the relay is for a route listed for it, and one for the vendor is no
\* model request to any server that simplifies its path.
LEMMA ArrivalIs ==
  ASSUME NEW r \in Arrivals
  PROVE  (r.to = "relay" => r.listed) /\ (r.to = "direct" => ~r.model)
<1>1. PICK t \in Target, m \in Method, p \in Path, b \in {"none", "small", "large"} : r = Arrival(t, m, p, b)
  BY DEF Arrivals
<1>2. t \in DOMAIN DefaultTargets /\ p \in Paths
  BY ConnectorAssumption DEF Paths, Segment
<1>3. PICK target : target = DefaultTargets[t]
  OBVIOUS
<1>4. /\ r.to = Decide(target, m, p)
      /\ r.listed <=> Simplified(p) = {p} /\ \E x \in ToSet(target.routes) : x.action = "relay" /\ Matches(x, m, p)
      /\ r.model <=> \E q \in Simplified(p) : Sensitive(target, q)
  BY <1>1, <1>3 DEF Arrival
<1>5. Simplified(p) = {Clean(p)}
  BY <1>2, SimplifiedIsClean
<1>6. ASSUME r.to = "relay"  PROVE  r.listed
  <2>1. p = Clean(p) /\ Routed(target, m, p) = "relay"
    BY <1>4, <1>6 DEF Decide
  <2>. QED
    BY <1>2, <1>3, <1>4, <1>5, <2>1, RoutedIs
<1>7. ASSUME r.to = "direct"  PROVE  ~r.model
  <2>1. ~(p = Clean(p) /\ Routed(target, m, p) # "none") => ~Sensitive(target, Clean(p))
    BY <1>4, <1>7 DEF Decide
  <2>2. ~(p = Clean(p) /\ Routed(target, m, p) # "none")
    <3>1. SUFFICES ASSUME p = Clean(p), Routed(target, m, p) # "none"  PROVE  FALSE
      OBVIOUS
    <3>2. Routed(target, m, p) = "direct"
      BY <1>4, <1>7, <3>1 DEF Decide
    <3>. QED
      BY <1>2, <1>3, <3>1, <3>2, RoutedIs
  <2>. QED
    BY <1>4, <1>5, <2>1, <2>2
<1>. QED
  BY <1>6, <1>7

-----------------------------------------------------------------------------
(* Where the requests under way go.                                        *)

\* The request of a trip is one that arrived and was let through, and nothing is
\* counted outside a trip.
RoutedInv ==
  /\ ConnectorInv
  /\ request \in [Conn -> Arrivals \cup {NoRequest}]
  /\ \A c \in Conn :
       IF phase[c] \in {"sending", "answering"}
         THEN request[c] \in Arrivals /\ request[c].to \in {"relay", "direct"}
       ELSE copies[c] = 0

LEMMA RoutedInit == ConnectorInit => RoutedInv
  BY ConnectorInvInit DEF ConnectorInit, RoutedInv

LEMMA ConnectionRouted ==
  ASSUME RoutedInv, NEW c \in Conn,
         \/ Connect(c) \/ ClientLeaves(c) \/ HangUp(c) \/ Refuse(c) \/ Untrack(c)
         \/ TunnelNext(c) \/ InterceptNext(c)
  PROVE  RoutedInv'
<1> DEFINE Trips == \A o \in Conn :
                      IF phase[o] \in {"sending", "answering"}
                        THEN request[o] \in Arrivals /\ request[o].to \in {"relay", "direct"}
                      ELSE copies[o] = 0
<1>1. /\ ConnectorInv /\ Trips /\ request \in [Conn -> Arrivals \cup {NoRequest}]
      /\ phase \in [Conn -> Phase] /\ copies \in [Conn -> Nat]
  BY DEF RoutedInv, ConnectorInv, Shape
<1>2. ConnectorInv'
  BY <1>1, ConnectionStep
<1>. HIDE DEF Arrivals
<1>3. ASSUME NEW from \in Phase \ {"sending", "answering"}, NEW to \in Phase \ {"sending", "answering"},
             Move(c, from, to) \/ UNCHANGED phase, UNCHANGED <<request, copies>>
      PROVE  RoutedInv'
  BY <1>1, <1>2, <1>3 DEF RoutedInv, Move
<1>4. ASSUME NEW to \in Phase \ {"sending", "answering"},
             Move(c, "sending", to) \/ Move(c, "answering", to), RequestDone(c)
      PROVE  RoutedInv'
  BY <1>1, <1>2, <1>4 DEF RoutedInv, Move, RequestDone
<1>5. CASE Connect(c) \/ ClientLeaves(c) \/ HangUp(c) \/ Untrack(c)
  BY <1>3, <1>5 DEF Connect, ClientLeaves, HangUp, Untrack, tripVars, Phase
<1>6. CASE Refuse(c) \/ DialFails(c) \/ HijackFails(c)
  BY <1>3, <1>6 DEF Refuse, DialFails, HijackFails, Reply, tripVars, Phase
<1>16. CASE BoundFails(c) \/ ProxyFails(c) \/ HandBackFails(c)
  BY <1>3, <1>16 DEF BoundFails, ProxyFails, HandBackFails, Reply, tripVars, Phase
<1>17. CASE DialProxy(c) \/ BoundSetup(c) \/ ProxyGrants(c) \/ HandBack(c)
  BY <1>3, <1>17 DEF DialProxy, BoundSetup, ProxyGrants, HandBack, tripVars, Phase
<1>7. CASE ConnectTunnel(c) \/ Dialed(c) \/ Hijack(c) \/ TrackClient(c) \/ TrackUpstream(c)
  BY <1>3, <1>7 DEF ConnectTunnel, Dialed, Hijack, TrackClient, TrackUpstream, tripVars, Phase
<1>8. CASE PipeEnds(c) \/ UpstreamLeaves(c)
  BY <1>3, <1>8 DEF PipeEnds, UpstreamLeaves, tripVars, Phase
<1>9. CASE ConnectIntercept(c) \/ MintFails(c) \/ Minted(c) \/ Handshake(c) \/ ReadFails(c)
  BY <1>3, <1>9 DEF ConnectIntercept, MintFails, Minted, Handshake, ReadFails, tripVars, Phase
<1>10. ASSUME NEW r \in Arrivals, Block(c, r)  PROVE  RoutedInv'
  BY <1>3, <1>10 DEF Block, tripVars, Phase
<1>11. ASSUME NEW r \in Arrivals, Send(c, r)  PROVE  RoutedInv'
  BY <1>1, <1>2, <1>11 DEF RoutedInv, Send, Move
<1>12. CASE Write(c)
  <2>1. phase[c] = "sending" /\ UNCHANGED <<phase, request>> /\ copies' = [copies EXCEPT ![c] = @ + 1]
    BY <1>12 DEF Write, socketVars
  <2>2. \A o \in Conn \ {c} : copies'[o] = copies[o]
    BY <1>1, <2>1
  <2>. QED
    BY <1>1, <1>2, <2>1, <2>2 DEF RoutedInv
<1>13. CASE Replay(c)
  BY <1>1, <1>2, <1>13 DEF RoutedInv, Replay, socketVars
<1>14. CASE TripFails(c) \/ Answered(c) \/ AnswerFails(c)
  BY <1>4, <1>14 DEF TripFails, Answered, AnswerFails, Phase
<1>15. CASE Answer(c)
  BY <1>1, <1>2, <1>15 DEF RoutedInv, Answer, Move, tripVars
<1>. QED
  BY <1>5, <1>6, <1>7, <1>8, <1>9, <1>10, <1>11, <1>12, <1>13, <1>14, <1>15, <1>16, <1>17
  DEF TunnelNext, InterceptNext

LEMMA RoutedStep == RoutedInv /\ [ConnectorNext]_connectorVars => RoutedInv'
<1> SUFFICES ASSUME RoutedInv, [ConnectorNext]_connectorVars  PROVE  RoutedInv'
  OBVIOUS
<1>1. ConnectorInv'
  BY ConnectorInvStep DEF RoutedInv
<1>2. CASE ServeNext \/ UNCHANGED connectorVars
  <2>1. UNCHANGED <<phase, request, copies>>
    BY <1>2 DEF ServeNext, Cancel, ListenerFails, Shutdown, WatcherLeaves, Drained, Sweep,
                connectorVars, socketVars, tripVars
  <2>. QED
    BY <1>1, <2>1 DEF RoutedInv
<1>. QED
  BY <1>2, ConnectionRouted DEF ConnectorNext

\* target.go:94-133: for every target, method and path, what is written to the gateway is
\* a listed route of it, and what is written to the vendor is no request for a model,
\* however the vendor's server goes about simplifying the path.
THEOREM RequestsGoWhereListed == ConnectorSpec => []RoutedAsListed
<1>1. RoutedInv => RoutedAsListed
  BY ArrivalIs DEF RoutedInv, RoutedAsListed
<1>. QED
  BY <1>1, RoutedInit, RoutedStep, PTL DEF ConnectorSpec
=============================================================================
