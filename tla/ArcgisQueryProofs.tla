------------------------- MODULE ArcgisQueryProofs -------------------------
(***************************************************************************)
(* Proofs about HubSpotLimiter and ArcgisQuery, for every number of        *)
(* domains, requests and retries, every window, every pause and every      *)
(* delay of the sleeps.  The limiter's steps come first: every step of the *)
(* thread is one of them, or only lets time pass.                          *)
(***************************************************************************)
EXTENDS ArcgisQuery, ListsProofs, TLAPS

-----------------------------------------------------------------------------
(* The limiter of a HubSpot client.                                        *)

LimiterIInv == LimiterTypeOK /\ StampsInv /\ WindowIsKept

LEMMA InitLimiter == LimiterInit => LimiterIInv
  BY MaxRequestsAssumption
  DEF LimiterInit, LimiterIInv, LimiterTypeOK, StampsInv, WindowIsKept

(* The deque q holds the last elements of seq, then t.                     *)
EndsLike(q, seq, t) ==
  /\ q \in Seq(Nat)
  /\ q[Len(q)] = t
  /\ \A i \in 1..(Len(q) - 1) : q[i] = seq[Len(seq) - Len(q) + 1 + i]

(* What append makes of a deque.                                           *)
LEMMA PushProperties ==
  ASSUME NEW seq \in Seq(Nat), NEW t \in Nat, Len(seq) <= MaxRequests,
         NEW pushed, pushed = Push(seq, t)
  PROVE  /\ Len(pushed) = (IF Len(seq) = MaxRequests THEN MaxRequests ELSE Len(seq) + 1)
         /\ EndsLike(pushed, seq, t)
  <1> USE MaxRequestsAssumption
  <1>1. CASE Len(seq) = MaxRequests
    <2>1. seq # <<>>
      BY <1>1
    <2>2. /\ Tail(seq) \in Seq(Nat) /\ Len(Tail(seq)) = Len(seq) - 1
          /\ \A i \in 1..Len(Tail(seq)) : Tail(seq)[i] = seq[i + 1]
      BY <2>1, HeadTailProperties
    <2> DEFINE rest == Tail(seq)
    <2> HIDE DEF rest
    <2>3. /\ rest \in Seq(Nat) /\ Len(rest) = MaxRequests - 1
          /\ \A i \in 1..(MaxRequests - 1) : rest[i] = seq[i + 1]
      BY <1>1, <2>2 DEF rest
    <2>4. /\ Append(rest, t) \in Seq(Nat) /\ Len(Append(rest, t)) = Len(rest) + 1
          /\ \A i \in 1..Len(rest) : Append(rest, t)[i] = rest[i]
          /\ Append(rest, t)[Len(rest) + 1] = t
      BY <2>3, AppendProperties
    <2>5. pushed = Append(rest, t)
      BY <1>1 DEF Push, rest
    <2>6. /\ pushed \in Seq(Nat) /\ Len(pushed) = MaxRequests
          /\ pushed[MaxRequests] = t
          /\ \A i \in 1..(MaxRequests - 1) : pushed[i] = seq[i + 1]
      BY <2>3, <2>4, <2>5
    <2>7. \A i \in 1..(Len(pushed) - 1) : pushed[i] = seq[Len(seq) - Len(pushed) + 1 + i]
      <3>1. TAKE i \in 1..(Len(pushed) - 1)
      <3>2. i \in 1..(MaxRequests - 1) /\ Len(seq) - Len(pushed) + 1 + i = i + 1
        BY <1>1, <2>6
      <3> QED
        BY <2>6, <3>2
    <2> QED
      BY <1>1, <2>6, <2>7 DEF EndsLike
  <1>2. CASE Len(seq) # MaxRequests
    <2>1. pushed = Append(seq, t)
      BY <1>2 DEF Push
    <2>2. /\ Append(seq, t) \in Seq(Nat) /\ Len(Append(seq, t)) = Len(seq) + 1
          /\ \A i \in 1..Len(seq) : Append(seq, t)[i] = seq[i]
          /\ Append(seq, t)[Len(seq) + 1] = t
      BY AppendProperties
    <2>3. /\ pushed \in Seq(Nat) /\ Len(pushed) = Len(seq) + 1
          /\ pushed[Len(seq) + 1] = t
          /\ \A i \in 1..Len(seq) : pushed[i] = seq[i]
      BY <2>1, <2>2
    <2>4. \A i \in 1..(Len(pushed) - 1) : pushed[i] = seq[Len(seq) - Len(pushed) + 1 + i]
      <3>1. TAKE i \in 1..(Len(pushed) - 1)
      <3>2. i \in 1..Len(seq) /\ Len(seq) - Len(pushed) + 1 + i = i
        BY <2>3
      <3> QED
        BY <2>3, <3>2
    <2> QED
      BY <1>2, <2>3, <2>4 DEF EndsLike
  <1> QED
    BY <1>1, <1>2

(* The deque after a request: what is left of the pruned one, and the new  *)
(* stamp at its end.                                                       *)
LEMMA PushedDeque ==
  ASSUME NEW k \in 0..Len(stamps), NEW t \in Nat, LimiterTypeOK,
         NEW seq, seq = Push(SubSeq(stamps, k + 1, Len(stamps)), t)
  PROVE  /\ Len(seq) = (IF Len(stamps) - k = MaxRequests THEN MaxRequests
                        ELSE Len(stamps) - k + 1)
         /\ EndsLike(seq, stamps, t)
  <1>r. PICK rest : rest = SubSeq(stamps, k + 1, Len(stamps))
    OBVIOUS
  <1> USE MaxRequestsAssumption
  <1>0. /\ stamps \in Seq(Nat) /\ Len(stamps) \in Nat /\ Len(stamps) <= MaxRequests
        /\ k \in Nat /\ k <= Len(stamps)
    BY DEF LimiterTypeOK
  <1>1. /\ rest \in Seq(Nat) /\ Len(rest) = Len(stamps) - k
        /\ \A i \in 1..Len(rest) : rest[i] = stamps[k + i]
    <2>1. /\ k + 1 \in Int /\ Len(stamps) \in Int
          /\ \A i \in (k + 1)..Len(stamps) : stamps[i] \in Nat
      BY <1>0
    <2>2. /\ rest \in Seq(Nat)
          /\ Len(rest) = (IF k + 1 <= Len(stamps) THEN Len(stamps) - (k + 1) + 1 ELSE 0)
          /\ \A i \in 1..(Len(stamps) - (k + 1) + 1) : rest[i] = stamps[(k + 1) + i - 1]
      BY <1>r, <2>1, SubSeqProperties
    <2>3. Len(rest) = Len(stamps) - k
      <3>1. CASE k + 1 <= Len(stamps)
        <4>1. Len(rest) = Len(stamps) - (k + 1) + 1
          BY <2>2, <3>1
        <4> QED
          BY <1>0, <4>1
      <3>2. CASE ~(k + 1 <= Len(stamps))
        <4>1. Len(rest) = 0 /\ k = Len(stamps)
          BY <1>0, <2>2, <3>2
        <4> QED
          BY <1>0, <4>1
      <3> QED
        BY <3>1, <3>2
    <2>4. \A i \in 1..Len(rest) : rest[i] = stamps[k + i]
      <3>1. TAKE i \in 1..Len(rest)
      <3>2. i \in 1..(Len(stamps) - (k + 1) + 1) /\ (k + 1) + i - 1 = k + i
        BY <1>0, <2>3
      <3> QED
        BY <2>2, <3>2
    <2> QED
      BY <2>2, <2>3, <2>4
  <1>2. seq = Push(rest, t)
    BY <1>r
  <1>3. Len(rest) <= MaxRequests
    BY <1>0, <1>1
  <1>4. /\ Len(seq) = (IF Len(rest) = MaxRequests THEN MaxRequests ELSE Len(rest) + 1)
        /\ EndsLike(seq, rest, t)
    BY <1>1, <1>2, <1>3, PushProperties
  <1>5. \A i \in 1..(Len(seq) - 1) : seq[i] = stamps[Len(stamps) - Len(seq) + 1 + i]
    <2>1. TAKE i \in 1..(Len(seq) - 1)
    <2>2. Len(rest) \in Nat /\ Len(seq) \in Nat /\ i \in Nat /\ i >= 1 /\ i <= Len(seq) - 1
      BY <1>1, <1>4 DEF EndsLike
    <2>3. Len(seq) = Len(rest) \/ Len(seq) = Len(rest) + 1
      BY <1>4
    <2> DEFINE j == Len(rest) - Len(seq) + 1 + i
    <2>4. j \in 1..Len(rest)
      BY <2>2, <2>3
    <2>5. Len(stamps) - Len(seq) + 1 + i = k + j
      BY <1>0, <1>1, <2>2
    <2> QED
      BY <1>1, <1>4, <2>4, <2>5 DEF EndsLike
  <1> QED
    BY <1>0, <1>1, <1>4, <1>5 DEF EndsLike

(* What popleft drops, and what the deque lacked before, is older than the *)
(* window.                                                                 *)
LEMMA OlderRequests ==
  ASSUME LimiterIInv, NEW k \in 0..Len(stamps), IsPruned(k),
         NEW i \in 1..Len(log), i + MaxRequests > Len(log), i + Len(stamps) <= Len(log) + k
  PROVE  log[i] + Window <= now
  <1> USE MaxRequestsAssumption, WindowAssumption
  <1>0. /\ Len(stamps) \in Nat /\ Len(log) \in Nat /\ k \in Nat /\ i \in Nat
        /\ i >= 1 /\ i <= Len(log) /\ k <= Len(stamps) /\ Len(stamps) <= Len(log)
    BY DEF LimiterIInv, LimiterTypeOK, StampsInv
  <1>1. CASE i + Len(stamps) <= Len(log)
    BY <1>1 DEF LimiterIInv, StampsInv
  <1>2. CASE i + Len(stamps) > Len(log)
    <2> DEFINE j == i + Len(stamps) - Len(log)
    <2>1. j \in 1..k /\ j \in 1..Len(stamps) /\ Len(log) - Len(stamps) + j = i
      BY <1>0, <1>2
    <2>2. stamps[j] + Window <= now
      BY <2>1 DEF IsPruned
    <2>3. stamps[j] = log[i]
      BY <2>1 DEF LimiterIInv, StampsInv
    <2> QED
      BY <2>2, <2>3
  <1> QED
    BY <1>0, <1>1, <1>2

LEMMA LetThroughKeeps == LimiterIInv /\ LetThrough => LimiterIInv'
  <1> SUFFICES ASSUME LimiterIInv, LetThrough
               PROVE  LimiterIInv'
    OBVIOUS
  <1> USE MaxRequestsAssumption, WindowAssumption, SlackAssumption
  <1>0. PICK k \in 0..Len(stamps), late \in 0..Slack :
          /\ IsPruned(k)
          /\ now' = Awake(k) + late
          /\ stamps' = Push(SubSeq(stamps, k + 1, Len(stamps)), now')
          /\ log' = Append(log, now')
    BY DEF LetThrough
  <1>1. /\ stamps \in Seq(Nat) /\ log \in Seq(Nat) /\ now \in Nat
        /\ Len(stamps) \in Nat /\ Len(log) \in Nat /\ k \in Nat /\ late \in Nat
        /\ Len(stamps) <= MaxRequests /\ Len(stamps) <= Len(log) /\ k <= Len(stamps)
    BY DEF LimiterIInv, LimiterTypeOK, StampsInv
  <1>2. Awake(k) \in Nat /\ Awake(k) >= now
    <2>1. CASE Len(stamps) - k >= MaxRequests
      <3>1. k = 0 /\ 1 \in 1..Len(stamps) /\ k < Len(stamps)
        BY <1>1, <2>1
      <3>2. stamps[1] \in Nat
        BY <1>1, <3>1
      <3>3. stamps[1] + Window > now
        BY <1>0, <3>1 DEF IsPruned
      <3>4. Awake(k) = stamps[1] + Window
        BY <2>1, <3>1 DEF Awake
      <3> QED
        BY <1>1, <3>2, <3>3, <3>4
    <2>2. CASE ~(Len(stamps) - k >= MaxRequests)
      BY <1>1, <2>2 DEF Awake
    <2> QED
      BY <2>1, <2>2
  <1>3. now' \in Nat /\ now' >= now /\ now' >= Awake(k)
    BY <1>0, <1>1, <1>2
  <1>4. /\ log' \in Seq(Nat) /\ Len(log') = Len(log) + 1
        /\ \A i \in 1..Len(log) : log'[i] = log[i]
        /\ log'[Len(log) + 1] = now'
    BY <1>0, <1>1, <1>3, AppendProperties
  <1>5. /\ Len(stamps') = (IF Len(stamps) - k = MaxRequests THEN MaxRequests
                           ELSE Len(stamps) - k + 1)
        /\ EndsLike(stamps', stamps, now')
    BY <1>0, <1>3, PushedDeque DEF LimiterIInv
  <1>6. /\ Len(stamps') \in Nat /\ Len(stamps') >= 1 /\ Len(stamps') <= MaxRequests
        /\ Len(stamps') <= Len(stamps) - k + 1
        /\ (Len(stamps') = MaxRequests \/ Len(stamps') = Len(stamps) - k + 1)
    BY <1>1, <1>5 DEF EndsLike
  <1>a. Len(log') = Len(log) + 1 /\ Len(log') \in Nat
    BY <1>1, <1>4
  <1>b. \A i \in 1..Len(log) : log[i] \in Nat
    BY <1>1
  <1>7. \A i \in 1..Len(log) :
          i + MaxRequests > Len(log) /\ i + Len(stamps) <= Len(log) + k => log[i] + Window <= now
    BY <1>0, OlderRequests
  <1>8. LimiterTypeOK'
    BY <1>3, <1>4, <1>5, <1>6 DEF LimiterTypeOK, EndsLike
  <1>9. StampsInv'
    <2>1. Len(stamps') <= Len(log')
      BY <1>1, <1>4, <1>6
    <2>2. ASSUME NEW i \in 1..Len(stamps')
          PROVE  stamps'[i] = log'[Len(log') - Len(stamps') + i]
      <3>1. CASE i = Len(stamps')
        <4>1. Len(log') - Len(stamps') + i = Len(log) + 1
          BY <1>1, <1>4, <1>6, <3>1
        <4> QED
          BY <1>4, <1>5, <3>1, <4>1 DEF EndsLike
      <3>2. CASE i # Len(stamps')
        <4> DEFINE j == Len(stamps) - Len(stamps') + 1 + i
        <4>1. i \in 1..(Len(stamps') - 1) /\ j \in 1..Len(stamps)
          BY <1>1, <1>6, <3>2
        <4>n. /\ i \in Nat /\ j \in Nat /\ 1 <= j /\ j <= Len(stamps)
              /\ j = Len(stamps) - Len(stamps') + 1 + i
          BY <1>1, <1>6, <4>1
        <4> HIDE DEF j
        <4>2. /\ Len(log) - Len(stamps) + j = Len(log') - Len(stamps') + i
              /\ Len(log) - Len(stamps) + j \in 1..Len(log)
          <5>1. PICK p \in Nat, q \in Nat, s \in Nat :
                  p = Len(log) /\ q = Len(stamps) /\ s = Len(stamps')
            BY <1>1, <1>6
          <5>2. Len(log') = p + 1 /\ q <= p /\ j <= q /\ j = q - s + 1 + i
            BY <1>1, <1>a, <4>n, <5>1
          <5>3. p - q + j = p + 1 - s + i /\ p - q + j \in 1..p
            BY <4>n, <5>2
          <5> QED
            BY <5>1, <5>2, <5>3
        <4>3. stamps'[i] = stamps[j]
          BY <1>5, <4>1 DEF EndsLike, j
        <4>4. stamps[j] = log[Len(log) - Len(stamps) + j]
          BY <4>1 DEF LimiterIInv, StampsInv
        <4> QED
          BY <1>4, <4>2, <4>3, <4>4
      <3> QED
        BY <3>1, <3>2
    <2>3. ASSUME NEW i \in 1..Len(log')
          PROVE  log'[i] <= now'
      <3>1. CASE i \in 1..Len(log)
        <4>1. log[i] <= now /\ log[i] \in Nat
          BY <1>1, <3>1 DEF LimiterIInv, StampsInv
        <4> QED
          BY <1>1, <1>3, <1>4, <3>1, <4>1
      <3>2. CASE i = Len(log) + 1
        BY <1>3, <1>4, <3>2
      <3> QED
        BY <1>1, <1>4, <3>1, <3>2
    <2>4. ASSUME NEW i \in 1..Len(log'), i + MaxRequests > Len(log'),
                 i + Len(stamps') <= Len(log')
          PROVE  log'[i] + Window <= now'
      <3>1. /\ i \in 1..Len(log) /\ i + MaxRequests > Len(log)
            /\ i + Len(stamps) <= Len(log) + k
        <4>1. i \in Nat /\ i >= 1 /\ i <= Len(log)
          BY <1>1, <1>a, <1>6, <2>4
        <4>2. i + MaxRequests > Len(log) + 1 /\ i + Len(stamps') <= Len(log) + 1
          BY <1>a, <2>4
        <4>3. Len(stamps') = Len(stamps) - k + 1
          BY <1>1, <1>6, <4>1, <4>2
        <4> QED
          BY <1>1, <4>1, <4>2, <4>3
      <3>2. log[i] + Window <= now /\ log[i] \in Nat /\ log'[i] = log[i]
        BY <1>4, <1>b, <1>7, <3>1
      <3> QED
        BY <1>1, <1>3, <3>2
    <2> QED
      BY <2>1, <2>2, <2>3, <2>4 DEF StampsInv
  <1>10. WindowIsKept'
    <2> SUFFICES ASSUME NEW i \in 1..Len(log'), i + MaxRequests <= Len(log')
                 PROVE  log'[i] + Window <= log'[i + MaxRequests]
      BY DEF WindowIsKept
    <2>1. /\ i \in 1..Len(log) /\ log'[i] = log[i] /\ log[i] \in Nat
      <3>1. i \in Nat /\ i >= 1 /\ i + MaxRequests <= Len(log) + 1
        BY <1>a
      <3>2. i \in 1..Len(log)
        BY <1>1, <3>1
      <3> QED
        BY <1>4, <1>b, <3>2
    <2>2. CASE i + MaxRequests <= Len(log)
      <3>1. i + MaxRequests \in 1..Len(log)
        BY <1>1, <2>2
      <3> QED
        BY <1>4, <2>1, <2>2, <3>1 DEF LimiterIInv, WindowIsKept
    <2>3. CASE i + MaxRequests = Len(log) + 1
      <3>1. CASE Len(stamps) - k >= MaxRequests
        <4>1. k = 0 /\ Len(stamps) = MaxRequests /\ 1 \in 1..Len(stamps)
          BY <1>1, <3>1
        <4>2. Len(log) - Len(stamps) + 1 = i
          BY <1>1, <2>3, <4>1
        <4>3. stamps[1] = log[i]
          BY <4>1, <4>2 DEF LimiterIInv, StampsInv
        <4>4. Awake(k) = log[i] + Window
          BY <3>1, <4>1, <4>3 DEF Awake
        <4> QED
          BY <1>3, <1>4, <2>1, <2>3, <4>4
      <3>2. CASE ~(Len(stamps) - k >= MaxRequests)
        <4>1. i + MaxRequests > Len(log) /\ i + Len(stamps) <= Len(log) + k
          BY <1>1, <2>1, <2>3, <3>2
        <4>2. log[i] + Window <= now
          BY <1>7, <2>1, <4>1
        <4> QED
          <5>1. log'[i + MaxRequests] = now'
            BY <1>4, <2>3
          <5>2. log[i] + Window <= now'
            BY <1>1, <1>3, <2>1, <4>2
          <5> QED
            BY <2>1, <5>1, <5>2
      <3> QED
        BY <3>1, <3>2
    <2> QED
      <3>1. i + MaxRequests <= Len(log) + 1
        BY <1>a
      <3> QED
        <4>1. i \in Nat /\ MaxRequests \in Nat /\ Len(log) \in Nat
          BY <1>1, <2>1
        <4>2. i + MaxRequests <= Len(log) \/ i + MaxRequests = Len(log) + 1
          BY <3>1, <4>1
        <4> QED
          BY <2>2, <2>3, <4>2
  <1> QED
    BY <1>8, <1>9, <1>10 DEF LimiterIInv

LEMMA NewClientKeeps == LimiterIInv /\ NewClient => LimiterIInv'
  <1> SUFFICES ASSUME LimiterIInv, NewClient
               PROVE  LimiterIInv'
    OBVIOUS
  <1>1. LimiterTypeOK'
    BY MaxRequestsAssumption DEF LimiterIInv, LimiterTypeOK, NewClient
  <1>2. StampsInv' /\ WindowIsKept'
    BY DEF NewClient, StampsInv, WindowIsKept
  <1> QED
    BY <1>1, <1>2 DEF LimiterIInv

LEMMA TimePassesKeeps == LimiterIInv /\ TimePasses => LimiterIInv'
  <1> SUFFICES ASSUME LimiterIInv, TimePasses
               PROVE  LimiterIInv'
    OBVIOUS
  <1> USE WindowAssumption DEF TimePasses
  <1>1. LimiterTypeOK' /\ WindowIsKept'
    BY DEF LimiterIInv, LimiterTypeOK, WindowIsKept
  <1>2. now \in Nat /\ now' \in Nat /\ now' >= now /\ \A i \in 1..Len(log) : log[i] \in Nat
    BY DEF LimiterIInv, LimiterTypeOK
  <1>3. \A i \in 1..Len(log) : log[i] <= now => log[i] <= now'
    BY <1>2
  <1>4. \A i \in 1..Len(log) : log[i] + Window <= now => log[i] + Window <= now'
    BY <1>2
  <1>5. stamps' = stamps /\ log' = log
    OBVIOUS
  <1>6. StampsInv'
    BY <1>3, <1>4, <1>5 DEF LimiterIInv, StampsInv
  <1> QED
    BY <1>1, <1>6 DEF LimiterIInv

(* hubspot_client/__init__.py:94-98.  Of MAX_REQUESTS + 1 requests in a    *)
(* row of one client, the last always comes no sooner than WINDOW_SECONDS  *)
(* after the first, for every MAX_REQUESTS, every WINDOW_SECONDS and every *)
(* delay of the sleeps.                                                    *)
THEOREM RequestsAreSpaced == LimiterSpec => []WindowIsKept
  <1>1. LimiterInit => LimiterIInv
    BY InitLimiter
  <1>2. LimiterIInv /\ [LimiterNext]_limiterVars => LimiterIInv'
    <2>1. LimiterIInv /\ UNCHANGED limiterVars => LimiterIInv'
      BY DEF limiterVars, LimiterIInv, LimiterTypeOK, StampsInv, WindowIsKept
    <2> QED
      BY <2>1, LetThroughKeeps, NewClientKeeps, TimePassesKeeps DEF LimiterNext
  <1>3. LimiterIInv => WindowIsKept
    BY DEF LimiterIInv
  <1> QED
    BY <1>1, <1>2, <1>3, PTL DEF LimiterSpec

-----------------------------------------------------------------------------
(* The pauses.                                                             *)

(* f is the recursive function that TwoTo defines, up to n.                *)
PowerUpTo(f, n) == f = [i \in 0..n |-> IF i = 0 THEN 1 ELSE 2 * f[i - 1]]

LEMMA PowerExists ==
  ASSUME NEW n \in Nat
  PROVE  \E f : PowerUpTo(f, n)
  <1> DEFINE T == {m \in Nat : \E f : PowerUpTo(f, m)}
  <1>1. 0 \in T
    <2>1. PowerUpTo([i \in 0..0 |-> 1], 0)
      BY DEF PowerUpTo
    <2> QED
      BY <2>1
  <1>2. ASSUME NEW m \in Nat, m \in T PROVE m + 1 \in T
    <2>1. PICK f : PowerUpTo(f, m)
      BY <1>2
    <2>2. \A i \in 0..m : f[i] = (IF i = 0 THEN 1 ELSE 2 * f[i - 1])
      BY <2>1 DEF PowerUpTo
    <2> DEFINE g == [i \in 0..(m + 1) |-> IF i = m + 1 THEN 2 * f[m] ELSE f[i]]
    <2>3. (\A i \in 0..m : g[i] = f[i]) /\ g[m + 1] = 2 * f[m]
      OBVIOUS
    <2>4. \A i \in 0..(m + 1) : g[i] = (IF i = 0 THEN 1 ELSE 2 * g[i - 1])
      <3>1. TAKE i \in 0..(m + 1)
      <3> HIDE DEF g
      <3>2. CASE i = m + 1
        <4>1. i # 0 /\ i - 1 = m /\ m \in 0..m
          BY <3>2
        <4> QED
          BY <2>3, <3>2, <4>1
      <3>3. CASE i # m + 1
        <4>1. i \in 0..m /\ (i # 0 => i - 1 \in 0..m)
          BY <3>3
        <4> QED
          BY <2>2, <2>3, <4>1
      <3> QED
        BY <3>2, <3>3
    <2>5. g = [i \in 0..(m + 1) |-> g[i]]
      OBVIOUS
    <2> HIDE DEF g
    <2>6. PowerUpTo(g, m + 1)
      BY <2>4, <2>5 DEF PowerUpTo
    <2> QED
      BY <2>6
  <1> HIDE DEF T
  <1>3. Nat \subseteq T
    BY <1>1, <1>2, SetInduction
  <1> QED
    BY <1>3 DEF T

LEMMA TwoToType ==
  ASSUME NEW n \in Nat
  PROVE  TwoTo(n) \in Nat
  <1> DEFINE power == CHOOSE f : PowerUpTo(f, n)
             T == {i \in 0..n : power[i] \in Nat}
  <1>1. TwoTo(n) = power[n]
    BY DEF TwoTo, PowerUpTo
  <1>2. PowerUpTo(power, n)
    BY PowerExists
  <1> HIDE DEF power
  <1>3. \A i \in 0..n : power[i] = (IF i = 0 THEN 1 ELSE 2 * power[i - 1])
    BY <1>2 DEF PowerUpTo
  <1>4. 0 \in T
    BY <1>3
  <1>5. ASSUME NEW i \in 1..n, i - 1 \in T PROVE i \in T
    BY <1>3, <1>5
  <1> HIDE DEF T
  <1>6. 0..n \subseteq T
    BY <1>4, <1>5, PrefixInduction
  <1>7. n \in T
    BY <1>6
  <1> QED
    BY <1>1, <1>7 DEF T

(* A delay is a number.                                                    *)
LEMMA DelayType ==
  ASSUME NEW n \in Nat, NEW jitter \in Nat
  PROVE  Delay(n, jitter) \in Nat
  <1>1. Base \in Nat /\ MaxBackoff \in Nat
    BY CountsAssumption
  <1>2. TwoTo(n) \in Nat
    BY TwoToType
  <1>3. PICK p \in Nat : p = Base * TwoTo(n)
    BY <1>1, <1>2
  <1> QED
    BY <1>1, <1>3 DEF Delay, AtMost

LEMMA RetrySleepType ==
  ASSUME NEW n \in Nat
  PROVE  RetrySleep(n) \in Nat
  <1>1. Backoff \in Seq(Nat) /\ Len(Backoff) \in Nat /\ Len(Backoff) # 0
    BY CountsAssumption, EmptySeq
  <1>2. CASE n < Len(Backoff)
    <2>1. n + 1 \in 1..Len(Backoff)
      BY <1>1, <1>2
    <2> QED
      BY <1>1, <1>2, <2>1 DEF RetrySleep
  <1>3. CASE ~(n < Len(Backoff))
    <2>1. Len(Backoff) \in 1..Len(Backoff)
      BY <1>1
    <2> QED
      BY <1>1, <1>3, <2>1 DEF RetrySleep
  <1> QED
    BY <1>2, <1>3

-----------------------------------------------------------------------------
(* The thread.                                                             *)

(* The query of a request that is about to be sent.                        *)
LEMMA QueryType ==
  ASSUME TypeOK, at = "send"
  PROVE  /\ query \in [domain : Domains, attempt : 0..MaxRetries]
         /\ query.domain \in Domains /\ query.attempt \in Nat
         /\ query = [domain |-> query.domain, attempt |-> query.attempt]
         /\ MaxRetries \in Nat
  BY CountsAssumption DEF TypeOK

(* A request ends and a sleep follows.                                     *)
LEMMA RequestEnds ==
  ASSUME TypeOK, at = "send", NEW sleep \in Nat, EndRequest(sleep)
  PROVE  now' \in Nat /\ now' >= now
  <1>1. now \in Nat /\ Slow \in Nat
    BY CountsAssumption DEF TypeOK
  <1>2. PICK taken \in 0..Slow : now' = now + taken + sleep
    BY DEF EndRequest
  <1> QED
    BY <1>1, <1>2

LEMMA FailuresType ==
  ASSUME TypeOK, at = "send",
         \/ RecordFailure(query.domain)
         \/ RecordSuccess(query.domain)
         \/ UNCHANGED failures
  PROVE  failures' \in [Domains -> Nat]
  <1>1. failures \in [Domains -> Nat] /\ query.domain \in Domains
    BY QueryType DEF TypeOK
  <1> QED
    BY <1>1 DEF RecordFailure, RecordSuccess

LEMMA InitThread == Init => TypeOK
  BY DEF Init, TypeOK

(* A query starts.                                                         *)
LEMMA QueryKeeps ==
  ASSUME TypeOK, NEW d \in Domains, Query(d)
  PROVE  TypeOK' /\ TimePasses
  <1>1. PICK jitter \in 0..1 : now' = now + Delay(failures[d], jitter)
    BY DEF Query
  <1>2. now \in Nat /\ failures[d] \in Nat /\ jitter \in Nat
    BY DEF TypeOK
  <1>3. Delay(failures[d], jitter) \in Nat
    BY <1>2, DelayType
  <1>4. now' \in Nat /\ now' >= now
    BY <1>1, <1>2, <1>3
  <1>5. /\ at' = "send" /\ query' = [domain |-> d, attempt |-> 0]
        /\ failures' = failures /\ stamps' = stamps /\ log' = log
    BY DEF Query, hubspot
  <1>6. query' \in [domain : Domains, attempt : 0..MaxRetries] /\ query' # NoQuery
    BY <1>5, CountsAssumption DEF NoQuery
  <1>7. TypeOK'
    BY <1>4, <1>5, <1>6 DEF TypeOK
  <1> QED
    BY <1>4, <1>5, <1>7 DEF TimePasses

(* A query ends.                                                           *)
LEMMA ReturnKeeps ==
  ASSUME TypeOK, at = "send", NEW sleep \in Nat, EndRequest(sleep), Return,
         failures' \in [Domains -> Nat]
  PROVE  TypeOK' /\ TimePasses
  <1>1. now' \in Nat /\ now' >= now
    BY RequestEnds
  <1>2. at' = "idle" /\ query' = NoQuery /\ stamps' = stamps /\ log' = log
    BY DEF Return, hubspot
  <1>3. TypeOK'
    BY <1>1, <1>2 DEF TypeOK
  <1> QED
    BY <1>1, <1>2, <1>3 DEF TimePasses

(* A failed attempt is the last, or the next one is made.                  *)
LEMMA RetryKeeps ==
  ASSUME TypeOK, Retry
  PROVE  TypeOK' /\ TimePasses
  <1>1. /\ at = "send" /\ query.domain \in Domains /\ query.attempt \in Nat
        /\ query.attempt \in 0..MaxRetries /\ MaxRetries \in Nat
        /\ query = [domain |-> query.domain, attempt |-> query.attempt]
    BY QueryType DEF Retry
  <1> DEFINE sleep == RetrySleep(query.attempt)
  <1>2. sleep \in Nat
    BY <1>1, RetrySleepType
  <1>3. EndRequest(sleep)
    BY DEF Retry
  <1> HIDE DEF sleep
  <1>4. failures' \in [Domains -> Nat]
    BY <1>1, FailuresType DEF Retry
  <1>5. CASE query.attempt < MaxRetries
    <2>1. now' \in Nat /\ now' >= now
      BY <1>1, <1>2, <1>3, RequestEnds
    <2>2. /\ query' = [query EXCEPT !.attempt = @ + 1]
          /\ at' = at /\ stamps' = stamps /\ log' = log
      BY <1>5 DEF Retry, hubspot
    <2>3. query' = [domain |-> query.domain, attempt |-> query.attempt + 1]
      BY <1>1, <2>2
    <2>4. query.attempt + 1 \in 0..MaxRetries
      BY <1>1, <1>5
    <2>5. query' \in [domain : Domains, attempt : 0..MaxRetries] /\ query' # NoQuery
      BY <1>1, <2>3, <2>4, CountsAssumption DEF NoQuery
    <2>6. TypeOK'
      BY <1>1, <1>4, <2>1, <2>2, <2>5 DEF TypeOK
    <2> QED
      BY <2>1, <2>2, <2>6 DEF TimePasses
  <1>6. CASE ~(query.attempt < MaxRetries)
    <2>1. Return
      BY <1>6 DEF Retry
    <2> QED
      BY <1>1, <1>2, <1>3, <1>4, <2>1, ReturnKeeps
  <1> QED
    BY <1>5, <1>6

(* An attempt that ends the query or is followed by another.               *)
LEMMA AttemptKeeps ==
  ASSUME TypeOK, Attempt
  PROVE  TypeOK' /\ TimePasses
  <1>1. CASE Retry
    BY <1>1, RetryKeeps
  <1>2. CASE Answered \/ Refused \/ Unreadable
    <2>1. at = "send" /\ EndRequest(0) /\ Return
      BY <1>2 DEF Answered, Refused, Unreadable
    <2>2. \/ RecordFailure(query.domain)
          \/ RecordSuccess(query.domain)
          \/ UNCHANGED failures
      BY <1>2 DEF Answered, Refused, Unreadable
    <2>3. failures' \in [Domains -> Nat]
      BY <2>1, <2>2, FailuresType
    <2> QED
      BY <2>1, <2>3, ReturnKeeps
  <1> QED
    BY <1>1, <1>2 DEF Attempt

(* While no query is being made, only the clock moves.                     *)
LEMMA IdleKeeps ==
  ASSUME TypeOK, at = "idle", UNCHANGED <<failures, at, query>>,
         now' \in Nat, now' >= now
  PROVE  TypeOK'
  BY DEF TypeOK

(* A request that is let through is not earlier than now.                  *)
LEMMA LetThroughTime ==
  ASSUME LimiterTypeOK, LetThrough
  PROVE  now' \in Nat /\ now' >= now
  <1> USE MaxRequestsAssumption, WindowAssumption, SlackAssumption
  <1>1. PICK k \in 0..Len(stamps), late \in 0..Slack :
          IsPruned(k) /\ now' = Awake(k) + late
    BY DEF LetThrough
  <1>2. /\ stamps \in Seq(Nat) /\ now \in Nat /\ Len(stamps) \in Nat
        /\ Len(stamps) <= MaxRequests /\ k \in Nat /\ late \in Nat /\ k <= Len(stamps)
    BY DEF LimiterTypeOK
  <1>3. Awake(k) \in Nat /\ Awake(k) >= now
    <2>1. CASE Len(stamps) - k >= MaxRequests
      <3>1. k = 0 /\ 1 \in 1..Len(stamps) /\ k < Len(stamps)
        BY <1>2, <2>1
      <3>2. stamps[1] \in Nat
        BY <1>2, <3>1
      <3>3. stamps[1] + Window > now
        BY <1>1, <3>1 DEF IsPruned
      <3> QED
        BY <1>2, <2>1, <3>1, <3>2, <3>3 DEF Awake
    <2>2. CASE ~(Len(stamps) - k >= MaxRequests)
      BY <1>2, <2>2 DEF Awake
    <2> QED
      BY <2>1, <2>2
  <1> QED
    BY <1>1, <1>2, <1>3

(* Each step of the thread, and what it is to the limiter.                 *)
LEMMA StepOfThread ==
  ASSUME TypeOK, LimiterTypeOK, Next
  PROVE  TypeOK' /\ LimiterNext
  <1>1. CASE \E d \in Domains : Query(d)
    BY <1>1, QueryKeeps DEF LimiterNext
  <1>2. CASE Attempt
    BY <1>2, AttemptKeeps DEF LimiterNext
  <1>3. CASE Upsert
    BY <1>3, LetThroughTime, IdleKeeps DEF Upsert, LimiterNext
  <1>4. CASE Export
    <2>1. now' \in Nat /\ now' >= now
      BY <1>4 DEF Export, NewClient, TypeOK
    <2> QED
      BY <1>4, <2>1, IdleKeeps DEF Export, LimiterNext
  <1>5. CASE Idle
    <2>1. now' \in Nat /\ now' >= now
      BY <1>5 DEF Idle, TypeOK
    <2> QED
      BY <1>5, <2>1, IdleKeeps DEF Idle, LimiterNext, TimePasses, hubspot
  <1> QED
    BY <1>1, <1>2, <1>3, <1>4, <1>5 DEF Next

FullInv == TypeOK /\ LimiterIInv

LEMMA InitFull == Init => FullInv
  <1>1. Init => LimiterInit
    BY DEF Init, LimiterInit
  <1> QED
    BY <1>1, InitThread, InitLimiter DEF FullInv

LEMMA FullStep == FullInv /\ [Next]_vars => FullInv' /\ [LimiterNext]_limiterVars
  <1> SUFFICES ASSUME FullInv, [Next]_vars
               PROVE  FullInv' /\ [LimiterNext]_limiterVars
    OBVIOUS
  <1>1. TypeOK /\ LimiterTypeOK
    BY DEF FullInv, TypeOK, LimiterIInv
  <1>2. CASE Next
    <2>1. TypeOK' /\ LimiterNext
      BY <1>1, <1>2, StepOfThread
    <2>2. LimiterIInv'
      BY <2>1, LetThroughKeeps, NewClientKeeps, TimePassesKeeps DEF FullInv, LimiterNext
    <2> QED
      BY <2>1, <2>2 DEF FullInv
  <1>3. CASE UNCHANGED vars
    <2>1. UNCHANGED <<now, failures, at, query, stamps, log>>
      BY <1>3 DEF vars, hubspot
    <2>2. TypeOK'
      BY <2>1 DEF FullInv, TypeOK
    <2>3. LimiterIInv'
      BY <2>1 DEF FullInv, LimiterIInv, LimiterTypeOK, StampsInv, WindowIsKept
    <2> QED
      BY <2>1, <2>2, <2>3 DEF FullInv, limiterVars
  <1> QED
    BY <1>2, <1>3

(* The types, and the deque of the client: it holds the latest requests,   *)
(* and what it lacks is older than the window, whatever the scrapers that  *)
(* share the clock with it wait for.                                       *)
THEOREM ThreadInvariant == Spec => []IInv
  <1>1. FullInv => IInv
    BY DEF FullInv, TypeOK, LimiterIInv, IInv
  <1> QED
    BY <1>1, InitFull, FullStep, PTL DEF Spec

(* To the limiter of a HubSpot client the queries of the counties are time *)
(* that passes: the thread implements the limiter's own specification.     *)
THEOREM ThreadImplementsLimiter == Spec => LimiterSpec
  <1>1. Init => LimiterInit
    BY DEF Init, LimiterInit
  <1> QED
    BY <1>1, InitFull, FullStep, PTL DEF Spec, LimiterSpec

(* hubspot_client/__init__.py:94-98.  So no window has too many requests   *)
(* of a client, on a thread that also queries counties.                    *)
THEOREM ThreadSpacesRequests == Spec => []WindowIsKept
  BY ThreadImplementsLimiter, RequestsAreSpaced, PTL
=============================================================================
