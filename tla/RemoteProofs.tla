---------------------------- MODULE RemoteProofs ----------------------------
(***************************************************************************)
(* Proofs about Remote: the entity tag a remote source sends always        *)
(* belongs to the data it shows, so that a 304 never makes old data or the *)
(* data of another target fresh; and the deadline never comes before the   *)
(* backoff or the server allow, however many failures come in a row.       *)
(***************************************************************************)
EXTENDS Remote, TLAPS, WellFoundedInduction

\* The types the argument needs, all of TypeOK but the delays, and that only
\* the GitHub source has a tag.
Shape ==
    /\ source_config \in Config
    /\ failures \in Nat
    /\ succeeded \in BOOLEAN
    /\ requesting \in BOOLEAN
    /\ kind # "github" => etag = None
    /\ version \in [Target -> Version]
    /\ DOMAIN published = {"available", "stale", "failures", "refresh_in_ms", "data"}
    /\ published = [x \in DOMAIN published |-> published[x]]
    /\ published.available \in BOOLEAN
    /\ published.stale \in BOOLEAN

Inv == Shape /\ EtagMatchesData /\ CachedDataMarked

\* The source starts with no tag and no data.
LEMMA InvInit == Init => Inv
<1> SUFFICES ASSUME Init PROVE Inv
  OBVIOUS
<1>0. version \in [Target -> Version]
  BY SizeAssumption DEF Init, Version
<1>1. Shape
  BY <1>0 DEF Init, Shape
<1>2. EtagMatchesData
  BY DEF Init, EtagMatchesData
<1>3. CachedDataMarked
  BY DEF Init, CachedDataMarked
<1>4. QED
  BY <1>1, <1>2, <1>3 DEF Inv

\* fail keeps the tag, the data and what is said about them.
LEMMA FailStep ==
    ASSUME Inv, NEW headers, NEW since, Fail(headers, since),
           UNCHANGED <<kind, source_config, version>>, requesting' \in BOOLEAN
    PROVE  /\ Inv'
           /\ failures' # 0
<1> DEFINE delay == FailureDelay(headers, failures + 1)
<1>1. /\ failures' = failures + 1
      /\ published' = FailurePatch(failures + 1, delay)
      /\ UNCHANGED <<etag, succeeded>>
  BY DEF Fail
<1>2. failures' \in Nat /\ failures' # 0 /\ failures' > 0
  BY <1>1 DEF Inv, Shape
<1> HIDE DEF delay
<1>3. /\ DOMAIN published' = DOMAIN published
      /\ published'.available = published.available
      /\ published'.stale = succeeded
      /\ published'.failures = failures + 1
      /\ published'.data = published.data
      /\ published' = [x \in DOMAIN published' |-> published'[x]]
  BY <1>1 DEF FailurePatch, Inv, Shape
<1>4. Shape'
  BY <1>1, <1>2, <1>3 DEF Inv, Shape
<1>5. EtagMatchesData'
  BY <1>1, <1>3 DEF Inv, EtagMatchesData
<1>6. CachedDataMarked'
  BY <1>1, <1>2, <1>3 DEF Inv, Shape, CachedDataMarked
<1>7. QED
  BY <1>2, <1>4, <1>5, <1>6 DEF Inv

\* The end of a successful refresh marks the data it publishes as fresh.
LEMMA SucceedStep ==
    ASSUME Inv, NEW headers, NEW data, data # NoData, Succeed(headers, data),
           kind # "github" => etag' = None,
           UNCHANGED <<kind, source_config, version>>, requesting' \in BOOLEAN
    PROVE  /\ Shape'
           /\ CachedDataMarked'
           /\ published'.data = data
<1> DEFINE delay == SuccessDelay(headers)
<1>1. /\ failures' = 0
      /\ succeeded' = TRUE
      /\ published' = [available |-> TRUE, stale |-> FALSE, failures |-> 0,
                       refresh_in_ms |-> delay, data |-> data]
  BY DEF Succeed
<1> HIDE DEF delay
<1>2. Shape'
  BY <1>1 DEF Inv, Shape
<1>3. CachedDataMarked'
  BY <1>1 DEF CachedDataMarked
<1>4. QED
  BY <1>1, <1>2, <1>3

\* A version is a number, so no version is None.
LEMMA VersionIsNumber ==
    ASSUME Shape
    PROVE  /\ version[source_config.target] \in Int
           /\ version[source_config.target] # None
           /\ source_config.target # None
  BY NoneAssumption, ConfigAssumption DEF Shape, Version, Valid

\* Every step preserves the invariant, and a response that ends a request
\* with fresh data gives the data the server has.
LEMMA InvStep ==
    ASSUME Inv, [Next]_vars
    PROVE  /\ Inv'
           /\ (requesting /\ ~requesting' /\ failures' = 0 /\ ~unasked') =>
                /\ published'.data.target = source_config.target
                /\ published'.data.version = version[source_config.target]
<1> USE DEF serviceVars
<1>1. CASE BeginRequest
  BY <1>1 DEF BeginRequest, Inv, Shape, EtagMatchesData, CachedDataMarked
<1>2. CASE TokenMissing
  <2>1. /\ Fail(NoHeaders, 0)
        /\ UNCHANGED <<kind, source_config, version, requesting>>
    BY <1>2 DEF TokenMissing
  <2>2. requesting' \in BOOLEAN
    BY <2>1 DEF Inv, Shape
  <2>3. QED
    BY <2>1, <2>2, FailStep
<1>3. CASE RequestFails \/ ResponseRefused
  <2>1. PICK headers : Fail(headers, elapsed)
    BY <1>3 DEF RequestFails, ResponseRefused, FailResponse
  <2>2. UNCHANGED <<kind, source_config, version>> /\ requesting' = FALSE
    BY <1>3 DEF RequestFails, ResponseRefused, EndRequest
  <2>3. QED
    BY <2>1, <2>2, FailStep
<1>4. CASE ResponseOk
  <2> DEFINE t == source_config.target
             data == ParseGithub(t, version[t])
  <2>1. PICK headers : Succeed(headers, data)
    BY <1>4 DEF ResponseOk
  <2>2. /\ UNCHANGED <<kind, source_config, version>>
        /\ requesting' = FALSE
        /\ etag' \in {None, version[t]}
        /\ kind # "github" => etag' = None
    BY <1>4 DEF ResponseOk, EndRequest
  <2>3. data.target = t /\ data.version = version[t]
    BY DEF ParseGithub
  <2>4. data # NoData
    BY <2>3, VersionIsNumber DEF Inv, NoData
  <2> HIDE DEF data
  <2>5. /\ Shape' /\ CachedDataMarked'
        /\ published'.data = data
    BY <2>1, <2>2, <2>4, SucceedStep
  <2>6. EtagMatchesData'
    BY <2>2, <2>3, <2>5 DEF EtagMatchesData
  <2>7. QED
    BY <2>3, <2>5, <2>6 DEF Inv
<1>5. CASE NotModified
  <2>1. /\ UNCHANGED <<kind, source_config, version>>
        /\ requesting' = FALSE
        /\ etag = version[source_config.target] \/ etag = None
    BY <1>5 DEF NotModified, EndRequest
  <2>2. CASE HasSnapshot
    <3>1. PICK headers : Succeed(headers, published.data)
      BY <1>5, <2>2 DEF NotModified
    <3>2. unasked' = (etag = None) /\ etag' = etag
      BY <1>5, <2>2 DEF NotModified
    <3>3. published.data # NoData
      BY <2>2 DEF HasSnapshot, Inv, CachedDataMarked
    <3>4. /\ Shape' /\ CachedDataMarked'
          /\ published'.data = published.data
      BY <3>1, <3>2, <3>3, <2>1, SucceedStep DEF Inv, Shape
    <3>5. EtagMatchesData'
      BY <3>2, <3>4, <2>1 DEF Inv, EtagMatchesData
    <3>6. ~unasked' => /\ published'.data.target = source_config.target
                       /\ published'.data.version = version[source_config.target]
      BY <3>2, <3>4, <2>1 DEF Inv, EtagMatchesData
    <3>7. QED
      BY <3>4, <3>5, <3>6 DEF Inv
  <2>3. CASE ~HasSnapshot
    <3>1. PICK headers : Fail(headers, elapsed)
      BY <1>5, <2>3 DEF NotModified, FailResponse
    <3>2. QED
      BY <3>1, <2>1, FailStep
  <2>4. QED
    BY <2>2, <2>3
<1>6. CASE Reload
  <2>1. PICK new \in Config :
          /\ source_config' = new
          /\ etag' = IF kind = "github" THEN KeptEtag(new) ELSE etag
    BY <1>6 DEF Reload
  <2>2. UNCHANGED <<kind, failures, succeeded, requesting, published, version>>
    BY <1>6 DEF Reload
  <2>3. Shape' /\ CachedDataMarked'
    BY <2>1, <2>2 DEF Inv, Shape, CachedDataMarked, KeptEtag
  <2>4. EtagMatchesData'
    BY <2>1, <2>2 DEF Inv, Shape, EtagMatchesData, KeptEtag
  <2>5. QED
    BY <2>2, <2>3, <2>4 DEF Inv
<1>7. CASE WaitFails
  BY <1>7 DEF WaitFails, Inv, Shape, EtagMatchesData, CachedDataMarked
<1>8. CASE Tick
  BY <1>8 DEF Tick, Inv, Shape, EtagMatchesData, CachedDataMarked
<1>9. ASSUME NEW t \in Target, ListChanges(t)
      PROVE  /\ Inv'
             /\ requesting' = requesting
  <2>1. version' \in [Target -> Version]
    BY <1>9, SizeAssumption DEF ListChanges, Inv, Shape, Version
  <2>2. QED
    BY <1>9, <2>1 DEF ListChanges, Inv, Shape, EtagMatchesData, CachedDataMarked
<1>10. CASE OutageEnds
  BY <1>10 DEF OutageEnds, Inv, Shape, EtagMatchesData, CachedDataMarked
<1>11. CASE UNCHANGED vars
  BY <1>11 DEF vars, Inv, Shape, EtagMatchesData, CachedDataMarked
<1>12. QED
  BY <1>1, <1>2, <1>3, <1>4, <1>5, <1>6, <1>7, <1>8, <1>9, <1>10, <1>11
  DEF Next, EndsRequest

\* refresh and S.reload keep the entity tag and the published list together,
\* for any targets, limits and headers.
THEOREM EtagStaysWithData == Spec => []EtagMatchesData
<1>1. Init => Inv
  BY InvInit
<1>2. Inv /\ [Next]_vars => Inv'
  BY InvStep
<1>3. Inv => EtagMatchesData
  BY DEF Inv
<1>4. QED
  BY <1>1, <1>2, <1>3, PTL DEF Spec

\* What the domain says of its data is true whatever fails: available and
\* stale follow the successes and failures of refresh.
THEOREM DataStaysMarked == Spec => []CachedDataMarked
<1>1. Init => Inv
  BY InvInit
<1>2. Inv /\ [Next]_vars => Inv'
  BY InvStep
<1>3. Inv => CachedDataMarked
  BY DEF Inv
<1>4. QED
  BY <1>1, <1>2, <1>3, PTL DEF Spec

\* refresh publishes as fresh only what the server has for the configured
\* target, also when the response is a 304 without a body.
THEOREM FreshDataIsCurrent == Spec => FreshIsCurrent
<1>1. Init => Inv
  BY InvInit
<1>2. Inv /\ [Next]_vars => Inv'
  BY InvStep
<1>3. Inv /\ [Next]_vars =>
        [(requesting /\ ~requesting' /\ failures' = 0 /\ ~unasked') =>
           /\ published'.data.target = source_config.target
           /\ published'.data.version = version[source_config.target]]_vars
  BY InvStep
<1>4. QED
  BY <1>1, <1>2, <1>3, PTL DEF Spec, FreshIsCurrent

-----------------------------------------------------------------------------
(* Counting.  Induction and recursion over the naturals, for sets and      *)
(* functions, from the least-number principle.                             *)

\* Induction over the naturals, for what is said as a set.
LEMMA Induction ==
    ASSUME NEW S, 0 \in S, \A n \in Nat : n \in S => n + 1 \in S
    PROVE  Nat \subseteq S
<1> DEFINE T == Nat \ S
           R == OpToRel(<, Nat)
<1>1. SUFFICES ASSUME T # {} PROVE FALSE
  OBVIOUS
<1>2. IsWellFoundedOn(R, Nat)
  BY NatLessThanWellFounded
<1>3. \A x, y \in Nat : <<y, x>> \in R <=> y < x
  BY DEF OpToRel
<1> HIDE DEF R
<1>4. T \subseteq Nat
  OBVIOUS
<1>5. PICK x \in T : \A y \in T : ~(<<y, x>> \in R)
  BY <1>1, <1>2, <1>4, WFMin
<1>6. x \in Nat /\ x # 0 /\ x - 1 \in Nat /\ (x - 1) + 1 = x
  BY <1>5
<1>7. x - 1 \in S
  <2>1. <<x - 1, x>> \in R
    BY <1>3, <1>6
  <2>2. x - 1 \notin T
    BY <1>5, <2>1
  <2>3. QED
    BY <1>6, <2>2
<1>8. QED
  BY <1>5, <1>6, <1>7

\* Iterating g from a: the value stays a up to m, then g is applied at every
\* step.  There is such a function.
Iterates(f, n, m, a, g) ==
    /\ f \in [0..n -> Nat]
    /\ \A k \in 0..n : f[k] = IF k <= m THEN a ELSE g[f[k - 1]]

LEMMA Iteration ==
    ASSUME NEW m \in Nat, NEW a \in Nat, NEW g \in [Nat -> Nat]
    PROVE  \E f \in [Nat -> Nat] :
             \A k \in Nat : f[k] = IF k <= m THEN a ELSE g[f[k - 1]]
<1> DEFINE It(f, n) == Iterates(f, n, m, a, g)
           S == {n \in Nat : \E f : It(f, n)}
<1>1. 0 \in S
  <2> DEFINE f == [k \in 0..0 |-> a]
  <2>1. It(f, 0)
    BY DEF Iterates
  <2>2. QED
    BY <2>1
<1>2. ASSUME NEW n \in Nat, n \in S
      PROVE  n + 1 \in S
  <2>1. PICK f : It(f, n)
    BY <1>2
  <2> DEFINE h == [k \in 0..(n + 1) |->
                     IF k <= n THEN f[k] ELSE IF k <= m THEN a ELSE g[f[k - 1]]]
  <2>2. f \in [0..n -> Nat]
    BY <2>1 DEF Iterates
  <2>3. ASSUME NEW k \in 0..(n + 1)
        PROVE  /\ k <= n => k \in 0..n /\ h[k] = f[k]
               /\ k > n => k = n + 1 /\ k - 1 \in 0..n /\ h[k] = IF k <= m THEN a ELSE g[f[k - 1]]
               /\ k - 1 \in 0..n /\ k > 0 => h[k - 1] = f[k - 1]
    OBVIOUS
  <2>4. h \in [0..(n + 1) -> Nat]
    <3>1. ASSUME NEW k \in 0..(n + 1)
          PROVE  h[k] \in Nat
      <4> HIDE DEF h
      <4>1. CASE k <= n
        BY <2>2, <2>3, <4>1
      <4>2. CASE k > n
        <5>1. k - 1 \in 0..n /\ h[k] = IF k <= m THEN a ELSE g[f[k - 1]]
          BY <2>3, <4>2
        <5>2. f[k - 1] \in Nat
          BY <2>2, <5>1
        <5>3. g[f[k - 1]] \in Nat
          BY <5>2
        <5>4. QED
          BY <5>1, <5>3
      <4>3. QED
        BY <4>1, <4>2
    <3>2. QED
      BY <3>1
  <2>5. \A k \in 0..(n + 1) : h[k] = IF k <= m THEN a ELSE g[h[k - 1]]
    <3>1. \A k \in 0..n : f[k] = IF k <= m THEN a ELSE g[f[k - 1]]
      BY <2>1 DEF Iterates
    <3> HIDE DEF h
    <3>2. ASSUME NEW k \in 0..(n + 1), k > m
          PROVE  h[k - 1] = f[k - 1] /\ h[k] = g[f[k - 1]]
      BY <2>3, <3>1, <3>2
    <3>3. ASSUME NEW k \in 0..(n + 1), k <= m
          PROVE  h[k] = a
      BY <2>3, <3>1, <3>3
    <3>4. QED
      BY <3>2, <3>3
  <2> HIDE DEF h
  <2>6. It(h, n + 1)
    BY <2>4, <2>5 DEF Iterates
  <2>7. QED
    BY <2>6
<1>3. Nat \subseteq S
  BY <1>1, <1>2, Induction
<1> DEFINE F(n) == CHOOSE f : It(f, n)
<1>4. \A n \in Nat : It(F(n), n)
  BY <1>3
<1>5. \A n \in Nat, k \in Nat : k <= n => F(n)[k] = F(k)[k]
  <2> HIDE DEF F, It
  <2>1. ASSUME NEW n \in Nat, NEW p \in Nat
        PROVE  \A k \in Nat : k <= n /\ k <= p => F(n)[k] = F(p)[k]
    <3> DEFINE E == {k \in Nat : k <= n /\ k <= p => F(n)[k] = F(p)[k]}
    <3>1. /\ \A k \in 0..n : F(n)[k] = IF k <= m THEN a ELSE g[F(n)[k - 1]]
          /\ \A k \in 0..p : F(p)[k] = IF k <= m THEN a ELSE g[F(p)[k - 1]]
      BY <1>4 DEF It, Iterates
    <3>2. 0 \in E
      BY <3>1
    <3>3. ASSUME NEW k \in Nat, k \in E
          PROVE  k + 1 \in E
      <4>1. SUFFICES ASSUME k + 1 <= n, k + 1 <= p
                     PROVE  F(n)[k + 1] = F(p)[k + 1]
        OBVIOUS
      <4>2. k + 1 \in 0..n /\ k + 1 \in 0..p /\ (k + 1) - 1 = k /\ k <= n /\ k <= p
        BY <4>1
      <4>3. F(n)[k] = F(p)[k]
        BY <3>3, <4>2
      <4>4. QED
        BY <3>1, <4>2, <4>3
    <3>4. Nat \subseteq E
      <4> HIDE DEF E
      <4>1. QED
        BY <3>2, <3>3, Induction
    <3>5. QED
      BY <3>4
  <2>2. QED
    BY <2>1
<1> DEFINE G == [n \in Nat |-> F(n)[n]]
<1>6. G \in [Nat -> Nat]
  <2> HIDE DEF F
  <2>1. ASSUME NEW n \in Nat PROVE F(n)[n] \in Nat
    <3>1. F(n) \in [0..n -> Nat] /\ n \in 0..n
      BY <1>4 DEF Iterates
    <3>2. QED
      BY <3>1
  <2>2. QED
    BY <2>1
<1>7. ASSUME NEW k \in Nat
      PROVE  G[k] = IF k <= m THEN a ELSE g[G[k - 1]]
  <2> HIDE DEF F
  <2>1. F(k)[k] = IF k <= m THEN a ELSE g[F(k)[k - 1]]
    <3>1. k \in 0..k
      OBVIOUS
    <3>2. QED
      BY <1>4, <3>1 DEF Iterates
  <2>2. k > m => k - 1 \in Nat /\ k - 1 <= k
    OBVIOUS
  <2>3. k > m => F(k)[k - 1] = F(k - 1)[k - 1]
    BY <1>5, <2>2
  <2>4. QED
    BY <2>1, <2>2, <2>3
<1> HIDE DEF G
<1>8. QED
  BY <1>6, <1>7

\* The loop of exponential_delay, turn by turn.
LEMMA LoopDelayTurns ==
    ASSUME NEW lo \in Nat, NEW hi \in Nat
    PROVE
    /\ LoopDelay(lo, hi) \in [Nat -> Nat]
    /\ \A k \in Nat :
         LoopDelay(lo, hi)[k] =
           IF k < 2 THEN lo
           ELSE IF LoopDelay(lo, hi)[k - 1] >= hi \/ LoopDelay(lo, hi)[k - 1] > hi \div 2
           THEN hi
           ELSE 2 * LoopDelay(lo, hi)[k - 1]
<1> DEFINE g == [d \in Nat |-> IF d >= hi \/ d > hi \div 2
                               THEN hi ELSE 2 * d]
           Loop(f) == [k \in Nat |->
                         IF k < 2 THEN lo
                         ELSE IF f[k - 1] >= hi \/ f[k - 1] > hi \div 2
                         THEN hi
                         ELSE 2 * f[k - 1]]
<1>1. g \in [Nat -> Nat] /\ lo \in Nat /\ hi \in Nat /\ 1 \in Nat
  OBVIOUS
<1>2. PICK f \in [Nat -> Nat] :
        \A k \in Nat : f[k] = IF k <= 1 THEN lo ELSE g[f[k - 1]]
  <2> HIDE DEF g
  <2>1. QED
    BY <1>1, Iteration, Zenon
<1>3. \A d \in Nat : g[d] = IF d >= hi \/ d > hi \div 2
                            THEN hi ELSE 2 * d
  OBVIOUS
<1> HIDE DEF g
<1>4. ASSUME NEW k \in Nat
      PROVE  f[k] = Loop(f)[k]
  <2>1. CASE k <= 1
    BY <1>2, <2>1
  <2>2. CASE k > 1
    <3>1. k - 1 \in Nat /\ f[k - 1] \in Nat /\ f[k] = g[f[k - 1]]
      BY <1>2, <2>2
    <3>2. QED
      BY <1>3, <2>2, <3>1
  <2>3. QED
    BY <2>1, <2>2
<1>5. Loop(f) = [k \in Nat |-> Loop(f)[k]]
  OBVIOUS
<1>6. LoopDelay(lo, hi) = CHOOSE h : h = Loop(h)
  BY DEF LoopDelay
<1>7. f = Loop(f)
  <2> DEFINE L == Loop(f)
  <2> HIDE DEF Loop
  <2>1. L \in [Nat -> Nat]
    BY <1>4, <1>5
  <2> HIDE DEF L
  <2>2. \A k \in Nat : f[k] = L[k]
    BY <1>4 DEF L
  <2>3. f = L
    BY <2>1, <2>2
  <2>4. QED
    BY <2>3 DEF L
<1>8. LoopDelay(lo, hi) = Loop(LoopDelay(lo, hi))
  <2> HIDE DEF Loop
  <2>1. QED
    BY <1>6, <1>7
<1> DEFINE S == {k \in Nat : LoopDelay(lo, hi)[k] \in Nat}
<1>9. ASSUME NEW k \in Nat
      PROVE  LoopDelay(lo, hi)[k] =
               IF k < 2 THEN lo
               ELSE IF LoopDelay(lo, hi)[k - 1] >= hi \/ LoopDelay(lo, hi)[k - 1] > hi \div 2
               THEN hi
               ELSE 2 * LoopDelay(lo, hi)[k - 1]
  <2>1. LoopDelay(lo, hi)[k] = Loop(LoopDelay(lo, hi))[k]
    BY <1>8, Zenon
  <2>2. QED
    BY <2>1
<1>10. 0 \in S
  BY <1>1, <1>9
<1>11. ASSUME NEW k \in Nat, k \in S
       PROVE  k + 1 \in S
  <2>1. (k + 1) - 1 = k /\ LoopDelay(lo, hi)[k] \in Nat
    BY <1>11
  <2>2. LoopDelay(lo, hi)[k + 1] \in {lo, hi, 2 * LoopDelay(lo, hi)[k]}
    BY <1>9, <2>1
  <2>3. QED
    BY <1>1, <2>1, <2>2
<1>12. Nat \subseteq S
  <2> HIDE DEF S
  <2>1. QED
    BY <1>10, <1>11, Induction
<1>13. LoopDelay(lo, hi) \in [Nat -> Nat]
  <2>1. LoopDelay(lo, hi) = [k \in Nat |-> LoopDelay(lo, hi)[k]]
    BY <1>8
  <2>2. \A k \in Nat : LoopDelay(lo, hi)[k] \in Nat
    BY <1>12
  <2>3. QED
    BY <2>1, <2>2
<1>14. QED
  BY <1>9, <1>13

\* The powers of two.
LEMMA Powers ==
    /\ PowerOfTwo[0] = 1
    /\ \A n \in Nat : PowerOfTwo[n] \in Nat /\ PowerOfTwo[n + 1] = 2 * PowerOfTwo[n]
<1> DEFINE g == [d \in Nat |-> 2 * d]
           Power(f) == [n \in Nat |-> IF n = 0 THEN 1 ELSE 2 * f[n - 1]]
<1>1. g \in [Nat -> Nat] /\ 0 \in Nat /\ 1 \in Nat
  OBVIOUS
<1>2. PICK f \in [Nat -> Nat] : \A k \in Nat : f[k] = IF k <= 0 THEN 1 ELSE g[f[k - 1]]
  <2> HIDE DEF g
  <2>1. QED
    BY <1>1, Iteration, Zenon
<1>3. \A d \in Nat : g[d] = 2 * d
  OBVIOUS
<1> HIDE DEF g
<1>4. ASSUME NEW k \in Nat
      PROVE  f[k] = Power(f)[k]
  <2>1. CASE k = 0
    BY <1>2, <2>1
  <2>2. CASE k > 0
    <3>1. k - 1 \in Nat /\ f[k - 1] \in Nat /\ f[k] = g[f[k - 1]]
      BY <1>2, <2>2
    <3>2. QED
      BY <1>3, <2>2, <3>1
  <2>3. QED
    BY <2>1, <2>2
<1>5. Power(f) = [k \in Nat |-> Power(f)[k]]
  OBVIOUS
<1>6. PowerOfTwo = CHOOSE h : h = Power(h)
  BY DEF PowerOfTwo
<1>7. f = Power(f)
  <2> DEFINE L == Power(f)
  <2> HIDE DEF Power
  <2>1. L \in [Nat -> Nat]
    BY <1>4, <1>5
  <2> HIDE DEF L
  <2>2. \A k \in Nat : f[k] = L[k]
    BY <1>4 DEF L
  <2>3. f = L
    BY <2>1, <2>2
  <2>4. QED
    BY <2>3 DEF L
<1>8. PowerOfTwo = Power(PowerOfTwo)
  <2> HIDE DEF Power
  <2>1. QED
    BY <1>6, <1>7
<1>9. ASSUME NEW k \in Nat
      PROVE  PowerOfTwo[k] = IF k = 0 THEN 1 ELSE 2 * PowerOfTwo[k - 1]
  <2>1. PowerOfTwo[k] = Power(PowerOfTwo)[k]
    BY <1>8, Zenon
  <2>2. QED
    BY <2>1
<1> DEFINE S == {k \in Nat : PowerOfTwo[k] \in Nat}
<1>10. ASSUME NEW k \in Nat
       PROVE  PowerOfTwo[k + 1] = 2 * PowerOfTwo[k]
  <2>1. k + 1 \in Nat /\ k + 1 # 0 /\ (k + 1) - 1 = k
    OBVIOUS
  <2>2. QED
    BY <1>9, <2>1
<1>11. PowerOfTwo[0] = 1
  BY <1>9
<1>12. Nat \subseteq S
  <2>1. 0 \in S
    BY <1>11
  <2>2. ASSUME NEW k \in Nat, k \in S PROVE k + 1 \in S
    BY <1>10, <2>2
  <2> HIDE DEF S
  <2>3. QED
    BY <2>1, <2>2, Induction
<1>13. QED
  BY <1>10, <1>11, <1>12

\* Natural numbers multiply to natural numbers.
LEMMA NaturalProduct ==
    ASSUME NEW a \in Nat, NEW b \in Nat
    PROVE  a * b \in Nat
  OBVIOUS

\* The loop doubles the minimum at every turn, up to the maximum.
LEMMA LoopDelayDoubles ==
    ASSUME NEW lo \in Nat, NEW hi \in Nat, NEW n \in Nat
    PROVE  \/ LoopDelay(lo, hi)[n + 1] >= hi
           \/ LoopDelay(lo, hi)[n + 1] >= lo * PowerOfTwo[n]
<1> DEFINE S == {k \in Nat : \/ LoopDelay(lo, hi)[k + 1] >= hi
                             \/ LoopDelay(lo, hi)[k + 1] >= lo * PowerOfTwo[k]}
<1>1. lo \in Nat /\ hi \in Nat
  OBVIOUS
<1>t. /\ LoopDelay(lo, hi) \in [Nat -> Nat]
      /\ \A k \in Nat :
           LoopDelay(lo, hi)[k] =
             IF k < 2 THEN lo
             ELSE IF LoopDelay(lo, hi)[k - 1] >= hi \/ LoopDelay(lo, hi)[k - 1] > hi \div 2
             THEN hi
             ELSE 2 * LoopDelay(lo, hi)[k - 1]
  BY LoopDelayTurns, Zenon
<1>2. 0 \in S
  <2>1. LoopDelay(lo, hi)[1] = lo
    BY <1>t
  <2>2. lo * PowerOfTwo[0] = lo
    BY <1>1, Powers
  <2>3. QED
    BY <1>1, <2>1, <2>2
<1>3. ASSUME NEW k \in Nat, k \in S
      PROVE  k + 1 \in S
  <2> DEFINE d == LoopDelay(lo, hi)[k + 1]
             e == LoopDelay(lo, hi)[(k + 1) + 1]
             p == PowerOfTwo[k]
  <2>1. d \in Nat /\ p \in Nat /\ PowerOfTwo[k + 1] = 2 * p
    BY <1>t, Powers
  <2>2. e = IF d >= hi \/ d > hi \div 2 THEN hi ELSE 2 * d
    <3>1. (k + 1) + 1 \in Nat /\ ~((k + 1) + 1 < 2) /\ ((k + 1) + 1) - 1 = k + 1
      OBVIOUS
    <3>2. QED
      BY <1>t, <3>1
  <2>3. d >= hi \/ d >= lo * p
    BY <1>3
  <2> HIDE DEF d, e, p
  <2>4. e >= hi \/ e >= lo * (2 * p)
    <3>1. CASE e = hi
      BY <1>1, <3>1
    <3>2. CASE e = 2 * d /\ d >= lo * p
      <4>1. lo * (2 * p) = 2 * (lo * p) /\ lo * p \in Nat
        BY <1>1, <2>1
      <4>2. QED
        BY <2>1, <3>2, <4>1
    <3>3. QED
      BY <2>2, <2>3, <3>1, <3>2
  <2>5. QED
    BY <2>1, <2>4 DEF e, p
<1>4. Nat \subseteq S
  <2> HIDE DEF S
  <2>1. QED
    BY <1>2, <1>3, Induction
<1>5. QED
  BY <1>4

-----------------------------------------------------------------------------
(* The delays.                                                             *)

\* exponential_delay is a delay within its cap, and no shorter than doubling
\* asks for.
LEMMA BackoffBounds ==
    ASSUME NEW lo \in Nat, NEW hi \in Nat, NEW n \in Nat
    PROVE  /\ ExponentialDelay(n + 1, lo, hi) \in 0..hi
           /\ ExponentialDelay(n + 1, lo, hi) >= Smaller(lo * PowerOfTwo[n], hi)
<1>1. lo * PowerOfTwo[n] \in Nat /\ hi \in Nat /\ LoopDelay(lo, hi)[n + 1] \in Nat
  <2>1. PowerOfTwo[n] \in Nat
    BY Powers
  <2>2. LoopDelay(lo, hi) \in [Nat -> Nat]
    BY LoopDelayTurns, Zenon
  <2>3. lo * PowerOfTwo[n] \in Nat
    BY <2>1, NaturalProduct
  <2>4. QED
    BY <2>2, <2>3
<1>2. \/ LoopDelay(lo, hi)[n + 1] >= hi
      \/ LoopDelay(lo, hi)[n + 1] >= lo * PowerOfTwo[n]
  BY LoopDelayDoubles
<1> DEFINE d == LoopDelay(lo, hi)[n + 1]
           p == lo * PowerOfTwo[n]
<1> HIDE DEF d, p
<1>3. d \in Nat /\ p \in Nat /\ (d >= hi \/ d >= p)
  BY <1>1, <1>2 DEF d, p
<1>4. Smaller(d, hi) \in 0..hi /\ Smaller(d, hi) >= Smaller(p, hi)
  BY <1>1, <1>3 DEF Smaller
<1>5. QED
  BY <1>4 DEF ExponentialDelay, d, p

\* A number of seconds that fits an integer is not changed by its width; one
\* that does not becomes some integer.
LEMMA SecondsExact ==
    ASSUME NEW n \in Seconds
    PROVE  /\ SecondsMs(n) \in Int
           /\ n * SecondMs \in Nat
           /\ n * SecondMs <= MaxInteger => SecondsMs(n) = n * SecondMs
<1> DEFINE x == n * SecondMs
           M == MaxInteger + 1
<1>1. n \in Nat /\ SecondMs \in Nat /\ MaxInteger \in Nat
  BY DelayAssumption
<1>2. x \in Nat /\ M \in Nat /\ M > 0
  BY <1>1
<1> HIDE DEF x
<1>3. (x + M) % (2 * M) \in Int
  BY <1>2
<1>4. x < M => (x + M) % (2 * M) = x + M
  BY <1>2
<1>5. SecondsMs(n) = ((x + M) % (2 * M)) - M
  <2>1. x + MaxInteger + 1 = x + M
    BY <1>1, <1>2
  <2>2. SecondsMs(n) = ((x + MaxInteger + 1) % (2 * M)) - MaxInteger - 1
    BY DEF SecondsMs, Wrapped, x
  <2>3. QED
    BY <1>1, <1>2, <1>3, <2>1, <2>2
<1> HIDE DEF M
<1>6. QED
  BY <1>1, <1>2, <1>3, <1>4, <1>5 DEF x, M

\* Seconds that fit an integer as milliseconds: nothing wraps around.
NothingWraps == \A n \in Seconds : n * SecondMs <= MaxInteger

\* What the server asked for is a delay within the cap, and the seconds of its
\* header cover it unless they wrap.
LEMMA AskedBounds ==
    ASSUME NEW n \in HeaderValue
    PROVE  /\ Asked(n) \in 0..MaxDelayMs
           /\ n # None => SecondsMs(n) \in Int
           /\ n # None /\ NothingWraps => Asked(n) <= SecondsMs(n)
           /\ n = None => Asked(n) = 0
<1>1. MaxDelayMs \in Nat /\ MaxInteger \in Nat
  BY DelayAssumption
<1>2. CASE n = None
  BY <1>1, <1>2 DEF Asked
<1>3. CASE n # None
  <2>1. n \in Seconds
    BY <1>3 DEF HeaderValue
  <2>2. /\ SecondsMs(n) \in Int
        /\ n * SecondMs \in Nat
        /\ n * SecondMs <= MaxInteger => SecondsMs(n) = n * SecondMs
    BY <2>1, SecondsExact
  <2> DEFINE x == n * SecondMs
  <2>3. Asked(n) = Smaller(x, MaxDelayMs)
    BY <1>3 DEF Asked
  <2>4. NothingWraps => x <= MaxInteger
    BY <2>1 DEF NothingWraps
  <2> HIDE DEF x
  <2>5. x \in Nat /\ (x <= MaxInteger => SecondsMs(n) = x)
    BY <2>2 DEF x
  <2>6. QED
    BY <1>1, <1>3, <2>2, <2>3, <2>4, <2>5 DEF Smaller
<1>4. QED
  BY <1>2, <1>3

\* The fields of a configuration that was accepted.
LEMMA ConfigFields ==
    ASSUME source_config \in Config
    PROVE  /\ source_config.target \in Target
           /\ source_config.max_items \in Nat
           /\ source_config.interval_ms \in 0..MaxDelayMs
           /\ source_config.retry_min_ms \in Nat
           /\ source_config.retry_max_ms \in 0..MaxDelayMs
           /\ source_config.timeout_cs \in Nat
  BY ConfigAssumption, DelayAssumption DEF Valid

\* failure_delay respects the backoff, the server and the cap.
LEMMA FailureDelayBounds ==
    ASSUME source_config \in Config, NEW headers \in Headers, NEW n \in Nat
    PROVE  LET delay == FailureDelay(headers, n + 1) IN
           /\ delay \in 0..MaxDelayMs
           /\ delay >= Smaller(source_config.retry_min_ms * PowerOfTwo[n],
                               source_config.retry_max_ms)
           /\ NothingWraps =>
                delay >= Larger(Asked(headers.retry_after), Asked(headers.reset))
<1> DEFINE lo == source_config.retry_min_ms
           hi == source_config.retry_max_ms
           back == Backoff(n + 1)
           ra == headers.retry_after
           rs == headers.reset
           retry == IF ra = None THEN back ELSE Larger(back, SecondsMs(ra))
           reset == IF rs = None \/ rs <= 0 THEN retry ELSE Larger(retry, SecondsMs(rs))
           p == Smaller(lo * PowerOfTwo[n], hi)
<1>0. lo \in Nat /\ hi \in 0..MaxDelayMs /\ MaxDelayMs \in Nat /\ hi \in Nat
  BY ConfigFields, DelayAssumption
<1>1. ra \in HeaderValue /\ rs \in HeaderValue
  BY DEF Headers, HeaderValue
<1>2. FailureDelay(headers, n + 1) = Smaller(reset, MaxDelayMs)
  BY DEF FailureDelay
<1> HIDE DEF lo, hi
<1>3. back \in 0..hi /\ back >= p
  <2>1. back = ExponentialDelay(n + 1, lo, hi)
    BY DEF Backoff, lo, hi
  <2> HIDE DEF back
  <2>2. QED
    BY <1>0, <2>1, BackoffBounds
<1>4. hi \in Nat /\ MaxDelayMs \in Nat /\ hi <= MaxDelayMs
  BY <1>0
<1>5. p \in Nat
  BY <1>0, Powers DEF Smaller
<1>6. /\ Asked(ra) \in 0..MaxDelayMs
      /\ ra # None => SecondsMs(ra) \in Int
      /\ ra # None /\ NothingWraps => Asked(ra) <= SecondsMs(ra)
      /\ ra = None => Asked(ra) = 0
  BY <1>1, AskedBounds
<1>7. /\ Asked(rs) \in 0..MaxDelayMs
      /\ rs # None => SecondsMs(rs) \in Int
      /\ rs # None /\ NothingWraps => Asked(rs) <= SecondsMs(rs)
      /\ rs = None => Asked(rs) = 0
  BY <1>1, AskedBounds
<1>8. rs # None /\ rs <= 0 => Asked(rs) = 0
  <2>1. SUFFICES ASSUME rs # None, rs <= 0 PROVE Asked(rs) = 0
    OBVIOUS
  <2> HIDE DEF rs
  <2>2. rs = 0
    <3>1. rs \in Seconds
      BY <1>1, <2>1 DEF HeaderValue
    <3>2. rs \in 0..MaxInteger
      BY <3>1, DelayAssumption
    <3>3. QED
      BY <2>1, <3>2, DelayAssumption
  <2>3. 0 * SecondMs = 0
    BY DelayAssumption
  <2>4. QED
    BY <1>4, <2>1, <2>2, <2>3, DelayAssumption DEF Asked, Smaller
<1> HIDE DEF back, ra, rs, p
<1>9. retry \in Int /\ retry >= back /\ (NothingWraps => retry >= Asked(ra))
  BY <1>3, <1>4, <1>6 DEF Larger
<1> HIDE DEF retry
<1>10. reset \in Int /\ reset >= retry /\ (NothingWraps => reset >= Asked(rs))
  BY <1>3, <1>4, <1>6, <1>7, <1>8, <1>9 DEF Larger
<1> HIDE DEF reset
<1>11. /\ Smaller(reset, MaxDelayMs) \in 0..MaxDelayMs
       /\ Smaller(reset, MaxDelayMs) >= p
       /\ NothingWraps => /\ Smaller(reset, MaxDelayMs) >= Asked(ra)
                          /\ Smaller(reset, MaxDelayMs) >= Asked(rs)
  BY <1>3, <1>4, <1>5, <1>6, <1>7, <1>9, <1>10 DEF Smaller
<1>12. QED
  BY <1>2, <1>11 DEF Larger, p, ra, rs, lo, hi

\* success_delay respects the interval, the server and the cap.
LEMMA SuccessDelayBounds ==
    ASSUME source_config \in Config, NEW headers \in Headers
    PROVE  /\ SuccessDelay(headers) \in 0..MaxDelayMs
           /\ NothingWraps => SuccessDelay(headers) >= Asked(headers.poll_interval)
<1> DEFINE pi == headers.poll_interval
           interval == source_config.interval_ms
           d == IF pi = None THEN interval ELSE Larger(interval, SecondsMs(pi))
<1>1. pi \in HeaderValue
  BY DEF Headers, HeaderValue
<1>2. /\ Asked(pi) \in 0..MaxDelayMs
      /\ pi # None => SecondsMs(pi) \in Int
      /\ pi # None /\ NothingWraps => Asked(pi) <= SecondsMs(pi)
      /\ pi = None => Asked(pi) = 0
  BY <1>1, AskedBounds
<1>3. interval \in Nat /\ MaxDelayMs \in Nat
  BY ConfigFields, DelayAssumption
<1>4. SuccessDelay(headers) = Smaller(d, MaxDelayMs)
  BY DEF SuccessDelay
<1> HIDE DEF pi, interval
<1>5. d \in Nat /\ (NothingWraps => d >= Asked(pi))
  BY <1>2, <1>3 DEF Larger
<1> HIDE DEF d
<1>6. QED
  BY <1>2, <1>3, <1>4, <1>5 DEF Smaller, pi

\* A deadline in whole centiseconds is no earlier than its milliseconds, both
\* counted from the time since the request began.
LEMMA ScheduleCovers ==
    ASSUME NEW delay \in Nat, NEW since \in Nat, Schedule(delay, since)
    PROVE  /\ remaining' \in Nat
           /\ \A ms \in Nat : ms <= delay =>
                /\ Larger(0, ms - since * CsMs) \in Nat
                /\ Larger(0, ms - since * CsMs) <= remaining' * CsMs
<1> DEFINE q == (delay + CsMs - 1) \div CsMs
<1>1. CsMs \in Nat /\ CsMs > 0
  BY DelayAssumption
<1>2. q \in Nat /\ CsMs * q <= delay + CsMs - 1 /\ delay + CsMs - 1 < CsMs * q + CsMs
  BY <1>1
<1>3. remaining' = Larger(0, q - since)
  BY DEF Schedule
<1> HIDE DEF q
<1>4. (q - since) * CsMs = CsMs * q - since * CsMs /\ CsMs * q \in Int /\ since * CsMs \in Int
  BY <1>1, <1>2
<1>5. remaining' \in Nat
  BY <1>1, <1>2, <1>3 DEF Larger
<1>6. ASSUME NEW ms \in Nat, ms <= delay
      PROVE  /\ Larger(0, ms - since * CsMs) \in Nat
             /\ Larger(0, ms - since * CsMs) <= remaining' * CsMs
  <2>0. ms - since * CsMs <= (q - since) * CsMs
    BY <1>1, <1>2, <1>4, <1>6
  <2>1. CASE q - since >= 0
    <3>1. remaining' = q - since /\ (q - since) * CsMs >= 0
      BY <1>1, <1>2, <1>3, <2>1 DEF Larger
    <3>2. QED
      BY <1>1, <1>2, <1>4, <2>0, <3>1 DEF Larger
  <2>2. CASE q - since < 0
    <3>1. remaining' = 0 /\ (q - since) * CsMs <= 0
      BY <1>1, <1>2, <1>3, <2>2 DEF Larger
    <3>2. QED
      BY <1>1, <1>2, <1>4, <2>0, <3>1 DEF Larger
  <2>3. QED
    BY <1>2, <2>1, <2>2
<1>7. QED
  BY <1>5, <1>6

\* What the server asked for, after a deadline that covers it.
LEMMA OweCovered ==
    ASSUME NEW delay \in Nat, NEW ms \in Nat, elapsed \in Nat,
           Schedule(delay, elapsed), Owe(ms)
    PROVE  /\ owed' \in Nat /\ hurried' = FALSE
           /\ ms <= delay => ServerWishesKept'
<1>1. owed' = Larger(0, ms - elapsed * CsMs) /\ hurried' = FALSE
  BY DEF Owe
<1>2. ms - elapsed * CsMs \in Int
  BY DelayAssumption
<1>3. owed' \in Nat
  BY <1>1, <1>2 DEF Larger
<1>4. ms <= delay => owed' <= remaining' * CsMs
  BY <1>1, ScheduleCovers
<1>5. QED
  BY <1>1, <1>3, <1>4 DEF ServerWishesKept

Published ==
    [available : BOOLEAN, stale : BOOLEAN, failures : 0..MaxFailures,
     refresh_in_ms : 0..MaxDelayMs, data : Data]

\* The delay that a failure in a row must at least publish.
Doubled == Smaller(source_config.retry_min_ms * PowerOfTwo[failures],
                   source_config.retry_max_ms)

\* What fail leaves.
LEMMA FailDelays ==
    ASSUME TypeOK, NEW headers \in Headers, NEW since \in Nat, Fail(headers, since)
    PROVE  /\ remaining' \in Nat
           /\ failures' \in 0..MaxFailures /\ failures' > failures
           /\ published' \in Published
           /\ published'.refresh_in_ms >= Doubled
           /\ UNCHANGED <<etag, succeeded, unasked>>
<1> DEFINE delay == FailureDelay(headers, failures + 1)
<1>1. /\ failures \in Nat /\ failures' = failures + 1 /\ failures' \in 0..MaxFailures
      /\ source_config \in Config
  BY SizeAssumption DEF Fail, TypeOK
<1>2. delay \in 0..MaxDelayMs /\ delay >= Doubled
  BY <1>1, FailureDelayBounds DEF Doubled
<1>3. /\ Schedule(delay, since)
      /\ published' = [published EXCEPT !.stale = succeeded, !.failures = failures + 1,
                                        !.refresh_in_ms = delay]
      /\ UNCHANGED <<etag, succeeded, unasked>>
  BY DEF Fail, FailurePatch
<1> HIDE DEF delay
<1>4. remaining' \in Nat
  <2>1. delay \in Nat
    BY <1>2, DelayAssumption
  <2>2. QED
    BY <1>3, <2>1, ScheduleCovers
<1>5. published' \in Published /\ published'.refresh_in_ms = delay
  <2>1. succeeded \in BOOLEAN /\ failures + 1 \in 0..MaxFailures
    BY <1>1 DEF TypeOK
  <2> HIDE DEF Data
  <2>2. QED
    BY <1>2, <1>3, <2>1 DEF TypeOK, Published
<1>6. QED
  BY <1>1, <1>2, <1>3, <1>4, <1>5

\* fail after an answer of the server.
LEMMA FailResponseDelays ==
    ASSUME TypeOK, NEW headers \in Headers, FailResponse(headers)
    PROVE  /\ owed' \in Nat /\ hurried' = FALSE
           /\ NothingWraps => ServerWishesKept'
<1> DEFINE delay == FailureDelay(headers, failures + 1)
           ms == Larger(Asked(headers.retry_after), Asked(headers.reset))
<1>1. failures \in Nat /\ source_config \in Config /\ elapsed \in Nat
  BY SizeAssumption DEF TypeOK
<1>2. delay \in 0..MaxDelayMs /\ (NothingWraps => delay >= ms)
  BY <1>1, FailureDelayBounds
<1>3. ms \in Nat
  <2>1. headers.retry_after \in HeaderValue /\ headers.reset \in HeaderValue
    BY DEF Headers, HeaderValue
  <2>2. Asked(headers.retry_after) \in Nat /\ Asked(headers.reset) \in Nat
    BY <2>1, AskedBounds, DelayAssumption
  <2>3. QED
    BY <2>2 DEF Larger
<1>4. Schedule(delay, elapsed) /\ Owe(ms)
  BY DEF FailResponse, Fail
<1> HIDE DEF delay, ms
<1>5. delay \in Nat
  BY <1>2, DelayAssumption
<1>6. QED
  BY <1>1, <1>2, <1>3, <1>4, <1>5, OweCovered

\* What a success leaves.
LEMMA SucceedDelays ==
    ASSUME TypeOK, NEW headers \in Headers, NEW data \in Data, Succeed(headers, data)
    PROVE  /\ remaining' \in Nat
           /\ failures' = 0 /\ succeeded' = TRUE
           /\ published' \in Published
           /\ owed' \in Nat /\ hurried' = FALSE
           /\ NothingWraps => ServerWishesKept'
<1> DEFINE delay == SuccessDelay(headers)
           ms == Asked(headers.poll_interval)
<1>1. /\ failures' = 0 /\ succeeded' = TRUE
      /\ Schedule(delay, elapsed) /\ Owe(ms)
      /\ published' = [available |-> TRUE, stale |-> FALSE, failures |-> 0,
                       refresh_in_ms |-> delay, data |-> data]
  BY DEF Succeed
<1>2. delay \in 0..MaxDelayMs /\ (NothingWraps => delay >= ms)
  BY SuccessDelayBounds DEF TypeOK
<1>3. ms \in Nat
  <2>1. headers.poll_interval \in HeaderValue
    BY DEF Headers, HeaderValue
  <2>2. QED
    BY <2>1, AskedBounds, DelayAssumption
<1>4. elapsed \in Nat /\ delay \in Nat
  BY <1>2, DelayAssumption DEF TypeOK
<1> HIDE DEF delay, ms
<1>5. remaining' \in Nat
  BY <1>1, <1>4, ScheduleCovers
<1>6. owed' \in Nat /\ hurried' = FALSE /\ (NothingWraps => ServerWishesKept')
  BY <1>1, <1>2, <1>3, <1>4, OweCovered
<1>7. published' \in Published
  <2>1. 0 \in 0..MaxFailures
    BY SizeAssumption
  <2> HIDE DEF Data
  <2>2. QED
    BY <1>1, <1>2, <2>1 DEF Published
<1>8. QED
  BY <1>1, <1>5, <1>6, <1>7

\* The types, and that the deadline has come while a request is under way.
Types == TypeOK /\ (requesting => remaining = 0)

LEMMA TypesInit == Init => Types
<1> SUFFICES ASSUME Init PROVE Types
  OBVIOUS
<1>1. 1 \in Version /\ 0 \in 0..MaxFailures /\ 0 \in 0..MaxDelayMs
  BY SizeAssumption, DelayAssumption DEF Version
<1>2. published \in Published
  <2>1. NoData \in Data
    BY DEF Data
  <2> HIDE DEF Data
  <2>2. QED
    BY <1>1, <2>1 DEF Init, Published
<1>3. QED
  BY <1>1, <1>2 DEF Init, Types, TypeOK, Published

\* Every step keeps the types, publishes a growing delay when it counts a
\* failure, and keeps what the server asked for if nothing wraps.
LEMMA DelaysStep ==
    ASSUME Types, [Next]_vars
    PROVE  /\ Types'
           /\ failures' > failures => published'.refresh_in_ms >= Doubled
           /\ NothingWraps /\ ServerWishesKept => ServerWishesKept'
<1> USE DEF Types, serviceVars
<1>0. /\ elapsed \in Nat /\ remaining \in Nat /\ owed \in Nat /\ failures \in Nat
      /\ CsMs \in Nat /\ CsMs > 0 /\ source_config \in Config
  BY SizeAssumption, DelayAssumption DEF TypeOK
<1>n. NoHeaders \in Headers
  BY DEF NoHeaders, Headers, HeaderValue
<1>p. ServerWishesKept /\ remaining = 0 => owed = 0 \/ hurried
  BY <1>0 DEF ServerWishesKept
<1>q. ASSUME remaining = 0, remaining' \in Nat, UNCHANGED <<owed, hurried>>
      PROVE  ServerWishesKept => ServerWishesKept'
  <2>1. remaining' * CsMs \in Nat
    BY <1>0, <1>q, NaturalProduct
  <2>2. CASE owed = 0
    <3>1. owed' <= remaining' * CsMs
      BY <1>q, <2>1, <2>2
    <3>2. QED
      BY <3>1 DEF ServerWishesKept
  <2>3. CASE hurried
    BY <1>q, <2>3 DEF ServerWishesKept
  <2>4. QED
    BY <1>p, <1>q, <2>2, <2>3
<1>u. ASSUME UNCHANGED <<remaining, owed, hurried>>
      PROVE  ServerWishesKept => ServerWishesKept'
  BY <1>u DEF ServerWishesKept
<1>1. CASE BeginRequest
  <2>1. Types' /\ UNCHANGED <<remaining, owed, hurried, failures>>
    BY <1>0, <1>1 DEF BeginRequest, TypeOK
  <2>2. QED
    BY <1>0, <1>u, <2>1
<1>2. CASE TokenMissing
  <2>1. /\ Fail(NoHeaders, 0) /\ remaining = 0 /\ ~requesting
        /\ UNCHANGED <<kind, source_config, requesting, elapsed, version, outage,
                       owed, hurried>>
    BY <1>2 DEF TokenMissing
  <2>2. /\ remaining' \in Nat
        /\ failures' \in 0..MaxFailures /\ failures' > failures
        /\ published' \in Published
        /\ published'.refresh_in_ms >= Doubled
        /\ UNCHANGED <<etag, succeeded, unasked>>
    BY <1>n, <2>1, FailDelays
  <2>3. Types'
    BY <2>1, <2>2 DEF TypeOK, Published
  <2>4. QED
    BY <1>q, <2>1, <2>2, <2>3
<1>3. ASSUME NEW headers \in Headers, Fail(headers, elapsed), EndRequest,
             owed' \in Nat, hurried' \in BOOLEAN
      PROVE  Types' /\ remaining' \in Nat /\ published'.refresh_in_ms >= Doubled
  <2>1. /\ UNCHANGED <<kind, source_config, version, outage>>
        /\ requesting' = FALSE /\ elapsed' = 0
    BY <1>3 DEF EndRequest
  <2>2. /\ remaining' \in Nat
        /\ failures' \in 0..MaxFailures /\ failures' > failures
        /\ published' \in Published
        /\ published'.refresh_in_ms >= Doubled
        /\ UNCHANGED <<etag, succeeded, unasked>>
    BY <1>0, <1>3, FailDelays
  <2>3. QED
    BY <1>3, <2>1, <2>2 DEF TypeOK, Published
<1>4. ASSUME NEW headers \in Headers, NEW data \in Data, Succeed(headers, data), EndRequest,
             etag' \in Version \cup {None}, unasked' \in BOOLEAN
      PROVE  /\ Types'
             /\ ~(failures' > failures)
             /\ NothingWraps => ServerWishesKept'
  <2>1. /\ UNCHANGED <<kind, source_config, version, outage>>
        /\ requesting' = FALSE /\ elapsed' = 0
    BY <1>4 DEF EndRequest
  <2>2. 0 \in 0..MaxFailures
    BY SizeAssumption
  <2>3. /\ remaining' \in Nat
        /\ failures' = 0 /\ succeeded' = TRUE
        /\ published' \in Published
        /\ owed' \in Nat /\ hurried' = FALSE
        /\ NothingWraps => ServerWishesKept'
    BY <1>4, SucceedDelays
  <2>4. Types'
    BY <1>4, <2>1, <2>2, <2>3 DEF TypeOK, Published
  <2>5. ~(failures' > failures)
    BY <1>0, <2>3
  <2>6. QED
    BY <2>3, <2>4, <2>5
<1>5. CASE RequestFails
  <2>1. /\ Fail(NoHeaders, elapsed) /\ EndRequest /\ UNCHANGED <<owed, hurried>>
        /\ requesting /\ remaining = 0
    BY <1>5 DEF RequestFails, EndRequest
  <2>2. owed' \in Nat /\ hurried' \in BOOLEAN
    BY <2>1 DEF TypeOK
  <2>3. Types' /\ remaining' \in Nat /\ published'.refresh_in_ms >= Doubled
    BY <1>3, <1>n, <2>1, <2>2
  <2>4. QED
    BY <1>q, <2>1, <2>3
<1>r. ASSUME NEW headers \in Headers, FailResponse(headers), EndRequest
      PROVE  /\ Types' /\ published'.refresh_in_ms >= Doubled
             /\ NothingWraps => ServerWishesKept'
  <2>1. owed' \in Nat /\ hurried' = FALSE /\ (NothingWraps => ServerWishesKept')
    BY <1>r, FailResponseDelays
  <2>2. Fail(headers, elapsed)
    BY <1>r DEF FailResponse
  <2>3. QED
    BY <1>3, <1>r, <2>1, <2>2
<1>s. CASE ResponseRefused
  BY <1>r, <1>s DEF ResponseRefused
<1>6. CASE ResponseOk
  <2> DEFINE t == source_config.target
             data == ParseGithub(t, version[t])
  <2>1. PICK headers \in Headers : Succeed(headers, data)
    BY <1>6 DEF ResponseOk
  <2>2. t \in Target /\ version[t] \in Version /\ source_config.max_items \in Nat
    BY <1>0, ConfigFields DEF TypeOK
  <2>3. etag' \in Version \cup {None} /\ unasked' = FALSE /\ EndRequest
    BY <1>6, <2>2 DEF ResponseOk
  <2>4. data \in Data
    <3>1. Length[version[t]] \in Nat
      BY <2>2, SizeAssumption DEF Version
    <3>2. Smaller(Length[version[t]], source_config.max_items) \in Nat
      BY <2>2, <3>1 DEF Smaller
    <3>3. QED
      BY <2>2, <3>2 DEF ParseGithub, Data
  <2> HIDE DEF data
  <2>5. QED
    BY <1>4, <2>1, <2>3, <2>4
<1>7. CASE NotModified
  <2>1. EndRequest
    BY <1>7 DEF NotModified
  <2>2. CASE HasSnapshot
    <3>1. PICK headers \in Headers : Succeed(headers, published.data)
      BY <1>7, <2>2 DEF NotModified
    <3>2. unasked' = (etag = None) /\ etag' = etag
      BY <1>7, <2>2 DEF NotModified
    <3>3. unasked' \in BOOLEAN /\ etag' \in Version \cup {None}
      BY <3>2 DEF TypeOK
    <3>4. published.data \in Data
      BY DEF TypeOK
    <3>5. QED
      BY <1>4, <2>1, <3>1, <3>3, <3>4
  <2>3. CASE ~HasSnapshot
    BY <1>7, <1>r, <2>1, <2>3 DEF NotModified
  <2>4. QED
    BY <2>2, <2>3
<1>h. ASSUME Hurry, UNCHANGED owed
      PROVE  remaining' = 0 /\ hurried' \in BOOLEAN /\ ServerWishesKept'
  <2>1. remaining' = 0 /\ hurried' = (owed > 0) /\ owed' = owed
    BY <1>h DEF Hurry
  <2>2. CASE owed > 0
    BY <2>1, <2>2 DEF ServerWishesKept
  <2>3. CASE owed = 0
    BY <1>0, <2>1, <2>3 DEF ServerWishesKept
  <2>4. QED
    BY <1>0, <2>1, <2>2, <2>3
<1>8. CASE Reload
  <2>1. /\ source_config' \in Config
        /\ etag' \in {etag, None}
        /\ Hurry
        /\ UNCHANGED <<kind, failures, succeeded, requesting, elapsed, published,
                       version, outage, owed, unasked>>
    BY <1>8 DEF Reload, KeptEtag
  <2>2. Types'
    BY <1>h, <2>1 DEF TypeOK
  <2>3. QED
    BY <1>0, <1>h, <2>1, <2>2
<1>9. CASE WaitFails
  <2>1. /\ Hurry
        /\ UNCHANGED <<kind, source_config, etag, failures, succeeded, requesting,
                       elapsed, published, version, outage, owed, unasked>>
    BY <1>9 DEF WaitFails
  <2>2. Types'
    BY <1>h, <2>1 DEF TypeOK
  <2>3. QED
    BY <1>0, <1>h, <2>1, <2>2
<1>10. CASE Tick
  <2>1. /\ elapsed' = IF requesting THEN elapsed + 1 ELSE 0
        /\ remaining' = Larger(0, remaining - 1)
        /\ owed' = Larger(0, owed - CsMs)
        /\ hurried' = (hurried /\ owed > CsMs)
        /\ UNCHANGED <<kind, source_config, etag, failures, succeeded, requesting,
                       published, version, outage, unasked>>
    BY <1>10 DEF Tick
  <2>2. /\ elapsed' \in Nat /\ remaining' \in Nat /\ owed' \in Nat
        /\ remaining = 0 => remaining' = 0
    BY <1>0, <2>1 DEF Larger
  <2>3. hurried' \in BOOLEAN
    BY <2>1 DEF TypeOK
  <2>4. Types'
    BY <2>1, <2>2, <2>3 DEF TypeOK
  <2>5. ASSUME owed <= remaining * CsMs
        PROVE  owed' <= remaining' * CsMs
    <3>1. CASE remaining = 0
      BY <1>0, <2>1, <2>5, <3>1 DEF Larger
    <3>2. CASE remaining > 0
      <4>1. remaining' = remaining - 1
        BY <1>0, <2>1, <3>2 DEF Larger
      <4>2. (remaining - 1) * CsMs = remaining * CsMs - CsMs /\ (remaining - 1) * CsMs >= 0
        BY <1>0, <3>2
      <4>3. remaining * CsMs \in Int
        BY <1>0
      <4>4. QED
        BY <1>0, <2>1, <2>5, <4>1, <4>2, <4>3 DEF Larger
    <3>3. QED
      BY <1>0, <3>1, <3>2
  <2>6. ASSUME hurried
        PROVE  hurried' \/ owed' <= remaining' * CsMs
    <3>1. CASE owed > CsMs
      BY <2>1, <2>6, <3>1
    <3>2. CASE owed <= CsMs
      <4>1. owed' = 0
        BY <1>0, <2>1, <3>2 DEF Larger
      <4>2. remaining' * CsMs \in Nat
        BY <1>0, <2>2, NaturalProduct
      <4>3. QED
        BY <4>1, <4>2
    <3>3. QED
      BY <1>0, <3>1, <3>2
  <2>7. ServerWishesKept => ServerWishesKept'
    BY <2>5, <2>6 DEF ServerWishesKept
  <2>8. QED
    BY <1>0, <2>1, <2>4, <2>7
<1>11. ASSUME NEW t \in Target, ListChanges(t)
       PROVE  Types' /\ UNCHANGED <<remaining, owed, hurried, failures>>
  <2>1. version' \in [Target -> Version]
    BY <1>11, SizeAssumption DEF ListChanges, TypeOK, Version
  <2>2. QED
    BY <1>11, <2>1 DEF ListChanges, TypeOK
<1>12. CASE OutageEnds
  <2>1. Types' /\ UNCHANGED <<remaining, owed, hurried, failures>>
    BY <1>12 DEF OutageEnds, TypeOK
  <2>2. QED
    BY <1>0, <1>u, <2>1
<1>13. CASE UNCHANGED vars
  <2>1. Types' /\ UNCHANGED <<remaining, owed, hurried, failures>>
    BY <1>13 DEF vars, TypeOK
  <2>2. QED
    BY <1>0, <1>u, <2>1
<1>14. CASE \E t \in Target : ListChanges(t)
  <2>1. Types' /\ UNCHANGED <<remaining, owed, hurried, failures>>
    BY <1>11, <1>14
  <2>2. QED
    BY <1>0, <1>u, <2>1
<1>15. QED
  BY <1>1, <1>2, <1>5, <1>s, <1>6, <1>7, <1>8, <1>9, <1>10, <1>12, <1>13, <1>14
  DEF Next, EndsRequest

\* refresh, fail, schedule and S.reload keep every variable in its type, and
\* every published delay within MAX_METADATA_DELAY_MS, whatever a header says.
THEOREM TypeCorrect == Spec => []TypeOK
<1>1. Types => TypeOK
  BY DEF Types
<1>2. Types /\ [Next]_vars => Types'
  BY DelaysStep
<1>3. QED
  BY <1>1, <1>2, TypesInit, PTL DEF Spec

\* failure_delay, success_delay and schedule: if the seconds in the servers'
\* headers fit an integer as milliseconds, the deadline never comes before
\* what Retry-After, the rate limit or X-Poll-Interval asked for, for any
\* length of the request and any configurations, unless S.reload or a failing
\* wait set it to the present.
THEOREM WishesAreKept == NothingWraps => (Spec => []ServerWishesKept)
<1> SUFFICES ASSUME NothingWraps PROVE Spec => []ServerWishesKept
  OBVIOUS
<1> DEFINE Inv2 == Types /\ ServerWishesKept
<1>1. Init => Inv2
  <2>1. Init => ServerWishesKept
    BY DelayAssumption DEF Init, ServerWishesKept
  <2>2. QED
    BY <2>1, TypesInit
<1>2. Inv2 /\ [Next]_vars => Inv2'
  BY DelaysStep
<1>3. Inv2 => ServerWishesKept
  OBVIOUS
<1>4. QED
  BY <1>1, <1>2, <1>3, PTL DEF Spec

\* exponential_delay after any number of failures in a row, counted under any
\* configurations: the delay that is published is at least the minimum of the
\* present one doubled as many times, up to its maximum.
THEOREM BackoffKeepsGrowing == Spec => BackoffGrows
<1>1. Types /\ [Next]_vars => Types'
  BY DelaysStep
<1>2. Types /\ [Next]_vars =>
        [failures' > failures =>
           published'.refresh_in_ms >=
             Smaller(source_config.retry_min_ms * PowerOfTwo[failures],
                     source_config.retry_max_ms)]_vars
  BY DelaysStep DEF Doubled
<1>3. QED
  BY <1>1, <1>2, TypesInit, PTL DEF Spec, BackoffGrows
=============================================================================
