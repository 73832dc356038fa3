-------------------------- MODULE AlgorithmsProofs --------------------------
(***************************************************************************)
(* The properties of Algorithms for inputs of any size.  Each is a theorem *)
(* about one call, so the induction over the steps is trivial; what there  *)
(* is to prove is what the operators compute.                              *)
(***************************************************************************)
EXTENDS Algorithms, DeltaCodecProofs, FiniteSetTheorems

-----------------------------------------------------------------------------
(* Recursive functions on the naturals. *)

\* A property of 0 that each number hands on to the next holds for all; the
\* numbers that have it are given as a set.
LEMMA AllNats ==
  ASSUME NEW S, 0 \in S, \A n \in Nat : n \in S => n + 1 \in S
  PROVE  \A n \in Nat : n \in S
  <1> DEFINE T == {n \in Nat : n \notin S}
             m == Least(T)
  <1>1. ASSUME T # {} PROVE FALSE
    <2>1. m \in T /\ \A j \in T : m <= j
      BY <1>1, LeastOfNats
    <2> HIDE DEF m
    <2>2. m \in Nat /\ m # 0
      BY <2>1
    <2>3. m - 1 \in Nat /\ ~(m <= m - 1) /\ (m - 1) + 1 = m
      BY <2>2
    <2>4. m - 1 \in S
      BY <2>1, <2>3
    <2> QED
      BY <2>1, <2>3, <2>4
  <1> QED
    BY <1>1

\* A first value and a step from each value to the next define a sequence.
Iteration(S, a, step) ==
  CHOOSE f \in [Nat -> S] : f[0] = a /\ \A n \in Nat : f[n + 1] = step[f[n]]

LEMMA Iterates ==
  ASSUME NEW S, NEW a \in S, NEW step \in [S -> S]
  PROVE  /\ Iteration(S, a, step) \in [Nat -> S]
         /\ Iteration(S, a, step)[0] = a
         /\ \A n \in Nat : Iteration(S, a, step)[n + 1] = step[Iteration(S, a, step)[n]]
  <1> DEFINE Starts(n, g) == /\ g \in [0..n -> S] /\ g[0] = a
                             /\ \A i \in 0..n - 1 : g[i + 1] = step[g[i]]
             Some == {n \in Nat : \E g : Starts(n, g)}
             part == [n \in Nat |-> CHOOSE g : Starts(n, g)]
             f == [n \in Nat |-> part[n][n]]
  <1>1. \A n \in Nat : n \in Some
    <2>1. 0 \in Some
      <3>1. Starts(0, [i \in 0..0 |-> a])
        OBVIOUS
      <3> QED
        BY <3>1
    <2>2. ASSUME NEW n \in Nat, n \in Some PROVE n + 1 \in Some
      <3>1. PICK g : Starts(n, g)
        BY <2>2
      <3> DEFINE h == [i \in 0..n + 1 |-> IF i <= n THEN g[i] ELSE step[g[n]]]
      <3>2. h \in [0..n + 1 -> S]
        BY <3>1
      <3>3. h[0] = a
        BY <3>1
      <3>4. ASSUME NEW i \in 0..(n + 1) - 1 PROVE h[i + 1] = step[h[i]]
        BY <3>1
      <3>5. Starts(n + 1, h)
        BY <3>2, <3>3, <3>4
      <3> QED
        BY <3>5
    <2> HIDE DEF Some
    <2> QED
      BY <2>1, <2>2, AllNats
  <1>2. \A n \in Nat : Starts(n, part[n])
    BY <1>1
  <1> HIDE DEF part
  <1>3. \A m \in Nat : \A n \in Nat : m <= n => part[n][m] = part[m][m]
    <2> DEFINE Same == {m \in Nat : \A n \in Nat : m <= n => part[n][m] = part[m][m]}
    <2>1. 0 \in Same
      BY <1>2
    <2>2. ASSUME NEW m \in Nat, m \in Same PROVE m + 1 \in Same
      <3>1. ASSUME NEW n \in Nat, m + 1 <= n
            PROVE  part[n][m + 1] = part[m + 1][m + 1]
        <4>1. m <= n /\ m <= m + 1 /\ m + 1 \in Nat
          BY <3>1
        <4>2. part[n][m] = part[m][m] /\ part[m + 1][m] = part[m][m]
          BY <4>1, <2>2
        <4>3. m \in 0..n - 1 /\ m \in 0..(m + 1) - 1
          BY <3>1
        <4>4. part[n][m + 1] = step[part[n][m]]
          BY <4>3, <1>2
        <4>5. part[m + 1][m + 1] = step[part[m + 1][m]]
          BY <4>1, <4>3, <1>2
        <4> QED
          BY <4>2, <4>4, <4>5
      <3> QED
        BY <3>1
    <2> HIDE DEF Same
    <2>3. \A m \in Nat : m \in Same
      BY <2>1, <2>2, AllNats
    <2> QED
      BY <2>3 DEF Same
  <1>4. f \in [Nat -> S] /\ f[0] = a
    BY <1>2
  <1>5. ASSUME NEW n \in Nat PROVE f[n + 1] = step[f[n]]
    <2>1. part[n + 1][n + 1] = step[part[n + 1][n]]
      BY <1>2
    <2>2. part[n + 1][n] = part[n][n]
      BY <1>3
    <2> QED
      BY <2>1, <2>2
  <1> HIDE DEF f
  <1> QED
    BY <1>4, <1>5 DEF Iteration

\* Pieces of any length that start alike and go on alike are one sequence.
LEMMA Glued ==
  ASSUME NEW part, NEW step,
         \A n \in Nat : /\ part[n][0] = part[0][0]
                        /\ \A i \in 0..n - 1 : part[n][i + 1] = step[<<i, part[n][i]>>]
  PROVE  /\ \A n \in Nat : part[n + 1][n + 1] = step[<<n, part[n][n]>>]
         /\ \A n \in Nat : part[n + 1][n] = part[n][n]
  <1> DEFINE Same == {m \in Nat : \A n \in Nat : m <= n => part[n][m] = part[m][m]}
  <1>1. 0 \in Same
    OBVIOUS
  <1>2. ASSUME NEW m \in Nat, m \in Same PROVE m + 1 \in Same
    <2>1. ASSUME NEW n \in Nat, m + 1 <= n
          PROVE  part[n][m + 1] = part[m + 1][m + 1]
      <3>1. m <= n /\ m <= m + 1 /\ m + 1 \in Nat
        BY <2>1
      <3>2. part[n][m] = part[m][m] /\ part[m + 1][m] = part[m][m]
        BY <3>1, <1>2
      <3>3. m \in 0..n - 1 /\ m \in 0..(m + 1) - 1
        BY <2>1
      <3>4. part[n][m + 1] = step[<<m, part[n][m]>>]
        BY <3>3
      <3>5. part[m + 1][m + 1] = step[<<m, part[m + 1][m]>>]
        BY <3>1, <3>3
      <3> QED
        BY <3>2, <3>4, <3>5
    <2> QED
      BY <2>1
  <1> HIDE DEF Same
  <1>3. \A m \in Nat : m \in Same
    BY <1>1, <1>2, AllNats
  <1>4. \A n \in Nat : part[n + 1][n] = part[n][n]
    <2> TAKE n \in Nat
    <2>1. n \in Same /\ n + 1 \in Nat /\ n <= n + 1
      BY <1>3
    <2> QED
      BY <2>1 DEF Same
  <1>5. ASSUME NEW n \in Nat PROVE part[n + 1][n + 1] = step[<<n, part[n][n]>>]
    <2>1. n + 1 \in Nat /\ n \in 0..(n + 1) - 1
      OBVIOUS
    <2>2. part[n + 1][n + 1] = step[<<n, part[n + 1][n]>>]
      BY <2>1
    <2> QED
      BY <1>4, <2>2
  <1> QED
    BY <1>4, <1>5

-----------------------------------------------------------------------------
(* Integers of a width. *)

LEMMA TwoToIs ==
  /\ TwoTo \in [Nat -> Nat]
  /\ TwoTo[0] = 1
  /\ \A n \in Nat : TwoTo[n + 1] = 2 * TwoTo[n]
  <1> DEFINE step == [x \in Nat |-> 2 * x]
             IsIt(g) == g = [n \in Nat |-> IF n = 0 THEN 1 ELSE 2 * g[n - 1]]
  <1>1. 1 \in Nat /\ step \in [Nat -> Nat]
    OBVIOUS
  <1> HIDE DEF step, IsIt
  <1> DEFINE values == Nat
             first == 1
             f == Iteration(values, first, step)
  <1> HIDE DEF values, first
  <1>2. f \in [Nat -> Nat] /\ f[0] = 1 /\ \A n \in Nat : f[n + 1] = step[f[n]]
    <2>1. first \in values /\ step \in [values -> values]
      BY <1>1 DEF values, first
    <2>2. f \in [Nat -> values] /\ f[0] = first
      BY <2>1, Iterates
    <2>3. ASSUME NEW n \in Nat PROVE f[n + 1] = step[f[n]]
      BY <2>1, Iterates
    <2> QED
      BY <2>2, <2>3 DEF values, first
  <1> HIDE DEF f
  <1>3. \A n \in Nat : f[n + 1] = 2 * f[n]
    BY <1>2 DEF step
  <1>4. ASSUME NEW n \in Nat PROVE f[n] = IF n = 0 THEN 1 ELSE 2 * f[n - 1]
    <2>1. CASE n = 0
      BY <2>1, <1>2
    <2>2. CASE n # 0
      <3>1. n - 1 \in Nat /\ (n - 1) + 1 = n
        BY <2>2
      <3> QED
        BY <3>1, <1>3, <2>2
    <2> QED
      BY <2>1, <2>2
  <1>5. IsIt(f)
    BY <1>2, <1>4 DEF IsIt
  <1>6. IsIt(TwoTo)
    <2>1. TwoTo = CHOOSE g : IsIt(g)
      BY DEF TwoTo, IsIt
    <2> QED
      BY <2>1, <1>5
  <1>7. \A n \in Nat : TwoTo[n] = IF n = 0 THEN 1 ELSE 2 * TwoTo[n - 1]
    <2>1. TwoTo = [n \in Nat |-> IF n = 0 THEN 1 ELSE 2 * TwoTo[n - 1]]
      BY <1>6 DEF IsIt
    <2> QED
      BY <2>1
  <1>8. \A n \in Nat : TwoTo[n + 1] = 2 * TwoTo[n]
    BY <1>7
  <1> DEFINE Typed == {n \in Nat : TwoTo[n] \in Nat}
  <1>9. \A n \in Nat : n \in Typed
    <2>1. 0 \in Typed
      BY <1>7
    <2>2. ASSUME NEW n \in Nat, n \in Typed PROVE n + 1 \in Typed
      BY <2>2, <1>8
    <2> HIDE DEF Typed
    <2> QED
      BY <2>1, <2>2, AllNats
  <1> QED
    BY <1>6, <1>7, <1>8, <1>9 DEF IsIt

LEMMA TwoToGrows ==
  ASSUME NEW m \in Nat, NEW n \in Nat, m <= n
  PROVE  TwoTo[m] >= 1 /\ TwoTo[m] <= TwoTo[n]
  <1> DEFINE P == {k \in Nat : TwoTo[k] >= 1}
             G == {k \in Nat : m <= k => TwoTo[m] <= TwoTo[k]}
  <1>1. TwoTo \in [Nat -> Nat] /\ TwoTo[0] = 1 /\ \A k \in Nat : TwoTo[k + 1] = 2 * TwoTo[k]
    BY TwoToIs
  <1>2. \A k \in Nat : k \in P
    <2>1. 0 \in P
      BY <1>1
    <2>2. ASSUME NEW k \in Nat, k \in P PROVE k + 1 \in P
      BY <1>1, <2>2
    <2> HIDE DEF P
    <2> QED
      BY <2>1, <2>2, AllNats
  <1>3. \A k \in Nat : k \in G
    <2>1. 0 \in G
      BY <1>1
    <2>2. ASSUME NEW k \in Nat, k \in G PROVE k + 1 \in G
      <3>1. TwoTo[k + 1] = 2 * TwoTo[k] /\ TwoTo[k] \in Nat /\ TwoTo[m] \in Nat
        BY <1>1
      <3>2. CASE m <= k
        BY <3>1, <3>2, <2>2
      <3>3. CASE ~(m <= k)
        <4>1. m <= k + 1 => m = k + 1
          BY <3>3
        <4> QED
          BY <4>1, <3>1
      <3> QED
        BY <3>2, <3>3
    <2> HIDE DEF G
    <2> QED
      BY <2>1, <2>2, AllNats
  <1> QED
    BY <1>2, <1>3

LEMMA Remainder ==
  ASSUME NEW n \in Nat, NEW m \in Nat, n < m
  PROVE  n % m = n
  OBVIOUS

\* Numbers up to half the range stay as they are.
LEMMA WrapIsId ==
  ASSUME NEW n \in Nat, NEW w \in Nat, 2 * n < TwoTo[w]
  PROVE  Wrap(n, w) = n
  <1>1. TwoTo[w] \in Nat
    BY TwoToIs
  <1>2. n % TwoTo[w] = n
    BY <1>1, Remainder
  <1> QED
    BY <1>2 DEF Wrap

\* Of the unsigned numbers only the one of all ones becomes -1.
LEMMA WrapIsMinusOne ==
  ASSUME NEW n \in Nat, NEW w \in Nat, n < TwoTo[w], Wrap(n, w) = -1
  PROVE  n = TwoTo[w] - 1
  <1>1. TwoTo[w] \in Nat
    BY TwoToIs
  <1>2. n % TwoTo[w] = n
    BY <1>1, Remainder
  <1> QED
    BY <1>1, <1>2 DEF Wrap

LEMMA WrapIsInt ==
  ASSUME NEW n \in Int, NEW w \in Nat PROVE Wrap(n, w) \in Int
  <1>1. w <= w
    OBVIOUS
  <1>2. TwoTo[w] \in Nat /\ TwoTo[w] >= 1
    BY <1>1, TwoToIs, TwoToGrows
  <1>3. n % TwoTo[w] \in Int
    BY <1>2
  <1> QED
    BY <1>2, <1>3 DEF Wrap

-----------------------------------------------------------------------------
(* What a step is. *)

\* A call can be told by its name, and only the call itself makes it.
LEMMA CallIs ==
  ASSUME [Next]_<<call, answer>>
  PROVE  \/ UNCHANGED <<call, answer>>
         \/ call'.api = "none"
         \/ call'.api = "delta" /\ MakeDelta
         \/ call'.api = "snapshot" /\ TakeSnapshot
         \/ call'.api = "proof" /\ ClaimFence
         \/ call'.api = "file" /\ CarryDelta
         \/ call'.api = "locate" /\ Locate
         \/ call'.api = "check" /\ CheckPoint
         \/ call'.api = "fence" /\ AskFence
         \/ call'.api = "area" /\ QueryArea
         \/ call'.api = "retry" /\ FetchRetrying
  <1>1. CASE UNCHANGED <<call, answer>>
    BY <1>1
  <1>2. CASE MakeDelta
    BY <1>2 DEF MakeDelta, Called
  <1>3. CASE TakeSnapshot
    BY <1>3 DEF TakeSnapshot, Called
  <1>4. CASE ClaimFence
    BY <1>4 DEF ClaimFence, Called
  <1>5. CASE CarryDelta
    BY <1>5 DEF CarryDelta, Called
  <1>6. CASE Locate
    BY <1>6 DEF Locate, Called
  <1>7. CASE CheckPoint
    BY <1>7 DEF CheckPoint, Called
  <1>8. CASE AskFence
    BY <1>8 DEF AskFence, Called
  <1>9. CASE QueryArea
    BY <1>9 DEF QueryArea, Called
  <1>10. CASE FetchRetrying
    BY <1>10 DEF FetchRetrying, Called
  <1>11. CASE Return
    BY <1>11 DEF Return, Idle
  <1> QED
    BY <1>1, <1>2, <1>3, <1>4, <1>5, <1>6, <1>7, <1>8, <1>9, <1>10, <1>11 DEF Next

-----------------------------------------------------------------------------
(* The retry loop. *)

\* Every wait is at most the cap.
LEMMA WaitIsCapped ==
  ASSUME NEW i \in Nat, NEW percent \in 0..100
  PROVE  Wait(i, percent) <= Cap
  <1> DEFINE base == BaseWait(i)
  <1>1. Width \in Nat /\ Second \in Nat /\ Cap \in Nat
    BY RetryAssumption
  <1>2. base \in Int
    <2>1. TwoTo[i] \in Int
      BY TwoToIs
    <2>2. Wrap(TwoTo[i], Width) \in Int
      BY <1>1, <2>1, WrapIsInt
    <2>3. Wrap(TwoTo[i], Width) * Second \in Int
      BY <1>1, <2>2
    <2>4. Wrap(Wrap(TwoTo[i], Width) * Second, Width) \in Int
      BY <1>1, <2>3, WrapIsInt
    <2> QED
      BY <2>4 DEF BaseWait
  <1> HIDE DEF base
  <1>3. Jitter(base, percent) \in Int
    <2>1. base * percent \in Int /\ -base * percent \in Int
      BY <1>2
    <2>2. (base * percent) \div 200 \in Int /\ (-base * percent) \div 200 \in Int
      BY <2>1
    <2> QED
      BY <2>2 DEF Jitter
  <1>4. base + Jitter(base, percent) \in Int
    BY <1>2, <1>3
  <1>5. Wrap(base + Jitter(base, percent), Width) \in Int
    BY <1>1, <1>4, WrapIsInt
  <1> QED
    BY <1>1, <1>5 DEF Wait, base

\* Half the wait at most is added to it.
LEMMA JitterIs ==
  ASSUME NEW base \in Nat, NEW percent \in 0..100
  PROVE  Jitter(base, percent) \in Nat /\ 2 * Jitter(base, percent) <= base
  <1> DEFINE x == base * percent
  <1>1. x \in Nat /\ x <= base * 100
    OBVIOUS
  <1> HIDE DEF x
  <1>2. x \div 200 \in Nat /\ 200 * (x \div 200) <= x
    BY <1>1
  <1> QED
    BY <1>1, <1>2 DEF Jitter, x

LEMMA Products ==
  ASSUME NEW a \in Nat, NEW b \in Nat, a >= 1, b >= 1
  PROVE  a * b \in Nat /\ a * b >= a /\ a * b >= b
  <1>1. (a - 1) * b >= 0 /\ a * (b - 1) >= 0
    OBVIOUS
  <1> QED
    BY <1>1

\* As long as nothing wraps around, the wait is a second or more.
LEMMA WaitLasts ==
  ASSUME NEW i \in Nat, NEW percent \in 0..100, InRange(i)
  PROVE  Wait(i, percent) >= Second
  <1> DEFINE t == TwoTo[i]
             base == t * Second
             jitter == Jitter(base, percent)
  <1>1. /\ Width \in Nat /\ Second \in Nat /\ Second >= 1
        /\ Cap \in Nat /\ Second <= Cap
    BY RetryAssumption
  <1>2. t \in Nat /\ t >= 1 /\ TwoTo[Width] \in Nat
    <2>1. i <= i
      OBVIOUS
    <2> QED
      BY <1>1, <2>1, TwoToIs, TwoToGrows
  <1>3. base \in Nat /\ base >= t /\ base >= Second
    BY <1>1, <1>2, Products
  <1>4. 3 * base < TwoTo[Width]
    BY DEF InRange
  <1>5. ~(i >= Width)
    <2>1. ASSUME i >= Width PROVE FALSE
      <3>1. TwoTo[Width] <= t
        BY <1>1, <2>1, TwoToGrows
      <3> QED
        BY <1>2, <1>3, <1>4, <3>1
    <2> QED
      BY <2>1
  <1> HIDE DEF t, base
  <1>6. 2 * t < TwoTo[Width] /\ 2 * base < TwoTo[Width]
    BY <1>2, <1>3, <1>4
  <1>7. BaseWait(i) = base
    <2>1. Wrap(t, Width) = t
      BY <1>1, <1>2, <1>6, WrapIsId
    <2>2. Wrap(base, Width) = base
      BY <1>1, <1>3, <1>6, WrapIsId
    <2> QED
      BY <1>5, <2>1, <2>2 DEF BaseWait, t, base
  <1>8. jitter \in Nat /\ 2 * jitter <= base
    BY <1>3, JitterIs
  <1> HIDE DEF jitter
  <1>9. base + jitter \in Nat /\ 2 * (base + jitter) < TwoTo[Width]
    BY <1>2, <1>3, <1>4, <1>8
  <1>10. Wrap(base + jitter, Width) = base + jitter
    BY <1>1, <1>9, WrapIsId
  <1> QED
    BY <1>1, <1>3, <1>7, <1>8, <1>10 DEF Wait, jitter

LEMMA LeastFetch ==
  ASSUME NEW last \in SUBSET Nat, last # {}
  PROVE  Min(last) \in last /\ \A n \in last : Min(last) <= n
  <1>1. Least(last) \in last /\ \A n \in last : Least(last) <= n
    BY LeastOfNats
  <1> QED
    BY <1>1 DEF Min

\* The loop of FetchManifestWithRetry, for any range of integers, any number of
\* retries, wherever it succeeds or is cancelled.
THEOREM RetryIsPaced == Spec => []RetryPaced
  <1>1. Init => RetryPaced
    BY DEF Init, Idle, RetryPaced
  <1>2. ASSUME FetchRetrying PROVE RetryPaced'
    <2>1. PICK run \in Retries :
            /\ call' = [api |-> "retry", run |-> run]
            /\ answer' = FetchManifestWithRetry(run)
      BY <1>2 DEF FetchRetrying, Called
    <2> DEFINE last == {n \in 1..run.maxRetries : Succeeds(run, n) \/ DoneAt(run, n)}
               fetches == answer'.fetches
    <2>2. /\ run.maxRetries \in Nat /\ run.cancelAt \in Nat /\ run.cancelAt >= 1
          /\ run.percent \in 0..100
      BY AlgorithmsAssumption DEF Retries
    <2>3. last \in SUBSET Nat /\ answer' = Ended(run, last)
      BY <2>1, <2>2 DEF FetchManifestWithRetry, Loop
    <2>4. last # {} => Min(last) \in last /\ \A n \in last : Min(last) <= n
      BY <2>3, LeastFetch
    <2>5. fetches = IF last = {} THEN run.maxRetries ELSE Min(last)
      BY <2>3 DEF Ended
    <2>6. fetches <= run.maxRetries /\ fetches \in Nat
      BY <2>2, <2>4, <2>5
    <2>7. ASSUME run.cancel # "never", ~(fetches <= run.cancelAt + 1)
          PROVE  FALSE
      <3>1. run.cancel \in {"fetch", "wait"}
        BY <2>7 DEF Retries
      <3>2. DoneAt(run, run.cancelAt + 1)
        BY <2>2, <3>1 DEF DoneAt
      <3>3. run.cancelAt + 1 \in last
        BY <2>2, <2>6, <2>7, <3>2
      <3> HIDE DEF last
      <3> QED
        BY <2>4, <2>5, <2>6, <2>7, <3>3
    <2>8. ASSUME NEW n \in DOMAIN answer'.waits
          PROVE  /\ answer'.waits[n] <= Cap
                 /\ InRange(n - 1) => answer'.waits[n] >= Second
      <3> HIDE DEF last
      <3>1. n \in Nat /\ n - 1 \in Nat
        BY <2>3, <2>5, <2>6 DEF Ended
      <3>2. answer'.waits[n] = Wait(n - 1, run.percent)
        BY <2>3 DEF Ended
      <3>3. Wait(n - 1, run.percent) <= Cap
        BY <2>2, <3>1, WaitIsCapped
      <3>4. InRange(n - 1) => Wait(n - 1, run.percent) >= Second
        BY <2>2, <3>1, WaitLasts
      <3> QED
        BY <3>2, <3>3, <3>4
    <2> QED
      BY <2>1, <2>6, <2>7, <2>8 DEF RetryPaced
  <1>3. RetryPaced /\ [Next]_<<call, answer>> => RetryPaced'
    BY <1>2, CallIs DEF RetryPaced
  <1> QED
    BY <1>1, <1>3, PTL DEF Spec

-----------------------------------------------------------------------------
(* Greatest and least elements. *)

\* Of finitely many integers one is the greatest.
LEMMA Greatest ==
  ASSUME NEW S, IsFiniteSet(S), S # {}, NEW f \in [S -> Int]
  PROVE  \E i \in S : \A j \in S : f[j] <= f[i]
  <1> DEFINE above(i) == {j \in S : f[j] > f[i]}
             counts == {Cardinality(above(i)) : i \in S}
  <1>1. \A i \in S : IsFiniteSet(above(i)) /\ Cardinality(above(i)) \in Nat
    <2> SUFFICES ASSUME NEW i \in S
                 PROVE  IsFiniteSet(above(i)) /\ Cardinality(above(i)) \in Nat
      OBVIOUS
    <2>1. IsFiniteSet(above(i))
      BY FS_Subset
    <2> QED
      BY <2>1, FS_CardinalityType
  <1>2. Least(counts) \in counts /\ \A n \in counts : Least(counts) <= n
    <2>1. counts \in SUBSET Nat /\ counts # {}
      BY <1>1
    <2> QED
      BY <2>1, LeastOfNats
  <1>3. PICK i \in S : Least(counts) = Cardinality(above(i))
    BY <1>2
  <1>4. ASSUME NEW j \in S, ~(f[j] <= f[i]) PROVE FALSE
    <2>1. f[j] > f[i]
      BY <1>4
    <2>2. above(j) \subseteq above(i) /\ j \in above(i) /\ j \notin above(j)
      BY <2>1
    <2>3. /\ Cardinality(above(j)) <= Cardinality(above(i))
          /\ Cardinality(above(j)) # Cardinality(above(i))
      <3> HIDE DEF above
      <3> QED
        BY <1>1, <2>2, FS_Subset
    <2>4. Cardinality(above(i)) <= Cardinality(above(j))
      BY <1>2, <1>3
    <2> QED
      BY <1>1, <2>3, <2>4
  <1> QED
    BY <1>4

LEMMA UpToIsFinite ==
  ASSUME NEW n \in Nat, n >= 1
  PROVE  IsFiniteSet(1..n) /\ 1..n # {}
  <1>1. 1 \in Int /\ n \in Int /\ 1 \in 1..n
    OBVIOUS
  <1>2. IsFiniteSet(1..n)
    BY <1>1, FS_Interval, Zenon
  <1> QED
    BY <1>1, <1>2

LEMMA MaxIs ==
  ASSUME NEW n \in Nat, n >= 1, NEW f \in [1..n -> Int],
         NEW V, V = {f[i] : i \in 1..n}
  PROVE  Max(V) \in V /\ \A i \in 1..n : f[i] <= Max(V)
  <1>1. IsFiniteSet(1..n) /\ 1..n # {}
    BY UpToIsFinite
  <1>2. PICK i \in 1..n : \A j \in 1..n : f[j] <= f[i]
    BY <1>1, Greatest
  <1>3. f[i] \in V /\ \A v \in V : f[i] >= v
    BY <1>2
  <1>4. Max(V) \in V /\ \A v \in V : Max(V) >= v
    BY <1>3 DEF Max
  <1> QED
    BY <1>4

LEMMA MinIs ==
  ASSUME NEW n \in Nat, n >= 1, NEW f \in [1..n -> Int],
         NEW V, V = {f[i] : i \in 1..n}
  PROVE  Min(V) \in V /\ \A i \in 1..n : Min(V) <= f[i]
  <1> DEFINE g == [i \in 1..n |-> -f[i]]
  <1>1. IsFiniteSet(1..n) /\ 1..n # {} /\ g \in [1..n -> Int]
    BY UpToIsFinite
  <1>2. PICK i \in 1..n : \A j \in 1..n : g[j] <= g[i]
    <2> HIDE DEF g
    <2> QED
      BY <1>1, Greatest
  <1>3. \A j \in 1..n : f[i] <= f[j]
    BY <1>2
  <1>4. f[i] \in V /\ \A v \in V : f[i] <= v
    BY <1>3
  <1>5. Min(V) \in V /\ \A v \in V : Min(V) <= v
    BY <1>4 DEF Min
  <1> QED
    BY <1>5

-----------------------------------------------------------------------------
(* The area query. *)

LEMMA PolygonBounds ==
  ASSUME NEW polygon \in Seq(Points), Len(polygon) >= 1
  PROVE  LET b == BoundsFromPoints(polygon) IN
         /\ b \in BoundingBox
         /\ \A i \in 1..Len(polygon) :
              /\ b.minLat <= polygon[i].lat /\ polygon[i].lat <= b.maxLat
              /\ b.minLon <= polygon[i].lon /\ polygon[i].lon <= b.maxLon
  <1> DEFINE n == Len(polygon)
             lat == [i \in 1..n |-> polygon[i].lat]
             lon == [i \in 1..n |-> polygon[i].lon]
             lats == {lat[i] : i \in 1..n}
             lons == {lon[i] : i \in 1..n}
  <1>1. n \in Nat /\ n >= 1 /\ \A i \in 1..n : polygon[i] \in Points
    OBVIOUS
  <1>2. lat \in [1..n -> Int] /\ lon \in [1..n -> Int]
    BY <1>1 DEF Points
  <1>3. /\ \A i \in 1..n : lat[i] = polygon[i].lat
        /\ \A i \in 1..n : lon[i] = polygon[i].lon
    OBVIOUS
  <1>4. BoundsFromPoints(polygon) = Box(Min(lats), Min(lons), Max(lats), Max(lons))
    <2>1. DOMAIN polygon = 1..n
      OBVIOUS
    <2>2. {polygon[i].lat : i \in DOMAIN polygon} = lats
      BY <2>1
    <2>3. {polygon[i].lon : i \in DOMAIN polygon} = lons
      BY <2>1
    <2> HIDE DEF lats, lons
    <2> QED
      BY <2>2, <2>3 DEF BoundsFromPoints
  <1> HIDE DEF lat, lon, n
  <1>5. Min(lats) \in lats /\ \A i \in 1..n : Min(lats) <= lat[i]
    BY <1>1, <1>2, MinIs
  <1>6. Max(lats) \in lats /\ \A i \in 1..n : lat[i] <= Max(lats)
    BY <1>1, <1>2, MaxIs
  <1>7. Min(lons) \in lons /\ \A i \in 1..n : Min(lons) <= lon[i]
    BY <1>1, <1>2, MinIs
  <1>8. Max(lons) \in lons /\ \A i \in 1..n : lon[i] <= Max(lons)
    BY <1>1, <1>2, MaxIs
  <1>9. lats \subseteq Int /\ lons \subseteq Int
    BY <1>2
  <1> HIDE DEF lats, lons
  <1> DEFINE b == BoundsFromPoints(polygon)
  <1>10. /\ b.minLat = Min(lats) /\ b.maxLat = Max(lats)
         /\ b.minLon = Min(lons) /\ b.maxLon = Max(lons)
    BY <1>4 DEF Box
  <1>11. b \in BoundingBox
    <2>1. /\ Min(lats) \in Int /\ Max(lats) \in Int
          /\ Min(lons) \in Int /\ Max(lons) \in Int
      BY <1>5, <1>6, <1>7, <1>8, <1>9
    <2> QED
      BY <1>4, <2>1 DEF Box, BoundingBox
  <1> HIDE DEF b
  <1>12. \A i \in 1..n : /\ b.minLat <= polygon[i].lat /\ polygon[i].lat <= b.maxLat
                         /\ b.minLon <= polygon[i].lon /\ polygon[i].lon <= b.maxLon
    BY <1>3, <1>5, <1>6, <1>7, <1>8, <1>10
  <1> QED
    BY <1>11, <1>12 DEF b, n

LEMMA BoundsType ==
  ASSUME NEW g, IsShape(g)
  PROVE  GetBounds(g) \in BoundingBox
  <1>1. CASE g.bbox # Nil
    BY <1>1 DEF IsShape, GetBounds
  <1>2. CASE g.bbox = Nil /\ g.polygon # Nil
    <2>1. g.polygon \in Seq(Points) /\ Len(g.polygon) >= 1
      BY <1>2 DEF IsShape
    <2> QED
      BY <1>2, <2>1, PolygonBounds DEF GetBounds
  <1>3. CASE g.bbox = Nil /\ g.polygon = Nil
    BY <1>3 DEF GetBounds, EmptyBox, Box, BoundingBox
  <1> QED
    BY <1>1, <1>2, <1>3

-----------------------------------------------------------------------------
(* The index hides no fence. *)

\* Going once around a polygon, one side of a line is left as often as it is
\* entered.
Turns(side, k) == {i \in 2..k : side[i] # side[i - 1]}

LEMMA TurnsParity ==
  ASSUME NEW n \in Nat, n >= 1, NEW side \in [1..n -> BOOLEAN]
  PROVE  \A k \in 1..n : /\ IsFiniteSet(Turns(side, k))
                         /\ Cardinality(Turns(side, k)) \in Nat
                         /\ Cardinality(Turns(side, k)) % 2
                              = IF side[k] = side[1] THEN 0 ELSE 1
  <1> DEFINE OK(k) == /\ IsFiniteSet(Turns(side, k))
                      /\ Cardinality(Turns(side, k)) \in Nat
                      /\ Cardinality(Turns(side, k)) % 2
                           = IF side[k] = side[1] THEN 0 ELSE 1
             S == {k \in Nat : k + 1 <= n => OK(k + 1)}
  <1>1. 0 \in S
    <2>1. Turns(side, 1) = {}
      BY DEF Turns
    <2>2. IsFiniteSet(Turns(side, 1)) /\ Cardinality(Turns(side, 1)) = 0
      BY <2>1, FS_EmptySet
    <2> QED
      BY <2>2
  <1>2. ASSUME NEW k \in Nat, k \in S PROVE k + 1 \in S
    <2>1. ASSUME (k + 1) + 1 <= n PROVE OK((k + 1) + 1)
      <3> DEFINE m == k + 1
                 T == Turns(side, m)
      <3>1. m \in 1..n /\ m + 1 \in 1..n /\ (m + 1) - 1 = m /\ OK(m)
        BY <1>2, <2>1
      <3> HIDE DEF m
      <3> SUFFICES OK(m + 1)
        BY DEF m
      <3>2. CASE side[m + 1] = side[m]
        <4>1. Turns(side, m + 1) = T
          BY <3>1, <3>2 DEF Turns
        <4> QED
          BY <3>1, <3>2, <4>1
      <3>3. CASE side[m + 1] # side[m]
        <4>1. Turns(side, m + 1) = T \cup {m + 1} /\ m + 1 \notin T
          BY <3>1, <3>3 DEF Turns
        <4>2. IsFiniteSet(T) /\ Cardinality(T) \in Nat
          BY <3>1
        <4>3. /\ IsFiniteSet(Turns(side, m + 1))
              /\ Cardinality(Turns(side, m + 1)) = Cardinality(T) + 1
          <5> HIDE DEF T
          <5> QED
            BY <4>1, <4>2, FS_AddElement
        <4>4. Cardinality(T) % 2 = 0 => (Cardinality(T) + 1) % 2 = 1
          BY <4>2
        <4>5. Cardinality(T) % 2 = 1 => (Cardinality(T) + 1) % 2 = 0
          BY <4>2
        <4>6. side[m + 1] \in BOOLEAN /\ side[m] \in BOOLEAN /\ side[1] \in BOOLEAN
          BY <3>1
        <4>7. (side[m + 1] = side[1]) <=> ~(side[m] = side[1])
          BY <3>3, <4>6
        <4> QED
          BY <3>1, <4>2, <4>3, <4>4, <4>5, <4>7
      <3> QED
        BY <3>2, <3>3
    <2> HIDE DEF OK
    <2> QED
      BY <2>1
  <1> HIDE DEF S
  <1>3. \A k \in Nat : k \in S
    BY <1>1, <1>2, AllNats
  <1>4. ASSUME NEW k \in 1..n PROVE OK(k)
    <2>1. k - 1 \in Nat /\ (k - 1) + 1 = k /\ k <= n
      OBVIOUS
    <2>2. k - 1 \in S
      BY <2>1, <1>3
    <2> HIDE DEF OK
    <2> QED
      BY <2>1, <2>2 DEF S
  <1> QED
    BY <1>4

LEMMA EvenAround ==
  ASSUME NEW n \in Nat, n >= 1, NEW side \in [1..n -> BOOLEAN]
  PROVE  Cardinality({i \in 1..n : side[i] # side[IF i = 1 THEN n ELSE i - 1]}) % 2 = 0
  <1> DEFINE A == {i \in 1..n : side[i] # side[IF i = 1 THEN n ELSE i - 1]}
             T == Turns(side, n)
  <1>1. /\ IsFiniteSet(T) /\ Cardinality(T) \in Nat
        /\ Cardinality(T) % 2 = IF side[n] = side[1] THEN 0 ELSE 1
    BY TurnsParity
  <1>2. CASE side[n] = side[1]
    <2>1. A = T
      BY <1>2 DEF Turns
    <2> QED
      BY <1>1, <1>2, <2>1
  <1>3. CASE side[n] # side[1]
    <2>1. A = T \cup {1} /\ 1 \notin T
      BY <1>3 DEF Turns
    <2>2. Cardinality(A) = Cardinality(T) + 1
      <3> HIDE DEF T, A
      <3> QED
        BY <2>1, <1>1, FS_AddElement
    <2> HIDE DEF T, A
    <2>3. Cardinality(T) % 2 = 1 => (Cardinality(T) + 1) % 2 = 0
      BY <1>1
    <2>4. Cardinality(A) % 2 = 0
      BY <1>1, <1>3, <2>2, <2>3
    <2> QED
      BY <2>4 DEF A
  <1> QED
    BY <1>2, <1>3

\* Where the line through two vertices passes between them.
LEMMA Slope ==
  ASSUME NEW y \in Int, NEW rise \in Int, NEW x \in Int, NEW run \in Int,
         run > 0, 0 <= x, x <= run, y < 0, y < rise
  PROVE  y * run < rise * x
  <1>1. CASE rise >= 0
    <2>1. rise * x >= 0
      BY <1>1
    <2>2. (0 - y) * run > 0
      OBVIOUS
    <2> QED
      BY <2>1, <2>2
  <1>2. CASE rise < 0
    <2>1. (rise - y) * run > 0
      OBVIOUS
    <2>2. (0 - rise) * (run - x) >= 0
      BY <1>2
    <2> QED
      BY <2>1, <2>2
  <1> QED
    BY <1>1, <1>2

LEMMA EdgeAbove ==
  ASSUME NEW p \in Points, NEW vi \in Points, NEW vj \in Points,
         (vi.lon > p.lon) # (vj.lon > p.lon)
  PROVE  /\ p.lat < vi.lat /\ p.lat < vj.lat => Above(p, vi, vj)
         /\ p.lat > vi.lat /\ p.lat > vj.lat => ~Above(p, vi, vj)
  <1> DEFINE dlat == vj.lat - vi.lat
             dlon == vj.lon - vi.lon
             x    == p.lon - vi.lon
             y    == p.lat - vi.lat
  <1>1. /\ dlat \in Int /\ dlon \in Int /\ x \in Int /\ y \in Int
        /\ \/ dlon > 0 /\ 0 <= x /\ x <= dlon
           \/ 0 - dlon > 0 /\ 0 <= 0 - x /\ 0 - x <= 0 - dlon
    BY DEF Points
  <1>2. Above(p, vi, vj) <=>
          IF y * dlon = dlat * x
            THEN (dlon > 0 /\ y < 0) \/ (dlon < 0 /\ y > 0)
            ELSE IF dlon > 0 THEN y * dlon < dlat * x ELSE y * dlon > dlat * x
    BY DEF Above
  <1>3. /\ p.lat < vi.lat /\ p.lat < vj.lat => y < 0 /\ y < dlat
        /\ p.lat > vi.lat /\ p.lat > vj.lat => 0 - y < 0 /\ 0 - y < 0 - dlat
    BY DEF Points
  <1> HIDE DEF dlat, dlon, x, y
  <1>4. ASSUME y < 0, y < dlat PROVE Above(p, vi, vj)
    <2>1. CASE dlon > 0 /\ 0 <= x /\ x <= dlon
      <3>1. y * dlon < dlat * x
        BY <1>1, <1>4, <2>1, Slope
      <3> QED
        BY <1>1, <1>2, <2>1, <3>1
    <2>2. CASE 0 - dlon > 0 /\ 0 <= 0 - x /\ 0 - x <= 0 - dlon
      <3>1. 0 - dlon \in Int /\ 0 - x \in Int
        BY <1>1
      <3>2. y * (0 - dlon) < dlat * (0 - x)
        BY <1>1, <1>4, <2>2, <3>1, Slope
      <3>3. y * dlon > dlat * x
        BY <1>1, <3>2
      <3> QED
        BY <1>1, <1>2, <2>2, <3>3
    <2> QED
      BY <1>1, <2>1, <2>2
  <1>5. ASSUME 0 - y < 0, 0 - y < 0 - dlat PROVE ~Above(p, vi, vj)
    <2>1. 0 - y \in Int /\ 0 - dlat \in Int /\ 0 - dlon \in Int /\ 0 - x \in Int
      BY <1>1
    <2>2. CASE dlon > 0 /\ 0 <= x /\ x <= dlon
      <3>1. (0 - y) * dlon < (0 - dlat) * x
        BY <1>1, <1>5, <2>1, <2>2, Slope
      <3>2. y * dlon > dlat * x
        BY <1>1, <3>1
      <3> QED
        BY <1>1, <1>2, <2>2, <3>2
    <2>3. CASE 0 - dlon > 0 /\ 0 <= 0 - x /\ 0 - x <= 0 - dlon
      <3>1. (0 - y) * (0 - dlon) < (0 - dlat) * (0 - x)
        BY <1>5, <2>1, <2>3, Slope
      <3>2. y * dlon < dlat * x
        BY <1>1, <3>1
      <3> QED
        BY <1>1, <1>2, <2>3, <3>2
    <2> QED
      BY <1>1, <2>2, <2>3
  <1> QED
    BY <1>3, <1>4, <1>5

\* A point that ray casting finds inside a polygon lies in the polygon's box.
LEMMA InsideIsBounded ==
  ASSUME NEW p \in Points, NEW polygon \in Seq(Points) \ {<<>>},
         PointInPolygon(p, polygon)
  PROVE  BoxContains(BoundsFromPoints(polygon), p)
  <1> DEFINE n == Len(polygon)
             prev(i) == IF i = 1 THEN n ELSE i - 1
             right == [i \in 1..n |-> polygon[i].lon > p.lon]
             crossed == {i \in 1..n : right[i] # right[prev(i)]}
             met == {i \in crossed : Above(p, polygon[i], polygon[prev(i)])}
             b == BoundsFromPoints(polygon)
  <1>1. /\ n \in Nat /\ n >= 1 /\ right \in [1..n -> BOOLEAN]
        /\ \A i \in 1..n : polygon[i] \in Points /\ prev(i) \in 1..n
    OBVIOUS
  <1>2. Cardinality(met) % 2 = 1
    <2>1. met = {i \in 1..n :
                   LET vi == polygon[i] vj == polygon[prev(i)] IN
                   /\ (vi.lon > p.lon) # (vj.lon > p.lon)
                   /\ Above(p, vi, vj)}
      BY <1>1
    <2> HIDE DEF met
    <2> QED
      BY <2>1 DEF PointInPolygon
  <1>3. Cardinality(crossed) % 2 = 0
    <2> HIDE DEF right
    <2> QED
      BY <1>1, EvenAround
  <1>4. \A i \in crossed : i \in 1..n /\ right[i] # right[prev(i)]
    OBVIOUS
  <1>5. /\ b \in BoundingBox
        /\ \A i \in 1..n :
             /\ b.minLat <= polygon[i].lat /\ polygon[i].lat <= b.maxLat
             /\ b.minLon <= polygon[i].lon /\ polygon[i].lon <= b.maxLon
    BY <1>1, PolygonBounds
  <1> HIDE DEF b
  <1>6. PICK i \in met : TRUE
    <2>1. ASSUME met = {} PROVE FALSE
      <3>1. Cardinality(met) = 0
        BY <2>1, FS_EmptySet
      <3> HIDE DEF met
      <3> QED
        BY <1>2, <3>1
    <2> QED
      BY <2>1
  <1>7. /\ i \in 1..n /\ prev(i) \in 1..n
        /\ (polygon[i].lon > p.lon) # (polygon[prev(i)].lon > p.lon)
        /\ Above(p, polygon[i], polygon[prev(i)])
    BY <1>1, <1>6
  <1>ints. /\ p.lat \in Int /\ p.lon \in Int
           /\ b.minLat \in Int /\ b.maxLat \in Int
           /\ b.minLon \in Int /\ b.maxLon \in Int
           /\ \A j \in 1..n : polygon[j].lat \in Int /\ polygon[j].lon \in Int
    BY <1>1, <1>5 DEF Points, BoundingBox
  <1>types. \A j \in 1..n : polygon[j] \in Points /\ prev(j) \in 1..n
    BY <1>1
  <1> HIDE DEF prev, n
  <1>8. b.minLon <= p.lon /\ p.lon <= b.maxLon
    BY <1>5, <1>7, <1>ints
  <1>9. ASSUME ~(p.lat <= b.maxLat) PROVE FALSE
    <2>1. p.lat > polygon[i].lat /\ p.lat > polygon[prev(i)].lat
      BY <1>5, <1>7, <1>9, <1>ints
    <2>2. polygon[i] \in Points /\ polygon[prev(i)] \in Points
      BY <1>7, <1>types
    <2> QED
      BY <1>7, <2>1, <2>2, EdgeAbove
  <1>10. ASSUME ~(p.lat >= b.minLat) PROVE FALSE
    <2>1. ASSUME NEW j \in crossed
          PROVE  Above(p, polygon[j], polygon[prev(j)])
      <3>1. /\ j \in 1..n /\ prev(j) \in 1..n
            /\ polygon[j] \in Points /\ polygon[prev(j)] \in Points
        BY <1>types
      <3>2. (polygon[j].lon > p.lon) # (polygon[prev(j)].lon > p.lon)
        BY <3>1
      <3>3. p.lat < polygon[j].lat /\ p.lat < polygon[prev(j)].lat
        BY <1>5, <1>10, <1>ints, <3>1
      <3> QED
        BY <3>1, <3>2, <3>3, EdgeAbove
    <2>2. met = crossed
      BY <2>1
    <2> HIDE DEF met, crossed
    <2> QED
      BY <1>2, <1>3, <2>2
  <1> QED
    BY <1>8, <1>9, <1>10 DEF BoxContains, b

\* What ContainsPoint accepts lies in the box GetBounds gives.
LEMMA BoundsCoverShape ==
  ASSUME NEW g, IsShape(g), NEW p \in Points, ContainsPoint(g, p)
  PROVE  BoxContains(GetBounds(g), p)
  <1>1. CASE g.bbox # Nil
    BY <1>1 DEF ContainsPoint, GetBounds
  <1>2. CASE g.bbox = Nil
    <2>1. /\ g.polygon # Nil /\ PointInPolygon(p, g.polygon)
          /\ g.polygon \in Seq(Points) \ {<<>>}
      BY <1>2 DEF ContainsPoint, IsShape
    <2> QED
      BY <1>2, <2>1, InsideIsBounded DEF GetBounds
  <1> QED
    BY <1>1, <1>2

\* Polygons with any number of vertices, anywhere.
THEOREM BoundsCoverFences == Spec => []BoundsCover
  <1>1. Init => BoundsCover
    BY DEF Init, Idle, BoundsCover
  <1>2. ASSUME Locate PROVE BoundsCover'
    <2>1. PICK g \in Geometries, p \in Places :
            /\ call' = [api |-> "locate", geometry |-> g, point |-> p]
            /\ answer' = [inside |-> ContainsPoint(g, p), bounds |-> GetBounds(g)]
      BY <1>2 DEF Locate, Called
    <2>2. ContainsPoint(g, p) => BoxContains(GetBounds(g), p)
      BY AlgorithmsAssumption, BoundsCoverShape
    <2> QED
      BY <2>1, <2>2 DEF BoundsCover
  <1>3. BoundsCover /\ [Next]_<<call, answer>> => BoundsCover'
    BY <1>2, CallIs DEF BoundsCover
  <1> QED
    BY <1>1, <1>3, PTL DEF Spec

\* QueryInBounds, for tables and areas of any size: the box of a fence with a
\* place on either side of the area spans the area's latitudes.
THEOREM AreasAreFound == Spec => []AreaFound
  <1>1. Init => AreaFound
    BY DEF Init, Idle, AreaFound
  <1>2. ASSUME QueryArea PROVE AreaFound'
    <2>1. PICK t \in Tables, b \in Areas :
            /\ call' = [api |-> "area", table |-> t, area |-> b]
            /\ answer' = QueryInBounds(t, b)
      BY <1>2 DEF QueryArea, Called
    <2>2. b \in BoundingBox /\ b.minLat <= b.maxLat
      BY AlgorithmsAssumption
    <2>3. ASSUME NEW i \in QueryInBounds(t, b)
          PROVE  Intersect(GetBounds(t[i].geometry), b)
      <3> DEFINE box == GetBounds(t[i].geometry)
      <3>1. /\ i \in DOMAIN t
            /\ box.maxLon >= b.minLon /\ box.minLon <= b.maxLon
            /\ box.maxLat >= b.maxLat /\ box.minLat <= b.minLat
        BY DEF QueryInBounds
      <3>2. box \in BoundingBox
        BY <3>1, BoundsType, AlgorithmsAssumption DEF IsRow
      <3> HIDE DEF box
      <3>3. box.maxLat >= b.minLat /\ box.minLat <= b.maxLat
        BY <3>1, <3>2, <2>2 DEF BoundingBox
      <3> QED
        BY <3>1, <3>3 DEF Intersect, box
    <2>4. ASSUME NEW i \in DOMAIN t,
                 NEW p \in Places, p.lat = b.minLat,
                 BoxContains(b, p), ContainsPoint(t[i].geometry, p),
                 NEW q \in Places, q.lat = b.maxLat,
                 BoxContains(b, q), ContainsPoint(t[i].geometry, q)
          PROVE  i \in QueryInBounds(t, b)
      <3> DEFINE g == t[i].geometry
                 box == GetBounds(g)
      <3>1. IsShape(g) /\ p \in Points /\ q \in Points
        BY AlgorithmsAssumption DEF IsRow
      <3>2. BoxContains(box, p) /\ BoxContains(box, q)
        BY <2>4, <3>1, BoundsCoverShape
      <3>3. box \in BoundingBox
        BY <3>1, BoundsType
      <3> HIDE DEF box, g
      <3>4. /\ box.maxLon >= b.minLon /\ box.minLon <= b.maxLon
            /\ box.maxLat >= b.maxLat /\ box.minLat <= b.minLat
        BY <2>2, <2>4, <3>1, <3>2, <3>3 DEF BoxContains, Points, BoundingBox
      <3> QED
        BY <3>4 DEF QueryInBounds, box, g
    <2> QED
      BY <2>1, <2>3, <2>4 DEF AreaFound
  <1>3. AreaFound /\ [Next]_<<call, answer>> => AreaFound'
    BY <1>2, CallIs DEF AreaFound
  <1> QED
    BY <1>1, <1>3, PTL DEF Spec

-----------------------------------------------------------------------------
(* The decisions. *)

Matching(fences, p, now) == {i \in DOMAIN fences : Holds(fences[i], p, now)}

\* The first of the highest priority exists as soon as something matches.
LEMMA HighestIs ==
  ASSUME NEW fences, fences \in Seq(Range(fences)),
         \A i \in DOMAIN fences : IsRow(fences[i]),
         NEW found \in SUBSET DOMAIN fences, found # {}
  PROVE  LET top == Highest(fences, found) IN
         /\ top # {} /\ top \subseteq found
         /\ Min(top) \in top
         /\ \A i, j \in top : fences[i].priority = fences[j].priority
  <1> DEFINE top == Highest(fences, found)
             prio == [i \in found |-> fences[i].priority]
  <1>1. DOMAIN fences = 1..Len(fences) /\ Len(fences) \in Nat
    OBVIOUS
  <1>2. IsFiniteSet(found)
    <2>1. IsFiniteSet(DOMAIN fences)
      BY <1>1, FS_Interval
    <2> QED
      BY <2>1, FS_Subset
  <1>3. prio \in [found -> Int]
    BY DEF IsRow
  <1>4. PICK i \in found : \A j \in found : prio[j] <= prio[i]
    <2> HIDE DEF prio
    <2> QED
      BY <1>2, <1>3, Greatest
  <1>5. i \in top
    BY <1>3, <1>4 DEF Highest
  <1>6. top \subseteq found /\ top \in SUBSET Nat
    BY <1>1 DEF Highest
  <1>7. Min(top) \in top
    BY <1>5, <1>6, LeastFetch
  <1>8. ASSUME NEW k \in top, NEW l \in top
        PROVE  fences[k].priority = fences[l].priority
    <2>1. fences[k].priority \in Int /\ fences[l].priority \in Int
      BY <1>6 DEF IsRow
    <2>2. fences[k].priority >= fences[l].priority /\ fences[l].priority >= fences[k].priority
      BY <1>6 DEF Highest
    <2> QED
      BY <2>1, <2>2
  <1> QED
    BY <1>5, <1>6, <1>7, <1>8

\* CheckFences forbids just when the first of the highest priority does.
LEMMA CheckFencesIs ==
  ASSUME NEW fences, NEW p, NEW now
  PROVE  LET found == Matching(fences, p, now)
             first == fences[Min(Highest(fences, found))] IN
         CheckFences(fences, p, now).allowed
           <=> ~(found # {} /\ first.type \in Forbidding)
  BY DEF CheckFences, Matching, Answer

\* The index and the geometry together find what the geometry alone does.
LEMMA IndexIsExact ==
  ASSUME NEW table, \A i \in DOMAIN table : IsRow(table[i]), NEW p \in Points, NEW now
  PROVE  QueryAtPoint(table, p, now) = Matching(table, p, now)
  <1>1. ASSUME NEW i \in DOMAIN table, Holds(table[i], p, now)
        PROVE  BoxContains(GetBounds(table[i].geometry), p)
    BY <1>1, BoundsCoverShape DEF Holds, IsRow
  <1> QED
    BY <1>1 DEF QueryAtPoint, Matching

\* An answer over the database allows what CheckFences allows unless there is a
\* tie, and what it forbids a matching fence forbids.
LEMMA AnswersAgree ==
  ASSUME NEW table \in Tables, NEW p \in Places, NEW now, NEW a \in Check(table, p, now)
  PROVE  /\ a.allowed \in BOOLEAN
         /\ ~Tied(table, p, now) =>
              a.allowed = CheckFences(table, p, now).allowed
         /\ ~a.allowed => /\ a.fence.type \in Forbidding
                          /\ Holds(a.fence, p, now)
  <1> DEFINE found == Matching(table, p, now)
             top == Highest(table, found)
             first == Min(top)
  <1>1. /\ table \in Seq(Range(table)) /\ p \in Points
        /\ \A i \in DOMAIN table : IsRow(table[i])
    BY AlgorithmsAssumption
  <1>2. QueryAtPoint(table, p, now) = found
    BY <1>1, IndexIsExact
  <1>3. CheckFences(table, p, now).allowed
          <=> ~(found # {} /\ table[first].type \in Forbidding)
    BY CheckFencesIs
  <1>4. CheckFences(table, p, now).allowed \in BOOLEAN
    BY DEF CheckFences, Answer
  <1>5. found \in SUBSET DOMAIN table /\ \A i \in found : Holds(table[i], p, now)
    BY DEF Matching
  <1> HIDE DEF found
  <1>6. CASE found = {}
    <2>1. a = Answer(TRUE, Nil)
      BY <1>2, <1>6 DEF Check
    <2>2. a.allowed = TRUE
      BY <2>1 DEF Answer
    <2> QED
      BY <1>3, <1>4, <1>6, <2>2
  <1>7. CASE found # {}
    <2>1. PICK i \in top : a = Answer(table[i].type \notin Forbidding, table[i])
      BY <1>2, <1>7 DEF Check
    <2>2. a.allowed = (table[i].type \notin Forbidding) /\ a.fence = table[i]
      BY <2>1 DEF Answer
    <2>3. /\ top \subseteq found /\ first \in top
          /\ \A k, l \in top : table[k].priority = table[l].priority
      BY <1>1, <1>5, <1>7, HighestIs
    <2> HIDE DEF top, first
    <2>4. /\ i \in DOMAIN table /\ first \in DOMAIN table
          /\ Holds(table[i], p, now) /\ Holds(table[first], p, now)
          /\ table[i].priority = table[first].priority
      BY <1>5, <2>1, <2>3
    <2>5. ~Tied(table, p, now) =>
            (table[i].type \in Forbidding <=> table[first].type \in Forbidding)
      BY <2>4 DEF Tied
    <2> QED
      BY <1>3, <1>4, <1>7, <2>2, <2>4, <2>5
  <1> QED
    BY <1>6, <1>7

LEMMA FenceAnswers ==
  ASSUME NEW f \in Limiting, NEW p \in Places, NEW now \in Times
  PROVE  LET allowed == CheckFences(<<f>>, p, now).allowed
             level   == RestrictionLevel(f, p, now)
             height  == GetAltitudeLimit(f, p, now) IN
         /\ ~allowed <=> level >= 80
         /\ ~allowed => height = -1
         /\ allowed /\ height = -1 => f.maxAltitude = TwoTo[LimitBits] - 1
         /\ level = 0 => height = 0 /\ GetSpeedLimit(f, p, now) = 0
  <1> DEFINE allowed == CheckFences(<<f>>, p, now).allowed
             found == Matching(<<f>>, p, now)
             one == <<f>>[Min(Highest(<<f>>, found))]
  <1>1. IsRow(f) /\ f.maxAltitude \in Nat /\ f.maxAltitude < TwoTo[LimitBits]
    <2>1. TwoTo[LimitBits] \in Nat
      BY GeoQueryAssumption, TwoToIs
    <2> QED
      BY <2>1, AlgorithmsAssumption DEF Uint
  <1>2. ~allowed <=> Holds(f, p, now) /\ f.type \in Forbidding
    <2>1. ~allowed <=> found # {} /\ one.type \in Forbidding
      BY CheckFencesIs
    <2>2. found = IF Holds(f, p, now) THEN {1} ELSE {}
      BY DEF Matching
    <2>3. Holds(f, p, now) => one = f
      <3> SUFFICES ASSUME Holds(f, p, now) PROVE one = f
        OBVIOUS
      <3>1. Highest(<<f>>, found) = {1}
        BY <1>1, <2>2 DEF Highest, IsRow
      <3>2. Min({1}) = 1
        BY DEF Min
      <3> QED
        BY <3>1, <3>2
    <2> HIDE DEF allowed, found, one
    <2> QED
      BY <2>1, <2>2, <2>3
  <1> HIDE DEF allowed
  <1>3. Signed(f.maxAltitude) = -1 => f.maxAltitude = TwoTo[LimitBits] - 1
    BY <1>1, WrapIsMinusOne, GeoQueryAssumption DEF Signed
  <1>4. ~allowed <=> RestrictionLevel(f, p, now) >= 80
    BY <1>2 DEF RestrictionLevel, Forbidding, Reported, Types
  <1>5. /\ ~allowed => GetAltitudeLimit(f, p, now) = -1
        /\ allowed /\ GetAltitudeLimit(f, p, now) = -1 =>
             f.maxAltitude = TwoTo[LimitBits] - 1
    BY <1>2, <1>3 DEF GetAltitudeLimit, Forbidding
  <1>6. RestrictionLevel(f, p, now) = 0 =>
          GetAltitudeLimit(f, p, now) = 0 /\ GetSpeedLimit(f, p, now) = 0
    BY DEF RestrictionLevel, GetAltitudeLimit, GetSpeedLimit, Forbidding, Reported, Types
  <1> QED
    BY <1>4, <1>5, <1>6 DEF allowed

\* Databases of any size, fences with any limits, integers of any width.
THEOREM ChecksAgree == Spec => []CheckAgrees
  <1>1. Init => CheckAgrees
    BY DEF Init, Idle, CheckAgrees, DecisionsAgree, LimitsAgree
  <1>2. ASSUME CheckPoint PROVE CheckAgrees'
    <2>0. PICK t \in Tables, p \in Places, now \in Times :
            \E syncer \in Check(t, p, now) : \E manager \in ManagerQuery(t, p, now) :
              Called([api |-> "check", table |-> t, point |-> p, now |-> now],
                     [direct |-> CheckFences(t, p, now), syncer |-> syncer,
                      manager |-> manager])
      BY <1>2 DEF CheckPoint
    <2>1. PICK syncer \in Check(t, p, now), manager \in ManagerQuery(t, p, now) :
            /\ call' = [api |-> "check", table |-> t, point |-> p, now |-> now]
            /\ answer' = [direct |-> CheckFences(t, p, now), syncer |-> syncer,
                          manager |-> manager]
      BY <2>0 DEF Called
    <2>2. PICK a \in Check(t, p, now) : manager.allowed = a.allowed
      BY DEF ManagerQuery, Answer
    <2> QED
      BY <2>1, <2>2, AnswersAgree DEF CheckAgrees, DecisionsAgree, LimitsAgree
  <1>3. ASSUME AskFence PROVE CheckAgrees'
    <2>1. PICK f \in Limiting, p \in Places, now \in Times :
            /\ call' = [api |-> "fence", fence |-> f, point |-> p, now |-> now]
            /\ answer' = [check |-> CheckFences(<<f>>, p, now).allowed,
                          level |-> RestrictionLevel(f, p, now),
                          altitude |-> GetAltitudeLimit(f, p, now),
                          speed |-> GetSpeedLimit(f, p, now)]
      BY <1>3 DEF AskFence, Called
    <2> QED
      BY <2>1, FenceAnswers DEF CheckAgrees, DecisionsAgree, LimitsAgree
  <1>4. CheckAgrees /\ [Next]_<<call, answer>> => CheckAgrees'
    BY <1>2, <1>3, CallIs DEF CheckAgrees, DecisionsAgree, LimitsAgree
  <1> QED
    BY <1>1, <1>4, PTL DEF Spec

-----------------------------------------------------------------------------
(* Changes between two collections. *)

\* A delta of the fences that were added and removed, and of some that were
\* kept, gives the new collection but for those it leaves out.  A second time
\* it fails or changes nothing.
LEMMA DeltaIs ==
  ASSUME NEW old \in Collection, NEW new \in Collection,
         NEW changed \in SUBSET Kept(old, new)
  PROVE  LET d == DeltaOf(old, new, changed)
             r == ApplyDelta(old, d) IN
         /\ r # None
         /\ Present(r) = Present(new)
         /\ \A id \in Present(new) :
              r[id] = IF id \in Kept(old, new) \ changed THEN old[id] ELSE new[id]
         /\ ApplyDelta(r, d) \in {None, r}
  <1> DEFINE d == DeltaOf(old, new, changed)
             r == [id \in Ids |-> IF id \in changed THEN new[id]
                                  ELSE IF id \in Present(new) \ Present(old) THEN new[id]
                                  ELSE IF id \in Present(old) \ Present(new) THEN None
                                  ELSE old[id]]
  <1>1. /\ d.removed = Present(old) \ Present(new)
        /\ DOMAIN d.added = Present(new) \ Present(old)
        /\ DOMAIN d.updated = changed
        /\ \A id \in DOMAIN d.added : d.added[id] = new[id]
        /\ \A id \in DOMAIN d.updated : d.updated[id] = new[id]
    BY DEF DeltaOf, Restrict
  <1>2. /\ changed \subseteq Present(old) \cap Present(new)
        /\ Present(old) \subseteq Ids /\ Present(new) \subseteq Ids
    BY DEF Kept, Present
  <1> HIDE DEF d
  <1>3. ApplyDelta(old, d) = r
    <2>1. Present(old) \ d.removed = Present(old) \cap Present(new)
      BY <1>1
    <2>2. /\ DOMAIN d.added \cap (Present(old) \ d.removed) = {}
          /\ DOMAIN d.updated \subseteq (Present(old) \ d.removed) \cup DOMAIN d.added
      BY <1>1, <1>2, <2>1
    <2>3. ApplyDelta(old, d) =
            [id \in Ids |-> IF id \in DOMAIN d.updated THEN d.updated[id]
                            ELSE IF id \in DOMAIN d.added THEN d.added[id]
                            ELSE IF id \in d.removed THEN None
                            ELSE old[id]]
      BY <2>2 DEF ApplyDelta
    <2> QED
      BY <1>1, <2>3
  <1>4. r \in Collection
    BY DEF Collection
  <1>5. r # None
    BY <1>4, FencesAssumption
  <1>6. \A id \in Ids : /\ id \in Present(new) => r[id] \in {new[id], old[id]} /\ r[id] # None
                        /\ id \notin Present(new) => r[id] = None
    BY <1>2 DEF Present
  <1>7. Present(r) = Present(new)
    BY <1>2, <1>6 DEF Present
  <1>8. \A id \in Present(new) :
          r[id] = IF id \in Kept(old, new) \ changed THEN old[id] ELSE new[id]
    BY <1>2 DEF Kept
  <1>9. ApplyDelta(r, d) \in {None, r}
    <2>1. CASE ApplyDelta(r, d) = None
      BY <2>1
    <2>2. CASE ApplyDelta(r, d) # None
      <3>1. DOMAIN d.added \cap (Present(r) \ d.removed) = {}
        BY <2>2 DEF ApplyDelta
      <3>2. DOMAIN d.added = {}
        BY <1>1, <1>7, <3>1
      <3>3. ApplyDelta(r, d) =
              [id \in Ids |-> IF id \in DOMAIN d.updated THEN d.updated[id]
                              ELSE IF id \in DOMAIN d.added THEN d.added[id]
                              ELSE IF id \in d.removed THEN None
                              ELSE r[id]]
        BY <2>2 DEF ApplyDelta
      <3>4. \A id \in Ids : /\ id \in DOMAIN d.updated => d.updated[id] = r[id]
                            /\ id \in d.removed => r[id] = None
        BY <1>1, <1>2
      <3>5. ApplyDelta(r, d) = [id \in Ids |-> r[id]]
        <4> HIDE DEF r
        <4> QED
          BY <3>2, <3>3, <3>4
      <3>6. ApplyDelta(r, d) = r
        BY <3>5
      <3> QED
        BY <3>6
    <2> QED
      BY <2>1, <2>2
  <1> HIDE DEF r
  <1> QED
    BY <1>3, <1>5, <1>7, <1>8, <1>9 DEF d

LEMMA SameAsItself ==
  ASSUME NEW c \in Collection, NEW id \in Present(c)
  PROVE  SameFence(c[id], c[id]) /\ SameFields(c[id], c[id])
  <1>1. c[id] \in Fence
    BY DEF Collection, Present
  <1> QED
    BY <1>1 DEF SameFence, SameFields, Fence

\* Collections of any number of fences.
THEOREM DeltasRestore == Spec => []DeltaRestores
  <1>1. Init => DeltaRestores
    BY DEF Init, Idle, DeltaRestores
  <1>2. ASSUME MakeDelta PROVE DeltaRestores'
    <2>1. PICK old \in DeltaCollections, new \in DeltaCollections :
            \E delta \in {CreateDelta(old, new), ComputeDelta(old, new)} :
              LET once == ApplyDelta(old, delta) IN
              Called([api |-> "delta", old |-> old, new |-> new, delta |-> delta],
                     [once |-> once,
                      twice |-> IF once = None THEN None ELSE ApplyDelta(once, delta)])
      BY <1>2 DEF MakeDelta
    <2>2. PICK delta \in {CreateDelta(old, new), ComputeDelta(old, new)} :
            /\ call' = [api |-> "delta", old |-> old, new |-> new, delta |-> delta]
            /\ answer' = [once |-> ApplyDelta(old, delta),
                          twice |-> IF ApplyDelta(old, delta) = None THEN None
                                    ELSE ApplyDelta(ApplyDelta(old, delta), delta)]
      BY <2>1 DEF Called
    <2> DEFINE once == ApplyDelta(old, delta)
    <2>3. old \in Collection /\ new \in Collection
      BY AlgorithmsAssumption
    <2>4. ASSUME delta = ComputeDelta(old, new)
          PROVE  /\ once # None /\ Present(once) = Present(new)
                 /\ \A id \in Present(new) : SameFence(once[id], new[id])
                 /\ ApplyDelta(once, delta) \in {None, once}
      <3> DEFINE changed == {id \in Kept(old, new) : ~SameFence(old[id], new[id])}
      <3>1. delta = DeltaOf(old, new, changed) /\ changed \in SUBSET Kept(old, new)
        BY <2>4 DEF ComputeDelta
      <3>2. \A id \in Kept(old, new) \ changed : SameFence(old[id], new[id])
        OBVIOUS
      <3> HIDE DEF changed
      <3> QED
        BY <2>3, <3>1, <3>2, DeltaIs, SameAsItself
    <2>5. ASSUME delta = CreateDelta(old, new)
          PROVE  /\ once # None /\ Present(once) = Present(new)
                 /\ \A id \in Present(new) :
                      \/ once[id] = new[id]
                      \/ once[id] = old[id] /\ SameFields(old[id], new[id])
                 /\ ApplyDelta(once, delta) \in {None, once}
      <3> DEFINE changed == {id \in Kept(old, new) : ~SameFields(old[id], new[id])}
      <3>1. delta = DeltaOf(old, new, changed) /\ changed \in SUBSET Kept(old, new)
        BY <2>5 DEF CreateDelta
      <3>2. \A id \in Kept(old, new) \ changed : SameFields(old[id], new[id])
        OBVIOUS
      <3> HIDE DEF changed
      <3> QED
        BY <2>3, <3>1, <3>2, DeltaIs
    <2> QED
      BY <2>2, <2>4, <2>5 DEF DeltaRestores
  <1>3. DeltaRestores /\ [Next]_<<call, answer>> => DeltaRestores'
    BY <1>2, CallIs DEF DeltaRestores
  <1> QED
    BY <1>1, <1>3, PTL DEF Spec

-----------------------------------------------------------------------------
(* A delta file. *)

LEMMA DiffType ==
  ASSUME NEW old \in Data, NEW new \in Data
  PROVE  ComputeDiff(old, new) \in Seq(Nat)
  <1>0. old \in Seq(Nat) /\ new \in Seq(Nat)
    BY DEF Data
  <1>1. CASE TooDifferent(old, new)
    BY <1>0, <1>1 DEF ComputeDiff
  <1>2. CASE ~TooDifferent(old, new)
    <2> DEFINE p == CommonPrefixLen(old, new)
               s == CommonSuffixLen(From(old, p), From(new, p))
               m == SubSeq(new, p + 1, Len(new) - s)
    <2>1. p \in Nat /\ p <= Len(old) /\ p <= Len(new)
      BY <1>0, PrefixIsCommon
    <2>2. s \in Nat /\ p + s <= Len(new)
      <3> HIDE DEF p
      <3> QED
        BY <1>0, <2>1, SuffixOfRest
    <2> HIDE DEF p, s
    <2>3. Len(new) - s \in Nat /\ p <= Len(new) - s /\ Len(new) - s <= Len(new)
      BY <1>0, <2>1, <2>2
    <2>4. m \in Seq(Nat)
      BY <1>0, <2>1, <2>3, PieceType
    <2> HIDE DEF m
    <2>5. <<p, s>> \o m \in Seq(Nat)
      BY <2>1, <2>2, <2>4, HeaderAndMiddle
    <2> QED
      BY <1>2, <2>5 DEF ComputeDiff, p, s, m
  <1> QED
    BY <1>1, <1>2

\* The cells of any sequence from m to n.
LEMMA PieceOf ==
  ASSUME NEW S, NEW a \in Seq(S), NEW m \in Nat, NEW n \in Nat,
         m <= n, n <= Len(a)
  PROVE  /\ SubSeq(a, m + 1, n) \in Seq(S) /\ Len(SubSeq(a, m + 1, n)) = n - m
         /\ \A i \in 1..(n - m) : SubSeq(a, m + 1, n)[i] = a[m + i]
  <1>1. \A i \in (m + 1)..n : a[i] \in S
    OBVIOUS
  <1>2. m + 1 \in Int
    OBVIOUS
  <1>3. /\ SubSeq(a, m + 1, n) \in Seq(S)
        /\ Len(SubSeq(a, m + 1, n)) = IF m + 1 <= n THEN n - (m + 1) + 1 ELSE 0
        /\ \A i \in 1..(n - (m + 1) + 1) : SubSeq(a, m + 1, n)[i] = a[(m + 1) + i - 1]
    BY <1>1, <1>2, SubSeqProperties
  <1>4. n - (m + 1) + 1 = n - m
    OBVIOUS
  <1>5. Len(SubSeq(a, m + 1, n)) = n - m
    BY <1>3
  <1>6. ASSUME NEW i \in 1..(n - m) PROVE SubSeq(a, m + 1, n)[i] = a[m + i]
    <2>1. i \in 1..(n - (m + 1) + 1)
      BY <1>4
    <2>2. SubSeq(a, m + 1, n)[i] = a[(m + 1) + i - 1]
      BY <1>3, <2>1, Zenon
    <2>3. (m + 1) + i - 1 = m + i
      OBVIOUS
    <2> QED
      BY <2>2, <2>3
  <1>7. SubSeq(a, m + 1, n) \in Seq(S)
    BY <1>3
  <1> QED
    BY <1>5, <1>6, <1>7, Zenon

\* What follows the first n cells of any sequence.
LEMMA FromOf ==
  ASSUME NEW S, NEW a \in Seq(S), NEW n \in Nat, n <= Len(a)
  PROVE  /\ From(a, n) \in Seq(S) /\ Len(From(a, n)) = Len(a) - n
         /\ \A i \in 1..(Len(a) - n) : From(a, n)[i] = a[n + i]
  BY SubSeqProperties DEF From

\* The two cells of the hash.
LEMMA HashCells ==
  ASSUME NEW S, NEW f \in Seq(S), NEW g \in Seq(S), Len(f) >= 9, Len(g) >= 9,
         f[8] = g[8], f[9] = g[9]
  PROVE  SubSeq(f, 8, 9) = SubSeq(g, 8, 9)
  <1> DEFINE u == SubSeq(f, 8, 9)
             v == SubSeq(g, 8, 9)
  <1>1. /\ SubSeq(f, 7 + 1, 9) \in Seq(S) /\ Len(SubSeq(f, 7 + 1, 9)) = 9 - 7
        /\ \A i \in 1..(9 - 7) : SubSeq(f, 7 + 1, 9)[i] = f[7 + i]
    BY PieceOf
  <1>2. /\ SubSeq(g, 7 + 1, 9) \in Seq(S) /\ Len(SubSeq(g, 7 + 1, 9)) = 9 - 7
        /\ \A i \in 1..(9 - 7) : SubSeq(g, 7 + 1, 9)[i] = g[7 + i]
    BY PieceOf
  <1>3. 7 + 1 = 8 /\ 9 - 7 = 2
    OBVIOUS
  <1>4. u \in Seq(S) /\ Len(u) = 2 /\ u[1] = f[8] /\ u[2] = f[9]
    BY <1>1, <1>3
  <1>5. v \in Seq(S) /\ Len(v) = 2 /\ v[1] = g[8] /\ v[2] = g[9]
    BY <1>2, <1>3
  <1> HIDE DEF u, v
  <1>6. u = v
    BY <1>4, <1>5
  <1> QED
    BY <1>6 DEF u, v

\* Nine cells of header and hash, and the diff.
LEMMA FileIs ==
  ASSUME NEW old \in Data, NEW new \in Data, NEW from, NEW to,
         NEW diff, diff = ComputeDiff(old, new),
         NEW file, file = WriteDeltaFile(old, new, from, to)
  PROVE  \E S : /\ file \in Seq(S)
                /\ Len(file) = 9 + Len(diff)
                /\ file[1] = Magic /\ file[2] = 1 /\ file[4] = to
                /\ file[7] = Len(diff)
                /\ SubSeq(file, 8, 9) = HashOf(diff)
                /\ \A i \in 1..Len(diff) : file[9 + i] = diff[i]
  <1> DEFINE first == <<Magic, 1, from, to, Len(old), Len(new), Len(diff)>>
             hash == HashOf(diff)
             S == {Magic, 1, from, to, Len(old), Len(new), Len(diff)}
                    \cup {hash[1], hash[2]} \cup Nat
  <1>1. diff \in Seq(Nat)
    BY DiffType
  <1>2. /\ first \in Seq(S) /\ Len(first) = 7
        /\ first[1] = Magic /\ first[2] = 1 /\ first[4] = to /\ first[7] = Len(diff)
    OBVIOUS
  <1>3. hash \in Seq(S) /\ Len(hash) = 2
    BY DEF HashOf
  <1>4. diff \in Seq(S)
    BY <1>1
  <1>5. file = (first \o hash) \o diff
    BY DEF WriteDeltaFile, Header
  <1> HIDE DEF first, hash, S
  <1> DEFINE header == first \o hash
  <1>6. /\ header \in Seq(S) /\ Len(header) = 9 /\ header[7] = Len(diff)
        /\ header[1] = Magic /\ header[2] = 1 /\ header[4] = to
        /\ header[8] = hash[1] /\ header[9] = hash[2]
    <2>2. header = first \o hash
      OBVIOUS
    <2> HIDE DEF header
    <2>0. /\ header \in Seq(S) /\ Len(header) = Len(first) + Len(hash)
          /\ \A i \in 1..Len(first) + Len(hash) :
               header[i] = IF i <= Len(first) THEN first[i] ELSE hash[i - Len(first)]
      <3>1. first \in Seq(S) /\ hash \in Seq(S)
        BY <1>2, <1>3
      <3> QED
        BY <3>1, <2>2, ConcatProperties
    <2>1. /\ header \in Seq(S) /\ Len(header) = 9
          /\ \A i \in 1..9 : header[i] = IF i <= 7 THEN first[i] ELSE hash[i - 7]
      <3>1. Len(first) + Len(hash) = 9
        BY <1>2, <1>3
      <3> QED
        BY <1>2, <3>1, <2>0, Zenon
    <2> QED
      BY <1>2, <2>1
  <1> HIDE DEF header
  <1>7. /\ file \in Seq(S) /\ Len(file) = 9 + Len(diff)
        /\ \A i \in 1..9 : file[i] = header[i]
        /\ \A i \in 1..Len(diff) : file[9 + i] = diff[i]
    <2>2. file = header \o diff
      BY <1>5 DEF header
    <2>0. /\ file \in Seq(S) /\ Len(file) = Len(header) + Len(diff)
          /\ \A i \in 1..Len(header) + Len(diff) :
               file[i] = IF i <= Len(header) THEN header[i] ELSE diff[i - Len(header)]
      <3>1. header \in Seq(S) /\ diff \in Seq(S)
        BY <1>4, <1>6
      <3> QED
        BY <3>1, <2>2, ConcatProperties
    <2>1. /\ file \in Seq(S) /\ Len(file) = 9 + Len(diff)
          /\ \A i \in 1..9 + Len(diff) :
               file[i] = IF i <= 9 THEN header[i] ELSE diff[i - 9]
      BY <1>6, <2>0
    <2>3. Len(diff) \in Nat
      BY <1>1
    <2> QED
      BY <2>1, <2>3
  <1>8. SubSeq(file, 8, 9) = hash
    <2>1. Len(diff) \in Nat
      BY <1>1
    <2>2. /\ SubSeq(file, 8, 9) \in Seq(S) /\ Len(SubSeq(file, 8, 9)) = 2
          /\ \A i \in 1..2 : SubSeq(file, 8, 9)[i] = file[8 + i - 1]
      BY <1>7, <2>1, SubSeqProperties
    <2>3. SubSeq(file, 8, 9)[1] = hash[1] /\ SubSeq(file, 8, 9)[2] = hash[2]
      BY <2>2, <1>6, <1>7
    <2> QED
      BY <1>3, <2>2, <2>3
  <1> QED
    BY <1>6, <1>7, <1>8 DEF hash

\* With its size and its diff intact a file gives the diff or an error, whatever
\* became of its hash.
LEMMA KeptDiff ==
  ASSUME NEW old \in Data, Len(old) < Tag,
         NEW new \in Data, TooDifferent(old, new) \/ Len(new) <= MaxPatched,
         NEW file, NEW expected,
         From(file, 9) = ComputeDiff(old, new),
         file[7] = Len(ComputeDiff(old, new)), ~(file[7] > MaxAlloc)
  PROVE  PatchFences(old, ReadDeltaFile(file, expected)) \in {new, Error}
  <1> DEFINE r == ReadDeltaFile(file, expected)
             h == ReadHeader(file)
             diff == ComputeDiff(old, new)
  <1>1. SubSeq(diff, 1, Len(diff)) = diff
    <2>1. diff \in Seq(Nat)
      BY DiffType
    <2> HIDE DEF diff
    <2> QED
      BY <2>1
  <1>2. h.size = Len(diff) /\ ~(h.size > MaxAlloc)
    BY DEF ReadHeader, SizeAt
  <1> HIDE DEF h, diff
  <1>3. r.res = "error" \/ (r.res = "ok" /\ r.diff = diff)
    <2>1. r = Refused => r.res = "error"
      BY DEF Refused
    <2> QED
      BY <1>1, <1>2, <2>1 DEF ReadDeltaFile, HeaderLen, HashLen, h, diff
  <1>4. PatchFences(old, r) \in {Patch(old, diff), Error}
    <2> HIDE DEF r
    <2> QED
      BY <1>3 DEF PatchFences
  <1>5. Patch(old, diff) = new
    BY PatchUndoesDiff DEF diff
  <1> QED
    BY <1>4, <1>5

\* Data that the calls are made with.
LEMMA SerialisedIs ==
  ASSUME NEW old \in Serialised, NEW new \in Serialised
  PROVE  /\ old \in Data /\ Len(old) < Tag
         /\ new \in Data /\ (TooDifferent(old, new) \/ Len(new) <= MaxPatched)
  BY AlgorithmsAssumption

LEMMA RefusedIs == ASSUME NEW old PROVE PatchFences(old, Refused) = Error
  <1>1. Refused.res = "error"
    BY DEF Refused
  <1> QED
    BY <1>1 DEF PatchFences

LEMMA HarmedIs ==
  ASSUME NEW old \in Serialised, NEW new \in Serialised, NEW from, NEW to,
         NEW file, file = WriteDeltaFile(old, new, from, to),
         NEW harm \in Harm, NEW at \in DOMAIN file, NEW v
  PROVE  PatchFences(old, ReadDeltaFile(Harmed(file, harm, at, v), to))
           \in IF Oversized(harm, at, v) THEN {Panic} ELSE {Error, new}
  <1> DEFINE diff == ComputeDiff(old, new)
             f == Harmed(file, harm, at, v)
             result == PatchFences(old, ReadDeltaFile(f, to))
  <1> SUFFICES result \in IF Oversized(harm, at, v) THEN {Panic} ELSE {Error, new}
    OBVIOUS
  <1>1. /\ old \in Data /\ Len(old) < Tag
        /\ new \in Data /\ (TooDifferent(old, new) \/ Len(new) <= MaxPatched)
    BY SerialisedIs
  <1>2. diff \in Seq(Nat) /\ Len(diff) \in Nat /\ ~(Len(diff) > MaxAlloc)
    <2>1. diff \in Seq(Nat)
      BY <1>1, DiffType
    <2>2. Len(diff) <= MaxAlloc /\ MaxAlloc \in Nat
      BY AlgorithmsAssumption, DeltaCodecAssumption
    <2> HIDE DEF diff
    <2> QED
      BY <2>1, <2>2
  <1>3. PICK S : /\ file \in Seq(S)
                 /\ Len(file) = 9 + Len(diff)
                 /\ file[1] = Magic /\ file[2] = 1 /\ file[4] = to
                 /\ file[7] = Len(diff)
                 /\ SubSeq(file, 8, 9) = HashOf(diff)
                 /\ \A i \in 1..Len(diff) : file[9 + i] = diff[i]
    <2>1. old \in Data /\ new \in Data
      BY <1>1
    <2> QED
      BY <2>1, FileIs
  <1>4. at \in 1..9 + Len(diff)
    BY <1>3
  <1>5. ASSUME NEW T, f \in Seq(T), Len(f) >= 9, SubSeq(f, 8, 9) = HashOf(diff),
               ~(f[7] > MaxAlloc)
        PROVE  result \in {new, Error}
    <2> HIDE DEF f
    <2> QED
      BY <1>1, <1>5, HashProtectsFile DEF HeaderLen, HashLen, SizeAt
  <1>6. ASSUME From(f, 9) = diff, f[7] = Len(diff)
        PROVE  result \in {new, Error}
    <2> HIDE DEF f
    <2> QED
      BY <1>1, <1>2, <1>6, KeptDiff
  <1>7. CASE Oversized(harm, at, v)
    <2>1. harm = "cell" /\ at = 7 /\ v > MaxAlloc
      BY <1>7 DEF Oversized, SizeAt
    <2>2. f = [file EXCEPT ![7] = v]
      BY <2>1 DEF Harmed, HeaderLen, HashLen
    <2> DEFINE T == S \cup {v}
    <2>3. file \in Seq(T)
      BY <1>3
    <2> HIDE DEF f, diff, T
    <2>4. /\ Len(f) = 9 + Len(diff) /\ f[1] = Magic /\ f[2] = 1 /\ f[4] = to
          /\ f[7] = v
      <3>1. /\ Len(f) = 9 + Len(diff)
            /\ \A i \in 1..9 + Len(diff) : i # 7 => f[i] = file[i]
        <4>1. v \in T /\ 7 \in 1..9 + Len(diff)
          BY <1>2 DEF T
        <4> QED
          BY <1>2, <1>3, <2>2, <2>3, <4>1, ExceptSeq
      <3>2. f[7] = v
        <4>1. 7 \in DOMAIN file
          BY <1>2, <1>3
        <4> QED
          BY <2>2, <4>1
      <3> QED
        BY <1>2, <1>3, <3>1, <3>2
    <2>5. HasHeader(f)
      BY <1>2, <2>4 DEF HasHeader, HeaderLen
    <2> DEFINE h == ReadHeader(f)
    <2>6. h.format = 1 /\ h.to = to /\ h.size > MaxAlloc
      BY <2>1, <2>4 DEF ReadHeader, SizeAt
    <2> HIDE DEF h
    <2> DEFINE r == ReadDeltaFile(f, to)
    <2>7. r = Died
      BY <2>5, <2>6 DEF ReadDeltaFile, h
    <2> HIDE DEF r
    <2>8. r.res = "panic"
      BY <2>7 DEF Died
    <2>9. PatchFences(old, r) = Panic
      BY <2>8 DEF PatchFences
    <2> QED
      BY <1>7, <2>9 DEF r
  <1>8. ASSUME harm = "none" PROVE result \in {new, Error}
    <2>1. f = file
      BY <1>8 DEF Harmed
    <2> HIDE DEF f
    <2> QED
      BY <1>2, <1>3, <1>5, <2>1
  <1>9. ASSUME harm = "cut" PROVE result \in {new, Error}
    <2> DEFINE n == at - 1
    <2>1. f = SubSeq(file, 1, n)
      BY <1>9 DEF Harmed
    <2>2. n \in Nat /\ n < 9 + Len(diff)
      BY <1>2, <1>4
    <2> HIDE DEF n, f, diff
    <2>3. f \in Seq(S) /\ Len(f) = n /\ \A i \in 1..n : f[i] = file[i]
      <3>1. /\ f \in Seq(S) /\ Len(f) = IF 1 <= n THEN n - 1 + 1 ELSE 0
            /\ \A i \in 1..n - 1 + 1 : f[i] = file[1 + i - 1]
        <4>1. \A i \in 1..n : file[i] \in S
          BY <1>3, <2>2, <1>2
        <4> QED
          BY <2>1, <2>2, <4>1, SubSeqProperties
      <3> QED
        BY <2>2, <3>1
    <2>4. CASE n >= 9
      <3>1. SubSeq(f, 8, 9) = SubSeq(file, 8, 9)
        <4>1. f[8] = file[8] /\ f[9] = file[9] /\ Len(file) >= 9
          BY <1>2, <1>3, <2>3, <2>4
        <4> QED
          BY <1>3, <2>3, <2>4, <4>1, HashCells
      <3>2. f[7] = Len(diff)
        BY <1>3, <2>2, <2>3, <2>4
      <3> QED
        BY <1>2, <1>3, <1>5, <2>3, <2>4, <3>1, <3>2
    <2>5. CASE n < 7
      <3>1. ~HasHeader(f)
        BY <2>3, <2>5 DEF HasHeader, HeaderLen
      <3>2. ReadDeltaFile(f, to) = Refused
        BY <3>1 DEF ReadDeltaFile
      <3> QED
        BY <3>2, RefusedIs
    <2>6. CASE n \in {7, 8}
      <3>1. From(f, 9) = <<>>
        BY <2>3, <2>6 DEF From
      <3>2. f[7] = Len(diff)
        BY <1>3, <2>3, <2>6
      <3>3. CASE Len(diff) = 0
        <4>1. diff = <<>>
          BY <1>2, <3>3
        <4> QED
          BY <1>6, <3>1, <3>2, <4>1
      <3>4. CASE Len(diff) # 0
        <4>1. ReadHeader(f).size = Len(diff)
          BY <3>2 DEF ReadHeader, SizeAt
        <4>2. Len(diff) > Len(From(f, HeaderLen + HashLen))
          BY <1>2, <3>1, <3>4 DEF HeaderLen, HashLen
        <4>3. ReadDeltaFile(f, to) = Refused
          BY <1>2, <4>1, <4>2 DEF ReadDeltaFile
        <4> QED
          BY <4>3, RefusedIs
      <3> QED
        BY <3>3, <3>4
    <2> QED
      BY <2>2, <2>4, <2>5, <2>6
  <1>10. ASSUME harm = "cell", ~Oversized(harm, at, v) PROVE result \in {new, Error}
    <2> DEFINE w == IF at \in 8..9 THEN [of |-> <<>>, part |-> v] ELSE v
    <2>1. f = [file EXCEPT ![at] = w]
      BY <1>10 DEF Harmed, HeaderLen, HashLen
    <2>6. at \notin 8..9 => w = v
      OBVIOUS
    <2> HIDE DEF w
    <2> HIDE DEF f, diff
    <2> DEFINE T == S \cup {w}
    <2>5. file \in Seq(T)
      BY <1>3
    <2>2. /\ f \in Seq(T) /\ Len(f) = 9 + Len(diff)
          /\ \A i \in 1..9 + Len(diff) : i # at => f[i] = file[i]
      <3> QED
        BY <1>2, <1>3, <2>1, <2>5, ExceptSeq
    <2> HIDE DEF T
    <2>3. CASE at \in 8..9
      <3>1. From(f, 9) = diff
        <4> DEFINE rest == From(f, 9)
        <4>1. /\ rest \in Seq(T) /\ Len(rest) = Len(f) - 9
              /\ \A i \in 1..(Len(f) - 9) : rest[i] = f[9 + i]
          <5>1. 9 \in Nat /\ 9 <= Len(f) /\ f \in Seq(T)
            BY <1>2, <2>2
          <5> QED
            BY <5>1, FromOf, Zenon
        <4> HIDE DEF rest
        <4>2. Len(rest) = Len(diff)
          BY <1>2, <2>2, <4>1
        <4>3. ASSUME NEW i \in 1..Len(diff) PROVE rest[i] = diff[i]
          <5>1. i \in 1..(Len(f) - 9) /\ 9 + i \in 1..9 + Len(diff) /\ 9 + i # at
            BY <1>2, <2>2, <2>3
          <5> QED
            BY <5>1, <4>1, <2>2, <1>3
        <4>4. rest \in Seq(T \cup Nat) /\ diff \in Seq(T \cup Nat)
          BY <1>2, <4>1
        <4>5. rest = diff
          BY <4>2, <4>3, <4>4, SeqEqual
        <4> QED
          BY <4>5 DEF rest
      <3>2. f[7] = Len(diff)
        <4>1. 7 \in 1..9 + Len(diff) /\ 7 # at
          BY <1>2, <2>3
        <4> QED
          BY <1>3, <2>2, <4>1
      <3> QED
        BY <1>6, <3>1, <3>2
    <2>4. CASE at \notin 8..9
      <3>1. f[8] = file[8] /\ f[9] = file[9] /\ Len(f) >= 9 /\ Len(file) >= 9
        BY <1>2, <1>3, <2>2, <2>4
      <3>2. SubSeq(f, 8, 9) = SubSeq(file, 8, 9)
        BY <2>2, <2>5, <3>1, HashCells
      <3>3. ~(f[7] > MaxAlloc)
        <4>1. CASE at = 7
          <5>1. w = v
            BY <2>4, <2>6
          <5>2. f[7] = w
            BY <1>2, <1>3, <2>1, <2>5, <4>1
          <5> QED
            BY <1>10, <4>1, <5>1, <5>2 DEF Oversized, SizeAt
        <4>2. CASE at # 7
          BY <1>2, <1>3, <2>2, <4>2
        <4> QED
          BY <4>1, <4>2
      <3> QED
        BY <1>3, <1>5, <2>2, <3>1, <3>2, <3>3
    <2> QED
      BY <2>3, <2>4
  <1> QED
    <2>1. harm \in {"none", "cut"} => ~Oversized(harm, at, v)
      BY DEF Oversized
    <2> HIDE DEF result
    <2> QED
      BY <1>8, <1>9, <1>10, <1>7, <2>1 DEF Harm

\* Data of any length, versions of any value, and any one cell that changes.
THEOREM DeltaFilesRestore == Spec => []DeltaFileRestores
  <1>1. Init => DeltaFileRestores
    BY DEF Init, Idle, DeltaFileRestores
  <1>2. ASSUME CarryDelta PROVE DeltaFileRestores'
    <2>1. PICK old \in Serialised, new \in Serialised, to \in DeltaVersions :
            LET file == WriteDeltaFile(old, new, to - 1, to) IN
            \E harm \in Harm : \E at \in DOMAIN file :
              \E v \in DeltaVersions \cup Cells :
                Called([api |-> "file", old |-> old, new |-> new,
                        oversized |-> Oversized(harm, at, v)],
                       PatchFences(old, ReadDeltaFile(Harmed(file, harm, at, v), to)))
      BY <1>2 DEF CarryDelta
    <2> DEFINE file == WriteDeltaFile(old, new, to - 1, to)
    <2> HIDE DEF file
    <2>2. PICK harm \in Harm, at \in DOMAIN file, v \in DeltaVersions \cup Cells :
            /\ call' = [api |-> "file", old |-> old, new |-> new,
                        oversized |-> Oversized(harm, at, v)]
            /\ answer' = PatchFences(old, ReadDeltaFile(Harmed(file, harm, at, v), to))
      BY <2>1 DEF Called, file
    <2>3. file = WriteDeltaFile(old, new, to - 1, to)
      BY DEF file
    <2>4. answer' \in IF Oversized(harm, at, v) THEN {Panic} ELSE {Error, new}
      BY <2>2, <2>3, HarmedIs
    <2> QED
      BY <2>2, <2>4 DEF DeltaFileRestores
  <1>3. DeltaFileRestores /\ [Next]_<<call, answer>> => DeltaFileRestores'
    BY <1>2, CallIs DEF DeltaFileRestores
  <1> QED
    BY <1>1, <1>3, PTL DEF Spec

-----------------------------------------------------------------------------
(* Places of identifiers, and the leaves of a collection. *)

LEMMA PresentIs ==
  ASSUME NEW c
  PROVE  Present(c) \in SUBSET Nat /\ IsFiniteSet(Present(c))
  <1>1. Present(c) \in SUBSET Ids
    BY DEF Present
  <1>2. IsFiniteSet(Ids) /\ Ids \subseteq Nat
    BY FencesAssumption
  <1> QED
    BY <1>1, <1>2, FS_Subset

\* The n-th of n identifiers has as many before it.
LEMMA PlaceIs ==
  ASSUME NEW ids \in SUBSET Nat, IsFiniteSet(ids)
  PROVE  /\ Cardinality(ids) \in Nat
         /\ \A i \in ids : Place(ids, i) \in 1..Cardinality(ids)
         /\ \A i, j \in ids : Place(ids, i) = Place(ids, j) => i = j
         /\ \A n \in 1..Cardinality(ids) : \E i \in ids : Place(ids, i) = n
  <1> DEFINE n == Cardinality(ids)
             Upto(i) == {j \in ids : j <= i}
             f == [i \in ids |-> Place(ids, i)]
  <1>1. n \in Nat
    BY FS_CardinalityType
  <1>2. ASSUME NEW i \in ids
        PROVE  /\ IsFiniteSet(Upto(i)) /\ Place(ids, i) = Cardinality(Upto(i))
               /\ Place(ids, i) \in 1..n
    <2>1. Upto(i) \in SUBSET ids /\ i \in Upto(i)
      OBVIOUS
    <2>2. IsFiniteSet(Upto(i)) /\ Cardinality(Upto(i)) <= n
      BY <2>1, FS_Subset
    <2>3. Cardinality(Upto(i)) \in Nat
      BY <2>2, FS_CardinalityType
    <2>4. Cardinality(Upto(i)) # 0
      BY <2>1, <2>2, FS_EmptySet
    <2>5. Place(ids, i) = Cardinality(Upto(i))
      BY DEF Place
    <2> HIDE DEF Upto, n
    <2> QED
      BY <1>1, <2>2, <2>3, <2>4, <2>5
  <1>3. ASSUME NEW i \in ids, NEW j \in ids, i < j
        PROVE  Place(ids, i) # Place(ids, j)
    <2>0. i \in Nat /\ j \in Nat /\ \A k \in ids : k \in Nat
      OBVIOUS
    <2>1. Upto(i) \in SUBSET Upto(j) /\ j \in Upto(j) /\ j \notin Upto(i)
      <3>1. \A k \in ids : k <= i => k <= j
        BY <2>0, <1>3
      <3>2. ~(j <= i) /\ j <= j
        BY <2>0, <1>3
      <3> QED
        BY <3>1, <3>2
    <2>2. Upto(i) # Upto(j)
      BY <2>1
    <2> HIDE DEF Upto
    <2> QED
      BY <1>2, <2>1, <2>2, FS_Subset
  <1>4. ASSUME NEW i \in ids, NEW j \in ids, Place(ids, i) = Place(ids, j)
        PROVE  i = j
    <2>1. i < j \/ j < i \/ i = j
      OBVIOUS
    <2> QED
      BY <1>3, <1>4, <2>1
  <1>5. f \in Surjection(ids, 1..n)
    <2>1. f \in Injection(ids, 1..n)
      BY <1>2, <1>4 DEF Injection, IsInjective
    <2>2. IsFiniteSet(1..n) /\ Cardinality(1..n) = n
      <3>1. 1 \in Int /\ n \in Int
        BY <1>1
      <3> HIDE DEF n
      <3>2. IsFiniteSet(1..n) /\ Cardinality(1..n) = IF 1 > n THEN 0 ELSE n - 1 + 1
        BY <3>1, FS_Interval, Zenon
      <3> QED
        BY <1>1, <3>2
    <2> HIDE DEF f
    <2> QED
      BY <2>1, <2>2, FS_Injection
  <1>6. ASSUME NEW m \in 1..n PROVE \E i \in ids : Place(ids, i) = m
    BY <1>5 DEF Surjection
  <1> QED
    BY <1>1, <1>2, <1>4, <1>6

\* There is a leaf for each fence, in the place of its identifier.
LEMMA LeavesAre ==
  ASSUME NEW c
  PROVE  LET n == Cardinality(Present(c)) IN
         /\ n \in Nat
         /\ \E S : Leaves(c) \in Seq(S)
         /\ Len(Leaves(c)) = n
         /\ \A id \in Present(c) :
              /\ Place(Present(c), id) \in 1..n
              /\ Leaves(c)[Place(Present(c), id)] = Leaf(id, c[id])
         /\ \A i \in 1..n : \E id \in Present(c) :
              Place(Present(c), id) = i /\ Leaves(c)[i] = Leaf(id, c[id])
  <1> DEFINE ids == Present(c)
             n == Cardinality(ids)
             At(i) == CHOOSE id \in ids : Place(ids, id) = i
             s == Leaves(c)
  <1>1. ids \in SUBSET Nat /\ IsFiniteSet(ids)
    BY PresentIs
  <1>2. s = [i \in 1..n |-> Leaf(At(i), c[At(i)])]
    BY DEF Leaves
  <1> HIDE DEF ids, s
  <1>3. /\ n \in Nat
        /\ \A i \in ids : Place(ids, i) \in 1..n
        /\ \A i, j \in ids : Place(ids, i) = Place(ids, j) => i = j
        /\ \A m \in 1..n : \E i \in ids : Place(ids, i) = m
    BY <1>1, PlaceIs
  <1>4. \A i \in 1..n : At(i) \in ids /\ Place(ids, At(i)) = i
    BY <1>3
  <1>5. \A id \in ids : At(Place(ids, id)) = id
    BY <1>3
  <1> HIDE DEF At, n
  <1>6. \A id \in ids : s[Place(ids, id)] = Leaf(id, c[id])
    BY <1>2, <1>3, <1>5
  <1>7. \A i \in 1..n : \E id \in ids : Place(ids, id) = i /\ s[i] = Leaf(id, c[id])
    BY <1>2, <1>4
  <1>8. s \in Seq({s[i] : i \in 1..n}) /\ Len(s) = n
    BY <1>2, <1>3
  <1> QED
    BY <1>3, <1>6, <1>7, <1>8 DEF ids, s, n

LEMMA LeafIsIdeal ==
  ASSUME NEW i, NEW j, NEW f, NEW g
  PROVE  Leaf(i, f) = Leaf(j, g) <=>
           /\ i = j /\ f.fields = g.fields
           /\ f.geometry = g.geometry /\ f.keyID = g.keyID
  <1>1. Leaf(i, f).of = <<i, f.fields, f.geometry, f.keyID>>
    BY DEF Leaf, Hash
  <1>2. Leaf(j, g).of = <<j, g.fields, g.geometry, g.keyID>>
    BY DEF Leaf, Hash
  <1> QED
    BY <1>1, <1>2 DEF Leaf, Hash

LEMMA SameFenceIs ==
  ASSUME NEW f \in Fence, NEW g \in Fence
  PROVE  SameFence(f, g) <=> /\ f.fields = g.fields
                             /\ f.geometry = g.geometry /\ f.keyID = g.keyID
  BY DEF SameFence, Fence

-----------------------------------------------------------------------------
(* The levels of a tree. *)

\* Each level is made from the one below.
LEMMA LevelsAre ==
  ASSUME NEW nodes
  PROVE  /\ Levels(nodes)[0] = nodes
         /\ \A k \in Nat : Levels(nodes)[k + 1] = Level(Levels(nodes)[k])
  <1> DEFINE start == nodes
             Up(k, w) == Level(w)
             IsIt(g) == g = [k \in Nat |-> IF k = 0 THEN start ELSE Up(k, g[k - 1])]
             it == CHOOSE g : IsIt(g)
             Starts(n, g) == /\ g[0] = start
                             /\ \A i \in 0..n - 1 : g[i + 1] = Up(i + 1, g[i])
             Some == {n \in Nat : \E g : Starts(n, g)}
             part == [n \in Nat |-> CHOOSE g : Starts(n, g)]
             values == {part[n][i] : n \in Nat, i \in Nat}
             step == [x \in Nat \X values |-> Up(x[1] + 1, x[2])]
             f == [n \in Nat |-> part[n][n]]
  <1>1. Levels(nodes) = it
    BY DEF Levels
  <1> HIDE DEF Up, start, IsIt, it
  <1>2. \A n \in Nat : n \in Some
    <2>1. 0 \in Some
      <3>1. Starts(0, [i \in 0..0 |-> start])
        OBVIOUS
      <3> QED
        BY <3>1
    <2>2. ASSUME NEW n \in Nat, n \in Some PROVE n + 1 \in Some
      <3>1. PICK g : Starts(n, g)
        BY <2>2
      <3> DEFINE h == [i \in 0..n + 1 |-> IF i <= n THEN g[i] ELSE Up(n + 1, g[n])]
      <3>2. h[0] = start
        BY <3>1
      <3>3. ASSUME NEW i \in 0..(n + 1) - 1 PROVE h[i + 1] = Up(i + 1, h[i])
        BY <3>1
      <3> HIDE DEF h
      <3>4. Starts(n + 1, h)
        BY <3>2, <3>3
      <3> QED
        BY <3>4
    <2> HIDE DEF Some
    <2> QED
      BY <2>1, <2>2, AllNats
  <1>3. \A n \in Nat : Starts(n, part[n])
    BY <1>2
  <1> HIDE DEF part
  <1>4. ASSUME NEW n \in Nat, NEW i \in Nat
        PROVE  step[<<i, part[n][i]>>] = Up(i + 1, part[n][i])
    <2>1. <<i, part[n][i]>> \in Nat \X values
      OBVIOUS
    <2> HIDE DEF values
    <2> QED
      BY <2>1
  <1> HIDE DEF step
  <1>5. \A n \in Nat : /\ part[n][0] = part[0][0]
                       /\ \A i \in 0..n - 1 : part[n][i + 1] = step[<<i, part[n][i]>>]
    BY <1>3, <1>4
  <1>6. f[0] = start
    BY <1>3
  <1>7. ASSUME NEW n \in Nat PROVE f[n + 1] = Up(n + 1, f[n])
    <2>1. part[n + 1][n + 1] = step[<<n, part[n][n]>>]
      BY <1>5, Glued
    <2>2. f[n + 1] = part[n + 1][n + 1] /\ f[n] = part[n][n]
      OBVIOUS
    <2>3. step[<<n, part[n][n]>>] = Up(n + 1, part[n][n])
      BY <1>4
    <2> QED
      BY <2>1, <2>2, <2>3
  <1>8. f = [n \in Nat |-> f[n]]
    OBVIOUS
  <1> HIDE DEF f
  <1>9. ASSUME NEW k \in Nat PROVE f[k] = IF k = 0 THEN start ELSE Up(k, f[k - 1])
    <2>1. CASE k = 0
      BY <2>1, <1>6
    <2>2. CASE k # 0
      <3>1. k - 1 \in Nat /\ (k - 1) + 1 = k
        BY <2>2
      <3> QED
        BY <3>1, <1>7, <2>2
    <2> QED
      BY <2>1, <2>2
  <1>10. IsIt(f)
    BY <1>8, <1>9 DEF IsIt
  <1>11. IsIt(it)
    BY <1>10 DEF it
  <1>12. \A k \in Nat : it[k] = IF k = 0 THEN start ELSE Up(k, it[k - 1])
    <2>1. it = [k \in Nat |-> IF k = 0 THEN start ELSE Up(k, it[k - 1])]
      BY <1>11 DEF IsIt
    <2> QED
      BY <2>1
  <1>13. it[0] = start
    BY <1>12
  <1>14. ASSUME NEW k \in Nat PROVE it[k + 1] = Up(k + 1, it[k])
    <2>1. k + 1 \in Nat /\ k + 1 # 0 /\ (k + 1) - 1 = k
      OBVIOUS
    <2> QED
      BY <1>12, <2>1
  <1> QED
    BY <1>1, <1>13, <1>14 DEF start, Up

\* Half as many nodes, rounded up.
LEMMA LevelIs ==
  ASSUME NEW S, NEW nodes \in Seq(S)
  PROVE  /\ \E T : Level(nodes) \in Seq(T)
         /\ Len(Level(nodes)) = (Len(nodes) + 1) \div 2
         /\ \A i \in 1..(Len(nodes) + 1) \div 2 :
              Level(nodes)[i] =
                Hash(IF 2 * i <= Len(nodes) THEN <<nodes[2 * i - 1], nodes[2 * i]>>
                     ELSE <<nodes[2 * i - 1]>>)
  <1> DEFINE h == (Len(nodes) + 1) \div 2
             level == Level(nodes)
             Node(i) == Hash(IF 2 * i <= Len(nodes) THEN <<nodes[2 * i - 1], nodes[2 * i]>>
                             ELSE <<nodes[2 * i - 1]>>)
  <1>1. h \in Nat
    OBVIOUS
  <1>2. level = [i \in 1..h |-> Node(i)]
    BY DEF Level
  <1> HIDE DEF h, level, Node
  <1>3. level \in Seq({Node(i) : i \in 1..h}) /\ Len(level) = h
        /\ \A i \in 1..h : level[i] = Node(i)
    BY <1>1, <1>2
  <1> QED
    BY <1>3 DEF h, level, Node

\* An ideal hash gives its data away.
LEMMA HashIs == ASSUME NEW x, NEW y, Hash(x) = Hash(y) PROVE x = y
  <1>1. Hash(x).of = x /\ Hash(y).of = y
    BY DEF Hash
  <1> QED
    BY <1>1

LEMMA PairIsNotSingle ==
  \A a, b, c, d : /\ <<a>> = <<b>> <=> a = b
                  /\ <<a, b>> = <<c, d>> <=> a = c /\ b = d
                  /\ <<a>> # <<b, c>>
  <1> TAKE a, b, c, d
  <1>1. Len(<<a>>) = 1 /\ Len(<<b, c>>) = 2
    OBVIOUS
  <1> QED
    BY <1>1

\* The nodes of a level give away those of the level below.
LEMMA LevelIsIdeal ==
  ASSUME NEW S, NEW a \in Seq(S), NEW T, NEW b \in Seq(T), Level(a) = Level(b)
  PROVE  a = b
  <1> DEFINE m == Len(a)
             n == Len(b)
             h == (m + 1) \div 2
  <1>1. m \in Nat /\ n \in Nat /\ h \in Nat /\ h = (n + 1) \div 2
    <2>1. Len(Level(a)) = (m + 1) \div 2
      BY LevelIs
    <2>2. Len(Level(b)) = (n + 1) \div 2
      BY LevelIs
    <2>3. m \in Nat /\ n \in Nat
      OBVIOUS
    <2> HIDE DEF m, n
    <2> QED
      BY <2>1, <2>2, <2>3
  <1>2. \A i \in 1..h :
          (IF 2 * i <= m THEN <<a[2 * i - 1], a[2 * i]>> ELSE <<a[2 * i - 1]>>) =
          (IF 2 * i <= n THEN <<b[2 * i - 1], b[2 * i]>> ELSE <<b[2 * i - 1]>>)
    <2> TAKE i \in 1..h
    <2>1. Level(a)[i] = Hash(IF 2 * i <= m THEN <<a[2 * i - 1], a[2 * i]>>
                             ELSE <<a[2 * i - 1]>>)
      BY LevelIs
    <2>2. Level(b)[i] = Hash(IF 2 * i <= n THEN <<b[2 * i - 1], b[2 * i]>>
                             ELSE <<b[2 * i - 1]>>)
      <3>1. i \in 1..(n + 1) \div 2
        BY <1>1
      <3> QED
        BY <3>1, LevelIs
    <2> QED
      BY <2>1, <2>2, HashIs
  <1>3. (2 * h = m \/ 2 * h = m + 1) /\ (2 * h = n \/ 2 * h = n + 1)
    BY <1>1
  <1> HIDE DEF m, n, h
  <1>4. ASSUME NEW i \in 1..h
        PROVE  /\ 2 * i <= m <=> 2 * i <= n
               /\ a[2 * i - 1] = b[2 * i - 1]
               /\ 2 * i <= m => a[2 * i] = b[2 * i]
    BY <1>2, PairIsNotSingle
  <1>5. m = n
    <2>1. CASE h = 0
      BY <1>1, <1>3, <2>1
    <2>2. CASE h # 0
      <3>1. h \in 1..h
        BY <1>1, <2>2
      <3>2. 2 * h <= m <=> 2 * h <= n
        BY <1>4, <3>1
      <3> QED
        BY <1>1, <1>3, <3>2
    <2> QED
      BY <2>1, <2>2
  <1>6. ASSUME NEW i \in 1..m PROVE a[i] = b[i]
    <2>1. PICK k \in 1..h : i = 2 * k - 1 \/ i = 2 * k
      <3> DEFINE k == (i + 1) \div 2
      <3>1. k \in Nat /\ (i + 1 = 2 * k \/ i + 1 = 2 * k + 1)
        OBVIOUS
      <3>2. k \in 1..h
        BY <1>1, <1>3, <3>1
      <3> QED
        BY <3>1, <3>2
    <2>2. i = 2 * k - 1 => a[i] = b[i]
      BY <1>4
    <2>3. i = 2 * k => a[i] = b[i]
      BY <1>1, <1>4
    <2> QED
      BY <2>1, <2>2, <2>3
  <1>7. a \in Seq(S \cup T) /\ b \in Seq(S \cup T)
    OBVIOUS
  <1> QED
    BY <1>5, <1>6, <1>7, SeqEqual DEF m, n

\* Levels of at least one node, that get smaller down to one node.
LEMMA LevelsType ==
  ASSUME NEW S, NEW nodes \in Seq(S), Len(nodes) >= 1, NEW k \in Nat
  PROVE  /\ \E T : Levels(nodes)[k] \in Seq(T)
         /\ Len(Levels(nodes)[k]) \in Nat /\ Len(Levels(nodes)[k]) >= 1
         /\ Len(Levels(nodes)[k]) = 1 \/ Len(Levels(nodes)[k]) + k <= Len(nodes)
  <1> DEFINE level == Levels(nodes)
             n == Len(nodes)
             Fits(i) == /\ \E T : level[i] \in Seq(T)
                        /\ Len(level[i]) \in Nat /\ Len(level[i]) >= 1
                        /\ Len(level[i]) = 1 \/ Len(level[i]) + i <= n
             Fitting == {i \in Nat : Fits(i)}
  <1>1. level[0] = nodes /\ \A i \in Nat : level[i + 1] = Level(level[i])
    BY LevelsAre
  <1>2. n \in Nat
    OBVIOUS
  <1> HIDE DEF level
  <1>3. 0 \in Fitting
    <2>1. \E T : level[0] \in Seq(T)
      BY <1>1
    <2>2. Len(level[0]) = n /\ n >= 1
      BY <1>1
    <2> HIDE DEF n
    <2> QED
      BY <1>2, <2>1, <2>2
  <1>4. ASSUME NEW i \in Nat, i \in Fitting PROVE i + 1 \in Fitting
    <2>1. PICK T : level[i] \in Seq(T)
      BY <1>4
    <2> DEFINE m == Len(level[i])
    <2>2. m \in Nat /\ m >= 1 /\ (m = 1 \/ m + i <= n)
      BY <1>4
    <2>3. /\ \E U : level[i + 1] \in Seq(U)
          /\ Len(level[i + 1]) = (m + 1) \div 2
      BY <1>1, <2>1, LevelIs
    <2> HIDE DEF m, n
    <2>4. (m + 1) \div 2 \in Nat /\ (m + 1) \div 2 >= 1
          /\ ((m + 1) \div 2 = 1 \/ (m + 1) \div 2 + (i + 1) <= n)
      BY <1>2, <2>2
    <2>5. Fits(i + 1)
      BY <2>3, <2>4
    <2> HIDE DEF Fits
    <2> QED
      BY <2>5
  <1> HIDE DEF Fitting
  <1>5. k \in Fitting
    BY <1>3, <1>4, AllNats
  <1> QED
    BY <1>5 DEF Fitting, level

\* The root is alone in its level.
LEMMA HeightIs ==
  ASSUME NEW S, NEW nodes \in Seq(S), Len(nodes) >= 1
  PROVE  /\ Height(nodes) \in Nat /\ Height(nodes) <= Len(nodes)
         /\ Len(Levels(nodes)[Height(nodes)]) = 1
         /\ \A k \in Nat : Len(Levels(nodes)[k]) = 1 => Height(nodes) <= k
  <1> DEFINE n == Len(nodes)
             tops == {k \in 0..n : Len(Levels(nodes)[k]) = 1}
  <1>1. n \in Nat
    OBVIOUS
  <1>2. n \in tops
    <2>1. /\ Len(Levels(nodes)[n]) \in Nat /\ Len(Levels(nodes)[n]) >= 1
          /\ Len(Levels(nodes)[n]) = 1 \/ Len(Levels(nodes)[n]) + n <= n
      BY <1>1, LevelsType
    <2> HIDE DEF n
    <2>2. Len(Levels(nodes)[n]) = 1
      BY <1>1, <2>1
    <2> QED
      BY <1>1, <2>2
  <1>3. tops \in SUBSET Nat
    BY <1>1
  <1>4. Min(tops) \in tops /\ \A k \in tops : Min(tops) <= k
    <2> HIDE DEF tops
    <2> QED
      BY <1>2, <1>3, LeastFetch
  <1>5. Height(nodes) = Min(tops)
    BY DEF Height
  <1>6. ASSUME NEW k \in Nat, Len(Levels(nodes)[k]) = 1 PROVE Min(tops) <= k
    <2>1. CASE k \in 0..n
      BY <1>4, <1>6, <2>1
    <2>2. CASE k \notin 0..n
      <3>1. n <= k
        BY <1>1, <2>2
      <3>2. Min(tops) \in Nat /\ Min(tops) <= n
        BY <1>1, <1>4
      <3> HIDE DEF tops, n
      <3> QED
        BY <1>1, <3>1, <3>2
    <2> QED
      BY <2>1, <2>2
  <1>7. Min(tops) \in Nat /\ Min(tops) <= n /\ Len(Levels(nodes)[Min(tops)]) = 1
    BY <1>1, <1>4
  <1> QED
    BY <1>5, <1>6, <1>7

\* Two trees that have a level in common have those below in common.
LEMMA SameLevels ==
  ASSUME NEW S, NEW a \in Seq(S), Len(a) >= 1, NEW T, NEW b \in Seq(T), Len(b) >= 1,
         NEW h \in Nat, NEW k \in Nat, h <= k, Levels(a)[h] = Levels(b)[k]
  PROVE  a = Levels(b)[k - h]
  <1> DEFINE Down == {i \in Nat : \A j \in Nat :
                        i <= j /\ Levels(a)[i] = Levels(b)[j] => a = Levels(b)[j - i]}
  <1>1. 0 \in Down
    <2>1. \A j \in Nat : j - 0 = j
      OBVIOUS
    <2>2. Levels(a)[0] = a
      BY LevelsAre
    <2> QED
      BY <2>1, <2>2
  <1>2. ASSUME NEW i \in Nat, i \in Down PROVE i + 1 \in Down
    <2>1. ASSUME NEW j \in Nat, i + 1 <= j, Levels(a)[i + 1] = Levels(b)[j]
          PROVE  a = Levels(b)[j - (i + 1)]
      <3>1. j - 1 \in Nat /\ i <= j - 1 /\ (j - 1) + 1 = j /\ (j - 1) - i = j - (i + 1)
        BY <2>1
      <3>2. Level(Levels(a)[i]) = Level(Levels(b)[j - 1])
        BY <2>1, <3>1, LevelsAre
      <3>3. PICK U : Levels(a)[i] \in Seq(U)
        BY LevelsType
      <3>4. PICK V : Levels(b)[j - 1] \in Seq(V)
        BY <3>1, LevelsType
      <3>5. Levels(a)[i] = Levels(b)[j - 1]
        BY <3>2, <3>3, <3>4, LevelIsIdeal
      <3> QED
        BY <1>2, <3>1, <3>5
    <2> QED
      BY <2>1
  <1> HIDE DEF Down
  <1>3. h \in Down
    BY <1>1, <1>2, AllNats
  <1> QED
    BY <1>3 DEF Down

AreLeaves(nodes) == \A i \in DOMAIN nodes : \E id, f : nodes[i] = Leaf(id, f)

\* A level of inner nodes is none of leaves.
LEMMA InnerIs ==
  ASSUME NEW S, NEW nodes \in Seq(S), Len(nodes) >= 1
  PROVE  /\ Level(nodes)[1] = Hash(<<nodes[1]>>) \/ Level(nodes)[1] = Hash(<<nodes[1], nodes[2]>>)
         /\ \A id, f : Level(nodes)[1] # Leaf(id, f)
         /\ Level(nodes)[1] # Hash(<<>>)
  <1>1. \/ Level(nodes)[1] = Hash(<<nodes[1]>>)
        \/ Level(nodes)[1] = Hash(<<nodes[1], nodes[2]>>)
    <2>1. 1 \in 1..(Len(nodes) + 1) \div 2
      OBVIOUS
    <2>2. Level(nodes)[1] =
            Hash(IF 2 * 1 <= Len(nodes) THEN <<nodes[2 * 1 - 1], nodes[2 * 1]>>
                 ELSE <<nodes[2 * 1 - 1]>>)
      BY <2>1, LevelIs
    <2>3. 2 * 1 - 1 = 1 /\ 2 * 1 = 2
      OBVIOUS
    <2> QED
      BY <2>2, <2>3
  <1>2. \A x, y, z, u, v, w :
          <<x>> # <<>> /\ <<x, y>> # <<>> /\ <<x>> # <<z, u, v, w>> /\ <<x, y>> # <<z, u, v, w>>
    <2> TAKE x, y, z, u, v, w
    <2>1. Len(<<x>>) = 1 /\ Len(<<x, y>>) = 2 /\ Len(<<>>) = 0 /\ Len(<<z, u, v, w>>) = 4
      OBVIOUS
    <2> QED
      BY <2>1
  <1>3. \A id, f : Level(nodes)[1] # Leaf(id, f)
    <2> TAKE id, f
    <2>1. Leaf(id, f) = Hash(<<id, f.fields, f.geometry, f.keyID>>)
      BY DEF Leaf
    <2> QED
      BY <1>1, <1>2, <2>1, HashIs
  <1>4. Level(nodes)[1] # Hash(<<>>)
    BY <1>1, <1>2, HashIs
  <1> QED
    BY <1>1, <1>3, <1>4

\* The root of a tree gives away its leaves, if it is at most as high.
LEMMA LowerTree ==
  ASSUME NEW S, NEW a \in Seq(S), Len(a) >= 1, AreLeaves(a),
         NEW T, NEW b \in Seq(T), Len(b) >= 1,
         BuildTree(a) = BuildTree(b), Height(a) <= Height(b)
  PROVE  a = b
  <1> DEFINE h == Height(a)
             k == Height(b)
  <1>1. /\ h \in Nat /\ Len(Levels(a)[h]) = 1
        /\ k \in Nat /\ Len(Levels(b)[k]) = 1
    BY HeightIs
  <1>2. Levels(a)[h][1] = Levels(b)[k][1]
    BY DEF BuildTree
  <1> HIDE DEF h, k
  <1>3. Levels(a)[h] = Levels(b)[k]
    <2>1. PICK U : Levels(a)[h] \in Seq(U)
      BY <1>1, LevelsType
    <2>2. PICK V : Levels(b)[k] \in Seq(V)
      BY <1>1, LevelsType
    <2>3. Levels(a)[h] \in Seq(U \cup V) /\ Levels(b)[k] \in Seq(U \cup V)
      BY <2>1, <2>2
    <2>4. \A i \in 1..Len(Levels(a)[h]) : Levels(a)[h][i] = Levels(b)[k][i]
      BY <1>1, <1>2
    <2> QED
      BY <1>1, <2>3, <2>4, SeqEqual
  <1>4. a = Levels(b)[k - h]
    BY <1>1, <1>3, SameLevels DEF h, k
  <1>5. CASE k = h
    <2>1. k - h = 0
      BY <1>1, <1>5
    <2> QED
      BY <1>4, <2>1, LevelsAre
  <1>6. CASE k # h
    <2> DEFINE i == k - h - 1
    <2>1. i \in Nat /\ i + 1 = k - h
      BY <1>1, <1>6 DEF h, k
    <2> HIDE DEF i
    <2>2. a = Level(Levels(b)[i])
      BY <1>4, <2>1, LevelsAre
    <2>3. PICK V : Levels(b)[i] \in Seq(V)
      BY <2>1, LevelsType
    <2>4. Len(Levels(b)[i]) >= 1
      BY <2>1, LevelsType
    <2>5. \A id, f : a[1] # Leaf(id, f)
      BY <2>2, <2>3, <2>4, InnerIs
    <2>6. 1 \in DOMAIN a
      OBVIOUS
    <2> QED
      BY <2>5, <2>6 DEF AreLeaves
  <1> QED
    BY <1>5, <1>6

LEMMA TreeIsIdeal ==
  ASSUME NEW S, NEW a \in Seq(S), Len(a) >= 1, AreLeaves(a),
         NEW T, NEW b \in Seq(T), Len(b) >= 1, AreLeaves(b),
         BuildTree(a) = BuildTree(b)
  PROVE  a = b
  <1>1. Height(a) \in Nat /\ Height(b) \in Nat
    BY HeightIs
  <1>2. CASE Height(a) <= Height(b)
    BY <1>2, LowerTree
  <1>3. CASE Height(b) <= Height(a)
    <2>1. b = a
      BY <1>3, LowerTree
    <2> QED
      BY <2>1
  <1> QED
    BY <1>1, <1>2, <1>3

\* A tree of leaves has not the root of an empty tree.
LEMMA RootIsNotEmpty ==
  ASSUME NEW S, NEW a \in Seq(S), Len(a) >= 1, AreLeaves(a)
  PROVE  BuildTree(a) # Hash(<<>>)
  <1> DEFINE h == Height(a)
  <1>1. h \in Nat
    BY HeightIs
  <1>2. BuildTree(a) = Levels(a)[h][1]
    BY DEF BuildTree
  <1> HIDE DEF h
  <1>3. CASE h = 0
    <2>1. BuildTree(a) = a[1] /\ 1 \in DOMAIN a
      BY <1>2, <1>3, LevelsAre
    <2>2. PICK id, f : a[1] = Leaf(id, f)
      BY <2>1 DEF AreLeaves
    <2>3. <<id, f.fields, f.geometry, f.keyID>> # <<>>
      <3>1. Len(<<id, f.fields, f.geometry, f.keyID>>) = 4 /\ Len(<<>>) = 0
        OBVIOUS
      <3> QED
        BY <3>1
    <2>4. BuildTree(a) = Hash(<<id, f.fields, f.geometry, f.keyID>>)
      BY <2>1, <2>2 DEF Leaf
    <2> QED
      BY <2>3, <2>4, HashIs
  <1>4. CASE h # 0
    <2> DEFINE i == h - 1
    <2>1. i \in Nat /\ i + 1 = h
      BY <1>1, <1>4
    <2> HIDE DEF i
    <2>2. PICK V : Levels(a)[i] \in Seq(V)
      BY <2>1, LevelsType
    <2>3. Len(Levels(a)[i]) >= 1
      BY <2>1, LevelsType
    <2>4. Levels(a)[h] = Level(Levels(a)[i])
      BY <2>1, LevelsAre
    <2> QED
      BY <1>2, <2>2, <2>3, <2>4, InnerIs
  <1> QED
    BY <1>3, <1>4

\* Equal roots mean equal collections, but for the signatures.
LEMMA RootIsIdeal ==
  ASSUME NEW a \in Collection, NEW b \in Collection
  PROVE  RootHash(a) = RootHash(b) <=> SameCollection(a, b)
  <1> DEFINE p == Present(a)
             q == Present(b)
             s == Leaves(a)
             t == Leaves(b)
  <1>1. PICK S : s \in Seq(S)
    BY LeavesAre
  <1>2. PICK T : t \in Seq(T)
    BY LeavesAre
  <1>3. /\ Cardinality(p) \in Nat /\ Len(s) = Cardinality(p)
        /\ \A id \in p : /\ Place(p, id) \in 1..Cardinality(p)
                         /\ s[Place(p, id)] = Leaf(id, a[id])
        /\ \A i \in 1..Cardinality(p) : \E id \in p :
             Place(p, id) = i /\ s[i] = Leaf(id, a[id])
    BY LeavesAre
  <1>4. /\ Cardinality(q) \in Nat /\ Len(t) = Cardinality(q)
        /\ \A id \in q : /\ Place(q, id) \in 1..Cardinality(q)
                         /\ t[Place(q, id)] = Leaf(id, b[id])
        /\ \A i \in 1..Cardinality(q) : \E id \in q :
             Place(q, id) = i /\ t[i] = Leaf(id, b[id])
    BY LeavesAre
  <1>5. /\ \A id \in p : a[id] \in Fence
        /\ \A id \in q : b[id] \in Fence
    BY DEF Present, Collection
  <1>6. /\ RootHash(a) = IF p = {} THEN Hash(<<>>) ELSE BuildTree(s)
        /\ RootHash(b) = IF q = {} THEN Hash(<<>>) ELSE BuildTree(t)
    BY DEF RootHash
  <1>7. SameCollection(a, b) <=>
          p = q /\ \A id \in p : SameFence(a[id], b[id])
    BY DEF SameCollection
  <1> HIDE DEF p, q, s, t
  <1>8. /\ p # {} => Len(s) >= 1
        /\ q # {} => Len(t) >= 1
    BY <1>3, <1>4
  <1>9. AreLeaves(s) /\ AreLeaves(t)
    <2>1. DOMAIN s = 1..Cardinality(p) /\ DOMAIN t = 1..Cardinality(q)
      BY <1>1, <1>2, <1>3, <1>4
    <2> QED
      BY <1>3, <1>4, <2>1 DEF AreLeaves
  <1>10. ASSUME RootHash(a) = RootHash(b)
         PROVE  p = q /\ \A id \in p : SameFence(a[id], b[id])
    <2>1. CASE p = {} \/ q = {}
      BY <1>1, <1>2, <1>6, <1>8, <1>9, <1>10, <2>1, RootIsNotEmpty
    <2>2. CASE p # {} /\ q # {}
      <3>1. s = t
        BY <1>1, <1>2, <1>6, <1>8, <1>9, <1>10, <2>2, TreeIsIdeal
      <3>2. ASSUME NEW id \in p PROVE id \in q /\ Leaf(id, a[id]) = Leaf(id, b[id])
        <4>1. PICK other \in q : s[Place(p, id)] = Leaf(other, b[other])
          BY <1>3, <1>4, <3>1
        <4> QED
          BY <1>3, <4>1, LeafIsIdeal
      <3>3. ASSUME NEW id \in q PROVE id \in p
        <4>1. PICK other \in p : t[Place(q, id)] = Leaf(other, a[other])
          BY <1>3, <1>4, <3>1
        <4> QED
          BY <1>4, <4>1, LeafIsIdeal
      <3>4. ASSUME NEW id \in p PROVE SameFence(a[id], b[id])
        <4>1. a[id] \in Fence /\ b[id] \in Fence /\ Leaf(id, a[id]) = Leaf(id, b[id])
          BY <1>5, <3>2
        <4> QED
          BY <4>1, LeafIsIdeal, SameFenceIs
      <3> QED
        BY <3>2, <3>3, <3>4
    <2> QED
      BY <2>1, <2>2
  <1>11. ASSUME p = q, \A id \in p : SameFence(a[id], b[id])
         PROVE  RootHash(a) = RootHash(b)
    <2>1. \A id \in p : Leaf(id, a[id]) = Leaf(id, b[id])
      BY <1>5, <1>11, LeafIsIdeal, SameFenceIs
    <2>2. ASSUME NEW i \in 1..Len(s) PROVE s[i] = t[i]
      <3>1. PICK id \in p : Place(p, id) = i /\ s[i] = Leaf(id, a[id])
        BY <1>3
      <3> QED
        BY <1>4, <1>11, <2>1, <3>1
    <2>3. s \in Seq(S \cup T) /\ t \in Seq(S \cup T) /\ Len(s) = Len(t)
      BY <1>1, <1>2, <1>3, <1>4, <1>11
    <2>4. s = t
      BY <2>2, <2>3, SeqEqual
    <2> QED
      BY <1>6, <1>11, <2>4
  <1> QED
    BY <1>7, <1>10, <1>11

-----------------------------------------------------------------------------
(* What protobuf carries of a collection. *)

LEMMA AtMostOne ==
  ASSUME NEW g \in Geometry
  PROVE  Cardinality({s \in {"polygon", "center", "bbox"} : g[s] # None}) <= 1 <=>
           /\ g.polygon = None \/ g.center = None
           /\ g.polygon = None \/ g.bbox = None
           /\ g.center = None \/ g.bbox = None
  <1> DEFINE S == {s \in {"polygon", "center", "bbox"} : g[s] # None}
             n == Cardinality(S)
  <1>1. /\ "polygon" \in S <=> g.polygon # None
        /\ "center" \in S <=> g.center # None
        /\ "bbox" \in S <=> g.bbox # None
        /\ S \subseteq {"polygon", "center", "bbox"}
    BY DEF Geometry
  <1>2. IsFiniteSet(S)
    <2>1. IsFiniteSet({"polygon", "center", "bbox"})
      <3>1. {"polygon", "center", "bbox"} = ({"polygon"} \cup {"center"}) \cup {"bbox"}
        OBVIOUS
      <3>2. IsFiniteSet({"polygon"})
        BY FS_Singleton
      <3>3. IsFiniteSet({"polygon"} \cup {"center"})
        BY <3>2, FS_AddElement
      <3>4. IsFiniteSet(({"polygon"} \cup {"center"}) \cup {"bbox"})
        BY <3>3, FS_AddElement
      <3> QED
        BY <3>1, <3>4
    <2> QED
      BY <2>1, FS_Subset
  <1>3. n \in Nat /\ (n = 0 <=> S = {}) /\ (n = 1 <=> \E x : S = {x})
    BY <1>2, FS_CardinalityType, FS_EmptySet, FS_Singleton
  <1> HIDE DEF S
  <1>4. n <= 1 <=> S = {} \/ \E x : S = {x}
    BY <1>3
  <1> HIDE DEF n
  <1>5. ASSUME S = {} \/ \E x : S = {x}
        PROVE  /\ ~("polygon" \in S /\ "center" \in S)
               /\ ~("polygon" \in S /\ "bbox" \in S)
               /\ ~("center" \in S /\ "bbox" \in S)
    BY <1>5
  <1>6. ASSUME /\ ~("polygon" \in S /\ "center" \in S)
               /\ ~("polygon" \in S /\ "bbox" \in S)
               /\ ~("center" \in S /\ "bbox" \in S)
        PROVE  S \in {{}, {"polygon"}, {"center"}, {"bbox"}}
    <2>1. CASE "polygon" \in S
      <3>1. S = {"polygon"}
        BY <1>1, <1>6, <2>1
      <3> QED
        BY <3>1
    <2>2. CASE "center" \in S
      <3>1. S = {"center"}
        BY <1>1, <1>6, <2>2
      <3> QED
        BY <3>1
    <2>3. CASE "bbox" \in S
      <3>1. S = {"bbox"}
        BY <1>1, <1>6, <2>3
      <3> QED
        BY <3>1
    <2>4. CASE "polygon" \notin S /\ "center" \notin S /\ "bbox" \notin S
      <3>1. S = {}
        BY <1>1, <2>4
      <3> QED
        BY <3>1
    <2> QED
      BY <2>1, <2>2, <2>3, <2>4
  <1>7. n <= 1 <=> /\ g.polygon = None \/ g.center = None
                   /\ g.polygon = None \/ g.bbox = None
                   /\ g.center = None \/ g.bbox = None
    BY <1>1, <1>4, <1>5, <1>6
  <1> QED
    BY <1>7 DEF n, S

\* A geometry survives the conversion just when it is simple.
LEMMA ConversionIs ==
  ASSUME NEW g \in Geometry
  PROVE  /\ FromProto(ToProto(g)) \in Geometry
         /\ FromProto(ToProto(g)) = g <=> Simple(g)
  <1> DEFINE r == FromProto(ToProto(g))
  <1>1. /\ g = [polygon |-> g.polygon, center |-> g.center,
                radius |-> g.radius, bbox |-> g.bbox]
        /\ g.polygon \in Polygons \cup {None} /\ g.center \in Centers \cup {None}
        /\ g.radius \in Radii \cup {0} /\ g.bbox \in Boxes \cup {None}
    BY DEF Geometry
  <1>2. Simple(g) <=> /\ g.polygon = None \/ g.center = None
                      /\ g.polygon = None \/ g.bbox = None
                      /\ g.center = None \/ g.bbox = None
                      /\ g.center = None => g.radius = 0
    BY AtMostOne DEF Simple
  <1>3. CASE g.polygon # None
    <2>1. r = [polygon |-> g.polygon, center |-> None, radius |-> 0, bbox |-> None]
      BY <1>3 DEF ToProto, FromProto, NoShape
    <2> QED
      BY <1>1, <1>2, <1>3, <2>1 DEF Geometry
  <1>4. CASE g.polygon = None /\ g.center # None
    <2>1. r = [polygon |-> None, center |-> g.center, radius |-> g.radius, bbox |-> None]
      BY <1>4 DEF ToProto, FromProto, NoShape
    <2> QED
      BY <1>1, <1>2, <1>4, <2>1 DEF Geometry
  <1>5. CASE g.polygon = None /\ g.center = None /\ g.bbox # None
    <2>1. r = [polygon |-> None, center |-> None, radius |-> 0, bbox |-> g.bbox]
      BY <1>5 DEF ToProto, FromProto, NoShape
    <2> QED
      BY <1>1, <1>2, <1>5, <2>1 DEF Geometry
  <1>6. CASE g.polygon = None /\ g.center = None /\ g.bbox = None
    <2>1. r = [polygon |-> None, center |-> None, radius |-> 0, bbox |-> None]
      BY <1>6 DEF ToProto, FromProto, NoShape
    <2> QED
      BY <1>1, <1>2, <1>6, <2>1 DEF Geometry
  <1> QED
    BY <1>3, <1>4, <1>5, <1>6

\* What a client makes of the snapshot of a collection.
LEMMA ReceivedIs ==
  ASSUME NEW c \in Collection
  PROVE  LET r == FenceCollectionFromProto(CreateSnapshot(c)) IN
         /\ r \in Collection
         /\ SameCollection(r, c) => r = c
         /\ SameCollection(r, c) <=> \A id \in Present(c) : Simple(c[id].geometry)
  <1> DEFINE data == CreateSnapshot(c)
             r == FenceCollectionFromProto(data)
             Back(f) == FenceItemFromProto(FenceItemToProto(f))
  <1>1. DOMAIN data = Present(c) /\ \A id \in Present(c) : data[id] = FenceItemToProto(c[id])
    BY DEF CreateSnapshot, FenceCollectionToProto
  <1> HIDE DEF data
  <1>2. r = [id \in Ids |-> IF id \in Present(c) THEN Back(c[id]) ELSE None]
    BY <1>1 DEF FenceCollectionFromProto
  <1> HIDE DEF r
  <1>3. ASSUME NEW f \in Fence
        PROVE  /\ Back(f) \in Fence
               /\ SameFence(Back(f), f) <=> Simple(f.geometry)
               /\ SameFence(Back(f), f) => Back(f) = f
    <2> DEFINE g == FromProto(ToProto(f.geometry))
    <2>1. /\ f = [fields |-> f.fields, geometry |-> f.geometry,
                  keyID |-> f.keyID, signature |-> f.signature]
          /\ f.fields \in Fields /\ f.geometry \in Geometry
          /\ f.keyID \in Keys /\ f.signature \in Signatures
      BY DEF Fence
    <2>2. g \in Geometry /\ (g = f.geometry <=> Simple(f.geometry))
      BY <2>1, ConversionIs
    <2>3. Back(f) = [fields |-> f.fields, geometry |-> g,
                     keyID |-> f.keyID, signature |-> f.signature]
      <3> DEFINE m == FenceItemToProto(f)
      <3>1. m = [fields |-> f.fields, geometry |-> ToProto(f.geometry),
                 keyID |-> f.keyID, signature |-> f.signature]
        <4> HIDE DEF g
        <4> QED
          BY <2>1 DEF FenceItemToProto
      <3> HIDE DEF m
      <3>2. FenceItemFromProto(m) = [m EXCEPT !.geometry = g]
        BY <3>1 DEF FenceItemFromProto
      <3> HIDE DEF g
      <3>3. FenceItemFromProto(m) = [fields |-> f.fields, geometry |-> g,
                                     keyID |-> f.keyID, signature |-> f.signature]
        BY <3>1, <3>2
      <3> QED
        BY <3>3 DEF m
    <2> HIDE DEF g, Back
    <2>4. Back(f) \in Fence
      BY <2>1, <2>2, <2>3 DEF Fence
    <2>5. SameFence(Back(f), f) <=> g = f.geometry
      BY <2>3, <2>4, SameFenceIs
    <2> QED
      BY <2>1, <2>2, <2>3, <2>4, <2>5
  <1> HIDE DEF Back
  <1>4. /\ Present(c) \subseteq Ids
        /\ \A id \in Present(c) : c[id] \in Fence
        /\ \A id \in Ids : id \notin Present(c) => c[id] = None
        /\ c = [id \in Ids |-> c[id]]
    BY DEF Present, Collection
  <1>5. r \in Collection
    BY <1>2, <1>3, <1>4 DEF Collection
  <1>6. Present(r) = Present(c)
    <2>1. \A f \in Fence : f # None
      BY FencesAssumption
    <2>2. \A id \in Ids : id \in Present(c) <=> r[id] # None
      BY <1>2, <1>3, <1>4, <2>1
    <2> QED
      BY <1>4, <2>2 DEF Present
  <1>7. SameCollection(r, c) <=> \A id \in Present(c) : SameFence(Back(c[id]), c[id])
    <2>1. \A id \in Present(c) : r[id] = Back(c[id])
      BY <1>2, <1>4
    <2> QED
      BY <1>6, <2>1 DEF SameCollection
  <1>8. ASSUME SameCollection(r, c) PROVE r = c
    <2>1. \A id \in Present(c) : Back(c[id]) = c[id]
      BY <1>3, <1>4, <1>7, <1>8
    <2>2. \A id \in Ids : r[id] = c[id]
      BY <1>2, <1>4, <2>1
    <2> QED
      BY <1>2, <1>4, <2>2
  <1>9. SameCollection(r, c) <=> \A id \in Present(c) : Simple(c[id].geometry)
    BY <1>3, <1>4, <1>7
  <1> QED
    BY <1>5, <1>8, <1>9 DEF r, data

-----------------------------------------------------------------------------
(* Snapshots. *)

\* Setting the signature and the key of a manifest.
LEMMA SetSignature ==
  ASSUME NEW r, NEW h, NEW s, NEW k, NEW t, NEW l,
         NEW m, m = [rootHash |-> r, snapshotHash |-> h, signature |-> s, keyID |-> k]
  PROVE  [m EXCEPT !.signature = t, !.keyID = l] =
           [rootHash |-> r, snapshotHash |-> h, signature |-> t, keyID |-> l]
  <1> DEFINE n == [m EXCEPT !.signature = t]
  <1>1. [m EXCEPT !.signature = t, !.keyID = l] = [n EXCEPT !.keyID = l]
    OBVIOUS
  <1>2. n = [rootHash |-> r, snapshotHash |-> h, signature |-> t, keyID |-> k]
    OBVIOUS
  <1> HIDE DEF n
  <1>3. [n EXCEPT !.keyID = l] =
          [rootHash |-> r, snapshotHash |-> h, signature |-> t, keyID |-> l]
    BY <1>2
  <1> QED
    BY <1>1, <1>3

LEMMA SignedIs ==
  ASSUME NEW c, NEW signer
  PROVE  /\ Unsigned(c) = [rootHash |-> RootHash(c),
                           snapshotHash |-> Hash(CreateSnapshot(c)),
                           signature |-> None, keyID |-> None]
         /\ SignedManifest(c, signer) =
              [rootHash |-> RootHash(c), snapshotHash |-> Hash(CreateSnapshot(c)),
               signature |-> Sign(signer.key, Unsigned(c)), keyID |-> SignerID(signer)]
         /\ Body(SignedManifest(c, signer)) = Unsigned(c)
  <1> DEFINE u == Unsigned(c)
             m == SignedManifest(c, signer)
             signature == Sign(signer.key, u)
  <1>1. u = [rootHash |-> RootHash(c), snapshotHash |-> Hash(CreateSnapshot(c)),
             signature |-> None, keyID |-> None]
    BY DEF Unsigned
  <1> HIDE DEF u
  <1>2. Body(u) = u
    <2> DEFINE body == Body(u)
    <2>1. body = [u EXCEPT !.signature = None, !.keyID = None]
      BY DEF Body
    <2> HIDE DEF body
    <2>2. body = [rootHash |-> RootHash(c), snapshotHash |-> Hash(CreateSnapshot(c)),
                  signature |-> None, keyID |-> None]
      BY <1>1, <2>1, SetSignature
    <2> QED
      BY <1>1, <2>2 DEF body
  <1>3. m = [u EXCEPT !.signature = signature, !.keyID = SignerID(signer)]
    BY <1>2 DEF SignedManifest, u
  <1> HIDE DEF m, signature
  <1>4. m = [rootHash |-> RootHash(c), snapshotHash |-> Hash(CreateSnapshot(c)),
             signature |-> signature, keyID |-> SignerID(signer)]
    BY <1>1, <1>3, SetSignature
  <1>5. Body(m) = u
    <2> DEFINE body == Body(m)
    <2>1. body = [m EXCEPT !.signature = None, !.keyID = None]
      BY DEF Body
    <2> HIDE DEF body
    <2>2. body = [rootHash |-> RootHash(c), snapshotHash |-> Hash(CreateSnapshot(c)),
                  signature |-> None, keyID |-> None]
      BY <1>4, <2>1, SetSignature
    <2> QED
      BY <1>1, <2>2 DEF body
  <1> QED
    BY <1>1, <1>4, <1>5 DEF u, m, signature

\* Each part of a mixed manifest is that of one release or the other.
LEMMA MixedIs ==
  ASSUME NEW a, NEW signer, NEW b, NEW otherSigner, NEW parts
  PROVE  LET m == SignedManifest(a, signer)
             other == SignedManifest(b, otherSigner)
             x == Mixed(m, other, parts) IN
         /\ x.rootHash \in {RootHash(a), RootHash(b)}
         /\ x.snapshotHash \in {Hash(CreateSnapshot(a)), Hash(CreateSnapshot(b))}
         /\ x.signature \in {Sign(signer.key, Unsigned(a)), Sign(otherSigner.key, Unsigned(b))}
         /\ Body(x).rootHash = x.rootHash /\ Body(x).snapshotHash = x.snapshotHash
         /\ parts = {} => x = m
  <1> DEFINE m == SignedManifest(a, signer)
             other == SignedManifest(b, otherSigner)
             x == Mixed(m, other, parts)
  <1>1. /\ m.rootHash = RootHash(a) /\ m.snapshotHash = Hash(CreateSnapshot(a))
        /\ m.signature = Sign(signer.key, Unsigned(a))
        /\ m = [rootHash |-> m.rootHash, snapshotHash |-> m.snapshotHash,
                signature |-> m.signature, keyID |-> m.keyID]
    BY SignedIs
  <1>2. /\ other.rootHash = RootHash(b) /\ other.snapshotHash = Hash(CreateSnapshot(b))
        /\ other.signature = Sign(otherSigner.key, Unsigned(b))
    BY SignedIs
  <1> HIDE DEF m, other
  <1>3. DOMAIN m = {"rootHash", "snapshotHash", "signature", "keyID"}
    BY <1>1
  <1>4. x = [f \in {"rootHash", "snapshotHash", "signature", "keyID"} |->
               IF f \in parts THEN other[f] ELSE m[f]]
    BY <1>3 DEF Mixed
  <1> HIDE DEF x
  <1>5. /\ x.rootHash \in {m.rootHash, other.rootHash}
        /\ x.snapshotHash \in {m.snapshotHash, other.snapshotHash}
        /\ x.signature \in {m.signature, other.signature}
    BY <1>4
  <1>6. Body(x).rootHash = x.rootHash /\ Body(x).snapshotHash = x.snapshotHash
    BY <1>4 DEF Body
  <1>7. ASSUME parts = {} PROVE x = m
    <2>1. x = [f \in {"rootHash", "snapshotHash", "signature", "keyID"} |-> m[f]]
      BY <1>4, <1>7
    <2>2. m = [f \in {"rootHash", "snapshotHash", "signature", "keyID"} |-> m[f]]
      BY <1>1
    <2> QED
      BY <2>1, <2>2
  <1> QED
    BY <1>1, <1>2, <1>5, <1>6, <1>7 DEF m, other, x

\* A snapshot that is not too long arrives as it was sent, another does not.
LEMMA FetchedIs ==
  ASSUME NEW c, NEW declared
  PROVE  LET data == CreateSnapshot(c)
             n == Cardinality(Present(c)) IN
         /\ n \in Nat
         /\ n <= MaxDownload => FetchBinary(data, declared) = data
         /\ n > MaxDownload => \/ FetchBinary(data, declared) = None
                               \/ FetchBinary(data, declared) # data
  <1> DEFINE data == CreateSnapshot(c)
             ids == Present(c)
             n == Cardinality(ids)
             first == {id \in ids : Place(ids, id) <= MaxDownload}
  <1>1. DOMAIN data = ids /\ data = [id \in ids |-> data[id]]
    BY DEF CreateSnapshot, FenceCollectionToProto
  <1>2. ids \in SUBSET Nat /\ IsFiniteSet(ids)
    BY PresentIs
  <1> HIDE DEF data, ids
  <1>3. /\ n \in Nat
        /\ \A i \in ids : Place(ids, i) \in 1..n
        /\ \A m \in 1..n : \E i \in ids : Place(ids, i) = m
    BY <1>2, PlaceIs
  <1>4. MaxDownload \in Nat
    BY DeliveryAssumption
  <1> HIDE DEF n
  <1>5. Start(data, MaxDownload) = [id \in first |-> data[id]]
    BY <1>1 DEF Start, Restrict
  <1>6. ASSUME n <= MaxDownload PROVE FetchBinary(data, declared) = data
    <2>1. first = ids
      BY <1>3, <1>4, <1>6
    <2>2. ~(Cardinality(DOMAIN data) > MaxDownload)
      BY <1>1, <1>3, <1>4, <1>6 DEF n
    <2> QED
      BY <1>1, <1>5, <2>1, <2>2 DEF FetchBinary
  <1>7. ASSUME n > MaxDownload
        PROVE  FetchBinary(data, declared) = None \/ FetchBinary(data, declared) # data
    <2>1. n \in 1..n /\ ~(n <= MaxDownload)
      BY <1>3, <1>4, <1>7
    <2>2. PICK id \in ids : Place(ids, id) = n
      BY <1>3, <2>1
    <2>3. id \notin first
      BY <2>1, <2>2
    <2>4. DOMAIN Start(data, MaxDownload) = first
      BY <1>5
    <2>5. Start(data, MaxDownload) # data
      BY <1>1, <2>2, <2>3, <2>4
    <2> QED
      BY <2>5 DEF FetchBinary
  <1> QED
    BY <1>3, <1>6, <1>7 DEF data, ids, n

\* What a client installs of what it is sent: the four checks it has made.
LEMMA DeliveredIs ==
  ASSUME NEW client, NEW m, NEW data, NEW declared,
         Delivered(client, m, data, declared) # None
  PROVE  LET got == FetchBinary(data, declared)
             r == FenceCollectionFromProto(got) IN
         /\ VerifyManifestSignature(client, m)
         /\ m.snapshotHash = Hash(got) /\ m.rootHash = RootHash(r)
         /\ Delivered(client, m, data, declared) = r
  <1> DEFINE got == FetchBinary(data, declared)
             r == FenceCollectionFromProto(got)
  <1>1. FetchManifest(client, m) # None
    BY DEF Delivered
  <1>2. VerifyManifestSignature(client, m)
    BY <1>1 DEF FetchManifest
  <1>3. Delivered(client, m, data, declared) = Receive(got, m)
    BY <1>1 DEF Delivered
  <1> HIDE DEF got
  <1>4. Hash(got) = m.snapshotHash /\ RootHash(r) = m.rootHash /\ Receive(got, m) = r
    BY <1>3 DEF Receive
  <1> QED
    BY <1>2, <1>3, <1>4 DEF got

\* A signature of another key, or over another manifest, is not accepted.
LEMMA VerifiedIs ==
  ASSUME NEW client, ~client.skip, NEW m, VerifyManifestSignature(client, m)
  PROVE  m.signature = Sign(client.key, Body(m))
  BY DEF VerifyManifestSignature, Verify

LEMMA SignIs ==
  ASSUME NEW k, NEW j, NEW x, NEW y, Sign(k, x) = Sign(j, y) PROVE k = j /\ x = y
  <1>1. Sign(k, x).by = k /\ Sign(j, y).by = j /\ Sign(k, x).over = x /\ Sign(j, y).over = y
    BY DEF Sign
  <1> QED
    BY <1>1

\* A collection whose snapshot and root a client has compared.
LEMMA WholeRelease ==
  ASSUME NEW a \in Collection, NEW r, r = FenceCollectionFromProto(CreateSnapshot(a)),
         NEW b \in Collection, RootHash(r) = RootHash(b)
  PROVE  /\ SameCollection(r, b)
         /\ b = a => r = a
  <1>1. r \in Collection /\ (SameCollection(r, a) => r = a)
    BY ReceivedIs
  <1>2. SameCollection(r, b)
    BY <1>1, RootIsIdeal
  <1> QED
    BY <1>1, <1>2

\* What is installed of a snapshot, whatever was mixed up.
LEMMA InstalledIs ==
  ASSUME NEW a \in Collection, NEW b \in Collection, NEW signer, NEW otherSigner,
         NEW client, NEW parts, NEW declared,
         NEW m, m = Mixed(SignedManifest(a, signer), SignedManifest(b, otherSigner), parts),
         NEW r, r = Delivered(client, m, CreateSnapshot(b), declared), r # None
  PROVE  /\ \E c \in {a, b} : SameCollection(r, c)
         /\ ~client.skip => \/ r = a /\ signer.key = client.key
                            \/ r = b /\ otherSigner.key = client.key
  <1> DEFINE got == FetchBinary(CreateSnapshot(b), declared)
  <1>1. /\ VerifyManifestSignature(client, m)
        /\ m.snapshotHash = Hash(got) /\ m.rootHash = RootHash(r)
        /\ r = FenceCollectionFromProto(got)
    BY DeliveredIs
  <1>2. /\ m.rootHash \in {RootHash(a), RootHash(b)}
        /\ m.snapshotHash \in {Hash(CreateSnapshot(a)), Hash(CreateSnapshot(b))}
        /\ m.signature \in {Sign(signer.key, Unsigned(a)), Sign(otherSigner.key, Unsigned(b))}
        /\ Body(m).rootHash = m.rootHash /\ Body(m).snapshotHash = m.snapshotHash
    BY MixedIs
  <1> HIDE DEF got
  <1>3. PICK c \in {a, b} : got = CreateSnapshot(c)
    BY <1>1, <1>2, HashIs
  <1>4. PICK d \in {a, b} : RootHash(r) = RootHash(d)
    BY <1>1, <1>2
  <1>5. SameCollection(r, d)
    BY <1>1, <1>3, <1>4, WholeRelease
  <1>6. ASSUME ~client.skip
        PROVE  \/ r = a /\ signer.key = client.key
               \/ r = b /\ otherSigner.key = client.key
    <2>1. m.signature = Sign(client.key, Body(m))
      BY <1>1, <1>6, VerifiedIs
    <2>2. ASSUME NEW e \in {a, b}, NEW k, m.signature = Sign(k, Unsigned(e))
          PROVE  r = e /\ k = client.key
      <3>1. k = client.key /\ Unsigned(e) = Body(m)
        <4>1. Sign(client.key, Body(m)) = Sign(k, Unsigned(e))
          BY <2>1, <2>2
        <4> QED
          BY <4>1, SignIs
      <3>2. Unsigned(e).rootHash = RootHash(e)
            /\ Unsigned(e).snapshotHash = Hash(CreateSnapshot(e))
        BY SignedIs
      <3>3. RootHash(r) = RootHash(e) /\ got = CreateSnapshot(e)
        BY <1>1, <1>2, <3>1, <3>2, HashIs
      <3> QED
        BY <1>1, <3>1, <3>3, WholeRelease
    <2> QED
      BY <1>2, <2>2
  <1> QED
    BY <1>5, <1>6

\* What a publisher with the client's key sends it is installed, if the client
\* takes the identifier the publisher gives for that of the key.
LEMMA InstallsAll ==
  ASSUME NEW a \in SnapshotCollections, NEW signer \in Signers, NEW client \in Client,
         client.skip \/ signer.key = client.key, NEW declared,
         NEW r, r = Delivered(client, SignedManifest(a, signer), CreateSnapshot(a), declared)
  PROVE  r = None <=> \/ ~client.skip /\ SignerID(signer) # KeyID(client.key)
                      \/ Cardinality(Present(a)) > MaxDownload
                      \/ \E id \in Present(a) : ~Simple(a[id].geometry)
  <1> DEFINE m == SignedManifest(a, signer)
             data == CreateSnapshot(a)
             got == FetchBinary(data, declared)
             whole == FenceCollectionFromProto(data)
             n == Cardinality(Present(a))
  <1>1. /\ a \in Collection /\ m # None /\ m.signature # None /\ m.keyID # None
        /\ data # None /\ signer.key \in SigningKeys
    BY AlgorithmsAssumption DEF Signer
  <1>2. m = [rootHash |-> RootHash(a), snapshotHash |-> Hash(data),
             signature |-> Sign(signer.key, Unsigned(a)), keyID |-> SignerID(signer)]
        /\ Unsigned(a) = [rootHash |-> RootHash(a), snapshotHash |-> Hash(data),
                          signature |-> None, keyID |-> None]
    BY SignedIs
  <1> HIDE DEF m, data
  <1>3. VerifyManifestSignature(client, m) <=>
          client.skip \/ SignerID(signer) = KeyID(client.key)
    <2>1. CASE client.skip
      BY <2>1 DEF VerifyManifestSignature
    <2>2. CASE ~client.skip
      <3>1. /\ signer.key = client.key /\ client.key # None
            /\ m.signature = Sign(signer.key, Unsigned(a)) /\ m.keyID = SignerID(signer)
        BY <1>1, <1>2, <2>2, DeliveryAssumption
      <3>2. Body(m) = Unsigned(a)
        BY SignedIs DEF m
      <3> QED
        BY <1>1, <2>2, <3>1, <3>2 DEF VerifyManifestSignature, Verify
    <2> QED
      BY <2>1, <2>2
  <1>4. r = IF VerifyManifestSignature(client, m) THEN Receive(got, m) ELSE None
    BY <1>1 DEF Delivered, FetchManifest, m, data
  <1>5. CASE ~client.skip /\ SignerID(signer) # KeyID(client.key)
    BY <1>3, <1>4, <1>5
  <1> SUFFICES ASSUME client.skip \/ SignerID(signer) = KeyID(client.key)
               PROVE  r = None <=> \/ Cardinality(Present(a)) > MaxDownload
                                   \/ \E id \in Present(a) : ~Simple(a[id].geometry)
    BY <1>5
  <1>6. r = Receive(got, m)
    BY <1>3, <1>4
  <1>7. /\ n \in Nat
        /\ n <= MaxDownload => got = data
        /\ n > MaxDownload => got = None \/ got # data
    BY FetchedIs DEF data
  <1>8. /\ whole \in Collection
        /\ SameCollection(whole, a) <=> \A id \in Present(a) : Simple(a[id].geometry)
    BY <1>1, ReceivedIs DEF data
  <1>9. whole # None
    BY <1>8, FencesAssumption
  <1>10. RootHash(whole) = RootHash(a) <=> SameCollection(whole, a)
    BY <1>1, <1>8, RootIsIdeal
  <1> HIDE DEF got, whole, n
  <1>11. CASE n > MaxDownload
    <2>1. got = None \/ Hash(got) # Hash(data)
      BY <1>7, <1>11, HashIs
    <2>2. r = None
      BY <1>2, <1>6, <2>1 DEF Receive
    <2> QED
      BY <1>11, <2>2 DEF n
  <1>12. CASE ~(n > MaxDownload)
    <2>1. n <= MaxDownload
      BY <1>7, <1>12, DeliveryAssumption
    <2>2. got = data
      BY <1>7, <2>1
    <2>3. r = IF RootHash(whole) # RootHash(a) THEN None ELSE whole
      BY <1>1, <1>2, <1>6, <2>2 DEF Receive, whole
    <2>4. r = None <=> ~SameCollection(whole, a)
      BY <1>9, <1>10, <2>3
    <2> QED
      BY <1>8, <1>12, <2>4 DEF n
  <1> QED
    BY <1>11, <1>12

\* Any number of fences in any number of releases: only whole releases are
\* installed, of the publisher whose key the client has, and all of those that
\* protobuf can carry and a download can hold, unless the publisher goes by a
\* key_id of its own.
THEOREM SnapshotsFaithful == Spec => []SnapshotFaithful
  <1>1. Init => SnapshotFaithful
    BY DEF Init, Idle, SnapshotFaithful
  <1>2. ASSUME TakeSnapshot PROVE SnapshotFaithful'
    <2>1. PICK announced \in SnapshotCollections, sent \in SnapshotCollections,
               signer \in Signers, otherSigner \in Signers,
               client \in Client, declared \in BOOLEAN :
            LET m == SignedManifest(announced, signer)
                other == SignedManifest(sent, otherSigner) IN
            \E parts \in SUBSET DOMAIN m :
              Called([api |-> "snapshot", announced |-> announced, sent |-> sent,
                      signer |-> signer, otherKey |-> otherSigner.key, client |-> client,
                      parts |-> parts],
                     Delivered(client, Mixed(m, other, parts), CreateSnapshot(sent),
                               declared))
      BY <1>2 DEF TakeSnapshot
    <2> DEFINE m == SignedManifest(announced, signer)
               other == SignedManifest(sent, otherSigner)
    <2>2. PICK parts \in SUBSET DOMAIN m :
            /\ call' = [api |-> "snapshot", announced |-> announced, sent |-> sent,
                        signer |-> signer, otherKey |-> otherSigner.key, client |-> client,
                        parts |-> parts]
            /\ answer' = Delivered(client, Mixed(m, other, parts), CreateSnapshot(sent),
                                   declared)
      BY <2>1 DEF Called
    <2>3. announced \in Collection /\ sent \in Collection
      BY AlgorithmsAssumption
    <2>4. ASSUME answer' # None
          PROVE  /\ \E c \in {announced, sent} : SameCollection(answer', c)
                 /\ ~client.skip => \/ answer' = announced /\ signer.key = client.key
                                    \/ answer' = sent /\ otherSigner.key = client.key
      BY <2>2, <2>3, <2>4, InstalledIs
    <2>5. ASSUME sent = announced, parts = {}, client.skip \/ signer.key = client.key
          PROVE  answer' = None <=>
                   \/ ~client.skip /\ SignerID(signer) # KeyID(client.key)
                   \/ Cardinality(Present(sent)) > MaxDownload
                   \/ \E id \in Present(sent) : ~Simple(sent[id].geometry)
      <3>1. Mixed(m, other, parts) = m
        BY <2>5, MixedIs
      <3>2. answer' = Delivered(client, SignedManifest(sent, signer), CreateSnapshot(sent),
                                declared)
        BY <2>2, <2>5, <3>1
      <3> QED
        BY <2>5, <3>2, InstallsAll
    <2> HIDE DEF m, other
    <2>6. /\ call'.announced = announced /\ call'.sent = sent /\ call'.signer = signer
          /\ call'.otherKey = otherSigner.key /\ call'.client = client /\ call'.parts = parts
          /\ call'.api = "snapshot"
      BY <2>2
    <2> QED
      BY <2>4, <2>5, <2>6 DEF SnapshotFaithful
  <1>3. SnapshotFaithful /\ [Next]_<<call, answer>> => SnapshotFaithful'
    BY <1>2, CallIs DEF SnapshotFaithful
  <1> QED
    BY <1>1, <1>3, PTL DEF Spec

-----------------------------------------------------------------------------
(* Merkle proofs. *)

\* The loop of GetProof, round by round.
IsWalk(leaves, p, walk) ==
  /\ walk[0].at = p /\ walk[0].proof = <<>>
  /\ \A k \in Nat :
       /\ walk[k + 1].at = Parent(walk[k].at)
       /\ walk[k + 1].proof = walk[k].proof \o Sibling(Levels(leaves)[k], walk[k].at)

LEMMA WalkIs ==
  ASSUME NEW leaves, NEW p
  PROVE  IsWalk(leaves, p, Walk(leaves, p))
  <1> DEFINE start == [at |-> p, proof |-> <<>>]
             Up(k, w) == [at    |-> Parent(w.at),
                          proof |-> w.proof \o Sibling(Levels(leaves)[k - 1], w.at)]
             IsIt(g) == g = [k \in Nat |-> IF k = 0 THEN start ELSE Up(k, g[k - 1])]
             it == CHOOSE g : IsIt(g)
             Starts(n, g) == /\ g[0] = start
                             /\ \A i \in 0..n - 1 : g[i + 1] = Up(i + 1, g[i])
             Some == {n \in Nat : \E g : Starts(n, g)}
             part == [n \in Nat |-> CHOOSE g : Starts(n, g)]
             values == {part[n][i] : n \in Nat, i \in Nat}
             step == [x \in Nat \X values |-> Up(x[1] + 1, x[2])]
             f == [n \in Nat |-> part[n][n]]
  <1>1. Walk(leaves, p) = it
    BY DEF Walk
  <1> HIDE DEF Up, start, IsIt, it
  <1>2. \A n \in Nat : n \in Some
    <2>1. 0 \in Some
      <3>1. Starts(0, [i \in 0..0 |-> start])
        OBVIOUS
      <3> QED
        BY <3>1
    <2>2. ASSUME NEW n \in Nat, n \in Some PROVE n + 1 \in Some
      <3>1. PICK g : Starts(n, g)
        BY <2>2
      <3> DEFINE h == [i \in 0..n + 1 |-> IF i <= n THEN g[i] ELSE Up(n + 1, g[n])]
      <3>2. h[0] = start
        BY <3>1
      <3>3. ASSUME NEW i \in 0..(n + 1) - 1 PROVE h[i + 1] = Up(i + 1, h[i])
        BY <3>1
      <3> HIDE DEF h
      <3>4. Starts(n + 1, h)
        BY <3>2, <3>3
      <3> QED
        BY <3>4
    <2> HIDE DEF Some
    <2> QED
      BY <2>1, <2>2, AllNats
  <1>3. \A n \in Nat : Starts(n, part[n])
    BY <1>2
  <1> HIDE DEF part
  <1>4. ASSUME NEW n \in Nat, NEW i \in Nat
        PROVE  step[<<i, part[n][i]>>] = Up(i + 1, part[n][i])
    <2>1. <<i, part[n][i]>> \in Nat \X values
      OBVIOUS
    <2> HIDE DEF values
    <2> QED
      BY <2>1
  <1> HIDE DEF step
  <1>5. \A n \in Nat : /\ part[n][0] = part[0][0]
                       /\ \A i \in 0..n - 1 : part[n][i + 1] = step[<<i, part[n][i]>>]
    BY <1>3, <1>4
  <1>6. f[0] = start
    BY <1>3
  <1>7. ASSUME NEW n \in Nat PROVE f[n + 1] = Up(n + 1, f[n])
    <2>1. part[n + 1][n + 1] = step[<<n, part[n][n]>>]
      BY <1>5, Glued
    <2>2. f[n + 1] = part[n + 1][n + 1] /\ f[n] = part[n][n]
      OBVIOUS
    <2>3. step[<<n, part[n][n]>>] = Up(n + 1, part[n][n])
      BY <1>4
    <2> QED
      BY <2>1, <2>2, <2>3
  <1>8. f = [n \in Nat |-> f[n]]
    OBVIOUS
  <1> HIDE DEF f
  <1>9. ASSUME NEW k \in Nat PROVE f[k] = IF k = 0 THEN start ELSE Up(k, f[k - 1])
    <2>1. CASE k = 0
      BY <2>1, <1>6
    <2>2. CASE k # 0
      <3>1. k - 1 \in Nat /\ (k - 1) + 1 = k
        BY <2>2
      <3> QED
        BY <3>1, <1>7, <2>2
    <2> QED
      BY <2>1, <2>2
  <1>10. IsIt(f)
    BY <1>8, <1>9 DEF IsIt
  <1>11. IsIt(it)
    BY <1>10 DEF it
  <1>12. \A k \in Nat : it[k] = IF k = 0 THEN start ELSE Up(k, it[k - 1])
    <2>1. it = [k \in Nat |-> IF k = 0 THEN start ELSE Up(k, it[k - 1])]
      BY <1>11 DEF IsIt
    <2> QED
      BY <2>1
  <1>13. it[0] = start
    BY <1>12
  <1>14. ASSUME NEW k \in Nat PROVE it[k + 1] = Up(k + 1, it[k])
    <2>1. k + 1 \in Nat /\ k + 1 # 0 /\ (k + 1) - 1 = k
      OBVIOUS
    <2> QED
      BY <1>12, <2>1
  <1>15. it[0].at = p /\ it[0].proof = <<>>
    BY <1>13 DEF start
  <1>16. ASSUME NEW k \in Nat PROVE it[k + 1].at = Parent(it[k].at)
    <2>1. Up(k + 1, it[k]).at = Parent(it[k].at)
      BY DEF Up
    <2> QED
      BY <1>14, <2>1, Zenon
  <1>17. ASSUME NEW k \in Nat
         PROVE  it[k + 1].proof = it[k].proof \o Sibling(Levels(leaves)[k], it[k].at)
    <2>1. Up(k + 1, it[k]).proof =
            it[k].proof \o Sibling(Levels(leaves)[(k + 1) - 1], it[k].at)
      BY DEF Up
    <2>2. (k + 1) - 1 = k
      OBVIOUS
    <2> QED
      BY <1>14, <2>1, <2>2, Zenon
  <1>18. \A k \in Nat :
           /\ it[k + 1].at = Parent(it[k].at)
           /\ it[k + 1].proof = it[k].proof \o Sibling(Levels(leaves)[k], it[k].at)
    BY <1>16, <1>17, Zenon
  <1>19. IsWalk(leaves, p, it)
    BY <1>15, <1>18, Zenon DEF IsWalk
  <1> QED
    BY <1>1, <1>19

\* The loop of VerifyProof, round by round.
IsVerify(leaf, proof, hash) ==
  /\ hash[0] = leaf
  /\ \A n \in Nat : hash[n + 1] = Hash(<<Hash(<<hash[n], proof[n + 1]>>)>>)

LEMMA VerifyIs ==
  ASSUME NEW leaf, NEW proof, NEW root
  PROVE  \E hash : /\ IsVerify(leaf, proof, hash)
                   /\ VerifyProof(leaf, proof, root) <=> hash[Len(proof)] = root
  <1> DEFINE start == leaf
             Up(k, w) == Hash(<<Hash(<<w, proof[k]>>)>>)
             IsIt(g) == g = [k \in Nat |-> IF k = 0 THEN start ELSE Up(k, g[k - 1])]
             it == CHOOSE g : IsIt(g)
             Starts(n, g) == /\ g[0] = start
                             /\ \A i \in 0..n - 1 : g[i + 1] = Up(i + 1, g[i])
             Some == {n \in Nat : \E g : Starts(n, g)}
             part == [n \in Nat |-> CHOOSE g : Starts(n, g)]
             values == {part[n][i] : n \in Nat, i \in Nat}
             step == [x \in Nat \X values |-> Up(x[1] + 1, x[2])]
             f == [n \in Nat |-> part[n][n]]
  <1>1. VerifyProof(leaf, proof, root) <=> it[Len(proof)] = root
    BY DEF VerifyProof
  <1> HIDE DEF Up, start, IsIt, it
  <1>2. \A n \in Nat : n \in Some
    <2>1. 0 \in Some
      <3>1. Starts(0, [i \in 0..0 |-> start])
        OBVIOUS
      <3> QED
        BY <3>1
    <2>2. ASSUME NEW n \in Nat, n \in Some PROVE n + 1 \in Some
      <3>1. PICK g : Starts(n, g)
        BY <2>2
      <3> DEFINE h == [i \in 0..n + 1 |-> IF i <= n THEN g[i] ELSE Up(n + 1, g[n])]
      <3>2. h[0] = start
        BY <3>1
      <3>3. ASSUME NEW i \in 0..(n + 1) - 1 PROVE h[i + 1] = Up(i + 1, h[i])
        BY <3>1
      <3> HIDE DEF h
      <3>4. Starts(n + 1, h)
        BY <3>2, <3>3
      <3> QED
        BY <3>4
    <2> HIDE DEF Some
    <2> QED
      BY <2>1, <2>2, AllNats
  <1>3. \A n \in Nat : Starts(n, part[n])
    BY <1>2
  <1> HIDE DEF part
  <1>4. ASSUME NEW n \in Nat, NEW i \in Nat
        PROVE  step[<<i, part[n][i]>>] = Up(i + 1, part[n][i])
    <2>1. <<i, part[n][i]>> \in Nat \X values
      OBVIOUS
    <2> HIDE DEF values
    <2> QED
      BY <2>1
  <1> HIDE DEF step
  <1>5. \A n \in Nat : /\ part[n][0] = part[0][0]
                       /\ \A i \in 0..n - 1 : part[n][i + 1] = step[<<i, part[n][i]>>]
    BY <1>3, <1>4
  <1>6. f[0] = start
    BY <1>3
  <1>7. ASSUME NEW n \in Nat PROVE f[n + 1] = Up(n + 1, f[n])
    <2>1. part[n + 1][n + 1] = step[<<n, part[n][n]>>]
      BY <1>5, Glued
    <2>2. f[n + 1] = part[n + 1][n + 1] /\ f[n] = part[n][n]
      OBVIOUS
    <2>3. step[<<n, part[n][n]>>] = Up(n + 1, part[n][n])
      BY <1>4
    <2> QED
      BY <2>1, <2>2, <2>3
  <1>8. f = [n \in Nat |-> f[n]]
    OBVIOUS
  <1> HIDE DEF f
  <1>9. ASSUME NEW k \in Nat PROVE f[k] = IF k = 0 THEN start ELSE Up(k, f[k - 1])
    <2>1. CASE k = 0
      BY <2>1, <1>6
    <2>2. CASE k # 0
      <3>1. k - 1 \in Nat /\ (k - 1) + 1 = k
        BY <2>2
      <3> QED
        BY <3>1, <1>7, <2>2
    <2> QED
      BY <2>1, <2>2
  <1>10. IsIt(f)
    BY <1>8, <1>9 DEF IsIt
  <1>11. IsIt(it)
    BY <1>10 DEF it
  <1>12. \A k \in Nat : it[k] = IF k = 0 THEN start ELSE Up(k, it[k - 1])
    <2>1. it = [k \in Nat |-> IF k = 0 THEN start ELSE Up(k, it[k - 1])]
      BY <1>11 DEF IsIt
    <2> QED
      BY <2>1
  <1>13. it[0] = start
    BY <1>12
  <1>14. ASSUME NEW k \in Nat PROVE it[k + 1] = Up(k + 1, it[k])
    <2>1. k + 1 \in Nat /\ k + 1 # 0 /\ (k + 1) - 1 = k
      OBVIOUS
    <2> QED
      BY <1>12, <2>1
  <1>15. IsVerify(leaf, proof, it)
    BY <1>13, <1>14 DEF start, Up, IsVerify
  <1> QED
    BY <1>1, <1>15

\* The rounds of a verifier that knows the leaf's place.
IsRebuild(leaf, p, m, proof, built) ==
  /\ built[0].hash = leaf /\ built[0].at = p
  /\ built[0].among = m /\ built[0].left = proof
  /\ \A k \in Nat : LET b == built[k]  c == built[k + 1] IN
       /\ c.at = Parent(b.at) /\ c.among = Parent(b.among)
       /\ b.at = b.among /\ b.at % 2 = 1 =>
            c.hash = Hash(<<b.hash>>) /\ c.left = b.left
       /\ b.at # b.among /\ b.at % 2 = 1 =>
            c.hash = Hash(<<b.hash, Head(b.left)>>) /\ c.left = Tail(b.left)
       /\ b.at % 2 # 1 =>
            c.hash = Hash(<<Head(b.left), b.hash>>) /\ c.left = Tail(b.left)

LEMMA RebuildIs ==
  ASSUME NEW leaf, NEW p, NEW m, NEW proof
  PROVE  IsRebuild(leaf, p, m, proof, Rebuild(leaf, p, m, proof))
  <1> DEFINE start == [hash |-> leaf, at |-> p, among |-> m, left |-> proof]
             Up(k, w) == LET alone == w.at = w.among /\ w.at % 2 = 1
                         IN [hash  |-> Hash(IF alone THEN <<w.hash>>
                                            ELSE IF w.at % 2 = 1 THEN <<w.hash, Head(w.left)>>
                                            ELSE <<Head(w.left), w.hash>>),
                             at    |-> Parent(w.at),
                             among |-> Parent(w.among),
                             left  |-> IF alone THEN w.left ELSE Tail(w.left)]
             IsIt(g) == g = [k \in Nat |-> IF k = 0 THEN start ELSE Up(k, g[k - 1])]
             it == CHOOSE g : IsIt(g)
             Starts(n, g) == /\ g[0] = start
                             /\ \A i \in 0..n - 1 : g[i + 1] = Up(i + 1, g[i])
             Some == {n \in Nat : \E g : Starts(n, g)}
             part == [n \in Nat |-> CHOOSE g : Starts(n, g)]
             values == {part[n][i] : n \in Nat, i \in Nat}
             step == [x \in Nat \X values |-> Up(x[1] + 1, x[2])]
             f == [n \in Nat |-> part[n][n]]
  <1>1. Rebuild(leaf, p, m, proof) = it
    BY DEF Rebuild
  <1> HIDE DEF Up, start, IsIt, it
  <1>2. \A n \in Nat : n \in Some
    <2>1. 0 \in Some
      <3>1. Starts(0, [i \in 0..0 |-> start])
        OBVIOUS
      <3> QED
        BY <3>1
    <2>2. ASSUME NEW n \in Nat, n \in Some PROVE n + 1 \in Some
      <3>1. PICK g : Starts(n, g)
        BY <2>2
      <3> DEFINE h == [i \in 0..n + 1 |-> IF i <= n THEN g[i] ELSE Up(n + 1, g[n])]
      <3>2. h[0] = start
        BY <3>1
      <3>3. ASSUME NEW i \in 0..(n + 1) - 1 PROVE h[i + 1] = Up(i + 1, h[i])
        BY <3>1
      <3> HIDE DEF h
      <3>4. Starts(n + 1, h)
        BY <3>2, <3>3
      <3> QED
        BY <3>4
    <2> HIDE DEF Some
    <2> QED
      BY <2>1, <2>2, AllNats
  <1>3. \A n \in Nat : Starts(n, part[n])
    BY <1>2
  <1> HIDE DEF part
  <1>4. ASSUME NEW n \in Nat, NEW i \in Nat
        PROVE  step[<<i, part[n][i]>>] = Up(i + 1, part[n][i])
    <2>1. <<i, part[n][i]>> \in Nat \X values
      OBVIOUS
    <2> HIDE DEF values
    <2> QED
      BY <2>1
  <1> HIDE DEF step
  <1>5. \A n \in Nat : /\ part[n][0] = part[0][0]
                       /\ \A i \in 0..n - 1 : part[n][i + 1] = step[<<i, part[n][i]>>]
    BY <1>3, <1>4
  <1>6. f[0] = start
    BY <1>3
  <1>7. ASSUME NEW n \in Nat PROVE f[n + 1] = Up(n + 1, f[n])
    <2>1. part[n + 1][n + 1] = step[<<n, part[n][n]>>]
      BY <1>5, Glued
    <2>2. f[n + 1] = part[n + 1][n + 1] /\ f[n] = part[n][n]
      OBVIOUS
    <2>3. step[<<n, part[n][n]>>] = Up(n + 1, part[n][n])
      BY <1>4
    <2> QED
      BY <2>1, <2>2, <2>3
  <1>8. f = [n \in Nat |-> f[n]]
    OBVIOUS
  <1> HIDE DEF f
  <1>9. ASSUME NEW k \in Nat PROVE f[k] = IF k = 0 THEN start ELSE Up(k, f[k - 1])
    <2>1. CASE k = 0
      BY <2>1, <1>6
    <2>2. CASE k # 0
      <3>1. k - 1 \in Nat /\ (k - 1) + 1 = k
        BY <2>2
      <3> QED
        BY <3>1, <1>7, <2>2
    <2> QED
      BY <2>1, <2>2
  <1>10. IsIt(f)
    BY <1>8, <1>9 DEF IsIt
  <1>11. IsIt(it)
    BY <1>10 DEF it
  <1>12. \A k \in Nat : it[k] = IF k = 0 THEN start ELSE Up(k, it[k - 1])
    <2>1. it = [k \in Nat |-> IF k = 0 THEN start ELSE Up(k, it[k - 1])]
      BY <1>11 DEF IsIt
    <2> QED
      BY <2>1
  <1>13. it[0] = start
    BY <1>12
  <1>14. ASSUME NEW k \in Nat PROVE it[k + 1] = Up(k + 1, it[k])
    <2>1. k + 1 \in Nat /\ k + 1 # 0 /\ (k + 1) - 1 = k
      OBVIOUS
    <2> QED
      BY <1>12, <2>1
  <1>15. /\ it[0].hash = leaf /\ it[0].at = p
         /\ it[0].among = m /\ it[0].left = proof
    BY <1>13 DEF start
  <1>16. \A w : \A k \in Nat :
           /\ Up(k, w).at = Parent(w.at) /\ Up(k, w).among = Parent(w.among)
           /\ w.at = w.among /\ w.at % 2 = 1 =>
                Up(k, w).hash = Hash(<<w.hash>>) /\ Up(k, w).left = w.left
           /\ w.at # w.among /\ w.at % 2 = 1 =>
                /\ Up(k, w).hash = Hash(<<w.hash, Head(w.left)>>)
                /\ Up(k, w).left = Tail(w.left)
           /\ w.at % 2 # 1 =>
                /\ Up(k, w).hash = Hash(<<Head(w.left), w.hash>>)
                /\ Up(k, w).left = Tail(w.left)
    BY DEF Up
  <1>17. \A k \in Nat : it[k + 1] = Up(k + 1, it[k]) /\ k + 1 \in Nat
    BY <1>14
  <1>18. IsRebuild(leaf, p, m, proof, it)
    BY <1>15, <1>16, <1>17 DEF IsRebuild
  <1> QED
    BY <1>1, <1>18

\* The nodes that a node is hashed with, and the hash.
LEMMA SiblingIs ==
  ASSUME NEW S, NEW nodes \in Seq(S), NEW i \in 1..Len(nodes)
  PROVE  /\ Parent(i) \in 1..Parent(Len(nodes))
         /\ i % 2 # 1 => /\ Sibling(nodes, i) = <<nodes[i - 1]>> /\ i - 1 \in 1..Len(nodes)
                         /\ Level(nodes)[Parent(i)] = Hash(<<nodes[i - 1], nodes[i]>>)
         /\ i % 2 = 1 /\ i # Len(nodes) =>
              /\ Sibling(nodes, i) = <<nodes[i + 1]>> /\ i + 1 \in 1..Len(nodes)
              /\ Level(nodes)[Parent(i)] = Hash(<<nodes[i], nodes[i + 1]>>)
         /\ i % 2 = 1 /\ i = Len(nodes) =>
              /\ Sibling(nodes, i) = <<>>
              /\ Level(nodes)[Parent(i)] = Hash(<<nodes[i]>>)
  <1> DEFINE n == Len(nodes)
             j == (i + 1) \div 2
  <1>1. n \in Nat /\ i \in 1..n
    OBVIOUS
  <1>2. Parent(i) = j /\ Parent(n) = (n + 1) \div 2
    BY DEF Parent
  <1>3. j \in 1..(n + 1) \div 2
    BY <1>1
  <1>4. Level(nodes)[j] =
          Hash(IF 2 * j <= n THEN <<nodes[2 * j - 1], nodes[2 * j]>>
               ELSE <<nodes[2 * j - 1]>>)
    BY <1>3, LevelIs
  <1>5. /\ Sibling(nodes, i) = IF i % 2 = 0 THEN <<nodes[i - 1]>>
                               ELSE IF i < n THEN <<nodes[i + 1]>> ELSE <<>>
    BY DEF Sibling
  <1> HIDE DEF n
  <1>6. CASE i % 2 # 1
    <2>1. i % 2 = 0 /\ 2 * j = i /\ 2 * j - 1 = i - 1 /\ i <= n /\ i - 1 \in 1..n
      BY <1>1, <1>6
    <2> HIDE DEF j
    <2> QED
      BY <1>2, <1>3, <1>4, <1>5, <1>6, <2>1 DEF n
  <1>7. CASE i % 2 = 1
    <2>1. i % 2 # 0 /\ 2 * j = i + 1 /\ 2 * j - 1 = i
      BY <1>1, <1>7
    <2>2. i # n => i < n /\ i + 1 <= n /\ i + 1 \in 1..n
      BY <1>1
    <2>3. i = n => ~(i < n) /\ ~(i + 1 <= n)
      BY <1>1
    <2> HIDE DEF j
    <2> QED
      BY <1>2, <1>3, <1>4, <1>5, <1>7, <2>1, <2>2, <2>3 DEF n
  <1> QED
    BY <1>6, <1>7

GoesUp(U, leaves, walk) ==
  \A k \in Nat :
    /\ Levels(leaves)[k] \in Seq(U) /\ Len(Levels(leaves)[k]) >= 1
    /\ Len(Levels(leaves)[k + 1]) = Parent(Len(Levels(leaves)[k]))
    /\ walk[k].at \in 1..Len(Levels(leaves)[k])
    /\ Sibling(Levels(leaves)[k], walk[k].at) \in Seq(U)
    /\ walk[k].proof \in Seq(U)
    /\ walk[k + 1].at = Parent(walk[k].at)
    /\ walk[k + 1].proof = walk[k].proof \o Sibling(Levels(leaves)[k], walk[k].at)

\* GetProof goes from a node of each level to one of the next.
LEMMA WalkType ==
  ASSUME NEW S, NEW leaves \in Seq(S), Len(leaves) >= 1, NEW p \in 1..Len(leaves),
         NEW walk, IsWalk(leaves, p, walk)
  PROVE  \E U : GoesUp(U, leaves, walk)
  <1> DEFINE level == Levels(leaves)
             U == {level[k][i] : k \in Nat, i \in Nat}
  <1>1. ASSUME NEW k \in Nat PROVE level[k] \in Seq(U) /\ Len(level[k]) >= 1
    <2>1. PICK T : level[k] \in Seq(T)
      BY LevelsType
    <2>2. Len(level[k]) >= 1
      BY LevelsType
    <2>3. \A i \in 1..Len(level[k]) : level[k][i] \in U
      OBVIOUS
    <2> HIDE DEF U, level
    <2>4. Len(level[k]) \in Nat /\ level[k] = [i \in 1..Len(level[k]) |-> level[k][i]]
      BY <2>1
    <2>5. level[k] \in [1..Len(level[k]) -> U]
      BY <2>3, <2>4
    <2> QED
      BY <2>2, <2>4, <2>5
  <1>2. /\ walk[0].at = p /\ walk[0].proof = <<>>
        /\ \A k \in Nat : /\ walk[k + 1].at = Parent(walk[k].at)
                          /\ walk[k + 1].proof =
                               walk[k].proof \o Sibling(level[k], walk[k].at)
    BY Zenon DEF IsWalk
  <1>3. level[0] = leaves /\ \A k \in Nat : level[k + 1] = Level(level[k])
    BY LevelsAre
  <1> HIDE DEF U, level
  <1>4. ASSUME NEW k \in Nat PROVE Len(level[k + 1]) = Parent(Len(level[k]))
    BY <1>1, <1>3, LevelIs DEF Parent
  <1> DEFINE Good == {k \in Nat : walk[k].at \in 1..Len(level[k]) /\ walk[k].proof \in Seq(U)}
  <1>5. ASSUME NEW k \in Nat, walk[k].at \in 1..Len(level[k])
        PROVE  Sibling(level[k], walk[k].at) \in Seq(U)
    <2>1. level[k] \in Seq(U)
      BY <1>1
    <2>2. \A i \in 1..Len(level[k]) : <<level[k][i]>> \in Seq(U)
      BY <2>1
    <2>3. <<>> \in Seq(U)
      OBVIOUS
    <2> DEFINE i == walk[k].at
               sibling == Sibling(level[k], i)
    <2>4. i \in 1..Len(level[k])
      BY <1>5
    <2> HIDE DEF i
    <2>5. /\ i % 2 # 1 => sibling = <<level[k][i - 1]>> /\ i - 1 \in 1..Len(level[k])
          /\ i % 2 = 1 /\ i # Len(level[k]) =>
               sibling = <<level[k][i + 1]>> /\ i + 1 \in 1..Len(level[k])
          /\ i % 2 = 1 /\ i = Len(level[k]) => sibling = <<>>
      BY <2>1, <2>4, SiblingIs
    <2> HIDE DEF sibling
    <2>6. sibling \in Seq(U)
      BY <2>2, <2>3, <2>5
    <2> QED
      BY <2>6 DEF sibling, i
  <1>6. 0 \in Good
    <2>1. walk[0].at = p /\ walk[0].proof = <<>> /\ <<>> \in Seq(U)
      BY <1>2
    <2> QED
      BY <1>3, <2>1
  <1>7. ASSUME NEW k \in Nat, k \in Good PROVE k + 1 \in Good
    <2>1. walk[k].proof \in Seq(U) /\ Sibling(level[k], walk[k].at) \in Seq(U)
      BY <1>5, <1>7
    <2>2. walk[k + 1].proof \in Seq(U)
      BY <1>2, <2>1, ConcatProperties
    <2>3. walk[k + 1].at \in 1..Len(level[k + 1])
      <3>1. level[k] \in Seq(U) /\ walk[k].at \in 1..Len(level[k])
        BY <1>1, <1>7
      <3>2. Parent(walk[k].at) \in 1..Parent(Len(level[k]))
        <4> DEFINE i == walk[k].at
        <4>1. level[k] \in Seq(U) /\ i \in 1..Len(level[k])
          BY <3>1
        <4> HIDE DEF i
        <4>2. Parent(i) \in 1..Parent(Len(level[k]))
          BY <4>1, SiblingIs
        <4> QED
          BY <4>2 DEF i
      <3> QED
        BY <1>2, <1>4, <3>2
    <2> QED
      BY <2>2, <2>3
  <1> HIDE DEF Good
  <1>8. \A k \in Nat : k \in Good
    BY <1>6, <1>7, AllNats
  <1> QED
    BY <1>1, <1>2, <1>4, <1>5, <1>8 DEF level, Good, GoesUp

Growing(U, q, sibling) ==
  \A k \in Nat : /\ q[k] \in Seq(U) /\ sibling[k] \in Seq(U)
                 /\ q[k + 1] = q[k] \o sibling[k]

\* What GetProof has noted it keeps.
LEMMA ProofGrows ==
  ASSUME NEW U, NEW q, NEW sibling, Growing(U, q, sibling),
         NEW h \in Nat, NEW k \in Nat, k <= h
  PROVE  Len(q[k]) <= Len(q[h]) /\ \A i \in 1..Len(q[k]) : q[h][i] = q[k][i]
  <1> DEFINE Begins(n) == \A j \in Nat : j <= n =>
                            /\ Len(q[j]) <= Len(q[n])
                            /\ \A i \in 1..Len(q[j]) : q[n][i] = q[j][i]
             Good == {n \in Nat : Begins(n)}
  <1>1. ASSUME NEW n \in Nat PROVE q[n] \in Seq(U) /\ Len(q[n]) \in Nat
    <2>1. q[n] \in Seq(U)
      BY DEF Growing
    <2> QED
      BY <2>1
  <1>2. 0 \in Good
    <2>1. \A j \in Nat : j <= 0 => j = 0
      OBVIOUS
    <2> QED
      BY <1>1, <2>1
  <1>3. ASSUME NEW n \in Nat, n \in Good PROVE n + 1 \in Good
    <2>1. q[n] \in Seq(U) /\ sibling[n] \in Seq(U) /\ q[n + 1] = q[n] \o sibling[n]
      BY DEF Growing
    <2>2. Len(q[n + 1]) = Len(q[n]) + Len(sibling[n])
          /\ \A i \in 1..Len(q[n]) + Len(sibling[n]) :
               q[n + 1][i] = IF i <= Len(q[n]) THEN q[n][i] ELSE sibling[n][i - Len(q[n])]
      <3>1. q[n] \in Seq(U) /\ sibling[n] \in Seq(U)
        BY <2>1
      <3>2. /\ Len(q[n] \o sibling[n]) = Len(q[n]) + Len(sibling[n])
            /\ \A i \in 1..Len(q[n]) + Len(sibling[n]) :
                 (q[n] \o sibling[n])[i] =
                   IF i <= Len(q[n]) THEN q[n][i] ELSE sibling[n][i - Len(q[n])]
        BY <3>1, ConcatProperties, Zenon
      <3> QED
        BY <2>1, <3>2
    <2>3. Len(q[n]) \in Nat /\ Len(sibling[n]) \in Nat
      BY <2>1
    <2>4. Len(q[n]) <= Len(q[n + 1]) /\ \A i \in 1..Len(q[n]) : q[n + 1][i] = q[n][i]
      <3> DEFINE x == Len(q[n])
                 y == Len(sibling[n])
      <3>1. /\ x \in Nat /\ y \in Nat /\ Len(q[n + 1]) = x + y
            /\ \A i \in 1..x + y :
                 q[n + 1][i] = IF i <= x THEN q[n][i] ELSE sibling[n][i - x]
        BY <2>2, <2>3
      <3> HIDE DEF x, y
      <3>2. x <= x + y /\ \A i \in 1..x : i <= x /\ i \in 1..x + y
        BY <3>1
      <3>3. x <= Len(q[n + 1]) /\ \A i \in 1..x : q[n + 1][i] = q[n][i]
        BY <3>1, <3>2
      <3> QED
        BY <3>3 DEF x
    <2>5. ASSUME NEW j \in Nat, j <= n + 1
          PROVE  /\ Len(q[j]) <= Len(q[n + 1])
                 /\ \A i \in 1..Len(q[j]) : q[n + 1][i] = q[j][i]
      <3>1. CASE j <= n
        <4>1. Len(q[j]) <= Len(q[n]) /\ \A i \in 1..Len(q[j]) : q[n][i] = q[j][i]
          BY <1>3, <3>1
        <4>2. Len(q[j]) \in Nat /\ Len(q[n + 1]) \in Nat /\ n + 1 \in Nat
          BY <1>1
        <4> QED
          BY <2>3, <2>4, <4>1, <4>2
      <3>2. CASE j = n + 1
        BY <1>1, <3>2
      <3> QED
        BY <2>5, <3>1, <3>2
    <2>6. Begins(n + 1)
      BY <2>5
    <2> HIDE DEF Begins
    <2> QED
      BY <2>6
  <1> HIDE DEF Good
  <1>4. h \in Good
    BY <1>2, <1>3, AllNats
  <1> QED
    BY <1>4 DEF Good

\* A verifier that knows the place of the leaf goes the way GetProof went.
LEMMA RebuildFollows ==
  ASSUME NEW S, NEW leaves \in Seq(S), Len(leaves) >= 1, NEW p \in 1..Len(leaves),
         NEW walk, IsWalk(leaves, p, walk), NEW h \in Nat,
         NEW built, IsRebuild(leaves[p], p, Len(leaves), walk[h].proof, built),
         NEW k \in Nat, k <= h
  PROVE  /\ built[k].at = walk[k].at
         /\ built[k].among = Len(Levels(leaves)[k])
         /\ built[k].hash = Levels(leaves)[k][walk[k].at]
  <1> DEFINE level == Levels(leaves)
             proof == walk[h].proof
             q == [j \in Nat |-> walk[j].proof]
             sibling == [j \in Nat |-> Sibling(level[j], walk[j].at)]
  <1>1. PICK U : GoesUp(U, leaves, walk)
    BY WalkType
  <1>up. \A j \in Nat :
          /\ level[j] \in Seq(U) /\ Len(level[j]) >= 1
          /\ Len(level[j + 1]) = Parent(Len(level[j]))
          /\ walk[j].at \in 1..Len(level[j])
          /\ Sibling(level[j], walk[j].at) \in Seq(U)
          /\ walk[j].proof \in Seq(U)
          /\ walk[j + 1].at = Parent(walk[j].at)
          /\ walk[j + 1].proof = walk[j].proof \o Sibling(level[j], walk[j].at)
    BY <1>1 DEF GoesUp
  <1>2. \A j \in Nat : /\ q[j] \in Seq(U) /\ sibling[j] \in Seq(U)
                       /\ q[j + 1] = q[j] \o sibling[j]
    <2> TAKE j \in Nat
    <2>1. /\ q[j] = walk[j].proof /\ q[j + 1] = walk[j + 1].proof
          /\ sibling[j] = Sibling(level[j], walk[j].at)
      OBVIOUS
    <2> HIDE DEF q, sibling, level
    <2> QED
      BY <1>up, <2>1
  <1>3. walk[0].at = p /\ q[0] = <<>> /\ proof = q[h] /\ proof \in Seq(U)
    <2>1. walk[0].at = p /\ walk[0].proof = <<>>
      BY Zenon DEF IsWalk
    <2> QED
      BY <1>up, <2>1
  <1>4. /\ built[0].hash = leaves[p] /\ built[0].at = p
        /\ built[0].among = Len(leaves) /\ built[0].left = proof
        /\ \A j \in Nat : LET b == built[j]  c == built[j + 1] IN
             /\ c.at = Parent(b.at) /\ c.among = Parent(b.among)
             /\ b.at = b.among /\ b.at % 2 = 1 =>
                  c.hash = Hash(<<b.hash>>) /\ c.left = b.left
             /\ b.at # b.among /\ b.at % 2 = 1 =>
                  c.hash = Hash(<<b.hash, Head(b.left)>>) /\ c.left = Tail(b.left)
             /\ b.at % 2 # 1 =>
                  c.hash = Hash(<<Head(b.left), b.hash>>) /\ c.left = Tail(b.left)
    BY DEF IsRebuild
  <1>5. level[0] = leaves /\ \A j \in Nat : level[j + 1] = Level(level[j])
    BY LevelsAre
  <1> DEFINE at(j) == walk[j].at
             Left(j) == /\ built[j].left \in Seq(U)
                        /\ Len(built[j].left) = Len(proof) - Len(q[j])
                        /\ \A i \in 1..Len(built[j].left) :
                             built[j].left[i] = proof[Len(q[j]) + i]
             Follows(j) == /\ built[j].at = at(j)
                           /\ built[j].among = Len(level[j])
                           /\ built[j].hash = level[j][at(j)]
                           /\ Left(j)
             Good == {j \in Nat : j <= h => Follows(j)}
  <1>6. \A j \in Nat : sibling[j] = Sibling(level[j], walk[j].at)
    OBVIOUS
  <1>7. \A j \in Nat : q[j] = walk[j].proof
    OBVIOUS
  <1> HIDE DEF level, proof, q, sibling, Follows
  <1>8. 0 \in Good
    <2>1. built[0].at = at(0) /\ built[0].among = Len(level[0])
          /\ built[0].hash = level[0][at(0)] /\ built[0].left = proof
      BY <1>3, <1>4, <1>5
    <2>2. Len(q[0]) = 0 /\ Len(proof) \in Nat /\ \A i \in Int : 0 + i = i
      BY <1>3
    <2>3. /\ built[0].left \in Seq(U)
          /\ Len(built[0].left) = Len(proof) - Len(q[0])
          /\ \A i \in 1..Len(built[0].left) : built[0].left[i] = proof[Len(q[0]) + i]
      BY <1>3, <2>1, <2>2
    <2>4. Follows(0)
      BY <2>1, <2>3 DEF Follows
    <2> QED
      BY <2>4
  <1>9. ASSUME NEW j \in Nat, j \in Good PROVE j + 1 \in Good
    <2> SUFFICES ASSUME j + 1 <= h PROVE Follows(j + 1)
      OBVIOUS
    <2> DEFINE b == built[j]
               c == built[j + 1]
               i == walk[j].at
               nodes == level[j]
               n == Len(nodes)
               rest == b.left
               sib == sibling[j]
    <2>1. /\ b.at = i /\ b.among = n /\ b.hash = nodes[i]
          /\ rest \in Seq(U) /\ Len(rest) = Len(proof) - Len(q[j])
          /\ \A m \in 1..Len(rest) : rest[m] = proof[Len(q[j]) + m]
      <3>1. Follows(j)
        BY <1>9
      <3> QED
        BY <3>1 DEF Follows
    <2>2. nodes \in Seq(U) /\ i \in 1..n /\ walk[j + 1].at = Parent(i)
          /\ Len(level[j + 1]) = Parent(n) /\ level[j + 1] = Level(nodes)
      BY <1>up, <1>5
    <2>3. c.at = Parent(i) /\ c.among = Parent(n)
      BY <1>4, <2>1
    <2>4. /\ i = n /\ i % 2 = 1 => c.hash = Hash(<<nodes[i]>>) /\ c.left = rest
          /\ i # n /\ i % 2 = 1 => c.hash = Hash(<<nodes[i], Head(rest)>>) /\ c.left = Tail(rest)
          /\ i % 2 # 1 => c.hash = Hash(<<Head(rest), nodes[i]>>) /\ c.left = Tail(rest)
      <3>1. /\ b.at = b.among /\ b.at % 2 = 1 => c.hash = Hash(<<b.hash>>) /\ c.left = rest
            /\ b.at # b.among /\ b.at % 2 = 1 =>
                 c.hash = Hash(<<b.hash, Head(rest)>>) /\ c.left = Tail(rest)
            /\ b.at % 2 # 1 =>
                 c.hash = Hash(<<Head(rest), b.hash>>) /\ c.left = Tail(rest)
        BY <1>4
      <3> HIDE DEF b, c, rest
      <3> QED
        BY <2>1, <3>1
    <2>5. sib = Sibling(nodes, i)
      BY <1>6
    <2>6. /\ q[j] \in Seq(U) /\ sib \in Seq(U) /\ q[j + 1] = q[j] \o sib
      <3> HIDE DEF sib
      <3> QED
        BY <1>2 DEF sib
    <2>7. /\ Len(q[j]) \in Nat /\ Len(proof) \in Nat /\ Len(rest) \in Nat
      <3>1. q[j] \in Seq(U) /\ proof \in Seq(U) /\ rest \in Seq(U)
        BY <1>3, <2>1, <2>6
      <3> QED
        BY <3>1
    <2>grows. Growing(U, q, sibling)
      BY <1>2 DEF Growing
    <2>8. /\ Len(q[j + 1]) <= Len(proof)
          /\ \A m \in 1..Len(q[j + 1]) : proof[m] = q[j + 1][m]
      <3> DEFINE t == j + 1
      <3>1. t \in Nat /\ t <= h
        OBVIOUS
      <3> HIDE DEF t
      <3>2. Len(q[t]) <= Len(q[h]) /\ \A m \in 1..Len(q[t]) : q[h][m] = q[t][m]
        BY <2>grows, <3>1, ProofGrows
      <3> QED
        BY <1>3, <3>2 DEF t
    <2>9. /\ i % 2 # 1 => /\ sib = <<nodes[i - 1]>> /\ i - 1 \in 1..n
                          /\ Level(nodes)[Parent(i)] = Hash(<<nodes[i - 1], nodes[i]>>)
          /\ i % 2 = 1 /\ i # n =>
               /\ sib = <<nodes[i + 1]>> /\ i + 1 \in 1..n
               /\ Level(nodes)[Parent(i)] = Hash(<<nodes[i], nodes[i + 1]>>)
          /\ i % 2 = 1 /\ i = n =>
               /\ sib = <<>> /\ Level(nodes)[Parent(i)] = Hash(<<nodes[i]>>)
      <3> HIDE DEF i
      <3>1. nodes \in Seq(U) /\ i \in 1..n
        BY <2>2
      <3> QED
        BY <2>5, <3>1, SiblingIs
    <2> HIDE DEF b, c, i, nodes, n, rest, sib
    <2>10. ASSUME NEW x, sib = <<x>>
           PROVE  /\ Head(rest) = x
                  /\ Tail(rest) \in Seq(U)
                  /\ Len(Tail(rest)) = Len(proof) - Len(q[j + 1])
                  /\ \A m \in 1..Len(Tail(rest)) : Tail(rest)[m] = proof[Len(q[j + 1]) + m]
      <3>1. Len(sib) = 1 /\ sib[1] = x
        BY <2>10
      <3>2. Len(q[j + 1]) = Len(q[j]) + 1 /\ q[j + 1][Len(q[j]) + 1] = x
        <4>1. /\ Len(q[j] \o sib) = Len(q[j]) + Len(sib)
              /\ \A m \in 1..Len(q[j]) + Len(sib) :
                   (q[j] \o sib)[m] = IF m <= Len(q[j]) THEN q[j][m] ELSE sib[m - Len(q[j])]
          BY <2>6, ConcatProperties
        <4>2. Len(q[j]) + 1 \in 1..Len(q[j]) + Len(sib)
          BY <2>7, <3>1
        <4>3. ~(Len(q[j]) + 1 <= Len(q[j])) /\ (Len(q[j]) + 1) - Len(q[j]) = 1
          BY <2>7
        <4> QED
          BY <2>6, <3>1, <4>1, <4>2, <4>3
      <3>3. proof[Len(q[j]) + 1] = x
        <4>1. Len(q[j]) + 1 \in 1..Len(q[j + 1])
          BY <2>7, <3>2
        <4> QED
          BY <2>8, <3>2, <4>1
      <3>4. Len(rest) >= 1 /\ Len(rest) = Len(proof) - Len(q[j])
        BY <2>1, <2>7, <2>8, <3>2
      <3>5. rest[1] = x
        <4>1. 1 \in 1..Len(rest)
          BY <2>7, <3>4
        <4> QED
          BY <2>1, <3>3, <4>1
      <3>6. rest # <<>> /\ rest \in Seq(U)
        BY <2>1, <3>4
      <3>7. Head(rest) = rest[1]
        BY <3>6
      <3>8. /\ Tail(rest) \in Seq(U) /\ Len(Tail(rest)) = Len(rest) - 1
            /\ \A m \in 1..Len(Tail(rest)) : Tail(rest)[m] = rest[m + 1]
        BY <3>6, HeadTailProperties
      <3>9. \A m \in 1..Len(Tail(rest)) : Tail(rest)[m] = proof[Len(q[j + 1]) + m]
        <4> TAKE m \in 1..Len(Tail(rest))
        <4>1. m + 1 \in 1..Len(rest) /\ Len(q[j]) + (m + 1) = Len(q[j + 1]) + m
          <5> DEFINE u == Len(q[j])
                     v == Len(rest)
          <5>1. u \in Nat /\ v \in Nat /\ m \in 1..v - 1 /\ Len(q[j + 1]) = u + 1
            BY <2>7, <3>2, <3>8
          <5> HIDE DEF u, v
          <5>2. m + 1 \in 1..v /\ u + (m + 1) = (u + 1) + m
            BY <5>1
          <5> QED
            BY <5>1, <5>2 DEF u, v
        <4>2. rest[m + 1] = proof[Len(q[j]) + (m + 1)]
          BY <2>1, <4>1
        <4> QED
          BY <3>8, <4>1, <4>2
      <3>10. Len(Tail(rest)) = Len(proof) - Len(q[j + 1])
        BY <2>7, <3>2, <3>4, <3>8
      <3> QED
        BY <3>5, <3>7, <3>8, <3>9, <3>10
    <2>11. ASSUME sib = <<>>
           PROVE  /\ Len(rest) = Len(proof) - Len(q[j + 1])
                  /\ \A m \in 1..Len(rest) : rest[m] = proof[Len(q[j + 1]) + m]
      <3>1. q[j + 1] = q[j]
        BY <2>6, <2>11, ConcatEmptySeq
      <3> QED
        BY <2>1, <3>1
    <2>12. c.hash = Level(nodes)[Parent(i)]
      BY <2>4, <2>9, <2>10
    <2>13. /\ c.left \in Seq(U)
           /\ Len(c.left) = Len(proof) - Len(q[j + 1])
           /\ \A m \in 1..Len(c.left) : c.left[m] = proof[Len(q[j + 1]) + m]
      BY <2>1, <2>4, <2>9, <2>10, <2>11
    <2> QED
      BY <2>2, <2>3, <2>12, <2>13 DEF c, i, n, nodes, Follows
  <1> HIDE DEF Good
  <1>10. k \in Good
    BY <1>8, <1>9, AllNats
  <1> QED
    BY <1>10 DEF Good, level, Follows

\* The verifier ends where buildTree ends, at the root.
LEMMA RebuiltIs ==
  ASSUME NEW S, NEW leaves \in Seq(S), Len(leaves) >= 1, NEW p \in 1..Len(leaves)
  PROVE  Rebuilt(leaves[p], p, Len(leaves), Walk(leaves, p)[Height(leaves)].proof) =
           BuildTree(leaves)
  <1> DEFINE h == Height(leaves)
             n == Len(leaves)
             walk == Walk(leaves, p)
             built == Rebuild(leaves[p], p, n, walk[h].proof)
             tops == {k \in 0..n : built[k].among = 1}
             m == Min(tops)
  <1>1. /\ h \in Nat /\ h <= n /\ n \in Nat
        /\ Len(Levels(leaves)[h]) = 1
        /\ \A k \in Nat : Len(Levels(leaves)[k]) = 1 => h <= k
    BY HeightIs
  <1>2. IsWalk(leaves, p, walk) /\ IsRebuild(leaves[p], p, Len(leaves), walk[h].proof, built)
    BY WalkIs, RebuildIs
  <1>3. Rebuilt(leaves[p], p, n, walk[h].proof) = built[m].hash
    BY DEF Rebuilt
  <1>4. BuildTree(leaves) = Levels(leaves)[h][1]
    BY DEF BuildTree
  <1> HIDE DEF h, walk, built
  <1>5. ASSUME NEW k \in Nat, k <= h
        PROVE  /\ built[k].at = walk[k].at
               /\ built[k].among = Len(Levels(leaves)[k])
               /\ built[k].hash = Levels(leaves)[k][walk[k].at]
    BY <1>1, <1>2, <1>5, RebuildFollows
  <1> HIDE DEF n
  <1>6. built[h].among = 1 /\ h <= h
    BY <1>1, <1>5
  <1>7. tops \in SUBSET Nat /\ h \in tops
    BY <1>1, <1>6
  <1>8. m \in tops /\ \A k \in tops : m <= k
    <2> HIDE DEF tops
    <2> QED
      BY <1>7, LeastFetch
  <1>9. m \in Nat /\ m <= h /\ built[m].among = 1
    BY <1>7, <1>8
  <1> HIDE DEF m
  <1>10. h <= m
    BY <1>1, <1>5, <1>9
  <1>11. m = h
    BY <1>1, <1>9, <1>10
  <1>12. walk[h].at = 1
    <2>1. PICK U : GoesUp(U, leaves, walk)
      BY <1>2, WalkType
    <2>2. walk[h].at \in 1..Len(Levels(leaves)[h])
      BY <1>1, <2>1 DEF GoesUp
    <2>3. walk[h].at \in 1..1
      BY <1>1, <2>2
    <2> QED
      BY <2>3
  <1>13. built[m].hash = Levels(leaves)[h][1]
    BY <1>1, <1>5, <1>6, <1>11, <1>12
  <1> QED
    BY <1>3, <1>4, <1>13 DEF n, walk, h

\* A tree of one is its leaf; that of more has a pair at the top.
LEMMA TopOfTree ==
  ASSUME NEW S, NEW leaves \in Seq(S), Len(leaves) >= 1
  PROVE  /\ Len(leaves) = 1 => Height(leaves) = 0 /\ BuildTree(leaves) = leaves[1]
         /\ Len(leaves) # 1 => \E x, y : BuildTree(leaves) = Hash(<<x, y>>)
  <1> DEFINE h == Height(leaves)
             level == Levels(leaves)
  <1>1. /\ h \in Nat /\ Len(level[h]) = 1
        /\ \A k \in Nat : Len(level[k]) = 1 => h <= k
    BY HeightIs
  <1>2. level[0] = leaves /\ \A k \in Nat : level[k + 1] = Level(level[k])
    BY LevelsAre
  <1>3. BuildTree(leaves) = level[h][1]
    BY DEF BuildTree
  <1>4. ASSUME NEW k \in Nat
        PROVE  (\E T : level[k] \in Seq(T)) /\ Len(level[k]) \in Nat /\ Len(level[k]) >= 1
    BY LevelsType
  <1> HIDE DEF h, level
  <1>5. ASSUME Len(leaves) = 1 PROVE h = 0
    BY <1>1, <1>2, <1>5
  <1>6. ASSUME Len(leaves) # 1 PROVE \E x, y : level[h][1] = Hash(<<x, y>>)
    <2> DEFINE k == h - 1
               nodes == level[k]
    <2>1. k \in Nat /\ k + 1 = h /\ ~(h <= k)
      <3>1. h # 0
        BY <1>1, <1>2, <1>6
      <3> QED
        BY <1>1, <3>1
    <2> HIDE DEF k
    <2>2. PICK T : nodes \in Seq(T)
      BY <1>4, <2>1
    <2>3. Len(nodes) \in Nat /\ Len(nodes) >= 1 /\ Len(nodes) # 1
      BY <1>1, <1>4, <2>1
    <2>4. level[h] = Level(nodes)
      BY <1>2, <2>1
    <2> HIDE DEF nodes
    <2>5. Len(Level(nodes)) = (Len(nodes) + 1) \div 2
          /\ \A i \in 1..(Len(nodes) + 1) \div 2 :
               Level(nodes)[i] =
                 Hash(IF 2 * i <= Len(nodes) THEN <<nodes[2 * i - 1], nodes[2 * i]>>
                      ELSE <<nodes[2 * i - 1]>>)
      BY <2>2, LevelIs
    <2>6. 1 \in 1..(Len(nodes) + 1) \div 2 /\ 2 * 1 <= Len(nodes)
      <3>1. \A m \in Nat : m >= 1 /\ m # 1 => 1 \in 1..(m + 1) \div 2 /\ 2 * 1 <= m
        OBVIOUS
      <3> QED
        BY <2>3, <3>1
    <2>7. Level(nodes)[1] = Hash(<<nodes[2 * 1 - 1], nodes[2 * 1]>>)
      BY <2>5, <2>6
    <2> QED
      BY <2>4, <2>7
  <1> QED
    BY <1>2, <1>3, <1>5, <1>6 DEF h

\* VerifyProof computes the hash of a fence or of a single hash, never of a pair.
LEMMA NoPairVerifies ==
  ASSUME NEW id, NEW f, NEW proof, Len(proof) \in Nat, NEW x, NEW y
  PROVE  ~VerifyProof(Leaf(id, f), proof, Hash(<<x, y>>))
  <1>1. PICK hash : /\ IsVerify(Leaf(id, f), proof, hash)
                    /\ VerifyProof(Leaf(id, f), proof, Hash(<<x, y>>)) <=>
                         hash[Len(proof)] = Hash(<<x, y>>)
    BY VerifyIs
  <1> DEFINE n == Len(proof)
  <1>2. CASE n = 0
    <2>1. Len(<<id, f.fields, f.geometry, f.keyID>>) = 4 /\ Len(<<x, y>>) = 2
      OBVIOUS
    <2>2. <<id, f.fields, f.geometry, f.keyID>> # <<x, y>>
      BY <2>1
    <2>3. hash[n] = Hash(<<id, f.fields, f.geometry, f.keyID>>)
      BY <1>1, <1>2 DEF Leaf, IsVerify
    <2>4. hash[n] # Hash(<<x, y>>)
      BY <2>2, <2>3, HashIs
    <2> QED
      BY <1>1, <2>4
  <1>3. CASE n # 0
    <2> DEFINE k == n - 1
    <2>1. k \in Nat /\ k + 1 = n
      BY <1>3
    <2> HIDE DEF k
    <2>2. hash[n] = Hash(<<Hash(<<hash[k], proof[k + 1]>>)>>)
      BY <1>1, <2>1 DEF IsVerify
    <2>3. hash[n] # Hash(<<x, y>>)
      <3>1. <<Hash(<<hash[k], proof[k + 1]>>)>> # <<x, y>>
        BY PairIsNotSingle
      <3> QED
        BY <2>2, <3>1, HashIs
    <2> QED
      BY <1>1, <2>3
  <1> QED
    BY <1>2, <1>3

\* With nothing to hash with, VerifyProof compares the leaf and the root.
LEMMA EmptyVerifies ==
  ASSUME NEW leaf, NEW root
  PROVE  VerifyProof(leaf, <<>>, root) <=> leaf = root
  <1>1. PICK hash : /\ IsVerify(leaf, <<>>, hash)
                    /\ VerifyProof(leaf, <<>>, root) <=> hash[Len(<<>>)] = root
    BY VerifyIs
  <1>2. Len(<<>>) = 0
    OBVIOUS
  <1> QED
    BY <1>1, <1>2 DEF IsVerify

\* The hashes of GetProof, with the place of the leaf, give the root.
LEMMA ProofsHold ==
  ASSUME NEW c, NEW id \in Present(c)
  PROVE  Rebuilt(Leaf(id, c[id]), Place(Present(c), id), Cardinality(Present(c)),
                 GetProof(c, id)) = RootHash(c)
  <1> DEFINE ids == Present(c)
             leaves == Leaves(c)
             p == Place(ids, id)
             n == Cardinality(ids)
  <1>1. PICK S : leaves \in Seq(S)
    BY LeavesAre
  <1>2. n \in Nat /\ Len(leaves) = n /\ p \in 1..n /\ leaves[p] = Leaf(id, c[id])
    BY LeavesAre
  <1>3. GetProof(c, id) = Walk(leaves, p)[Height(leaves)].proof
    BY DEF GetProof
  <1>4. RootHash(c) = BuildTree(leaves)
    BY DEF RootHash
  <1> HIDE DEF ids, leaves, p, n
  <1>5. Len(leaves) >= 1 /\ p \in 1..Len(leaves)
    BY <1>2
  <1>6. Rebuilt(leaves[p], p, Len(leaves), Walk(leaves, p)[Height(leaves)].proof) =
          BuildTree(leaves)
    BY <1>1, <1>5, RebuiltIs
  <1> QED
    BY <1>2, <1>3, <1>4, <1>6 DEF ids, p, n

\* VerifyProof accepts a proof in a tree of one only, for the fence that is there.
LEMMA VerifiesAlone ==
  ASSUME NEW c \in Collection, NEW id \in Present(c), NEW f \in Fence
  PROVE  VerifyProof(Leaf(id, f), GetProof(c, id), RootHash(c)) <=>
           Cardinality(Present(c)) = 1 /\ SameFence(f, c[id])
  <1> DEFINE ids == Present(c)
             leaves == Leaves(c)
             p == Place(ids, id)
             n == Cardinality(ids)
             h == Height(leaves)
             walk == Walk(leaves, p)
             verified == VerifyProof(Leaf(id, f), GetProof(c, id), RootHash(c))
  <1>1. PICK S : leaves \in Seq(S)
    BY LeavesAre
  <1>2. n \in Nat /\ Len(leaves) = n /\ p \in 1..n /\ leaves[p] = Leaf(id, c[id])
    BY LeavesAre
  <1>3. GetProof(c, id) = walk[h].proof
    BY DEF GetProof
  <1>4. RootHash(c) = BuildTree(leaves)
    BY DEF RootHash
  <1>5. c[id] \in Fence
    BY DEF Present, Collection
  <1>6. IsWalk(leaves, p, walk)
    BY WalkIs
  <1> HIDE DEF ids, leaves, p, n, h, walk
  <1>7. Len(leaves) >= 1 /\ p \in 1..Len(leaves)
    BY <1>2
  <1>8. CASE n = 1
    <2>1. h = 0 /\ BuildTree(leaves) = leaves[1]
      BY <1>1, <1>2, <1>7, <1>8, TopOfTree DEF h
    <2>2. p = 1
      BY <1>2, <1>8
    <2>3. walk[0].proof = <<>>
      BY <1>6 DEF IsWalk
    <2>4. RootHash(c) = Leaf(id, c[id]) /\ GetProof(c, id) = <<>>
      BY <1>2, <1>3, <1>4, <2>1, <2>2, <2>3
    <2>5. verified <=> Leaf(id, f) = Leaf(id, c[id])
      BY <2>4, EmptyVerifies
    <2>6. Leaf(id, f) = Leaf(id, c[id]) <=> SameFence(f, c[id])
      BY <1>5, LeafIsIdeal, SameFenceIs
    <2> QED
      BY <1>8, <2>5, <2>6 DEF n, ids
  <1>9. CASE n # 1
    <2>1. PICK x, y : BuildTree(leaves) = Hash(<<x, y>>)
      BY <1>1, <1>2, <1>7, <1>9, TopOfTree
    <2>2. PICK U : GoesUp(U, leaves, walk)
      BY <1>1, <1>6, <1>7, WalkType
    <2>3. h \in Nat
      BY <1>1, <1>7, HeightIs DEF h
    <2>4. walk[h].proof \in Seq(U)
      BY <2>2, <2>3 DEF GoesUp
    <2>5. Len(GetProof(c, id)) \in Nat
      BY <1>3, <2>4
    <2>6. ~verified
      BY <1>4, <2>1, <2>5, NoPairVerifies
    <2> QED
      BY <1>9, <2>6 DEF n, ids
  <1> QED
    BY <1>8, <1>9

\* For collections of any size: what GetProof returns leads to the root for a
\* verifier that knows the place, and VerifyProof accepts no fence that is not in
\* the tree.  (Of GetProof's own proofs it accepts only that of the one fence of a
\* tree of one: the reason, and why the property does not ask more of it.)
THEOREM ProofsAreRebuilt == Spec => []ProofsRebuild
  <1>1. Init => ProofsRebuild
    BY DEF Init, Idle, ProofsRebuild
  <1>2. ASSUME ClaimFence PROVE ProofsRebuild'
    <2>1. PICK c \in ProofCollections : \E id \in Present(c) :
            \E claimed \in {d[id] : d \in ProofCollections} \ {None} :
              LET proof == GetProof(c, id) IN
              Called([api |-> "proof", tree |-> c, id |-> id, claimed |-> claimed],
                     [proof |-> proof,
                      verified |-> VerifyProof(Leaf(id, claimed), proof, RootHash(c))])
      BY <1>2 DEF ClaimFence
    <2>2. PICK id \in Present(c) :
            \E claimed \in {d[id] : d \in ProofCollections} \ {None} :
              LET proof == GetProof(c, id) IN
              Called([api |-> "proof", tree |-> c, id |-> id, claimed |-> claimed],
                     [proof |-> proof,
                      verified |-> VerifyProof(Leaf(id, claimed), proof, RootHash(c))])
      BY <2>1
    <2>3. PICK claimed \in {d[id] : d \in ProofCollections} \ {None} :
            /\ call' = [api |-> "proof", tree |-> c, id |-> id, claimed |-> claimed]
            /\ answer' = [proof |-> GetProof(c, id),
                          verified |-> VerifyProof(Leaf(id, claimed), GetProof(c, id),
                                                   RootHash(c))]
      BY <2>2 DEF Called
    <2>4. c \in Collection /\ claimed \in Fence
      <3>1. ProofCollections \subseteq Collection
        BY AlgorithmsAssumption
      <3>2. PICK d \in ProofCollections : claimed = d[id]
        OBVIOUS
      <3>3. id \in Ids /\ d \in [Ids -> Fence \cup {None}]
        BY <3>1 DEF Present, Collection
      <3> QED
        BY <3>1, <3>2, <3>3
    <2>5. /\ call'.tree = c /\ call'.id = id /\ call'.claimed = claimed
          /\ answer'.proof = GetProof(c, id)
      BY <2>3
    <2>6. answer'.verified <=>
            VerifyProof(Leaf(id, claimed), GetProof(c, id), RootHash(c))
      BY <2>3
    <2>7. Rebuilt(Leaf(id, c[id]), Place(Present(c), id), Cardinality(Present(c)),
                  GetProof(c, id)) = RootHash(c)
      BY ProofsHold
    <2>8. answer'.verified <=> /\ Cardinality(Present(c)) = 1
                               /\ SameFence(claimed, c[id])
      BY <2>4, <2>6, VerifiesAlone
    <2> QED
      BY <2>5, <2>7, <2>8 DEF ProofsRebuild
  <1>3. ProofsRebuild /\ [Next]_<<call, answer>> => ProofsRebuild'
    BY <1>2, CallIs DEF ProofsRebuild
  <1> QED
    BY <1>1, <1>3, PTL DEF Spec
=============================================================================
