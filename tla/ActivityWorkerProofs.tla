------------------------ MODULE ActivityWorkerProofs ------------------------
(***************************************************************************)
(* Proofs about ActivityWorker: the slots of a worker's semaphore, the     *)
(* leases that activity answers are held to, the keys of task tokens and   *)
(* the waits before retries.                                               *)
(***************************************************************************)
EXTENDS ActivityWorker, FiniteSetTheorems, WellFoundedInduction, TLAPS

-----------------------------------------------------------------------------
(* New leases and new keys.                                                *)

LEMMA LeastIs ==
    ASSUME NEW S, S \subseteq Nat, S # {}
    PROVE  Least(S) \in S
<1> DEFINE R == {ss \in Nat \X Nat : ss[1] < ss[2]}
<1>0. IsWellFoundedOn(R, Nat)
  BY NatLessThanWellFounded, Zenon DEF OpToRel
<1>1. PICK x \in S : \A y \in S : ~(<<y, x>> \in R)
  BY <1>0, WFMin
<1>2. ASSUME NEW y \in S PROVE x <= y
  <2>1. y < x => <<y, x>> \in R
    OBVIOUS
  <2> QED
    BY <1>1, <2>1
<1> QED
  BY <1>2 DEF Least

(* Of n + 1 numbers one is left when at most n are taken.                  *)
LEMMA OneIsLeft ==
    ASSUME NEW n \in Nat, NEW X, IsFiniteSet(X), Cardinality(X) <= n
    PROVE  Least(1 .. (n + 1) \ X) \in Nat /\ Least(1 .. (n + 1) \ X) \notin X
<1>1. CASE 1 .. (n + 1) \subseteq X
  <2>1. Cardinality(1 .. (n + 1)) = n + 1
    BY FS_Interval
  <2>2. Cardinality(1 .. (n + 1)) <= Cardinality(X) /\ Cardinality(X) \in Nat
    BY <1>1, FS_Subset, FS_CardinalityType
  <2> QED
    BY <2>1, <2>2
<1>2. CASE ~(1 .. (n + 1) \subseteq X)
  <2> DEFINE S == 1 .. (n + 1) \ X
  <2>1. S # {} /\ S \subseteq Nat /\ S \cap X = {}
    BY <1>2
  <2>2. Least(S) \in S
    BY <2>1, LeastIs
  <2> QED
    BY <2>1, <2>2
<1> QED
  BY <1>1, <1>2

LEMMA LeasesAre ==
    ASSUME NEW S, IsFiniteSet(S), NEW t
    PROVE  LET X == {j.lease : j \in {i \in S : i.task = t}}
           IN  IsFiniteSet(X) /\ Cardinality(X) <= Cardinality(S)
<1> DEFINE T == {i \in S : i.task = t}
           X == {j.lease : j \in T}
           f == [j \in T |-> j.lease]
<1>1. IsFiniteSet(T) /\ Cardinality(T) <= Cardinality(S)
  BY FS_Subset
<1>2. f \in Surjection(T, X)
  BY DEF Surjection
<1>3. IsFiniteSet(X) /\ Cardinality(X) <= Cardinality(T)
  BY <1>1, <1>2, FS_Surjection
<1>4. Cardinality(X) \in Nat /\ Cardinality(T) \in Nat /\ Cardinality(S) \in Nat
  BY <1>1, <1>3, FS_CardinalityType
<1> HIDE DEF X, T
<1>5. Cardinality(X) <= Cardinality(S)
  BY <1>1, <1>3, <1>4
<1> QED
  BY <1>3, <1>5 DEF X, T

(* A dequeue hands out a lease that no task about has.                     *)
LEMMA NewLeaseFresh ==
    ASSUME IsFiniteSet(jobs), NEW t
    PROVE  /\ NewLease(t) \in Nat
           /\ \A j \in jobs : j.task = t => j.lease # NewLease(t)
<1> DEFINE X == {j.lease : j \in {i \in jobs : i.task = t}}
<1>1. IsFiniteSet(X) /\ Cardinality(X) <= Cardinality(jobs) /\ Cardinality(jobs) \in Nat
  BY LeasesAre, FS_CardinalityType
<1>2. NewLease(t) = Least(1 .. (Cardinality(jobs) + 1) \ X)
  BY DEF NewLease
<1>3. \A j \in jobs : j.task = t => j.lease \in X
  OBVIOUS
<1> HIDE DEF X
<1> QED
  BY <1>1, <1>2, <1>3, OneIsLeft

(* A server that is given no key makes one that no other process has, nor  *)
(* any token about.                                                        *)
LEMMA NewKeyFresh ==
    ASSUME IsFiniteSet(jobs)
    PROVE  /\ NewKey \in Nat
           /\ getEnvHex(dep.env) # "" => NewKey = 0
           /\ getEnvHex(dep.env) = "" => /\ \A s \in Server : server[s].key # NewKey
                                         /\ \A j \in jobs : j.key # NewKey
<1>1. CASE getEnvHex(dep.env) # ""
  BY <1>1 DEF NewKey, ConfiguredKey
<1>2. CASE getEnvHex(dep.env) = ""
  <2> DEFINE K == {server[s].key : s \in Server}
             J == {j.key : j \in jobs}
             f == [s \in Server |-> server[s].key]
             g == [j \in jobs |-> j.key]
  <2>1. f \in Surjection(Server, K) /\ g \in Surjection(jobs, J)
    BY DEF Surjection
  <2>2. /\ IsFiniteSet(K) /\ Cardinality(K) <= Cardinality(Server)
        /\ IsFiniteSet(J) /\ Cardinality(J) <= Cardinality(jobs)
    BY <2>1, ServerAssumption, FS_Surjection
  <2>3. NewKey = Least(1 .. (Cardinality(Server) + Cardinality(jobs) + 1) \ (K \cup J))
    BY <1>2 DEF NewKey
  <2>4. /\ \A s \in Server : server[s].key \in K \cup J
        /\ \A j \in jobs : j.key \in K \cup J
    OBVIOUS
  <2> HIDE DEF K, J
  <2>5. /\ Cardinality(K) \in Nat /\ Cardinality(J) \in Nat
        /\ Cardinality(Server) \in Nat /\ Cardinality(jobs) \in Nat
    BY <2>2, ServerAssumption, FS_CardinalityType
  <2>6. /\ IsFiniteSet(K \cup J)
        /\ Cardinality(K \cup J) = Cardinality(K) + Cardinality(J) - Cardinality(K \cap J)
        /\ Cardinality(K \cap J) \in Nat
    BY <2>2, FS_Union, FS_Intersection, FS_CardinalityType
  <2>7. Cardinality(K \cup J) <= Cardinality(Server) + Cardinality(jobs)
    BY <2>2, <2>5, <2>6
  <2>8. Cardinality(Server) + Cardinality(jobs) \in Nat
    BY <2>5
  <2> QED
    BY <1>2, <2>3, <2>4, <2>6, <2>7, <2>8, OneIsLeft
<1> QED
  BY <1>1, <1>2

-----------------------------------------------------------------------------
(* Powers.                                                                 *)

(* A set that has 0 and with every number the next one has them all.       *)
LEMMA AllNumbers ==
    ASSUME NEW S, 0 \in S, \A n \in S \cap Nat : n + 1 \in S
    PROVE  Nat \subseteq S
<1> DEFINE R == {ss \in Nat \X Nat : ss[1] < ss[2]}
           Bad == Nat \ S
<1>1. IsWellFoundedOn(R, Nat)
  BY NatLessThanWellFounded, Zenon DEF OpToRel
<1> SUFFICES ASSUME Bad # {} PROVE FALSE
  OBVIOUS
<1>2. PICK n \in Bad : \A k \in Bad : ~(<<k, n>> \in R)
  BY <1>1, WFMin
<1>3. n \in Nat /\ n # 0 /\ n - 1 \in Nat
  BY <1>2
<1>4. <<n - 1, n>> \in R
  BY <1>3
<1>5. n - 1 \in S
  BY <1>2, <1>3, <1>4
<1>6. n - 1 + 1 \in S
  BY <1>3, <1>5
<1> QED
  BY <1>2, <1>3, <1>6

Powers(f, x, n) == f = [i \in 0 .. n |-> IF i = 0 THEN 1 ELSE x * f[i - 1]]

LEMMA PowersExist ==
    ASSUME NEW x \in Int, NEW N \in Nat
    PROVE  \E f : Powers(f, x, N)
<1> DEFINE S == {n \in Nat : \E f : Powers(f, x, n)}
<1>1. 0 \in S
  <2>1. PICK f : f = [i \in 0 .. 0 |-> 1]
    OBVIOUS
  <2>2. Powers(f, x, 0)
    BY <2>1 DEF Powers
  <2> QED
    BY <2>2
<1>2. ASSUME NEW n \in S \cap Nat PROVE n + 1 \in S
  <2>1. PICK f : f = [i \in 0 .. n |-> IF i = 0 THEN 1 ELSE x * f[i - 1]]
    BY <1>2 DEF Powers
  <2>2. PICK v : v = x * f[n]
    OBVIOUS
  <2>3. PICK g : g = [i \in 0 .. n + 1 |-> IF i <= n THEN f[i] ELSE v]
    OBVIOUS
  <2>4. \A i \in 0 .. n : g[i] = f[i]
    BY <2>3
  <2>5. ASSUME NEW i \in 0 .. n + 1
        PROVE  g[i] = IF i = 0 THEN 1 ELSE x * g[i - 1]
    <3>1. CASE i = 0
      BY <2>1, <2>4, <3>1
    <3>2. CASE i \in 1 .. n
      <4>1. g[i] = f[i] /\ g[i - 1] = f[i - 1]
        BY <2>4, <3>2
      <4>2. f[i] = x * f[i - 1]
        BY <2>1, <3>2
      <4> QED
        BY <3>2, <4>1, <4>2
    <3>3. CASE i = n + 1
      <4>1. g[i] = v /\ g[i - 1] = f[n] /\ i # 0
        BY <2>3, <2>4, <3>3
      <4> QED
        BY <2>2, <3>3, <4>1
    <3> QED
      BY <3>1, <3>2, <3>3
  <2>6. Powers(g, x, n + 1)
    BY <2>3, <2>5 DEF Powers
  <2>7. n + 1 \in Nat
    OBVIOUS
  <2> QED
    BY <2>6, <2>7
<1> HIDE DEF S
<1>3. N \in S
  BY <1>1, <1>2, AllNumbers
<1> QED
  BY <1>3 DEF S

LEMMA PowersStart ==
    ASSUME NEW x, NEW n \in Nat, NEW f, Powers(f, x, n)
    PROVE  f[0] = 1
<1>1. f = [i \in 0 .. n |-> IF i = 0 THEN 1 ELSE x * f[i - 1]]
  BY DEF Powers
<1>2. 0 \in 0 .. n
  OBVIOUS
<1> QED
  BY <1>1, <1>2

(* Two functions with the recurrence of math.Pow agree where both are      *)
(* defined.                                                                *)
LEMMA PowersAgree ==
    ASSUME NEW x \in Int, NEW n \in Nat, NEW m \in Nat, NEW f, NEW g,
           Powers(f, x, n), Powers(g, x, m), NEW k \in 0 .. n, k <= m
    PROVE  f[k] = g[k]
<1> DEFINE S == {i \in Nat : i <= k => f[i] = g[i]}
<1>1. 0 \in S
  <2>1. f[0] = 1 /\ g[0] = 1
    BY PowersStart
  <2> QED
    BY <2>1
<1>2. ASSUME NEW i \in S \cap Nat PROVE i + 1 \in S
  <2>1. CASE i + 1 <= k
    <3>1. f[i] = g[i]
      BY <1>2, <2>1
    <3>2. f[i + 1] = x * f[i]
      BY <1>2, <2>1 DEF Powers
    <3>3. g[i + 1] = x * g[i]
      BY <1>2, <2>1 DEF Powers
    <3> QED
      BY <1>2, <3>1, <3>2, <3>3
  <2>2. CASE ~(i + 1 <= k)
    BY <1>2, <2>2
  <2> QED
    BY <2>1, <2>2
<1> HIDE DEF S
<1>3. k \in S
  BY <1>1, <1>2, AllNumbers
<1> QED
  BY <1>3 DEF S

LEMMA PowIs ==
    ASSUME NEW x \in Int, NEW n \in Nat, NEW f, Powers(f, x, n)
    PROVE  Pow(x, n) = f[n]
<1> DEFINE p == CHOOSE p : p = [i \in 0 .. n |-> IF i = 0 THEN 1 ELSE x * p[i - 1]]
<1>1. Pow(x, n) = p[n]
  BY DEF Pow
<1>2. Powers(p, x, n)
  BY DEF Powers
<1> HIDE DEF p
<1>3. n \in 0 .. n /\ n <= n
  OBVIOUS
<1>4. p[n] = f[n]
  BY <1>2, <1>3, PowersAgree
<1> QED
  BY <1>1, <1>4

LEMMA PowStep ==
    ASSUME NEW x \in Int, NEW n \in Nat
    PROVE  Pow(x, 0) = 1 /\ Pow(x, n + 1) = x * Pow(x, n)
<1>1. PICK f : Powers(f, x, n + 1)
  BY PowersExist
<1>2. PICK g : Powers(g, x, n)
  BY PowersExist
<1>3. PICK h : Powers(h, x, 0)
  BY PowersExist
<1>4. Pow(x, n + 1) = f[n + 1] /\ f[n + 1] = x * f[n]
  <2>1. f[n + 1] = x * f[n]
    BY <1>1 DEF Powers
  <2> QED
    BY <1>1, <2>1, PowIs
<1>5. Pow(x, n) = g[n]
  BY <1>2, PowIs
<1>6. f[n] = g[n]
  BY <1>1, <1>2, PowersAgree
<1>7. Pow(x, 0) = h[0] /\ h[0] = 1
  BY <1>3, PowIs, PowersStart
<1> QED
  BY <1>4, <1>5, <1>6, <1>7

LEMMA PowPositive ==
    ASSUME NEW x \in Nat \ {0}, NEW n \in Nat
    PROVE  Pow(x, n) \in Nat \ {0}
<1> DEFINE S == {k \in Nat : Pow(x, k) \in Nat \ {0}}
<1>1. 0 \in S
  <2>1. x \in Int /\ Pow(x, 0) = 1
    BY PowStep
  <2> QED
    BY <2>1
<1>2. ASSUME NEW k \in S \cap Nat PROVE k + 1 \in S
  <2>1. PICK p \in Nat \ {0} : p = Pow(x, k)
    BY <1>2
  <2>2. x * p \in Nat \ {0}
    OBVIOUS
  <2>3. Pow(x, k + 1) = x * p
    BY <1>2, <2>1, PowStep
  <2> QED
    BY <1>2, <2>2, <2>3
<1> HIDE DEF S
<1>3. n \in S
  BY <1>1, <1>2, AllNumbers
<1> QED
  BY <1>3 DEF S

LEMMA PowGrows ==
    ASSUME NEW x \in Nat \ {0}, NEW y \in Nat \ {0}, x >= y, NEW n \in Nat
    PROVE  Pow(x, n) >= Pow(y, n)
<1> DEFINE S == {k \in Nat : Pow(x, k) >= Pow(y, k)}
<1>1. 0 \in S
  <2>1. Pow(x, 0) = 1 /\ Pow(y, 0) = 1
    BY PowStep
  <2> QED
    BY <2>1
<1>2. ASSUME NEW k \in S \cap Nat PROVE k + 1 \in S
  <2>1. PICK p \in Nat, q \in Nat : p = Pow(x, k) /\ q = Pow(y, k)
    BY <1>2, PowPositive
  <2>2. p >= q
    BY <1>2, <2>1
  <2>3. x * p >= y * q
    <3>1. x * p >= x * q
      BY <2>2
    <3>2. x * q >= y * q
      OBVIOUS
    <3>3. x * p \in Nat /\ x * q \in Nat /\ y * q \in Nat
      OBVIOUS
    <3> QED
      BY <3>1, <3>2, <3>3
  <2>4. Pow(x, k + 1) = x * p /\ Pow(y, k + 1) = y * q
    BY <1>2, <2>1, PowStep
  <2> QED
    BY <1>2, <2>3, <2>4
<1> HIDE DEF S
<1>3. n \in S
  BY <1>1, <1>2, AllNumbers
<1> QED
  BY <1>3 DEF S
-----------------------------------------------------------------------------
(* The waits before retries.                                               *)

LEMMA LimitIs == Limit \in Nat \ {0}
<1>1. Width - 1 \in Nat
  BY WidthAssumption
<1> QED
  BY <1>1, PowPositive DEF Limit

LEMMA WrappedIs ==
    ASSUME NEW x \in Int
    PROVE  /\ Wrapped(x) \in Int
           /\ x >= 0 /\ x < Limit => Wrapped(x) = x
<1>1. PICK L \in Nat \ {0} : L = Limit
  BY LimitIs
<1>2. ((x + L) % (2 * L)) - L \in Int
  OBVIOUS
<1>3. x >= 0 /\ x < L => ((x + L) % (2 * L)) - L = x
  OBVIOUS
<1> QED
  BY <1>1, <1>2, <1>3 DEF Wrapped

(* The whole part p of a fraction A / B, and half of it.                   *)
LEMMA WholePart ==
    ASSUME NEW A \in Nat \ {0}, NEW B \in Nat \ {0}
    PROVE  /\ A \div B \in Nat /\ (A \div B) * B <= A
           /\ A >= B => 2 * ((A \div B) * B) >= A
<1>1. PICK p \in Int : p = A \div B
  OBVIOUS
<1>2. p * B <= A /\ A < p * B + B
  BY <1>1
<1>3. p >= 0
  <2>1. ASSUME p < 0 PROVE FALSE
    <3>1. p + 1 <= 0
      BY <2>1
    <3>2. (p + 1) * B <= 0
      BY <3>1
    <3>3. (p + 1) * B = p * B + B
      OBVIOUS
    <3> QED
      BY <1>2, <3>2, <3>3
  <2> QED
    BY <2>1
<1>4. ASSUME A >= B PROVE 2 * (p * B) >= A
  <2>1. p # 0
    BY <1>2, <1>4
  <2>2. p >= 1
    BY <1>3, <2>1
  <2>3. p * B >= B
    BY <2>2
  <2>4. p * B \in Int
    OBVIOUS
  <2> QED
    BY <1>2, <2>3, <2>4
<1> QED
  BY <1>1, <1>2, <1>3, <1>4

LEMMA LeastOfTwo ==
    ASSUME NEW a \in Int, NEW b \in Int
    PROVE  Least({a, b}) \in {a, b} /\ Least({a, b}) <= a /\ Least({a, b}) <= b
<1>1. PICK x \in {a, b} : \A y \in {a, b} : x <= y
  BY a <= b \/ b <= a
<1> QED
  BY <1>1 DEF Least

LEMMA TimesGrows ==
    ASSUME NEW a \in Nat, NEW b \in Int, NEW c \in Int, b <= c
    PROVE  a * b <= a * c
OBVIOUS

Capped(maxInterval, b) == IF maxInterval > 0 /\ b > maxInterval THEN maxInterval ELSE b

Waits(initial, maxInterval, coeff, n) ==
    {Capped(maxInterval, Wrapped(initial * p)) :
        p \in Converted(Pow(coeff[1], n) \div Pow(coeff[2], n))}

(* As long as the exact product fits a Duration, the wait is the smaller   *)
(* of the maximal interval and the initial interval times a whole factor   *)
(* that is at most the power, and, with a coefficient of at least 1, at    *)
(* least half of it.                                                       *)
LEMMA WaitsFollow ==
    ASSUME NEW initial \in Nat, NEW M \in Int, NEW coeff \in (Nat \ {0}) \X (Nat \ {0}),
           NEW n \in Nat, NEW wait \in Waits(initial, M, coeff, n),
           initial * Pow(coeff[1], n) < Limit * Pow(coeff[2], n)
    PROVE  LET exact == initial * Pow(coeff[1], n)
               scale == Pow(coeff[2], n)
               upTo == IF M > 0 THEN Least({exact, M * scale}) ELSE exact
           IN  /\ wait * scale <= upTo
               /\ coeff[1] >= coeff[2] => 2 * wait * scale >= upTo
<1>1. coeff[1] \in Nat \ {0} /\ coeff[2] \in Nat \ {0}
  OBVIOUS
<1>2. PICK A \in Nat \ {0} : A = Pow(coeff[1], n)
  BY <1>1, PowPositive
<1>3. PICK B \in Nat \ {0} : B = Pow(coeff[2], n)
  BY <1>1, PowPositive
<1>4. coeff[1] >= coeff[2] => A >= B
  BY <1>1, <1>2, <1>3, PowGrows
<1>5. PICK L \in Nat \ {0} : L = Limit
  BY LimitIs
<1>6. PICK p \in Nat : /\ p = A \div B /\ p * B <= A
                       /\ A >= B => 2 * (p * B) >= A
  BY WholePart
<1>7. initial * A < L * B
  BY <1>2, <1>3, <1>5
<1>8. PICK q \in Converted(p) : wait = Capped(M, Wrapped(initial * q))
  BY <1>2, <1>3, <1>6 DEF Waits
<1>9. initial * q = initial * p /\ initial * p < L
  <2>1. CASE initial = 0
    <3>1. q \in Int
      BY <1>5 DEF Converted
    <3> QED
      BY <2>1, <3>1
  <2>2. CASE initial # 0
    <3>1. PICK t \in Nat : t = initial * p
      OBVIOUS
    <3>2. t * B <= initial * A
      <4>1. PICK pb \in Int : pb = p * B
        OBVIOUS
      <4>2. initial * pb <= initial * A
        BY <1>6, <4>1, TimesGrows
      <4>3. t * B = initial * pb
        BY <3>1, <4>1
      <4> QED
        BY <4>2, <4>3
    <3>3. t * B < L * B
      BY <1>7, <3>2
    <3>4. t < L
      BY <3>3
    <3>5. p <= t
      BY <2>2, <3>1
    <3>6. p < L
      BY <3>4, <3>5
    <3>7. q = p
      BY <1>5, <3>6 DEF Converted
    <3> QED
      BY <3>1, <3>4, <3>7
  <2> QED
    BY <2>1, <2>2
<1>10. PICK t \in Nat : t = initial * p
  OBVIOUS
<1>11. Wrapped(initial * q) = t
  BY <1>5, <1>9, <1>10, WrappedIs
<1>12. wait = IF M > 0 /\ t > M THEN M ELSE t
  BY <1>8, <1>11 DEF Capped
<1>13. PICK exact \in Nat : exact = initial * A
  OBVIOUS
<1>14. PICK down \in Nat : down = t * B
  OBVIOUS
<1>15. down <= exact /\ (A >= B => 2 * down >= exact)
  <2>1. PICK pb \in Int : pb = p * B
    OBVIOUS
  <2>2. down = initial * pb
    BY <1>10, <1>14, <2>1
  <2>3. down <= exact
    BY <1>6, <1>13, <2>1, <2>2, TimesGrows
  <2>4. ASSUME A >= B PROVE 2 * down >= exact
    <3>1. A <= 2 * pb /\ 2 * pb \in Int
      BY <1>6, <2>1, <2>4
    <3>2. initial * A <= initial * (2 * pb)
      BY <3>1, TimesGrows
    <3>3. initial * (2 * pb) = 2 * down
      BY <2>2
    <3> QED
      BY <1>13, <3>2, <3>3
  <2> QED
    BY <2>3, <2>4
<1>16. PICK cap \in Int : cap = M * B
  OBVIOUS
<1>17. PICK u \in Int : /\ u = Least({exact, cap})
                        /\ u \in {exact, cap} /\ u <= exact /\ u <= cap
  <2>1. exact \in Int
    OBVIOUS
  <2>2. /\ Least({exact, cap}) \in {exact, cap}
        /\ Least({exact, cap}) <= exact /\ Least({exact, cap}) <= cap
    BY <2>1, LeastOfTwo
  <2> QED
    BY <2>1, <2>2
<1>18. PICK upTo \in Int : upTo = IF M > 0 THEN u ELSE exact
  OBVIOUS
<1>19. wait * B <= upTo /\ (A >= B => 2 * (wait * B) >= upTo)
  <2>1. CASE M > 0 /\ t > M
    <3>1. wait * B = cap /\ cap <= down /\ 0 <= cap
      BY <1>12, <1>14, <1>16, <2>1
    <3>2. upTo = cap
      BY <1>15, <1>17, <1>18, <2>1, <3>1
    <3> QED
      BY <3>1, <3>2
  <2>2. CASE M > 0 /\ ~(t > M)
    <3>1. wait * B = down /\ down <= cap
      BY <1>12, <1>14, <1>16, <2>2
    <3>2. upTo = u
      BY <1>18, <2>2
    <3> QED
      BY <1>15, <1>17, <3>1, <3>2
  <2>3. CASE ~(M > 0)
    <3>1. wait * B = down /\ upTo = exact
      BY <1>12, <1>14, <1>18, <2>3
    <3> QED
      BY <1>15, <3>1
  <2> QED
    BY <2>1, <2>2, <2>3
<1>20. upTo = IF M > 0 THEN Least({initial * A, M * B}) ELSE initial * A
  BY <1>13, <1>16, <1>17, <1>18
<1>21. wait \in Int
  BY <1>12
<1>22. 2 * wait * B = 2 * (wait * B)
  BY <1>21
<1> QED
  BY <1>2, <1>3, <1>4, <1>19, <1>20, <1>22

-----------------------------------------------------------------------------
(* The state.                                                              *)

Modes == {"down", "up", "draining"}
Answers == {"none"} \cup {Reported(e) : e \in UNION {dep.tasks[t].can : t \in Task}}
Slot == [at |-> "slot", server |-> "none"]
PollAt(s) == [at |-> "polling", server |-> s]

Job == [worker : Worker, task : Task, lease : Nat, key : Nat, issuer : Server \X Nat,
        at : {"work", "respond"}, answer : Answers, stale : BOOLEAN]

Servers == [Server -> [mode : Modes, key : Nat, life : Nat]]

Columns == {"status", "attempt", "wait", "lease", "delay"}

(* An activity that is not scheduled yet has made no attempt.              *)
RowOk(r) ==
    /\ Columns \subseteq DOMAIN r
    /\ r.status \in {"none", "PENDING", "STARTED", "deleted"}
    /\ IF r.status = "none" THEN r.attempt = 0 ELSE r.attempt \in Nat \ {0}

TypeInv ==
    /\ dep \in Deployments
    /\ server \in Servers
    /\ DOMAIN row = Task /\ \A t \in Task : RowOk(row[t])
    /\ DOMAIN outcome = Task
    /\ poller \in [Worker -> {Idle, Slot} \cup {PollAt(s) : s \in Server}]
    /\ sem \in [Worker -> Int]
    /\ jobs \subseteq Job /\ IsFiniteSet(jobs)

(* Two tasks about with one lease are the same one, and the ones that hold *)
(* their activity's lease are those that no reaper took it from.           *)
LeaseInv ==
    /\ \A i, j \in jobs : i.task = j.task /\ i.lease = j.lease => i = j
    /\ \A j \in jobs : Holds(j) => ~j.stale
    /\ \A j \in jobs : ~j.stale => Holds(j)

(* What is settled has left the queue.                                     *)
SettledInv == \A t \in Task : outcome[t].kind # "none" => row[t].status = "deleted"

(* A poll is held by a process that runs; running processes have the       *)
(* configured key, which is then every token's, or each its own, which is  *)
(* that of the tokens it issued itself.                                    *)
KeyInv ==
    /\ \A w \in Worker, s \in Server :
          poller[w] = PollAt(s) => server[s].mode # "down"
    /\ getEnvHex(dep.env) # "" =>
          /\ \A s \in Server : server[s].mode # "down" => server[s].key = 0
          /\ \A j \in jobs : j.key = 0
    /\ getEnvHex(dep.env) = "" =>
          /\ \A s, r \in Server :
                server[s].mode # "down" /\ server[r].mode # "down" /\ s # r
                => server[s].key # server[r].key
          /\ \A j \in jobs, s \in Server :
                server[s].mode # "down"
                => (server[s].key = j.key <=> j.issuer = Process(s))
    /\ \A j \in jobs : j.issuer[2] <= server[j.issuer[1]].life

WorkerInv == TypeInv /\ LeaseInv /\ SettledInv /\ KeyInv /\ SlotsConserved

-----------------------------------------------------------------------------
(* The steps, by the process that takes them.                              *)

ServerActs(s) == StartServer(s) \/ GracefulStop(s) \/ ShutdownServer(s) \/ CrashServer(s)
PollEnds(w) == PollRefused(w) \/ PollTimesOut(w)
JobEnds(j) == RespondUnavailable(j) \/ RespondLost(j)
Reaps(t) == ReapExpiredActivityTask(t) \/ LeaseTooShort(t)

Steps ==
    \/ UNCHANGED vars
    \/ \E s \in Server : ServerActs(s)
    \/ \E w \in Worker : \/ AcquireSlot(w) \/ PollEnds(w) \/ PollDispatches(w)
                         \/ DispatchLost(w) \/ RestartWorker(w)
                         \/ \E s \in Server : SendPoll(w, s)
    \/ \E j \in jobs : \/ ProcessActivityTask(j) \/ JobEnds(j)
                       \/ \E s \in Server : Respond(j, s)
    \/ \E t \in Task : EnqueueActivityTask(t) \/ Reaps(t)
    \/ Tick

LEMMA StepsAre ==
    ASSUME TypeInv, [Next]_vars
    PROVE  Steps
<1>1. dep.servers \subseteq Server /\ dep.workers \subseteq Worker
  BY DeploymentsAssumption DEF TypeInv
<1>2. CASE UNCHANGED vars
  BY <1>2 DEF Steps
<1>3. ASSUME NEW s \in dep.servers, ServerStep(s) PROVE Steps
  BY <1>1, <1>3 DEF Steps, ServerStep, ServerActs
<1>4. ASSUME NEW w \in dep.workers, PollStep(w) PROVE Steps
  BY <1>1, <1>4 DEF Steps, PollStep, PollEnds
<1>5. ASSUME NEW t \in Task, JobStep(t) PROVE Steps
  BY <1>1, <1>5 DEF Steps, JobStep, JobEnds
<1>6. ASSUME NEW t \in Task, QueueStep(t) PROVE Steps
  BY <1>6 DEF Steps, QueueStep, Reaps
<1>7. ASSUME Disturbance PROVE Steps
  BY <1>1, <1>7 DEF Steps, Disturbance, ServerActs, Reaps, JobEnds
<1>8. ASSUME Tick PROVE Steps
  BY <1>8 DEF Steps
<1> QED
  BY <1>2, <1>3, <1>4, <1>5, <1>6, <1>7, <1>8 DEF Next

LEMMA DepKept == ASSUME Steps PROVE dep' = dep
BY DEF Steps, vars, ServerActs, StartServer, GracefulStop, ShutdownServer, CrashServer,
   AcquireSlot, PollEnds, PollRefused, PollTimesOut, PollDispatches, DispatchLost,
   RestartWorker, SendPoll, ProcessActivityTask, JobEnds, RespondUnavailable, RespondLost,
   AnswerDropped, Done, Respond, EnqueueActivityTask, Reaps, ReapExpiredActivityTask,
   LeaseTooShort, Reaped, Tick

(* Which steps write what.                                                 *)
LEMMA ServerKept ==
    ASSUME Steps, ~\E s \in Server : ServerActs(s)
    PROVE  server' = server
BY DEF Steps, vars,
   AcquireSlot, PollEnds, PollRefused, PollTimesOut, PollDispatches, DispatchLost,
   RestartWorker, SendPoll, ProcessActivityTask, JobEnds, RespondUnavailable, RespondLost,
   AnswerDropped, Done, Respond, EnqueueActivityTask, Reaps, ReapExpiredActivityTask,
   LeaseTooShort, Reaped, Tick

Dequeues(w) == PollDispatches(w) \/ DispatchLost(w)

LEMMA RowsKept ==
    ASSUME Steps, ~\E w \in Worker : Dequeues(w), ~\E j \in jobs, s \in Server : Respond(j, s),
           ~\E t \in Task : EnqueueActivityTask(t) \/ Reaps(t), ~Tick
    PROVE  row' = row /\ outcome' = outcome
BY DEF Steps, vars, ServerActs, StartServer, GracefulStop, ShutdownServer, CrashServer,
   AcquireSlot, PollEnds, PollRefused, PollTimesOut, Dequeues,
   RestartWorker, SendPoll, ProcessActivityTask, JobEnds, RespondUnavailable, RespondLost,
   AnswerDropped

LEMMA JobsKept ==
    ASSUME Steps, ~\E w \in Worker : PollDispatches(w) \/ RestartWorker(w),
           ~\E j \in jobs : ProcessActivityTask(j) \/ JobEnds(j),
           ~\E j \in jobs, s \in Server : Respond(j, s),
           ~\E t \in Task : Reaps(t)
    PROVE  jobs' = jobs
BY DEF Steps, vars, workerVars, ServerActs, StartServer, GracefulStop, ShutdownServer,
   CrashServer, AcquireSlot, PollEnds, PollRefused, PollTimesOut, DispatchLost, SendPoll,
   EnqueueActivityTask, Tick

PollActs(w) == \/ AcquireSlot(w) \/ PollEnds(w) \/ PollDispatches(w)
               \/ DispatchLost(w) \/ RestartWorker(w) \/ \E s \in Server : SendPoll(w, s)

LEMMA PollersKept ==
    ASSUME Steps, ~\E w \in Worker : PollActs(w), ~\E s \in Server : CrashServer(s)
    PROVE  poller' = poller
BY DEF Steps, vars, workerVars, ServerActs, StartServer, GracefulStop, ShutdownServer,
   PollActs, ProcessActivityTask, JobEnds, RespondUnavailable, RespondLost,
   AnswerDropped, Done, Respond, EnqueueActivityTask, Reaps, ReapExpiredActivityTask,
   LeaseTooShort, Reaped, Tick

JobLeaves(j) == JobEnds(j) \/ \E s \in Server : Respond(j, s)

LEMMA SemKept ==
    ASSUME Steps, ~\E w \in Worker : PollActs(w), ~\E s \in Server : CrashServer(s),
           ~\E j \in jobs : JobLeaves(j)
    PROVE  sem' = sem
BY DEF Steps, vars, workerVars, ServerActs, StartServer, GracefulStop, ShutdownServer,
   PollActs, JobLeaves, ProcessActivityTask, EnqueueActivityTask, Reaps,
   ReapExpiredActivityTask, LeaseTooShort, Reaped, Tick

-----------------------------------------------------------------------------
(* Types.                                                                  *)

LEMMA SameDep ==
    ASSUME dep' = dep
    PROVE  Task' = Task /\ Answers' = Answers /\ Job' = Job
<1>1. Task' = Task
  BY DEF Task
<1>2. Answers' = Answers
  BY <1>1 DEF Answers, Reported, Failures
<1>3. Job' = Job
  BY <1>1, <1>2 DEF Job
<1> QED
  BY <1>1, <1>2, <1>3

Relet(r, st, l) == [r EXCEPT !.status = st, !.lease = l]

(* What the updates of a row leave and set.                                *)
LEMMA RowUpdates ==
    ASSUME NEW r, RowOk(r), r.status # "none"
    PROVE  /\ \A l : \A st \in {"PENDING", "STARTED", "deleted"} :
                 LET q == Relet(r, st, l)
                 IN  RowOk(q) /\ q.status = st /\ q.lease = l /\ q.attempt = r.attempt
           /\ \A b : LET q == Retried(r, b)
                     IN  RowOk(q) /\ q.status = "PENDING" /\ q.attempt = r.attempt + 1
<1>1. ASSUME NEW st \in {"PENDING", "STARTED", "deleted"}, NEW l
      PROVE  LET q == Relet(r, st, l)
             IN  RowOk(q) /\ q.status = st /\ q.lease = l /\ q.attempt = r.attempt
  BY DEF RowOk, Columns, Relet
<1>2. ASSUME NEW b
      PROVE  LET q == Retried(r, b)
             IN  RowOk(q) /\ q.status = "PENDING" /\ q.attempt = r.attempt + 1
  <2>1. r.attempt \in Nat \ {0}
    BY DEF RowOk
  <2> QED
    BY <2>1 DEF RowOk, Columns, Retried
<1> QED
  BY <1>1, <1>2

LEMMA Ticked ==
    ASSUME NEW r, RowOk(r), NEW wt
    PROVE  LET q == [r EXCEPT !.wait = wt]
           IN  RowOk(q) /\ q.status = r.status /\ q.lease = r.lease /\ q.attempt = r.attempt
BY DEF RowOk, Columns

LEMMA EnqueuedRow ==
    ASSUME NEW cmd
    PROVE  LET r == activityEnqueueParams(cmd) IN RowOk(r) /\ r.status = "PENDING"
BY DEF activityEnqueueParams, RowOk, Columns

(* Which rows a step writes, and how.                                      *)
RowSet(t, r) == row' = [row EXCEPT ![t] = r]

LEMMA DequeueSets ==
    ASSUME TypeInv, NEW w \in Worker, Dequeues(w)
    PROVE  \E t \in Task : /\ row[t].status = "PENDING"
                           /\ RowSet(t, Relet(row[t], "STARTED", NewLease(t)))
                           /\ outcome' = outcome
<1> DEFINE t == Least(Due(w))
<1>1. Due(w) \subseteq Task /\ Task \subseteq Nat /\ Due(w) # {}
  BY DeploymentsAssumption
     DEF Due, Task, TypeInv, Dequeues, PollDispatches, DispatchLost
<1>2. t \in Due(w)
  BY <1>1, LeastIs
<1>3. row' = Dequeued(t) /\ outcome' = outcome
  BY DEF Dequeues, PollDispatches, DispatchLost
<1> HIDE DEF t
<1>4. t \in Task /\ row[t].status = "PENDING"
  BY <1>2 DEF Due
<1> QED
  BY <1>3, <1>4 DEF Dequeued, RowSet, Relet

LEMMA ReapSets ==
    ASSUME NEW t \in Task, Reaps(t)
    PROVE  /\ row[t].status = "STARTED" /\ outcome' = outcome
           /\ RowSet(t, Relet(row[t], "PENDING", 0))
BY DEF Reaps, ReapExpiredActivityTask, LeaseTooShort, Reaped, RowSet, Relet

(* An answer that is believed settles its activity or uses an attempt.     *)
Settles(j) ==
    /\ RowSet(j.task, Relet(row[j.task], "deleted", 0))
    /\ \E kind \in {"completed", "failed"} :
          outcome' = [outcome EXCEPT ![j.task] = [kind |-> kind, type |-> j.answer]]

UsesAttempt(j) ==
    /\ \E b \in Backoffs(row[j.task]) : RowSet(j.task, Retried(row[j.task], b))
    /\ outcome' = outcome

LEMMA RespondSets ==
    ASSUME NEW j \in jobs, NEW s \in Server, Respond(j, s)
    PROVE  \/ row' = row /\ outcome' = outcome
           \/ Holds(j) /\ (Settles(j) \/ UsesAttempt(j))
<1>1. CASE RespondRefused(j, s)
  BY <1>1 DEF RespondRefused
<1>2. CASE RespondActivityTaskCompleted(j, s)
  BY <1>2 DEF RespondActivityTaskCompleted, Recorded, Settles, RowSet, Relet
<1>3. CASE RespondActivityTaskFailed(j, s)
  <2>1. CASE Retryable(row[j.task], j.answer)
    BY <1>3, <2>1 DEF RespondActivityTaskFailed, UsesAttempt, RowSet
  <2>2. CASE ~Retryable(row[j.task], j.answer)
    BY <1>3, <2>2 DEF RespondActivityTaskFailed, Recorded, Settles, RowSet, Relet
  <2> QED
    BY <2>1, <2>2
<1> QED
  BY <1>1, <1>2, <1>3 DEF Respond

(* How the rows, and with them the outcomes, may change.                   *)
RowChanges ==
    \/ row' = row /\ outcome' = outcome
    \/ \E t \in Task :
          /\ row[t].status = "PENDING" /\ outcome' = outcome
          /\ RowSet(t, Relet(row[t], "STARTED", NewLease(t)))
    \/ \E t \in Task :
          /\ row[t].status = "STARTED" /\ outcome' = outcome /\ Reaps(t)
          /\ RowSet(t, Relet(row[t], "PENDING", 0))
    \/ \E j \in jobs, s \in Server :
          Respond(j, s) /\ Holds(j) /\ (Settles(j) \/ UsesAttempt(j))
    \/ \E t \in Task :
          /\ row[t].status = "none" /\ outcome' = outcome
          /\ RowSet(t, activityEnqueueParams(dep.tasks[t]))
    \/ Tick

LEMMA RowChangesAre ==
    ASSUME TypeInv, Steps
    PROVE  RowChanges
<1>1. ASSUME NEW w \in Worker, Dequeues(w) PROVE RowChanges
  BY <1>1, DequeueSets DEF RowChanges
<1>2. ASSUME NEW j \in jobs, NEW s \in Server, Respond(j, s) PROVE RowChanges
  BY <1>2, RespondSets DEF RowChanges
<1>3. ASSUME NEW t \in Task, Reaps(t) PROVE RowChanges
  BY <1>3, ReapSets DEF RowChanges
<1>4. ASSUME NEW t \in Task, EnqueueActivityTask(t) PROVE RowChanges
  BY <1>4 DEF RowChanges, EnqueueActivityTask, RowSet
<1>5. ASSUME Tick PROVE RowChanges
  BY <1>5 DEF RowChanges
<1>6. ASSUME row' = row, outcome' = outcome PROVE RowChanges
  BY <1>6 DEF RowChanges
<1> QED
  BY <1>1, <1>2, <1>3, <1>4, <1>5, <1>6, RowsKept

LEMMA RowSetIs ==
    ASSUME TypeInv, NEW t \in Task, NEW r, RowSet(t, r)
    PROVE  /\ DOMAIN row' = Task /\ row'[t] = r
           /\ \A u \in Task : u # t => row'[u] = row[u]
BY DEF TypeInv, RowSet

LEMMA TickIs ==
    ASSUME TypeInv, Tick
    PROVE  /\ DOMAIN row' = Task /\ outcome' = outcome /\ jobs' = jobs
           /\ \A t \in Task : /\ RowOk(row'[t]) /\ row'[t].status = row[t].status
                              /\ row'[t].lease = row[t].lease
                              /\ row'[t].attempt = row[t].attempt
<1>1. ASSUME NEW t \in Task
      PROVE  \E wt : row'[t] = [row[t] EXCEPT !.wait = wt]
  BY DEF Tick
<1>2. DOMAIN row' = Task /\ outcome' = outcome /\ jobs' = jobs
  BY DEF Tick, workerVars
<1>3. ASSUME NEW t \in Task
      PROVE  /\ RowOk(row'[t]) /\ row'[t].status = row[t].status
             /\ row'[t].lease = row[t].lease /\ row'[t].attempt = row[t].attempt
  <2>1. PICK wt : row'[t] = [row[t] EXCEPT !.wait = wt]
    BY <1>1
  <2>2. RowOk(row[t])
    BY DEF TypeInv
  <2> QED
    BY <2>1, <2>2, Ticked
<1> QED
  BY <1>2, <1>3

(* Every row stays one, and so does what is said of settled activities.    *)
LEMMA RowsStep ==
    ASSUME TypeInv, SettledInv, Steps
    PROVE  /\ DOMAIN row' = Task /\ DOMAIN outcome' = Task
           /\ \A t \in Task : RowOk(row'[t])
           /\ \A t \in Task : outcome'[t].kind # "none" => row'[t].status = "deleted"
<1> DEFINE Goal == /\ DOMAIN row' = Task /\ DOMAIN outcome' = Task
                   /\ \A t \in Task : RowOk(row'[t])
                   /\ \A t \in Task : outcome'[t].kind # "none"
                                      => row'[t].status = "deleted"
<1>0. /\ DOMAIN row = Task /\ DOMAIN outcome = Task
      /\ \A t \in Task : RowOk(row[t])
      /\ \A t \in Task : outcome[t].kind # "none" => row[t].status = "deleted"
  BY DEF TypeInv, SettledInv
<1>1. ASSUME NEW t \in Task, row[t].status # "deleted", outcome' = outcome,
             NEW r, RowOk(r), RowSet(t, r)
      PROVE  Goal
  BY <1>0, <1>1, RowSetIs
<1>2. ASSUME NEW t \in Task, row[t].status = "PENDING", outcome' = outcome,
             RowSet(t, Relet(row[t], "STARTED", NewLease(t)))
      PROVE  Goal
  BY <1>0, <1>1, <1>2, RowUpdates
<1>3. ASSUME NEW t \in Task, row[t].status = "STARTED", outcome' = outcome,
             RowSet(t, Relet(row[t], "PENDING", 0))
      PROVE  Goal
  BY <1>0, <1>1, <1>3, RowUpdates
<1>4. ASSUME NEW j \in jobs, Holds(j), Settles(j) PROVE Goal
  <2>1. j.task \in Task /\ row[j.task].status = "STARTED"
    BY <1>4 DEF TypeInv, Job, Holds
  <2> DEFINE r == Relet(row[j.task], "deleted", 0)
  <2>2. RowOk(r) /\ r.status = "deleted"
    BY <1>0, <2>1, RowUpdates
  <2>3. DOMAIN outcome' = Task /\ \A t \in Task : t # j.task => outcome'[t] = outcome[t]
    BY <1>0, <1>4 DEF Settles
  <2>4. RowSet(j.task, r)
    BY <1>4 DEF Settles
  <2> HIDE DEF r
  <2> QED
    BY <1>0, <2>1, <2>2, <2>3, <2>4, RowSetIs
<1>5. ASSUME NEW j \in jobs, Holds(j), UsesAttempt(j) PROVE Goal
  <2>1. j.task \in Task /\ row[j.task].status = "STARTED"
    BY <1>5 DEF TypeInv, Job, Holds
  <2>2. PICK b : RowSet(j.task, Retried(row[j.task], b))
    BY <1>5 DEF UsesAttempt
  <2>3. RowOk(Retried(row[j.task], b))
    BY <1>0, <2>1, RowUpdates
  <2> QED
    BY <1>1, <1>5, <2>1, <2>2, <2>3 DEF UsesAttempt
<1>6. ASSUME NEW t \in Task, row[t].status = "none", outcome' = outcome,
             RowSet(t, activityEnqueueParams(dep.tasks[t]))
      PROVE  Goal
  BY <1>1, <1>6, EnqueuedRow
<1>7. ASSUME Tick PROVE Goal
  BY <1>0, <1>7, TickIs
<1>8. ASSUME row' = row, outcome' = outcome PROVE Goal
  BY <1>0, <1>8
<1> HIDE DEF Goal
<1>9. Goal
  BY <1>2, <1>3, <1>4, <1>5, <1>6, <1>7, <1>8, RowChangesAre DEF RowChanges
<1> QED
  BY <1>9 DEF Goal

(* Nobody comes to hold a lease by what happens to the rows: a new lease   *)
(* is nobody's yet.                                                        *)
LEMMA HeldBefore ==
    ASSUME TypeInv, Steps, NEW j \in jobs,
           row'[j.task].status = "STARTED", row'[j.task].lease = j.lease
    PROVE  Holds(j)
<1>0. j.task \in Task /\ \A t \in Task : RowOk(row[t])
  BY DEF TypeInv, Job
<1>1. ASSUME NEW t \in Task, NEW r, RowSet(t, r), r.status # "STARTED" \/ r.lease # j.lease
             \/ t # j.task
      PROVE  Holds(j)
  BY <1>0, <1>1, RowSetIs DEF Holds
<1>2. ASSUME NEW t \in Task, row[t].status = "PENDING",
             RowSet(t, Relet(row[t], "STARTED", NewLease(t)))
      PROVE  Holds(j)
  <2>1. t = j.task => NewLease(t) # j.lease
    BY NewLeaseFresh DEF TypeInv
  <2> QED
    BY <1>0, <1>1, <1>2, <2>1, RowUpdates
<1>3. ASSUME NEW t \in Task, row[t].status = "STARTED",
             RowSet(t, Relet(row[t], "PENDING", 0))
      PROVE  Holds(j)
  BY <1>0, <1>1, <1>3, RowUpdates
<1>4. ASSUME NEW i \in jobs, Holds(i), Settles(i) \/ UsesAttempt(i) PROVE Holds(j)
  <2>1. i.task \in Task /\ row[i.task].status = "STARTED"
    BY <1>4 DEF TypeInv, Job, Holds
  <2>2. PICK r : RowSet(i.task, r) /\ r.status # "STARTED"
    BY <1>0, <1>4, <2>1, RowUpdates DEF Settles, UsesAttempt
  <2> QED
    BY <1>1, <2>1, <2>2
<1>5. ASSUME NEW t \in Task, RowSet(t, activityEnqueueParams(dep.tasks[t]))
      PROVE  Holds(j)
  BY <1>1, <1>5, EnqueuedRow
<1>6. ASSUME Tick PROVE Holds(j)
  BY <1>0, <1>6, TickIs DEF Holds
<1>7. ASSUME row' = row PROVE Holds(j)
  BY <1>7 DEF Holds
<1> QED
  BY <1>2, <1>3, <1>4, <1>5, <1>6, <1>7, RowChangesAre DEF RowChanges

-----------------------------------------------------------------------------
(* The tasks about.                                                        *)

NewJob(w) ==
    [worker |-> w, task |-> Least(Due(w)), lease |-> NewLease(Least(Due(w))),
     key |-> server[poller[w].server].key, issuer |-> Process(poller[w].server),
     at |-> "work", answer |-> "none", stale |-> FALSE]
Answering(j, a) == [j EXCEPT !.at = "respond", !.answer = a]
Late(j, t) == [j EXCEPT !.stale = @ \/ j.task = t]

LEMMA AnsweringIs ==
    ASSUME NEW j \in Job, NEW a \in Answers
    PROVE  LET i == Answering(j, a)
           IN  /\ i \in Job /\ i.worker = j.worker /\ i.task = j.task
               /\ i.lease = j.lease /\ i.key = j.key /\ i.issuer = j.issuer
               /\ i.stale = j.stale
BY DEF Answering, Job

LEMMA LateIs ==
    ASSUME NEW j \in Job, NEW t
    PROVE  LET i == Late(j, t)
           IN  /\ i \in Job /\ i.worker = j.worker /\ i.task = j.task
               /\ i.lease = j.lease /\ i.key = j.key /\ i.issuer = j.issuer
               /\ j.task # t => i.stale = j.stale
               /\ j.task = t => i.stale
<1>1. (j.stale \/ j.task = t) \in BOOLEAN /\ j.stale \in BOOLEAN
  BY DEF Job
<1>2. j.task # t => (j.stale \/ j.task = t) = j.stale
  BY <1>1
<1>3. PICK b \in BOOLEAN : b = (j.stale \/ j.task = t)
  BY <1>1
<1>5. j.task = t => b
  BY <1>3
<1>4. Late(j, t) = [j EXCEPT !.stale = b]
  BY <1>3, Zenon DEF Late
<1> QED
  BY <1>2, <1>3, <1>4, <1>5 DEF Job

LEMMA NewJobIs ==
    ASSUME TypeInv, NEW w \in Worker, PollDispatches(w)
    PROVE  /\ NewJob(w) \in Job /\ Least(Due(w)) \in Task
           /\ jobs' = jobs \cup {NewJob(w)}
           /\ \A j \in jobs : j.task = NewJob(w).task => j.lease # NewJob(w).lease
           /\ \E s \in Server : /\ poller[w] = PollAt(s) /\ NewJob(w).key = server[s].key
                                /\ NewJob(w).issuer = Process(s)
           /\ NewJob(w).worker = w /\ ~NewJob(w).stale
<1> DEFINE t == Least(Due(w))
<1>1. Due(w) \subseteq Task /\ Task \subseteq Nat /\ Due(w) # {}
  BY DeploymentsAssumption DEF Due, Task, TypeInv, PollDispatches
<1>2. t \in Task
  BY <1>1, LeastIs
<1>3. NewLease(t) \in Nat /\ \A j \in jobs : j.task = t => j.lease # NewLease(t)
  BY NewLeaseFresh DEF TypeInv
<1>4. PICK s \in Server : poller[w] = PollAt(s)
  BY DEF TypeInv, PollDispatches, Idle, Slot
<1>5. /\ server[poller[w].server].key = server[s].key /\ server[s].key \in Nat
      /\ Process(poller[w].server) = Process(s) /\ Process(s) \in Server \X Nat
  BY <1>4 DEF PollAt, TypeInv, Servers, Process
<1>6. jobs' = jobs \cup {NewJob(w)}
  BY DEF PollDispatches, NewJob
<1>7. NewJob(w).task = t /\ NewJob(w).lease = NewLease(t)
      /\ NewJob(w).worker = w /\ NewJob(w).key = server[s].key /\ ~NewJob(w).stale
      /\ NewJob(w).issuer = Process(s)
  BY <1>5 DEF NewJob
<1> HIDE DEF t
<1>8. NewJob(w) \in Job
  BY <1>2, <1>3, <1>5 DEF NewJob, Job, Answers, t
<1> QED
  BY <1>2, <1>3, <1>4, <1>6, <1>7, <1>8 DEF t

LEMMA ProcessIs ==
    ASSUME TypeInv, NEW j \in jobs, ProcessActivityTask(j)
    PROVE  \E a \in Answers : jobs' = (jobs \ {j}) \cup {Answering(j, a)}
<1>1. j.task \in Task
  BY DEF TypeInv, Job
<1>2. PICK end \in dep.tasks[j.task].can :
         jobs' = (jobs \ {j}) \cup {[j EXCEPT !.at = "respond", !.answer = Reported(end)]}
  BY DEF ProcessActivityTask
<1>3. Reported(end) \in Answers
  BY <1>1, <1>2 DEF Answers
<1> QED
  BY <1>2, <1>3 DEF Answering

LEMMA LeavesIs ==
    ASSUME NEW j \in jobs, JobLeaves(j)
    PROVE  /\ jobs' = jobs \ {j} /\ poller' = poller
           /\ sem' = [sem EXCEPT ![j.worker] = @ - 1]
BY DEF JobLeaves, JobEnds, RespondUnavailable, RespondLost, AnswerDropped, Respond, Done

LEMMA ReapsIs ==
    ASSUME NEW t \in Task, Reaps(t)
    PROVE  jobs' = {Late(j, t) : j \in jobs} /\ poller' = poller /\ sem' = sem
BY DEF Reaps, ReapExpiredActivityTask, LeaseTooShort, Reaped, Late

(* How the set of tasks about may change.                                  *)
JobChanges ==
    \/ jobs' = jobs
    \/ \E w \in Worker : PollDispatches(w)
    \/ \E w \in Worker : RestartWorker(w) /\ jobs' = {j \in jobs : j.worker # w}
    \/ \E j \in jobs, a \in Answers : /\ ProcessActivityTask(j)
                                      /\ jobs' = (jobs \ {j}) \cup {Answering(j, a)}
    \/ \E j \in jobs : JobLeaves(j) /\ jobs' = jobs \ {j}
    \/ \E t \in Task : Reaps(t) /\ jobs' = {Late(j, t) : j \in jobs}

LEMMA JobChangesAre ==
    ASSUME TypeInv, Steps
    PROVE  JobChanges
<1>1. ASSUME NEW w \in Worker, RestartWorker(w) PROVE JobChanges
  BY <1>1 DEF JobChanges, RestartWorker
<1>2. ASSUME NEW j \in jobs, ProcessActivityTask(j) PROVE JobChanges
  BY <1>2, ProcessIs DEF JobChanges
<1>3. ASSUME NEW j \in jobs, JobLeaves(j) PROVE JobChanges
  BY <1>3, LeavesIs DEF JobChanges
<1>4. ASSUME NEW t \in Task, Reaps(t) PROVE JobChanges
  BY <1>4, ReapsIs DEF JobChanges
<1>5. ASSUME jobs' = jobs PROVE JobChanges
  BY <1>5 DEF JobChanges
<1>6. ASSUME NEW w \in Worker, PollDispatches(w) PROVE JobChanges
  BY <1>6 DEF JobChanges
<1> QED
  BY <1>1, <1>2, <1>3, <1>4, <1>5, <1>6, JobsKept DEF JobLeaves

(* Every task about afterwards was there before, as far as its worker, its *)
(* activity, its lease and its token go, or has just been handed out.      *)
Like(i, j) == /\ i.worker = j.worker /\ i.task = j.task
              /\ i.lease = j.lease /\ i.key = j.key /\ i.issuer = j.issuer

LEMMA JobsFrom ==
    ASSUME TypeInv, Steps, NEW i \in jobs'
    PROVE  /\ i \in Job
           /\ \/ \E j \in jobs : /\ Like(i, j)
                                 /\ \/ i.stale = j.stale
                                    \/ \E t \in Task : Reaps(t) /\ j.task = t
              \/ \E w \in Worker : PollDispatches(w) /\ i = NewJob(w)
<1>0. jobs \subseteq Job
  BY DEF TypeInv
<1>1. CASE i \in jobs
  BY <1>0, <1>1 DEF Like
<1>2. ASSUME NEW w \in Worker, PollDispatches(w), i = NewJob(w)
      PROVE  i \in Job
  BY <1>2, NewJobIs
<1>3. ASSUME NEW j \in jobs, NEW a \in Answers, i = Answering(j, a)
      PROVE  i \in Job /\ Like(i, j) /\ i.stale = j.stale
  BY <1>0, <1>3, AnsweringIs DEF Like
<1>4. ASSUME NEW j \in jobs, NEW t \in Task, Reaps(t), i = Late(j, t)
      PROVE  i \in Job /\ Like(i, j) /\ (i.stale = j.stale \/ j.task = t)
  BY <1>0, <1>4, LateIs DEF Like
<1>5. \/ i \in jobs
      \/ \E w \in Worker : PollDispatches(w) /\ i = NewJob(w)
      \/ \E j \in jobs, a \in Answers : i = Answering(j, a)
      \/ \E j \in jobs, t \in Task : Reaps(t) /\ i = Late(j, t)
  BY JobChangesAre, NewJobIs DEF JobChanges
<1> QED
  BY <1>1, <1>2, <1>3, <1>4, <1>5

LEMMA JobsFinite ==
    ASSUME TypeInv, Steps
    PROVE  IsFiniteSet(jobs')
<1>0. IsFiniteSet(jobs)
  BY DEF TypeInv
<1>1. ASSUME NEW w \in Worker, PollDispatches(w) PROVE IsFiniteSet(jobs')
  BY <1>0, <1>1, NewJobIs, FS_AddElement
<1>2. ASSUME NEW j \in jobs, NEW a, jobs' = (jobs \ {j}) \cup {a}
      PROVE  IsFiniteSet(jobs')
  BY <1>0, <1>2, FS_AddElement, FS_RemoveElement
<1>3. ASSUME jobs' \subseteq jobs PROVE IsFiniteSet(jobs')
  BY <1>0, <1>3, FS_Subset
<1>4. ASSUME NEW t, jobs' = {Late(j, t) : j \in jobs} PROVE IsFiniteSet(jobs')
  <2> DEFINE f == [j \in jobs |-> Late(j, t)]
  <2>1. f \in Surjection(jobs, jobs')
    BY <1>4 DEF Surjection
  <2> QED
    BY <1>0, <2>1, FS_Surjection
<1> QED
  BY <1>1, <1>2, <1>3, <1>4, JobChangesAre DEF JobChanges

LEMMA LeasesStayUnique ==
    ASSUME TypeInv, LeaseInv, Steps, NEW i \in jobs', NEW k \in jobs',
           i.task = k.task, i.lease = k.lease
    PROVE  i = k
<1>0. jobs \subseteq Job /\ \A a, b \in jobs : a.task = b.task /\ a.lease = b.lease => a = b
  BY DEF TypeInv, LeaseInv
<1>1. ASSUME NEW w \in Worker, PollDispatches(w) PROVE i = k
  BY <1>0, <1>1, NewJobIs
<1>2. ASSUME NEW j \in jobs, NEW a \in Answers,
             jobs' = (jobs \ {j}) \cup {Answering(j, a)}
      PROVE  i = k
  <2>1. Answering(j, a).task = j.task /\ Answering(j, a).lease = j.lease
    BY <1>0, AnsweringIs
  <2> QED
    BY <1>0, <1>2, <2>1
<1>3. ASSUME jobs' \subseteq jobs PROVE i = k
  BY <1>0, <1>3
<1>4. ASSUME NEW t, jobs' = {Late(j, t) : j \in jobs} PROVE i = k
  <2>1. PICK a \in jobs, b \in jobs : i = Late(a, t) /\ k = Late(b, t)
    BY <1>4
  <2>2. a.task = b.task /\ a.lease = b.lease
    BY <1>0, <2>1, LateIs
  <2> QED
    BY <1>0, <2>1, <2>2
<1> QED
  BY <1>1, <1>2, <1>3, <1>4, JobChangesAre DEF JobChanges

(* A lease is kept until its holder answers or a reaper takes it.          *)
LEMMA HeldAfter ==
    ASSUME TypeInv, LeaseInv, Steps, NEW j \in jobs, Holds(j),
           ~Reaps(j.task), j \in jobs' \/ ~\E i \in jobs : JobLeaves(i)
    PROVE  row'[j.task].status = "STARTED" /\ row'[j.task].lease = j.lease
<1> DEFINE Goal == row'[j.task].status = "STARTED" /\ row'[j.task].lease = j.lease
<1>0. /\ j.task \in Task /\ \A t \in Task : RowOk(row[t])
      /\ row[j.task].status = "STARTED" /\ row[j.task].lease = j.lease
  BY DEF TypeInv, Job, Holds
<1>1. ASSUME NEW t \in Task, NEW r, RowSet(t, r), t # j.task PROVE Goal
  BY <1>0, <1>1, RowSetIs
<1>2. ASSUME NEW i \in jobs, NEW s \in Server, Respond(i, s), Holds(i),
             Settles(i) \/ UsesAttempt(i)
      PROVE  Goal
  <2>1. i.task \in Task /\ \E r : RowSet(i.task, r)
    BY <1>2 DEF TypeInv, Job, Settles, UsesAttempt
  <2>2. JobLeaves(i) /\ jobs' = jobs \ {i}
    BY <1>2, LeavesIs DEF JobLeaves
  <2>3. i # j
    BY <2>2
  <2>4. i.task # j.task
    BY <1>2, <2>3 DEF LeaseInv, Holds
  <2> QED
    BY <1>1, <2>1, <2>4
<1>3. ASSUME Tick PROVE Goal
  BY <1>0, <1>3, TickIs
<1>4. ASSUME row' = row PROVE Goal
  BY <1>0, <1>4
<1>5. ASSUME NEW t \in Task, row[t].status # "STARTED" \/ Reaps(t) PROVE t # j.task
  BY <1>0, <1>5
<1> HIDE DEF Goal
<1>6. Goal
  BY <1>1, <1>2, <1>3, <1>4, <1>5, RowChangesAre DEF RowChanges
<1> QED
  BY <1>6 DEF Goal

LEMMA NewJobHolds ==
    ASSUME TypeInv, NEW w \in Worker, PollDispatches(w)
    PROVE  LET i == NewJob(w)
           IN  row'[i.task].status = "STARTED" /\ row'[i.task].lease = i.lease
<1> DEFINE t == Least(Due(w))
<1>1. NewJob(w).task = t /\ NewJob(w).lease = NewLease(t)
  BY DEF NewJob
<1>2. t \in Task /\ t \in Due(w)
  <2>1. Due(w) \subseteq Task /\ Task \subseteq Nat /\ Due(w) # {}
    BY DeploymentsAssumption DEF Due, Task, TypeInv, PollDispatches
  <2> QED
    BY <2>1, LeastIs
<1>3. RowSet(t, Relet(row[t], "STARTED", NewLease(t)))
  BY DEF PollDispatches, Dequeued, RowSet, Relet
<1> HIDE DEF t
<1>4. row[t].status # "none" /\ RowOk(row[t])
  BY <1>2 DEF Due, TypeInv
<1>5. /\ Relet(row[t], "STARTED", NewLease(t)).status = "STARTED"
      /\ Relet(row[t], "STARTED", NewLease(t)).lease = NewLease(t)
  BY <1>4, RowUpdates
<1> QED
  BY <1>1, <1>2, <1>3, <1>5, RowSetIs

LEMMA FreshStillHolds ==
    ASSUME TypeInv, LeaseInv, Steps, NEW i \in jobs', ~i.stale
    PROVE  row'[i.task].status = "STARTED" /\ row'[i.task].lease = i.lease
<1> DEFINE Goal == row'[i.task].status = "STARTED" /\ row'[i.task].lease = i.lease
<1>0. jobs \subseteq Job
  BY DEF TypeInv
<1>1. ASSUME NEW t \in Task, Reaps(t) PROVE Goal
  <2>1. PICK j \in jobs : i = Late(j, t)
    BY <1>1, ReapsIs
  <2>2. /\ j.task # t /\ i.task = j.task /\ i.lease = j.lease /\ i.stale = j.stale
        /\ j.task \in Task
    BY <1>0, <2>1, LateIs DEF Job
  <2>3. Holds(j)
    BY <2>2 DEF LeaseInv
  <2>4. row'[j.task] = row[j.task]
    BY <1>1, <2>2, ReapSets, RowSetIs
  <2> QED
    BY <2>2, <2>3, <2>4 DEF Holds
<1>2. ASSUME NEW w \in Worker, PollDispatches(w), i = NewJob(w) PROVE Goal
  BY <1>2, NewJobHolds
<1>3. ASSUME NEW j \in jobs, Like(i, j), i.stale = j.stale, ~\E t \in Task : Reaps(t)
      PROVE  Goal
  <2>1. Holds(j) /\ j.task \in Task
    BY <1>0, <1>3 DEF LeaseInv, Job
  <2>2. ASSUME NEW k \in jobs, JobLeaves(k) PROVE j \in jobs'
    <3>1. jobs' = jobs \ {k}
      BY <2>2, LeavesIs
    <3>2. i = j
      BY <1>3, <3>1 DEF LeaseInv, Like
    <3> QED
      BY <3>2
  <2>3. row'[j.task].status = "STARTED" /\ row'[j.task].lease = j.lease
    BY <1>3, <2>1, <2>2, HeldAfter
  <2> QED
    BY <1>3, <2>3 DEF Like
<1> HIDE DEF Goal
<1>4. Goal
  BY <1>1, <1>2, <1>3, JobsFrom
<1> QED
  BY <1>4 DEF Goal

LEMMA LeaseInvStep ==
    ASSUME TypeInv, LeaseInv, Steps
    PROVE  LeaseInv'
<1>1. \A i, k \in jobs' : i.task = k.task /\ i.lease = k.lease => i = k
  BY LeasesStayUnique
<1>2. ASSUME NEW i \in jobs', row'[i.task].status = "STARTED",
             row'[i.task].lease = i.lease
      PROVE  ~i.stale
  <2>1. CASE \E w \in Worker : PollDispatches(w) /\ i = NewJob(w)
    BY <2>1, NewJobIs
  <2>2. ASSUME NEW j \in jobs, Like(i, j),
               i.stale = j.stale \/ \E t \in Task : Reaps(t) /\ j.task = t
        PROVE  ~i.stale
    <3>1. row'[j.task].status = "STARTED" /\ row'[j.task].lease = j.lease
      BY <1>2, <2>2 DEF Like
    <3>2. Holds(j) /\ ~j.stale
      BY <3>1, HeldBefore DEF LeaseInv
    <3>3. ASSUME NEW t \in Task, Reaps(t), j.task = t PROVE FALSE
      <4>1. row[t].status = "STARTED" /\ RowSet(t, Relet(row[t], "PENDING", 0))
        BY <3>3, ReapSets
      <4>2. Relet(row[t], "PENDING", 0).status = "PENDING"
        BY <4>1, RowUpdates DEF TypeInv
      <4>3. row'[t].status = "PENDING"
        BY <4>1, <4>2, RowSetIs
      <4> QED
        BY <3>1, <3>3, <4>3
    <3> QED
      BY <2>2, <3>2, <3>3
  <2> QED
    BY <2>1, <2>2, JobsFrom
<1> QED
  BY <1>1, <1>2, FreshStillHolds DEF LeaseInv, Holds

-----------------------------------------------------------------------------
(* The slots.                                                              *)

Own(J, w) == {j \in J : j.worker = w}

LEMMA OwnFinite ==
    ASSUME TypeInv, NEW w
    PROVE  IsFiniteSet(Own(jobs, w)) /\ Cardinality(Own(jobs, w)) \in Nat
<1>1. Own(jobs, w) \subseteq jobs
  BY DEF Own
<1> QED
  BY <1>1, FS_Subset, FS_CardinalityType DEF TypeInv

LEMMA OwnAdded ==
    ASSUME TypeInv, NEW w \in Worker, PollDispatches(w), NEW v
    PROVE  Cardinality(Own(jobs', v))
              = Cardinality(Own(jobs, v)) + (IF v = w THEN 1 ELSE 0)
<1>1. jobs' = jobs \cup {NewJob(w)} /\ NewJob(w).worker = w /\ NewJob(w) \notin jobs
  BY NewJobIs
<1>2. CASE v = w
  <2>1. Own(jobs', v) = Own(jobs, v) \cup {NewJob(w)} /\ NewJob(w) \notin Own(jobs, v)
    BY <1>1, <1>2 DEF Own
  <2> QED
    BY <1>2, <2>1, OwnFinite, FS_AddElement
<1>3. CASE v # w
  <2>1. Own(jobs', v) = Own(jobs, v)
    BY <1>1, <1>3 DEF Own
  <2> QED
    BY <1>3, <2>1, OwnFinite
<1> QED
  BY <1>2, <1>3

LEMMA OwnRemoved ==
    ASSUME TypeInv, NEW j \in jobs, jobs' = jobs \ {j}, NEW v
    PROVE  Cardinality(Own(jobs', v))
              = Cardinality(Own(jobs, v)) - (IF v = j.worker THEN 1 ELSE 0)
<1>2. CASE v = j.worker
  <2>1. Own(jobs', v) = Own(jobs, v) \ {j} /\ j \in Own(jobs, v)
    BY <1>2 DEF Own
  <2> QED
    BY <1>2, <2>1, OwnFinite, FS_RemoveElement
<1>3. CASE v # j.worker
  <2>1. Own(jobs', v) = Own(jobs, v)
    BY <1>3 DEF Own
  <2> QED
    BY <1>3, <2>1, OwnFinite
<1> QED
  BY <1>2, <1>3

LEMMA OwnAnswering ==
    ASSUME TypeInv, LeaseInv, NEW j \in jobs, NEW a \in Answers,
           jobs' = (jobs \ {j}) \cup {Answering(j, a)}, NEW v
    PROVE  Cardinality(Own(jobs', v)) = Cardinality(Own(jobs, v))
<1> DEFINE i == Answering(j, a)
<1>1. i.worker = j.worker /\ i.task = j.task /\ i.lease = j.lease
  BY AnsweringIs DEF TypeInv
<1> HIDE DEF i
<1>2. i \notin jobs \ {j}
  BY <1>1 DEF LeaseInv
<1>3. CASE v = j.worker
  <2>1. /\ Own(jobs', v) = (Own(jobs, v) \ {j}) \cup {i}
        /\ j \in Own(jobs, v) /\ i \notin Own(jobs, v) \ {j}
    BY <1>1, <1>2, <1>3 DEF Own, i
  <2>2. /\ IsFiniteSet(Own(jobs, v) \ {j})
        /\ Cardinality(Own(jobs, v) \ {j}) = Cardinality(Own(jobs, v)) - 1
    BY <2>1, OwnFinite, FS_RemoveElement
  <2>3. Cardinality(Own(jobs', v)) = Cardinality(Own(jobs, v) \ {j}) + 1
    BY <2>1, <2>2, FS_AddElement
  <2>4. Cardinality(Own(jobs, v)) \in Nat
    BY OwnFinite
  <2> QED
    BY <2>2, <2>3, <2>4
<1>4. CASE v # j.worker
  <2>1. Own(jobs', v) = Own(jobs, v)
    BY <1>1, <1>4 DEF Own, i
  <2> QED
    BY <2>1
<1> QED
  BY <1>3, <1>4

LEMMA OwnLate ==
    ASSUME TypeInv, LeaseInv, NEW t, jobs' = {Late(j, t) : j \in jobs}, NEW v
    PROVE  Cardinality(Own(jobs', v)) = Cardinality(Own(jobs, v))
<1> DEFINE f == [j \in Own(jobs, v) |-> Late(j, t)]
<1>1. \A j \in jobs : /\ Late(j, t).worker = j.worker /\ Late(j, t).task = j.task
                      /\ Late(j, t).lease = j.lease
  BY LateIs DEF TypeInv
<1>2. \A i, j \in jobs : Late(i, t) = Late(j, t) => i = j
  BY <1>1 DEF LeaseInv
<1>3. \A j \in jobs : Late(j, t) \in jobs'
  OBVIOUS
<1>4. \A i \in jobs' : \E j \in jobs : i = Late(j, t)
  OBVIOUS
<1>5. /\ f \in [Own(jobs, v) -> Own(jobs', v)]
      /\ \A i, j \in Own(jobs, v) : f[i] = f[j] => i = j
      /\ \A i \in Own(jobs', v) : \E j \in Own(jobs, v) : f[j] = i
  BY <1>1, <1>2, <1>3, <1>4 DEF Own
<1> HIDE DEF f
<1>6. f \in Bijection(Own(jobs, v), Own(jobs', v))
  BY <1>5 DEF Bijection, Injection, IsInjective, Surjection
<1>7. ExistsBijection(Own(jobs, v), Own(jobs', v))
  BY <1>6 DEF ExistsBijection
<1> QED
  BY <1>7, OwnFinite, FS_Bijection

LEMMA PollerIs ==
    ASSUME TypeInv, NEW w \in Worker
    PROVE  /\ poller[w].at = "slot" => poller[w] = Slot
           /\ poller[w].at = "polling" => \E s \in Server : poller[w] = PollAt(s)
           /\ poller[w].at \in {"slot", "polling"} => poller[w] # Idle
BY DEF TypeInv, Idle, Slot, PollAt

LEMMA NotIdle == Slot # Idle /\ \A s : PollAt(s) # Idle /\ PollAt(s) # Slot
BY DEF Idle, Slot, PollAt

(* What each step of a poll loop does to the poll and the slots.           *)
PollMoves(w) ==
    \/ /\ poller[w] = Idle /\ sem[w] < dep.capacity
       /\ poller' = [poller EXCEPT ![w] = Slot]
       /\ sem' = [sem EXCEPT ![w] = @ + 1]
    \/ /\ poller[w] # Idle
       /\ \E s \in Server : /\ server[s].mode = "up"
                            /\ poller' = [poller EXCEPT ![w] = PollAt(s)]
       /\ sem' = sem
    \/ /\ poller[w] # Idle /\ poller' = [poller EXCEPT ![w] = Idle]
       /\ sem' = [sem EXCEPT ![w] = @ - 1]

LEMMA PollMovesAre ==
    ASSUME TypeInv, NEW w \in Worker,
           AcquireSlot(w) \/ PollEnds(w) \/ DispatchLost(w) \/ \E s \in Server : SendPoll(w, s)
    PROVE  PollMoves(w) /\ jobs' = jobs /\ server' = server
<1>1. ASSUME AcquireSlot(w) PROVE PollMoves(w) /\ jobs' = jobs /\ server' = server
  BY <1>1 DEF AcquireSlot, PollMoves, Slot
<1>2. ASSUME NEW s \in Server, SendPoll(w, s)
      PROVE  PollMoves(w) /\ jobs' = jobs /\ server' = server
  BY <1>2, PollerIs DEF SendPoll, Reachable, PollMoves, PollAt
<1>3. ASSUME PollEnds(w) \/ DispatchLost(w)
      PROVE  PollMoves(w) /\ jobs' = jobs /\ server' = server
  BY <1>3, PollerIs
     DEF PollEnds, PollRefused, PollTimesOut, DispatchLost, Release, PollMoves
<1> QED
  BY <1>1, <1>2, <1>3

LEMMA CrashIs ==
    ASSUME TypeInv, NEW s \in Server, CrashServer(s)
    PROVE  /\ server' = [server EXCEPT ![s].mode = "down"] /\ jobs' = jobs
           /\ poller' = [w \in Worker |-> IF poller[w] = PollAt(s) THEN Idle ELSE poller[w]]
           /\ sem' = [w \in Worker |-> IF poller[w] = PollAt(s) THEN sem[w] - 1 ELSE sem[w]]
<1>1. \A w \in Worker : w \in PollsAt(s) <=> poller[w] = PollAt(s)
  BY DEF PollsAt, PollAt
<1> QED
  BY <1>1 DEF CrashServer

LEMMA DispatchIs ==
    ASSUME TypeInv, NEW w \in Worker, PollDispatches(w)
    PROVE  /\ poller[w] # Idle /\ poller' = [poller EXCEPT ![w] = Idle]
           /\ sem' = sem /\ server' = server
BY PollerIs DEF PollDispatches

LEMMA RestartIs ==
    ASSUME NEW w \in Worker, RestartWorker(w)
    PROVE  /\ poller' = [poller EXCEPT ![w] = Idle] /\ sem' = [sem EXCEPT ![w] = 0]
           /\ jobs' = {j \in jobs : j.worker # w} /\ server' = server
BY DEF RestartWorker

(* All ways in which polls, slots and tasks change together.               *)
SlotChanges ==
    \/ poller' = poller /\ sem' = sem /\ jobs' = jobs
    \/ \E w \in Worker : PollMoves(w) /\ jobs' = jobs /\ server' = server
    \/ \E w \in Worker : PollDispatches(w)
    \/ \E w \in Worker : RestartWorker(w)
    \/ \E s \in Server : CrashServer(s)
    \/ \E j \in jobs, a \in Answers : /\ jobs' = (jobs \ {j}) \cup {Answering(j, a)}
                                      /\ poller' = poller /\ sem' = sem
    \/ \E j \in jobs : JobLeaves(j)
    \/ \E t \in Task : Reaps(t)

LEMMA SlotChangesAre ==
    ASSUME TypeInv, Steps
    PROVE  SlotChanges
<1>1. ASSUME NEW w \in Worker, AcquireSlot(w) \/ PollEnds(w) \/ DispatchLost(w)
                               \/ \E s \in Server : SendPoll(w, s)
      PROVE  SlotChanges
  BY <1>1, PollMovesAre DEF SlotChanges
<1>2. ASSUME NEW w \in Worker, PollDispatches(w) \/ RestartWorker(w) PROVE SlotChanges
  BY <1>2 DEF SlotChanges
<1>3. ASSUME NEW s \in Server, ServerActs(s) PROVE SlotChanges
  BY <1>3 DEF SlotChanges, ServerActs, StartServer, GracefulStop, ShutdownServer, workerVars
<1>4. ASSUME NEW j \in jobs, ProcessActivityTask(j) PROVE SlotChanges
  <2>1. poller' = poller /\ sem' = sem
    BY <1>4 DEF ProcessActivityTask
  <2> QED
    BY <1>4, <2>1, ProcessIs DEF SlotChanges
<1>5. ASSUME NEW j \in jobs, JobEnds(j) \/ \E s \in Server : Respond(j, s)
      PROVE  SlotChanges
  BY <1>5 DEF SlotChanges, JobLeaves
<1>6. ASSUME NEW t \in Task, EnqueueActivityTask(t) \/ Reaps(t) PROVE SlotChanges
  BY <1>6 DEF SlotChanges, EnqueueActivityTask, workerVars
<1>7. ASSUME Tick \/ UNCHANGED vars PROVE SlotChanges
  BY <1>7 DEF SlotChanges, Tick, workerVars, vars
<1> QED
  BY <1>1, <1>2, <1>3, <1>4, <1>5, <1>6, <1>7 DEF Steps

SlotOf(w) ==
    /\ sem[w] = Cardinality(Own(jobs, w)) + (IF poller[w] = Idle THEN 0 ELSE 1)
    /\ sem[w] <= dep.capacity

LEMMA SlotsAre == SlotsConserved <=> \A w \in Worker : SlotOf(w)
BY DEF SlotsConserved, SlotOf, Own

LEMMA PollersStep ==
    ASSUME TypeInv, Steps
    PROVE  /\ poller' \in [Worker -> {Idle, Slot} \cup {PollAt(s) : s \in Server}]
           /\ sem' \in [Worker -> Int]
<1> DEFINE P == {Idle, Slot} \cup {PollAt(s) : s \in Server}
<1>0. /\ Idle \in P /\ Slot \in P /\ \A s \in Server : PollAt(s) \in P
      /\ poller \in [Worker -> P] /\ sem \in [Worker -> Int]
  BY DEF TypeInv
<1>1. \A j \in jobs : j.worker \in Worker
  BY DEF TypeInv, Job
<1> HIDE DEF P
<1>2. ASSUME NEW w \in Worker, PollMoves(w)
      PROVE  poller' \in [Worker -> P] /\ sem' \in [Worker -> Int]
  BY <1>0, <1>2 DEF PollMoves
<1>3. ASSUME NEW w \in Worker, PollDispatches(w) \/ RestartWorker(w)
      PROVE  poller' \in [Worker -> P] /\ sem' \in [Worker -> Int]
  BY <1>0, <1>3, DispatchIs, RestartIs
<1>4. ASSUME NEW s \in Server, CrashServer(s)
      PROVE  poller' \in [Worker -> P] /\ sem' \in [Worker -> Int]
  BY <1>0, <1>4, CrashIs
<1>5. ASSUME NEW j \in jobs, JobLeaves(j)
      PROVE  poller' \in [Worker -> P] /\ sem' \in [Worker -> Int]
  BY <1>0, <1>1, <1>5, LeavesIs
<1>6. ASSUME poller' = poller, sem' = sem
      PROVE  poller' \in [Worker -> P] /\ sem' \in [Worker -> Int]
  BY <1>0, <1>6
<1>7. poller' \in [Worker -> P] /\ sem' \in [Worker -> Int]
  BY <1>2, <1>3, <1>4, <1>5, <1>6, ReapsIs, SlotChangesAre DEF SlotChanges
<1> QED
  BY <1>7 DEF P

LEMMA SlotsStep ==
    ASSUME TypeInv, LeaseInv, SlotsConserved, Steps
    PROVE  SlotsConserved'
<1>0. /\ \A w \in Worker : SlotOf(w) /\ sem[w] \in Int /\ Cardinality(Own(jobs, w)) \in Nat
      /\ DOMAIN sem = Worker /\ DOMAIN poller = Worker /\ dep' = dep /\ dep.capacity \in Nat
      /\ \A j \in jobs : j.worker \in Worker
  BY SlotsAre, OwnFinite, DepKept, DeploymentsAssumption DEF TypeInv, Job
<1> DEFINE After(v) ==
             /\ sem'[v] = Cardinality(Own(jobs', v)) + (IF poller'[v] = Idle THEN 0 ELSE 1)
             /\ sem'[v] <= dep.capacity
<1> SUFFICES ASSUME NEW v \in Worker PROVE After(v)
  BY <1>0, SlotsAre DEF SlotsConserved, Own, Idle
<1>00. /\ sem[v] = Cardinality(Own(jobs, v)) + (IF poller[v] = Idle THEN 0 ELSE 1)
       /\ sem[v] <= dep.capacity /\ sem[v] \in Int /\ Cardinality(Own(jobs, v)) \in Nat
  BY <1>0 DEF SlotOf
<1>1. ASSUME NEW w \in Worker, PollMoves(w), jobs' = jobs PROVE After(v)
  BY <1>0, <1>00, <1>1, NotIdle DEF PollMoves
<1>2. ASSUME NEW w \in Worker, PollDispatches(w) PROVE After(v)
  BY <1>0, <1>00, <1>2, DispatchIs, OwnAdded
<1>3. ASSUME NEW w \in Worker, RestartWorker(w) PROVE After(v)
  <2>1. CASE v = w
    <3>1. Own(jobs', v) = {}
      BY <1>3, <2>1, RestartIs DEF Own
    <3>2. Cardinality(Own(jobs', v)) = 0
      BY <3>1, FS_EmptySet
    <3>3. sem'[v] = 0 /\ poller'[v] = Idle
      BY <1>0, <1>3, <2>1, RestartIs
    <3> QED
      BY <1>0, <3>2, <3>3
  <2>2. CASE v # w
    <3>1. Own(jobs', v) = Own(jobs, v)
      BY <1>3, <2>2, RestartIs DEF Own
    <3> QED
      BY <1>0, <1>00, <1>3, <2>2, <3>1, RestartIs
  <2> QED
    BY <2>1, <2>2
<1>4. ASSUME NEW s \in Server, CrashServer(s) PROVE After(v)
  BY <1>0, <1>00, <1>4, CrashIs, NotIdle
<1>5. ASSUME NEW j \in jobs, NEW a \in Answers,
             jobs' = (jobs \ {j}) \cup {Answering(j, a)}, poller' = poller, sem' = sem
      PROVE  After(v)
  BY <1>00, <1>5, OwnAnswering
<1>6. ASSUME NEW j \in jobs, JobLeaves(j) PROVE After(v)
  BY <1>0, <1>00, <1>6, LeavesIs, OwnRemoved
<1>7. ASSUME NEW t \in Task, Reaps(t) PROVE After(v)
  BY <1>00, <1>7, ReapsIs, OwnLate
<1>8. ASSUME poller' = poller, sem' = sem, jobs' = jobs PROVE After(v)
  BY <1>00, <1>8
<1> HIDE DEF After
<1> QED
  BY <1>1, <1>2, <1>3, <1>4, <1>5, <1>6, <1>7, <1>8, SlotChangesAre DEF SlotChanges

-----------------------------------------------------------------------------
(* Servers and keys.                                                       *)

Started(s) == [mode |-> "up", key |-> NewKey, life |-> server[s].life + 1]

ServerChanges ==
    \/ server' = server
    \/ \E s \in Server : /\ server[s].mode = "down" /\ UNCHANGED <<poller, jobs>>
                         /\ server' = [server EXCEPT ![s] = Started(s)]
    \/ \E s \in Server, m \in {"draining", "down"} :
          /\ server[s].mode # "down" /\ UNCHANGED jobs
          /\ server' = [server EXCEPT ![s].mode = m]
          /\ \A w \in Worker : poller'[w] \in {poller[w], Idle}
          /\ m = "down" => \A w \in Worker : poller'[w] # PollAt(s)

LEMMA ServerChangesAre ==
    ASSUME TypeInv, Steps
    PROVE  ServerChanges
<1>0. \A s : PollsAt(s) = {w \in Worker : poller[w] = PollAt(s)}
  BY DEF PollsAt, PollAt
<1>1. ASSUME NEW s \in Server, StartServer(s) PROVE ServerChanges
  BY <1>1 DEF StartServer, ServerChanges, Started, workerVars
<1>2. ASSUME NEW s \in Server, ShutdownServer(s) PROVE ServerChanges
  BY <1>2 DEF ShutdownServer, Reachable, ServerChanges, workerVars
<1>3. ASSUME NEW s \in Server, GracefulStop(s) PROVE ServerChanges
  <2>1. /\ server[s].mode = "draining" /\ poller' = poller /\ jobs' = jobs
        /\ server' = [server EXCEPT ![s].mode = "down"]
        /\ \A w \in Worker : poller[w] # PollAt(s)
    BY <1>0, <1>3 DEF GracefulStop, workerVars
  <2> QED
    BY <2>1 DEF ServerChanges
<1>4. ASSUME NEW s \in Server, CrashServer(s) PROVE ServerChanges
  <2>1. /\ server' = [server EXCEPT ![s].mode = "down"] /\ jobs' = jobs
        /\ poller' = [w \in Worker |-> IF poller[w] = PollAt(s) THEN Idle ELSE poller[w]]
    BY <1>4, CrashIs
  <2>2. server[s].mode # "down"
    BY <1>4 DEF CrashServer
  <2>3. \A w \in Worker : poller'[w] \in {poller[w], Idle} /\ poller'[w] # PollAt(s)
    BY <2>1, NotIdle
  <2> QED
    BY <2>1, <2>2, <2>3 DEF ServerChanges
<1>5. ASSUME server' = server PROVE ServerChanges
  BY <1>5 DEF ServerChanges
<1> QED
  BY <1>1, <1>2, <1>3, <1>4, <1>5, ServerKept DEF ServerActs

LEMMA ServersStep ==
    ASSUME TypeInv, Steps
    PROVE  server' \in Servers
<1>1. server \in Servers /\ NewKey \in Nat
  BY NewKeyFresh DEF TypeInv
<1>2. ASSUME NEW s \in Server, server' = [server EXCEPT ![s] = Started(s)]
      PROVE  server' \in Servers
  BY <1>1, <1>2 DEF Started, Servers, Modes
<1>3. ASSUME NEW s \in Server, NEW m \in {"draining", "down"},
             server' = [server EXCEPT ![s].mode = m]
      PROVE  server' \in Servers
  BY <1>1, <1>3 DEF Servers, Modes
<1> QED
  BY <1>1, <1>2, <1>3, ServerChangesAre DEF ServerChanges

(* A poll that begins, begins at a server that is up.                      *)
LEMMA PollsFrom ==
    ASSUME TypeInv, Steps, server' = server, NEW w \in Worker, NEW s \in Server,
           poller'[w] = PollAt(s)
    PROVE  poller[w] = PollAt(s) \/ server[s].mode = "up"
<1>0. DOMAIN poller = Worker
  BY DEF TypeInv
<1>1. ASSUME NEW v \in Worker, PollMoves(v)
      PROVE  poller[w] = PollAt(s) \/ server[s].mode = "up"
  BY <1>0, <1>1, NotIdle DEF PollMoves, PollAt
<1>2. ASSUME NEW v \in Worker, PollDispatches(v) \/ RestartWorker(v)
      PROVE  poller[w] = PollAt(s) \/ server[s].mode = "up"
  BY <1>0, <1>2, NotIdle, DispatchIs, RestartIs
<1>3. ASSUME NEW r \in Server, CrashServer(r)
      PROVE  poller[w] = PollAt(s) \/ server[s].mode = "up"
  BY <1>3, NotIdle, CrashIs
<1> QED
  BY <1>1, <1>2, <1>3, LeavesIs, ReapsIs, SlotChangesAre DEF SlotChanges

LEMMA KeysFrom ==
    ASSUME TypeInv, Steps
    PROVE  \/ \A q \in Server : /\ server'[q].mode # "down" => server[q].mode # "down"
                                /\ server'[q].key = server[q].key
                                /\ server'[q].life = server[q].life
           \/ \E u \in Server : /\ server'[u].key = NewKey
                                /\ server'[u].life = server[u].life + 1 /\ jobs' = jobs
                                /\ \A q \in Server : q # u => server'[q] = server[q]
<1>0. server \in Servers
  BY DEF TypeInv
<1>1. ASSUME NEW s \in Server, server' = [server EXCEPT ![s] = Started(s)]
      PROVE  /\ server'[s].key = NewKey /\ server'[s].life = server[s].life + 1
             /\ \A q \in Server : q # s => server'[q] = server[q]
  BY <1>0, <1>1 DEF Servers, Started
<1>2. ASSUME NEW s \in Server, NEW m, server[s].mode # "down",
             server' = [server EXCEPT ![s].mode = m]
      PROVE  \A q \in Server : /\ server'[q].mode # "down" => server[q].mode # "down"
                               /\ server'[q].key = server[q].key
                               /\ server'[q].life = server[q].life
  BY <1>0, <1>2 DEF Servers
<1>3. CASE server' = server
  BY <1>3
<1> QED
  BY <1>1, <1>2, <1>3, ServerChangesAre DEF ServerChanges

LEMMA NotPast == \A n \in Nat : ~(n + 1 <= n)
OBVIOUS

IssuedBy(j, s, n) == j.issuer = <<s, n>>

(* A running process reads the tokens it issued itself and no others.      *)
LEMMA TokensStayOwn ==
    ASSUME TypeInv, KeyInv, Steps, getEnvHex(dep.env) = "",
           NEW j \in jobs', NEW s \in Server, server'[s].mode # "down"
    PROVE  server'[s].key = j.key <=> IssuedBy(j, s, server'[s].life)
<1>0. /\ \A q, u \in Server : server[q].mode # "down" /\ server[u].mode # "down" /\ q # u
                              => server[q].key # server[u].key
      /\ \A i \in jobs, q \in Server :
            server[q].mode # "down"
            => (server[q].key = i.key <=> IssuedBy(i, q, server[q].life))
      /\ \A q \in Server : server[q].life \in Nat
  BY DEF KeyInv, TypeInv, Servers, Process, IssuedBy
<1>1. ASSUME NEW u \in Server, server'[u].key = NewKey,
             server'[u].life = server[u].life + 1, jobs' = jobs,
             \A q \in Server : q # u => server'[q] = server[q]
      PROVE  server'[s].key = j.key <=> IssuedBy(j, s, server'[s].life)
  <2>1. CASE s = u
    <3>1. server'[s].key # j.key
      BY <1>1, <2>1, NewKeyFresh DEF TypeInv
    <3>2. j.issuer[2] <= server[j.issuer[1]].life
      BY <1>1 DEF KeyInv
    <3>3. PICK n \in Nat : n = server[s].life
      BY <1>0
    <3>4. <<s, n + 1>>[1] = s /\ <<s, n + 1>>[2] = n + 1
      OBVIOUS
    <3>5. ASSUME IssuedBy(j, s, n + 1) PROVE FALSE
      <4>1. j.issuer[1] = s /\ j.issuer[2] = n + 1
        BY <3>4, <3>5, Zenon DEF IssuedBy
      <4>2. server[j.issuer[1]].life = n
        BY <3>3, <4>1, Zenon
      <4>3. n + 1 <= n
        BY <3>2, <4>1, <4>2
      <4> QED
        BY <4>3, NotPast
    <3>6. ~IssuedBy(j, s, server[s].life + 1)
      BY <3>3, <3>5, Zenon
    <3> QED
      BY <1>1, <2>1, <3>1, <3>6
  <2>2. CASE s # u
    <3>1. j \in jobs /\ server'[s] = server[s] /\ server[s].mode # "down"
      BY <1>1, <2>2
    <3>2. server[s].key = j.key <=> IssuedBy(j, s, server[s].life)
      BY <1>0, <3>1
    <3> QED
      BY <3>1, <3>2
  <2> QED
    BY <2>1, <2>2
<1>2. ASSUME server[s].mode # "down", server'[s].key = server[s].key,
             server'[s].life = server[s].life
      PROVE  server'[s].key = j.key <=> IssuedBy(j, s, server'[s].life)
  <2>1. ASSUME NEW i \in jobs, Like(j, i)
        PROVE  server[s].key = j.key <=> IssuedBy(j, s, server[s].life)
    <3>1. j.key = i.key /\ (IssuedBy(j, s, server[s].life) <=> IssuedBy(i, s, server[s].life))
      BY <2>1 DEF Like, IssuedBy
    <3> QED
      BY <1>0, <1>2, <3>1
  <2>2. ASSUME NEW w \in Worker, PollDispatches(w), j = NewJob(w)
        PROVE  server[s].key = j.key <=> IssuedBy(j, s, server[s].life)
    <3>1. PICK r \in Server : /\ poller[w] = PollAt(r) /\ j.key = server[r].key
                              /\ j.issuer = <<r, server[r].life>>
      BY <2>2, NewJobIs DEF Process
    <3>2. server[r].mode # "down"
      BY <3>1 DEF KeyInv
    <3>3. <<r, server[r].life>> = <<s, server[s].life>> <=> s = r
      OBVIOUS
    <3>4. IssuedBy(j, s, server[s].life) <=> s = r
      BY <3>1, <3>3, Zenon DEF IssuedBy
    <3> QED
      BY <1>0, <1>2, <3>1, <3>2, <3>4
  <2> QED
    BY <1>2, <2>1, <2>2, JobsFrom
<1> QED
  BY <1>1, <1>2, KeysFrom

(* A token's issuer is a process that has been started.                    *)
LEMMA IssuersStart ==
    ASSUME TypeInv, KeyInv, Steps, NEW j \in jobs'
    PROVE  j.issuer[2] <= server'[j.issuer[1]].life
<1>0. \A q \in Server : server[q].life \in Nat /\ server'[q].life \in Nat
  BY ServersStep DEF TypeInv, Servers
<1>1. \A q \in Server : server[q].life <= server'[q].life
  BY <1>0, KeysFrom
<1>2. PICK q \in Server, n \in Nat : j.issuer = <<q, n>> /\ n <= server[q].life
  <2>1. ASSUME NEW i \in jobs, Like(j, i)
        PROVE  \E q \in Server, n \in Nat : j.issuer = <<q, n>> /\ n <= server[q].life
    <3>1. i.issuer \in Server \X Nat /\ i.issuer[2] <= server[i.issuer[1]].life
      BY DEF TypeInv, Job, KeyInv
    <3> QED
      BY <2>1, <3>1 DEF Like
  <2>2. ASSUME NEW w \in Worker, PollDispatches(w), j = NewJob(w)
        PROVE  \E q \in Server, n \in Nat : j.issuer = <<q, n>> /\ n <= server[q].life
    BY <1>0, <2>2, NewJobIs DEF Process
  <2> QED
    BY <2>1, <2>2, JobsFrom
<1> QED
  BY <1>0, <1>1, <1>2

LEMMA KeyInvStep ==
    ASSUME TypeInv, KeyInv, Steps
    PROVE  KeyInv'
<1>0. server \in Servers /\ dep' = dep
  BY DepKept DEF TypeInv
<1>1. ASSUME NEW w \in Worker, NEW s \in Server, poller'[w] = PollAt(s)
      PROVE  server'[s].mode # "down"
  <2>0. poller[w] = PollAt(s) => server[s].mode # "down"
    BY DEF KeyInv
  <2>1. CASE server' = server
    BY <1>1, <2>0, <2>1, PollsFrom
  <2>2. CASE server' # server
    BY <1>0, <1>1, <2>0, <2>2, ServerChangesAre, NotIdle
       DEF ServerChanges, Servers, Started
  <2> QED
    BY <2>1, <2>2
<1>2. ASSUME getEnvHex(dep.env) # "", NEW s \in Server, server'[s].mode # "down"
      PROVE  server'[s].key = 0
  <2>1. \A r \in Server : server[r].mode # "down" => server[r].key = 0
    BY <1>2 DEF KeyInv
  <2>2. NewKey = 0
    BY <1>2, NewKeyFresh DEF TypeInv
  <2> QED
    BY <1>2, <2>1, <2>2, KeysFrom
<1>3. ASSUME getEnvHex(dep.env) # "", NEW j \in jobs' PROVE j.key = 0
  <2>1. CASE \E i \in jobs : Like(j, i)
    BY <1>3, <2>1 DEF KeyInv, Like
  <2>2. ASSUME NEW w \in Worker, PollDispatches(w), j = NewJob(w) PROVE j.key = 0
    <3>1. PICK s \in Server : poller[w] = PollAt(s) /\ j.key = server[s].key
      BY <2>2, NewJobIs
    <3> QED
      BY <1>3, <3>1 DEF KeyInv
  <2> QED
    BY <2>1, <2>2, JobsFrom
<1>4. ASSUME getEnvHex(dep.env) = "", NEW s \in Server, NEW r \in Server, s # r,
             server'[s].mode # "down", server'[r].mode # "down"
      PROVE  server'[s].key # server'[r].key
  <2>1. \A q, u \in Server : server[q].mode # "down" /\ server[u].mode # "down" /\ q # u
                             => server[q].key # server[u].key
    BY <1>4 DEF KeyInv
  <2>2. \A q \in Server : server[q].key # NewKey
    BY <1>4, NewKeyFresh DEF TypeInv
  <2> QED
    BY <1>4, <2>1, <2>2, KeysFrom
<1>5. getEnvHex(dep.env)' = getEnvHex(dep.env)
  BY <1>0 DEF getEnvHex
<1>6. /\ \A s : PollAt(s)' = PollAt(s)
      /\ \A s : Process(s)' = <<s, server'[s].life>>
  BY DEF PollAt, Process
<1>7. ASSUME getEnvHex(dep.env) = "", NEW j \in jobs', NEW s \in Server,
             server'[s].mode # "down"
      PROVE  server'[s].key = j.key <=> j.issuer = <<s, server'[s].life>>
  BY <1>7, TokensStayOwn DEF IssuedBy
<1> QED
  BY <1>1, <1>2, <1>3, <1>4, <1>5, <1>6, <1>7, IssuersStart DEF KeyInv

-----------------------------------------------------------------------------
(* The waits before retries, as rows keep them.                            *)

IntervalsForward ==
    \A d \in Deployments : \A t \in DOMAIN d.tasks : d.tasks[t].policy.initial >= 0

(* A row has the policy it was scheduled with, and, once retried, a wait   *)
(* that the attempt before the present one called for.                     *)
RowPolicy(r) ==
    /\ {"initial", "maxInterval", "coeff"} \subseteq DOMAIN r
    /\ r.initial \in Nat /\ r.maxInterval \in Int
    /\ r.coeff \in (Nat \ {0}) \X (Nat \ {0})
    /\ r.attempt > 1 => r.delay \in Waits(r.initial, r.maxInterval, r.coeff, r.attempt - 2)

PolicyInv == \A t \in Task : row[t].status # "none" => RowPolicy(row[t])

LEMMA PolicyRelet ==
    ASSUME NEW r, RowOk(r), RowPolicy(r), NEW st, NEW l
    PROVE  RowPolicy(Relet(r, st, l))
BY DEF RowOk, Columns, RowPolicy, Relet

LEMMA PolicyTicked ==
    ASSUME NEW r, RowOk(r), RowPolicy(r), NEW wt
    PROVE  RowPolicy([r EXCEPT !.wait = wt])
BY DEF RowOk, Columns, RowPolicy

LEMMA PolicyRetried ==
    ASSUME NEW r, RowOk(r), r.status # "none", RowPolicy(r), NEW b \in Backoffs(r)
    PROVE  RowPolicy(Retried(r, b))
<1> DEFINE q == Retried(r, b)
<1>1. r.attempt \in Nat \ {0}
  BY DEF RowOk
<1>2. /\ {"initial", "maxInterval", "coeff"} \subseteq DOMAIN q
      /\ q.initial = r.initial /\ q.maxInterval = r.maxInterval /\ q.coeff = r.coeff
      /\ q.attempt = r.attempt + 1 /\ q.delay = b
  BY <1>1 DEF RowOk, Columns, RowPolicy, Retried
<1>3. b \in Waits(r.initial, r.maxInterval, r.coeff, r.attempt - 1)
  BY DEF Backoffs, Power, Waits, Capped
<1> HIDE DEF q
<1>4. q.attempt - 2 = r.attempt - 1
  BY <1>1, <1>2
<1>5. RowPolicy(q)
  BY <1>2, <1>3, <1>4 DEF RowPolicy
<1> QED
  BY <1>5 DEF q

(* activityEnqueueParams: a coefficient that is not positive becomes 2.    *)
LEMMA PolicyEnqueued ==
    ASSUME IntervalsForward, TypeInv, NEW t \in Task
    PROVE  RowPolicy(activityEnqueueParams(dep.tasks[t]))
<1> DEFINE rp == dep.tasks[t].policy
           q == activityEnqueueParams(dep.tasks[t])
<1>1. rp.initial \in Nat /\ rp.maxInterval \in Int /\ rp.coeff \in Int \X (Nat \ {0})
  BY PoliciesAssumption DEF IntervalsForward, TypeInv, Task
<1>2. rp.coeff[1] > 0 => rp.coeff \in (Nat \ {0}) \X (Nat \ {0})
  BY <1>1
<1>3. <<2, 1>> \in (Nat \ {0}) \X (Nat \ {0})
  OBVIOUS
<1>4. /\ {"initial", "maxInterval", "coeff"} \subseteq DOMAIN q
      /\ q.initial = rp.initial /\ q.maxInterval = rp.maxInterval /\ q.attempt = 1
      /\ q.coeff = IF rp.coeff[1] > 0 THEN rp.coeff ELSE <<2, 1>>
  BY DEF activityEnqueueParams
<1>5. q.coeff \in (Nat \ {0}) \X (Nat \ {0})
  BY <1>2, <1>3, <1>4
<1> HIDE DEF q, rp
<1>6. RowPolicy(q)
  BY <1>1, <1>4, <1>5 DEF RowPolicy
<1> QED
  BY <1>6 DEF q

LEMMA PolicyStep ==
    ASSUME IntervalsForward, TypeInv, PolicyInv, Steps
    PROVE  PolicyInv'
<1> DEFINE Goal == \A t \in Task : row'[t].status # "none" => RowPolicy(row'[t])
<1>0. \A t \in Task : RowOk(row[t]) /\ (row[t].status # "none" => RowPolicy(row[t]))
  BY DEF TypeInv, PolicyInv
<1>1. ASSUME NEW t \in Task, NEW r, RowPolicy(r), RowSet(t, r) PROVE Goal
  BY <1>0, <1>1, RowSetIs
<1>2. ASSUME NEW t \in Task, row[t].status # "none", NEW st, NEW l,
             RowSet(t, Relet(row[t], st, l))
      PROVE  Goal
  BY <1>0, <1>1, <1>2, PolicyRelet
<1>3. ASSUME NEW j \in jobs, Holds(j), Settles(j) \/ UsesAttempt(j) PROVE Goal
  <2>1. j.task \in Task /\ row[j.task].status = "STARTED"
    BY <1>3 DEF TypeInv, Job, Holds
  <2>2. CASE Settles(j)
    BY <1>2, <2>1, <2>2 DEF Settles
  <2>3. CASE UsesAttempt(j)
    <3>1. PICK b \in Backoffs(row[j.task]) : RowSet(j.task, Retried(row[j.task], b))
      BY <2>3 DEF UsesAttempt
    <3>2. RowPolicy(Retried(row[j.task], b))
      BY <1>0, <2>1, PolicyRetried
    <3> QED
      BY <1>1, <2>1, <3>1, <3>2
  <2> QED
    BY <1>3, <2>2, <2>3
<1>4. ASSUME NEW t \in Task, RowSet(t, activityEnqueueParams(dep.tasks[t])) PROVE Goal
  BY <1>1, <1>4, PolicyEnqueued
<1>5. ASSUME Tick PROVE Goal
  <2> SUFFICES ASSUME NEW t \in Task, row'[t].status # "none" PROVE RowPolicy(row'[t])
    OBVIOUS
  <2>1. PICK wt : row'[t] = [row[t] EXCEPT !.wait = wt]
    BY <1>5 DEF Tick
  <2>2. row[t].status # "none"
    BY <1>5, TickIs
  <2> QED
    BY <1>0, <2>1, <2>2, PolicyTicked
<1>6. ASSUME row' = row PROVE Goal
  BY <1>0, <1>6
<1> HIDE DEF Goal
<1>7. Goal
  BY <1>2, <1>3, <1>4, <1>5, <1>6, RowChangesAre DEF RowChanges
<1>8. Task' = Task
  BY DepKept, SameDep
<1> QED
  BY <1>7, <1>8 DEF Goal, PolicyInv, RowPolicy, Waits, Capped

LEMMA PolicyFollowed ==
    ASSUME TypeInv, PolicyInv
    PROVE  BackoffWithinPolicy
<1> SUFFICES ASSUME NEW t \in Task, row[t].status # "none", row[t].attempt > 1,
                    NEW r, r = row[t], NEW n, n = r.attempt - 2,
                    r.initial * Pow(r.coeff[1], n) < Limit * Pow(r.coeff[2], n)
             PROVE  LET exact == r.initial * Pow(r.coeff[1], n)
                        scale == Pow(r.coeff[2], n)
                        upTo == IF r.maxInterval > 0
                                THEN Least({exact, r.maxInterval * scale}) ELSE exact
                    IN  /\ r.delay * scale <= upTo
                        /\ r.coeff[1] >= r.coeff[2] => 2 * r.delay * scale >= upTo
  BY DEF BackoffWithinPolicy
<1>1. RowOk(r) /\ RowPolicy(r)
  BY DEF TypeInv, PolicyInv
<1>2. n \in Nat
  BY <1>1 DEF RowOk
<1>3. /\ r.initial \in Nat /\ r.maxInterval \in Int
      /\ r.coeff \in (Nat \ {0}) \X (Nat \ {0})
      /\ r.delay \in Waits(r.initial, r.maxInterval, r.coeff, n)
  BY <1>1 DEF RowPolicy
<1>4. PICK initial \in Nat, M \in Int, coeff \in (Nat \ {0}) \X (Nat \ {0}) :
         r.initial = initial /\ r.maxInterval = M /\ r.coeff = coeff
  BY <1>3
<1>5. PICK wait \in Waits(initial, M, coeff, n) : r.delay = wait
  BY <1>3, <1>4
<1>6. initial * Pow(coeff[1], n) < Limit * Pow(coeff[2], n)
  BY <1>4
<1>7. LET exact == initial * Pow(coeff[1], n)
          scale == Pow(coeff[2], n)
          upTo == IF M > 0 THEN Least({exact, M * scale}) ELSE exact
      IN  /\ wait * scale <= upTo
          /\ coeff[1] >= coeff[2] => 2 * wait * scale >= upTo
  BY <1>2, <1>6, WaitsFollow
<1> QED
  BY <1>4, <1>5, <1>7

-----------------------------------------------------------------------------
(* The invariant.                                                          *)

LEMMA WorkerInvInit == Init => WorkerInv
<1> SUFFICES ASSUME Init PROVE WorkerInv
  OBVIOUS
<1>0. /\ jobs = {} /\ IsFiniteSet({}) /\ Cardinality({}) = 0
      /\ sem = [w \in Worker |-> 0] /\ poller = [w \in Worker |-> Idle]
      /\ dep \in Deployments
  BY FS_EmptySet DEF Init
<1>1. RowOk(NoRow)
  BY DEF RowOk, NoRow, Columns
<1>2. TypeInv
  BY <1>0, <1>1 DEF Init, TypeInv, Task, Servers, Modes
<1>3. LeaseInv
  BY <1>0 DEF LeaseInv
<1>4. SettledInv
  BY DEF Init, SettledInv, Task
<1>5. KeyInv
  BY <1>0, NotIdle DEF Init, KeyInv
<1>6. ASSUME NEW w \in Worker PROVE SlotOf(w)
  <2>1. Own(jobs, w) = {}
    BY <1>0 DEF Own
  <2> QED
    BY <1>0, <2>1, DeploymentsAssumption DEF SlotOf
<1> QED
  BY <1>2, <1>3, <1>4, <1>5, <1>6, SlotsAre DEF WorkerInv

LEMMA WorkerInvStep == WorkerInv /\ [Next]_vars => WorkerInv'
<1> SUFFICES ASSUME WorkerInv, [Next]_vars PROVE WorkerInv'
  OBVIOUS
<1>1. /\ TypeInv /\ LeaseInv /\ SettledInv /\ KeyInv /\ SlotsConserved /\ Steps
  BY StepsAre DEF WorkerInv
<1>2. dep' = dep /\ Task' = Task /\ Job' = Job /\ dep \in Deployments
  BY <1>1, DepKept, SameDep DEF TypeInv
<1>3. TypeInv'
  <2>1. jobs' \subseteq Job
    BY <1>1, JobsFrom
  <2>3. (\A t \in Task : RowOk(row[t]))'
    BY <1>1, <1>2, RowsStep DEF RowOk, Columns
  <2>4. DOMAIN row' = Task /\ DOMAIN outcome' = Task
    BY <1>1, RowsStep
  <2>5. poller' \in [Worker -> {Idle, Slot} \cup {PollAt(s) : s \in Server}]
        /\ sem' \in [Worker -> Int]
    BY <1>1, PollersStep
  <2>6. server' \in Servers /\ IsFiniteSet(jobs')
    BY <1>1, ServersStep, JobsFinite
  <2> QED
    BY <1>2, <2>1, <2>3, <2>4, <2>5, <2>6 DEF TypeInv, Idle, Slot, PollAt, Servers, Modes
<1>4. LeaseInv' /\ KeyInv' /\ SlotsConserved'
  BY <1>1, LeaseInvStep, KeyInvStep, SlotsStep
<1>5. SettledInv'
  BY <1>1, <1>2, RowsStep DEF SettledInv
<1> QED
  BY <1>3, <1>4, <1>5 DEF WorkerInv

(* However polls, dispatches and answers end, a worker's activitySem       *)
(* counts the tasks it is at work on and the poll it has out, and never    *)
(* exceeds its capacity (pollActivityTasks, processActivityTask).          *)
THEOREM SlotsAreConserved == FairSpec => []SlotsConserved
<1>1. WorkerInv => SlotsConserved
  BY DEF WorkerInv
<1> QED
  BY <1>1, WorkerInvInit, WorkerInvStep, PTL DEF FairSpec

(* What becomes of an answer.                                              *)
HeardStep ==
    \A j \in jobs, s \in Server :
        Respond(j, s) =>
           (<<row, outcome>>' # <<row, outcome>>
               <=> /\ j.answer # "big" /\ ~j.stale
                   /\ getEnvHex(dep.env) # "" \/ j.issuer = Process(s))

LEMMA HeardStepHolds == WorkerInv => HeardStep
<1> SUFFICES ASSUME WorkerInv, NEW j \in jobs, NEW s \in Server, Respond(j, s)
             PROVE  (<<row, outcome>>' # <<row, outcome>>
                       <=> /\ j.answer # "big" /\ ~j.stale
                           /\ getEnvHex(dep.env) # "" \/ j.issuer = Process(s))
  BY DEF HeardStep
<1>1. TypeInv /\ LeaseInv /\ KeyInv /\ j.task \in Task
  BY DEF WorkerInv, TypeInv, Job
<1>2. server[s].mode # "down"
  BY DEF Respond, Reachable
<1>3. DecodeTaskToken(j, s) <=> getEnvHex(dep.env) # "" \/ j.issuer = Process(s)
  <2>1. CASE getEnvHex(dep.env) # ""
    BY <1>1, <1>2, <2>1 DEF KeyInv, DecodeTaskToken
  <2>2. CASE getEnvHex(dep.env) = ""
    BY <1>1, <1>2, <2>2 DEF KeyInv, DecodeTaskToken
  <2> QED
    BY <2>1, <2>2
<1>4. Holds(j) <=> ~j.stale
  BY <1>1 DEF LeaseInv
<1>5. CASE RespondRefused(j, s)
  <2>1. row' = row /\ outcome' = outcome
    BY <1>5 DEF RespondRefused
  <2>2. ~(DecodeTaskToken(j, s) /\ Holds(j) /\ j.answer # "big")
    BY <1>5 DEF RespondRefused, CheckPayloadSize
  <2> QED
    BY <1>3, <1>4, <2>1, <2>2
<1>6. CASE RespondActivityTaskCompleted(j, s) \/ RespondActivityTaskFailed(j, s)
  <2>1. DecodeTaskToken(j, s) /\ Holds(j) /\ j.answer # "big"
    BY <1>6 DEF RespondActivityTaskCompleted, RespondActivityTaskFailed, Results,
                CheckPayloadSize
  <2>2. row' # row
    <3>1. PICK r : RowSet(j.task, r) /\ r.status # "STARTED"
      <4>1. RowOk(row[j.task]) /\ row[j.task].status # "none"
        BY <1>1, <2>1 DEF TypeInv, Holds
      <4>2. Settles(j) \/ UsesAttempt(j)
        BY <1>6 DEF RespondActivityTaskCompleted, RespondActivityTaskFailed, Recorded,
                    Settles, UsesAttempt, RowSet, Relet
      <4> QED
        BY <4>1, <4>2, RowUpdates DEF Settles, UsesAttempt
    <3>2. row'[j.task] = r /\ row[j.task].status = "STARTED"
      BY <1>1, <2>1, <3>1, RowSetIs DEF Holds
    <3> QED
      BY <3>1, <3>2
  <2> QED
    BY <1>3, <1>4, <2>1, <2>2
<1> QED
  BY <1>5, <1>6 DEF Respond

(* An answer that is not too large and whose lease was not reaped is acted *)
(* on by every server when a key is configured, a restarted one included,  *)
(* and by none but the process that issued its token when none is; every   *)
(* other answer changes nothing (NewStore, decodeTaskToken,                *)
(* RespondActivityTaskCompleted, RespondActivityTaskFailed).               *)
THEOREM AnswersAreHeard == FairSpec => AnswersHeard
<1>1. [][HeardStep]_vars => AnswersHeard
  BY DEF AnswersHeard, HeardStep
<1>2. WorkerInv /\ [Next]_vars => [HeardStep]_vars
  BY HeardStepHolds
<1> QED
  BY <1>1, <1>2, WorkerInvInit, WorkerInvStep, PTL DEF FairSpec

(* A step that settles an activity or uses up an attempt is the answer of  *)
(* an execution that still holds the lease.                                *)
HolderStep ==
    \A t \in Task :
        \/ outcome'[t] # outcome[t]
        \/ row[t].attempt > 0 /\ row'[t].attempt # row[t].attempt
        => /\ outcome[t].kind = "none" /\ row[t].status = "STARTED"
           /\ \E j \in jobs \ jobs' : j.task = t /\ j.at = "respond" /\ ~j.stale

LEMMA HolderStepHolds == WorkerInv /\ [Next]_vars => [HolderStep]_vars
<1> SUFFICES ASSUME WorkerInv, [Next]_vars PROVE HolderStep
  OBVIOUS
<1>1. TypeInv /\ LeaseInv /\ SettledInv /\ Steps
  BY StepsAre DEF WorkerInv
<1> SUFFICES ASSUME NEW t \in Task,
                    \/ outcome'[t] # outcome[t]
                    \/ row[t].attempt > 0 /\ row'[t].attempt # row[t].attempt
             PROVE  /\ outcome[t].kind = "none" /\ row[t].status = "STARTED"
                    /\ \E j \in jobs \ jobs' : j.task = t /\ j.at = "respond" /\ ~j.stale
  BY DEF HolderStep
<1>2. \A u \in Task : RowOk(row[u]) /\ (row[u].status = "none" => row[u].attempt = 0)
  BY <1>1 DEF TypeInv, RowOk
<1>3. ASSUME NEW u \in Task, outcome' = outcome, NEW r, RowSet(u, r),
             row[u].attempt = 0 \/ r.attempt = row[u].attempt
      PROVE  FALSE
  BY <1>1, <1>3, RowSetIs
<1>4. ASSUME NEW u \in Task, outcome' = outcome, row[u].status \in {"PENDING", "STARTED"},
             NEW st \in {"PENDING", "STARTED"}, NEW l, RowSet(u, Relet(row[u], st, l))
      PROVE  FALSE
  BY <1>2, <1>3, <1>4, RowUpdates
<1>5. ASSUME NEW u \in Task, row[u].status = "none", outcome' = outcome,
             RowSet(u, activityEnqueueParams(dep.tasks[u]))
      PROVE  FALSE
  BY <1>2, <1>3, <1>5
<1>6. ~Tick /\ ~(row' = row /\ outcome' = outcome)
  BY <1>1, TickIs
<1>7. PICK j \in jobs, s \in Server :
         Respond(j, s) /\ Holds(j) /\ (Settles(j) \/ UsesAttempt(j))
  BY <1>1, <1>4, <1>5, <1>6, RowChangesAre DEF RowChanges
<1>8. j.task \in Task /\ row[j.task].status = "STARTED"
  BY <1>1, <1>7 DEF TypeInv, Job, Holds
<1>9. j.task = t
  <2>1. PICK r : RowSet(j.task, r)
    BY <1>7 DEF Settles, UsesAttempt
  <2>2. t # j.task => row'[t] = row[t]
    BY <1>1, <1>8, <2>1, RowSetIs
  <2>3. t # j.task => outcome'[t] = outcome[t]
    BY <1>1, <1>7 DEF TypeInv, Settles, UsesAttempt
  <2> QED
    BY <2>2, <2>3
<1>10. j \notin jobs' /\ j.at = "respond"
  BY <1>7, LeavesIs DEF JobLeaves, Respond
<1>11. ~j.stale
  BY <1>1, <1>7 DEF LeaseInv
<1>12. outcome[t].kind = "none"
  BY <1>1, <1>8, <1>9 DEF SettledInv
<1> QED
  BY <1>8, <1>9, <1>10, <1>11, <1>12

(* Only an execution that still holds its lease uses up an attempt or      *)
(* settles its activity; what is settled stays (CompleteActivityTask,      *)
(* FailActivityTask: the lease token is part of the row's key).            *)
THEOREM OnlyTheHolderCounts == FairSpec => OnlyHolderCounts
<1>1. [][HolderStep]_vars => OnlyHolderCounts
  BY DEF OnlyHolderCounts, HolderStep
<1> QED
  BY <1>1, HolderStepHolds, WorkerInvInit, WorkerInvStep, PTL DEF FairSpec

(* With intervals that are not negative, a retry waits as its policy says  *)
(* as long as the exact product fits a Duration: at most initial *         *)
(* coefficient^(attempt - 1) and at most the maximal interval, and with a  *)
(* coefficient of at least 1 no less than half of that, although the power *)
(* loses its fraction before it is multiplied (FailActivityTask).          *)
THEOREM WaitsArePolicy == IntervalsForward => (FairSpec => []BackoffWithinPolicy)
<1> SUFFICES ASSUME IntervalsForward PROVE FairSpec => []BackoffWithinPolicy
  OBVIOUS
<1>1. Init => PolicyInv
  BY DEF Init, PolicyInv, Task, NoRow
<1>2. WorkerInv /\ PolicyInv /\ [Next]_vars => PolicyInv'
  BY StepsAre, PolicyStep DEF WorkerInv
<1>3. WorkerInv /\ PolicyInv => BackoffWithinPolicy
  BY PolicyFollowed DEF WorkerInv
<1> QED
  BY <1>1, <1>2, <1>3, WorkerInvInit, WorkerInvStep, PTL DEF FairSpec
=============================================================================
