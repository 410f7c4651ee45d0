---------------------------- MODULE BasicLemmas ----------------------------
(***************************************************************************)
(* Facts the proofs of several components need: % and \div for a symbolic  *)
(* modulus, which the SMT backend does not find by itself (the ring        *)
(* indices of LostSession are extended sequence numbers modulo Size, its   *)
(* counter is a uint16_t; Signaling's index and ports are counters that    *)
(* wrap), and what queues of buffers and handles hold after a step.        *)
(***************************************************************************)
EXTENDS Integers, SequenceTheorems, TLAPS

-----------------------------------------------------------------------------
(* Quotients and remainders.                                               *)

(* Quotient and remainder: the defining equation of \div and %, as the C++
   operators / and % have it for the unsigned ring index extSeq % Size. *)
LEMMA DivMod ==
  ASSUME NEW a \in Int, NEW k \in Nat \ {0}
  PROVE  /\ a \div k \in Int
         /\ a % k \in 0..(k - 1)
         /\ a = k * (a \div k) + (a % k)
  OBVIOUS

(* Different multiples of k are at least k apart: two sequence numbers that
   share a slot of a k-slot ring are at least a ring apart. *)
LEMMA MultiplesApart ==
  ASSUME NEW k \in Nat \ {0}, NEW d \in Int, NEW e \in Int, d < e
  PROVE  k * d + k <= k * e
<1>1. PICK m \in Nat : e = d + 1 + m
  <2>1. e - d - 1 \in Nat
    OBVIOUS
  <2> QED BY <2>1
<1>2. k * e = k * d + k + k * m
  BY <1>1
<1>3. k * m >= 0
  OBVIOUS
<1> QED BY <1>2, <1>3

(* Quotient and remainder are unique: a sequence number determines its slot
   and its turn around the ring. *)
LEMMA DivModUnique ==
  ASSUME NEW k \in Nat \ {0}, NEW p \in Int, NEW q \in Int,
         NEW r \in 0..(k - 1), NEW s \in 0..(k - 1), k * p + r = k * q + s
  PROVE  p = q /\ r = s
<1>1. k * p \in Int /\ k * q \in Int
  OBVIOUS
<1>2. CASE p < q
  <2>1. k * p + k <= k * q
    BY <1>2, MultiplesApart
  <2> QED BY <1>1, <2>1
<1>3. CASE q < p
  <2>1. k * q + k <= k * p
    BY <1>3, MultiplesApart
  <2> QED BY <1>1, <2>1
<1>4. CASE p = q
  BY <1>1, <1>4
<1> QED BY <1>2, <1>3, <1>4

(* The quotient of numbers that are not negative is not negative. *)
LEMMA DivNat ==
  ASSUME NEW a \in Nat, NEW k \in Nat \ {0}
  PROVE  a \div k \in Nat
<1> DEFINE q == a \div k
           r == a % k
<1>1. q \in Int /\ r \in 0..(k - 1) /\ a = k * q + r
  BY DivMod
<1> HIDE DEF q, r
<1>2. CASE q < 0
  <2>1. k * q + k <= k * 0
    BY <1>1, <1>2, MultiplesApart
  <2>2. k * 0 = 0 /\ k * q \in Int
    BY <1>1
  <2> QED BY <1>1, <2>1, <2>2
<1> QED BY <1>1, <1>2 DEF q

(* Reduction leaves a number below the modulus alone: a counter that stays
   below 65536 is not changed by being stored in a uint16_t. *)
LEMMA ModSmall ==
  ASSUME NEW a \in Nat, NEW k \in Nat \ {0}, a < k
  PROVE  a % k = a
<1>1. a = k * 0 + a
  OBVIOUS
<1> QED BY <1>1, DivMod, DivModUnique

(* A full turn of the ring comes back to the same slot. *)
LEMMA ModShift ==
  ASSUME NEW n \in Int, NEW k \in Nat \ {0}
  PROVE  (n - k) % k = n % k
<1> DEFINE q == n \div k
           r == n % k
           p == (n - k) \div k
           s == (n - k) % k
<1>1. q \in Int /\ r \in 0..(k - 1) /\ n = k * q + r
  BY DivMod
<1>2. n - k \in Int
  OBVIOUS
<1>3. p \in Int /\ s \in 0..(k - 1) /\ n - k = k * p + s
  BY <1>2, DivMod
<1> HIDE DEF p, q, r, s
<1>4. k * (q - 1) + r = k * p + s
  BY <1>1, <1>3
<1>5. q - 1 \in Int
  BY <1>1
<1>6. r = s
  BY <1>1, <1>3, <1>4, <1>5, DivModUnique
<1> QED BY <1>6 DEF r, s

(* Two numbers less than a ring apart that fall in the same slot are equal. *)
LEMMA ModUnique ==
  ASSUME NEW a \in Int, NEW b \in Int, NEW k \in Nat \ {0},
         a % k = b % k, a <= b, b - a < k
  PROVE  a = b
<1> DEFINE p == a \div k
           q == b \div k
           r == a % k
<1>1. /\ p \in Int /\ q \in Int /\ r \in Int
      /\ a = k * p + r /\ b = k * q + r
  BY DivMod
<1> HIDE DEF p, q, r
<1>2. k * p \in Int /\ k * q \in Int
  BY <1>1
<1>3. CASE p < q
  <2>1. k * p + k <= k * q
    BY <1>1, <1>3, MultiplesApart
  <2> QED BY <1>1, <1>2, <2>1
<1>4. CASE q < p
  <2>1. k * q + k <= k * p
    BY <1>1, <1>4, MultiplesApart
  <2> QED BY <1>1, <1>2, <2>1
<1> QED BY <1>1, <1>3, <1>4

(* A remainder of a remainder, as index % LOOP_NUM of a uint8_t index is. *)
LEMMA ModMod ==
  ASSUME NEW k \in Nat \ {0}, NEW w \in Nat \ {0}, w % k = 0, NEW n \in Nat
  PROVE  (n % w) % k = n % k
<1> DEFINE q == w \div k
           a == n \div w
           r == n % w
           b == r \div k
           s == r % k
           e == n \div k
           f == n % k
<1>1. q \in Int /\ w = k * q
  <2>1. q \in Int /\ w = k * q + (w % k)
    BY DivMod
  <2> QED BY <2>1
<1>2. a \in Int /\ r \in 0..(w - 1) /\ n = w * a + r
  BY DivMod
<1>3. r \in Int
  BY <1>2
<1>4. b \in Int /\ s \in 0..(k - 1) /\ r = k * b + s
  BY <1>3, DivMod
<1>5. e \in Int /\ f \in 0..(k - 1) /\ n = k * e + f
  BY DivMod
<1> HIDE DEF q, a, r, b, s, e, f
<1> DEFINE p == q * a + b
<1>6. p \in Int /\ k * p = k * (q * a) + k * b
  <2>1. q * a \in Int
    BY <1>1, <1>2
  <2> QED BY <1>4, <2>1
<1> HIDE DEF p
<1>7. k * p + s = k * e + f
  <2>1. w * a = k * (q * a) /\ k * (q * a) \in Int /\ k * b \in Int
    BY <1>1, <1>2, <1>4
  <2> QED BY <1>2, <1>4, <1>5, <1>6, <2>1
<1>8. p \in Int /\ e \in Int /\ s \in 0..(k - 1) /\ f \in 0..(k - 1)
  BY <1>4, <1>5, <1>6
<1>9. s = f
  BY <1>7, <1>8, DivModUnique
<1> QED BY <1>9 DEF s, f, r

(* Adding to a remainder, as index ++ does. *)
LEMMA ModPlusOne ==
  ASSUME NEW w \in Nat \ {0}, NEW n \in Nat
  PROVE  ((n % w) + 1) % w = (n + 1) % w
<1> DEFINE a == n \div w
           r == n % w
           b == (r + 1) \div w
           s == (r + 1) % w
           e == (n + 1) \div w
           f == (n + 1) % w
<1>1. a \in Int /\ r \in 0..(w - 1) /\ n = w * a + r
  BY DivMod
<1>2. r + 1 \in Int /\ n + 1 \in Int
  BY <1>1
<1>3. b \in Int /\ s \in 0..(w - 1) /\ r + 1 = w * b + s
  BY <1>2, DivMod
<1>4. e \in Int /\ f \in 0..(w - 1) /\ n + 1 = w * e + f
  BY <1>2, DivMod
<1> HIDE DEF a, r, b, s, e, f
<1> DEFINE p == a + b
<1>5. p \in Int /\ w * p + s = w * e + f
  <2>1. w * p = w * a + w * b /\ w * a \in Int /\ w * b \in Int
    BY <1>1, <1>3
  <2> QED BY <1>1, <1>3, <1>4, <2>1
<1> HIDE DEF p
<1>6. p \in Int /\ e \in Int /\ s \in 0..(w - 1) /\ f \in 0..(w - 1) /\ w * p + s = w * e + f
  BY <1>3, <1>4, <1>5
<1>7. s = f
  BY <1>6, DivModUnique
<1> QED BY <1>7 DEF s, f, r

(* Two numbers have one remainder exactly when they differ by a multiple. *)
LEMMA ModDifference ==
  ASSUME NEW k \in Nat \ {0}, NEW m \in Int, NEW n \in Int
  PROVE  m % k = n % k <=> (m - n) % k = 0
<1> DEFINE a == m \div k
           r == m % k
           b == n \div k
           s == n % k
           e == (m - n) \div k
           f == (m - n) % k
<1>1. m - n \in Int
  OBVIOUS
<1>2. a \in Int /\ r \in 0..(k - 1) /\ m = k * a + r
  BY DivMod
<1>3. b \in Int /\ s \in 0..(k - 1) /\ n = k * b + s
  BY DivMod
<1>4. e \in Int /\ f \in 0..(k - 1) /\ m - n = k * e + f
  BY <1>1, DivMod
<1> HIDE DEF a, r, b, s, e, f
<1> DEFINE p == a - b
           q == b + e
           z == 0
<1>5. /\ p \in Int /\ q \in Int /\ k * p = k * a - k * b /\ k * q = k * b + k * e
      /\ k * a \in Int /\ k * b \in Int /\ k * e \in Int
  BY <1>2, <1>3, <1>4
<1> HIDE DEF p, q
<1>6. /\ a \in Int /\ e \in Int /\ p \in Int /\ q \in Int /\ z = 0
      /\ r \in 0..(k - 1) /\ s \in 0..(k - 1) /\ f \in 0..(k - 1) /\ z \in 0..(k - 1)
  BY <1>2, <1>3, <1>4, <1>5
<1> HIDE DEF z
<1>7. ASSUME r = s PROVE f = z
  <2>1. k * p + z = k * e + f
    BY <1>2, <1>3, <1>4, <1>5, <1>6, <1>7
  <2> QED BY <1>6, <2>1, DivModUnique
<1>8. ASSUME f = z PROVE r = s
  <2>1. k * a + r = k * q + s
    BY <1>2, <1>3, <1>4, <1>5, <1>6, <1>8
  <2> QED BY <1>6, <2>1, DivModUnique
<1> QED BY <1>6, <1>7, <1>8 DEF r, s, f

-----------------------------------------------------------------------------
(* Sequences, and the elements they hold.                                  *)

(* A sequence is indexed by 1 to its length. *)
LEMMA SequenceFacts ==
  ASSUME NEW S, NEW s \in Seq(S)
  PROVE  Len(s) \in Nat /\ \A k \in 1..Len(s) : s[k] \in S
  OBVIOUS

(* A queue gives away its head: the rest holds everything else. *)
LEMMA TailHolds ==
  ASSUME NEW S, NEW s \in Seq(S), s # <<>>
  PROVE  /\ Head(s) \in S /\ Tail(s) \in Seq(S)
         /\ Range(s) = Range(Tail(s)) \cup {Head(s)}
         /\ IsInjective(s) => IsInjective(Tail(s)) /\ Head(s) \notin Range(Tail(s))
<1> DEFINE t == Tail(s)
           n == Len(s)
<1>1. /\ n \in Nat \ {0} /\ DOMAIN s = 1..n /\ Head(s) = s[1] /\ Head(s) \in S
      /\ t \in Seq(S) /\ DOMAIN t = 1..(n - 1) /\ \A i \in 1..(n - 1) : t[i] = s[i + 1]
  OBVIOUS
<1> HIDE DEF t, n
<1>2. Range(s) = Range(t) \cup {s[1]}
  <2>1. ASSUME NEW i \in 1..n PROVE s[i] \in Range(t) \cup {s[1]}
    <3>1. CASE i = 1
      BY <3>1
    <3>2. CASE i # 1
      <4>1. i - 1 \in 1..(n - 1) /\ t[i - 1] = s[i]
        BY <1>1, <3>2
      <4> QED BY <1>1, <4>1 DEF Range
    <3> QED BY <3>1, <3>2
  <2>2. ASSUME NEW i \in 1..(n - 1) PROVE t[i] \in Range(s)
    <3>1. i + 1 \in 1..n /\ t[i] = s[i + 1]
      BY <1>1
    <3> QED BY <1>1, <3>1 DEF Range
  <2>3. s[1] \in Range(s)
    BY <1>1 DEF Range
  <2> QED BY <1>1, <2>1, <2>2, <2>3 DEF Range
<1>3. ASSUME IsInjective(s) PROVE IsInjective(t) /\ s[1] \notin Range(t)
  <2>1. \A i, j \in 1..n : s[i] = s[j] => i = j
    BY <1>1, <1>3 DEF IsInjective
  <2>2. \A i, j \in 1..(n - 1) : t[i] = t[j] => i = j
    BY <1>1, <2>1
  <2>3. \A i \in 1..(n - 1) : t[i] # s[1]
    BY <1>1, <2>1
  <2> QED BY <1>1, <2>2, <2>3 DEF IsInjective, Range
<1> QED BY <1>1, <1>2, <1>3 DEF t

(* An element put at the end of a queue. *)
LEMMA AppendHolds ==
  ASSUME NEW S, NEW s \in Seq(S), NEW e \in S
  PROVE  /\ Append(s, e) \in Seq(S)
         /\ Range(Append(s, e)) = Range(s) \cup {e}
         /\ IsInjective(s) /\ e \notin Range(s) => IsInjective(Append(s, e))
<1> DEFINE t == Append(s, e)
           n == Len(s)
<1>1. /\ n \in Nat /\ DOMAIN s = 1..n /\ t \in Seq(S) /\ DOMAIN t = 1..(n + 1)
      /\ t[n + 1] = e /\ \A i \in 1..n : t[i] = s[i]
  OBVIOUS
<1> HIDE DEF t, n
<1>2. \A i \in 1..(n + 1) : i \in 1..n \/ i = n + 1
  BY <1>1
<1>3. \A i \in 1..n : i \in 1..(n + 1)
  BY <1>1
<1>4. n + 1 \in 1..(n + 1) /\ n + 1 \notin 1..n
  BY <1>1
<1>5. Range(t) = Range(s) \cup {e}
  BY <1>1, <1>2, <1>3, <1>4 DEF Range
<1>6. IsInjective(s) /\ e \notin Range(s) => IsInjective(t)
  BY <1>1, <1>2, <1>3, <1>4 DEF Range, IsInjective
<1> QED BY <1>1, <1>5, <1>6 DEF t

(* The empty queue. *)
LEMMA EmptyHolds ==
  ASSUME NEW S
  PROVE  <<>> \in Seq(S) /\ Range(<<>>) = {} /\ IsInjective(<<>>)
  BY DEF Range, IsInjective

(* A queue behind another holds what both hold. *)
LEMMA ConcatHolds ==
  ASSUME NEW S, NEW s \in Seq(S), NEW t \in Seq(S)
  PROVE  /\ s \o t \in Seq(S)
         /\ \A b : (\E i \in 1..Len(s \o t) : (s \o t)[i] = b) <=> b \in Range(s) \cup Range(t)
<1>1. s \o t \in Seq(S) /\ Range(s \o t) = Range(s) \cup Range(t)
  BY RangeConcatenation, ConcatProperties
<1>2. Range(s \o t) = {(s \o t)[i] : i \in 1..Len(s \o t)}
  BY <1>1, RangeEquality
<1> QED BY <1>1, <1>2

(* Two queues without repetitions and without a common element make one. *)
LEMMA ConcatInjective ==
  ASSUME NEW S, NEW s \in Seq(S), NEW t \in Seq(S), IsInjective(s), IsInjective(t),
         Range(s) \cap Range(t) = {}
  PROVE  /\ s \o t \in Seq(S) /\ IsInjective(s \o t)
         /\ Range(s \o t) = Range(s) \cup Range(t)
<1> DEFINE u == s \o t
           m == Len(s)
           n == Len(t)
<1>1. u \in Seq(S) /\ Range(u) = Range(s) \cup Range(t)
  BY RangeConcatenation, ConcatProperties
<1>2. /\ m \in Nat /\ n \in Nat /\ DOMAIN u = 1..(m + n) /\ DOMAIN s = 1..m /\ DOMAIN t = 1..n
      /\ \A i \in 1..m : u[i] = s[i]
      /\ \A i \in 1..(m + n) : i > m => u[i] = t[i - m]
  OBVIOUS
<1> HIDE DEF u, m, n
<1>3. \A i \in 1..m, j \in 1..n : s[i] # t[j]
  BY <1>2 DEF Range
<1>4. ASSUME NEW i \in 1..(m + n), NEW j \in 1..(m + n), u[i] = u[j] PROVE i = j
  <2>1. CASE i <= m /\ j <= m
    <3>1. i \in 1..m /\ j \in 1..m
      BY <1>2, <2>1
    <3> QED BY <1>2, <1>4, <3>1 DEF IsInjective
  <2>2. CASE i > m /\ j > m
    <3>1. i - m \in 1..n /\ j - m \in 1..n
      BY <1>2, <2>2
    <3>2. i - m = j - m
      <4>1. t[i - m] = t[j - m]
        BY <1>2, <1>4, <2>2
      <4> QED BY <1>2, <3>1, <4>1 DEF IsInjective
    <3> QED BY <1>2, <3>2
  <2>3. CASE i <= m /\ j > m
    <3>1. i \in 1..m /\ j - m \in 1..n
      BY <1>2, <2>3
    <3> QED BY <1>2, <1>3, <1>4, <2>3, <3>1
  <2>4. CASE i > m /\ j <= m
    <3>1. j \in 1..m /\ i - m \in 1..n
      BY <1>2, <2>4
    <3> QED BY <1>2, <1>3, <1>4, <2>4, <3>1
  <2> QED BY <1>2, <2>1, <2>2, <2>3, <2>4
<1> QED BY <1>1, <1>2, <1>4 DEF IsInjective, u

(* A function on 1..n, the bytes of an HMAC or the words of a report, is a
   sequence of length n. *)
LEMMA FunctionIsSequence ==
  ASSUME NEW S, NEW n \in Nat, NEW f \in [1..n -> S]
  PROVE  f \in Seq(S) /\ Len(f) = n
<1>1. f \in Seq(S)
  BY SeqDef
<1>2. Len(f) \in Nat /\ 1..Len(f) = 1..n
  BY <1>1, LenProperties
<1>3. n \in 1..n <=> n \in 1..Len(f)
  BY <1>2
<1>4. Len(f) \in 1..Len(f) <=> Len(f) \in 1..n
  BY <1>2
<1> QED BY <1>1, <1>2, <1>3, <1>4

(* A Serialize method writes one part behind the other. *)
LEMMA Concatenation ==
  ASSUME NEW S, NEW s \in Seq(S), NEW t \in Seq(S)
  PROVE  /\ s \o t \in Seq(S) /\ Len(s \o t) = Len(s) + Len(t)
         /\ \A k \in 1..Len(s) : (s \o t)[k] = s[k]
         /\ \A k \in 1..Len(t) : (s \o t)[Len(s) + k] = t[k]
<1> DEFINE m == Len(s)
           n == Len(t)
           u == s \o t
<1>1. /\ u \in Seq(S) /\ Len(u) = m + n /\ m \in Nat /\ n \in Nat
      /\ \A k \in 1..(m + n) : u[k] = IF k <= m THEN s[k] ELSE t[k - m]
  BY ConcatProperties, LenProperties, Zenon
<1> HIDE DEF m, n, u
<1>2. \A k \in 1..m : k \in 1..(m + n) /\ k <= m
  BY <1>1
<1>3. \A k \in 1..n : m + k \in 1..(m + n) /\ ~(m + k <= m) /\ (m + k) - m = k
  BY <1>1
<1>4. \A k \in 1..m : u[k] = s[k]
  BY <1>1, <1>2
<1>5. \A k \in 1..n : u[m + k] = t[k]
  BY <1>1, <1>3
<1> QED BY <1>1, <1>4, <1>5 DEF m, n, u

=============================================================================
