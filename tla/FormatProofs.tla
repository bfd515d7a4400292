----------------------------- MODULE FormatProofs -----------------------------
(***************************************************************************)
(* Proofs that vsprintf writes what a message means, for every width of    *)
(* the words, every alphabet and every message.                            *)
(*                                                                         *)
(* The invariant, Reading, says at every part of vsprintf how far the      *)
(* message is read: the items in front are written, the format ahead is    *)
(* the spelling of what is left and so are the arguments.  It rests on     *)
(* lemmas about the pieces: what a message spells, that the spelling can   *)
(* be read in one way only, and that each conversion writes what its       *)
(* directive means.                                                        *)
(***************************************************************************)
EXTENDS Format, SequenceTheorems, WellFoundedInduction, TLAPS

-----------------------------------------------------------------------------
(* Numerals: division, powers and places.                                  *)

(* A set that holds every number all smaller numbers of which it holds. *)
LEMMA Induction ==
  ASSUME NEW T, \A n \in Nat : (\A m \in 0..(n - 1) : m \in T) => n \in T
  PROVE  \A n \in Nat : n \in T
<1>. DEFINE Bad == {n \in Nat : n \notin T}
<1>1. SUFFICES ASSUME Bad # {} PROVE FALSE
  OBVIOUS
<1>2. PICK x \in Bad : \A y \in Bad : <<y, x>> \notin OpToRel(<, Nat)
  <2>1. Bad \in SUBSET Nat
    OBVIOUS
  <2>. HIDE DEF Bad
  <2>. QED  BY <1>1, <2>1, NatLessThanWellFounded, WFMin
<1>3. \A y, z \in Nat : y < z => <<y, z>> \in OpToRel(<, Nat)
  BY DEF OpToRel
<1>4. x \in Nat /\ x \notin T
  BY <1>2
<1>5. ASSUME NEW m \in 0..(x - 1) PROVE m \in T
  <2>1. m \in Nat /\ m < x
    BY <1>4
  <2>2. m \notin Bad
    BY <1>2, <1>3, <1>4, <2>1
  <2>. QED  BY <2>1, <2>2
<1>. QED  BY <1>4, <1>5

(* A function on the numbers is there when its first value and the step    *)
(* from each value to the next are given.                                  *)
Grown(f, a, h, k) ==
  f[0] = a /\ \A n \in 0..(k - 1) : f[n + 1] = h[n][f[n]]

StepsIn(h, X) == \A n \in Nat, x \in X : h[n][x] \in X

(* A function defined by its first value and its next one exists. *)
LEMMA Recursion ==
  ASSUME NEW X, NEW a \in X, NEW h, StepsIn(h, X)
  PROVE  \E f \in [Nat -> X] : f[0] = a /\ \A n \in Nat : f[n + 1] = h[n][f[n]]
<1>. DEFINE T == {k \in Nat : \E f \in [0..k -> X] : Grown(f, a, h, k)}
<1>1. \A k \in Nat : k \in T
  <2>1. ASSUME NEW k \in Nat, \A m \in 0..(k - 1) : m \in T
        PROVE  k \in T
    <3>1. CASE k = 0
      <4>1. [n \in 0..0 |-> a] \in [0..0 -> X] /\ Grown([n \in 0..0 |-> a], a, h, 0)
        BY DEF Grown
      <4>. QED  BY <3>1, <4>1
    <3>2. CASE k # 0
      <4>1. k - 1 \in T /\ k - 1 \in Nat
        BY <2>1, <3>2
      <4>2. PICK f \in [0..(k - 1) -> X] : Grown(f, a, h, k - 1)
        BY <4>1
      <4>. DEFINE g == [n \in 0..k |-> IF n = k THEN h[k - 1][f[k - 1]] ELSE f[n]]
      <4>3. g \in [0..k -> X]
        <5>1. f[k - 1] \in X
          BY <4>1
        <5>2. h[k - 1][f[k - 1]] \in X
          BY <4>1, <5>1 DEF StepsIn
        <5>3. \A n \in 0..k : n # k => n \in 0..(k - 1)
          OBVIOUS
        <5>. QED  BY <5>2, <5>3
      <4>4. Grown(g, a, h, k)
        <5>1. g[0] = a
          BY <3>2, <4>2 DEF Grown
        <5>2. ASSUME NEW n \in 0..(k - 1) PROVE g[n + 1] = h[n][g[n]]
          <6>1. g[n] = f[n]
            OBVIOUS
          <6>2. CASE n = k - 1
            BY <6>1, <6>2
          <6>3. CASE n # k - 1
            <7>1. n \in 0..((k - 1) - 1) /\ n + 1 # k /\ n + 1 \in 0..k
              BY <6>3
            <7>2. f[n + 1] = h[n][f[n]]
              BY <4>2, <7>1 DEF Grown
            <7>. QED  BY <6>1, <7>1, <7>2
          <6>. QED  BY <6>2, <6>3
        <5>. QED  BY <5>1, <5>2 DEF Grown
      <4>. HIDE DEF g
      <4>. QED  BY <4>3, <4>4
    <3>. QED  BY <3>1, <3>2
  <2>. HIDE DEF T
  <2>. QED  BY <2>1, Induction
<1>. DEFINE G(k) == CHOOSE f \in [0..k -> X] : Grown(f, a, h, k)
<1>2. \A k \in Nat : G(k) \in [0..k -> X] /\ Grown(G(k), a, h, k)
  BY <1>1
<1>. HIDE DEF G
(* They agree. *)
<1>3. ASSUME NEW k \in Nat PROVE G(k)[k] = G(k + 1)[k]
  <2>. DEFINE S == {n \in Nat : n <= k => G(k)[n] = G(k + 1)[n]}
  <2>1. Grown(G(k), a, h, k) /\ Grown(G(k + 1), a, h, k + 1)
    BY <1>2
  <2>2. ASSUME NEW n \in Nat, \A m \in 0..(n - 1) : m \in S PROVE n \in S
    <3>1. CASE n = 0
      BY <2>1, <3>1 DEF Grown
    <3>2. CASE n # 0 /\ n <= k
      <4>1. n - 1 \in 0..(k - 1) /\ n - 1 \in 0..((k + 1) - 1) /\ (n - 1) + 1 = n
        BY <3>2
      <4>2. G(k)[n] = h[n - 1][G(k)[n - 1]] /\ G(k + 1)[n] = h[n - 1][G(k + 1)[n - 1]]
        BY <2>1, <4>1 DEF Grown
      <4>3. G(k)[n - 1] = G(k + 1)[n - 1]
        BY <2>2, <3>2
      <4>. QED  BY <4>2, <4>3
    <3>. QED  BY <3>1, <3>2
  <2>3. \A n \in Nat : n \in S
    <3>. HIDE DEF S
    <3>. QED  BY <2>2, Induction
  <2>. QED  BY <2>3
<1>. DEFINE F == [k \in Nat |-> G(k)[k]]
<1>4. F \in [Nat -> X]
  <2>1. ASSUME NEW k \in Nat PROVE G(k)[k] \in X
    BY <1>2
  <2>. QED  BY <2>1
<1>5. F[0] = a
  BY <1>2 DEF Grown
<1>6. ASSUME NEW n \in Nat PROVE F[n + 1] = h[n][F[n]]
  <2>1. n \in 0..((n + 1) - 1) /\ n + 1 \in Nat
    OBVIOUS
  <2>2. G(n + 1)[n + 1] = h[n][G(n + 1)[n]]
    BY <1>2, <2>1 DEF Grown
  <2>. QED  BY <1>3, <2>2
<1>. HIDE DEF F
<1>. QED  BY <1>4, <1>5, <1>6

(* Products keep the order. *)
LEMMA TimesMonotone ==
  ASSUME NEW a \in Nat, NEW b \in Nat, NEW c \in Nat, a <= b
  PROVE  a * c \in Nat /\ a * c <= b * c
<1>1. PICK d \in Nat : b = a + d
  <2>1. b - a \in Nat /\ b = a + (b - a)
    OBVIOUS
  <2>. QED  BY <2>1
<1>2. a * c \in Nat /\ d * c \in Nat
  OBVIOUS
<1>3. b * c = a * c + d * c
  BY <1>1
<1>. QED  BY <1>2, <1>3

(* Division with a rest. *)
LEMMA Division ==
  ASSUME NEW n \in Nat, NEW a \in Nat \ {0}
  PROVE  /\ n \div a \in Nat /\ n % a \in 0..(a - 1)
         /\ n = (n \div a) * a + (n % a)
<1>1. n \div a \in Nat /\ n % a \in 0..(a - 1)
  OBVIOUS
<1>2. n = (n \div a) * a + (n % a)
  OBVIOUS
<1>. QED  BY <1>1, <1>2

(* A quotient and a remainder are known by what they make up. *)
LEMMA DivisionIs ==
  ASSUME NEW n \in Nat, NEW a \in Nat \ {0}, NEW q \in Nat, NEW r \in 0..(a - 1), n = q * a + r
  PROVE  n \div a = q /\ n % a = r
<1>. DEFINE p == n \div a
            s == n % a
<1>1. p \in Nat /\ s \in 0..(a - 1) /\ n = p * a + s
  BY Division
<1>. HIDE DEF p, s
<1>2. ~(p < q)
  <2>. SUFFICES ASSUME p < q PROVE FALSE
    OBVIOUS
  <2>1. (p + 1) * a <= q * a
    BY <1>1, TimesMonotone
  <2>2. (p + 1) * a = p * a + a /\ p * a \in Nat /\ q * a \in Nat
    BY <1>1
  <2>. QED  BY <1>1, <2>1, <2>2
<1>3. ~(q < p)
  <2>. SUFFICES ASSUME q < p PROVE FALSE
    OBVIOUS
  <2>1. (q + 1) * a <= p * a
    BY <1>1, TimesMonotone
  <2>2. (q + 1) * a = q * a + a /\ p * a \in Nat /\ q * a \in Nat
    BY <1>1
  <2>. QED  BY <1>1, <2>1, <2>2
<1>4. p = q
  BY <1>1, <1>2, <1>3
<1>5. s = r
  <2>1. p * a = q * a /\ p * a \in Nat
    BY <1>1, <1>4
  <2>. QED  BY <1>1, <2>1
<1>. QED  BY <1>4, <1>5 DEF p, s

(* Dividing twice is dividing by the product. *)
LEMMA DivideTwice ==
  ASSUME NEW n \in Nat, NEW a \in Nat \ {0}, NEW b \in Nat \ {0}
  PROVE  (n \div a) \div b = n \div (a * b)
<1>. DEFINE p == n \div a
            r == n % a
            q == p \div b
            s == p % b
<1>1. p \in Nat /\ r \in 0..(a - 1) /\ n = p * a + r
  BY Division
<1>. HIDE DEF p, r
<1>2. q \in Nat /\ s \in 0..(b - 1) /\ p = q * b + s
  BY <1>1, Division
<1>. HIDE DEF q, s
<1>3. a * b \in Nat \ {0}
  <2>1. 1 * b <= a * b /\ a * b \in Nat
    BY TimesMonotone
  <2>. QED  BY <2>1
<1>4. s * a + r \in 0..(a * b - 1)
  <2>1. (s + 1) * a <= b * a /\ (s + 1) * a = s * a + a
    BY <1>2, TimesMonotone
  <2>2. s * a \in Nat /\ b * a = a * b
    BY <1>2
  <2>. QED  BY <1>1, <1>3, <2>1, <2>2
<1>5. n = q * (a * b) + (s * a + r)
  <2>1. p * a = (q * b) * a + s * a
    BY <1>2
  <2>2. (q * b) * a = q * (a * b) /\ q * (a * b) \in Nat /\ s * a \in Nat
    BY <1>2, <1>3
  <2>. QED  BY <1>1, <2>1, <2>2
<1>6. n \div (a * b) = q
  <2>. DEFINE c == a * b
              t == s * a + r
  <2>1. c \in Nat \ {0} /\ t \in 0..(c - 1) /\ n = q * c + t
    BY <1>3, <1>4, <1>5
  <2>. HIDE DEF c, t
  <2>2. n \div c = q
    BY <1>2, <2>1, DivisionIs
  <2>. QED  BY <2>2 DEF c
<1>. QED  BY <1>6 DEF p, q

(* Power is exponentiation. *)
LEMMA PowerIs ==
  ASSUME NEW base \in Nat \ {0}
  PROVE  /\ Power(base, 0) = 1
         /\ \A k \in Nat : /\ Power(base, k) \in Nat \ {0}
                           /\ Power(base, k + 1) = base * Power(base, k)
<1>. DEFINE X == Nat \ {0}
            h == [n \in Nat |-> [x \in X |-> base * x]]
            p(f) == [n \in Nat |-> IF n = 0 THEN 1 ELSE base * f[n - 1]]
            power == CHOOSE f : f = p(f)
<1>1. \A n \in Nat, x \in X : h[n][x] = base * x /\ base * x \in X
  OBVIOUS
<1>2. PICK f \in [Nat -> X] : f[0] = 1 /\ \A n \in Nat : f[n + 1] = h[n][f[n]]
  <2>. DEFINE one == 1
  <2>1. one \in X /\ StepsIn(h, X)
    BY <1>1 DEF StepsIn
  <2>. HIDE DEF X, h, one
  <2>2. \E f \in [Nat -> X] : f[0] = one /\ \A n \in Nat : f[n + 1] = h[n][f[n]]
    BY ONLY <2>1, Recursion
  <2>. QED  BY ONLY <2>2 DEF one
<1>. HIDE DEF h
<1>3. f = p(f)
  <2>1. ASSUME NEW n \in Nat PROVE f[n] = IF n = 0 THEN 1 ELSE base * f[n - 1]
    <3>1. CASE n = 0
      BY <1>2, <3>1
    <3>2. CASE n # 0
      <4>1. n - 1 \in Nat /\ (n - 1) + 1 = n
        BY <3>2
      <4>2. f[n - 1] \in X
        BY <4>1
      <4>3. f[(n - 1) + 1] = base * f[n - 1]
        BY <1>1, <1>2, <4>1, <4>2
      <4>. QED  BY <3>2, <4>1, <4>3
    <3>. QED  BY <3>1, <3>2
  <2>. QED  BY <2>1
<1>4. power = p(power)
  <2>. HIDE DEF p
  <2>. QED  BY <1>3
<1>5. \A k : Power(base, k) = power[k]
  BY DEF Power
<1>. HIDE DEF power
<1>6. power[0] = 1 /\ \A k \in Nat : power[k + 1] = base * power[k]
  <2>1. power[0] = 1
    BY <1>4
  <2>2. ASSUME NEW k \in Nat PROVE power[k + 1] = base * power[k]
    <3>1. k + 1 \in Nat /\ k + 1 # 0 /\ (k + 1) - 1 = k
      OBVIOUS
    <3>. QED  BY <1>4, <3>1
  <2>. QED  BY <2>1, <2>2
<1>7. \A k \in Nat : power[k] \in X
  <2>. DEFINE T == {k \in Nat : power[k] \in X}
  <2>1. ASSUME NEW k \in Nat, \A m \in 0..(k - 1) : m \in T PROVE k \in T
    <3>1. CASE k = 0
      BY <1>6, <3>1
    <3>2. CASE k # 0
      <4>1. k - 1 \in T /\ k - 1 \in Nat /\ (k - 1) + 1 = k
        BY <2>1, <3>2
      <4>2. power[k - 1] \in X /\ power[k] = base * power[k - 1]
        BY <1>6, <4>1
      <4>. QED  BY <1>1, <4>2
    <3>. QED  BY <3>1, <3>2
  <2>2. \A k \in Nat : k \in T
    <3>. HIDE DEF T
    <3>. QED  BY <2>1, Induction
  <2>. QED  BY <2>2
<1>. QED  BY <1>5, <1>6, <1>7

(* How many digits a number has. *)
PlacesOf(n, base, k) ==
  /\ k \in 1..(n + 1) /\ n < Power(base, k)
  /\ k = 1 \/ n >= Power(base, k - 1)

(* Higher powers are no smaller. *)
LEMMA PowerGrows ==
  ASSUME NEW base \in Nat \ {0}, NEW k \in Nat, NEW l \in Nat, k <= l
  PROVE  Power(base, k) <= Power(base, l)
<1>. DEFINE T == {d \in Nat : Power(base, k) <= Power(base, k + d)}
<1>1. ASSUME NEW d \in Nat, \A m \in 0..(d - 1) : m \in T PROVE d \in T
  <2>1. CASE d = 0
    BY <2>1, PowerIs
  <2>2. CASE d # 0
    <3>1. d - 1 \in T /\ k + (d - 1) \in Nat /\ (k + (d - 1)) + 1 = k + d
      BY <1>1, <2>2
    <3>. DEFINE p == Power(base, k + (d - 1))
    <3>2. p \in Nat /\ Power(base, k + d) = base * p /\ Power(base, k) \in Nat
      BY <3>1, PowerIs
    <3>3. Power(base, k) <= p
      BY <3>1
    <3>. HIDE DEF p
    <3>4. 1 * p <= base * p /\ base * p \in Nat
      BY <3>2, TimesMonotone
    <3>. QED  BY <3>2, <3>3, <3>4
  <2>. QED  BY <2>1, <2>2
<1>2. \A d \in Nat : d \in T
  <2>. HIDE DEF T
  <2>. QED  BY <1>1, Induction
<1>3. l - k \in T /\ k + (l - k) = l
  BY <1>2
<1>. QED  BY <1>3

(* A number has one number of places. *)
LEMMA PlacesUnique ==
  ASSUME NEW n \in Nat, NEW base \in Nat \ {0}, NEW k, NEW l,
         PlacesOf(n, base, k), PlacesOf(n, base, l)
  PROVE  k = l
<1>1. ASSUME NEW x, NEW y, PlacesOf(n, base, x), PlacesOf(n, base, y), x < y
      PROVE  FALSE
  <2>1. x \in Nat /\ y - 1 \in Nat /\ x <= y - 1 /\ n < Power(base, x) /\ n >= Power(base, y - 1)
    BY <1>1 DEF PlacesOf
  <2>2. Power(base, x) <= Power(base, y - 1)
    BY <2>1, PowerGrows
  <2>3. Power(base, x) \in Nat /\ Power(base, y - 1) \in Nat
    BY <2>1, PowerIs
  <2>. QED  BY <2>1, <2>2, <2>3
<1>2. k \in Nat /\ l \in Nat
  BY DEF PlacesOf
<1>3. ~(k < l) /\ ~(l < k)
  BY <1>1
<1>. QED  BY <1>2, <1>3

(* A number that has two digits or more has one more than without its last. *)
LEMMA PlacesNext ==
  ASSUME NEW n \in Nat, NEW base \in Nat, base >= 2, n >= base, NEW k,
         PlacesOf(n \div base, base, k)
  PROVE  PlacesOf(n, base, k + 1)
<1>. DEFINE q == n \div base
            r == n % base
<1>0. base \in Nat \ {0}
  OBVIOUS
<1>1. q \in Nat /\ r \in 0..(base - 1) /\ n = q * base + r
  BY <1>0, Division
<1>2. k \in 1..(q + 1) /\ q < Power(base, k) /\ (k = 1 \/ q >= Power(base, k - 1))
  BY DEF PlacesOf
<1>. HIDE DEF q, r
<1>. DEFINE p == Power(base, k)
<1>3. k \in Nat /\ k >= 1 /\ p \in Nat /\ Power(base, k + 1) = base * p
  BY <1>1, <1>2, PowerIs
<1>4. k + 1 \in 1..(n + 1)
  <2>1. q * 2 <= q * base
    BY <1>1, TimesMonotone
  <2>2. q * base \in Nat
    BY <1>1
  <2>3. q * 2 <= n
    BY <1>1, <2>1, <2>2
  <2>4. q + 1 <= n
    BY <1>1, <2>3
  <2>. QED  BY <1>1, <1>2, <1>3, <2>4
<1>5. n < base * p
  <2>1. q + 1 <= p
    BY <1>1, <1>2, <1>3
  <2>2. (q + 1) * base <= p * base
    BY <1>1, <1>3, <2>1, TimesMonotone
  <2>3. (q + 1) * base = q * base + base /\ p * base = base * p /\ q * base \in Nat
        /\ base * p \in Nat
    BY <1>1, <1>3
  <2>. QED  BY <1>1, <2>2, <2>3
<1>6. n >= p
  <2>1. CASE k = 1
    <3>1. p = base
      <4>1. Power(base, 0 + 1) = base * Power(base, 0) /\ Power(base, 0) = 1
        BY PowerIs
      <4>. QED  BY <2>1, <4>1
    <3>. QED  BY <3>1
  <2>2. CASE k # 1
    <3>. DEFINE o == Power(base, k - 1)
    <3>1. k - 1 \in Nat /\ (k - 1) + 1 = k
      BY <1>3
    <3>2. o \in Nat /\ p = base * o
      BY <3>1, PowerIs
    <3>3. o <= q
      BY <1>1, <1>2, <2>2, <3>2
    <3>. HIDE DEF o, p
    <3>4. o * base <= q * base /\ o * base = p /\ q * base \in Nat
      BY <1>1, <3>2, <3>3, TimesMonotone
    <3>. QED  BY <1>1, <3>2, <3>4
  <2>. QED  BY <2>1, <2>2
<1>7. (k + 1) - 1 = k /\ k + 1 # 1
  BY <1>3
<1>. QED  BY <1>3, <1>4, <1>5, <1>6, <1>7 DEF PlacesOf

(* What is less than the base has one place. *)
LEMMA PlacesFirst ==
  ASSUME NEW n \in Nat, NEW base \in Nat, base >= 2, n < base
  PROVE  PlacesOf(n, base, 1)
<1>1. Power(base, 0 + 1) = base * Power(base, 0) /\ Power(base, 0) = 1
  BY PowerIs
<1>. QED  BY <1>1 DEF PlacesOf

(* Every number has places, and Places finds how many. *)
LEMMA PlacesExist ==
  ASSUME NEW n \in Nat, NEW base \in Nat, base >= 2
  PROVE  /\ PlacesOf(n, base, Places(n, base))
         /\ \A k : PlacesOf(n, base, k) => k = Places(n, base)
<1>0. base \in Nat \ {0}
  OBVIOUS
<1>. DEFINE T == {m \in Nat : \E k : PlacesOf(m, base, k)}
<1>1. ASSUME NEW m \in Nat, \A d \in 0..(m - 1) : d \in T PROVE m \in T
  <2>1. CASE m < base
    BY <2>1, PlacesFirst
  <2>2. CASE m >= base
    <3>1. m \div base \in T
      <4>. DEFINE q == m \div base
      <4>1. q \in Nat /\ m % base \in 0..(base - 1) /\ m = q * base + (m % base)
        BY <1>0, Division
      <4>. HIDE DEF q
      <4>2. q * 2 <= q * base /\ q * base \in Nat
        BY <4>1, TimesMonotone
      <4>3. q \in 0..(m - 1)
        BY <2>2, <4>1, <4>2
      <4>. QED  BY <1>1, <4>3 DEF q
    <3>. QED  BY <2>2, <3>1, PlacesNext
  <2>. QED  BY <2>1, <2>2
<1>2. \A m \in Nat : m \in T
  <2>. HIDE DEF T
  <2>. QED  BY <1>1, Induction
<1>3. \E k \in 1..(n + 1) : n < Power(base, k) /\ (k = 1 \/ n >= Power(base, k - 1))
  BY <1>2 DEF PlacesOf
<1>4. PlacesOf(n, base, Places(n, base))
  BY <1>3 DEF PlacesOf, Places
<1>. QED  BY <1>4, PlacesUnique

(* The digits of a number, the lowest first. *)
Backwards(n, base) == [j \in 1..Places(n, base) |-> (n \div Power(base, j - 1)) % base]

(* A numeral read backwards begins with the remainder and goes on with the *)
(* quotient's.                                                             *)
LEMMA BackwardsIs ==
  ASSUME NEW n \in Nat, NEW base \in Nat, base >= 2
  PROVE  /\ Places(n, base) \in Nat \ {0}
         /\ Backwards(n, base) \in Seq(0..(base - 1))
         /\ Len(Backwards(n, base)) = Places(n, base)
         /\ n < base => Backwards(n, base) = <<n>>
         /\ n >= base => Backwards(n, base) = <<n % base>> \o Backwards(n \div base, base)
<1>. DEFINE D(m) == Backwards(m, base)
<1>0. base \in Nat \ {0}
  OBVIOUS
<1>1. ASSUME NEW m \in Nat
      PROVE  /\ Places(m, base) \in Nat \ {0} /\ D(m) \in Seq(0..(base - 1))
             /\ Len(D(m)) = Places(m, base)
             /\ \A j \in 1..Places(m, base) : D(m)[j] = (m \div Power(base, j - 1)) % base
  <2>1. Places(m, base) \in Nat \ {0}
    BY PlacesExist DEF PlacesOf
  <2>2. ASSUME NEW j \in 1..Places(m, base)
        PROVE  (m \div Power(base, j - 1)) % base \in 0..(base - 1)
    <3>1. Power(base, j - 1) \in Nat \ {0}
      <4>1. j - 1 \in Nat
        BY <2>1
      <4>. QED  BY <1>0, <4>1, PowerIs
    <3>2. m \div Power(base, j - 1) \in Nat
      BY <3>1, Division
    <3>. QED  BY <1>0, <3>2, Division
  <2>. QED  BY <2>1, <2>2 DEF Backwards
<1>. HIDE DEF D
<1>2. ASSUME n < base PROVE D(n) = <<n>>
  <2>1. Places(n, base) = 1
    BY <1>2, PlacesFirst, PlacesExist
  <2>2. (n \div Power(base, 1 - 1)) % base = n
    <3>1. Power(base, 0) = 1
      BY <1>0, PowerIs
    <3>2. n \div 1 = n /\ n % base = n
      <4>1. n = n * 1 + 0 /\ n = 0 * base + n
        OBVIOUS
      <4>. QED  BY <1>0, <1>2, <4>1, DivisionIs
    <3>. QED  BY <3>1, <3>2
  <2>. QED  BY <2>1, <2>2 DEF Backwards, D
<1>3. ASSUME n >= base PROVE D(n) = <<n % base>> \o D(n \div base)
  <2>. DEFINE q == n \div base
              r == n % base
  <2>1. q \in Nat /\ r \in 0..(base - 1)
    BY <1>0, Division
  <2>. DEFINE e == <<r>> \o D(q)
  <2>2. Places(n, base) = Places(q, base) + 1
    <3>1. PlacesOf(q, base, Places(q, base))
      BY <2>1, PlacesExist
    <3>2. PlacesOf(n, base, Places(q, base) + 1)
      BY <1>3, <3>1, PlacesNext
    <3>. QED  BY <3>2, PlacesExist
  <2>. HIDE DEF q, r
  <2>3. /\ D(n) \in Seq(0..(base - 1)) /\ D(q) \in Seq(0..(base - 1))
        /\ <<r>> \in Seq(0..(base - 1)) /\ Len(<<r>>) = 1 /\ <<r>>[1] = r
    BY <1>1, <2>1
  <2>4. /\ e \in Seq(0..(base - 1)) /\ Len(e) = 1 + Len(D(q))
        /\ \A j \in 1..(1 + Len(D(q))) :
             e[j] = IF j <= 1 THEN <<r>>[j] ELSE D(q)[j - 1]
    <3>. DEFINE S == 0..(base - 1)
                a == <<r>>
                b == D(q)
    <3>1. a \in Seq(S) /\ b \in Seq(S) /\ Len(a) = 1
      BY <2>3
    <3>. HIDE DEF S, a, b
    <3>2. /\ a \o b \in Seq(S) /\ Len(a \o b) = Len(a) + Len(b)
          /\ \A j \in 1..(Len(a) + Len(b)) :
               (a \o b)[j] = IF j <= Len(a) THEN a[j] ELSE b[j - Len(a)]
      BY ONLY <3>1, ConcatProperties
    <3>3. /\ a \o b \in Seq(S) /\ Len(a \o b) = 1 + Len(b)
          /\ \A j \in 1..(1 + Len(b)) : (a \o b)[j] = IF j <= 1 THEN a[j] ELSE b[j - 1]
      BY ONLY <3>1, <3>2
    <3>. QED  BY <3>3 DEF S, a, b
  <2>5. Len(D(n)) = Len(e)
    <3>1. Len(D(n)) = Places(n, base) /\ Len(D(q)) = Places(q, base) /\ Places(q, base) \in Nat
      BY <1>1, <2>1
    <3>. QED  BY <2>2, <2>4, <3>1
  <2>6. ASSUME NEW j \in 1..Len(D(n)) PROVE D(n)[j] = e[j]
    <3>1. j \in 1..Places(n, base) /\ D(n)[j] = (n \div Power(base, j - 1)) % base
      BY <1>1
    <3>2. CASE j = 1
      <4>1. n \div Power(base, 0) = n
        <5>1. Power(base, 0) = 1 /\ n = n * 1 + 0
          BY <1>0, PowerIs
        <5>. QED  BY <5>1, DivisionIs
      <4>2. j - 1 = 0 /\ e[j] = r
        <5>. HIDE DEF e
        <5>1. j \in 1..(1 + Len(D(q)))
          BY <2>4, <2>5
        <5>2. e[j] = <<r>>[1]
          BY <2>4, <3>2, <5>1
        <5>. QED  BY <2>3, <3>2, <5>2
      <4>. QED  BY <3>1, <3>2, <4>1, <4>2 DEF r
    <3>3. CASE j # 1
      <4>1. j - 2 \in Nat /\ (j - 2) + 1 = j - 1 /\ j - 1 \in 1..Places(q, base)
        <5>1. Places(q, base) \in Nat
          BY <1>1, <2>1
        <5>2. j \in 1..(Places(q, base) + 1) /\ j # 1
          BY <2>2, <3>1, <3>3
        <5>. QED  BY ONLY <5>1, <5>2
      <4>2. e[j] = D(q)[j - 1]
        BY <2>4, <2>5, <3>3
      <4>3. D(q)[j - 1] = (q \div Power(base, (j - 1) - 1)) % base
        BY <1>1, <2>1, <4>1
      <4>4. (j - 1) - 1 = j - 2
        BY <4>1
      <4>5. Power(base, j - 1) = base * Power(base, j - 2) /\ Power(base, j - 2) \in Nat \ {0}
        BY <1>0, <4>1, PowerIs
      <4>6. (n \div base) \div Power(base, j - 2) = n \div (base * Power(base, j - 2))
        BY <1>0, <4>5, DivideTwice
      <4>. QED  BY <3>1, <4>2, <4>3, <4>4, <4>5, <4>6 DEF q
    <3>. QED  BY <3>2, <3>3
  <2>. HIDE DEF e
  <2>7. D(n) = e
    BY <2>3, <2>4, <2>5, <2>6, SeqEqual
  <2>. QED  BY <2>7 DEF e, q, r
<1>. QED  BY <1>1, <1>2, <1>3 DEF D

(* number: the repeated division yields the digits of the numeral, the     *)
(* lowest first.                                                           *)
THEOREM DigitsAre ==
  ASSUME NEW n \in Nat, NEW base \in Nat, base >= 2
  PROVE  Digits(n, base) = Backwards(n, base)
<1>. DEFINE p(f) == [m \in Nat |-> IF m < base THEN <<m>> ELSE <<m % base>> \o f[m \div base]]
            tmp == CHOOSE f : f = p(f)
            B == [m \in Nat |-> Backwards(m, base)]
<1>0. base \in Nat \ {0}
  OBVIOUS
<1>1. ASSUME NEW m \in Nat
      PROVE  m \div base \in Nat /\ (m >= base => m \div base < m)
  <2>. DEFINE q == m \div base
  <2>1. q \in Nat /\ m % base \in 0..(base - 1) /\ m = q * base + (m % base)
    BY <1>0, Division
  <2>. HIDE DEF q
  <2>2. q * 2 <= q * base /\ q * base \in Nat
    BY <2>1, TimesMonotone
  <2>3. m >= base => q < m
    BY <2>1, <2>2
  <2>. QED  BY <2>1, <2>3 DEF q
<1>2. B = p(B)
  <2>1. ASSUME NEW m \in Nat
        PROVE  B[m] = IF m < base THEN <<m>> ELSE <<m % base>> \o B[m \div base]
    <3>1. B[m] = Backwards(m, base) /\ B[m \div base] = Backwards(m \div base, base)
      BY <1>1
    <3>2. /\ m < base => Backwards(m, base) = <<m>>
          /\ m >= base => Backwards(m, base) = <<m % base>> \o Backwards(m \div base, base)
      BY BackwardsIs
    <3>3. m < base \/ m >= base
      OBVIOUS
    <3>. HIDE DEF B
    <3>. QED  BY <3>1, <3>2, <3>3
  <2>. QED  BY <2>1
<1>3. tmp = p(tmp)
  <2>. HIDE DEF p, B
  <2>. QED  BY <1>2
<1>4. Digits(n, base) = tmp[n]
  BY DEF Digits
<1>. HIDE DEF tmp
<1>. DEFINE T == {m \in Nat : tmp[m] = Backwards(m, base)}
<1>5. ASSUME NEW m \in Nat, \A d \in 0..(m - 1) : d \in T PROVE m \in T
  <2>1. tmp[m] = IF m < base THEN <<m>> ELSE <<m % base>> \o tmp[m \div base]
    BY <1>3
  <2>2. CASE m < base
    BY <2>1, <2>2, BackwardsIs
  <2>3. CASE m >= base
    <3>1. m \div base \in 0..(m - 1)
      BY <1>1, <2>3
    <3>2. tmp[m \div base] = Backwards(m \div base, base)
      BY <1>5, <3>1
    <3>3. ~(m < base)
      BY <2>3
    <3>. QED  BY <2>1, <2>3, <3>2, <3>3, BackwardsIs
  <2>. QED  BY <2>2, <2>3
<1>6. \A m \in Nat : m \in T
  <2>. HIDE DEF T
  <2>. QED  BY <1>5, Induction
<1>. QED  BY <1>4, <1>6

(* The tables of the digits, place by place. *)
LEMMA LowerTable ==
  /\ LowerDigits[1] = "0" /\ LowerDigits[2] = "1" /\ LowerDigits[3] = "2" /\ LowerDigits[4] = "3"
  /\ LowerDigits[5] = "4" /\ LowerDigits[6] = "5" /\ LowerDigits[7] = "6" /\ LowerDigits[8] = "7"
  /\ LowerDigits[9] = "8" /\ LowerDigits[10] = "9" /\ LowerDigits[11] = "a" /\ LowerDigits[12] = "b"
  /\ LowerDigits[13] = "c" /\ LowerDigits[14] = "d" /\ LowerDigits[15] = "e" /\ LowerDigits[16] = "f"
BY DEF LowerDigits

(* The capital digits one by one. *)
LEMMA UpperTable ==
  /\ UpperDigits[1] = "0" /\ UpperDigits[2] = "1" /\ UpperDigits[3] = "2" /\ UpperDigits[4] = "3"
  /\ UpperDigits[5] = "4" /\ UpperDigits[6] = "5" /\ UpperDigits[7] = "6" /\ UpperDigits[8] = "7"
  /\ UpperDigits[9] = "8" /\ UpperDigits[10] = "9" /\ UpperDigits[11] = "A" /\ UpperDigits[12] = "B"
  /\ UpperDigits[13] = "C" /\ UpperDigits[14] = "D" /\ UpperDigits[15] = "E" /\ UpperDigits[16] = "F"
BY DEF UpperDigits

(* The characters with a meaning, one by one. *)
LEMMA Meanings ==
  /\ "0" \in Character /\ "1" \in Character /\ "2" \in Character /\ "3" \in Character
  /\ "4" \in Character /\ "5" \in Character /\ "6" \in Character /\ "7" \in Character
  /\ "8" \in Character /\ "9" \in Character /\ "a" \in Character /\ "b" \in Character
  /\ "c" \in Character /\ "d" \in Character /\ "e" \in Character /\ "f" \in Character
  /\ "A" \in Character /\ "B" \in Character /\ "C" \in Character /\ "D" \in Character
  /\ "E" \in Character /\ "F" \in Character /\ "-" \in Character /\ "+" \in Character
  /\ " " \in Character /\ "#" \in Character /\ "%" \in Character /\ "*" \in Character
  /\ "." \in Character /\ ":" \in Character /\ "<" \in Character /\ ">" \in Character
  /\ "h" \in Character /\ "l" \in Character /\ "L" \in Character /\ "x" \in Character
  /\ "X" \in Character /\ "N" \in Character /\ "U" \in Character
<1>1. "0" \in Character /\ "1" \in Character /\ "2" \in Character /\ "3" \in Character
  BY CharacterAssumption, ZenonT(60)
<1>2. "4" \in Character /\ "5" \in Character /\ "6" \in Character /\ "7" \in Character
  BY CharacterAssumption, ZenonT(60)
<1>3. "8" \in Character /\ "9" \in Character /\ "a" \in Character /\ "b" \in Character
  BY CharacterAssumption, ZenonT(60)
<1>4. "c" \in Character /\ "d" \in Character /\ "e" \in Character /\ "f" \in Character
  BY CharacterAssumption, ZenonT(60)
<1>5. "A" \in Character /\ "B" \in Character /\ "C" \in Character /\ "D" \in Character
  BY CharacterAssumption, ZenonT(60)
<1>6. "E" \in Character /\ "F" \in Character /\ "-" \in Character /\ "+" \in Character
  BY CharacterAssumption, ZenonT(60)
<1>7. " " \in Character /\ "#" \in Character /\ "%" \in Character /\ "*" \in Character
  BY CharacterAssumption, ZenonT(60)
<1>8. "." \in Character /\ ":" \in Character /\ "<" \in Character /\ ">" \in Character
  BY CharacterAssumption, ZenonT(60)
<1>9. "h" \in Character /\ "l" \in Character /\ "L" \in Character /\ "x" \in Character
  BY CharacterAssumption, ZenonT(60)
<1>10. "X" \in Character /\ "N" \in Character /\ "U" \in Character
  BY CharacterAssumption, ZenonT(60)
<1>. QED  BY <1>1, <1>2, <1>3, <1>4, <1>5, <1>6, <1>7, <1>8, <1>9, <1>10

(* Digits are characters. *)
LEMMA DigitIsCharacter ==
  ASSUME NEW d \in 0..15, NEW large \in BOOLEAN
  PROVE  DigitOf(d, large) \in Character
<1>1. d \in {0, 1, 2, 3, 4, 5, 6, 7, 8, 9, 10, 11, 12, 13, 14, 15}
  OBVIOUS
<1>2. LowerDigits[d + 1] \in {"0", "1", "2", "3", "4", "5", "6", "7", "8", "9",
                             "a", "b", "c", "d", "e", "f"}
  BY <1>1, LowerTable
<1>3. UpperDigits[d + 1] \in {"0", "1", "2", "3", "4", "5", "6", "7", "8", "9",
                             "A", "B", "C", "D", "E", "F"}
  BY <1>1, UpperTable
<1>4. LowerDigits[d + 1] \in Character
  BY <1>2, Meanings
<1>5. UpperDigits[d + 1] \in Character
  BY <1>3, Meanings
<1>. QED  BY <1>4, <1>5 DEF DigitOf

(* The digits number writes are the numeral. *)
LEMMA NumeralIs ==
  ASSUME NEW n \in Nat, NEW base \in Nat, base >= 2, base <= 16, NEW large \in BOOLEAN
  PROVE  LET tmp == Digits(n, base)
             num == [k \in 1..Len(tmp) |-> DigitOf(tmp[Len(tmp) + 1 - k], large)]
         IN  /\ num = Numeral(n, base, large)
             /\ num \in Seq(Character) /\ Len(num) = Len(tmp) /\ Len(tmp) \in Nat \ {0}
<1>. DEFINE tmp == Digits(n, base)
            num == [k \in 1..Len(tmp) |-> DigitOf(tmp[Len(tmp) + 1 - k], large)]
            P == Places(n, base)
<1>1. /\ tmp = Backwards(n, base) /\ P \in Nat \ {0} /\ tmp \in Seq(0..(base - 1))
      /\ Len(tmp) = P
  BY DigitsAre, BackwardsIs
<1>2. num = Numeral(n, base, large)
  <2>1. ASSUME NEW k \in 1..P PROVE tmp[P + 1 - k] = (n \div Power(base, P - k)) % base
    <3>1. P + 1 - k \in 1..P /\ (P + 1 - k) - 1 = P - k
      BY <1>1
    <3>2. Backwards(n, base)[P + 1 - k] = (n \div Power(base, (P + 1 - k) - 1)) % base
      BY <3>1 DEF Backwards
    <3>. QED  BY <1>1, <3>1, <3>2
  <2>. HIDE DEF tmp, P
  <2>. QED  BY <1>1, <2>1 DEF Numeral, P
<1>3. ASSUME NEW k \in 1..P PROVE DigitOf(tmp[P + 1 - k], large) \in Character
  <2>1. P + 1 - k \in 1..P
    BY <1>1
  <2>2. tmp[P + 1 - k] \in 0..15
    <3>. HIDE DEF tmp, P
    <3>1. tmp[P + 1 - k] \in 0..(base - 1)
      BY <1>1, <2>1
    <3>. QED  BY <3>1
  <2>. HIDE DEF tmp, P
  <2>3. \A d \in 0..15 : DigitOf(d, large) \in Character
    BY DigitIsCharacter
  <2>. QED  BY <2>2, <2>3
<1>. HIDE DEF tmp, P
<1>4. num \in Seq(Character) /\ Len(num) = Len(tmp)
  BY <1>1, <1>3
<1>. QED  BY <1>1, <1>2, <1>4 DEF tmp

-----------------------------------------------------------------------------
(* Messages: their spelling, arguments and meaning, item by item.          *)

(* What FlattenSeq makes of the first pieces, by their number. *)
Flat(F, E, S) ==
  /\ F \in [Nat -> Seq(E)] /\ F[0] = <<>>
  /\ \A n \in 0..(Len(S) - 1) : F[n + 1] = F[n] \o S[n + 1]
  /\ \A n \in 0..Len(S) : FlattenSeq(SubSeq(S, 1, n)) = F[n]

(* The function FlattenSeq chooses exists. *)
LEMMA FlattenIs ==
  ASSUME NEW E, NEW S, S \in Seq(Seq(E))
  PROVE  \E F : Flat(F, E, S)
<1>. DEFINE X == Seq(E)
            piece(n) == IF n <= Len(S) THEN S[n] ELSE <<>>
            h == [n \in Nat |-> [x \in X |-> x \o piece(n + 1)]]
<1>0. Len(S) \in Nat /\ \A n \in 1..Len(S) : S[n] \in X
  OBVIOUS
<1>1. ASSUME NEW n \in Nat, NEW x \in X PROVE h[n][x] = x \o piece(n + 1) /\ h[n][x] \in X
  <2>1. piece(n + 1) \in X
    BY <1>0
  <2>2. x \o piece(n + 1) \in X
    <3>. HIDE DEF piece
    <3>. QED  BY <2>1, ConcatProperties
  <2>. QED  BY <2>2
<1>2. PICK F \in [Nat -> X] : F[0] = <<>> /\ \A n \in Nat : F[n + 1] = h[n][F[n]]
  <2>. DEFINE e == <<>>
  <2>1. e \in X /\ e = <<>> /\ StepsIn(h, X)
    BY <1>1 DEF StepsIn
  <2>. HIDE DEF X, h, e
  <2>2. \E F \in [Nat -> X] : F[0] = e /\ \A n \in Nat : F[n + 1] = h[n][F[n]]
    BY ONLY <2>1, Recursion
  <2>. QED  BY <2>1, <2>2
<1>3. ASSUME NEW n \in 0..(Len(S) - 1) PROVE F[n + 1] = F[n] \o S[n + 1]
  <2>1. n \in Nat /\ n + 1 <= Len(S) /\ F[n] \in X
    BY <1>0, <1>2
  <2>2. F[n + 1] = F[n] \o piece(n + 1)
    <3>. HIDE DEF h, piece
    <3>. QED  BY <1>1, <1>2, <2>1
  <2>. QED  BY <2>1, <2>2
<1>. HIDE DEF h, X
<1>4. ASSUME NEW n \in 0..Len(S) PROVE FlattenSeq(SubSeq(S, 1, n)) = F[n]
  <2>1. CASE n = 0
    <3>1. SubSeq(S, 1, n) = <<>>
      BY <2>1, SubSeqEmpty
    <3>. QED  BY <1>2, <2>1, <3>1 DEF FlattenSeq
  <2>2. CASE n # 0
    <3>. DEFINE P == SubSeq(S, 1, n)
                p(f) == [k \in 1..Len(P) |-> IF k = 1 THEN P[k] ELSE f[k - 1] \o P[k]]
                flatten == CHOOSE f : f = p(f)
                R == [k \in 1..n |-> F[k]]
    <3>1. Len(P) = n /\ n \in Nat /\ \A k \in 1..n : P[k] = S[k]
      BY <1>0
    <3>2. FlattenSeq(P) = flatten[n]
      <4>1. Len(P) # 0
        BY <2>2, <3>1
      <4>2. FlattenSeq(P) = flatten[Len(P)]
        BY <4>1 DEF FlattenSeq
      <4>. QED  BY <3>1, <4>2
    <3>. HIDE DEF P
    <3>3. R = p(R)
      <4>1. ASSUME NEW k \in 1..n PROVE R[k] = IF k = 1 THEN P[k] ELSE R[k - 1] \o P[k]
        <5>1. k - 1 \in 0..(Len(S) - 1) /\ (k - 1) + 1 = k
          BY <1>0
        <5>2. F[k] = F[k - 1] \o S[k]
          BY <1>3, <5>1
        <5>3. CASE k = 1
          <6>1. S[1] \in Seq(E) /\ F[0] = <<>>
            BY <1>0, <1>2, <5>3 DEF X
          <6>2. <<>> \o S[1] = S[1]
            BY <6>1, ConcatEmptySeq
          <6>3. F[k] = S[1] /\ P[k] = S[1]
            BY <3>1, <5>2, <5>3, <6>1, <6>2
          <6>. QED  BY <5>3, <6>3
        <5>4. CASE k # 1
          <6>1. k - 1 \in 1..n
            BY <5>4
          <6>. QED  BY <3>1, <5>2, <5>4, <6>1
        <5>. QED  BY <5>3, <5>4
      <4>. QED  BY <3>1, <4>1
    <3>4. flatten = p(flatten)
      <4>. HIDE DEF p, R
      <4>. QED  BY <3>3
    <3>. HIDE DEF flatten
    <3>. DEFINE T == {k \in Nat : k \in 1..n => flatten[k] = F[k]}
    <3>5. ASSUME NEW k \in Nat, \A m \in 0..(k - 1) : m \in T PROVE k \in T
      <4>. SUFFICES ASSUME k \in 1..n PROVE flatten[k] = F[k]
        OBVIOUS
      <4>1. flatten[k] = IF k = 1 THEN P[k] ELSE flatten[k - 1] \o P[k]
        BY <3>1, <3>4
      <4>2. R[k] = IF k = 1 THEN P[k] ELSE R[k - 1] \o P[k]
        <5>. HIDE DEF R
        <5>. QED  BY <3>1, <3>3
      <4>3. R[k] = F[k]
        OBVIOUS
      <4>4. k # 1 => flatten[k - 1] = F[k - 1] /\ R[k - 1] = F[k - 1]
        BY <3>5
      <4>. HIDE DEF R
      <4>. QED  BY <4>1, <4>2, <4>3, <4>4
    <3>6. \A k \in Nat : k \in T
      <4>. HIDE DEF T
      <4>. QED  BY <3>5, Induction
    <3>7. flatten[n] = F[n]
      BY <2>2, <3>1, <3>6
    <3>. QED  BY <3>2, <3>7 DEF P
  <2>. QED  BY <2>1, <2>2
<1>5. F \in [Nat -> Seq(E)]
  BY <1>2 DEF X
<1>. QED  BY <1>2, <1>3, <1>4, <1>5 DEF Flat

(* No pieces join to nothing. *)
LEMMA FlattenEmpty == FlattenSeq(<<>>) = <<>>
BY DEF FlattenSeq

(* One piece more behind. *)
LEMMA FlattenNext ==
  ASSUME NEW E, NEW S, S \in Seq(Seq(E)), NEW n \in 1..Len(S)
  PROVE  /\ FlattenSeq(SubSeq(S, 1, n)) = FlattenSeq(SubSeq(S, 1, n - 1)) \o S[n]
         /\ FlattenSeq(SubSeq(S, 1, n - 1)) \in Seq(E) /\ S[n] \in Seq(E)
<1>1. PICK F : Flat(F, E, S)
  BY FlattenIs
<1>2. n - 1 \in 0..(Len(S) - 1) /\ (n - 1) + 1 = n /\ n - 1 \in 0..Len(S) /\ n \in 0..Len(S)
      /\ n - 1 \in Nat
  OBVIOUS
<1>3. F[n] = F[n - 1] \o S[n] /\ F[n - 1] \in Seq(E)
  BY <1>1, <1>2 DEF Flat
<1>4. FlattenSeq(SubSeq(S, 1, n)) = F[n] /\ FlattenSeq(SubSeq(S, 1, n - 1)) = F[n - 1]
  BY <1>1, <1>2 DEF Flat
<1>5. S[n] \in Seq(E)
  OBVIOUS
<1>. QED  BY <1>3, <1>4, <1>5

(* Joined pieces are a sequence of the same elements. *)
LEMMA FlattenIsSeq ==
  ASSUME NEW E, NEW S, S \in Seq(Seq(E))
  PROVE  FlattenSeq(S) \in Seq(E)
<1>1. PICK F : Flat(F, E, S)
  BY FlattenIs
<1>2. Len(S) \in Nat /\ SubSeq(S, 1, Len(S)) = S /\ Len(S) \in 0..Len(S)
  BY SubSeqFull
<1>. QED  BY <1>1, <1>2 DEF Flat

(* One piece less in front. *)
LEMMA FlattenFirst ==
  ASSUME NEW E, NEW S, S \in Seq(Seq(E)), S # <<>>
  PROVE  /\ FlattenSeq(S) = S[1] \o FlattenSeq(Tail(S))
         /\ FlattenSeq(Tail(S)) \in Seq(E) /\ S[1] \in Seq(E)
<1>. DEFINE Z == Tail(S)
            N == Len(Z)
            s == S[1]
<1>1. /\ Z \in Seq(Seq(E)) /\ N \in Nat /\ Len(S) = N + 1 /\ s \in Seq(E)
      /\ \A k \in 1..N : Z[k] = S[k + 1]
      /\ N = Len(Z)
  BY HeadTailProperties
<1>. HIDE DEF Z, s, N
<1>2. PICK F : Flat(F, E, S)
  BY FlattenIs
<1>3. PICK G : Flat(G, E, Z)
  BY <1>1, FlattenIs
<1>. DEFINE T == {k \in Nat : k <= N => F[k + 1] = s \o G[k]}
<1>4. ASSUME NEW k \in Nat, \A m \in 0..(k - 1) : m \in T PROVE k \in T
  <2>. SUFFICES ASSUME k <= N PROVE F[k + 1] = s \o G[k]
    OBVIOUS
  <2>1. k \in 0..(Len(S) - 1)
    BY <1>1
  <2>2. F[k + 1] = F[k] \o S[k + 1]
    BY <1>2, <2>1 DEF Flat
  <2>3. CASE k = 0
    <3>1. F[0] = <<>> /\ G[0] = <<>>
      BY <1>2, <1>3 DEF Flat
    <3>2. <<>> \o s = s /\ s \o <<>> = s
      BY <1>1, ConcatEmptySeq
    <3>. QED  BY <2>2, <2>3, <3>1, <3>2 DEF s
  <2>4. CASE k # 0
    <3>1. k - 1 \in 0..(Len(Z) - 1) /\ (k - 1) + 1 = k /\ k - 1 <= N /\ k - 1 \in Nat
          /\ k \in 1..N /\ k - 1 \in 0..(k - 1)
      BY <1>1, <2>4
    <3>2. F[k] = s \o G[k - 1]
      <4>1. k - 1 \in T
        BY <1>4, <3>1
      <4>. QED  BY <3>1, <4>1
    <3>3. G[k] = G[k - 1] \o Z[k] /\ Z[k] = S[k + 1] /\ G[k - 1] \in Seq(E)
      <4>1. G[(k - 1) + 1] = G[k - 1] \o Z[(k - 1) + 1] /\ G[k - 1] \in Seq(E)
        <5>. DEFINE j == k - 1
        <5>1. j \in 0..(Len(Z) - 1) /\ j \in Nat
          BY <3>1
        <5>. HIDE DEF j
        <5>2. G[j + 1] = G[j] \o Z[j + 1] /\ G[j] \in Seq(E)
          BY <1>3, <5>1 DEF Flat
        <5>. QED  BY <5>2 DEF j
      <4>. QED  BY <1>1, <2>4, <3>1, <4>1
    <3>4. Z[k] \in Seq(E)
      BY <1>1, <3>1
    <3>5. (s \o G[k - 1]) \o Z[k] = s \o (G[k - 1] \o Z[k])
      <4>. DEFINE g == G[k - 1]
                  z == Z[k]
      <4>1. g \in Seq(E) /\ z \in Seq(E) /\ s \in Seq(E)
        BY <1>1, <3>3, <3>4
      <4>. HIDE DEF g, z
      <4>2. (s \o g) \o z = s \o (g \o z)
        BY ONLY <4>1, ConcatAssociative, SMTT(30)
      <4>. QED  BY <4>2 DEF g, z
    <3>. QED  BY <2>2, <3>2, <3>3, <3>5
  <2>. QED  BY <2>3, <2>4
<1>5. \A k \in Nat : k \in T
  <2>. HIDE DEF T
  <2>. QED  BY <1>4, Induction
<1>6. F[N + 1] = s \o G[N]
  BY <1>1, <1>5
<1>7. FlattenSeq(S) = F[N + 1]
  <2>1. SubSeq(S, 1, N + 1) = S /\ N + 1 \in 0..Len(S)
    BY <1>1, SubSeqFull
  <2>. QED  BY <1>2, <2>1 DEF Flat
<1>8. FlattenSeq(Z) = G[N] /\ G[N] \in Seq(E)
  <2>1. SubSeq(Z, 1, N) = Z /\ N \in 0..Len(Z)
    BY <1>1, SubSeqFull DEF N
  <2>2. FlattenSeq(SubSeq(Z, 1, N)) = G[N] /\ G[N] \in Seq(E)
    BY <1>1, <1>3, <2>1 DEF Flat
  <2>. QED  BY <2>1, <2>2
<1>. QED  BY <1>1, <1>6, <1>7, <1>8 DEF Z, s

From(m, k) == SubSeq(m, k, Len(m))
UpTo(m, k) == SubSeq(m, 1, k)

(* The pieces of a message. *)
Spelled(m)  == [k \in 1..Len(m) |-> Spell(m[k])]
Handed(m)   == [k \in 1..Len(m) |-> ArgsOf(m[k])]
Shown(m)    == [k \in 1..Len(m) |-> Rendered(m[k])]

(* The end of a message from an item on. *)
LEMMA FromIs ==
  ASSUME NEW X, NEW m, m \in Seq(X), NEW k \in 1..(Len(m) + 1)
  PROVE  /\ From(m, k) \in Seq(X) /\ Len(From(m, k)) = Len(m) - k + 1
         /\ \A j \in 1..(Len(m) - k + 1) : From(m, k)[j] = m[k + j - 1]
<1>1. Len(m) \in Nat /\ k \in Int /\ \A j \in k..Len(m) : m[j] \in X
  OBVIOUS
<1>2. /\ SubSeq(m, k, Len(m)) \in Seq(X)
      /\ Len(SubSeq(m, k, Len(m))) = IF k <= Len(m) THEN Len(m) - k + 1 ELSE 0
      /\ \A j \in 1..(Len(m) - k + 1) : SubSeq(m, k, Len(m))[j] = m[k + j - 1]
  BY <1>1, SubSeqProperties
<1>. QED  BY <1>1, <1>2 DEF From

(* One piece more in front. *)
LEMMA FlattenFrom ==
  ASSUME NEW E, NEW S, S \in Seq(Seq(E)), NEW k \in 1..Len(S)
  PROVE  /\ FlattenSeq(SubSeq(S, k, Len(S))) = S[k] \o FlattenSeq(SubSeq(S, k + 1, Len(S)))
         /\ FlattenSeq(SubSeq(S, k + 1, Len(S))) \in Seq(E)
<1>. DEFINE N == Len(S)
            Z == SubSeq(S, k, N)
<1>1. N \in Nat /\ k \in 1..N /\ N \in k..N
  OBVIOUS
<1>2. Z \in Seq(Seq(E)) /\ Z # <<>> /\ Len(Z) = N - k + 1
  <2>. DEFINE X == Seq(E)
  <2>1. S \in Seq(X) /\ k \in 1..(Len(S) + 1)
    BY <1>1
  <2>. HIDE DEF X
  <2>2. From(S, k) \in Seq(X) /\ Len(From(S, k)) = Len(S) - k + 1
    BY ONLY <2>1, FromIs
  <2>3. Z = From(S, k) /\ Len(Z) = N - k + 1
    BY <2>2 DEF From
  <2>4. Z # <<>>
    BY <1>1, <2>3
  <2>. QED  BY <2>2, <2>3, <2>4 DEF X
<1>3. Tail(Z) = SubSeq(S, k + 1, N) /\ Z[1] = S[k]
  <2>1. Tail(Z) = SubSeq(S, k + 1, N) /\ Head(Z) = S[k]
    <3>. HIDE DEF N
    <3>. QED  BY <1>1, HeadTailOfSubSeq DEF N
  <2>2. Head(Z) = Z[1]
    <3>. HIDE DEF Z
    <3>. QED  BY <1>2
  <2>. QED  BY <2>1, <2>2
<1>. HIDE DEF Z
<1>. QED  BY <1>2, <1>3, FlattenFirst DEF Z

(* The spelling of the end is the end of the spelling. *)
LEMMA SpelledFrom ==
  ASSUME NEW X, NEW m, m \in Seq(X), NEW k \in 1..(Len(m) + 1)
  PROVE  Spelled(From(m, k)) = SubSeq(Spelled(m), k, Len(m))
<1>1. Len(m) \in Nat
  OBVIOUS
<1>2. /\ From(m, k) \in Seq(X) /\ Len(From(m, k)) = Len(m) - k + 1
      /\ \A j \in 1..(Len(m) - k + 1) : From(m, k)[j] = m[k + j - 1]
  BY FromIs
<1>. DEFINE f == From(m, k)
            n == Len(m) - k + 1
<1>. HIDE DEF f
<1>3. Spelled(f) = [j \in 1..n |-> Spell(f[j])]
  BY <1>2 DEF Spelled, f
<1>4. SubSeq(Spelled(m), k, Len(m)) = [j \in 1..n |-> Spelled(m)[k + j - 1]]
  BY <1>1
<1>5. ASSUME NEW j \in 1..n PROVE Spelled(m)[k + j - 1] = Spell(f[j])
  <2>1. k + j - 1 \in 1..Len(m) /\ f[j] = m[k + j - 1]
    BY <1>1, <1>2 DEF f
  <2>. QED  BY <2>1 DEF Spelled
<1>. QED  BY <1>3, <1>4, <1>5 DEF f
(* The arguments of the end are the end of the arguments. *)
LEMMA HandedFrom ==
  ASSUME NEW X, NEW m, m \in Seq(X), NEW k \in 1..(Len(m) + 1)
  PROVE  Handed(From(m, k)) = SubSeq(Handed(m), k, Len(m))
<1>1. Len(m) \in Nat
  OBVIOUS
<1>2. /\ From(m, k) \in Seq(X) /\ Len(From(m, k)) = Len(m) - k + 1
      /\ \A j \in 1..(Len(m) - k + 1) : From(m, k)[j] = m[k + j - 1]
  BY FromIs
<1>. DEFINE f == From(m, k)
            n == Len(m) - k + 1
<1>. HIDE DEF f
<1>3. Handed(f) = [j \in 1..n |-> ArgsOf(f[j])]
  BY <1>2 DEF Handed, f
<1>4. SubSeq(Handed(m), k, Len(m)) = [j \in 1..n |-> Handed(m)[k + j - 1]]
  BY <1>1
<1>5. ASSUME NEW j \in 1..n PROVE Handed(m)[k + j - 1] = ArgsOf(f[j])
  <2>1. k + j - 1 \in 1..Len(m) /\ f[j] = m[k + j - 1]
    BY <1>1, <1>2 DEF f
  <2>. QED  BY <2>1 DEF Handed
<1>. QED  BY <1>3, <1>4, <1>5 DEF f
(* The front of a message. *)
LEMMA UpToIs ==
  ASSUME NEW X, NEW m, m \in Seq(X), NEW n \in 0..Len(m)
  PROVE  /\ UpTo(m, n) \in Seq(X) /\ Len(UpTo(m, n)) = n
         /\ \A j \in 1..n : UpTo(m, n)[j] = m[j]
         /\ \A j \in 1..n : UpTo(UpTo(m, n), j - 1) = UpTo(m, j - 1)
<1>1. Len(m) \in Nat /\ n \in Int /\ 1 \in Int /\ \A j \in 1..n : m[j] \in X
  OBVIOUS
<1>2. /\ SubSeq(m, 1, n) \in Seq(X)
      /\ Len(SubSeq(m, 1, n)) = IF 1 <= n THEN n - 1 + 1 ELSE 0
      /\ \A j \in 1..(n - 1 + 1) : SubSeq(m, 1, n)[j] = m[1 + j - 1]
  BY <1>1, SubSeqProperties
<1>3. /\ UpTo(m, n) \in Seq(X) /\ Len(UpTo(m, n)) = n
      /\ \A j \in 1..n : UpTo(m, n)[j] = m[j]
  BY <1>1, <1>2 DEF UpTo
<1>4. ASSUME NEW j \in 1..n PROVE UpTo(UpTo(m, n), j - 1) = UpTo(m, j - 1)
  <2>1. UpTo(m, j - 1) = [i \in 1..(j - 1) |-> m[i]]
    BY <1>1 DEF UpTo
  <2>. DEFINE u == UpTo(m, n)
  <2>2. u \in Seq(X) /\ Len(u) = n /\ \A i \in 1..n : u[i] = m[i]
    BY <1>3
  <2>. HIDE DEF u
  <2>3. SubSeq(u, 1, j - 1) = [i \in 1..(j - 1) |-> u[i]]
    BY <1>1, <2>2
  <2>4. \A i \in 1..(j - 1) : u[i] = m[i]
    BY <2>2
  <2>. QED  BY <2>1, <2>3, <2>4 DEF UpTo, u
<1>. QED  BY <1>3, <1>4

(* What the front means is the front of what is meant. *)
LEMMA ShownUpTo ==
  ASSUME NEW X, NEW m, m \in Seq(X), NEW n \in 0..Len(m)
  PROVE  Shown(UpTo(m, n)) = SubSeq(Shown(m), 1, n)
<1>1. Len(m) \in Nat
  OBVIOUS
<1>. DEFINE u == UpTo(m, n)
<1>2. Len(u) = n /\ \A j \in 1..n : u[j] = m[j]
  BY UpToIs
<1>. HIDE DEF u
<1>3. Shown(u) = [j \in 1..n |-> Rendered(u[j])]
  BY <1>2 DEF Shown
<1>4. SubSeq(Shown(m), 1, n) = [j \in 1..n |-> Shown(m)[j]]
  BY <1>1
<1>5. ASSUME NEW j \in 1..n PROVE Shown(m)[j] = Rendered(u[j])
  <2>1. j \in 1..Len(m) /\ u[j] = m[j]
    BY <1>1, <1>2
  <2>. QED  BY <2>1 DEF Shown
<1>. QED  BY <1>3, <1>4, <1>5 DEF u

-----------------------------------------------------------------------------
(* The parts of items.                                                     *)

(* What a directive is made of. *)
LEMMA DirectiveFields ==
  ASSUME NEW d \in Directives
  PROVE  /\ "plain" \notin DOMAIN d
         /\ d.flags \in Seq(FlagChar) /\ d.width \in Widths /\ d.precision \in Precisions
         /\ d.qualifier \in Qualifiers
         /\ d.conversion \in Seq(Conversions) /\ Len(d.conversion) \in {0, 1}
         /\ d.args \in Seq(Argument)
         /\ Len(d.args) = IF d.conversion # <<>> /\ d.conversion[1] \in Taking THEN 1 ELSE 0
         /\ \A k \in 1..Len(d.args) : d.args[k] \in TakenBy(d.conversion[1])
<1>. DEFINE R == [flags : Seq(FlagChar), width : Widths, precision : Precisions,
                  qualifier : Qualifiers, conversion : Seq(Conversions), args : Seq(Argument)]
<1>1. /\ d \in R /\ Len(d.conversion) <= 1
      /\ Len(d.args) = IF d.conversion # <<>> /\ d.conversion[1] \in Taking THEN 1 ELSE 0
      /\ \A k \in 1..Len(d.args) : d.args[k] \in TakenBy(d.conversion[1])
  BY DEF Directives
<1>2. /\ d.flags \in Seq(FlagChar) /\ d.width \in Widths /\ d.precision \in Precisions
      /\ d.qualifier \in Qualifiers /\ d.conversion \in Seq(Conversions)
      /\ d.args \in Seq(Argument)
  BY <1>1
<1>3. Len(d.conversion) \in Nat
  BY <1>2
<1>4. DOMAIN d = {"flags", "width", "precision", "qualifier", "conversion", "args"}
  BY <1>1
<1>5. "plain" \notin DOMAIN d
  BY <1>4
<1>6. Len(d.conversion) \in {0, 1}
  <2>1. Len(d.conversion) <= 1
    BY <1>1
  <2>2. \A l \in Nat : l <= 1 => l \in {0, 1}
    OBVIOUS
  <2>. QED  BY ONLY <1>3, <2>1, <2>2
<1>. HIDE DEF R
<1>. QED  BY <1>1, <1>2, <1>5, <1>6

(* An item is plain or a directive. *)
LEMMA ItemCases ==
  ASSUME NEW item \in Items
  PROVE  \/ "plain" \in DOMAIN item /\ item.plain \in Character \ {"%"}
         \/ "plain" \notin DOMAIN item /\ item \in Directives
<1>1. CASE item \in Directives
  BY <1>1, DirectiveFields
<1>2. CASE item \in [plain : Character \ {"%"}]
  BY <1>2
<1>. QED  BY <1>1, <1>2 DEF Items

(* Words and halves of them. *)
LEMMA WordIs ==
  /\ Byte \in Nat \ {0, 1} /\ Short \in Nat \ {0} /\ Word \in Nat \ {0}
  /\ Short = 2 * (Short \div 2) /\ Word = 2 * (Word \div 2)
  /\ Short <= Word \div 2 /\ Byte <= Short \div 2
  /\ Short \div 2 \in Nat /\ Word \div 2 \in Nat
  /\ \E q \in Nat : Word = q * Short
<1>1. Byte \in Nat /\ Byte >= 2 /\ Byte % 2 = 0
  BY ByteAssumption
<1>2. PICK h \in Nat : Byte = 2 * h
  <2>1. Byte \div 2 \in Nat /\ Byte = 2 * (Byte \div 2)
    BY <1>1
  <2>. QED  BY <2>1
<1>3. h >= 1
  BY <1>1, <1>2
<1>. DEFINE s == h * Byte
            w == s * Short
<1>4. s \in Nat /\ Short = 2 * s /\ Byte <= s
  <2>1. 1 * Byte <= h * Byte
    BY <1>1, <1>2, <1>3, TimesMonotone
  <2>2. (2 * h) * Byte = 2 * (h * Byte) /\ h * Byte \in Nat
    BY <1>1, <1>2
  <2>. QED  BY <1>1, <1>2, <2>1, <2>2 DEF Short
<1>. HIDE DEF s
<1>5. Word = Short * Short
  <2>1. ((Byte * Byte) * Byte) * Byte = (Byte * Byte) * (Byte * Byte)
    BY <1>1
  <2>. QED  BY <2>1 DEF Word, Short
<1>6. w \in Nat /\ Word = 2 * w /\ Short <= w
  <2>1. Short \in Nat /\ s >= 1
    BY <1>1, <1>4
  <2>2. 1 * Short <= s * Short /\ s * Short \in Nat
    BY <1>4, <2>1, TimesMonotone
  <2>3. (2 * s) * Short = 2 * (s * Short)
    BY <1>4, <2>1
  <2>. QED  BY <1>4, <1>5, <2>1, <2>2, <2>3
<1>. HIDE DEF w
<1>7. Short \div 2 = s /\ Word \div 2 = w
  BY <1>4, <1>6
<1>8. \E q \in Nat : Word = q * Short
  BY <1>4, <1>5
<1>. QED  BY <1>1, <1>4, <1>6, <1>7, <1>8

(* The ways to give a width. *)
LEMMA WidthCases ==
  ASSUME NEW size \in Widths
  PROVE  \/ size.is = "none"
         \/ size.is = "digits" /\ size.n \in 1..(Word \div 2 - 1)
         \/ size.is = "star" /\ size.n \in (1 - Word \div 2)..(Word \div 2 - 1)
BY DEF Widths, Stars

(* The ways to give a precision. *)
LEMMA PrecisionCases ==
  ASSUME NEW size \in Precisions
  PROVE  \/ size.is = "none"
         \/ size.is = "dot"
         \/ size.is = "digits" /\ size.n \in 0..(Word \div 2 - 1)
         \/ size.is = "star" /\ size.n \in (1 - Word \div 2)..(Word \div 2 - 1)
BY DEF Precisions, Stars

(* A numeral is a text, and not empty. *)
LEMMA NumeralTyped ==
  ASSUME NEW n \in Nat, NEW base \in {8, 10, 16}, NEW large \in BOOLEAN
  PROVE  Numeral(n, base, large) \in Seq(Character) /\ Len(Numeral(n, base, large)) \in Nat \ {0}
<1>1. base \in Nat /\ base >= 2 /\ base <= 16
  OBVIOUS
<1>. DEFINE tmp == Digits(n, base)
            num == [k \in 1..Len(tmp) |-> DigitOf(tmp[Len(tmp) + 1 - k], large)]
<1>2. /\ num = Numeral(n, base, large)
      /\ num \in Seq(Character) /\ Len(num) = Len(tmp) /\ Len(tmp) \in Nat \ {0}
  BY <1>1, NumeralIs
<1>. HIDE DEF num
<1>. QED  BY <1>2

(* A width or precision spells a text, its star is an argument. *)
LEMMA SizeSpelled ==
  /\ \A size \in Widths : SpellSize(size) \in Seq(Character)
  /\ \A size \in Precisions : SpellSize(size) \in Seq(Character)
                              /\ SpellPrecision(size) \in Seq(Character)
  /\ \A size \in Widths : StarOf(size) \in Seq(Argument)
  /\ \A size \in Precisions : StarOf(size) \in Seq(Argument)
<1>1. <<>> \in Seq(Character) /\ <<"*">> \in Seq(Character) /\ <<".">> \in Seq(Character)
      /\ FALSE \in BOOLEAN /\ 10 \in {8, 10, 16}
  <2>1. "*" \in Character /\ "." \in Character
    BY Meanings
  <2>. QED  BY <2>1
<1>2. ASSUME NEW size, \/ size.is \in {"none", "dot"}
                       \/ size.is = "digits" /\ size.n \in Nat
                       \/ size.is = "star"
      PROVE  SpellSize(size) \in Seq(Character)
  <2>1. size.is = "digits" => Numeral(size.n, 10, FALSE) \in Seq(Character)
    BY <1>1, <1>2, NumeralTyped
  <2>. QED  BY <1>1, <1>2, <2>1 DEF SpellSize
<1>3. ASSUME NEW size, \/ size.is \in {"none", "dot", "digits"}
                       \/ size.is = "star" /\ size.n \in Int
      PROVE  StarOf(size) \in Seq(Argument)
  <2>1. CASE size.is = "star"
    <3>1. size.n \in Int /\ Word \in Nat \ {0}
      BY <1>3, <2>1, WordIs
    <3>2. size.n % Word \in 0..(Word - 1)
      BY <3>1
    <3>3. [word |-> size.n % Word] \in Argument
      BY <3>2 DEF Argument, Words
    <3>. QED  BY <2>1, <3>3 DEF StarOf
  <2>2. CASE size.is # "star"
    BY <2>2 DEF StarOf
  <2>. QED  BY <2>1, <2>2
<1>4. Word \div 2 \in Nat
  BY WordIs
<1>5. \A size \in Widths : SpellSize(size) \in Seq(Character) /\ StarOf(size) \in Seq(Argument)
  BY <1>2, <1>3, <1>4, WidthCases
<1>6. \A size \in Precisions : SpellSize(size) \in Seq(Character) /\ StarOf(size) \in Seq(Argument)
  BY <1>2, <1>3, <1>4, PrecisionCases
<1>7. ASSUME NEW size \in Precisions PROVE SpellPrecision(size) \in Seq(Character)
  <2>1. <<".">> \o SpellSize(size) \in Seq(Character)
    BY <1>1, <1>6, ConcatProperties
  <2>. QED  BY <1>1, <2>1 DEF SpellPrecision
<1>. QED  BY <1>5, <1>6, <1>7

(* Concatenation, for the provers: an operation they do not take apart. *)
a ++ b == a \o b

Joins(S) == /\ \A x, y \in S : x ++ y \in S
            /\ \A x, y, z \in S : (x ++ y) ++ z = x ++ (y ++ z)
            /\ <<>> \in S /\ \A x \in S : <<>> ++ x = x /\ x ++ <<>> = x

(* Sequences of one set join. *)
LEMMA SequencesJoin ==
  ASSUME NEW C
  PROVE  Joins(Seq(C))
<1>1. ASSUME NEW a \in Seq(C), NEW b \in Seq(C), NEW c \in Seq(C)
      PROVE (a \o b) \o c = a \o (b \o c)
  BY ONLY a \in Seq(C), b \in Seq(C), c \in Seq(C), ConcatAssociative
<1>2. ASSUME NEW a \in Seq(C), NEW b \in Seq(C)
      PROVE a \o b \in Seq(C)
  BY ONLY a \in Seq(C), b \in Seq(C), ConcatProperties
<1>3. ASSUME NEW a \in Seq(C)
      PROVE <<>> \o a = a /\ a \o <<>> = a
  BY ConcatEmptySeq
<1>4. <<>> \in Seq(C)
  OBVIOUS
<1>. QED  BY <1>1, <1>2, <1>3, <1>4 DEF ++, Joins

(* Three pieces, grouped from the right. *)
LEMMA Regroup2 ==
  ASSUME NEW S, Joins(S), NEW p \in S, NEW f \in S, NEW w \in S
  PROVE  (p ++ f) ++ w = p ++ (f ++ w) /\ p ++ f \in S /\ f ++ w \in S /\ p ++ (f ++ w) \in S
<1>1. p ++ f \in S /\ f ++ w \in S
  BY DEF Joins
<1>2. p ++ (f ++ w) \in S
  BY <1>1 DEF Joins
<1>. QED  BY <1>1, <1>2 DEF Joins

(* Four pieces. *)
LEMMA Regroup3 ==
  ASSUME NEW S, Joins(S), NEW p \in S, NEW f \in S, NEW w \in S, NEW r \in S
  PROVE  /\ ((p ++ f) ++ w) ++ r = p ++ (f ++ (w ++ r))
         /\ (p ++ f) ++ (w ++ r) = p ++ (f ++ (w ++ r))
         /\ f ++ (w ++ r) \in S /\ p ++ (f ++ (w ++ r)) \in S
<1>1. p ++ f \in S /\ w ++ r \in S
  BY Regroup2
<1>2. ((p ++ f) ++ w) ++ r = (p ++ f) ++ (w ++ r)
  BY <1>1, Regroup2
<1>3. (p ++ f) ++ (w ++ r) = p ++ (f ++ (w ++ r)) /\ f ++ (w ++ r) \in S /\ p ++ (f ++ (w ++ r)) \in S
  BY <1>1, Regroup2
<1>. QED  BY <1>2, <1>3

(* Five pieces. *)
LEMMA Regroup4 ==
  ASSUME NEW S, Joins(S), NEW p \in S, NEW f \in S, NEW w \in S, NEW r \in S, NEW q \in S
  PROVE  /\ (((p ++ f) ++ w) ++ r) ++ q = p ++ (f ++ (w ++ (r ++ q)))
         /\ p ++ (f ++ (w ++ (r ++ q))) \in S
<1>1. p ++ f \in S /\ w ++ (r ++ q) \in S
  BY Regroup2
<1>2. (((p ++ f) ++ w) ++ r) ++ q = (p ++ f) ++ (w ++ (r ++ q))
  BY <1>1, Regroup3
<1>3. (p ++ f) ++ (w ++ (r ++ q)) = p ++ (f ++ (w ++ (r ++ q))) /\ p ++ (f ++ (w ++ (r ++ q))) \in S
  BY <1>1, Regroup2
<1>. QED  BY <1>2, <1>3

(* Seven pieces. *)
LEMMA Regroup6 ==
  ASSUME NEW S, Joins(S), NEW p \in S, NEW f \in S, NEW w \in S, NEW r \in S, NEW q \in S,
         NEW c \in S, NEW t \in S
  PROVE  /\ (((((p ++ f) ++ w) ++ r) ++ q) ++ c) ++ t = p ++ (f ++ (w ++ (r ++ (q ++ (c ++ t)))))
         /\ (((((p ++ f) ++ w) ++ r) ++ q) ++ c) \in S
<1>1. (p ++ f) ++ w \in S /\ r ++ (q ++ (c ++ t)) \in S
  BY Regroup2, Regroup3
<1>2. (((((p ++ f) ++ w) ++ r) ++ q) ++ c) ++ t = ((p ++ f) ++ w) ++ (r ++ (q ++ (c ++ t)))
  BY <1>1, Regroup4
<1>4. ((((p ++ f) ++ w) ++ r) ++ q) ++ c \in S
  BY <1>1, Regroup3
<1>3. ((p ++ f) ++ w) ++ (r ++ (q ++ (c ++ t))) = p ++ (f ++ (w ++ (r ++ (q ++ (c ++ t)))))
  BY <1>1, Regroup3
<1>. QED  BY <1>2, <1>3, <1>4

Texts == Seq(Character)

(* Texts join. *)
LEMMA TextsJoin == Joins(Texts)
BY SequencesJoin DEF Texts

(* What is left of a directive and the rest of the format, part by part. *)
ConversionOn(d, t) == d.conversion ++ t
QualifierOn(d, t)  == d.qualifier ++ ConversionOn(d, t)
PrecisionOn(d, t)  == SpellPrecision(d.precision) ++ QualifierOn(d, t)
WidthOn(d, t)      == SpellSize(d.width) ++ PrecisionOn(d, t)
FlagsOn(d, t)      == d.flags ++ WidthOn(d, t)

(* The parts of a directive are texts. *)
LEMMA PartsTyped ==
  ASSUME NEW d \in Directives
  PROVE  /\ d.flags \in Texts /\ SpellSize(d.width) \in Texts
         /\ SpellPrecision(d.precision) \in Texts /\ d.qualifier \in Texts
         /\ d.conversion \in Texts /\ <<"%">> \in Texts
<1>1. FlagChar \subseteq Character
  BY Meanings DEF FlagChar
<1>2. \A q \in Qualifiers : q \in Seq(Character)
  <2>1. "h" \in Character /\ "l" \in Character /\ "L" \in Character
    BY Meanings
  <2>2. <<"h">> \in Seq(Character) /\ <<"l">> \in Seq(Character) /\ <<"L">> \in Seq(Character)
        /\ <<>> \in Seq(Character)
    BY <2>1
  <2>. QED  BY <2>2 DEF Qualifiers
<1>3. Conversions \subseteq Character
  BY DEF Conversions
<1>4. d.flags \in Seq(FlagChar) /\ d.conversion \in Seq(Conversions)
  BY DirectiveFields
<1>5. d.flags \in Seq(Character)
  BY <1>1, <1>4
<1>6. d.conversion \in Seq(Character)
  BY <1>3, <1>4
<1>7. <<"%">> \in Seq(Character)
  <2>1. "%" \in Character
    BY Meanings
  <2>. QED  BY <2>1
<1>8. SpellSize(d.width) \in Seq(Character) /\ SpellPrecision(d.precision) \in Seq(Character)
      /\ d.qualifier \in Qualifiers
  BY DirectiveFields, SizeSpelled
<1>. QED  BY <1>2, <1>5, <1>6, <1>7, <1>8 DEF Texts

(* So is what is left of it at each part. *)
LEMMA RestsTyped ==
  ASSUME NEW d \in Directives, NEW t \in Texts
  PROVE  /\ ConversionOn(d, t) \in Texts /\ QualifierOn(d, t) \in Texts
         /\ PrecisionOn(d, t) \in Texts /\ WidthOn(d, t) \in Texts /\ FlagsOn(d, t) \in Texts
<1>1. ConversionOn(d, t) \in Texts
  BY PartsTyped, TextsJoin DEF ConversionOn, Joins
<1>2. QualifierOn(d, t) \in Texts
  BY <1>1, PartsTyped, TextsJoin DEF QualifierOn, Joins
<1>3. PrecisionOn(d, t) \in Texts
  BY <1>2, PartsTyped, TextsJoin DEF PrecisionOn, Joins
<1>4. WidthOn(d, t) \in Texts
  BY <1>3, PartsTyped, TextsJoin DEF WidthOn, Joins
<1>5. FlagsOn(d, t) \in Texts
  BY <1>4, PartsTyped, TextsJoin DEF FlagsOn, Joins
<1>. QED  BY <1>1, <1>2, <1>3, <1>4, <1>5

(* The spelling of a directive and what follows, part by part. *)
LEMMA SpellIs ==
  ASSUME NEW d \in Directives, NEW t \in Texts
  PROVE  Spell(d) \in Texts /\ Spell(d) ++ t = <<"%">> ++ FlagsOn(d, t)
<1>. DEFINE p == <<"%">>
            f == d.flags
            w == SpellSize(d.width)
            r == SpellPrecision(d.precision)
            q == d.qualifier
            c == d.conversion
<1>1. p \in Texts /\ f \in Texts /\ w \in Texts /\ r \in Texts /\ q \in Texts /\ c \in Texts
  BY PartsTyped
<1>2. Spell(d) = ((((p ++ f) ++ w) ++ r) ++ q) ++ c
  BY DirectiveFields DEF Spell, ++
<1>3. FlagsOn(d, t) = f ++ (w ++ (r ++ (q ++ (c ++ t))))
  BY DEF FlagsOn, WidthOn, PrecisionOn, QualifierOn, ConversionOn
<1>. HIDE DEF p, f, w, r, q, c
<1>4. /\ (((((p ++ f) ++ w) ++ r) ++ q) ++ c) ++ t = p ++ (f ++ (w ++ (r ++ (q ++ (c ++ t)))))
      /\ (((((p ++ f) ++ w) ++ r) ++ q) ++ c) \in Texts
  BY <1>1, TextsJoin, Regroup6
<1>. QED  BY <1>2, <1>3, <1>4 DEF p

(* An item spells a text and hands over arguments. *)
LEMMA PiecesTyped ==
  ASSUME NEW item \in Items
  PROVE  Spell(item) \in Seq(Character) /\ ArgsOf(item) \in Seq(Argument)
<1>1. CASE "plain" \in DOMAIN item /\ item.plain \in Character \ {"%"}
  <2>1. Spell(item) = <<item.plain>> /\ ArgsOf(item) = <<>>
    BY <1>1 DEF Spell, ArgsOf
  <2>2. <<item.plain>> \in Seq(Character) /\ <<>> \in Seq(Argument)
    BY <1>1
  <2>. QED  BY <2>1, <2>2
<1>2. CASE "plain" \notin DOMAIN item /\ item \in Directives
  <2>1. Spell(item) \in Seq(Character)
    <3>1. <<>> \in Texts
      BY TextsJoin DEF Joins
    <3>. QED  BY <1>2, <3>1, SpellIs DEF Texts
  <2>. DEFINE s == StarOf(item.width)
              p == StarOf(item.precision)
              a == item.args
              A == Seq(Argument)
  <2>2. s \in A /\ p \in A /\ a \in A /\ ArgsOf(item) = (s ++ p) ++ a /\ Joins(A)
    BY <1>2, DirectiveFields, SizeSpelled, SequencesJoin DEF ArgsOf, ++
  <2>. HIDE DEF s, p, a, A
  <2>3. (s ++ p) ++ a \in A
    BY <2>2, Regroup2
  <2>. QED  BY <2>1, <2>2, <2>3 DEF A
<1>. QED  BY <1>1, <1>2, ItemCases

(* The spelling and the arguments of a message, piece by piece. *)
LEMMA SpellingFrom ==
  ASSUME NEW m, m \in Seq(Items), NEW k \in 1..Len(m)
  PROVE  /\ Spelling(From(m, k)) = Spell(m[k]) ++ Spelling(From(m, k + 1))
         /\ Spelling(From(m, k + 1)) \in Texts /\ Spell(m[k]) \in Texts
<1>. DEFINE S == Spelled(m)
            E == Character
<1>1. Len(m) \in Nat /\ m[k] \in Items
  OBVIOUS
<1>2. S \in Seq(Seq(E)) /\ Len(S) = Len(m) /\ S[k] = Spell(m[k])
      /\ Spell(m[k]) \in Seq(E)
  BY PiecesTyped DEF Spelled
<1>3. Spelling(From(m, k)) = FlattenSeq(SubSeq(S, k, Len(m)))
      /\ Spelling(From(m, k + 1)) = FlattenSeq(SubSeq(S, k + 1, Len(m)))
  <2>1. k \in 1..(Len(m) + 1) /\ k + 1 \in 1..(Len(m) + 1)
    BY <1>1
  <2>2. Spelled(From(m, k)) = SubSeq(S, k, Len(m))
        /\ Spelled(From(m, k + 1)) = SubSeq(S, k + 1, Len(m))
    BY <2>1, SpelledFrom
  <2>3. \A x : Spelling(x) = FlattenSeq(Spelled(x))
    BY DEF Spelling, Spelled
  <2>. QED  BY <2>2, <2>3
<1>. HIDE DEF S, E
<1>4. /\ FlattenSeq(SubSeq(S, k, Len(S))) = S[k] \o FlattenSeq(SubSeq(S, k + 1, Len(S)))
      /\ FlattenSeq(SubSeq(S, k + 1, Len(S))) \in Seq(E)
  <2>1. k \in 1..Len(S) /\ S \in Seq(Seq(E))
    BY <1>2
  <2>. QED  BY ONLY <2>1, FlattenFrom
<1>. QED  BY <1>2, <1>3, <1>4 DEF E, Texts, ++

(* The arguments of a message from an item on. *)
LEMMA ArgumentsFrom ==
  ASSUME NEW m, m \in Seq(Items), NEW k \in 1..Len(m)
  PROVE  /\ Arguments(From(m, k)) = ArgsOf(m[k]) ++ Arguments(From(m, k + 1))
         /\ Arguments(From(m, k + 1)) \in Seq(Argument)
<1>. DEFINE S == Handed(m)
            E == Argument
<1>1. Len(m) \in Nat /\ m[k] \in Items
  OBVIOUS
<1>2. S \in Seq(Seq(E)) /\ Len(S) = Len(m) /\ S[k] = ArgsOf(m[k])
  BY PiecesTyped DEF Handed
<1>3. Arguments(From(m, k)) = FlattenSeq(SubSeq(S, k, Len(m)))
      /\ Arguments(From(m, k + 1)) = FlattenSeq(SubSeq(S, k + 1, Len(m)))
  <2>1. k \in 1..(Len(m) + 1) /\ k + 1 \in 1..(Len(m) + 1)
    BY <1>1
  <2>2. Handed(From(m, k)) = SubSeq(S, k, Len(m))
        /\ Handed(From(m, k + 1)) = SubSeq(S, k + 1, Len(m))
    BY <2>1, HandedFrom
  <2>3. \A x : Arguments(x) = FlattenSeq(Handed(x))
    BY DEF Arguments, Handed
  <2>. QED  BY <2>2, <2>3
<1>. HIDE DEF S, E
<1>4. /\ FlattenSeq(SubSeq(S, k, Len(S))) = S[k] \o FlattenSeq(SubSeq(S, k + 1, Len(S)))
      /\ FlattenSeq(SubSeq(S, k + 1, Len(S))) \in Seq(E)
  <2>1. k \in 1..Len(S) /\ S \in Seq(Seq(E))
    BY <1>2
  <2>. QED  BY ONLY <2>1, FlattenFrom
<1>. QED  BY <1>2, <1>3, <1>4 DEF E, ++

(* The whole of a message, and nothing of it. *)
LEMMA Ends ==
  ASSUME NEW X, NEW m, m \in Seq(X)
  PROVE  /\ From(m, Len(m) + 1) = <<>> /\ From(m, 1) = m
         /\ UpTo(m, 0) = <<>> /\ UpTo(m, Len(m)) = m
         /\ Spelling(<<>>) = <<>> /\ Arguments(<<>>) = <<>> /\ Rendering(<<>>) = <<>>
         /\ Counts(<<>>) = <<>>
<1>1. Len(m) \in Nat
  OBVIOUS
<1>2. SubSeq(m, 1, Len(m)) = m /\ SubSeq(m, 1, 0) = <<>> /\ SubSeq(m, Len(m) + 1, Len(m)) = <<>>
  BY <1>1, SubSeqFull, SubSeqEmpty
<1>3. \A x : Len(x) = 0 => /\ Spelling(x) = FlattenSeq([n \in 1..0 |-> Spell(x[n])])
                           /\ Arguments(x) = FlattenSeq([n \in 1..0 |-> ArgsOf(x[n])])
                           /\ Rendering(x) = FlattenSeq([n \in 1..0 |-> Rendered(x[n])])
  BY DEF Spelling, Arguments, Rendering
<1>. DEFINE e == <<>>
<1>4. Len(e) = 0
  OBVIOUS
<1>5. /\ [n \in 1..0 |-> Spell(e[n])] = <<>> /\ [n \in 1..0 |-> ArgsOf(e[n])] = <<>>
      /\ [n \in 1..0 |-> Rendered(e[n])] = <<>>
  OBVIOUS
<1>6. Spelling(e) = <<>> /\ Arguments(e) = <<>> /\ Rendering(e) = <<>>
  <2>. HIDE DEF e
  <2>. QED  BY <1>3, <1>4, <1>5, FlattenEmpty
<1>7. Counts(e) = <<>>
  <2>1. [n \in 1..Len(e) |-> IF "plain" \notin DOMAIN e[n] /\ e[n].conversion = <<"n">>
                             THEN <<Len(Rendering(SubSeq(e, 1, n - 1)))>> ELSE <<>>] = <<>>
    OBVIOUS
  <2>. QED  BY <2>1, FlattenEmpty DEF Counts
<1>. QED  BY <1>2, <1>6, <1>7 DEF From, UpTo

-----------------------------------------------------------------------------
(* What number writes.                                                     *)

(* A character repeated. *)
LEMMA RepeatIs ==
  ASSUME NEW c \in Character, NEW n \in Int
  PROVE  /\ Repeat(c, n) \in Texts /\ Len(Repeat(c, n)) = IF n > 0 THEN n ELSE 0
         /\ n <= 0 => Repeat(c, n) = <<>>
<1>1. CASE n > 0
  BY <1>1 DEF Repeat, Texts
<1>2. CASE ~(n > 0)
  BY <1>2 DEF Repeat, Texts
<1>. QED  BY <1>1, <1>2

(* Lengths add up. *)
LEMMA Lengths ==
  ASSUME NEW a \in Texts, NEW b \in Texts
  PROVE  Len(a) \in Nat /\ Len(b) \in Nat /\ Len(a ++ b) = Len(a) + Len(b)
<1>1. a \in Seq(Character) /\ b \in Seq(Character)
  BY DEF Texts
<1>2. Len(a \o b) = Len(a) + Len(b)
  BY ONLY <1>1, ConcatProperties
<1>. QED  BY <1>1, <1>2 DEF ++

(* The constant texts of vsprintf. *)
LEMMA Letters ==
  /\ <<"-">> \in Texts /\ <<"+">> \in Texts /\ <<" ">> \in Texts /\ <<"0">> \in Texts
  /\ <<"0", "x">> \in Texts /\ <<"0", "X">> \in Texts /\ <<"%">> \in Texts /\ <<".">> \in Texts
  /\ <<":">> \in Texts /\ NullText \in Texts /\ "0" \in Character /\ " " \in Character
<1>1. /\ "-" \in Character /\ "+" \in Character /\ " " \in Character /\ "0" \in Character
      /\ "x" \in Character /\ "X" \in Character /\ "%" \in Character /\ "." \in Character
      /\ ":" \in Character /\ "<" \in Character /\ ">" \in Character /\ "N" \in Character
      /\ "U" \in Character /\ "L" \in Character
  BY Meanings
<1>2. \A c \in Character : <<c>> \in Texts
  BY DEF Texts
<1>3. \A c, e \in Character : <<c, e>> \in Texts
  BY DEF Texts
<1>4. NullText \in Texts
  <2>1. \A c, e, f, g, h, j \in Character : <<c, e, f, g, h, j>> \in Texts
    BY DEF Texts
  <2>. QED  BY ONLY <1>1, <2>1 DEF NullText
<1>5. /\ <<"-">> \in Texts /\ <<"+">> \in Texts /\ <<" ">> \in Texts /\ <<"0">> \in Texts
      /\ <<"%">> \in Texts /\ <<".">> \in Texts /\ <<":">> \in Texts
  BY ONLY <1>1, <1>2
<1>6. <<"0", "x">> \in Texts /\ <<"0", "X">> \in Texts
  BY ONLY <1>1, <1>3
<1>. QED  BY <1>1, <1>4, <1>5, <1>6

(* The parts of what number writes. *)
Minus(num, type)     == "SIGN" \in type /\ num >= Word \div 2
Magnitude(num, type) == IF Minus(num, type) THEN Word - num ELSE num
SignOf(num, type) ==
  IF Minus(num, type) THEN <<"-">>
  ELSE IF {"SIGN", "+"} \subseteq type THEN <<"+">>
  ELSE IF {"SIGN", " "} \subseteq type THEN <<" ">> ELSE <<>>
PrefixOf(base, type) ==
  IF "#" \notin type \/ base = 10 THEN <<>>
  ELSE IF base = 8 THEN <<"0">>
  ELSE <<"0", IF "LARGE" \in type THEN "X" ELSE "x">>
NumeralOf(num, base, type) == Numeral(Magnitude(num, type), base, "LARGE" \in type)
ZerosOf(num, base, precision, type) ==
  Repeat("0", precision - Len(NumeralOf(num, base, type)))

LeadOf(num, base, type) == SignOf(num, type) ++ PrefixOf(base, type)
BodyOf(num, base, precision, type) ==
  ZerosOf(num, base, precision, type) ++ NumeralOf(num, base, type)

FillerOf(type) == IF "0" \in type THEN "0" ELSE " "

(* A lead and a body, in so much room. *)
InField(lead, body, room, flags, filler) ==
  IF "-" \in flags THEN (lead ++ body) ++ Repeat(" ", room)
  ELSE IF filler = "0" THEN (lead ++ Repeat("0", room)) ++ body
  ELSE (Repeat(" ", room) ++ lead) ++ body

(* A field is a text. *)
LEMMA InFieldTyped ==
  ASSUME NEW lead \in Texts, NEW body \in Texts, NEW room \in Int, NEW flags, NEW filler
  PROVE  InField(lead, body, room, flags, filler) \in Texts
<1>1. Repeat(" ", room) \in Texts /\ Repeat("0", room) \in Texts
  BY RepeatIs, Letters
<1>2. (lead ++ body) ++ Repeat(" ", room) \in Texts
  BY <1>1, TextsJoin, Regroup2
<1>3. (lead ++ Repeat("0", room)) ++ body \in Texts
  BY <1>1, TextsJoin, Regroup2
<1>4. (Repeat(" ", room) ++ lead) ++ body \in Texts
  BY <1>1, TextsJoin, Regroup2
<1>. QED  BY <1>2, <1>3, <1>4 DEF InField

(* The parts number writes are texts. *)
LEMMA PartsOfNumber ==
  ASSUME NEW num \in 0..(Word - 1), NEW base \in {8, 10, 16}, NEW precision \in Int, NEW type
  PROVE  /\ Magnitude(num, type) \in Nat
         /\ SignOf(num, type) \in Texts /\ PrefixOf(base, type) \in Texts
         /\ NumeralOf(num, base, type) \in Texts /\ Len(NumeralOf(num, base, type)) \in Nat \ {0}
         /\ ZerosOf(num, base, precision, type) \in Texts
<1>0. Word \in Nat
  BY WordIs
<1>1. Magnitude(num, type) \in Nat
  BY <1>0 DEF Magnitude
<1>2. SignOf(num, type) \in Texts
  BY Letters, TextsJoin DEF SignOf, Joins
<1>3. PrefixOf(base, type) \in Texts
  BY Letters, TextsJoin DEF PrefixOf, Joins
<1>4. NumeralOf(num, base, type) \in Texts /\ Len(NumeralOf(num, base, type)) \in Nat \ {0}
  <2>1. ("LARGE" \in type) \in BOOLEAN
    OBVIOUS
  <2>. QED  BY <1>1, <2>1, NumeralTyped DEF NumeralOf, Texts
<1>5. ZerosOf(num, base, precision, type) \in Texts
  <2>1. precision - Len(NumeralOf(num, base, type)) \in Int
    BY <1>4
  <2>. QED  BY <2>1, RepeatIs, Letters DEF ZerosOf
<1>. QED  BY <1>1, <1>2, <1>3, <1>4, <1>5

(* number: sign, prefix, zeros and numeral, in the field the size asks     *)
(* for.                                                                    *)
THEOREM NumberIs ==
  ASSUME NEW num \in 0..(Word - 1), NEW base \in {8, 10, 16}, NEW size \in Int,
         NEW precision \in Int, NEW type
  PROVE  LET lead == LeadOf(num, base, type)
             body == BodyOf(num, base, precision, type)
         IN  /\ lead \in Texts /\ body \in Texts /\ Len(lead) \in Nat /\ Len(body) \in Nat
             /\ number(num, base, size, precision, type)
                  = InField(lead, body, size - Len(lead) - Len(body), type, FillerOf(type))
<1>. DEFINE large == "LARGE" \in type
            m == Magnitude(num, type)
            tmp == Digits(m, base)
            chars == [k \in 1..Len(tmp) |-> DigitOf(tmp[Len(tmp) + 1 - k], large)]
            s == SignOf(num, type)
            p == PrefixOf(base, type)
            z == Repeat("0", precision - Len(tmp))
            n == NumeralOf(num, base, type)
            room == size - Len(s \o p \o z \o tmp)
            f1 == IF {"0", "-"} \cap type = {} THEN Repeat(" ", room) ELSE <<>>
            f2 == IF "0" \in type /\ "-" \notin type THEN Repeat("0", room) ELSE <<>>
            f3 == IF "-" \in type THEN Repeat(" ", room) ELSE <<>>
<1>1. /\ m \in Nat /\ s \in Texts /\ p \in Texts /\ n \in Texts /\ Len(n) \in Nat \ {0}
      /\ ZerosOf(num, base, precision, type) \in Texts
  BY PartsOfNumber
<1>2. /\ chars = n /\ Len(n) = Len(tmp) /\ tmp \in Seq(Nat)
  <2>1. base \in Nat /\ base >= 2 /\ base <= 16 /\ large \in BOOLEAN
    OBVIOUS
  <2>2. tmp \in Seq(0..(base - 1))
    <3>. HIDE DEF m
    <3>1. Digits(m, base) = Backwards(m, base)
      BY <1>1, <2>1, DigitsAre
    <3>2. Backwards(m, base) \in Seq(0..(base - 1))
      BY <1>1, <2>1, BackwardsIs
    <3>. QED  BY <3>1, <3>2
  <2>3. tmp \in Seq(Nat)
    BY <2>1, <2>2
  <2>4. chars = Numeral(m, base, large) /\ Len(chars) = Len(tmp)
    <3>. HIDE DEF m, large
    <3>. QED  BY <1>1, <2>1, NumeralIs
  <2>. QED  BY <2>3, <2>4 DEF NumeralOf
<1>3. ZerosOf(num, base, precision, type) = z
  BY <1>2 DEF ZerosOf
<1>4. number(num, base, size, precision, type) = ((((((f1 ++ s) ++ p) ++ f2) ++ z) ++ chars) ++ f3)
  BY DEF number, ++, SignOf, PrefixOf, Magnitude, Minus
<1>. HIDE DEF m, tmp, chars, s, p, z, n, large
<1>5. z \in Texts /\ (s ++ p) ++ z \in Texts /\ s ++ p \in Texts /\ z ++ n \in Texts
  BY <1>1, <1>3, TextsJoin, Regroup2
<1>6. room = size - Len(s ++ p) - Len(z ++ n) /\ Len(s ++ p) \in Nat /\ Len(z ++ n) \in Nat
  <2>1. Len(s ++ p) \in Nat /\ Len((s ++ p) ++ z) = Len(s ++ p) + Len(z) /\ Len(z) \in Nat
        /\ Len(z ++ n) = Len(z) + Len(n)
    BY <1>1, <1>5, Lengths
  <2>2. Len(((s ++ p) ++ z) \o tmp) = Len((s ++ p) ++ z) + Len(tmp)
    <3>. DEFINE C == Character \cup Nat
                a == (s ++ p) ++ z
    <3>1. a \in Seq(C) /\ tmp \in Seq(C)
      <4>. HIDE DEF a
      <4>1. a \in Seq(Character)
        BY <1>5 DEF Texts, a
      <4>. QED  BY <1>2, <4>1, SMTT(30)
    <3>. HIDE DEF C, a
    <3>2. Len(a \o tmp) = Len(a) + Len(tmp)
      BY ONLY <3>1, ConcatProperties
    <3>. QED  BY <3>2 DEF a
  <2>3. s \o p \o z \o tmp = ((s ++ p) ++ z) \o tmp
    BY DEF ++
  <2>. HIDE DEF f1
  <2>4. room = size - (Len(s ++ p) + Len(z) + Len(n))
    BY <1>2, <2>1, <2>2, <2>3
  <2>. QED  BY <1>1, <2>1, <2>4
<1>. HIDE DEF room
<1>7. room \in Int
  BY <1>6 
<1>8. f1 \in Texts /\ f2 \in Texts /\ f3 \in Texts
  BY <1>7, RepeatIs, Letters, TextsJoin DEF Joins
<1>9. CASE "-" \in type
  <2>1. f1 = <<>> /\ f2 = <<>> /\ f3 = Repeat(" ", room)
    BY <1>9
  <2>2. <<>> ++ s = s /\ (s ++ p) ++ <<>> = s ++ p /\ ((s ++ p) ++ z) ++ n = (s ++ p) ++ (z ++ n)
    <3>1. <<>> ++ s = s /\ (s ++ p) ++ <<>> = s ++ p
      BY <1>1, <1>5, TextsJoin DEF Joins
    <3>. QED  BY <1>1, <1>5, <3>1, TextsJoin, Regroup2
  <2>3. number(num, base, size, precision, type) = ((s ++ p) ++ (z ++ n)) ++ Repeat(" ", room)
    <3>. HIDE DEF f1, f2, f3
    <3>. QED  BY <1>2, <1>4, <2>1, <2>2
  <2>. QED  BY <1>3, <1>5, <1>6, <1>9, <2>3 DEF InField, LeadOf, BodyOf, FillerOf, s, p, n
<1>10. CASE "-" \notin type /\ "0" \in type
  <2>1. f1 = <<>> /\ f2 = Repeat("0", room) /\ f3 = <<>>
    BY <1>10
  <2>2. <<>> ++ s = s
    BY <1>1, TextsJoin DEF Joins
  <2>3. (s ++ p) ++ f2 \in Texts
    <3>. HIDE DEF f2
    <3>. QED  BY <1>1, <1>8, TextsJoin, Regroup2
  <2>. DEFINE a == (s ++ p) ++ f2
  <2>4. (a ++ z) ++ n = a ++ (z ++ n) /\ a ++ (z ++ n) \in Texts
    <3>. HIDE DEF a
    <3>1. a \in Texts /\ z \in Texts /\ n \in Texts
      BY <1>1, <1>5, <2>3 DEF a
    <3>. QED  BY ONLY <3>1, TextsJoin, Regroup2
  <2>5. (a ++ (z ++ n)) ++ <<>> = a ++ (z ++ n)
    BY <2>4, TextsJoin DEF Joins
  <2>6. number(num, base, size, precision, type) = ((s ++ p) ++ Repeat("0", room)) ++ (z ++ n)
    <3>. HIDE DEF f1, f2, f3
    <3>. QED  BY <1>2, <1>4, <2>1, <2>2, <2>4, <2>5
  <2>. QED  BY <1>3, <1>5, <1>6, <1>10, <2>6 DEF InField, LeadOf, BodyOf, FillerOf, s, p, n
<1>11. CASE "-" \notin type /\ "0" \notin type
  <2>1. f1 = Repeat(" ", room) /\ f2 = <<>> /\ f3 = <<>>
    BY <1>11
  <2>. DEFINE a == (f1 ++ s) ++ p
  <2>2. a = f1 ++ (s ++ p) /\ a \in Texts
    <3>. HIDE DEF f1
    <3>1. f1 \in Texts /\ s \in Texts /\ p \in Texts
      BY <1>1, <1>8
    <3>. QED  BY ONLY <3>1, TextsJoin, Regroup2
  <2>3. a ++ <<>> = a
    <3>. HIDE DEF a
    <3>. QED  BY <2>2, TextsJoin DEF Joins
  <2>4. (a ++ z) ++ n = a ++ (z ++ n) /\ a ++ (z ++ n) \in Texts
    <3>. HIDE DEF a
    <3>1. a \in Texts /\ z \in Texts /\ n \in Texts
      BY <1>1, <1>5, <2>2
    <3>. QED  BY ONLY <3>1, TextsJoin, Regroup2
  <2>5. (a ++ (z ++ n)) ++ <<>> = a ++ (z ++ n)
    <3>. HIDE DEF a
    <3>. QED  BY <2>4, TextsJoin DEF Joins
  <2>6. number(num, base, size, precision, type) = (Repeat(" ", room) ++ (s ++ p)) ++ (z ++ n)
    <3>. HIDE DEF f1, f2, f3
    <3>. QED  BY <1>2, <1>4, <2>1, <2>2, <2>3, <2>4, <2>5
  <2>. QED  BY <1>3, <1>5, <1>6, <1>11, <2>6 DEF InField, LeadOf, BodyOf, FillerOf, s, p, n
<1>. QED  BY <1>9, <1>10, <1>11

(* A directive of which only the flags and the sizes are known to be right. *)
Sized(d) ==
  /\ d.flags \in Seq(FlagChar)
  /\ \/ d.width.is = "none"
     \/ d.width.is = "digits" /\ d.width.n \in Nat
     \/ d.width.is = "star" /\ d.width.n \in Int
  /\ \/ d.precision.is = "none"
     \/ d.precision.is = "dot"
     \/ d.precision.is = "digits" /\ d.precision.n \in Nat
     \/ d.precision.is = "star" /\ d.precision.n \in Int

(* The sizes of a directive are as they should be. *)
LEMMA DirectiveSized == \A d \in Directives : Sized(d)
<1>. SUFFICES ASSUME NEW d \in Directives PROVE Sized(d)
  OBVIOUS
<1>1. d.flags \in Seq(FlagChar) /\ d.width \in Widths /\ d.precision \in Precisions
  BY DirectiveFields
<1>2. Word \div 2 \in Nat
  BY WordIs
<1>. HIDE DEF Directives
<1>. QED  BY <1>1, <1>2, WidthCases, PrecisionCases DEF Sized

(* What vsprintf has read of a directive at its conversion. *)
FlagsRead(d) ==
  Range(d.flags) \cup (IF d.width.is = "star" /\ d.width.n < 0 THEN {"-"} ELSE {})
WidthRead(d)     == IF d.width.is = "none" THEN -1 ELSE WidthOf(d)
PrecisionRead(d) == IF d.precision.is = "none" THEN -1 ELSE PrecisionOf(d)

(* The sizes and flags vsprintf has read are those meant. *)
LEMMA SizesRead ==
  ASSUME NEW d, Sized(d)
  PROVE  /\ WidthOf(d) \in Nat /\ WidthRead(d) \in Nat \cup {-1}
         /\ PrecisionRead(d) \in Nat \cup {-1}
         /\ d.width.is = "none" => WidthRead(d) = -1 /\ WidthOf(d) = 0
         /\ d.width.is # "none" => WidthRead(d) = WidthOf(d)
         /\ d.precision.is # "none" => PrecisionRead(d) = PrecisionOf(d) /\ PrecisionOf(d) \in Nat
         /\ FlagsRead(d) \subseteq FlagChar
         /\ LeftAdjusted(d) <=> "-" \in FlagsRead(d)
         /\ \A c : c # "-" => (c \in FlagsRead(d) <=> c \in Range(d.flags))
<1>1. /\ WidthOf(d) \in Nat
      /\ d.width.is = "none" => WidthRead(d) = -1 /\ WidthOf(d) = 0
      /\ d.width.is # "none" => WidthRead(d) = WidthOf(d)
  BY DEF Sized, WidthOf, WidthRead
<1>2. /\ d.precision.is # "none" => PrecisionRead(d) = PrecisionOf(d) /\ PrecisionOf(d) \in Nat
      /\ d.precision.is = "none" => PrecisionRead(d) = -1
  BY DEF Sized, PrecisionOf, PrecisionRead
<1>3. Range(d.flags) \subseteq FlagChar
  BY DEF Sized, Range
<1>4. FlagsRead(d) \subseteq FlagChar
  BY <1>3 DEF FlagsRead, FlagChar
<1>5. LeftAdjusted(d) <=> "-" \in FlagsRead(d)
  BY DEF LeftAdjusted, FlagsRead
<1>6. \A c : c # "-" => (c \in FlagsRead(d) <=> c \in Range(d.flags))
  BY DEF FlagsRead
<1>. QED  BY <1>1, <1>2, <1>4, <1>5, <1>6

(* No room is no room. *)
LEMMA InFieldSame ==
  ASSUME NEW lead \in Texts, NEW body \in Texts, NEW flags, NEW filler,
         NEW r \in Int, NEW s \in Int, r = s \/ (r <= 0 /\ s <= 0)
  PROVE  InField(lead, body, r, flags, filler) = InField(lead, body, s, flags, filler)
<1>1. Repeat(" ", r) = Repeat(" ", s) /\ Repeat("0", r) = Repeat("0", s)
  BY RepeatIs, Letters
<1>. QED  BY <1>1 DEF InField

(* The argument as the qualifier q says. *)
TakenAs(q, w, type) ==
  IF q = <<"h">>
  THEN IF "SIGN" \in type THEN AsShort(w % Short) % Word ELSE w % Short
  ELSE w

(* The argument number is given has the sign and the magnitude of the      *)
(* value meant.                                                            *)
LEMMA ValueIs ==
  ASSUME NEW d, NEW c \in IntegerChar, d.conversion = <<c>>,
         d.args[1].word \in 0..(Word - 1), NEW type, "SIGN" \in type <=> c \in {"d", "i"}
  PROVE  LET num == TakenAs(d.qualifier, d.args[1].word, type)
         IN  /\ num \in 0..(Word - 1) /\ ValueOf(d) \in Int
             /\ Minus(num, type) <=> ValueOf(d) < 0
             /\ Magnitude(num, type) = IF ValueOf(d) < 0 THEN -ValueOf(d) ELSE ValueOf(d)
<1>. DEFINE w == d.args[1].word
            q == d.qualifier
            h == w % Short
            num == TakenAs(q, w, type)
<1>1. /\ Short \in Nat \ {0} /\ Word \in Nat \ {0} /\ Short = 2 * (Short \div 2)
      /\ Word = 2 * (Word \div 2) /\ Short <= Word \div 2
      /\ Short \div 2 \in Nat /\ Word \div 2 \in Nat
  BY WordIs
<1>2. w \in 0..(Word - 1) /\ h \in 0..(Short - 1)
  <2>1. w \in 0..(Word - 1) /\ w \in Int
    BY <1>1
  <2>. QED  BY <1>1, <2>1
<1>3. d.conversion[1] = c
  OBVIOUS
<1>. HIDE DEF w, h
<1>4. CASE q = <<"h">> /\ c \in {"d", "i"}
  <2>. DEFINE v == AsShort(h)
  <2>1. v \in Int /\ v < Short \div 2 /\ v >= -(Short \div 2)
    BY <1>1, <1>2 DEF AsShort
  <2>2. ValueOf(d) = v /\ num = v % Word
    BY <1>3, <1>4 DEF ValueOf, TakenAs, w, h
  <2>. HIDE DEF v
  <2>3. v >= 0 => v % Word = v
    BY <1>1, <2>1
  <2>4. v < 0 => v % Word = Word + v
    BY <1>1, <2>1
  <2>. HIDE DEF num
  <2>5. num \in 0..(Word - 1) /\ (num >= Word \div 2 <=> v < 0)
    BY <1>1, <2>1, <2>2, <2>3, <2>4
  <2>6. Minus(num, type) <=> v < 0
    BY <1>4, <2>5 DEF Minus
  <2>7. Magnitude(num, type) = IF v < 0 THEN -v ELSE v
    BY <1>1, <2>1, <2>2, <2>3, <2>4, <2>6 DEF Magnitude
  <2>. QED  BY <2>1, <2>2, <2>5, <2>6, <2>7 DEF num, q, w
<1>5. CASE q = <<"h">> /\ c \notin {"d", "i"}
  <2>1. ValueOf(d) = h /\ num = h
    BY <1>3, <1>5 DEF ValueOf, TakenAs, w, h
  <2>. HIDE DEF num
  <2>2. ~Minus(num, type) /\ Magnitude(num, type) = h /\ h \in 0..(Word - 1) /\ ~(h < 0)
    BY <1>1, <1>2, <1>5, <2>1 DEF Minus, Magnitude
  <2>. QED  BY <1>2, <2>1, <2>2 DEF num, q, w
<1>6. CASE q # <<"h">> /\ c \in {"d", "i"}
  <2>1. ValueOf(d) = AsInt(w) /\ num = w
    BY <1>3, <1>6 DEF ValueOf, TakenAs, w, h
  <2>. HIDE DEF num
  <2>2. AsInt(w) \in Int /\ (w >= Word \div 2 <=> AsInt(w) < 0)
        /\ (AsInt(w) < 0 => -AsInt(w) = Word - w) /\ (~(AsInt(w) < 0) => AsInt(w) = w)
    BY <1>1, <1>2 DEF AsInt
  <2>3. Minus(num, type) <=> AsInt(w) < 0
    BY <1>6, <2>1, <2>2 DEF Minus
  <2>4. Magnitude(num, type) = IF AsInt(w) < 0 THEN -AsInt(w) ELSE AsInt(w)
    BY <2>1, <2>2, <2>3 DEF Magnitude
  <2>. QED  BY <1>2, <2>1, <2>2, <2>3, <2>4 DEF num, q, w
<1>7. CASE q # <<"h">> /\ c \notin {"d", "i"}
  <2>1. ValueOf(d) = w /\ num = w
    BY <1>3, <1>7 DEF ValueOf, TakenAs, w, h
  <2>. HIDE DEF num
  <2>2. ~Minus(num, type) /\ Magnitude(num, type) = w /\ ~(w < 0)
    BY <1>1, <1>2, <1>7, <2>1 DEF Minus, Magnitude
  <2>. QED  BY <1>2, <2>1, <2>2 DEF num, q, w
<1>. QED  BY <1>4, <1>5, <1>6, <1>7

(* An integer conversion writes what it means. *)
LEMMA IntegerIs ==
  ASSUME NEW d, Sized(d), NEW c \in IntegerChar, d.conversion = <<c>>,
         d.args[1].word \in 0..(Word - 1)
  PROVE  LET type == FlagsRead(d) \cup TypeOf(c)
         IN  /\ IntegerRendered(d) \in Texts
             /\ number(TakenAs(d.qualifier, d.args[1].word, type), BaseOf(c),
                       WidthRead(d), PrecisionRead(d), type) = IntegerRendered(d)
<1>. DEFINE type == FlagsRead(d) \cup TypeOf(c)
            num == TakenAs(d.qualifier, d.args[1].word, type)
            base == BaseOf(c)
            v == ValueOf(d)
            flags == Range(d.flags)
            digits == Numeral(IF v < 0 THEN -v ELSE v, BaseOf(c), c = "X")
            least == IF d.precision.is = "none" THEN 1 ELSE PrecisionOf(d)
            sign == IF v < 0 THEN <<"-">>
                    ELSE IF c \in {"d", "i"} /\ "+" \in flags THEN <<"+">>
                    ELSE IF c \in {"d", "i"} /\ " " \in flags THEN <<" ">> ELSE <<>>
            prefix == IF "#" \notin flags THEN <<>>
                      ELSE IF c = "o" THEN <<"0">>
                      ELSE IF c \in {"x", "X"} THEN <<"0", c>> ELSE <<>>
            filler == IF "0" \in flags THEN "0" ELSE " "
            zeros == Repeat("0", least - Len(digits))
            size == WidthRead(d)
            prec == PrecisionRead(d)
<1>1. /\ "SIGN" \in type <=> c \in {"d", "i"}
      /\ "LARGE" \in type <=> c = "X"
      /\ \A f \in FlagChar : f \in type <=> f \in FlagsRead(d)
      /\ base \in {8, 10, 16}
  <2>1. FlagsRead(d) \subseteq FlagChar
    BY SizesRead
  <2>2. "SIGN" \notin FlagChar /\ "LARGE" \notin FlagChar
    BY DEF FlagChar
  <2>3. c \in {"o", "X", "x", "d", "i", "u"}
    BY DEF IntegerChar
  <2>4. "SIGN" \in TypeOf(c) <=> c \in {"d", "i"}
    BY <2>3 DEF TypeOf
  <2>5. "LARGE" \in TypeOf(c) <=> c = "X"
    BY <2>3 DEF TypeOf
  <2>6. \A f \in FlagChar : f \notin TypeOf(c)
    BY <2>2, <2>3 DEF TypeOf
  <2>7. base \in {8, 10, 16}
    BY <2>3 DEF BaseOf
  <2>. QED  BY <2>1, <2>2, <2>4, <2>5, <2>6, <2>7
<1>2. /\ "0" \in type <=> "0" \in flags
      /\ "+" \in type <=> "+" \in flags
      /\ " " \in type <=> " " \in flags
      /\ "#" \in type <=> "#" \in flags
      /\ "-" \in type <=> LeftAdjusted(d)
  <2>1. "0" \in FlagChar /\ "+" \in FlagChar /\ " " \in FlagChar /\ "#" \in FlagChar
        /\ "-" \in FlagChar
    BY DEF FlagChar
  <2>2. "0" # "-" /\ "+" # "-" /\ " " # "-" /\ "#" # "-"
    OBVIOUS
  <2>3. \A f : f # "-" => (f \in FlagsRead(d) <=> f \in flags)
    BY SizesRead
  <2>4. LeftAdjusted(d) <=> "-" \in FlagsRead(d)
    BY SizesRead
  <2>. HIDE DEF type, flags
  <2>. QED  BY <1>1, <2>1, <2>2, <2>3, <2>4
<1>3. /\ num \in 0..(Word - 1) /\ v \in Int
      /\ Minus(num, type) <=> v < 0
      /\ Magnitude(num, type) = IF v < 0 THEN -v ELSE v
  <2>. HIDE DEF type
  <2>. QED  BY <1>1, ValueIs
<1>4. size \in Int /\ prec \in Int /\ WidthOf(d) \in Nat
  BY SizesRead
<1>. HIDE DEF type, num, v, flags, size, prec
<1>5. SignOf(num, type) = sign
  BY <1>1, <1>2, <1>3 DEF SignOf
<1>6. PrefixOf(base, type) = prefix
  <2>1. c \in {"o", "X", "x", "d", "i", "u"}
    BY DEF IntegerChar
  <2>2. /\ base = 8 <=> c = "o"
        /\ base = 16 <=> c \in {"x", "X"}
        /\ base = 10 <=> c \in {"d", "i", "u"}
    BY <2>1 DEF BaseOf
  <2>. HIDE DEF base
  <2>3. CASE c = "o"
    BY <1>1, <1>2, <2>2, <2>3 DEF PrefixOf
  <2>4. CASE c = "x"
    BY <1>1, <1>2, <2>2, <2>4 DEF PrefixOf
  <2>5. CASE c = "X"
    BY <1>1, <1>2, <2>2, <2>5 DEF PrefixOf
  <2>6. CASE c \in {"d", "i", "u"}
    BY <1>1, <1>2, <2>2, <2>6 DEF PrefixOf
  <2>. QED  BY <2>1, <2>3, <2>4, <2>5, <2>6
<1>7. NumeralOf(num, base, type) = digits
  <2>1. ("LARGE" \in type) = (c = "X")
    BY <1>1
  <2>. QED  BY <1>3, <2>1 DEF NumeralOf
<1>. HIDE DEF base
<1>8. Len(NumeralOf(num, base, type)) \in Nat \ {0}
  BY <1>1, <1>3, <1>4, PartsOfNumber
<1>. HIDE DEF digits, sign, prefix
<1>9. ZerosOf(num, base, prec, type) = zeros
  <2>1. Len(digits) \in Nat \ {0} /\ ZerosOf(num, base, prec, type) = Repeat("0", prec - Len(digits))
    BY <1>7, <1>8 DEF ZerosOf
  <2>2. CASE d.precision.is = "none"
    <3>1. prec = -1 /\ least = 1
      BY <2>2 DEF prec, PrecisionRead
    <3>2. prec - Len(digits) <= 0 /\ least - Len(digits) <= 0 /\ prec - Len(digits) \in Int
          /\ least - Len(digits) \in Int
      BY <2>1, <3>1
    <3>. HIDE DEF least
    <3>. QED  BY <2>1, <3>2, RepeatIs, Letters
  <2>3. CASE d.precision.is # "none"
    BY <2>1, <2>3 DEF prec, PrecisionRead
  <2>. QED  BY <2>2, <2>3
<1>. DEFINE lead == sign ++ prefix
            body == zeros ++ digits
<1>10. IntegerRendered(d) = Field(d, lead, body, filler)
  <2>1. d.conversion[1] = c
    OBVIOUS
  <2>. QED  BY <2>1 DEF IntegerRendered, ++, v, flags, sign, prefix, digits
<1>. HIDE DEF zeros
<1>11. LeadOf(num, base, type) = lead /\ BodyOf(num, base, prec, type) = body
  BY <1>5, <1>6, <1>7, <1>9 DEF LeadOf, BodyOf
<1>12. (IF "0" \in type THEN "0" ELSE " ") = filler
  BY ONLY <1>2 DEF filler
<1>. HIDE DEF lead, body, filler
<1>13. /\ lead \in Texts /\ body \in Texts /\ Len(lead) \in Nat /\ Len(body) \in Nat
       /\ number(num, base, size, prec, type)
            = InField(lead, body, size - Len(lead) - Len(body), type, filler)
  <2>. DEFINE L == LeadOf(num, base, type)
              B == BodyOf(num, base, prec, type)
              F == FillerOf(type)
  <2>1. num \in 0..(Word - 1) /\ base \in {8, 10, 16} /\ size \in Int /\ prec \in Int
    BY <1>1, <1>3, <1>4
  <2>2. /\ L \in Texts /\ B \in Texts /\ Len(L) \in Nat /\ Len(B) \in Nat
        /\ number(num, base, size, prec, type)
             = InField(L, B, size - Len(L) - Len(B), type, F)
    BY ONLY <2>1, NumberIs
  <2>3. L = lead /\ B = body /\ F = filler
    BY <1>11, <1>12 DEF FillerOf
  <2>. HIDE DEF L, B, F
  <2>. QED  BY ONLY <2>2, <2>3
<1>14. lead \in Texts /\ body \in Texts /\ Len(lead) \in Nat /\ Len(body) \in Nat
  BY ONLY <1>13
<1>15. Field(d, lead, body, filler)
         = InField(lead, body, WidthOf(d) - Len(lead) - Len(body), type, filler)
  BY <1>2 DEF Field, InField, ++
<1>16. size = WidthOf(d) \/ (size = -1 /\ WidthOf(d) = 0)
  BY SizesRead DEF size
<1>. DEFINE r == size - Len(lead) - Len(body)
            s == WidthOf(d) - Len(lead) - Len(body)
<1>17. r \in Int /\ s \in Int /\ (r = s \/ (r <= 0 /\ s <= 0))
  BY ONLY <1>4, <1>14, <1>16
<1>18. number(num, base, size, prec, type) = InField(lead, body, r, type, filler)
       /\ IntegerRendered(d) = InField(lead, body, s, type, filler)
  BY <1>10, <1>13, <1>15
<1>. HIDE DEF r, s
<1>19. /\ InField(lead, body, r, type, filler) = InField(lead, body, s, type, filler)
       /\ InField(lead, body, s, type, filler) \in Texts
  BY ONLY <1>14, <1>17, InFieldSame, InFieldTyped
<1>20. number(num, base, size, prec, type) = IntegerRendered(d) /\ IntegerRendered(d) \in Texts
  BY ONLY <1>18, <1>19
<1>. QED  BY <1>20 DEF num, base, type, size, prec

-----------------------------------------------------------------------------
(* What the conversions write.                                             *)

(* The ten digits are characters. *)
LEMMA TableDigits == {"0", "1", "2", "3", "4", "5", "6", "7", "8", "9"} \subseteq Character
BY Meanings

(* A byte as the nested sprintf writes it: in decimal, in two hexadecimal  *)
(* digits.                                                                 *)
LEMMA ByteIs ==
  ASSUME NEW b \in 0..(Byte - 1)
  PROVE  /\ number(b, 10, -1, -1, {"SIGN"}) = Numeral(b, 10, FALSE)
         /\ number(b, 16, 2, -1, {"0", "LARGE"}) = TwoDigits(b)
         /\ Numeral(b, 10, FALSE) \in Texts /\ TwoDigits(b) \in Texts
<1>1. b \in 0..(Word - 1) /\ b < Word \div 2 /\ b \in Nat /\ Word \div 2 \in Nat
  BY WordIs
<1>. DEFINE e == <<>>
<1>2. e \in Texts /\ Len(e) = 0 /\ e ++ e = e
  BY TextsJoin DEF Joins
<1>3. \A type : ~Minus(b, type) /\ Magnitude(b, type) = b
  <2>1. ~(b >= Word \div 2)
    BY <1>1
  <2>. QED  BY <2>1 DEF Minus, Magnitude
<1>4. number(b, 10, -1, -1, {"SIGN"}) = Numeral(b, 10, FALSE) /\ Numeral(b, 10, FALSE) \in Texts
  <2>. DEFINE T == {"SIGN"}
              N == Numeral(b, 10, FALSE)
              Z == Repeat("0", -1 - Len(N))
  <2>1. SignOf(b, T) = e /\ PrefixOf(10, T) = e /\ NumeralOf(b, 10, T) = N /\ FillerOf(T) = " "
        /\ "-" \notin T
    <3>1. "#" \notin T /\ "+" \notin T /\ " " \notin T /\ "0" \notin T /\ "-" \notin T
      OBVIOUS
    <3>2. ("LARGE" \in T) = FALSE
      OBVIOUS
    <3>. HIDE DEF T
    <3>3. SignOf(b, T) = e /\ PrefixOf(10, T) = e /\ FillerOf(T) = " "
      BY <1>3, <3>1 DEF SignOf, PrefixOf, FillerOf
    <3>4. NumeralOf(b, 10, T) = N
      BY <1>3, <3>2 DEF NumeralOf
    <3>. QED  BY <3>1, <3>3, <3>4
  <2>2. ZerosOf(b, 10, -1, T) = Z
    BY <2>1 DEF ZerosOf
  <2>3. N \in Texts /\ Len(N) \in Nat \ {0}
    <3>1. 10 \in {8, 10, 16} /\ -1 \in Int
      OBVIOUS
    <3>. HIDE DEF T, N
    <3>. QED  BY <1>1, <2>1, <3>1, PartsOfNumber
  <2>4. Z = e
    <3>. HIDE DEF N
    <3>0. Len(N) \in Nat
      BY <2>3
    <3>1. -1 - Len(N) \in Int /\ -1 - Len(N) <= 0
      BY ONLY <3>0
    <3>. QED  BY <3>1, RepeatIs, Letters
  <2>. HIDE DEF T, N, Z, e
  <2>5. LeadOf(b, 10, T) = e /\ BodyOf(b, 10, -1, T) = N
    <3>1. e ++ N = N
      BY <2>3, TextsJoin DEF Joins, e
    <3>. QED  BY <1>2, <2>1, <2>2, <2>4, <3>1 DEF LeadOf, BodyOf
  <2>6. number(b, 10, -1, -1, T) = InField(e, N, -1 - Len(e) - Len(N), T, " ")
    <3>1. number(b, 10, -1, -1, T)
            = InField(LeadOf(b, 10, T), BodyOf(b, 10, -1, T),
                     -1 - Len(LeadOf(b, 10, T)) - Len(BodyOf(b, 10, -1, T)), T, FillerOf(T))
      <4>1. 10 \in {8, 10, 16} /\ -1 \in Int
        OBVIOUS
      <4>. QED  BY <1>1, <4>1, NumberIs
    <3>. QED  BY <2>1, <2>5, <3>1
  <2>. DEFINE r == -1 - Len(e) - Len(N)
  <2>7. Repeat(" ", r) = e
    <3>1. r \in Int /\ r <= 0
      BY <1>2, <2>3
    <3>. HIDE DEF r
    <3>. QED  BY <3>1, RepeatIs, Letters DEF e
  <2>8. (e ++ e) ++ N = N
    BY <1>2, <2>3, TextsJoin DEF Joins, e
  <2>. HIDE DEF r
  <2>9. InField(e, N, r, T, " ") = N
    BY <2>1, <2>7, <2>8 DEF InField
  <2>. QED  BY <2>3, <2>6, <2>9 DEF r, T, N
<1>5. number(b, 16, 2, -1, {"0", "LARGE"}) = TwoDigits(b) /\ TwoDigits(b) \in Texts
  <2>. DEFINE T == {"0", "LARGE"}
              N == Numeral(b, 16, TRUE)
              Z == Repeat("0", -1 - Len(N))
  <2>1. SignOf(b, T) = e /\ PrefixOf(16, T) = e /\ NumeralOf(b, 16, T) = N /\ FillerOf(T) = "0"
        /\ "-" \notin T
    <3>1. "SIGN" \notin T /\ "#" \notin T /\ "LARGE" \in T /\ "0" \in T /\ "-" \notin T
      OBVIOUS
    <3>2. ("LARGE" \in T) = TRUE
      OBVIOUS
    <3>. HIDE DEF T
    <3>3. SignOf(b, T) = e /\ PrefixOf(16, T) = e /\ FillerOf(T) = "0"
      BY <1>3, <3>1 DEF SignOf, PrefixOf, FillerOf
    <3>4. NumeralOf(b, 16, T) = N
      BY <1>3, <3>2 DEF NumeralOf
    <3>. QED  BY <3>1, <3>3, <3>4
  <2>2. ZerosOf(b, 16, -1, T) = Z
    BY <2>1 DEF ZerosOf
  <2>3. N \in Texts /\ Len(N) \in Nat \ {0}
    <3>1. 16 \in {8, 10, 16} /\ -1 \in Int
      OBVIOUS
    <3>. HIDE DEF T, N
    <3>. QED  BY <1>1, <2>1, <3>1, PartsOfNumber
  <2>4. Z = e
    <3>. HIDE DEF N
    <3>0. Len(N) \in Nat
      BY <2>3
    <3>1. -1 - Len(N) \in Int /\ -1 - Len(N) <= 0
      BY ONLY <3>0
    <3>. QED  BY <3>1, RepeatIs, Letters
  <2>. HIDE DEF T, N, Z, e
  <2>5. LeadOf(b, 16, T) = e /\ BodyOf(b, 16, -1, T) = N
    <3>1. e ++ N = N
      BY <2>3, TextsJoin DEF Joins, e
    <3>. QED  BY <1>2, <2>1, <2>2, <2>4, <3>1 DEF LeadOf, BodyOf
  <2>6. number(b, 16, 2, -1, T) = InField(e, N, 2 - Len(e) - Len(N), T, "0")
    <3>1. number(b, 16, 2, -1, T)
            = InField(LeadOf(b, 16, T), BodyOf(b, 16, -1, T),
                     2 - Len(LeadOf(b, 16, T)) - Len(BodyOf(b, 16, -1, T)), T, FillerOf(T))
      <4>1. 16 \in {8, 10, 16} /\ -1 \in Int /\ 2 \in Int
        OBVIOUS
      <4>. QED  BY <1>1, <4>1, NumberIs
    <3>. QED  BY <2>1, <2>5, <3>1
  <2>. DEFINE r == 2 - Len(e) - Len(N)
              F == Repeat("0", 2 - Len(N))
  <2>7. r = 2 - Len(N) /\ r \in Int
    BY <1>2, <2>3
  <2>8. Repeat("0", r) = F /\ F \in Texts
    BY <2>7, RepeatIs, Letters
  <2>. HIDE DEF r, F
  <2>9. e ++ F = F /\ F ++ N \in Texts
    BY <2>3, <2>8, TextsJoin DEF Joins, e
  <2>10. InField(e, N, r, T, "0") = F ++ N
    BY <2>1, <2>8, <2>9 DEF InField
  <2>11. TwoDigits(b) = F ++ N
    BY DEF TwoDigits, F, N, ++
  <2>. QED  BY <2>6, <2>9, <2>10, <2>11 DEF r, T
<1>. QED  BY <1>4, <1>5

(* A separator behind each piece, the last one taken back: a separator in  *)
(* front of each but the first.                                            *)
LEMMA Separated ==
  ASSUME NEW R \in Seq(Texts), R # <<>>, NEW c \in Character
  PROVE  LET behind == [k \in 1..Len(R) |-> R[k] \o <<c>>]
             before == [k \in 1..Len(R) |-> (IF k = 1 THEN <<>> ELSE <<c>>) \o R[k]]
         IN  /\ Front(FlattenSeq(behind)) = FlattenSeq(before) /\ FlattenSeq(before) \in Texts
             /\ Len(R) = 4 =>
                  FlattenSeq(before) = (((((R[1] \o <<c>>) \o R[2]) \o <<c>>) \o R[3]) \o <<c>>) \o R[4]
<1>. DEFINE N == Len(R)
            s == <<c>>
            behind == [k \in 1..N |-> R[k] \o s]
            before == [k \in 1..N |-> (IF k = 1 THEN <<>> ELSE s) \o R[k]]
            A(n) == FlattenSeq(SubSeq(behind, 1, n))
            B(n) == FlattenSeq(SubSeq(before, 1, n))
<1>1. N \in Nat \ {0} /\ s \in Texts /\ \A k \in 1..N : R[k] \in Texts
  BY DEF Texts
<1>. HIDE DEF s, N
<1>2. ASSUME NEW k \in 1..N
      PROVE  /\ behind[k] = R[k] ++ s /\ behind[k] \in Texts
             /\ k = 1 => before[k] = R[k]
             /\ k # 1 => before[k] = s ++ R[k]
             /\ before[k] \in Texts
  <2>1. R[k] \in Texts
    BY <1>1
  <2>2. R[k] ++ s \in Texts /\ s ++ R[k] \in Texts /\ <<>> ++ R[k] = R[k]
    BY <1>1, <2>1, TextsJoin DEF Joins
  <2>3. behind[k] = R[k] ++ s
    BY DEF ++
  <2>4. before[k] = IF k = 1 THEN <<>> ++ R[k] ELSE s ++ R[k]
    BY DEF ++
  <2>. HIDE DEF before, behind
  <2>. QED  BY <2>1, <2>2, <2>3, <2>4
<1>3. behind \in Seq(Texts) /\ before \in Seq(Texts) /\ Len(behind) = N /\ Len(before) = N
  <2>1. \A k \in 1..N : R[k] \o s \in Texts /\ (IF k = 1 THEN <<>> ELSE s) \o R[k] \in Texts
    BY <1>2
  <2>. QED  BY <1>1, <2>1
<1>. HIDE DEF behind, before
<1>4. A(0) = <<>> /\ B(0) = <<>>
  <2>1. SubSeq(behind, 1, 0) = <<>> /\ SubSeq(before, 1, 0) = <<>>
    BY <1>3, SubSeqEmpty
  <2>. QED  BY <2>1, FlattenEmpty
<1>5. ASSUME NEW n \in 1..N
      PROVE  /\ A(n) = A(n - 1) ++ behind[n] /\ A(n - 1) \in Texts
             /\ B(n) = B(n - 1) ++ before[n] /\ B(n - 1) \in Texts
  <2>1. behind \in Seq(Seq(Character)) /\ before \in Seq(Seq(Character))
    BY <1>3 DEF Texts
  <2>2. A(n) = A(n - 1) \o behind[n] /\ A(n - 1) \in Seq(Character)
    BY <1>3, <2>1, FlattenNext
  <2>3. B(n) = B(n - 1) \o before[n] /\ B(n - 1) \in Seq(Character)
    BY <1>3, <2>1, FlattenNext
  <2>. HIDE DEF A, B
  <2>. QED  BY <2>2, <2>3 DEF Texts, ++
<1>6. A(N) = FlattenSeq(behind) /\ B(N) = FlattenSeq(before)
  BY <1>1, <1>3, SubSeqFull
<1>. HIDE DEF A, B
<1>7. ASSUME NEW n \in 1..N PROVE A(n - 1) \in Texts /\ B(n - 1) \in Texts /\ B(n) \in Texts
  <2>1. A(n - 1) \in Texts /\ B(n - 1) \in Texts /\ before[n] \in Texts /\ B(n) = B(n - 1) ++ before[n]
    BY <1>2, <1>5
  <2>2. \A x, y \in Texts : x ++ y \in Texts
    BY TextsJoin DEF Joins
  <2>3. B(n - 1) ++ before[n] \in Texts
    BY <2>1, <2>2
  <2>. QED  BY <2>1, <2>3
<1>. DEFINE T == {n \in Nat : n \in 1..N => A(n) = B(n) ++ s}
<1>8. ASSUME NEW n \in Nat, \A m \in 0..(n - 1) : m \in T PROVE n \in T
  <2>. SUFFICES ASSUME n \in 1..N PROVE A(n) = B(n) ++ s
    OBVIOUS
  <2>1. R[n] \in Texts /\ A(n) = A(n - 1) ++ (R[n] ++ s) /\ A(n - 1) \in Texts /\ B(n - 1) \in Texts
    BY <1>1, <1>2, <1>5
  <2>2. CASE n = 1
    <3>1. A(1) = <<>> ++ (R[1] ++ s) /\ B(1) = <<>> ++ R[1]
      BY <1>2, <1>4, <1>5, <2>1, <2>2
    <3>2. <<>> ++ (R[1] ++ s) = R[1] ++ s /\ <<>> ++ R[1] = R[1]
      BY <1>1, <2>1, <2>2, TextsJoin DEF Joins
    <3>. QED  BY <2>2, <3>1, <3>2
  <2>3. CASE n # 1
    <3>1. n - 1 \in 1..N /\ n - 1 \in 0..(n - 1) /\ n - 1 \in Nat
      BY <1>1, <2>3
    <3>2. A(n - 1) = B(n - 1) ++ s
      BY <1>8, <3>1
    <3>3. B(n) = B(n - 1) ++ (s ++ R[n])
      BY <1>2, <1>5, <2>3
    <3>. DEFINE b == B(n - 1)
                r == R[n]
    <3>4. b \in Texts /\ r \in Texts /\ s \in Texts
      BY <1>1, <2>1
    <3>. HIDE DEF b, r
    <3>5. (b ++ s) ++ (r ++ s) = b ++ (s ++ (r ++ s))
      BY ONLY <3>4, TextsJoin, Regroup3
    <3>6. (b ++ (s ++ r)) ++ s = b ++ (s ++ (r ++ s))
      <4>1. s ++ r \in Texts
        BY ONLY <3>4, TextsJoin, Regroup2
      <4>2. (b ++ (s ++ r)) ++ s = b ++ ((s ++ r) ++ s)
        BY ONLY <3>4, <4>1, TextsJoin, Regroup2
      <4>3. (s ++ r) ++ s = s ++ (r ++ s)
        BY ONLY <3>4, TextsJoin, Regroup2
      <4>. QED  BY ONLY <4>2, <4>3
    <3>. QED  BY <2>1, <3>2, <3>3, <3>5, <3>6 DEF b, r
  <2>. QED  BY <2>2, <2>3
<1>9. \A n \in Nat : n \in T
  <2>. HIDE DEF T
  <2>. QED  BY <1>8, Induction
<1>10. FlattenSeq(behind) = FlattenSeq(before) ++ s /\ FlattenSeq(before) \in Texts
  <2>1. A(N) = B(N) ++ s /\ B(N) \in Texts
    BY <1>1, <1>7, <1>9
  <2>. QED  BY <1>6, <2>1
<1>11. Front(FlattenSeq(behind)) = FlattenSeq(before)
  <2>. DEFINE x == FlattenSeq(before)
  <2>1. x \in Seq(Character) /\ s \in Seq(Character) /\ Len(s) = 1
    BY <1>1, <1>10 DEF Texts, s
  <2>. HIDE DEF x
  <2>2. /\ Len(x \o s) = Len(x) + 1 /\ Len(x) \in Nat
        /\ \A j \in 1..Len(x) : (x \o s)[j] = x[j]
    <3>1. /\ Len(x \o s) = Len(x) + Len(s)
          /\ \A j \in 1..(Len(x) + Len(s)) : (x \o s)[j] = IF j <= Len(x) THEN x[j] ELSE s[j - Len(x)]
      BY ONLY <2>1, ConcatProperties
    <3>2. Len(x) \in Nat
      BY <2>1
    <3>. QED  BY <2>1, <3>1, <3>2
  <2>. DEFINE y == x \o s
  <2>3. Len(y) = Len(x) + 1 /\ Len(x) \in Nat /\ \A j \in 1..Len(x) : y[j] = x[j]
    BY <2>2
  <2>. HIDE DEF y
  <2>4. Front(y) = [j \in 1..Len(x) |-> y[j]]
    BY <2>3 DEF Front
  <2>5. x = [j \in 1..Len(x) |-> x[j]]
    BY <2>1
  <2>. QED  BY <1>10, <2>3, <2>4, <2>5 DEF x, y, ++
<1>12. N = 4 => B(4) = (((((R[1] ++ s) ++ R[2]) ++ s) ++ R[3]) ++ s) ++ R[4]
  <2>. SUFFICES ASSUME N = 4
                PROVE  B(4) = (((((R[1] ++ s) ++ R[2]) ++ s) ++ R[3]) ++ s) ++ R[4]
    OBVIOUS
  <2>. DEFINE a == R[1]
              b == R[2]
              d == R[3]
              e == R[4]
  <2>1. a \in Texts /\ b \in Texts /\ d \in Texts /\ e \in Texts
    BY <1>1
  <2>2. 1 \in 1..N /\ 2 \in 1..N /\ 3 \in 1..N /\ 4 \in 1..N /\ 2 # 1 /\ 3 # 1 /\ 4 # 1
    OBVIOUS
  <2>3. B(1) = B(0) ++ before[1] /\ before[1] = a
    BY <1>2, <1>5, <2>2
  <2>4. B(2) = B(1) ++ before[2] /\ before[2] = s ++ b
    BY <1>2, <1>5, <2>2
  <2>5. B(3) = B(2) ++ before[3] /\ before[3] = s ++ d
    BY <1>2, <1>5, <2>2
  <2>6. B(4) = B(3) ++ before[4] /\ before[4] = s ++ e
    BY <1>2, <1>5, <2>2
  <2>7. <<>> ++ a = a
    BY <2>1, TextsJoin DEF Joins
  <2>. HIDE DEF a, b, d, e
  <2>8. B(2) = (a ++ s) ++ b /\ (a ++ s) ++ b \in Texts
    BY <1>1, <1>4, <2>1, <2>3, <2>4, <2>7, TextsJoin, Regroup2
  <2>. DEFINE p == (a ++ s) ++ b
  <2>9. B(3) = (p ++ s) ++ d /\ (p ++ s) ++ d \in Texts
    <3>1. p \in Texts
      BY <2>8
    <3>2. B(3) = p ++ (s ++ d)
      BY <2>5, <2>8
    <3>. HIDE DEF p
    <3>. QED  BY ONLY <1>1, <2>1, <3>1, <3>2, TextsJoin, Regroup2
  <2>. DEFINE q == (p ++ s) ++ d
  <2>10. B(4) = (q ++ s) ++ e
    <3>1. q \in Texts
      BY <2>9
    <3>2. B(4) = q ++ (s ++ e)
      BY <2>6, <2>9
    <3>. HIDE DEF q
    <3>. QED  BY ONLY <1>1, <2>1, <3>1, <3>2, TextsJoin, Regroup2
  <2>. QED  BY <2>10 DEF a, b, d, e
<1>13. Len(R) = 4 => FlattenSeq(before) = (((((R[1] \o s) \o R[2]) \o s) \o R[3]) \o s) \o R[4]
  BY <1>6, <1>12 DEF N, ++
<1>. QED  BY <1>10, <1>11, <1>13 DEF N, s, behind, before

(* What a conversion has taken. *)
LEMMA ArgumentOf ==
  ASSUME NEW d \in Directives, NEW c, d.conversion = <<c>>
  PROVE  /\ d.conversion # <<>> /\ d.conversion[1] = c /\ c \in Conversions
         /\ c \in Taking => Len(d.args) = 1 /\ d.args[1] \in TakenBy(c)
         /\ c \notin Taking => d.args = <<>>
<1>. DEFINE v == d.conversion
            a == d.args
<1>1. /\ v \in Seq(Conversions) /\ v = <<c>> /\ a \in Seq(Argument)
      /\ Len(a) = IF v # <<>> /\ v[1] \in Taking THEN 1 ELSE 0
      /\ \A k \in 1..Len(a) : a[k] \in TakenBy(v[1])
  BY DirectiveFields
<1>. HIDE DEF v, a
<1>2. v # <<>> /\ v[1] = c /\ c \in Conversions
  BY <1>1
<1>3. c \in Taking => Len(a) = 1 /\ a[1] \in TakenBy(c)
  BY <1>1, <1>2
<1>4. c \notin Taking => a = <<>>
  BY <1>1, <1>2
<1>. QED  BY <1>2, <1>3, <1>4 DEF v, a

(* What each conversion takes. *)
LEMMA TakenIs ==
  /\ \A c \in IntegerChar \cup {"p", "@"} : c \in Taking /\ TakenBy(c) = Words
  /\ "!" \in Taking /\ TakenBy("!") = Bytes
  /\ "c" \in Taking /\ TakenBy("c") = [char : Character]
  /\ "s" \in Taking /\ TakenBy("s") = [string : Seq(Character)] \cup [null : {TRUE}]
  /\ "n" \in Taking /\ TakenBy("n") = [count : {TRUE}]
<1>1. \A c \in IntegerChar \cup {"p", "@"} : c \in Taking /\ TakenBy(c) = Words
  BY DEF Taking, TakenBy, IntegerChar
<1>2. "!" \in Taking /\ TakenBy("!") = Bytes
  BY DEF Taking, TakenBy, IntegerChar
<1>3. "c" \in Taking /\ TakenBy("c") = [char : Character]
  BY DEF Taking, TakenBy, IntegerChar
<1>4. "s" \in Taking /\ TakenBy("s") = [string : Seq(Character)] \cup [null : {TRUE}]
  BY DEF Taking, TakenBy, IntegerChar
<1>5. "n" \in Taking /\ TakenBy("n") = [count : {TRUE}]
  BY DEF Taking, TakenBy, IntegerChar
<1>. QED  BY <1>1, <1>2, <1>3, <1>4, <1>5

(* Padded, when these are the flags read. *)
PaddedIn(flags, piece, size) ==
  LET blanks == Repeat(" ", size - Len(piece))
  IN  IF "-" \in flags THEN piece \o blanks ELSE blanks \o piece

(* The padding of %c and %s is that of the field. *)
LEMMA PaddedIs ==
  ASSUME NEW d, Sized(d), NEW body \in Texts
  PROVE  /\ PaddedIn(FlagsRead(d), body, WidthRead(d)) = Field(d, <<>>, body, " ")
         /\ Field(d, <<>>, body, " ") \in Texts
<1>. DEFINE n == Len(body)
            g == Repeat(" ", WidthRead(d) - n)
            e == <<>>
<1>1. n \in Nat /\ WidthOf(d) \in Nat /\ WidthRead(d) \in Int /\ e \in Texts /\ Len(e) = 0
      /\ (WidthRead(d) = WidthOf(d) \/ (WidthRead(d) = -1 /\ WidthOf(d) = 0))
  <2>1. n \in Nat
    BY DEF Texts
  <2>2. e \in Texts
    BY TextsJoin DEF Joins
  <2>. QED  BY <2>1, <2>2, SizesRead
<1>. HIDE DEF n
<1>2. g = Repeat(" ", WidthOf(d) - Len(e) - n) /\ g \in Texts
  <2>. DEFINE r == WidthRead(d) - n
              s == WidthOf(d) - Len(e) - n
  <2>1. r \in Int /\ s \in Int /\ (r = s \/ (r <= 0 /\ s <= 0))
    BY <1>1
  <2>. HIDE DEF r, s, e
  <2>2. Repeat(" ", r) = Repeat(" ", s) /\ Repeat(" ", r) \in Texts
    BY ONLY <2>1, RepeatIs, Letters
  <2>. QED  BY <2>2 DEF r, s
<1>3. (e ++ body) ++ g = body ++ g /\ (g ++ e) ++ body = g ++ body
      /\ body ++ g \in Texts /\ g ++ body \in Texts
  <2>. HIDE DEF g
  <2>1. <<>> ++ body = body /\ g ++ <<>> = g /\ body ++ g \in Texts /\ g ++ body \in Texts
    BY <1>2, TextsJoin DEF Joins
  <2>. QED  BY <2>1
<1>4. Field(d, e, body, " ") = IF LeftAdjusted(d) THEN (e ++ body) ++ g ELSE (g ++ e) ++ body
  <2>. HIDE DEF e, g
  <2>1. " " # "0"
    OBVIOUS
  <2>. QED  BY <1>2, <2>1 DEF Field, ++, n
<1>5. PaddedIn(FlagsRead(d), body, WidthRead(d)) = IF "-" \in FlagsRead(d) THEN body ++ g ELSE g ++ body
  BY DEF PaddedIn, ++, g, n
<1>6. LeftAdjusted(d) <=> "-" \in FlagsRead(d)
  BY SizesRead
<1>. HIDE DEF g
<1>. QED  BY <1>3, <1>4, <1>5, <1>6

(* One flag more at the end. *)
LEMMA AppendFlag ==
  ASSUME NEW f \in Seq(FlagChar)
  PROVE  /\ Append(f, "0") \in Seq(FlagChar)
         /\ Range(Append(f, "0")) = Range(f) \cup {"0"}
<1>. DEFINE g == Append(f, "0")
            n == Len(f)
<1>1. "0" \in FlagChar
  BY DEF FlagChar
<1>2. /\ g \in Seq(FlagChar) /\ n \in Nat /\ Len(g) = n + 1
      /\ g[n + 1] = "0" /\ \A k \in 1..n : g[k] = f[k]
  BY <1>1, AppendProperties
<1>3. DOMAIN g = 1..(n + 1) /\ DOMAIN f = 1..n
  BY <1>2
<1>. HIDE DEF g, n
<1>4. \A x : x \in Range(g) <=> \E k \in 1..(n + 1) : x = g[k]
  BY <1>3 DEF Range
<1>5. \A x : x \in Range(f) <=> \E k \in 1..n : x = f[k]
  BY <1>3 DEF Range
<1>6. ASSUME NEW x PROVE x \in Range(g) <=> x \in Range(f) \/ x = "0"
  <2>1. x \in Range(g) => x \in Range(f) \/ x = "0"
    BY <1>2, <1>4, <1>5
  <2>2. x \in Range(f) => x \in Range(g)
    BY <1>2, <1>4, <1>5
  <2>3. "0" \in Range(g)
    BY <1>2, <1>4
  <2>. QED  BY <2>1, <2>2, <2>3
<1>7. Range(g) = Range(f) \cup {"0"}
  BY <1>6
<1>. QED  BY <1>2, <1>7 DEF g

(* As much of a string as the precision lets through. *)
LengthKept(s, precision) == IF precision \in 0..Len(s) THEN precision ELSE Len(s)
StringOf(a) == IF "string" \in DOMAIN a THEN a.string ELSE NullText

(* %s lets as much of its string through as the precision says. *)
LEMMA StringIs ==
  ASSUME NEW d \in Directives, d.conversion = <<"s">>
  PROVE  LET s == StringOf(d.args[1])
             kept == SubSeq(s, 1, LengthKept(s, PrecisionRead(d)))
         IN  kept \in Texts /\ StringRendered(d) = Field(d, <<>>, kept, " ")
<1>. DEFINE s == StringOf(d.args[1])
            p == PrecisionRead(d)
            len == LengthKept(s, p)
<1>1. s \in Texts
  <2>1. d.args[1] \in [string : Seq(Character)] \cup [null : {TRUE}]
    BY ArgumentOf, TakenIs
  <2>. QED  BY <2>1, Letters DEF StringOf, Texts
<1>2. p \in Nat \cup {-1}
      /\ (d.precision.is = "none" => p = -1)
      /\ (d.precision.is # "none" => p = PrecisionOf(d) /\ p \in Nat)
  BY DirectiveSized, SizesRead DEF PrecisionRead
<1>. HIDE DEF s, p
<1>3. Len(s) \in Nat /\ len \in 0..Len(s)
  BY <1>1, <1>2 DEF Texts, LengthKept
<1>4. len = IF d.precision.is = "none" \/ PrecisionOf(d) > Len(s) THEN Len(s) ELSE PrecisionOf(d)
  <2>1. CASE d.precision.is = "none"
    BY <1>2, <2>1 DEF LengthKept
  <2>2. CASE d.precision.is # "none"
    BY <1>2, <1>3, <2>2 DEF LengthKept
  <2>. QED  BY <2>1, <2>2
<1>. HIDE DEF len
<1>5. SubSeq(s, 1, len) \in Texts
  <2>1. s \in Seq(Character) /\ \A k \in 1..len : s[k] \in Character
    BY <1>1, <1>3 DEF Texts
  <2>2. SubSeq(s, 1, len) \in Seq(Character)
    BY <1>3, <2>1, SubSeqProperties
  <2>. QED  BY <2>2 DEF Texts
<1>6. StringRendered(d) = Field(d, <<>>, SubSeq(s, 1, len), " ")
  BY <1>4 DEF StringRendered, s, StringOf
<1>. QED  BY <1>5, <1>6 DEF s, p, len

(* %c has a character. *)
LEMMA CharIs ==
  ASSUME NEW d \in Directives, d.conversion = <<"c">>
  PROVE  <<d.args[1].char>> \in Texts
<1>1. d.args[1] \in [char : Character]
  BY ArgumentOf, TakenIs
<1>. QED  BY <1>1 DEF Texts

(* Integers, pointers and addresses have a word. *)
LEMMA WordTaken ==
  ASSUME NEW d \in Directives, NEW c \in IntegerChar \cup {"p", "@"}, d.conversion = <<c>>
  PROVE  d.args[1].word \in 0..(Word - 1)
<1>1. d.args[1] \in Words
  BY ArgumentOf, TakenIs
<1>. QED  BY <1>1 DEF Words

(* %p is a hexadecimal integer, eight digits wide where no width is given. *)
LEMMA PointerIs ==
  ASSUME NEW d \in Directives, d.conversion = <<"p">>
  PROVE  LET bare == WidthRead(d) = -1
         IN  /\ PointerRendered(d) \in Texts
             /\ number(d.args[1].word, 16, IF bare THEN 8 ELSE WidthRead(d), PrecisionRead(d),
                       FlagsRead(d) \cup (IF bare THEN {"0"} ELSE {})) = PointerRendered(d)
<1>. DEFINE bare == WidthRead(d) = -1
            none == d.width.is = "none"
            w == d.args[1].word
            e == [d EXCEPT !.conversion = <<"x">>, !.qualifier = <<>>,
                           !.flags = IF none THEN Append(@, "0") ELSE @,
                           !.width = IF none THEN [is |-> "digits", n |-> 8] ELSE @]
            type == FlagsRead(d) \cup (IF bare THEN {"0"} ELSE {})
            size == IF bare THEN 8 ELSE WidthRead(d)
<1>1. /\ e.conversion = <<"x">> /\ e.qualifier = <<>> /\ e.args = d.args
      /\ e.precision = d.precision
      /\ none => e.flags = Append(d.flags, "0") /\ e.width = [is |-> "digits", n |-> 8]
      /\ ~none => e.flags = d.flags /\ e.width = d.width
  <2>1. DOMAIN d = {"flags", "width", "precision", "qualifier", "conversion", "args"}
    BY DEF Directives
  <2>. QED  BY <2>1
<1>2. PointerRendered(d) = IntegerRendered(e)
  BY DEF PointerRendered
<1>. HIDE DEF e
<1>3. Sized(d) /\ d.flags \in Seq(FlagChar)
  BY DirectiveSized, DirectiveFields
<1>4. bare <=> none
  <2>1. WidthOf(d) \in Nat /\ (none => WidthRead(d) = -1) /\ (~none => WidthRead(d) = WidthOf(d))
    BY <1>3, SizesRead
  <2>. QED  BY <2>1
<1>5. Sized(e)
  <2>1. "0" \in FlagChar
    BY DEF FlagChar
  <2>2. e.flags \in Seq(FlagChar)
    BY <1>1, <1>3, AppendFlag
  <2>3. \/ e.width.is = "none"
        \/ e.width.is = "digits" /\ e.width.n \in Nat
        \/ e.width.is = "star" /\ e.width.n \in Int
    <3>1. CASE none
      BY <1>1, <3>1
    <3>2. CASE ~none
      BY <1>1, <1>3, <3>2 DEF Sized
    <3>. QED  BY <3>1, <3>2
  <2>4. \/ e.precision.is = "none"
        \/ e.precision.is = "dot"
        \/ e.precision.is = "digits" /\ e.precision.n \in Nat
        \/ e.precision.is = "star" /\ e.precision.n \in Int
    BY <1>1, <1>3 DEF Sized
  <2>. QED  BY <2>2, <2>3, <2>4 DEF Sized
<1>6. FlagsRead(e) = type
  <2>1. CASE none
    <3>1. Range(Append(d.flags, "0")) = Range(d.flags) \cup {"0"}
      BY <1>3, AppendFlag
    <3>2. FlagsRead(e) = Range(d.flags) \cup {"0"}
      <4>1. e.width.is # "star" /\ e.flags = Append(d.flags, "0")
        BY <1>1, <2>1
      <4>. QED  BY <3>1, <4>1 DEF FlagsRead
    <3>3. FlagsRead(d) = Range(d.flags)
      BY <2>1 DEF FlagsRead
    <3>. QED  BY <1>4, <2>1, <3>2, <3>3
  <2>2. CASE ~none
    BY <1>1, <1>4, <2>2 DEF FlagsRead
  <2>. QED  BY <2>1, <2>2
<1>7. WidthRead(e) = size
  <2>1. CASE none
    BY <1>1, <1>4, <2>1 DEF WidthRead, WidthOf
  <2>2. CASE ~none
    BY <1>1, <1>4, <2>2 DEF WidthRead, WidthOf
  <2>. QED  BY <2>1, <2>2
<1>8. PrecisionRead(e) = PrecisionRead(d)
  BY <1>1 DEF PrecisionRead, PrecisionOf
<1>9. w \in 0..(Word - 1) /\ e.args[1].word = w
  BY <1>1, WordTaken
<1>. HIDE DEF type, size, w
<1>10. "x" \in IntegerChar /\ TypeOf("x") = {} /\ BaseOf("x") = 16
  BY DEF IntegerChar, TypeOf, BaseOf
<1>11. /\ IntegerRendered(e) \in Texts
       /\ number(TakenAs(e.qualifier, e.args[1].word, FlagsRead(e) \cup TypeOf("x")), BaseOf("x"),
                 WidthRead(e), PrecisionRead(e), FlagsRead(e) \cup TypeOf("x")) = IntegerRendered(e)
  BY <1>1, <1>5, <1>9, <1>10, IntegerIs
<1>12. TakenAs(e.qualifier, w, type) = w
  BY <1>1 DEF TakenAs
<1>13. FlagsRead(e) \cup TypeOf("x") = type
  BY <1>6, <1>10
<1>14. number(w, 16, size, PrecisionRead(d), type) = IntegerRendered(e)
  BY <1>7, <1>8, <1>9, <1>10, <1>11, <1>12, <1>13
<1>. QED  BY <1>2, <1>11, <1>14 DEF type, size, w

(* %@ is four decimal bytes with dots in between. *)
LEMMA AddressIs ==
  ASSUME NEW d \in Directives, d.conversion = <<"@">>
  PROVE  LET w == d.args[1].word
             parts == [k \in 1..4 |->
                         number((w \div Power(Byte, k - 1)) % Byte, 10, -1, -1, {"SIGN"}) \o <<".">>]
         IN  Rendered(d) = Front(FlattenSeq(parts)) /\ Rendered(d) \in Texts
<1>. DEFINE w == d.args[1].word
            n(k) == Numeral((w \div Power(Byte, k)) % Byte, 10, FALSE)
            R == [k \in 1..4 |-> n(k - 1)]
            s == <<".">>
            parts == [k \in 1..4 |->
                        number((w \div Power(Byte, k - 1)) % Byte, 10, -1, -1, {"SIGN"}) \o s]
<1>1. w \in 0..(Word - 1) /\ w \in Nat /\ Byte \in Nat \ {0}
  BY WordTaken, WordIs
<1>2. ASSUME NEW k \in 1..4
      PROVE  /\ number((w \div Power(Byte, k - 1)) % Byte, 10, -1, -1, {"SIGN"}) = n(k - 1)
             /\ n(k - 1) \in Texts
  <2>1. k - 1 \in Nat
    OBVIOUS
  <2>2. Power(Byte, k - 1) \in Nat \ {0}
    BY <1>1, <2>1, PowerIs
  <2>. HIDE DEF w
  <2>3. w \div Power(Byte, k - 1) \in Nat
    BY <1>1, <2>2, Division
  <2>4. (w \div Power(Byte, k - 1)) % Byte \in 0..(Byte - 1)
    BY <1>1, <2>3, Division
  <2>. QED  BY <2>4, ByteIs
<1>. HIDE DEF w, n
<1>3. R \in Seq(Texts) /\ Len(R) = 4 /\ R # <<>>
      /\ R[1] = n(1 - 1) /\ R[2] = n(2 - 1) /\ R[3] = n(3 - 1) /\ R[4] = n(4 - 1)
  BY <1>2
<1>4. parts = [k \in 1..Len(R) |-> R[k] \o s]
  <2>1. \A k \in 1..4 : number((w \div Power(Byte, k - 1)) % Byte, 10, -1, -1, {"SIGN"}) \o s = R[k] \o s
    BY <1>2
  <2>. HIDE DEF R, s
  <2>. QED  BY <1>3, <2>1
<1>. HIDE DEF R, parts
<1>. DEFINE before == [k \in 1..Len(R) |-> (IF k = 1 THEN <<>> ELSE s) \o R[k]]
            x == FlattenSeq(before)
<1>5. /\ Front(FlattenSeq(parts)) = x /\ x \in Texts
      /\ x = (((((R[1] \o s) \o R[2]) \o s) \o R[3]) \o s) \o R[4]
  <2>1. "." \in Character
    BY Meanings
  <2>. QED  BY <1>3, <1>4, <2>1, Separated
<1>. HIDE DEF x
<1>6. Rendered(d) = n(0) \o s \o n(1) \o s \o n(2) \o s \o n(3)
  <2>1. "plain" \notin DOMAIN d /\ d.conversion # <<>> /\ d.conversion[1] = "@"
    BY DirectiveFields, ArgumentOf
  <2>2. "@" \notin IntegerChar
    BY DEF IntegerChar
  <2>. QED  BY <2>1, <2>2 DEF Rendered, n, w
<1>7. R[1] = n(0) /\ R[2] = n(1) /\ R[3] = n(2) /\ R[4] = n(3)
  BY <1>3
<1>8. Rendered(d) = x
  BY ONLY <1>5, <1>6, <1>7
<1>. QED  BY <1>5, <1>8 DEF parts, w

(* %! is six bytes of two hexadecimal digits with colons in between. *)
LEMMA EtherIs ==
  ASSUME NEW d \in Directives, d.conversion = <<"!">>
  PROVE  LET parts == [k \in 1..6 |->
                         number(d.args[1].bytes[k], 16, 2, -1, {"0", "LARGE"}) \o <<":">>]
         IN  Rendered(d) = Front(FlattenSeq(parts)) /\ Rendered(d) \in Texts
<1>. DEFINE b == d.args[1].bytes
            R == [k \in 1..6 |-> TwoDigits(b[k])]
            s == <<":">>
            parts == [k \in 1..6 |-> number(b[k], 16, 2, -1, {"0", "LARGE"}) \o s]
<1>1. b \in [1..6 -> 0..(Byte - 1)]
  <2>1. d.args[1] \in Bytes
    BY ArgumentOf, TakenIs
  <2>. QED  BY <2>1 DEF Bytes
<1>. HIDE DEF b
<1>2. ASSUME NEW k \in 1..6
      PROVE  number(b[k], 16, 2, -1, {"0", "LARGE"}) = TwoDigits(b[k]) /\ TwoDigits(b[k]) \in Texts
  <2>1. b[k] \in 0..(Byte - 1)
    BY <1>1
  <2>. QED  BY <2>1, ByteIs
<1>3. R \in Seq(Texts) /\ Len(R) = 6 /\ R # <<>> /\ \A k \in 1..6 : R[k] = TwoDigits(b[k])
  BY <1>2
<1>4. parts = [k \in 1..Len(R) |-> R[k] \o s]
  <2>1. \A k \in 1..6 : number(b[k], 16, 2, -1, {"0", "LARGE"}) \o s = R[k] \o s
    BY <1>2
  <2>. HIDE DEF R, s
  <2>. QED  BY <1>3, <2>1
<1>. DEFINE before == [k \in 1..Len(R) |-> (IF k = 1 THEN <<>> ELSE s) \o R[k]]
            x == FlattenSeq(before)
<1>5. x = FlattenSeq([k \in 1..6 |-> (IF k = 1 THEN <<>> ELSE s) \o TwoDigits(b[k])])
  BY <1>3
<1>. HIDE DEF R, parts
<1>6. Front(FlattenSeq(parts)) = x /\ x \in Texts
  <2>1. ":" \in Character
    BY Meanings
  <2>. QED  BY <1>3, <1>4, <2>1, Separated
<1>. HIDE DEF x
<1>7. Rendered(d) = FlattenSeq([k \in 1..6 |-> (IF k = 1 THEN <<>> ELSE s) \o TwoDigits(b[k])])
  <2>1. "plain" \notin DOMAIN d /\ d.conversion # <<>> /\ d.conversion[1] = "!"
    BY DirectiveFields, ArgumentOf
  <2>2. "!" \notin IntegerChar
    BY DEF IntegerChar
  <2>. QED  BY <2>1, <2>2 DEF Rendered, b
<1>. QED  BY <1>5, <1>6, <1>7 DEF parts, b

(* What a directive means, by its conversion. *)
LEMMA RenderedIs ==
  ASSUME NEW d \in Directives, NEW c, d.conversion = <<c>>
  PROVE  /\ c \in IntegerChar => Rendered(d) = IntegerRendered(d)
         /\ c = "c" => Rendered(d) = Field(d, <<>>, <<d.args[1].char>>, " ")
         /\ c = "s" => Rendered(d) = StringRendered(d)
         /\ c = "p" => Rendered(d) = PointerRendered(d)
         /\ c = "n" => Rendered(d) = <<>>
         /\ c = "%" => Rendered(d) = <<"%">>
         /\ c \notin Known => Rendered(d) = <<"%", c>>
<1>1. "plain" \notin DOMAIN d /\ d.conversion # <<>> /\ d.conversion[1] = c
  BY DirectiveFields, ArgumentOf
<1>2. \A x \in {"c", "s", "p", "n", "%", "@", "!"} : x \notin IntegerChar
  BY DEF IntegerChar
<1>3. c \notin Known => /\ c \notin IntegerChar
                        /\ c \notin {"c", "s", "p", "n", "%", "@", "!"}
  BY DEF Known
<1>4. c \in IntegerChar => Rendered(d) = IntegerRendered(d)
  BY <1>1, <1>2 DEF Rendered
<1>5. c = "c" => Rendered(d) = Field(d, <<>>, <<d.args[1].char>>, " ")
  BY <1>1, <1>2 DEF Rendered
<1>6. c = "s" => Rendered(d) = StringRendered(d)
  BY <1>1, <1>2 DEF Rendered
<1>7. c = "p" => Rendered(d) = PointerRendered(d)
  BY <1>1, <1>2 DEF Rendered
<1>8. c = "n" => Rendered(d) = <<>>
  BY <1>1, <1>2 DEF Rendered
<1>9. c = "%" => Rendered(d) = <<"%">>
  BY <1>1, <1>2 DEF Rendered
<1>10. c \notin Known => Rendered(d) = <<"%", c>>
  BY <1>1, <1>3 DEF Rendered
<1>. QED  BY <1>4, <1>5, <1>6, <1>7, <1>8, <1>9, <1>10

(* What an item means is a text. *)
LEMMA RenderedTyped ==
  ASSUME NEW item \in Items
  PROVE  Rendered(item) \in Texts
<1>1. CASE "plain" \in DOMAIN item /\ item.plain \in Character \ {"%"}
  <2>1. Rendered(item) = <<item.plain>>
    BY <1>1 DEF Rendered
  <2>. QED  BY <1>1, <2>1 DEF Texts
<1>2. CASE item \in Directives /\ item.conversion = <<>>
  BY <1>2, DirectiveFields, Letters DEF Rendered
<1>3. CASE item \in Directives /\ item.conversion # <<>>
  <2>. DEFINE c == item.conversion[1]
  <2>1. item.conversion = <<c>> /\ c \in Conversions
    <3>1. item.conversion \in Seq(Conversions) /\ Len(item.conversion) \in {0, 1}
      BY <1>3, DirectiveFields
    <3>2. Len(item.conversion) = 1
      BY <1>3, <3>1
    <3>. QED  BY <3>1, <3>2
  <2>. HIDE DEF c
  <2>2. CASE c \in IntegerChar
    <3>1. Sized(item) /\ item.args[1].word \in 0..(Word - 1)
      BY <1>3, <2>1, <2>2, DirectiveSized, WordTaken
    <3>2. IntegerRendered(item) \in Texts
      BY <2>1, <2>2, <3>1, IntegerIs
    <3>. QED  BY <1>3, <2>1, <2>2, <3>2, RenderedIs
  <2>3. CASE c = "c"
    <3>1. <<item.args[1].char>> \in Texts /\ Sized(item)
      BY <1>3, <2>1, <2>3, CharIs, DirectiveSized
    <3>2. Field(item, <<>>, <<item.args[1].char>>, " ") \in Texts
      BY <3>1, PaddedIs
    <3>. QED  BY <1>3, <2>1, <2>3, <3>2, RenderedIs
  <2>4. CASE c = "s"
    <3>. DEFINE kept == SubSeq(StringOf(item.args[1]), 1,
                               LengthKept(StringOf(item.args[1]), PrecisionRead(item)))
    <3>1. kept \in Texts /\ StringRendered(item) = Field(item, <<>>, kept, " ") /\ Sized(item)
      BY <1>3, <2>1, <2>4, StringIs, DirectiveSized
    <3>. HIDE DEF kept
    <3>2. Field(item, <<>>, kept, " ") \in Texts
      BY <3>1, PaddedIs
    <3>. QED  BY <1>3, <2>1, <2>4, <3>1, <3>2, RenderedIs
  <2>5. CASE c = "p"
    <3>1. PointerRendered(item) \in Texts
      BY <1>3, <2>1, <2>5, PointerIs
    <3>. QED  BY <1>3, <2>1, <2>5, <3>1, RenderedIs
  <2>6. CASE c = "n"
    <3>1. <<>> \in Texts
      BY TextsJoin DEF Joins
    <3>. QED  BY <1>3, <2>1, <2>6, <3>1, RenderedIs
  <2>7. CASE c = "%"
    BY <1>3, <2>1, <2>7, RenderedIs, Letters
  <2>8. CASE c = "@"
    BY <1>3, <2>1, <2>8, AddressIs
  <2>9. CASE c = "!"
    BY <1>3, <2>1, <2>9, EtherIs
  <2>10. CASE c \notin Known
    <3>1. Rendered(item) = <<"%", c>>
      BY <1>3, <2>1, <2>10, RenderedIs
    <3>2. c \in Character /\ "%" \in Character
      BY <2>1, Meanings DEF Conversions
    <3>. QED  BY <3>1, <3>2 DEF Texts
  <2>. QED  BY <2>2, <2>3, <2>4, <2>5, <2>6, <2>7, <2>8, <2>9, <2>10 DEF Known
<1>. QED  BY <1>1, <1>2, <1>3, ItemCases

(* One more item, one more piece of text. *)
LEMMA RenderingNext ==
  ASSUME NEW m, m \in Seq(Items), NEW k \in 1..Len(m)
  PROVE  /\ Rendering(UpTo(m, k)) = Rendering(UpTo(m, k - 1)) ++ Rendered(m[k])
         /\ Rendering(UpTo(m, k - 1)) \in Texts /\ Rendered(m[k]) \in Texts
         /\ Rendering(UpTo(m, k)) \in Texts
<1>. DEFINE S == Shown(m)
            E == Character
<1>1. Len(m) \in Nat /\ m[k] \in Items
  OBVIOUS
<1>2. S \in Seq(Seq(E)) /\ Len(S) = Len(m) /\ S[k] = Rendered(m[k])
  <2>1. \A j \in 1..Len(m) : Rendered(m[j]) \in Seq(E)
    BY RenderedTyped DEF Texts
  <2>. QED  BY <1>1, <2>1 DEF Shown
<1>3. Rendering(UpTo(m, k)) = FlattenSeq(SubSeq(S, 1, k))
      /\ Rendering(UpTo(m, k - 1)) = FlattenSeq(SubSeq(S, 1, k - 1))
  <2>1. k \in 0..Len(m) /\ k - 1 \in 0..Len(m)
    BY <1>1
  <2>2. Shown(UpTo(m, k)) = SubSeq(S, 1, k) /\ Shown(UpTo(m, k - 1)) = SubSeq(S, 1, k - 1)
    BY <2>1, ShownUpTo
  <2>3. \A x : Rendering(x) = FlattenSeq(Shown(x))
    BY DEF Rendering, Shown
  <2>. QED  BY <2>2, <2>3
<1>. HIDE DEF S, E
<1>4. /\ FlattenSeq(SubSeq(S, 1, k)) = FlattenSeq(SubSeq(S, 1, k - 1)) \o S[k]
      /\ FlattenSeq(SubSeq(S, 1, k - 1)) \in Seq(E) /\ S[k] \in Seq(E)
  <2>1. k \in 1..Len(S) /\ S \in Seq(Seq(E))
    BY <1>2
  <2>. QED  BY ONLY <2>1, FlattenNext
<1>5. Rendering(UpTo(m, k - 1)) \in Texts /\ Rendered(m[k]) \in Texts
  BY <1>2, <1>3, <1>4 DEF E, Texts
<1>6. Rendering(UpTo(m, k - 1)) ++ Rendered(m[k]) \in Texts
  BY <1>5, TextsJoin DEF Joins
<1>7. Rendering(UpTo(m, k)) = Rendering(UpTo(m, k - 1)) ++ Rendered(m[k])
  BY <1>2, <1>3, <1>4 DEF ++
<1>. QED  BY <1>5, <1>6, <1>7

(* What %n stores of an item. *)
CountAt(m, k) ==
  IF "plain" \notin DOMAIN m[k] /\ m[k].conversion = <<"n">>
  THEN <<Len(Rendering(UpTo(m, k - 1)))>> ELSE <<>>
Noted(m) == [k \in 1..Len(m) |-> CountAt(m, k)]

(* One more item, one more count if it asks for one. *)
LEMMA CountsNext ==
  ASSUME NEW m, m \in Seq(Items), NEW k \in 1..Len(m)
  PROVE  /\ Counts(UpTo(m, k)) = Counts(UpTo(m, k - 1)) \o CountAt(m, k)
         /\ Counts(UpTo(m, k - 1)) \in Seq(Nat) /\ CountAt(m, k) \in Seq(Nat)
<1>. DEFINE S == Noted(m)
            E == Nat
<1>1. Len(m) \in Nat
  OBVIOUS
<1>2. S \in Seq(Seq(E)) /\ Len(S) = Len(m) /\ S[k] = CountAt(m, k)
  <2>1. \A j \in 1..Len(m) : CountAt(m, j) \in Seq(Nat)
    <3>1. ASSUME NEW j \in 1..Len(m) PROVE CountAt(m, j) \in Seq(Nat)
      <4>1. Rendering(UpTo(m, j - 1)) \in Texts
        BY RenderingNext
      <4>2. Len(Rendering(UpTo(m, j - 1))) \in Nat
        BY <4>1 DEF Texts
      <4>. QED  BY <4>2 DEF CountAt
    <3>. QED  BY <3>1
  <2>. QED  BY <1>1, <2>1 DEF Noted
<1>3. ASSUME NEW n \in 0..Len(m)
      PROVE  Counts(UpTo(m, n)) = FlattenSeq(SubSeq(S, 1, n))
  <2>. DEFINE u == UpTo(m, n)
              T == Noted(u)
  <2>1. /\ Len(u) = n /\ n \in Nat /\ \A j \in 1..n : u[j] = m[j]
        /\ \A j \in 1..n : UpTo(u, j - 1) = UpTo(m, j - 1)
    BY UpToIs
  <2>2. \A x : Counts(x) = FlattenSeq(Noted(x))
    BY DEF Counts, Noted, CountAt, UpTo
  <2>3. \A j \in 1..n : T[j] = CountAt(m, j)
    <3>. HIDE DEF u
    <3>. QED  BY <2>1 DEF Noted, CountAt
  <2>4. T = SubSeq(S, 1, n)
    <3>1. T = [j \in 1..n |-> CountAt(m, j)]
      <4>. HIDE DEF u
      <4>. QED  BY <2>1, <2>3 DEF Noted
    <3>2. SubSeq(S, 1, n) = [j \in 1..n |-> S[j]]
      <4>1. S \in Seq(Seq(E)) /\ n <= Len(S)
        BY <1>2
      <4>. HIDE DEF S, E
      <4>. QED  BY <2>1, <4>1
    <3>3. \A j \in 1..n : S[j] = CountAt(m, j)
      BY <1>1 DEF Noted
    <3>. HIDE DEF S, T
    <3>. QED  BY <3>1, <3>2, <3>3
  <2>. HIDE DEF u, S, T
  <2>5. Counts(u) = FlattenSeq(T)
    BY <2>2 DEF T
  <2>. QED  BY <2>4, <2>5 DEF u
<1>4. k \in 0..Len(m) /\ k - 1 \in 0..Len(m)
  BY <1>1
<1>. HIDE DEF S, E
<1>5. /\ FlattenSeq(SubSeq(S, 1, k)) = FlattenSeq(SubSeq(S, 1, k - 1)) \o S[k]
      /\ FlattenSeq(SubSeq(S, 1, k - 1)) \in Seq(E) /\ S[k] \in Seq(E)
  <2>1. k \in 1..Len(S) /\ S \in Seq(Seq(E))
    BY <1>2
  <2>. QED  BY ONLY <2>1, FlattenNext
<1>. QED  BY <1>2, <1>3, <1>4, <1>5 DEF E

-----------------------------------------------------------------------------
(* Reading: what is ahead of the format pointer.                           *)

(* What is left of the format f from position p on. *)
Ahead(f, p, rest) ==
  /\ p \in Nat \ {0} /\ rest \in Texts /\ Len(f) = p - 1 + Len(rest)
  /\ \A j \in 1..Len(rest) : f[p + j - 1] = rest[j]

CharAt(f, k) == IF k <= Len(f) THEN f[k] ELSE NUL
HeadOf(rest) == IF rest = <<>> THEN NUL ELSE rest[1]

(* The elements of two pieces joined. *)
LEMMA Joined ==
  ASSUME NEW C, NEW a \in Seq(C), NEW b \in Seq(C)
  PROVE  /\ Len(a) \in Nat /\ Len(b) \in Nat /\ Len(a ++ b) = Len(a) + Len(b)
         /\ \A j \in 1..Len(a) : (a ++ b)[j] = a[j]
         /\ \A j \in 1..Len(b) : (a ++ b)[Len(a) + j] = b[j]
<1>1. /\ Len(a) \in Nat /\ Len(b) \in Nat /\ Len(a \o b) = Len(a) + Len(b)
      /\ \A i \in 1..(Len(a) + Len(b)) : (a \o b)[i] = IF i <= Len(a) THEN a[i] ELSE b[i - Len(a)]
  <2>1. Len(a) \in Nat /\ Len(b) \in Nat
    OBVIOUS
  <2>2. /\ Len(a \o b) = Len(a) + Len(b)
        /\ \A i \in 1..Len(a \o b) : (a \o b)[i] = IF i <= Len(a) THEN a[i] ELSE b[i - Len(a)]
    BY ConcatProperties
  <2>. QED  BY <2>1, <2>2
<1>2. \A j \in 1..Len(a) : (a \o b)[j] = a[j]
  BY <1>1
<1>3. ASSUME NEW j \in 1..Len(b) PROVE (a \o b)[Len(a) + j] = b[j]
  <2>. DEFINE i == Len(a) + j
  <2>1. i \in 1..(Len(a) + Len(b)) /\ ~(i <= Len(a)) /\ i - Len(a) = j
    BY <1>1
  <2>. HIDE DEF i
  <2>2. (a \o b)[i] = b[j]
    BY <1>1, <2>1
  <2>. QED  BY <2>2 DEF i
<1>. QED  BY <1>1, <1>2, <1>3 DEF ++

(* Behind a piece is the rest. *)
LEMMA AheadSkip ==
  ASSUME NEW f, NEW p, NEW a \in Texts, NEW b \in Texts, Ahead(f, p, a ++ b)
  PROVE  /\ Ahead(f, p + Len(a), b) /\ Len(a) \in Nat
         /\ \A j \in 1..Len(a) : f[p + j - 1] = a[j]
<1>. DEFINE n == Len(a)
            l == Len(b)
            ab == a ++ b
<1>1. /\ n \in Nat /\ l \in Nat /\ Len(ab) = n + l
      /\ \A j \in 1..n : ab[j] = a[j]
      /\ \A j \in 1..l : ab[n + j] = b[j]
  BY Joined DEF Texts
<1>2. p \in Nat \ {0} /\ Len(f) = p - 1 + Len(ab) /\ \A j \in 1..Len(ab) : f[p + j - 1] = ab[j]
  BY DEF Ahead
<1>. HIDE DEF n, l, ab
<1>3. \A j \in 1..n : f[p + j - 1] = a[j]
  BY <1>1, <1>2
<1>4. ASSUME NEW j \in 1..l PROVE f[(p + n) + j - 1] = b[j]
  <2>1. n + j \in 1..Len(ab) /\ p + (n + j) - 1 = (p + n) + j - 1
    BY <1>1, <1>2
  <2>2. f[p + (n + j) - 1] = ab[n + j]
    BY <1>2, <2>1
  <2>. QED  BY <1>1, <2>1, <2>2
<1>5. p + n \in Nat \ {0} /\ Len(f) = (p + n) - 1 + l
  BY <1>1, <1>2
<1>6. Ahead(f, p + n, b)
  BY <1>4, <1>5 DEF Ahead, l
<1>. QED  BY <1>1, <1>3, <1>6 DEF n

(* The next character is the first of what is ahead. *)
LEMMA AheadHead ==
  ASSUME NEW f, NEW p, NEW rest, Ahead(f, p, rest)
  PROVE  /\ CharAt(f, p) = HeadOf(rest) /\ p \in 1..(Len(f) + 1) /\ p \in Nat
         /\ Len(f) \in Nat
<1>1. p \in Nat \ {0} /\ Len(rest) \in Nat /\ Len(f) = p - 1 + Len(rest)
      /\ \A j \in 1..Len(rest) : f[p + j - 1] = rest[j]
  <2>1. rest \in Texts /\ p \in Nat \ {0} /\ Len(f) = p - 1 + Len(rest)
        /\ \A j \in 1..Len(rest) : f[p + j - 1] = rest[j]
    BY DEF Ahead
  <2>2. Len(rest) \in Nat
    BY <2>1 DEF Texts
  <2>. QED  BY <2>1, <2>2
<1>2. rest = <<>> <=> Len(rest) = 0
  BY DEF Ahead, Texts
<1>3. p \in 1..(Len(f) + 1) /\ Len(f) \in Nat
  BY <1>1
<1>4. CASE rest = <<>>
  <2>1. ~(p <= Len(f))
    BY <1>1, <1>2, <1>4
  <2>. QED  BY <1>1, <1>3, <1>4, <2>1 DEF CharAt, HeadOf
<1>5. CASE rest # <<>>
  <2>1. p <= Len(f) /\ 1 \in 1..Len(rest) /\ p + 1 - 1 = p
    BY <1>1, <1>2, <1>5
  <2>2. f[p] = rest[1]
    BY <1>1, <2>1
  <2>. QED  BY <1>1, <1>3, <1>5, <2>1, <2>2 DEF CharAt, HeadOf
<1>. QED  BY <1>4, <1>5

(* The first character of two pieces. *)
LEMMA HeadOfJoined ==
  ASSUME NEW a \in Texts, NEW b \in Texts
  PROVE  /\ a # <<>> => HeadOf(a ++ b) = a[1]
         /\ a = <<>> => a ++ b = b
<1>1. /\ Len(a) \in Nat /\ Len(b) \in Nat /\ Len(a ++ b) = Len(a) + Len(b)
      /\ \A j \in 1..Len(a) : (a ++ b)[j] = a[j]
  BY Joined DEF Texts
<1>2. a # <<>> => Len(a) # 0
  BY DEF Texts
<1>3. a # <<>> => a ++ b # <<>>
  <2>1. \A x : x = <<>> => Len(x) = 0
    OBVIOUS
  <2>. QED  BY <1>1, <1>2, <2>1
<1>4. a # <<>> => 1 \in 1..Len(a)
  BY <1>1, <1>2
<1>5. a = <<>> => a ++ b = b
  BY TextsJoin DEF Joins
<1>. QED  BY <1>1, <1>3, <1>4, <1>5 DEF HeadOf

(* At the start all of the format is ahead. *)
LEMMA AheadStart ==
  ASSUME NEW f \in Texts
  PROVE  Ahead(f, 1, f)
<1>1. \A j \in 1..Len(f) : f[1 + j - 1] = f[j]
  <2>1. \A j \in 1..Len(f) : 1 + j - 1 = j
    OBVIOUS
  <2>. QED  BY <2>1
<1>2. Len(f) = 1 - 1 + Len(f)
  BY DEF Texts
<1>. QED  BY <1>1, <1>2 DEF Ahead

(* Taking the first arguments leaves the others. *)
LEMMA DropFront ==
  ASSUME NEW C, NEW a \in Seq(C), NEW b \in Seq(C)
  PROVE  /\ SubSeq(a ++ b, Len(a) + 1, Len(a ++ b)) = b
         /\ a # <<>> => Head(a ++ b) = a[1] /\ (Len(a) = 1 => Tail(a ++ b) = b)
         /\ a ++ b \in Seq(C)
<1>. DEFINE ab == a ++ b
<1>1. /\ Len(a) \in Nat /\ Len(b) \in Nat /\ Len(ab) = Len(a) + Len(b)
      /\ \A j \in 1..Len(a) : ab[j] = a[j]
      /\ \A j \in 1..Len(b) : ab[Len(a) + j] = b[j]
  BY Joined
<1>2. ab \in Seq(C)
  BY SequencesJoin DEF Joins
<1>. HIDE DEF ab
<1>. DEFINE s == SubSeq(ab, Len(a) + 1, Len(ab))
<1>3. s \in Seq(C) /\ Len(s) = Len(b) /\ \A j \in 1..Len(b) : s[j] = ab[Len(a) + j]
  <2>1. Len(a) + 1 \in 1..(Len(ab) + 1)
    BY <1>1
  <2>. DEFINE k == Len(a) + 1
              F == From(ab, k)
  <2>2. F \in Seq(C) /\ Len(F) = Len(ab) - k + 1
        /\ \A j \in 1..(Len(ab) - k + 1) : F[j] = ab[k + j - 1]
    <3>. HIDE DEF k
    <3>1. k \in 1..(Len(ab) + 1)
      BY <2>1 DEF k
    <3>. QED  BY ONLY <1>2, <3>1, FromIs
  <2>3. Len(ab) - k + 1 = Len(b) /\ \A j \in 1..Len(b) : k + j - 1 = Len(a) + j
    BY <1>1
  <2>4. s = F
    BY DEF From
  <2>. HIDE DEF s, F, k
  <2>. QED  BY <2>2, <2>3, <2>4
<1>. HIDE DEF s
<1>4. s = b
  BY <1>1, <1>3
<1>5. ASSUME a # <<>> PROVE Head(ab) = a[1] /\ (Len(a) = 1 => Tail(ab) = b)
  <2>1. Len(a) # 0
    BY <1>5
  <2>2. 1 \in 1..Len(a)
    BY <1>1, <2>1
  <2>3. Head(ab) = ab[1] /\ ab[1] = a[1]
    BY <1>1, <2>2
  <2>4. Tail(ab) = SubSeq(ab, 2, Len(ab))
    BY <1>1, <1>2
  <2>5. Len(a) = 1 => Tail(ab) = s
    BY <2>4 DEF s
  <2>. QED  BY <1>4, <2>3, <2>5
<1>. QED  BY <1>2, <1>4, <1>5 DEF s, ab

Ten == {"0", "1", "2", "3", "4", "5", "6", "7", "8", "9"}

(* Digit and DigitValue know the ten digits. *)
LEMMA DigitIs ==
  /\ \A c : Digit(c) <=> c \in Ten
  /\ \A d \in 0..9 : /\ Digit(DigitOf(d, FALSE)) /\ DigitValue(DigitOf(d, FALSE)) = d
                     /\ d # 0 => DigitOf(d, FALSE) \notin FlagChar
                     /\ DigitOf(d, FALSE) \notin {"*", "."}
<1>1. \A c : Digit(c) <=> c \in Ten
  <2>1. ASSUME NEW c, Digit(c) PROVE c \in Ten
    <3>1. PICK d \in 1..10 : LowerDigits[d] = c
      BY <2>1 DEF Digit
    <3>2. d \in {1, 2, 3, 4, 5, 6, 7, 8, 9, 10}
      OBVIOUS
    <3>. QED  BY <3>1, <3>2, LowerTable DEF Ten
  <2>2. ASSUME NEW c \in Ten PROVE Digit(c)
    <3>1. \E d \in {1, 2, 3, 4, 5, 6, 7, 8, 9, 10} : LowerDigits[d] = c
      BY LowerTable DEF Ten
    <3>2. \A d \in {1, 2, 3, 4, 5, 6, 7, 8, 9, 10} : d \in 1..10
      OBVIOUS
    <3>. QED  BY <3>1, <3>2 DEF Digit
  <2>. QED  BY <2>1, <2>2
<1>2. ASSUME NEW d \in 0..9
      PROVE  /\ DigitOf(d, FALSE) = LowerDigits[d + 1] /\ d + 1 \in 1..10
             /\ LowerDigits[d + 1] \in Ten
             /\ \A e \in 1..10 : LowerDigits[e] = LowerDigits[d + 1] => e = d + 1
  <2>1. DigitOf(d, FALSE) = LowerDigits[d + 1] /\ d + 1 \in 1..10
    BY DEF DigitOf
  <2>2. \A e \in 1..10 : e \in {1, 2, 3, 4, 5, 6, 7, 8, 9, 10}
    OBVIOUS
  <2>3. d + 1 \in {1, 2, 3, 4, 5, 6, 7, 8, 9, 10}
    OBVIOUS
  <2>. DEFINE f == d + 1
  <2>. HIDE DEF f
  <2>4. \A e, g \in {1, 2, 3, 4, 5, 6, 7, 8, 9, 10} : LowerDigits[e] = LowerDigits[g] => e = g
    BY ONLY LowerTable
  <2>5. \A g \in {1, 2, 3, 4, 5, 6, 7, 8, 9, 10} : LowerDigits[g] \in Ten
    BY ONLY LowerTable DEF Ten
  <2>. QED  BY ONLY <2>1, <2>2, <2>3, <2>4, <2>5
<1>3. ASSUME NEW d \in 0..9 PROVE DigitValue(DigitOf(d, FALSE)) = d
  <2>. DEFINE c == DigitOf(d, FALSE)
  <2>1. (CHOOSE e \in 1..10 : LowerDigits[e] = c) = d + 1
    <3>1. \A e \in 1..10 : LowerDigits[e] = c => e = d + 1
      BY <1>2
    <3>2. d + 1 \in 1..10 /\ LowerDigits[d + 1] = c
      BY <1>2
    <3>. DEFINE x == CHOOSE e \in 1..10 : LowerDigits[e] = c
    <3>. HIDE DEF c
    <3>3. x \in 1..10 /\ LowerDigits[x] = c
      BY <3>2
    <3>. HIDE DEF x
    <3>4. x = d + 1
      BY <3>1, <3>3
    <3>. QED  BY <3>4 DEF x
  <2>2. (d + 1) - 1 = d
    OBVIOUS
  <2>. QED  BY <2>1, <2>2 DEF DigitValue
<1>4. ASSUME NEW d \in 0..9, d # 0 PROVE DigitOf(d, FALSE) \notin FlagChar
  <2>1. \A e \in {1, 2, 3, 4, 5, 6, 7, 8, 9} :
          DigitOf(e, FALSE) \in {"1", "2", "3", "4", "5", "6", "7", "8", "9"}
    BY LowerTable DEF DigitOf
  <2>2. d \in {1, 2, 3, 4, 5, 6, 7, 8, 9}
    BY <1>4
  <2>. QED  BY <2>1, <2>2 DEF FlagChar
<1>5. ASSUME NEW d \in 0..9 PROVE DigitOf(d, FALSE) \notin {"*", "."} /\ Digit(DigitOf(d, FALSE))
  BY <1>1, <1>2 DEF Ten
<1>. QED  BY <1>1, <1>3, <1>4, <1>5

(* The value of the first k digits of n. *)
FirstDigits(n, k) == n \div Power(10, Places(n, 10) - k)

(* A numeral, digit by digit from the front. *)
LEMMA NumeralDigits ==
  ASSUME NEW n \in Nat
  PROVE  LET L == Places(n, 10)
         IN  /\ L \in Nat \ {0} /\ Len(Numeral(n, 10, FALSE)) = L
             /\ Numeral(n, 10, FALSE) \in Texts /\ Numeral(n, 10, FALSE) # <<>>
             /\ \A k \in 1..L : /\ FirstDigits(n, k) % 10 \in 0..9
                                /\ Numeral(n, 10, FALSE)[k] = DigitOf(FirstDigits(n, k) % 10, FALSE)
                                /\ FirstDigits(n, k) = 10 * FirstDigits(n, k - 1)
                                                         + (FirstDigits(n, k) % 10)
             /\ FirstDigits(n, 0) = 0 /\ FirstDigits(n, L) = n
             /\ \A k \in 0..L : FirstDigits(n, k) \in Nat
             /\ n # 0 => FirstDigits(n, 1) % 10 # 0
<1>. DEFINE L == Places(n, 10)
            N == Numeral(n, 10, FALSE)
<1>1. PlacesOf(n, 10, L)
  BY PlacesExist
<1>. HIDE DEF L
<1>2. L \in Nat \ {0} /\ n < Power(10, L) /\ (L = 1 \/ n >= Power(10, L - 1))
  BY <1>1 DEF PlacesOf
<1>3. N = [k \in 1..L |-> DigitOf(FirstDigits(n, k) % 10, FALSE)]
  BY DEF Numeral, FirstDigits, L
<1>4. Power(10, 0) = 1 /\ \A k \in Nat : Power(10, k) \in Nat \ {0} /\ Power(10, k + 1) = 10 * Power(10, k)
  BY PowerIs
<1>5. ASSUME NEW k \in 0..L PROVE FirstDigits(n, k) \in Nat
  <2>1. Power(10, L - k) \in Nat \ {0}
    BY <1>2, <1>4
  <2>. QED  BY <2>1, Division DEF FirstDigits, L
<1>6. ASSUME NEW k \in 1..L
      PROVE  /\ FirstDigits(n, k) % 10 \in 0..9
             /\ FirstDigits(n, k) = 10 * FirstDigits(n, k - 1) + (FirstDigits(n, k) % 10)
             /\ FirstDigits(n, k - 1) = FirstDigits(n, k) \div 10
  <2>. DEFINE p == Power(10, L - k)
              q == FirstDigits(n, k)
  <2>1. p \in Nat \ {0} /\ Power(10, L - (k - 1)) = p * 10
    <3>1. L - k \in Nat /\ L - (k - 1) = (L - k) + 1
      BY <1>2
    <3>. DEFINE e == L - k
    <3>. HIDE DEF e
    <3>2. Power(10, e) \in Nat \ {0} /\ Power(10, e + 1) = 10 * Power(10, e)
      BY <1>4, <3>1 DEF e
    <3>. QED  BY <3>1, <3>2 DEF e
  <2>2. q = n \div p /\ FirstDigits(n, k - 1) = n \div (p * 10)
    BY <2>1 DEF FirstDigits, L
  <2>. HIDE DEF p
  <2>3. (n \div p) \div 10 = n \div (p * 10)
    BY <2>1, DivideTwice
  <2>. HIDE DEF q
  <2>4. q \in Nat
    BY <1>5 DEF q
  <2>5. q \div 10 \in Nat /\ q % 10 \in 0..(10 - 1) /\ q = (q \div 10) * 10 + (q % 10)
    BY <2>4, Division
  <2>6. FirstDigits(n, k - 1) = q \div 10
    BY <2>2, <2>3
  <2>. QED  BY <2>5, <2>6 DEF q
<1>7. FirstDigits(n, 0) = 0 /\ FirstDigits(n, L) = n
  <2>1. L - 0 = L /\ L - L = 0
    BY <1>2
  <2>2. Power(10, L) \in Nat \ {0}
    BY <1>2, <1>4
  <2>3. n \div Power(10, L) = 0
    <3>. DEFINE p == Power(10, L)
    <3>1. p \in Nat \ {0} /\ n \in 0..(p - 1) /\ n = 0 * p + n
      BY <1>2, <2>2
    <3>. HIDE DEF p
    <3>2. n \div p = 0
      BY <3>1, DivisionIs
    <3>. QED  BY <3>2 DEF p
  <2>4. n \div 1 = n
    OBVIOUS
  <2>. QED  BY <1>4, <2>1, <2>3, <2>4 DEF FirstDigits, L
<1>8. n # 0 => FirstDigits(n, 1) % 10 # 0
  <2>. SUFFICES ASSUME n # 0, FirstDigits(n, 1) % 10 = 0 PROVE FALSE
    OBVIOUS
  <2>. DEFINE q == FirstDigits(n, 1)
              p == Power(10, L - 1)
  <2>1. q = 0
    <3>1. 1 \in 1..L /\ 1 - 1 = 0
      BY <1>2
    <3>2. q = 10 * FirstDigits(n, 0) + (q % 10)
      BY <1>6, <3>1
    <3>. HIDE DEF q
    <3>. QED  BY <1>7, <3>2 DEF q
  <2>2. p \in Nat \ {0} /\ q = n \div p
    BY <1>2, <1>4 DEF FirstDigits, L
  <2>3. n >= p
    <3>1. L = 1 => p = 1
      BY <1>4
    <3>. HIDE DEF p
    <3>. QED  BY <1>2, <2>2, <3>1 DEF p
  <2>. HIDE DEF p, q
  <2>4. n = (n \div p) * p + (n % p) /\ n % p \in 0..(p - 1)
    BY <2>2, Division
  <2>5. 0 * p = 0
    BY <2>2
  <2>6. n < p
    BY <2>1, <2>2, <2>4, <2>5
  <2>. QED  BY <2>2, <2>3, <2>6
<1>9. N \in Texts /\ Len(N) = L
  <2>1. N \in Texts
    <3>1. 10 \in {8, 10, 16} /\ FALSE \in BOOLEAN
      OBVIOUS
    <3>2. Numeral(n, 10, FALSE) \in Seq(Character)
      BY ONLY n \in Nat, <3>1, NumeralTyped
    <3>3. N \in Seq(Character)
      BY ONLY <3>2
    <3>. HIDE DEF N
    <3>. QED  BY ONLY <3>3 DEF Texts
  <2>2. Len(N) = L
    <3>1. DOMAIN N = 1..L
      BY <1>3
    <3>. HIDE DEF N
    <3>2. N \in Seq(Character)
      BY <2>1 DEF Texts
    <3>. QED  BY ONLY <1>2, <3>1, <3>2
  <2>. QED  BY <2>1, <2>2
<1>10. N # <<>>
  BY <1>2, <1>9
<1>11. \A k \in 1..L : N[k] = DigitOf(FirstDigits(n, k) % 10, FALSE)
  BY <1>3
<1>. HIDE DEF N
<1>. QED  BY <1>2, <1>5, <1>6, <1>7, <1>8, <1>9, <1>10, <1>11 DEF L, N

(* Where digits end is where skip_atoi stops. *)
LEMMA DigitsEnd ==
  ASSUME NEW k \in Nat \ {0}, NEW L \in Nat \ {0}, Len(format) \in Nat, k + L <= Len(format) + 1,
         \A j \in 1..L : Digit(format[k + j - 1]), ~Digit(CharAt(format, k + L))
  PROVE  DigitsFrom(k) = L
<1>. DEFINE P(n) == /\ \A j \in k..(k + n - 1) : Digit(format[j])
                    /\ ~Digit(At(k + n))
            S == 1..(Len(format) - k + 1)
            D == CHOOSE n \in S : P(n)
<1>1. DigitsFrom(k) = D
  BY DEF DigitsFrom
<1>2. \A n : At(n) = CharAt(format, n)
  BY DEF At, CharAt
<1>3. L \in S /\ P(L)
  <2>1. ASSUME NEW j \in k..(k + L - 1) PROVE Digit(format[j])
    <3>1. j - k + 1 \in 1..L /\ k + (j - k + 1) - 1 = j
      OBVIOUS
    <3>2. Digit(format[k + (j - k + 1) - 1])
      BY <3>1
    <3>. QED  BY <3>1, <3>2
  <2>2. L \in S
    OBVIOUS
  <2>. QED  BY <1>2, <2>1, <2>2
<1>4. ASSUME NEW n \in S, P(n) PROVE n = L
  <2>1. CASE n < L
    <3>1. n + 1 \in 1..L /\ k + (n + 1) - 1 = k + n /\ k + n <= Len(format)
      BY <2>1
    <3>2. Digit(format[k + n])
      BY <3>1
    <3>3. At(k + n) = format[k + n]
      BY <3>1 DEF At
    <3>. QED  BY <1>4, <3>2, <3>3
  <2>2. CASE n > L
    <3>1. k + L \in k..(k + n - 1) /\ k + L <= Len(format)
      BY <2>2
    <3>2. Digit(format[k + L])
      BY <1>4, <3>1
    <3>3. CharAt(format, k + L) = format[k + L]
      BY <3>1 DEF CharAt
    <3>. QED  BY <3>2, <3>3
  <2>. QED  BY <2>1, <2>2
<1>5. D \in S /\ P(D)
  <2>. HIDE DEF P, S
  <2>. QED  BY <1>3
<1>. HIDE DEF D
<1>6. D = L
  BY <1>4, <1>5
<1>. QED  BY <1>1, <1>6

(* skip_atoi reads a numeral back: it stops behind the last digit and      *)
(* returns the number.                                                     *)
THEOREM NumberRead ==
  ASSUME NEW k, NEW n \in Nat, NEW rest \in Texts,
         Ahead(format, k, Numeral(n, 10, FALSE) ++ rest), HeadOf(rest) \notin Ten
  PROVE  /\ DigitsFrom(k) \in Nat /\ skip_atoi(k) = n
         /\ Ahead(format, k + DigitsFrom(k), rest)
<1>. DEFINE N == Numeral(n, 10, FALSE)
            L == Places(n, 10)
            g(x) == FirstDigits(n, x)
<1>1. /\ L \in Nat \ {0} /\ Len(N) = L /\ N \in Texts /\ N # <<>>
      /\ \A x \in 1..L : /\ g(x) % 10 \in 0..9
                         /\ N[x] = DigitOf(g(x) % 10, FALSE)
                         /\ g(x) = 10 * g(x - 1) + (g(x) % 10)
      /\ g(0) = 0 /\ g(L) = n
      /\ \A x \in 0..L : g(x) \in Nat
  BY NumeralDigits
<1>. HIDE DEF N, L, g
<1>2. /\ Ahead(format, k + L, rest)
      /\ \A j \in 1..L : format[k + j - 1] = N[j]
  <2>1. Ahead(format, k, N ++ rest)
    BY DEF N
  <2>2. /\ Ahead(format, k + Len(N), rest)
        /\ \A j \in 1..Len(N) : format[k + j - 1] = N[j]
    <3>1. N \in Texts
      BY <1>1
    <3>. QED  BY ONLY rest \in Texts, <2>1, <3>1, AheadSkip
  <2>. QED  BY <1>1, <2>2
<1>3. k \in Nat \ {0} /\ Len(format) \in Nat
  BY AheadHead DEF Ahead
<1>4. \A j \in 1..L : Digit(format[k + j - 1]) /\ DigitValue(format[k + j - 1]) = g(j) % 10
  BY <1>1, <1>2, DigitIs
<1>5. DigitsFrom(k) = L
  <2>1. CharAt(format, k + L) = HeadOf(rest) /\ k + L <= Len(format) + 1
    <3>1. CharAt(format, k + L) = HeadOf(rest) /\ k + L \in 1..(Len(format) + 1)
      BY <1>2, AheadHead
    <3>. QED  BY <1>1, <1>3, <3>1
  <2>2. ~Digit(CharAt(format, k + L))
    BY <2>1, DigitIs
  <2>. QED  BY <1>1, <1>3, <1>4, <2>1, <2>2, DigitsEnd
<1>. DEFINE p(f) == [x \in 0..L |-> IF x = 0 THEN 0
                                    ELSE 10 * f[x - 1] + DigitValue(format[k + x - 1])]
            i == CHOOSE f : f = p(f)
            G == [x \in 0..L |-> g(x)]
<1>6. skip_atoi(k) = i[L]
  BY <1>5 DEF skip_atoi
<1>7. G = p(G)
  <2>1. ASSUME NEW x \in 0..L
        PROVE  g(x) = IF x = 0 THEN 0 ELSE 10 * G[x - 1] + DigitValue(format[k + x - 1])
    <3>1. CASE x = 0
      BY <1>1, <3>1
    <3>2. CASE x # 0
      <4>1. x \in 1..L /\ x - 1 \in 0..L
        BY <1>1, <3>2
      <4>2. G[x - 1] = g(x - 1)
        BY <4>1
      <4>3. g(x) = 10 * g(x - 1) + (g(x) % 10)
        BY <1>1, <4>1
      <4>4. DigitValue(format[k + x - 1]) = g(x) % 10
        BY <1>4, <4>1
      <4>. QED  BY <3>2, <4>2, <4>3, <4>4
    <3>. QED  BY <3>1, <3>2
  <2>. HIDE DEF G
  <2>2. p(G) = [x \in 0..L |-> g(x)]
    BY <2>1
  <2>. QED  BY <2>2 DEF G
<1>8. i = p(i)
  <2>. HIDE DEF p, G
  <2>. QED  BY <1>7
<1>. HIDE DEF i, G
<1>. DEFINE T == {x \in Nat : x <= L => i[x] = g(x)}
<1>9. \A x \in 0..L : i[x] = IF x = 0 THEN 0 ELSE 10 * i[x - 1] + DigitValue(format[k + x - 1])
  BY <1>8
<1>10. ASSUME NEW x \in Nat, \A y \in 0..(x - 1) : y \in T PROVE x \in T
  <2>. SUFFICES ASSUME x <= L PROVE i[x] = g(x)
    OBVIOUS
  <2>1. CASE x = 0
    BY <1>1, <1>9, <2>1
  <2>2. CASE x # 0
    <3>1. x \in 1..L /\ x \in 0..L /\ x - 1 \in 0..(x - 1) /\ x - 1 <= L
      BY <1>1, <2>2
    <3>2. i[x - 1] = g(x - 1)
      BY <1>10, <3>1
    <3>3. g(x) = 10 * g(x - 1) + (g(x) % 10)
      BY <1>1, <3>1
    <3>4. DigitValue(format[k + x - 1]) = g(x) % 10
      BY <1>4, <3>1
    <3>5. i[x] = 10 * i[x - 1] + DigitValue(format[k + x - 1])
      BY <1>9, <2>2, <3>1
    <3>. QED  BY <3>2, <3>3, <3>4, <3>5
  <2>. QED  BY <2>1, <2>2
<1>11. i[L] = n
  <2>1. \A x \in Nat : x \in T
    <3>. HIDE DEF T
    <3>. QED  BY ONLY <1>10, Induction
  <2>. QED  BY <1>1, <2>1
<1>. QED  BY <1>1, <1>2, <1>5, <1>6, <1>11

(* An int goes into a word and comes out again. *)
LEMMA StarRead ==
  ASSUME NEW n \in (1 - Word \div 2)..(Word \div 2 - 1)
  PROVE  n \in Int /\ AsInt(n % Word) = n
<1>1. Word \in Nat \ {0} /\ Word = 2 * (Word \div 2) /\ Word \div 2 \in Nat
  BY WordIs
<1>. DEFINE h == Word \div 2
<1>. HIDE DEF h
<1>2. n \in Int /\ n >= 1 - h /\ n <= h - 1 /\ Word = 2 * h /\ h \in Nat
  BY <1>1 DEF h
<1>3. n >= 0 => n % Word = n
  BY <1>1, <1>2
<1>4. n < 0 => n % Word = Word + n
  BY <1>1, <1>2
<1>5. AsInt(n % Word) = IF n % Word < h THEN n % Word ELSE (n % Word) - Word
  BY DEF AsInt, h
<1>. DEFINE r == n % Word
<1>. HIDE DEF r
<1>6. AsInt(r) = n
  BY <1>1, <1>2, <1>3, <1>4, <1>5 DEF r
<1>. QED  BY <1>2, <1>6 DEF r

(* What ends a directive: its conversion or the end of the format. *)
Ending == Conversions \cup {NUL}

(* What ends a directive is none of its parts. *)
LEMMA EndingIs == \A c \in Ending : c \notin FlagChar \cup Ten \cup {"*", ".", "h", "l", "L"}
<1>1. NUL \notin FlagChar \cup Ten \cup {"*", ".", "h", "l", "L"}
  BY DEF NUL, FlagChar, Ten
<1>2. ASSUME NEW c \in Conversions PROVE c \notin FlagChar \cup Ten \cup {"*", ".", "h", "l", "L"}
  <2>1. c \notin FlagChar \cup {"*", ".", "h", "l", "L"} /\ c \notin Range(SubSeq(LowerDigits, 1, 10))
    BY DEF Conversions
  <2>2. Ten \subseteq Range(SubSeq(LowerDigits, 1, 10))
    <3>. DEFINE s == SubSeq(LowerDigits, 1, 10)
    <3>1. s = [j \in 1..10 |-> LowerDigits[j]]
      <4>1. LowerDigits \in Seq(Ten \cup {"a", "b", "c", "d", "e", "f"}) /\ Len(LowerDigits) = 16
        BY DEF LowerDigits, Ten
      <4>. DEFINE l == LowerDigits
                  C == Ten \cup {"a", "b", "c", "d", "e", "f"}
      <4>. HIDE DEF C
      <4>2. l \in Seq(C) /\ Len(l) = 16
        BY <4>1 DEF C
      <4>. HIDE DEF l
      <4>3. SubSeq(l, 1, 10) = [j \in 1..10 |-> l[j]]
        BY <4>2
      <4>. QED  BY <4>3 DEF l
    <3>. HIDE DEF s
    <3>2. DOMAIN s = 1..10 /\ \A j \in 1..10 : s[j] = LowerDigits[j]
      BY <3>1
    <3>3. \A x \in Ten : \E j \in 1..10 : x = LowerDigits[j]
      BY DigitIs DEF Digit
    <3>. QED  BY <3>2, <3>3 DEF Range, s
  <2>. QED  BY <2>1, <2>2
<1>. QED  BY <1>1, <1>2 DEF Ending

(* The next character tells which parts of the directive are left out. *)
LEMMA ConversionHead ==
  ASSUME NEW d \in Directives, NEW t \in Texts, d.conversion = <<>> => t = <<>>
  PROVE  /\ HeadOf(ConversionOn(d, t)) \in Ending
         /\ d.conversion = <<>> => ConversionOn(d, t) = <<>> /\ HeadOf(ConversionOn(d, t)) = NUL
         /\ \A c : d.conversion = <<c>> => HeadOf(ConversionOn(d, t)) = c /\ c \in Conversions
         /\ d.conversion # <<>> => \E c \in Conversions : d.conversion = <<c>>
<1>. DEFINE v == d.conversion
<1>1. v \in Texts /\ v \in Seq(Conversions) /\ Len(v) \in {0, 1}
  BY DirectiveFields, PartsTyped
<1>2. ConversionOn(d, t) = v ++ t
  BY DEF ConversionOn
<1>. HIDE DEF v
<1>3. CASE v = <<>>
  <2>1. v ++ t = <<>>
    BY <1>1, <1>3, HeadOfJoined DEF v
  <2>2. HeadOf(v ++ t) = NUL
    BY <2>1 DEF HeadOf
  <2>. QED  BY <1>2, <1>3, <2>1, <2>2 DEF v, Ending
<1>4. CASE v # <<>>
  <2>1. v = <<v[1]>> /\ v[1] \in Conversions
    <3>1. Len(v) = 1
      BY <1>1, <1>4
    <3>2. v \in Seq(Conversions)
      BY <1>1
    <3>3. v[1] \in Conversions
      BY ONLY <3>1, <3>2
    <3>4. v = <<v[1]>>
      BY ONLY <3>1, <3>2
    <3>. QED  BY <3>3, <3>4
  <2>2. HeadOf(v ++ t) = v[1]
    BY <1>1, <1>4, HeadOfJoined
  <2>3. \A c : v = <<c>> => c = v[1]
    OBVIOUS
  <2>. QED  BY <1>2, <1>4, <2>1, <2>2, <2>3 DEF v, Ending
<1>. QED  BY <1>3, <1>4

(* The next character at the qualifier. *)
LEMMA QualifierHead ==
  ASSUME NEW d \in Directives, NEW t \in Texts, d.conversion = <<>> => t = <<>>
  PROVE  /\ HeadOf(QualifierOn(d, t)) \in Ending \cup {"h", "l", "L"}
         /\ d.qualifier = <<>> => QualifierOn(d, t) = ConversionOn(d, t)
         /\ d.qualifier # <<>> => /\ d.qualifier = <<HeadOf(QualifierOn(d, t))>>
                                  /\ HeadOf(QualifierOn(d, t)) \in {"h", "l", "L"}
<1>. DEFINE q == d.qualifier
            r == ConversionOn(d, t)
<1>1. q \in Texts /\ q \in Qualifiers /\ r \in Texts /\ HeadOf(r) \in Ending
  BY DirectiveFields, PartsTyped, RestsTyped, ConversionHead
<1>2. QualifierOn(d, t) = q ++ r
  BY DEF QualifierOn
<1>. HIDE DEF q, r
<1>3. CASE q = <<>>
  <2>1. q ++ r = r
    BY <1>1, <1>3, HeadOfJoined
  <2>. QED  BY <1>1, <1>2, <1>3, <2>1 DEF q, r
<1>4. CASE q # <<>>
  <2>1. q = <<q[1]>> /\ q[1] \in {"h", "l", "L"}
    BY <1>1, <1>4 DEF Qualifiers
  <2>2. HeadOf(q ++ r) = q[1]
    BY <1>1, <1>4, HeadOfJoined
  <2>. QED  BY <1>2, <1>4, <2>1, <2>2 DEF q
<1>. QED  BY <1>3, <1>4

(* The next character at the precision. *)
LEMMA PrecisionHead ==
  ASSUME NEW d \in Directives, NEW t \in Texts, d.conversion = <<>> => t = <<>>
  PROVE  LET s == SpellSize(d.precision)
             r == QualifierOn(d, t)
         IN  /\ HeadOf(PrecisionOn(d, t)) \in Ending \cup {"h", "l", "L", "."}
             /\ s \in Texts /\ r \in Texts
             /\ d.precision.is = "none" => PrecisionOn(d, t) = r /\ HeadOf(r) # "."
             /\ d.precision.is # "none" => /\ PrecisionOn(d, t) = <<".">> ++ (s ++ r)
                                           /\ HeadOf(PrecisionOn(d, t)) = "."
<1>. DEFINE s == SpellSize(d.precision)
            r == QualifierOn(d, t)
            p == SpellPrecision(d.precision)
            dot == <<".">>
<1>1. s \in Texts /\ r \in Texts /\ p \in Texts /\ dot \in Texts
      /\ HeadOf(r) \in Ending \cup {"h", "l", "L"}
  BY DirectiveFields, SizeSpelled, RestsTyped, PartsTyped, QualifierHead, Letters DEF Texts
<1>2. PrecisionOn(d, t) = p ++ r /\ p = (IF d.precision.is = "none" THEN <<>> ELSE dot ++ s)
  BY DEF PrecisionOn, SpellPrecision, ++
<1>3. HeadOf(r) # "."
  BY <1>1, EndingIs
<1>4. dot # <<>> /\ dot[1] = "."
  OBVIOUS
<1>. HIDE DEF s, r, p, dot
<1>5. CASE d.precision.is = "none"
  <2>1. p ++ r = r
    BY <1>1, <1>2, <1>5, HeadOfJoined
  <2>. QED  BY <1>1, <1>2, <1>3, <1>5, <2>1 DEF s, r
<1>6. CASE d.precision.is # "none"
  <2>1. p ++ r = dot ++ (s ++ r) /\ s ++ r \in Texts
    <3>1. p = dot ++ s
      BY <1>2, <1>6
    <3>. QED  BY <1>1, <3>1, TextsJoin, Regroup2
  <2>2. HeadOf(dot ++ (s ++ r)) = "."
    <3>. DEFINE sr == s ++ r
    <3>. HIDE DEF sr
    <3>1. sr \in Texts
      BY <2>1 DEF sr
    <3>2. HeadOf(dot ++ sr) = dot[1]
      BY <1>1, <1>4, <3>1, HeadOfJoined
    <3>. QED  BY <1>4, <3>2 DEF sr
  <2>. QED  BY <1>1, <1>2, <1>6, <2>1, <2>2 DEF s, r, dot
<1>. QED  BY <1>5, <1>6

(* The next character at the width. *)
LEMMA WidthHead ==
  ASSUME NEW d \in Directives, NEW t \in Texts, d.conversion = <<>> => t = <<>>
  PROVE  LET s == SpellSize(d.width)
             r == PrecisionOn(d, t)
         IN  /\ HeadOf(WidthOn(d, t)) \notin FlagChar
             /\ s \in Texts /\ r \in Texts /\ WidthOn(d, t) = s ++ r
             /\ HeadOf(r) \notin Ten \cup {"*"}
             /\ d.width.is = "none" => WidthOn(d, t) = r
             /\ d.width.is = "star" => HeadOf(WidthOn(d, t)) = "*" /\ s = <<"*">>
             /\ d.width.is = "digits" => /\ HeadOf(WidthOn(d, t)) \in Ten
                                         /\ s = Numeral(d.width.n, 10, FALSE) /\ d.width.n \in Nat
<1>. DEFINE s == SpellSize(d.width)
            r == PrecisionOn(d, t)
<1>1. s \in Texts /\ r \in Texts /\ HeadOf(r) \in Ending \cup {"h", "l", "L", "."}
      /\ WidthOn(d, t) = s ++ r
  BY PartsTyped, RestsTyped, PrecisionHead DEF WidthOn
<1>2. HeadOf(r) \notin Ten \cup {"*"} \cup FlagChar
  BY <1>1, EndingIs DEF Ten, FlagChar
<1>3. \/ d.width.is = "none" /\ s = <<>>
      \/ d.width.is = "star" /\ s = <<"*">>
      \/ d.width.is = "digits" /\ d.width.n \in Nat \ {0} /\ s = Numeral(d.width.n, 10, FALSE)
  <2>1. d.width \in Widths /\ Word \div 2 \in Nat
    BY DirectiveFields, WordIs
  <2>. DEFINE w == d.width
  <2>. HIDE DEF w
  <2>2. \/ w.is = "none"
        \/ w.is = "star"
        \/ w.is = "digits" /\ w.n \in Nat \ {0}
    BY <2>1, WidthCases DEF w
  <2>. QED  BY <2>2 DEF w, SpellSize
<1>. HIDE DEF s, r
<1>4. CASE d.width.is = "none" /\ s = <<>>
  <2>1. s ++ r = r
    BY <1>1, <1>4, HeadOfJoined
  <2>. QED  BY <1>1, <1>2, <1>4, <2>1 DEF s, r
<1>5. CASE d.width.is = "star" /\ s = <<"*">>
  <2>1. HeadOf(s ++ r) = "*"
    BY <1>1, <1>5, HeadOfJoined
  <2>2. "*" \notin FlagChar
    BY DEF FlagChar
  <2>. QED  BY <1>1, <1>2, <1>5, <2>1, <2>2 DEF s, r
<1>6. CASE d.width.is = "digits" /\ d.width.n \in Nat \ {0} /\ s = Numeral(d.width.n, 10, FALSE)
  <2>. DEFINE n == d.width.n
              e == FirstDigits(n, 1) % 10
  <2>1. s # <<>> /\ e \in 0..9 /\ s[1] = DigitOf(e, FALSE) /\ e # 0
    <3>1. n \in Nat /\ n # 0
      BY <1>6
    <3>2. 1 \in 1..Places(n, 10)
      <4>1. Places(n, 10) \in Nat \ {0}
        BY <3>1, NumeralDigits
      <4>. QED  BY <4>1
    <3>. HIDE DEF n
    <3>3. Numeral(n, 10, FALSE) # <<>> /\ e \in 0..9 /\ Numeral(n, 10, FALSE)[1] = DigitOf(e, FALSE)
          /\ e # 0
      BY <3>1, <3>2, NumeralDigits
    <3>. QED  BY <1>6, <3>3 DEF n
  <2>. HIDE DEF e
  <2>2. HeadOf(s ++ r) = s[1]
    BY <1>1, <2>1, HeadOfJoined
  <2>3. s[1] \in Ten /\ s[1] \notin FlagChar
    BY <2>1, DigitIs
  <2>. QED  BY <1>1, <1>2, <1>6, <2>2, <2>3 DEF s, r
<1>. QED  BY <1>3, <1>4, <1>5, <1>6

-----------------------------------------------------------------------------
(* The invariant.                                                          *)

(* The spelling and the arguments behind the k-th item. *)
Rest(k) == Spelling(From(message, k + 1))
Left(k) == Arguments(From(message, k + 1))

(* The items in front of the k-th are written, and counted where they ask. *)
Written(k) == str = Rendering(UpTo(message, k - 1)) /\ stored = Counts(UpTo(message, k - 1))

Locals == [flags : SUBSET FlagChar, field_width : Nat \cup {-1}, precision : Nat \cup {-1},
           qualifier : Qualifiers]

AtText ==
  \E k \in 1..(Len(message) + 1) :
    /\ Written(k) /\ directive \in Locals
    /\ Ahead(format, fmt, Spelling(From(message, k))) /\ args = Arguments(From(message, k))

AtFlags(d, t, a) ==
  \E j \in 0..Len(d.flags) :
    /\ directive = [flags |-> Range(UpTo(d.flags, j)), field_width |-> -1, precision |-> -1,
                    qualifier |-> <<>>]
    /\ Ahead(format, fmt, From(d.flags, j + 1) ++ WidthOn(d, t))
    /\ args = StarOf(d.width) ++ (StarOf(d.precision) ++ (d.args ++ a))

AtPrecision(d, t, a) ==
  /\ directive = [flags |-> FlagsRead(d), field_width |-> WidthRead(d), precision |-> -1,
                  qualifier |-> <<>>]
  /\ Ahead(format, fmt, PrecisionOn(d, t))
  /\ args = StarOf(d.precision) ++ (d.args ++ a)

AtQualifier(d, t, a) ==
  /\ directive = [flags |-> FlagsRead(d), field_width |-> WidthRead(d),
                  precision |-> PrecisionRead(d), qualifier |-> <<>>]
  /\ Ahead(format, fmt, QualifierOn(d, t))
  /\ args = d.args ++ a

AtConversion(d, t, a) ==
  /\ directive = [flags |-> FlagsRead(d), field_width |-> WidthRead(d),
                  precision |-> PrecisionRead(d), qualifier |-> d.qualifier]
  /\ Ahead(format, fmt, ConversionOn(d, t))
  /\ args = d.args ++ a

AtEnd ==
  /\ Written(Len(message) + 1) /\ args = <<>> /\ directive \in Locals
  /\ fmt \in 1..(Len(format) + 1)

Within(k) == message[k] \in Directives /\ Written(k)

(* The invariant: at every part of vsprintf, how far it has read the message. *)
Reading ==
  /\ WellFormed(message) /\ format = Spelling(message)
  /\ pc \in {"idle", "text", "flags", "precision", "qualifier", "conversion", "returned"}
  /\ pc = "idle" => TextInit
  /\ pc = "text" => AtText
  /\ pc = "flags" => \E k \in 1..Len(message) : Within(k) /\ AtFlags(message[k], Rest(k), Left(k))
  /\ pc = "precision" => \E k \in 1..Len(message) : Within(k) /\ AtPrecision(message[k], Rest(k), Left(k))
  /\ pc = "qualifier" => \E k \in 1..Len(message) : Within(k) /\ AtQualifier(message[k], Rest(k), Left(k))
  /\ pc = "conversion" => \E k \in 1..Len(message) : Within(k) /\ AtConversion(message[k], Rest(k), Left(k))
  /\ pc = "returned" => AtEnd

(* A message and its end, from an item on. *)
LEMMA ItemAhead ==
  ASSUME NEW m, WellFormed(m), NEW k \in 1..Len(m)
  PROVE  LET t == Spelling(From(m, k + 1))
             a == Arguments(From(m, k + 1))
         IN  /\ m \in Seq(Items) /\ Len(m) \in Nat /\ m[k] \in Items
             /\ t \in Texts /\ a \in Seq(Argument)
             /\ Spelling(From(m, k)) = Spell(m[k]) ++ t
             /\ Arguments(From(m, k)) = ArgsOf(m[k]) ++ a
             /\ m[k] \in Directives => (m[k].conversion = <<>> => t = <<>>)
<1>1. m \in Seq(Items) /\ Len(m) \in Nat /\ m[k] \in Items
  BY DEF WellFormed
<1>2. /\ Spelling(From(m, k)) = Spell(m[k]) ++ Spelling(From(m, k + 1))
      /\ Spelling(From(m, k + 1)) \in Texts
      /\ Arguments(From(m, k)) = ArgsOf(m[k]) ++ Arguments(From(m, k + 1))
      /\ Arguments(From(m, k + 1)) \in Seq(Argument)
  BY <1>1, SpellingFrom, ArgumentsFrom
<1>3. ASSUME m[k] \in Directives, m[k].conversion = <<>> PROVE Spelling(From(m, k + 1)) = <<>>
  <2>1. "plain" \notin DOMAIN m[k]
    BY <1>3, DirectiveFields
  <2>2. k = Len(m)
    BY <1>3, <2>1 DEF WellFormed
  <2>3. From(m, Len(m) + 1) = <<>> /\ Spelling(<<>>) = <<>>
    BY <1>1, Ends
  <2>. QED  BY <2>2, <2>3
<1>. QED  BY <1>1, <1>2, <1>3

(* What a directive leaves in front of the rest. *)
LEMMA DirectiveAhead ==
  ASSUME NEW m, WellFormed(m), NEW k \in 1..Len(m), m[k] \in Directives
  PROVE  LET d == m[k]
             t == Spelling(From(m, k + 1))
             a == Arguments(From(m, k + 1))
             A == Seq(Argument)
         IN  /\ t \in Texts /\ a \in A /\ (d.conversion = <<>> => t = <<>>)
             /\ Spelling(From(m, k)) = <<"%">> ++ FlagsOn(d, t)
             /\ Arguments(From(m, k)) = StarOf(d.width) ++ (StarOf(d.precision) ++ (d.args ++ a))
             /\ StarOf(d.width) \in A /\ StarOf(d.precision) \in A /\ d.args \in A
             /\ d.args ++ a \in A /\ StarOf(d.precision) ++ (d.args ++ a) \in A
<1>. DEFINE d == m[k]
            t == Spelling(From(m, k + 1))
            a == Arguments(From(m, k + 1))
            A == Seq(Argument)
            s == StarOf(d.width)
            p == StarOf(d.precision)
            g == d.args
<1>1. /\ t \in Texts /\ a \in A /\ (d.conversion = <<>> => t = <<>>)
      /\ Spelling(From(m, k)) = Spell(d) ++ t
      /\ Arguments(From(m, k)) = ArgsOf(d) ++ a
  BY ItemAhead
<1>2. Spell(d) ++ t = <<"%">> ++ FlagsOn(d, t)
  BY <1>1, SpellIs
<1>3. s \in A /\ p \in A /\ g \in A /\ Joins(A)
  BY DirectiveFields, SizeSpelled, SequencesJoin
<1>4. ArgsOf(d) = (s ++ p) ++ g
  BY DirectiveFields DEF ArgsOf, ++
<1>. HIDE DEF t, a, A, s, p, g
<1>5. ((s ++ p) ++ g) ++ a = s ++ (p ++ (g ++ a)) /\ p ++ (g ++ a) \in A
  BY <1>1, <1>3, Regroup3
<1>6. g ++ a \in A
  BY <1>1, <1>3, Regroup2
<1>7. Arguments(From(m, k)) = s ++ (p ++ (g ++ a))
  BY <1>1, <1>4, <1>5
<1>. QED  BY <1>1, <1>2, <1>3, <1>5, <1>6, <1>7 DEF t, a, A, s, p, g

(* Where the text stands, by the next character. *)
LEMMA TextCases ==
  ASSUME NEW m, WellFormed(m), NEW k \in 1..(Len(m) + 1),
         NEW f, NEW p, Ahead(f, p, Spelling(From(m, k)))
  PROVE  /\ k = Len(m) + 1 => CharAt(f, p) = NUL
         /\ k # Len(m) + 1 => /\ k \in 1..Len(m)
                              /\ \/ "plain" \in DOMAIN m[k] /\ CharAt(f, p) = m[k].plain
                                     /\ m[k].plain \in Character \ {"%"}
                                 \/ m[k] \in Directives /\ CharAt(f, p) = "%"
<1>1. CharAt(f, p) = HeadOf(Spelling(From(m, k))) /\ Len(m) \in Nat /\ m \in Seq(Items)
  BY AheadHead DEF WellFormed
<1>2. k = Len(m) + 1 => CharAt(f, p) = NUL
  BY <1>1, Ends DEF HeadOf
<1>3. ASSUME k # Len(m) + 1
      PROVE  /\ k \in 1..Len(m)
             /\ \/ "plain" \in DOMAIN m[k] /\ CharAt(f, p) = m[k].plain
                    /\ m[k].plain \in Character \ {"%"}
                \/ m[k] \in Directives /\ CharAt(f, p) = "%"
  <2>1. k \in 1..Len(m)
    BY <1>1, <1>3
  <2>. DEFINE t == Spelling(From(m, k + 1))
  <2>2. m[k] \in Items /\ t \in Texts /\ Spelling(From(m, k)) = Spell(m[k]) ++ t
    BY <2>1, ItemAhead
  <2>. HIDE DEF t
  <2>3. CASE "plain" \in DOMAIN m[k] /\ m[k].plain \in Character \ {"%"}
    <3>1. Spell(m[k]) = <<m[k].plain>>
      BY <2>3 DEF Spell
    <3>. DEFINE s == <<m[k].plain>>
    <3>2. s \in Texts /\ s # <<>> /\ s[1] = m[k].plain
      BY <2>3 DEF Texts
    <3>. HIDE DEF s
    <3>3. HeadOf(s ++ t) = s[1]
      BY <2>2, <3>2, HeadOfJoined
    <3>. QED  BY <1>1, <2>1, <2>2, <2>3, <3>1, <3>2, <3>3 DEF s
  <2>4. CASE m[k] \in Directives
    <3>. DEFINE s == <<"%">>
                u == FlagsOn(m[k], t)
    <3>1. Spell(m[k]) ++ t = s ++ u /\ u \in Texts /\ s \in Texts /\ s # <<>> /\ s[1] = "%"
      BY <2>2, <2>4, SpellIs, RestsTyped, Letters
    <3>. HIDE DEF s, u
    <3>2. HeadOf(s ++ u) = s[1]
      BY <3>1, HeadOfJoined
    <3>. QED  BY <1>1, <2>1, <2>2, <2>4, <3>1, <3>2
  <2>. QED  BY <2>2, <2>3, <2>4, ItemCases
<1>. QED  BY <1>2, <1>3

-----------------------------------------------------------------------------
(* The steps of vsprintf preserve it.                                      *)

(* *fmt is the first character of what is ahead. *)
LEMMA CharIsHead ==
  ASSUME NEW rest, Ahead(format, fmt, rest)
  PROVE  /\ Char = HeadOf(rest) /\ fmt \in Nat /\ fmt \in 1..(Len(format) + 1)
         /\ Len(format) \in Nat /\ Char = CharAt(format, fmt)
<1>1. CharAt(format, fmt) = HeadOf(rest) /\ fmt \in Nat /\ fmt \in 1..(Len(format) + 1)
      /\ Len(format) \in Nat
  BY AheadHead
<1>. QED  BY <1>1 DEF Char, At, CharAt

(* A directive's locals are set up. *)
LEMMA LocalsTyped == NoDirective \in Locals
<1>1. <<>> \in Qualifiers /\ -1 \in Nat \cup {-1}
  BY DEF Qualifiers
<1>. QED  BY <1>1 DEF NoDirective, Locals

(* No message is spelled by the empty format. *)
LEMMA NothingMeant == WellFormed(<<>>) /\ Spelling(<<>>) = <<>>
<1>1. WellFormed(<<>>)
  BY DEF WellFormed
<1>. DEFINE e == <<>>
<1>2. e \in Seq({})
  OBVIOUS
<1>. HIDE DEF e
<1>3. Spelling(<<>>) = <<>>
  BY <1>2, Ends
<1>. QED  BY <1>1, <1>3

(* Reading holds at first. *)
LEMMA ReadingInit == TextInit => Reading
<1>. SUFFICES ASSUME TextInit PROVE Reading
  OBVIOUS
<1>1. message = <<>> /\ format = <<>> /\ pc = "idle"
  BY DEF TextInit
<1>. QED  BY <1>1, NothingMeant DEF Reading

(* The text so far and the counts are there before anything is read. *)
LEMMA WrittenFirst ==
  ASSUME NEW m, WellFormed(m)
  PROVE  /\ From(m, 1) = m /\ 1 \in 1..(Len(m) + 1) /\ Len(m) \in Nat
         /\ Rendering(UpTo(m, 1 - 1)) = <<>> /\ Counts(UpTo(m, 1 - 1)) = <<>>
         /\ Spelling(m) \in Texts /\ Arguments(m) \in Seq(Argument)
<1>1. m \in Seq(Items) /\ Len(m) \in Nat
  BY DEF WellFormed
<1>2. From(m, 1) = m /\ UpTo(m, 0) = <<>> /\ Rendering(<<>>) = <<>> /\ Counts(<<>>) = <<>>
      /\ Spelling(<<>>) = <<>> /\ Arguments(<<>>) = <<>>
  BY <1>1, Ends
<1>3. 1 - 1 = 0 /\ 1 \in 1..(Len(m) + 1)
  BY <1>1
<1>4. Spelling(m) \in Texts /\ Arguments(m) \in Seq(Argument)
  <2>1. CASE Len(m) = 0
    <3>1. m = <<>>
      BY <1>1, <2>1
    <3>2. <<>> \in Texts /\ <<>> \in Seq(Argument)
      BY TextsJoin DEF Joins
    <3>. QED  BY <1>2, <3>1, <3>2
  <2>2. CASE Len(m) # 0
    <3>1. 1 \in 1..Len(m) /\ 1 + 1 \in Nat
      BY <1>1, <2>2
    <3>. DEFINE t == Spelling(From(m, 1 + 1))
                a == Arguments(From(m, 1 + 1))
    <3>2. /\ m[1] \in Items /\ t \in Texts /\ a \in Seq(Argument)
          /\ Spelling(m) = Spell(m[1]) ++ t /\ Arguments(m) = ArgsOf(m[1]) ++ a
      BY <1>2, <3>1, ItemAhead
    <3>3. Spell(m[1]) \in Texts /\ ArgsOf(m[1]) \in Seq(Argument)
      BY <3>2, PiecesTyped DEF Texts
    <3>. HIDE DEF t, a
    <3>4. Spell(m[1]) ++ t \in Texts
      BY <3>2, <3>3, TextsJoin DEF Joins
    <3>5. ArgsOf(m[1]) ++ a \in Seq(Argument)
      BY <3>2, <3>3, SequencesJoin DEF Joins
    <3>. QED  BY <3>2, <3>4, <3>5
  <2>. QED  BY <2>1, <2>2
<1>. QED  BY <1>1, <1>2, <1>3, <1>4

(* A call begins at the first item. *)
LEMMA ReadingCalled ==
  ASSUME NEW m, WellFormed(m), Reading, vsprintf(m)
  PROVE  Reading'
<1>1. /\ pc = "idle" /\ message' = m /\ format' = Spelling(m) /\ args' = Arguments(m)
      /\ fmt' = 1 /\ str' = <<>> /\ stored' = <<>> /\ pc' = "text" /\ directive' = directive
  BY DEF vsprintf
<1>2. directive \in Locals
  BY <1>1, LocalsTyped DEF Reading, TextInit
<1>3. /\ From(m, 1) = m /\ 1 \in 1..(Len(m) + 1)
      /\ Rendering(UpTo(m, 1 - 1)) = <<>> /\ Counts(UpTo(m, 1 - 1)) = <<>>
      /\ Spelling(m) \in Texts
  BY WrittenFirst
<1>4. Ahead(Spelling(m), 1, Spelling(m))
  BY <1>3, AheadStart
<1>5. AtText'
  <2>1. Written(1)'
    BY <1>1, <1>3 DEF Written
  <2>2. Ahead(format', fmt', Spelling(From(message', 1))) /\ args' = Arguments(From(message', 1))
    BY <1>1, <1>3, <1>4
  <2>. QED  BY <1>1, <1>2, <1>3, <2>1, <2>2 DEF AtText
<1>. QED  BY <1>1, <1>5 DEF Reading

(* Between two calls there is no message. *)
LEMMA ReadingLeft ==
  ASSUME Leave
  PROVE  Reading'
<1>1. TextInit'
  BY DEF Leave, TextInit
<1>2. message' = <<>> /\ format' = <<>> /\ pc' = "idle"
  BY DEF Leave
<1>. QED  BY <1>1, <1>2, NothingMeant DEF Reading

(* What Goes leaves of the format and of the arguments. *)
LEMMA Gone ==
  ASSUME NEW n, NEW taken, NEW part, Goes(n, taken, part), NEW a \in Texts, NEW b \in Texts,
         NEW x \in Seq(Argument), NEW y \in Seq(Argument),
         Ahead(format, fmt, a ++ b), args = x ++ y, n = Len(a), taken = Len(x)
  PROVE  /\ Ahead(format', fmt', b) /\ args' = y /\ pc' = part
         /\ message' = message /\ format' = format /\ stored' = stored
<1>1. /\ fmt' = fmt + n /\ args' = SubSeq(args, taken + 1, Len(args)) /\ pc' = part
      /\ message' = message /\ format' = format /\ stored' = stored
  BY DEF Goes
<1>2. Ahead(format, fmt + Len(a), b)
  BY AheadSkip
<1>3. SubSeq(x ++ y, Len(x) + 1, Len(x ++ y)) = y
  BY DropFront
<1>. QED  BY <1>1, <1>2, <1>3

(* The same where nothing is passed and nothing is taken. *)
LEMMA Stays ==
  ASSUME NEW part, Goes(0, 0, part), NEW b \in Texts, NEW y \in Seq(Argument),
         Ahead(format, fmt, b), args = y
  PROVE  /\ Ahead(format', fmt', b) /\ args' = y /\ pc' = part
         /\ message' = message /\ format' = format /\ stored' = stored
<1>. DEFINE e == <<>>
<1>1. e \in Texts /\ e \in Seq(Argument) /\ e ++ b = b /\ e ++ y = y /\ Len(e) = 0
  <2>1. Joins(Texts) /\ Joins(Seq(Argument))
    BY TextsJoin, SequencesJoin
  <2>. QED  BY <2>1 DEF Joins
<1>. HIDE DEF e
<1>. QED  BY <1>1, Gone

(* The items passed so far and one more. *)
LEMMA OneItemMore ==
  ASSUME NEW m, WellFormed(m), NEW k \in 1..Len(m)
  PROVE  LET s == Rendering(UpTo(m, k - 1))
             c == Counts(UpTo(m, k - 1))
         IN  /\ s \in Texts /\ Rendered(m[k]) \in Texts /\ c \in Seq(Nat)
             /\ Rendering(UpTo(m, (k + 1) - 1)) = s ++ Rendered(m[k])
             /\ Counts(UpTo(m, (k + 1) - 1)) = c \o CountAt(m, k)
             /\ k + 1 \in 1..(Len(m) + 1)
             /\ CountAt(m, k) = <<>> => Counts(UpTo(m, (k + 1) - 1)) = c
<1>1. m \in Seq(Items) /\ Len(m) \in Nat /\ (k + 1) - 1 = k /\ k + 1 \in 1..(Len(m) + 1)
  BY DEF WellFormed
<1>2. /\ Rendering(UpTo(m, k)) = Rendering(UpTo(m, k - 1)) ++ Rendered(m[k])
      /\ Rendering(UpTo(m, k - 1)) \in Texts /\ Rendered(m[k]) \in Texts
  BY <1>1, RenderingNext
<1>3. /\ Counts(UpTo(m, k)) = Counts(UpTo(m, k - 1)) \o CountAt(m, k)
      /\ Counts(UpTo(m, k - 1)) \in Seq(Nat)
  BY <1>1, CountsNext
<1>. DEFINE c == Counts(UpTo(m, k - 1))
<1>4. c \o <<>> = c
  <2>1. c \in Seq(Nat)
    BY <1>3
  <2>. HIDE DEF c
  <2>. QED  BY <2>1, ConcatEmptySeq
<1>. QED  BY <1>1, <1>2, <1>3, <1>4

(* An item is behind: what is written of it, counted and left. *)
LEMMA ReadingNext ==
  ASSUME Reading, NEW k \in 1..Len(message), Written(k), directive' \in Locals,
         message' = message, format' = format, pc' = "text",
         Ahead(format', fmt', Rest(k)), args' = Left(k),
         str' = str ++ Rendered(message[k]), stored' = stored \o CountAt(message, k)
  PROVE  Reading'
<1>1. WellFormed(message) /\ format = Spelling(message)
  BY DEF Reading
<1>2. /\ Rendering(UpTo(message, (k + 1) - 1)) = Rendering(UpTo(message, k - 1)) ++ Rendered(message[k])
      /\ Counts(UpTo(message, (k + 1) - 1)) = Counts(UpTo(message, k - 1)) \o CountAt(message, k)
      /\ k + 1 \in 1..(Len(message) + 1)
  BY <1>1, OneItemMore
<1>3. Written(k + 1)'
  BY <1>2 DEF Written
<1>4. Ahead(format', fmt', Spelling(From(message', k + 1))) /\ args' = Arguments(From(message', k + 1))
  BY DEF Rest, Left
<1>5. AtText'
  BY <1>2, <1>3, <1>4 DEF AtText
<1>. QED  BY <1>1, <1>5 DEF Reading

(* The item the text stands at. *)
LEMMA TextStands ==
  ASSUME Reading, pc = "text"
  PROVE  \E k \in 1..(Len(message) + 1) :
           /\ Written(k) /\ directive \in Locals
           /\ Ahead(format, fmt, Spelling(From(message, k))) /\ args = Arguments(From(message, k))
           /\ k = Len(message) + 1 <=> Char = NUL
           /\ Char \notin {"%", NUL} => /\ k \in 1..Len(message) /\ "plain" \in DOMAIN message[k]
                                        /\ Char = message[k].plain
                                        /\ message[k].plain \in Character \ {"%"}
           /\ Char = "%" => k \in 1..Len(message) /\ message[k] \in Directives
<1>1. PICK k \in 1..(Len(message) + 1) :
        /\ Written(k) /\ directive \in Locals
        /\ Ahead(format, fmt, Spelling(From(message, k))) /\ args = Arguments(From(message, k))
  BY DEF Reading, AtText
<1>2. WellFormed(message)
  BY DEF Reading
<1>3. Char = CharAt(format, fmt)
  BY <1>1, CharIsHead
<1>4. /\ k = Len(message) + 1 => Char = NUL
      /\ k # Len(message) + 1 =>
           /\ k \in 1..Len(message)
           /\ \/ "plain" \in DOMAIN message[k] /\ Char = message[k].plain
                  /\ message[k].plain \in Character \ {"%"}
              \/ message[k] \in Directives /\ Char = "%"
  BY <1>1, <1>2, <1>3, TextCases
<1>5. NUL \notin Character /\ NUL # "%"
  BY CharacterAssumption DEF NUL
<1>6. k = Len(message) + 1 <=> Char = NUL
  BY <1>4, <1>5
<1>7. Char \notin {"%", NUL} => /\ k \in 1..Len(message) /\ "plain" \in DOMAIN message[k]
                                /\ Char = message[k].plain
                                /\ message[k].plain \in Character \ {"%"}
  BY <1>4
<1>8. Char = "%" => k \in 1..Len(message) /\ message[k] \in Directives
  BY <1>4, <1>5, <1>6
<1>. QED  BY <1>1, <1>6, <1>7, <1>8

(* With no count to store, what is stored stays. *)
LEMMA StoredStays ==
  ASSUME Reading, NEW k \in 1..Len(message), Written(k), CountAt(message, k) = <<>>
  PROVE  stored \o CountAt(message, k) = stored
<1>1. WellFormed(message)
  BY DEF Reading
<1>2. stored \in Seq(Nat)
  BY <1>1, OneItemMore DEF Written
<1>3. stored \o <<>> = stored
  BY <1>2, ConcatEmptySeq
<1>. QED  BY <1>3

(* CopyPlain passes a plain item. *)
LEMMA ReadingCopyPlain == Reading /\ CopyPlain => Reading'
<1>. SUFFICES ASSUME Reading, CopyPlain PROVE Reading'
  OBVIOUS
<1>1. /\ pc = "text" /\ Char \notin {"%", NUL} /\ str' = Append(str, Char)
      /\ Goes(1, 0, "text") /\ directive' = directive
  BY DEF CopyPlain
<1>2. PICK k \in 1..(Len(message) + 1) :
        /\ Written(k) /\ directive \in Locals
        /\ Ahead(format, fmt, Spelling(From(message, k))) /\ args = Arguments(From(message, k))
        /\ k \in 1..Len(message) /\ "plain" \in DOMAIN message[k]
        /\ Char = message[k].plain /\ message[k].plain \in Character \ {"%"}
  BY <1>1, TextStands
<1>3. WellFormed(message)
  BY DEF Reading
<1>4. /\ Rest(k) \in Texts /\ Left(k) \in Seq(Argument)
      /\ Spelling(From(message, k)) = Spell(message[k]) ++ Rest(k)
      /\ Arguments(From(message, k)) = ArgsOf(message[k]) ++ Left(k)
  BY <1>2, <1>3, ItemAhead DEF Rest, Left
<1>. DEFINE s == <<message[k].plain>>
            x == <<>>
<1>5. /\ Spell(message[k]) = s /\ ArgsOf(message[k]) = x /\ Rendered(message[k]) = s
      /\ CountAt(message, k) = <<>>
  BY <1>2 DEF Spell, ArgsOf, Rendered, CountAt
<1>6. s \in Texts /\ Len(s) = 1 /\ x \in Seq(Argument) /\ Len(x) = 0
  BY <1>2 DEF Texts
<1>7. str' = str ++ s
  <2>1. str \in Seq(Character)
    <3>1. str \in Texts
      BY <1>2, <1>3, OneItemMore DEF Written
    <3>. QED  BY <3>1 DEF Texts
  <2>2. Append(str, Char) = str \o <<Char>>
    BY ONLY <2>1, AppendIsConcat
  <2>. QED  BY <1>1, <1>2, <2>2 DEF ++
<1>. HIDE DEF s, x
<1>8. /\ Ahead(format', fmt', Rest(k)) /\ args' = Left(k) /\ pc' = "text"
      /\ message' = message /\ format' = format /\ stored' = stored
  <2>1. Ahead(format, fmt, s ++ Rest(k)) /\ args = x ++ Left(k)
    BY <1>2, <1>4, <1>5
  <2>. QED  BY ONLY <1>1, <1>4, <1>6, <2>1, Gone
<1>9. stored' = stored \o CountAt(message, k)
  BY <1>2, <1>5, <1>8, StoredStays
<1>. QED  BY <1>1, <1>2, <1>5, <1>7, <1>8, <1>9, ReadingNext

(* The terminator is reached behind the last item only. *)
LEMMA ReadingReturn == Reading /\ Return => Reading'
<1>. SUFFICES ASSUME Reading, Return PROVE Reading'
  OBVIOUS
<1>1. pc = "text" /\ Char = NUL /\ Goes(0, 0, "returned") /\ str' = str /\ directive' = directive
  BY DEF Return
<1>2. PICK k \in 1..(Len(message) + 1) :
        /\ Written(k) /\ directive \in Locals
        /\ Ahead(format, fmt, Spelling(From(message, k))) /\ args = Arguments(From(message, k))
        /\ k = Len(message) + 1
  BY <1>1, TextStands
<1>3. WellFormed(message) /\ format = Spelling(message)
  BY DEF Reading
<1>. DEFINE e == <<>>
<1>4. /\ Spelling(From(message, k)) = e /\ Arguments(From(message, k)) = e
      /\ e \in Texts /\ e \in Seq(Argument)
  <2>1. message \in Seq(Items)
    BY <1>3 DEF WellFormed
  <2>2. Joins(Texts) /\ Joins(Seq(Argument))
    BY TextsJoin, SequencesJoin
  <2>. QED  BY <1>2, <2>1, <2>2, Ends DEF Joins
<1>. HIDE DEF e
<1>5. /\ Ahead(format', fmt', e) /\ args' = e /\ pc' = "returned"
      /\ message' = message /\ format' = format /\ stored' = stored
  <2>1. Ahead(format, fmt, e) /\ args = e
    BY <1>2, <1>4
  <2>. QED  BY ONLY <1>1, <1>4, <2>1, Stays
<1>6. fmt' \in 1..(Len(format') + 1)
  BY <1>5, AheadHead
<1>7. Written(Len(message) + 1)'
  BY <1>1, <1>2, <1>5 DEF Written
<1>8. AtEnd'
  BY <1>1, <1>2, <1>5, <1>6, <1>7 DEF AtEnd, e
<1>. QED  BY <1>3, <1>5, <1>8 DEF Reading

(* A percent sign begins a directive. *)
LEMMA ReadingPercent == Reading /\ Percent => Reading'
<1>. SUFFICES ASSUME Reading, Percent PROVE Reading'
  OBVIOUS
<1>1. pc = "text" /\ Char = "%" /\ directive' = NoDirective /\ Goes(1, 0, "flags") /\ str' = str
  BY DEF Percent
<1>2. PICK k \in 1..(Len(message) + 1) :
        /\ Written(k)
        /\ Ahead(format, fmt, Spelling(From(message, k))) /\ args = Arguments(From(message, k))
        /\ k \in 1..Len(message) /\ message[k] \in Directives
  BY <1>1, TextStands
<1>3. WellFormed(message) /\ format = Spelling(message)
  BY DEF Reading
<1>. DEFINE d == message[k]
            t == Rest(k)
            a == Left(k)
            y == StarOf(d.width) ++ (StarOf(d.precision) ++ (d.args ++ a))
            s == <<"%">>
            x == <<>>
            r == FlagsOn(d, t)
<1>4. /\ t \in Texts /\ a \in Seq(Argument)
      /\ Spelling(From(message, k)) = s ++ r
      /\ Arguments(From(message, k)) = y
      /\ y \in Seq(Argument)
  <2>1. /\ t \in Texts /\ a \in Seq(Argument)
        /\ Spelling(From(message, k)) = s ++ r
        /\ Arguments(From(message, k)) = y
        /\ StarOf(d.width) \in Seq(Argument)
        /\ StarOf(d.precision) ++ (d.args ++ a) \in Seq(Argument)
    BY <1>2, <1>3, DirectiveAhead DEF Rest, Left
  <2>. DEFINE u == StarOf(d.width)
              w == StarOf(d.precision) ++ (d.args ++ a)
  <2>2. u \in Seq(Argument) /\ w \in Seq(Argument) /\ y = u ++ w
    BY <2>1
  <2>. HIDE DEF u, w, y
  <2>3. y \in Seq(Argument)
    BY <2>2, SequencesJoin DEF Joins
  <2>. QED  BY <2>1, <2>3 DEF y
<1>5. s \in Texts /\ Len(s) = 1 /\ x \in Seq(Argument) /\ Len(x) = 0 /\ r \in Texts /\ x ++ y = y
  <2>1. r \in Texts
    BY <1>2, <1>4, RestsTyped
  <2>2. x ++ y = y
    <3>. DEFINE A == Seq(Argument)
    <3>1. y \in A /\ Joins(A)
      BY <1>4, SequencesJoin
    <3>. HIDE DEF y, A
    <3>2. <<>> ++ y = y
      BY ONLY <3>1 DEF Joins
    <3>. QED  BY ONLY <3>2 DEF x
  <2>3. s \in Texts /\ Len(s) = 1 /\ x \in Seq(Argument) /\ Len(x) = 0
    <3>1. s \in Texts
      BY ONLY Letters
    <3>2. Len(s) = 1 /\ Len(x) = 0
      BY ONLY TRUE
    <3>3. x \in Seq(Argument)
      BY ONLY TRUE
    <3>. QED  BY <3>1, <3>2, <3>3
  <2>. HIDE DEF s, x, r, y
  <2>. QED  BY <2>1, <2>2, <2>3
<1>6. r = From(d.flags, 0 + 1) ++ WidthOn(d, t) /\ 0 \in 0..Len(d.flags)
      /\ Range(UpTo(d.flags, 0)) = {}
  <2>1. d.flags \in Seq(FlagChar)
    BY <1>2, DirectiveFields
  <2>2. From(d.flags, 1) = d.flags /\ UpTo(d.flags, 0) = <<>>
    BY <2>1, Ends
  <2>3. Range(<<>>) = {}
    BY DEF Range
  <2>4. 0 \in 0..Len(d.flags) /\ 0 + 1 = 1
    BY <2>1
  <2>. QED  BY <2>2, <2>3, <2>4 DEF FlagsOn
<1>. HIDE DEF s, x, r, y, t, a, d
<1>7. /\ Ahead(format', fmt', r) /\ args' = y /\ pc' = "flags"
      /\ message' = message /\ format' = format /\ stored' = stored
  <2>1. Ahead(format, fmt, s ++ r) /\ args = x ++ y
    BY <1>2, <1>4, <1>5
  <2>. QED  BY ONLY <1>1, <1>4, <1>5, <2>1, Gone
<1>8. AtFlags(d, t, a)'
  <2>1. directive' = [flags |-> Range(UpTo(d.flags, 0)), field_width |-> -1, precision |-> -1,
                      qualifier |-> <<>>]
    BY <1>1, <1>6 DEF NoDirective
  <2>2. /\ Ahead(format', fmt', From(d.flags, 0 + 1) ++ WidthOn(d, t))
        /\ args' = StarOf(d.width) ++ (StarOf(d.precision) ++ (d.args ++ a))
    BY <1>6, <1>7 DEF y
  <2>3. d' = d /\ t' = t /\ a' = a
    BY <1>7 DEF d, t, a, Rest, Left
  <2>. QED  BY <1>6, <2>1, <2>2, <2>3 DEF AtFlags
<1>9. Within(k)'
  BY <1>1, <1>2, <1>7 DEF Within, Written
<1>10. \E l \in 1..Len(message') : (Within(l) /\ AtFlags(message[l], Rest(l), Left(l)))'
  BY <1>2, <1>7, <1>8, <1>9 DEF d, t, a
<1>. QED  BY <1>3, <1>7, <1>10 DEF Reading

(* What is known inside a directive. *)
LEMMA WithinFacts ==
  ASSUME Reading, NEW k \in 1..Len(message), Within(k)
  PROVE  LET d == message[k]
             A == Seq(Argument)
         IN  /\ d \in Directives /\ Rest(k) \in Texts /\ Left(k) \in A
             /\ d.conversion = <<>> => Rest(k) = <<>>
             /\ StarOf(d.width) \in A /\ StarOf(d.precision) \in A /\ d.args \in A
             /\ d.args ++ Left(k) \in A /\ StarOf(d.precision) ++ (d.args ++ Left(k)) \in A
<1>1. WellFormed(message) /\ message[k] \in Directives
  BY DEF Reading, Within
<1>. QED  BY <1>1, DirectiveAhead DEF Rest, Left

(* Steps that write nothing stay inside it. *)
LEMMA StillWithin ==
  ASSUME NEW k, Within(k), message' = message, str' = str, stored' = stored
  PROVE  Within(k)' /\ Rest(k)' = Rest(k) /\ Left(k)' = Left(k)
BY DEF Within, Written, Rest, Left

(* One flag more. *)
LEMMA FlagNext ==
  ASSUME NEW f \in Seq(FlagChar), NEW j \in 0..Len(f)
  PROVE  /\ From(f, j + 1) \in Texts
         /\ j = Len(f) => From(f, j + 1) = <<>> /\ UpTo(f, j) = f
         /\ j # Len(f) => /\ From(f, j + 1) = <<f[j + 1]>> ++ From(f, (j + 1) + 1)
                          /\ From(f, (j + 1) + 1) \in Texts /\ <<f[j + 1]>> \in Texts
                          /\ f[j + 1] \in FlagChar /\ j + 1 \in 0..Len(f)
                          /\ Range(UpTo(f, j + 1)) = Range(UpTo(f, j)) \cup {f[j + 1]}
<1>. DEFINE n == Len(f)
<1>0. FlagChar \subseteq Character
  BY Meanings DEF FlagChar
<1>1. n \in Nat /\ FlagChar \subseteq Character
  BY <1>0
<1>2. \A x \in Seq(FlagChar) : x \in Texts
  BY <1>1 DEF Texts
<1>3. j = n => From(f, j + 1) = <<>> /\ UpTo(f, j) = f
  BY Ends
<1>4. From(f, j + 1) \in Texts
  <2>1. j + 1 \in 1..(n + 1)
    BY <1>1
  <2>2. From(f, j + 1) \in Seq(FlagChar)
    BY <2>1, FromIs
  <2>. QED  BY <1>2, <2>2
<1>5. ASSUME j # n
      PROVE  /\ From(f, j + 1) = <<f[j + 1]>> ++ From(f, (j + 1) + 1)
             /\ From(f, (j + 1) + 1) \in Texts /\ <<f[j + 1]>> \in Texts
             /\ f[j + 1] \in FlagChar /\ j + 1 \in 0..n
             /\ Range(UpTo(f, j + 1)) = Range(UpTo(f, j)) \cup {f[j + 1]}
  <2>. DEFINE k == j + 1
  <2>1. k \in 1..n /\ k \in 1..(n + 1) /\ k + 1 \in 1..(n + 1) /\ k \in 0..n /\ j \in 0..n
        /\ k - 1 = j /\ k \in Nat /\ j \in Nat
    BY <1>1, <1>5
  <2>. HIDE DEF k
  <2>2. f[k] \in FlagChar
    BY <2>1
  <2>. DEFINE a == <<f[k]>>
              b == From(f, k + 1)
              g == From(f, k)
  <2>3. /\ g \in Seq(FlagChar) /\ Len(g) = n - k + 1
        /\ \A i \in 1..(n - k + 1) : g[i] = f[k + i - 1]
    <3>. DEFINE X == FlagChar
    <3>1. k \in 1..(Len(f) + 1) /\ f \in Seq(X)
      BY <2>1
    <3>. HIDE DEF X
    <3>2. /\ From(f, k) \in Seq(X) /\ Len(From(f, k)) = Len(f) - k + 1
          /\ \A i \in 1..(Len(f) - k + 1) : From(f, k)[i] = f[k + i - 1]
      BY ONLY <3>1, FromIs
    <3>. QED  BY ONLY <3>2 DEF X
  <2>4. /\ b \in Seq(FlagChar) /\ Len(b) = n - (k + 1) + 1
        /\ \A i \in 1..(n - (k + 1) + 1) : b[i] = f[(k + 1) + i - 1]
    <3>. DEFINE l == k + 1
    <3>1. l \in 1..(n + 1)
      BY <2>1
    <3>. HIDE DEF l
    <3>2. /\ From(f, l) \in Seq(FlagChar) /\ Len(From(f, l)) = n - l + 1
          /\ \A i \in 1..(n - l + 1) : From(f, l)[i] = f[l + i - 1]
      BY ONLY f \in Seq(FlagChar), <3>1, FromIs
    <3>. QED  BY <3>2 DEF l
  <2>5. a \in Seq(FlagChar) /\ Len(a) = 1 /\ a[1] = f[k]
    BY <2>2
  <2>. HIDE DEF a, b, g, n
  <2>6. /\ Len(a ++ b) = Len(a) + Len(b) /\ a ++ b \in Seq(FlagChar)
        /\ \A i \in 1..Len(a) : (a ++ b)[i] = a[i]
        /\ \A i \in 1..Len(b) : (a ++ b)[Len(a) + i] = b[i]
    <3>1. a \in Seq(FlagChar) /\ b \in Seq(FlagChar)
      BY <2>4, <2>5
    <3>2. a ++ b \in Seq(FlagChar)
      BY ONLY <3>1, DropFront
    <3>3. /\ Len(a ++ b) = Len(a) + Len(b)
          /\ \A i \in 1..Len(a) : (a ++ b)[i] = a[i]
          /\ \A i \in 1..Len(b) : (a ++ b)[Len(a) + i] = b[i]
      BY ONLY <3>1, Joined
    <3>. QED  BY <3>2, <3>3
  <2>7. g = a ++ b
    <3>. DEFINE ab == a ++ b
    <3>1. ab \in Seq(FlagChar) /\ Len(ab) = 1 + Len(b) /\ ab[1] = f[k]
          /\ \A i \in 1..Len(b) : ab[1 + i] = b[i]
      BY <2>5, <2>6
    <3>. HIDE DEF ab, b, g
    <3>2. Len(ab) = Len(g)
      BY <1>1, <2>1, <2>3, <2>4, <3>1
    <3>3. ASSUME NEW i \in 1..Len(g) PROVE g[i] = ab[i]
      <4>1. CASE i = 1
        <5>1. g[1] = f[k]
          <6>1. 1 \in 1..(n - k + 1) /\ k + 1 - 1 = k
            BY <1>1, <2>1
          <6>. QED  BY <2>3, <6>1
        <5>. QED  BY <3>1, <4>1, <5>1
      <4>2. CASE i # 1
        <5>1. i - 1 \in 1..Len(b) /\ 1 + (i - 1) = i /\ (k + 1) + (i - 1) - 1 = k + i - 1
              /\ i \in 1..(n - k + 1) /\ i - 1 \in 1..(n - (k + 1) + 1)
          BY <1>1, <2>1, <2>3, <2>4, <4>2
        <5>2. ab[1 + (i - 1)] = b[i - 1]
          BY <3>1, <5>1
        <5>3. b[i - 1] = f[(k + 1) + (i - 1) - 1]
          BY <2>4, <5>1
        <5>4. g[i] = f[k + i - 1]
          BY <2>3, <5>1
        <5>. DEFINE l == i - 1
                    r == (k + 1) + l - 1
        <5>5. ab[1 + l] = b[l] /\ b[l] = f[r] /\ 1 + l = i /\ r = k + i - 1
          BY <5>1, <5>2, <5>3
        <5>. HIDE DEF l, r
        <5>. QED  BY ONLY <5>4, <5>5
      <4>. QED  BY <4>1, <4>2
    <3>4. g \in Seq(FlagChar) /\ ab \in Seq(FlagChar)
      BY <2>3, <3>1
    <3>5. g = ab
      BY ONLY <3>2, <3>3, <3>4
    <3>. QED  BY ONLY <3>5 DEF ab
  <2>8. Range(UpTo(f, k)) = Range(UpTo(f, j)) \cup {f[k]}
    <3>. DEFINE u == UpTo(f, k)
                v == UpTo(f, j)
    <3>1. /\ u \in Seq(FlagChar) /\ Len(u) = k /\ \A i \in 1..k : u[i] = f[i]
      BY ONLY f \in Seq(FlagChar), <2>1, UpToIs DEF n
    <3>2. /\ v \in Seq(FlagChar) /\ Len(v) = j /\ \A i \in 1..j : v[i] = f[i]
      BY ONLY f \in Seq(FlagChar), <2>1, UpToIs DEF n
    <3>. HIDE DEF u, v
    <3>3. \A c : c \in Range(u) <=> \E i \in 1..k : c = u[i]
      <4>1. DOMAIN u = 1..k
        BY <3>1
      <4>. QED  BY <4>1 DEF Range
    <3>4. \A c : c \in Range(v) <=> \E i \in 1..j : c = v[i]
      <4>1. DOMAIN v = 1..j
        BY <3>2
      <4>. QED  BY <4>1 DEF Range
    <3>5. \A i : i \in 1..k <=> i \in 1..j \/ i = k
      BY <2>1
    <3>6. k \in 1..k
      BY <2>1
    <3>7. \A c : c \in Range(u) <=> c \in Range(v) \/ c = f[k]
      <4>1. ASSUME NEW c, c \in Range(u) PROVE c \in Range(v) \/ c = f[k]
        <5>1. PICK i \in 1..k : c = u[i]
          BY <3>3, <4>1
        <5>2. c = f[i] /\ (i \in 1..j \/ i = k)
          BY <3>1, <3>5, <5>1
        <5>. QED  BY <3>2, <3>4, <5>2
      <4>2. ASSUME NEW c, c \in Range(v) PROVE c \in Range(u)
        <5>1. PICK i \in 1..j : c = v[i]
          BY <3>4, <4>2
        <5>2. c = f[i] /\ i \in 1..k
          BY <3>2, <3>5, <5>1
        <5>. QED  BY <3>1, <3>3, <5>2
      <4>3. f[k] \in Range(u)
        BY <3>1, <3>3, <3>6
      <4>. QED  BY <4>1, <4>2, <4>3
    <3>8. Range(u) = Range(v) \cup {f[k]}
      BY <3>7
    <3>. QED  BY <3>8 DEF u, v
  <2>9. b \in Texts /\ a \in Texts
    BY <1>2, <2>4, <2>5
  <2>. QED  BY <2>1, <2>2, <2>7, <2>8, <2>9 DEF a, b, g, k
<1>. QED  BY <1>3, <1>4, <1>5 DEF n

(* One flag more is read. *)
LEMMA ReadingFlag == Reading /\ ReadFlag => Reading'
<1>. SUFFICES ASSUME Reading, ReadFlag PROVE Reading'
  OBVIOUS
<1>1. /\ pc = "flags" /\ Char \in FlagChar /\ str' = str
      /\ directive' = [directive EXCEPT !.flags = @ \cup {Char}]
      /\ Goes(1, 0, "flags")
  BY DEF ReadFlag
<1>2. PICK k \in 1..Len(message) : Within(k) /\ AtFlags(message[k], Rest(k), Left(k))
  BY <1>1 DEF Reading
<1>. DEFINE d == message[k]
            t == Rest(k)
            a == Left(k)
            y == StarOf(d.width) ++ (StarOf(d.precision) ++ (d.args ++ a))
            w == WidthOn(d, t)
            f == d.flags
<1>3. PICK j \in 0..Len(f) :
        /\ directive = [flags |-> Range(UpTo(f, j)), field_width |-> -1, precision |-> -1,
                        qualifier |-> <<>>]
        /\ Ahead(format, fmt, From(f, j + 1) ++ w) /\ args = y
  BY <1>2 DEF AtFlags
<1>4. /\ d \in Directives /\ t \in Texts /\ f \in Seq(FlagChar) /\ w \in Texts
      /\ (d.conversion = <<>> => t = <<>>)
  <2>1. d \in Directives /\ t \in Texts /\ (d.conversion = <<>> => t = <<>>)
    BY <1>2, WithinFacts
  <2>. HIDE DEF d, t
  <2>2. d.flags \in Seq(FlagChar) /\ WidthOn(d, t) \in Texts
    BY <2>1, DirectiveFields, RestsTyped
  <2>. QED  BY <2>1, <2>2
<1>5. y \in Seq(Argument)
  <2>. DEFINE A == Seq(Argument)
              u == StarOf(d.width)
              v == StarOf(d.precision) ++ (d.args ++ a)
  <2>1. u \in A /\ v \in A /\ Joins(A)
    BY <1>2, WithinFacts, SequencesJoin
  <2>. HIDE DEF A, u, v
  <2>2. u ++ v \in A
    BY ONLY <2>1 DEF Joins
  <2>. QED  BY <2>2 DEF A, u, v
<1>6. HeadOf(w) \notin FlagChar
  BY <1>4, WidthHead
<1>. HIDE DEF y, w, f, t, a, d
<1>7. j # Len(f)
  <2>. SUFFICES ASSUME j = Len(f) PROVE FALSE
    OBVIOUS
  <2>. DEFINE e == From(f, j + 1)
  <2>1. e \in Texts /\ e = <<>>
    BY <1>4, FlagNext
  <2>. HIDE DEF e
  <2>2. e ++ w = w
    BY <1>4, <2>1, HeadOfJoined
  <2>3. Ahead(format, fmt, e ++ w)
    BY <1>3 DEF e
  <2>4. Char = HeadOf(w)
    BY <2>2, <2>3, CharIsHead
  <2>. QED  BY <1>1, <1>6, <2>4
<1>. DEFINE c == <<f[j + 1]>>
            r == From(f, (j + 1) + 1)
            g == From(f, j + 1)
<1>8. /\ g = c ++ r /\ r \in Texts /\ c \in Texts /\ f[j + 1] \in FlagChar
      /\ j + 1 \in 0..Len(f) /\ Range(UpTo(f, j + 1)) = Range(UpTo(f, j)) \cup {f[j + 1]}
  BY <1>4, <1>7, FlagNext
<1>9. Len(c) = 1 /\ c[1] = f[j + 1] /\ c # <<>>
  OBVIOUS
<1>10. Ahead(format, fmt, g ++ w)
  BY <1>3
<1>. HIDE DEF c, r, g
<1>11. (c ++ r) ++ w = c ++ (r ++ w) /\ r ++ w \in Texts
  BY <1>4, <1>8, TextsJoin, Regroup2
<1>12. Ahead(format, fmt, c ++ (r ++ w))
  BY <1>8, <1>10, <1>11
<1>13. Char = f[j + 1]
  <2>1. HeadOf(c ++ (r ++ w)) = c[1]
    BY <1>8, <1>9, <1>11, HeadOfJoined
  <2>. QED  BY <1>9, <1>12, <2>1, CharIsHead
<1>14. /\ Ahead(format', fmt', r ++ w) /\ args' = y /\ pc' = "flags"
       /\ message' = message /\ format' = format /\ stored' = stored
  <2>. DEFINE x == <<>>
              b == r ++ w
  <2>1. x \in Seq(Argument) /\ Len(x) = 0 /\ x ++ y = y
    <3>1. Joins(Seq(Argument))
      BY SequencesJoin
    <3>. QED  BY ONLY <1>5, <3>1 DEF Joins
  <2>. HIDE DEF x, b
  <2>2. Ahead(format, fmt, c ++ b) /\ args = x ++ y /\ c \in Texts /\ b \in Texts /\ 1 = Len(c)
        /\ 0 = Len(x)
    BY <1>3, <1>8, <1>9, <1>11, <1>12, <2>1 DEF b
  <2>3. Ahead(format', fmt', b) /\ args' = y /\ pc' = "flags"
        /\ message' = message /\ format' = format /\ stored' = stored
    BY ONLY <1>1, <1>5, <2>1, <2>2, Gone
  <2>. QED  BY <2>3 DEF b
<1>15. directive' = [flags |-> Range(UpTo(f, j + 1)), field_width |-> -1, precision |-> -1,
                     qualifier |-> <<>>]
  BY <1>1, <1>3, <1>8, <1>13
<1>16. Within(k)' /\ Rest(k)' = Rest(k) /\ Left(k)' = Left(k)
  BY <1>1, <1>2, <1>14, StillWithin
<1>17. AtFlags(d, t, a)'
  <2>1. d' = d /\ t' = t /\ a' = a
    BY <1>14, <1>16 DEF d, t, a
  <2>2. /\ Ahead(format', fmt', From(d.flags, (j + 1) + 1) ++ WidthOn(d, t))
        /\ args' = StarOf(d.width) ++ (StarOf(d.precision) ++ (d.args ++ a))
    BY <1>14 DEF r, w, y, f
  <2>. QED  BY <1>8, <1>15, <2>1, <2>2 DEF AtFlags, f
<1>18. \E l \in 1..Len(message') : (Within(l) /\ AtFlags(message[l], Rest(l), Left(l)))'
  BY <1>14, <1>16, <1>17 DEF d, t, a
<1>. QED  BY <1>14, <1>18 DEF Reading

(* The width is read. *)
LEMMA ToPrecision ==
  ASSUME Reading, NEW k \in 1..Len(message), Within(k),
         message' = message, format' = format, str' = str, stored' = stored, pc' = "precision",
         directive' = [flags |-> FlagsRead(message[k]), field_width |-> WidthRead(message[k]),
                       precision |-> -1, qualifier |-> <<>>],
         Ahead(format', fmt', PrecisionOn(message[k], Rest(k))),
         args' = StarOf(message[k].precision) ++ (message[k].args ++ Left(k))
  PROVE  Reading'
<1>1. Within(k)' /\ Rest(k)' = Rest(k) /\ Left(k)' = Left(k)
  BY StillWithin
<1>2. AtPrecision(message[k], Rest(k), Left(k))'
  BY <1>1 DEF AtPrecision
<1>3. \E l \in 1..Len(message') : (Within(l) /\ AtPrecision(message[l], Rest(l), Left(l)))'
  BY <1>1, <1>2
<1>. QED  BY <1>3 DEF Reading

(* The precision is read. *)
LEMMA ToQualifier ==
  ASSUME Reading, NEW k \in 1..Len(message), Within(k),
         message' = message, format' = format, str' = str, stored' = stored, pc' = "qualifier",
         directive' = [flags |-> FlagsRead(message[k]), field_width |-> WidthRead(message[k]),
                       precision |-> PrecisionRead(message[k]), qualifier |-> <<>>],
         Ahead(format', fmt', QualifierOn(message[k], Rest(k))),
         args' = message[k].args ++ Left(k)
  PROVE  Reading'
<1>1. Within(k)' /\ Rest(k)' = Rest(k) /\ Left(k)' = Left(k)
  BY StillWithin
<1>2. AtQualifier(message[k], Rest(k), Left(k))'
  BY <1>1 DEF AtQualifier
<1>3. \E l \in 1..Len(message') : (Within(l) /\ AtQualifier(message[l], Rest(l), Left(l)))'
  BY <1>1, <1>2
<1>. QED  BY <1>3 DEF Reading

(* The qualifier is read. *)
LEMMA ToConversion ==
  ASSUME Reading, NEW k \in 1..Len(message), Within(k),
         message' = message, format' = format, str' = str, stored' = stored, pc' = "conversion",
         directive' = [flags |-> FlagsRead(message[k]), field_width |-> WidthRead(message[k]),
                       precision |-> PrecisionRead(message[k]),
                       qualifier |-> message[k].qualifier],
         Ahead(format', fmt', ConversionOn(message[k], Rest(k))),
         args' = message[k].args ++ Left(k)
  PROVE  Reading'
<1>1. Within(k)' /\ Rest(k)' = Rest(k) /\ Left(k)' = Left(k)
  BY StillWithin
<1>2. AtConversion(message[k], Rest(k), Left(k))'
  BY <1>1 DEF AtConversion
<1>3. \E l \in 1..Len(message') : (Within(l) /\ AtConversion(message[l], Rest(l), Left(l)))'
  BY <1>1, <1>2
<1>. QED  BY <1>3 DEF Reading

(* What Goes takes, and what it leaves alone. *)
LEMMA GoesIs ==
  ASSUME NEW n, NEW taken, NEW part, Goes(n, taken, part)
  PROVE  /\ message' = message /\ format' = format /\ stored' = stored /\ pc' = part
         /\ fmt' = fmt + n
         /\ \A x, y \in Seq(Argument) : args = x ++ y /\ taken = Len(x) => args' = y
         /\ args \in Seq(Argument) /\ taken = 0 => args' = args
<1>1. /\ fmt' = fmt + n /\ args' = SubSeq(args, taken + 1, Len(args)) /\ pc' = part
      /\ message' = message /\ format' = format /\ stored' = stored
  BY DEF Goes
<1>2. ASSUME NEW x \in Seq(Argument), NEW y \in Seq(Argument), args = x ++ y, taken = Len(x)
      PROVE  args' = y
  <2>1. SubSeq(x ++ y, Len(x) + 1, Len(x ++ y)) = y
    BY DropFront
  <2>. QED  BY <1>1, <1>2, <2>1
<1>3. ASSUME args \in Seq(Argument), taken = 0 PROVE args' = args
  <2>. DEFINE e == <<>>
  <2>1. e \in Seq(Argument) /\ Len(e) = 0 /\ e ++ args = args
    <3>1. Joins(Seq(Argument))
      BY SequencesJoin
    <3>. QED  BY ONLY <1>3, <3>1 DEF Joins
  <2>. HIDE DEF e
  <2>. QED  BY <1>2, <1>3, <2>1
<1>. QED  BY <1>1, <1>2, <1>3

(* With no star there is nothing to take. *)
LEMMA StarIs ==
  ASSUME NEW size, NEW y \in Seq(Argument)
  PROVE  /\ size.is # "star" => StarOf(size) ++ y = y
         /\ size.is = "star" => StarOf(size) = <<[word |-> size.n % Word]>>
<1>1. size.is # "star" => StarOf(size) = <<>>
  BY DEF StarOf
<1>2. <<>> ++ y = y
  <2>1. Joins(Seq(Argument))
    BY SequencesJoin
  <2>. QED  BY ONLY <2>1, y \in Seq(Argument) DEF Joins
<1>. QED  BY <1>1, <1>2 DEF StarOf

(* The int a star takes is the one meant. *)
LEMMA StarTaken ==
  ASSUME NEW size, size.is = "star", size.n \in (1 - Word \div 2)..(Word \div 2 - 1),
         NEW y \in Seq(Argument), args = StarOf(size) ++ y
  PROVE  /\ AsInt(Head(args).word) = size.n /\ StarOf(size) \in Seq(Argument)
         /\ Len(StarOf(size)) = 1 /\ size.n \in Int
<1>. DEFINE n == size.n
            s == <<[word |-> n % Word]>>
<1>1. n \in Int /\ AsInt(n % Word) = n
  BY StarRead
<1>2. StarOf(size) = s
  BY StarIs
<1>3. s \in Seq(Argument)
  <2>1. Word \in Nat \ {0}
    BY WordIs
  <2>. HIDE DEF n
  <2>2. n % Word \in 0..(Word - 1)
    BY <1>1, <2>1
  <2>3. [word |-> n % Word] \in Argument
    BY <2>2 DEF Argument, Words
  <2>. QED  BY <2>3
<1>4. s # <<>> /\ s[1] = [word |-> n % Word] /\ Len(s) = 1
  OBVIOUS
<1>5. Head(s ++ y) = s[1]
  <2>. HIDE DEF s
  <2>. QED  BY <1>3, <1>4, DropFront
<1>. HIDE DEF s, n
<1>6. Head(args) = [word |-> n % Word]
  BY <1>2, <1>4, <1>5
<1>7. Head(args).word = n % Word
  BY <1>6
<1>. QED  BY <1>1, <1>2, <1>3, <1>4, <1>7 DEF n

(* The width: digits, a star, or none. *)
LEMMA ReadingWidth == Reading /\ ReadWidth => Reading'
<1>. SUFFICES ASSUME Reading, ReadWidth PROVE Reading'
  OBVIOUS
<1>1. pc = "flags" /\ Char \notin FlagChar /\ str' = str
  BY DEF ReadWidth
<1>2. PICK k \in 1..Len(message) : Within(k) /\ AtFlags(message[k], Rest(k), Left(k))
  BY <1>1 DEF Reading
<1>. DEFINE d == message[k]
            t == Rest(k)
            a == Left(k)
            y == StarOf(d.precision) ++ (d.args ++ a)
            w == WidthOn(d, t)
            f == d.flags
            r == PrecisionOn(d, t)
            s == SpellSize(d.width)
            v == StarOf(d.width)
<1>3. PICK j \in 0..Len(f) :
        /\ directive = [flags |-> Range(UpTo(f, j)), field_width |-> -1, precision |-> -1,
                        qualifier |-> <<>>]
        /\ Ahead(format, fmt, From(f, j + 1) ++ w) /\ args = v ++ y
  BY <1>2 DEF AtFlags
<1>4. /\ d \in Directives /\ t \in Texts /\ (d.conversion = <<>> => t = <<>>)
      /\ v \in Seq(Argument) /\ y \in Seq(Argument)
  BY <1>2, WithinFacts
<1>5. f \in Seq(FlagChar) /\ d.width \in Widths
  BY <1>4, DirectiveFields
<1>6. /\ HeadOf(w) \notin FlagChar
      /\ s \in Texts /\ r \in Texts /\ w = s ++ r
      /\ HeadOf(r) \notin Ten \cup {"*"}
      /\ d.width.is = "none" => w = r
      /\ d.width.is = "star" => HeadOf(w) = "*" /\ s = <<"*">>
      /\ d.width.is = "digits" => /\ HeadOf(w) \in Ten
                                  /\ s = Numeral(d.width.n, 10, FALSE) /\ d.width.n \in Nat
  <2>. HIDE DEF d, t
  <2>. QED  BY <1>4, WidthHead
<1>. HIDE DEF y, w, f, t, a, r, s, v
<1>7. j = Len(f)
  <2>. SUFFICES ASSUME j # Len(f) PROVE FALSE
    OBVIOUS
  <2>. DEFINE c == <<f[j + 1]>>
              q == From(f, (j + 1) + 1)
  <2>1. From(f, j + 1) = c ++ q /\ q \in Texts /\ c \in Texts /\ f[j + 1] \in FlagChar
    BY <1>5, FlagNext
  <2>2. c # <<>> /\ c[1] = f[j + 1]
    OBVIOUS
  <2>. HIDE DEF c, q
  <2>3. w \in Texts
    BY <1>6, TextsJoin DEF Joins
  <2>4. (c ++ q) ++ w = c ++ (q ++ w) /\ q ++ w \in Texts
    BY <2>1, <2>3, TextsJoin, Regroup2
  <2>5. Char = HeadOf(c ++ (q ++ w))
    BY <1>3, <2>1, <2>4, CharIsHead
  <2>6. HeadOf(c ++ (q ++ w)) = c[1]
    BY <2>1, <2>2, <2>4, HeadOfJoined
  <2>. QED  BY <1>1, <2>1, <2>2, <2>5, <2>6
<1>8. Ahead(format, fmt, w) /\ directive.flags = Range(f)
      /\ directive = [flags |-> Range(f), field_width |-> -1, precision |-> -1, qualifier |-> <<>>]
  <2>. DEFINE e == From(f, j + 1)
  <2>1. e \in Texts /\ e = <<>> /\ UpTo(f, j) = f
    BY <1>5, <1>7, FlagNext
  <2>2. Ahead(format, fmt, e ++ w)
    BY <1>3
  <2>. HIDE DEF e
  <2>3. w \in Texts
    BY <1>6, TextsJoin DEF Joins
  <2>4. e ++ w = w
    BY <2>1, <2>3, HeadOfJoined
  <2>. QED  BY <1>3, <2>1, <2>2, <2>4
<1>9. Char = HeadOf(w)
  BY <1>8, CharIsHead
<1>10. "*" \notin Ten
  BY DEF Ten
<1>11. ASSUME message' = message, format' = format, stored' = stored, pc' = "precision",
              directive' = [flags |-> FlagsRead(d), field_width |-> WidthRead(d),
                            precision |-> -1, qualifier |-> <<>>],
              Ahead(format', fmt', r), args' = y
       PROVE  Reading'
  <2>1. /\ message' = message /\ format' = format /\ str' = str /\ stored' = stored
        /\ pc' = "precision"
        /\ directive' = [flags |-> FlagsRead(message[k]), field_width |-> WidthRead(message[k]),
                         precision |-> -1, qualifier |-> <<>>]
        /\ Ahead(format', fmt', PrecisionOn(message[k], Rest(k)))
        /\ args' = StarOf(message[k].precision) ++ (message[k].args ++ Left(k))
        /\ Within(k)
    BY <1>1, <1>2, <1>11 DEF d, r, t, y, a
  <2>. QED  BY ONLY <2>1, Reading, k \in 1..Len(message), ToPrecision
<1>12. CASE /\ Digit(Char)
            /\ directive' = [directive EXCEPT !.field_width = skip_atoi(fmt)]
            /\ Goes(DigitsFrom(fmt), 0, "precision")
  <2>1. d.width.is = "digits"
    <3>1. HeadOf(w) \in Ten
      BY <1>9, <1>12, DigitIs
    <3>. QED  BY <1>5, <1>6, <1>10, <3>1, WidthCases
  <2>. DEFINE n == d.width.n
  <2>2. Ahead(format, fmt, Numeral(n, 10, FALSE) ++ r) /\ n \in Nat /\ HeadOf(r) \notin Ten
    BY <1>6, <1>8, <2>1
  <2>. HIDE DEF n
  <2>3. skip_atoi(fmt) = n /\ Ahead(format, fmt + DigitsFrom(fmt), r)
    BY ONLY <1>6, <2>2, NumberRead
  <2>4. args = y
    BY <1>3, <1>4, <2>1, StarIs DEF v
  <2>5. /\ message' = message /\ format' = format /\ stored' = stored /\ pc' = "precision"
        /\ fmt' = fmt + DigitsFrom(fmt) /\ args' = y
    BY <1>4, <1>12, <2>4, GoesIs
  <2>6. FlagsRead(d) = Range(f) /\ WidthRead(d) = n
    BY <2>1, <2>2 DEF FlagsRead, WidthRead, WidthOf, f, n
  <2>7. directive' = [flags |-> FlagsRead(d), field_width |-> WidthRead(d),
                      precision |-> -1, qualifier |-> <<>>]
    BY <1>8, <1>12, <2>3, <2>6
  <2>. QED  BY <1>11, <2>3, <2>5, <2>7
<1>13. CASE /\ Char = "*"
            /\ LET n == AsInt(Head(args).word)
               IN  directive' = [directive EXCEPT !.field_width = IF n < 0 THEN -n ELSE n,
                                                  !.flags = IF n < 0 THEN @ \cup {"-"} ELSE @]
            /\ Goes(1, 1, "precision")
  <2>1. d.width.is = "star" /\ d.width.n \in (1 - Word \div 2)..(Word \div 2 - 1)
    <3>1. HeadOf(w) = "*"
      BY <1>9, <1>13
    <3>. QED  BY <1>5, <1>6, <1>10, <3>1, WidthCases
  <2>2. /\ AsInt(Head(args).word) = d.width.n /\ Len(v) = 1 /\ d.width.n \in Int
    BY <1>3, <1>4, <2>1, StarTaken DEF v
  <2>. DEFINE n == d.width.n
  <2>3. directive' = [directive EXCEPT !.field_width = IF n < 0 THEN -n ELSE n,
                                       !.flags = IF n < 0 THEN @ \cup {"-"} ELSE @]
    BY <1>13, <2>2
  <2>4. FlagsRead(d) = (IF n < 0 THEN Range(f) \cup {"-"} ELSE Range(f))
        /\ WidthRead(d) = IF n < 0 THEN -n ELSE n
    BY <2>1 DEF FlagsRead, WidthRead, WidthOf, f
  <2>. HIDE DEF n
  <2>5. directive' = [flags |-> FlagsRead(d), field_width |-> WidthRead(d),
                      precision |-> -1, qualifier |-> <<>>]
    BY <1>8, <2>3, <2>4
  <2>6. /\ Ahead(format', fmt', r) /\ args' = y /\ pc' = "precision"
        /\ message' = message /\ format' = format /\ stored' = stored
    <3>1. Len(s) = 1
      BY <1>6, <2>1
    <3>2. Ahead(format, fmt, s ++ r) /\ args = v ++ y /\ s \in Texts /\ r \in Texts
      BY <1>3, <1>6, <1>8
    <3>3. Goes(1, 1, "precision") /\ 1 = Len(s) /\ 1 = Len(v)
      BY <1>13, <2>2, <3>1
    <3>. QED  BY ONLY <1>4, <3>2, <3>3, Gone
  <2>. QED  BY <1>11, <2>5, <2>6
<1>14. CASE /\ ~Digit(Char) /\ Char # "*"
            /\ Goes(0, 0, "precision") /\ directive' = directive
  <2>1. d.width.is = "none" /\ w = r
    <3>1. HeadOf(w) \notin Ten /\ HeadOf(w) # "*"
      BY <1>9, <1>14, DigitIs
    <3>. QED  BY <1>5, <1>6, <3>1, WidthCases
  <2>2. args = y
    BY <1>3, <1>4, <2>1, StarIs DEF v
  <2>3. /\ Ahead(format', fmt', r) /\ args' = y /\ pc' = "precision"
        /\ message' = message /\ format' = format /\ stored' = stored
    <3>1. Ahead(format, fmt, r) /\ r \in Texts /\ Goes(0, 0, "precision")
      BY <1>6, <1>8, <1>14, <2>1
    <3>. QED  BY ONLY <1>4, <2>2, <3>1, Stays
  <2>4. FlagsRead(d) = Range(f) /\ WidthRead(d) = -1
    BY <2>1 DEF FlagsRead, WidthRead, f
  <2>5. directive' = [flags |-> FlagsRead(d), field_width |-> WidthRead(d),
                      precision |-> -1, qualifier |-> <<>>]
    BY <1>8, <1>14, <2>4
  <2>. QED  BY <1>11, <2>3, <2>5
<1>. QED  BY <1>12, <1>13, <1>14 DEF ReadWidth

(* Behind a dot. *)
LEMMA BehindDot ==
  ASSUME NEW rest \in Texts, Ahead(format, fmt, <<".">> ++ rest)
  PROVE  NextChar = HeadOf(rest) /\ Ahead(format, fmt + 1, rest)
<1>. DEFINE s == <<".">>
<1>1. s \in Texts /\ Len(s) = 1
  <2>1. s \in Texts
    BY Letters
  <2>. QED  BY <2>1
<1>. HIDE DEF s
<1>2. Ahead(format, fmt + 1, rest)
  <2>1. Ahead(format, fmt, s ++ rest)
    BY DEF s
  <2>2. Ahead(format, fmt + Len(s), rest)
    BY ONLY <1>1, rest \in Texts, <2>1, AheadSkip
  <2>. QED  BY <1>1, <2>2
<1>3. CharAt(format, fmt + 1) = HeadOf(rest)
  BY <1>2, AheadHead
<1>. QED  BY <1>2, <1>3 DEF NextChar, At, CharAt

(* How a precision goes on behind its dot. *)
LEMMA SizeHead ==
  ASSUME NEW size \in Precisions, size.is # "none", NEW q \in Texts,
         HeadOf(q) \in Ending \cup {"h", "l", "L"}
  PROVE  LET s == SpellSize(size)
         IN  /\ s \in Texts /\ HeadOf(q) \notin Ten \cup {"*"}
             /\ size.is = "dot" => s ++ q = q
             /\ size.is = "star" => HeadOf(s ++ q) = "*" /\ s = <<"*">>
             /\ size.is = "digits" => /\ HeadOf(s ++ q) \in Ten
                                      /\ s = Numeral(size.n, 10, FALSE) /\ size.n \in Nat
<1>. DEFINE s == SpellSize(size)
<1>1. s \in Texts
  BY SizeSpelled DEF Texts
<1>2. HeadOf(q) \notin Ten \cup {"*"}
  BY EndingIs DEF Ten
<1>3. \/ size.is = "dot" /\ s = <<>>
      \/ size.is = "star" /\ s = <<"*">>
      \/ size.is = "digits" /\ size.n \in Nat /\ s = Numeral(size.n, 10, FALSE)
  <2>1. Word \div 2 \in Nat
    BY WordIs
  <2>2. \/ size.is = "dot"
        \/ size.is = "star"
        \/ size.is = "digits" /\ size.n \in Nat
    BY <2>1, PrecisionCases
  <2>. QED  BY <2>2 DEF SpellSize
<1>. HIDE DEF s
<1>4. CASE size.is = "dot" /\ s = <<>>
  <2>1. s ++ q = q
    BY <1>1, <1>4, HeadOfJoined
  <2>. QED  BY <1>1, <1>2, <1>4, <2>1 DEF s
<1>5. CASE size.is = "star" /\ s = <<"*">>
  <2>1. HeadOf(s ++ q) = "*"
    BY <1>1, <1>5, HeadOfJoined
  <2>. QED  BY <1>1, <1>2, <1>5, <2>1 DEF s
<1>6. CASE size.is = "digits" /\ size.n \in Nat /\ s = Numeral(size.n, 10, FALSE)
  <2>. DEFINE n == size.n
              e == FirstDigits(n, 1) % 10
  <2>1. n \in Nat
    BY <1>6
  <2>2. s # <<>> /\ e \in 0..9 /\ s[1] = DigitOf(e, FALSE)
    <3>. HIDE DEF n
    <3>1. 1 \in 1..Places(n, 10)
      <4>1. Places(n, 10) \in Nat \ {0}
        BY <2>1, NumeralDigits
      <4>. QED  BY <4>1
    <3>2. Numeral(n, 10, FALSE) # <<>> /\ e \in 0..9 /\ Numeral(n, 10, FALSE)[1] = DigitOf(e, FALSE)
      BY <2>1, <3>1, NumeralDigits
    <3>. QED  BY <1>6, <3>2 DEF n
  <2>. HIDE DEF e
  <2>3. HeadOf(s ++ q) = s[1]
    BY <1>1, <2>2, HeadOfJoined
  <2>4. s[1] \in Ten
    BY <2>2, DigitIs
  <2>. QED  BY <1>1, <1>2, <1>6, <2>3, <2>4 DEF s
<1>. QED  BY <1>3, <1>4, <1>5, <1>6

(* The precision: a dot with digits, with a star, alone, or none. *)
LEMMA ReadingPrecision == Reading /\ ReadPrecision => Reading'
<1>. SUFFICES ASSUME Reading, ReadPrecision PROVE Reading'
  OBVIOUS
<1>1. pc = "precision" /\ str' = str
  BY DEF ReadPrecision
<1>2. PICK k \in 1..Len(message) : Within(k) /\ AtPrecision(message[k], Rest(k), Left(k))
  BY <1>1 DEF Reading
<1>. DEFINE d == message[k]
            t == Rest(k)
            a == Left(k)
            y == d.args ++ a
            w == PrecisionOn(d, t)
            q == QualifierOn(d, t)
            s == SpellSize(d.precision)
            v == StarOf(d.precision)
            dot == <<".">>
<1>3. /\ directive = [flags |-> FlagsRead(d), field_width |-> WidthRead(d), precision |-> -1,
                      qualifier |-> <<>>]
      /\ Ahead(format, fmt, w) /\ args = v ++ y
  BY <1>2 DEF AtPrecision
<1>4. /\ d \in Directives /\ t \in Texts /\ (d.conversion = <<>> => t = <<>>)
      /\ v \in Seq(Argument) /\ y \in Seq(Argument)
  BY <1>2, WithinFacts
<1>5. d.precision \in Precisions
  BY <1>4, DirectiveFields
<1>6. /\ HeadOf(w) \in Ending \cup {"h", "l", "L", "."}
      /\ s \in Texts /\ q \in Texts /\ HeadOf(q) \in Ending \cup {"h", "l", "L"}
      /\ d.precision.is = "none" => w = q /\ HeadOf(q) # "."
      /\ d.precision.is # "none" => w = dot ++ (s ++ q) /\ HeadOf(w) = "."
  <2>. HIDE DEF d, t
  <2>. QED  BY <1>4, PrecisionHead, QualifierHead
<1>. HIDE DEF y, w, t, a, q, s, v
<1>7. Char = HeadOf(w)
  BY <1>3, CharIsHead
<1>8. "*" \notin Ten /\ s ++ q \in Texts
  BY <1>6, TextsJoin DEF Ten, Joins
<1>9. ASSUME d.precision.is # "none"
      PROVE  /\ NextChar = HeadOf(s ++ q) /\ Ahead(format, fmt + 1, s ++ q)
             /\ HeadOf(q) \notin Ten \cup {"*"}
             /\ d.precision.is = "dot" => s ++ q = q
             /\ d.precision.is = "star" => HeadOf(s ++ q) = "*" /\ s = <<"*">>
             /\ d.precision.is = "digits" => /\ HeadOf(s ++ q) \in Ten
                                             /\ s = Numeral(d.precision.n, 10, FALSE)
                                             /\ d.precision.n \in Nat
  <2>1. NextChar = HeadOf(s ++ q) /\ Ahead(format, fmt + 1, s ++ q)
    <3>. DEFINE sq == s ++ q
    <3>1. sq \in Texts /\ Ahead(format, fmt, <<".">> ++ sq)
      BY <1>3, <1>6, <1>8, <1>9
    <3>. HIDE DEF sq
    <3>2. NextChar = HeadOf(sq) /\ Ahead(format, fmt + 1, sq)
      BY ONLY <3>1, BehindDot
    <3>. QED  BY <3>2 DEF sq
  <2>2. /\ HeadOf(q) \notin Ten \cup {"*"}
        /\ d.precision.is = "dot" => s ++ q = q
        /\ d.precision.is = "star" => HeadOf(s ++ q) = "*" /\ s = <<"*">>
        /\ d.precision.is = "digits" => /\ HeadOf(s ++ q) \in Ten
                                        /\ s = Numeral(d.precision.n, 10, FALSE)
                                        /\ d.precision.n \in Nat
    <3>. HIDE DEF d
    <3>. QED  BY <1>5, <1>6, <1>9, SizeHead DEF s
  <2>. QED  BY <2>1, <2>2
<1>10. ASSUME message' = message, format' = format, stored' = stored, pc' = "qualifier",
              directive' = [flags |-> FlagsRead(d), field_width |-> WidthRead(d),
                            precision |-> PrecisionRead(d), qualifier |-> <<>>],
              Ahead(format', fmt', q), args' = y
       PROVE  Reading'
  <2>1. /\ message' = message /\ format' = format /\ str' = str /\ stored' = stored
        /\ pc' = "qualifier"
        /\ directive' = [flags |-> FlagsRead(message[k]), field_width |-> WidthRead(message[k]),
                         precision |-> PrecisionRead(message[k]), qualifier |-> <<>>]
        /\ Ahead(format', fmt', QualifierOn(message[k], Rest(k)))
        /\ args' = message[k].args ++ Left(k)
        /\ Within(k)
    BY <1>1, <1>2, <1>10 DEF d, q, t, y, a
  <2>. QED  BY ONLY <2>1, Reading, k \in 1..Len(message), ToQualifier
<1>11. Char = "." => d.precision.is # "none"
  BY <1>6, <1>7
<1>12. CASE /\ Char = "." /\ Digit(NextChar)
            /\ directive' = [directive EXCEPT !.precision = skip_atoi(fmt + 1)]
            /\ Goes(1 + DigitsFrom(fmt + 1), 0, "qualifier")
  <2>1. d.precision.is = "digits"
    <3>1. HeadOf(s ++ q) \in Ten /\ d.precision.is # "none"
      BY <1>9, <1>11, <1>12, DigitIs
    <3>. QED  BY <1>5, <1>8, <1>9, <3>1, PrecisionCases
  <2>. DEFINE n == d.precision.n
  <2>2. Ahead(format, fmt + 1, Numeral(n, 10, FALSE) ++ q) /\ n \in Nat /\ HeadOf(q) \notin Ten
    BY <1>9, <2>1
  <2>. HIDE DEF n
  <2>3. skip_atoi(fmt + 1) = n /\ Ahead(format, (fmt + 1) + DigitsFrom(fmt + 1), q)
        /\ DigitsFrom(fmt + 1) \in Nat
    BY ONLY <1>6, <2>2, NumberRead
  <2>4. args = y
    BY <1>3, <1>4, <2>1, StarIs DEF v
  <2>5. /\ message' = message /\ format' = format /\ stored' = stored /\ pc' = "qualifier"
        /\ fmt' = fmt + (1 + DigitsFrom(fmt + 1)) /\ args' = y
    BY <1>4, <1>12, <2>4, GoesIs
  <2>6. fmt' = (fmt + 1) + DigitsFrom(fmt + 1)
    <3>1. fmt \in Nat
      BY <1>3, AheadHead
    <3>. QED  BY <2>3, <2>5, <3>1
  <2>7. PrecisionRead(d) = n
    BY <2>1, <2>2 DEF PrecisionRead, PrecisionOf, n
  <2>8. directive' = [flags |-> FlagsRead(d), field_width |-> WidthRead(d),
                      precision |-> PrecisionRead(d), qualifier |-> <<>>]
    BY <1>3, <1>12, <2>3, <2>7
  <2>. QED  BY <1>10, <2>3, <2>5, <2>6, <2>8
<1>13. CASE /\ Char = "." /\ NextChar = "*"
            /\ LET n == AsInt(Head(args).word)
               IN  directive' = [directive EXCEPT !.precision = IF n < 0 THEN 0 ELSE n]
            /\ Goes(2, 1, "qualifier")
  <2>1. d.precision.is = "star" /\ d.precision.n \in (1 - Word \div 2)..(Word \div 2 - 1)
    <3>1. HeadOf(s ++ q) = "*" /\ d.precision.is # "none"
      BY <1>9, <1>11, <1>13
    <3>. QED  BY <1>5, <1>8, <1>9, <3>1, PrecisionCases
  <2>2. /\ AsInt(Head(args).word) = d.precision.n /\ Len(v) = 1 /\ d.precision.n \in Int
    BY <1>3, <1>4, <2>1, StarTaken DEF v
  <2>. DEFINE n == d.precision.n
  <2>3. directive' = [directive EXCEPT !.precision = IF n < 0 THEN 0 ELSE n]
    BY <1>13, <2>2
  <2>4. PrecisionRead(d) = IF n < 0 THEN 0 ELSE n
    BY <2>1 DEF PrecisionRead, PrecisionOf
  <2>. HIDE DEF n
  <2>5. directive' = [flags |-> FlagsRead(d), field_width |-> WidthRead(d),
                      precision |-> PrecisionRead(d), qualifier |-> <<>>]
    BY <1>3, <2>3, <2>4
  <2>6. s = <<"*">>
    BY <1>9, <2>1
  <2>. DEFINE x == dot ++ s
  <2>7. x \in Texts /\ Len(x) = 2 /\ dot ++ (s ++ q) = x ++ q
    <3>1. dot \in Texts
      BY Letters
    <3>2. Len(dot) = 1 /\ Len(s) = 1
      BY <2>6
    <3>. HIDE DEF dot
    <3>3. Len(dot ++ s) = 2
      <4>1. s \in Texts
        BY <1>6
      <4>2. Len(dot ++ s) = Len(dot) + Len(s)
        BY ONLY <3>1, <4>1, Lengths
      <4>. QED  BY ONLY <3>2, <4>2
    <3>4. (dot ++ s) ++ q = dot ++ (s ++ q) /\ dot ++ s \in Texts
      BY ONLY <1>6, <3>1, TextsJoin, Regroup2
    <3>. QED  BY <3>3, <3>4
  <2>8. Ahead(format, fmt, x ++ q)
    BY <1>3, <1>6, <2>1, <2>7
  <2>. HIDE DEF x
  <2>9. /\ Ahead(format', fmt', q) /\ args' = y /\ pc' = "qualifier"
        /\ message' = message /\ format' = format /\ stored' = stored
    <3>1. args = v ++ y /\ q \in Texts /\ x \in Texts
      BY <1>3, <1>6, <2>7
    <3>2. Goes(2, 1, "qualifier") /\ 2 = Len(x) /\ 1 = Len(v)
      BY <1>13, <2>2, <2>7
    <3>. QED  BY ONLY <1>4, <2>8, <3>1, <3>2, Gone
  <2>. QED  BY <1>10, <2>5, <2>9
<1>14. CASE /\ Char = "." /\ ~Digit(NextChar) /\ NextChar # "*"
            /\ directive' = [directive EXCEPT !.precision = 0]
            /\ Goes(1, 0, "qualifier")
  <2>1. d.precision.is = "dot" /\ s ++ q = q
    <3>1. HeadOf(s ++ q) \notin Ten /\ HeadOf(s ++ q) # "*" /\ d.precision.is # "none"
      BY <1>9, <1>11, <1>14, DigitIs
    <3>. QED  BY <1>5, <1>9, <3>1, PrecisionCases
  <2>2. args = y
    BY <1>3, <1>4, <2>1, StarIs DEF v
  <2>3. /\ message' = message /\ format' = format /\ stored' = stored /\ pc' = "qualifier"
        /\ fmt' = fmt + 1 /\ args' = y
    BY <1>4, <1>14, <2>2, GoesIs
  <2>4. Ahead(format, fmt + 1, q)
    BY <1>9, <2>1
  <2>5. PrecisionRead(d) = 0
    BY <2>1 DEF PrecisionRead, PrecisionOf
  <2>6. directive' = [flags |-> FlagsRead(d), field_width |-> WidthRead(d),
                      precision |-> PrecisionRead(d), qualifier |-> <<>>]
    BY <1>3, <1>14, <2>5
  <2>. QED  BY <1>10, <2>3, <2>4, <2>6
<1>15. CASE Char # "." /\ Goes(0, 0, "qualifier") /\ directive' = directive
  <2>1. d.precision.is = "none" /\ w = q
    BY <1>6, <1>7, <1>15
  <2>2. args = y
    BY <1>3, <1>4, <2>1, StarIs DEF v
  <2>3. /\ Ahead(format', fmt', q) /\ args' = y /\ pc' = "qualifier"
        /\ message' = message /\ format' = format /\ stored' = stored
    <3>1. Ahead(format, fmt, q) /\ q \in Texts /\ Goes(0, 0, "qualifier")
      BY <1>3, <1>6, <1>15, <2>1
    <3>. QED  BY ONLY <1>4, <2>2, <3>1, Stays
  <2>4. PrecisionRead(d) = -1
    BY <2>1 DEF PrecisionRead
  <2>5. directive' = [flags |-> FlagsRead(d), field_width |-> WidthRead(d),
                      precision |-> PrecisionRead(d), qualifier |-> <<>>]
    BY <1>3, <1>15, <2>4
  <2>. QED  BY <1>10, <2>3, <2>5
<1>. QED  BY <1>12, <1>13, <1>14, <1>15 DEF ReadPrecision

(* The qualifier: h, l, L, or none. *)
LEMMA ReadingQualifier == Reading /\ ReadQualifier => Reading'
<1>. SUFFICES ASSUME Reading, ReadQualifier PROVE Reading'
  OBVIOUS
<1>1. pc = "qualifier" /\ str' = str
  BY DEF ReadQualifier
<1>2. PICK k \in 1..Len(message) : Within(k) /\ AtQualifier(message[k], Rest(k), Left(k))
  BY <1>1 DEF Reading
<1>. DEFINE d == message[k]
            t == Rest(k)
            a == Left(k)
            y == d.args ++ a
            q == QualifierOn(d, t)
            c == ConversionOn(d, t)
            s == d.qualifier
<1>3. /\ directive = [flags |-> FlagsRead(d), field_width |-> WidthRead(d),
                      precision |-> PrecisionRead(d), qualifier |-> <<>>]
      /\ Ahead(format, fmt, q) /\ args = y
  BY <1>2 DEF AtQualifier
<1>4. /\ d \in Directives /\ t \in Texts /\ (d.conversion = <<>> => t = <<>>)
      /\ y \in Seq(Argument)
  BY <1>2, WithinFacts
<1>5. /\ HeadOf(q) \in Ending \cup {"h", "l", "L"}
      /\ s = <<>> => q = c
      /\ s # <<>> => s = <<HeadOf(q)>> /\ HeadOf(q) \in {"h", "l", "L"}
      /\ c \in Texts /\ HeadOf(c) \in Ending /\ s \in Texts /\ q = s ++ c
  <2>. HIDE DEF d, t
  <2>1. c \in Texts /\ HeadOf(c) \in Ending /\ s \in Texts /\ q = s ++ c
    BY <1>4, RestsTyped, ConversionHead, PartsTyped DEF QualifierOn
  <2>. QED  BY <1>4, <2>1, QualifierHead
<1>. HIDE DEF y, t, a, q, c, s
<1>6. Char = HeadOf(q)
  BY <1>3, CharIsHead
<1>7. ASSUME message' = message, format' = format, stored' = stored, pc' = "conversion",
             directive' = [flags |-> FlagsRead(d), field_width |-> WidthRead(d),
                           precision |-> PrecisionRead(d), qualifier |-> s],
             Ahead(format', fmt', c), args' = y
      PROVE  Reading'
  <2>1. /\ message' = message /\ format' = format /\ str' = str /\ stored' = stored
        /\ pc' = "conversion"
        /\ directive' = [flags |-> FlagsRead(message[k]), field_width |-> WidthRead(message[k]),
                         precision |-> PrecisionRead(message[k]),
                         qualifier |-> message[k].qualifier]
        /\ Ahead(format', fmt', ConversionOn(message[k], Rest(k)))
        /\ args' = message[k].args ++ Left(k)
        /\ Within(k)
    BY <1>1, <1>2, <1>7 DEF d, c, t, y, a, s
  <2>. QED  BY ONLY <2>1, Reading, k \in 1..Len(message), ToConversion
<1>8. CASE /\ Char \in {"h", "l", "L"}
           /\ directive' = [directive EXCEPT !.qualifier = <<Char>>] /\ Goes(1, 0, "conversion")
  <2>1. s # <<>>
    <3>1. s = <<>> => HeadOf(q) \in Ending
      BY <1>5
    <3>2. HeadOf(q) \notin Ending
      BY <1>6, <1>8, EndingIs
    <3>. QED  BY <3>1, <3>2
  <2>2. s = <<Char>> /\ Len(s) = 1
    <3>1. s = <<Char>>
      BY <1>5, <1>6, <2>1
    <3>. QED  BY <3>1
  <2>3. /\ message' = message /\ format' = format /\ stored' = stored /\ pc' = "conversion"
        /\ fmt' = fmt + 1 /\ args' = y
    BY <1>3, <1>4, <1>8, GoesIs
  <2>4. Ahead(format, fmt + 1, c)
    <3>1. Ahead(format, fmt, s ++ c)
      BY <1>3, <1>5
    <3>2. Ahead(format, fmt + Len(s), c)
      BY ONLY <1>5, <3>1, AheadSkip
    <3>. QED  BY <2>2, <3>2
  <2>5. directive' = [flags |-> FlagsRead(d), field_width |-> WidthRead(d),
                      precision |-> PrecisionRead(d), qualifier |-> s]
    BY <1>3, <1>8, <2>2
  <2>. QED  BY <1>7, <2>3, <2>4, <2>5
<1>9. CASE Char \notin {"h", "l", "L"} /\ Goes(0, 0, "conversion") /\ directive' = directive
  <2>1. s = <<>> /\ q = c
    BY <1>5, <1>6, <1>9
  <2>2. /\ Ahead(format', fmt', c) /\ args' = y /\ pc' = "conversion"
        /\ message' = message /\ format' = format /\ stored' = stored
    <3>1. Ahead(format, fmt, c) /\ c \in Texts /\ Goes(0, 0, "conversion") /\ args = y
      BY <1>3, <1>5, <1>9, <2>1
    <3>. QED  BY ONLY <1>4, <3>1, Stays
  <2>. QED  BY <1>3, <1>7, <1>9, <2>1, <2>2
<1>. QED  BY <1>8, <1>9 DEF ReadQualifier

(* The directive the conversion belongs to, all of it read. *)
LEMMA ConversionStands ==
  ASSUME Reading, pc = "conversion"
  PROVE  \E k \in 1..Len(message) :
           LET d == message[k]
           IN  /\ Within(k) /\ d \in Directives /\ Sized(d)
               /\ directive = [flags |-> FlagsRead(d), field_width |-> WidthRead(d),
                               precision |-> PrecisionRead(d), qualifier |-> d.qualifier]
               /\ directive \in Locals
               /\ Ahead(format, fmt, ConversionOn(d, Rest(k))) /\ args = d.args ++ Left(k)
               /\ Char = NUL => d.conversion = <<>>
               /\ Char # NUL => d.conversion = <<Char>> /\ Char \in Conversions
<1>1. PICK k \in 1..Len(message) : Within(k) /\ AtConversion(message[k], Rest(k), Left(k))
  BY DEF Reading
<1>. DEFINE d == message[k]
            t == Rest(k)
<1>2. /\ directive = [flags |-> FlagsRead(d), field_width |-> WidthRead(d),
                      precision |-> PrecisionRead(d), qualifier |-> d.qualifier]
      /\ Ahead(format, fmt, ConversionOn(d, t)) /\ args = d.args ++ Left(k)
  BY <1>1 DEF AtConversion
<1>3. d \in Directives /\ t \in Texts /\ (d.conversion = <<>> => t = <<>>)
  BY <1>1, WithinFacts
<1>. HIDE DEF d, t
<1>4. Sized(d)
  BY <1>3, DirectiveSized
<1>5. directive \in Locals
  <2>1. FlagsRead(d) \subseteq FlagChar /\ WidthRead(d) \in Nat \cup {-1}
        /\ PrecisionRead(d) \in Nat \cup {-1}
    BY <1>4, SizesRead
  <2>2. d.qualifier \in Qualifiers
    BY <1>3, DirectiveFields
  <2>. QED  BY <1>2, <2>1, <2>2 DEF Locals
<1>6. Char = HeadOf(ConversionOn(d, t))
  BY <1>2, CharIsHead
<1>7. Char = NUL => d.conversion = <<>>
  <2>1. NUL \notin Conversions
    BY CharacterAssumption DEF Conversions
  <2>. QED  BY <1>3, <1>6, <2>1, ConversionHead
<1>8. Char # NUL => d.conversion = <<Char>> /\ Char \in Conversions
  BY <1>3, <1>6, ConversionHead
<1>. QED  BY <1>1, <1>2, <1>3, <1>4, <1>5, <1>7, <1>8 DEF d, t

(* The argument of a conversion that takes one. *)
LEMMA ArgumentNext ==
  ASSUME Reading, NEW k \in 1..Len(message), Within(k), args = message[k].args ++ Left(k),
         NEW c \in Taking, message[k].conversion = <<c>>
  PROVE  Len(message[k].args) = 1 /\ Head(args) = message[k].args[1] /\ Tail(args) = Left(k)
<1>. DEFINE x == message[k].args
            y == Left(k)
<1>1. message[k] \in Directives /\ x \in Seq(Argument) /\ y \in Seq(Argument)
  BY WithinFacts
<1>2. Len(x) = 1
  BY <1>1, ArgumentOf
<1>. HIDE DEF x, y
<1>3. x # <<>>
  BY <1>2
<1>4. Head(x ++ y) = x[1] /\ Tail(x ++ y) = y
  BY ONLY <1>1, <1>2, <1>3, DropFront
<1>. QED  BY <1>2, <1>4 DEF x, y

(* Passing a conversion and its argument. *)
LEMMA ConversionPassed ==
  ASSUME Reading, NEW k \in 1..Len(message), Within(k),
         Ahead(format, fmt, ConversionOn(message[k], Rest(k))), args = message[k].args ++ Left(k),
         NEW c \in Conversions, message[k].conversion = <<c>>
  PROVE  /\ Ahead(format, fmt + 1, Rest(k))
         /\ \A taken : taken = Len(message[k].args) /\ Goes(1, taken, "text") =>
              /\ Ahead(format', fmt', Rest(k)) /\ args' = Left(k) /\ pc' = "text"
              /\ message' = message /\ format' = format /\ stored' = stored
<1>. DEFINE s == message[k].conversion
            t == Rest(k)
            x == message[k].args
            y == Left(k)
<1>1. message[k] \in Directives /\ t \in Texts /\ x \in Seq(Argument) /\ y \in Seq(Argument)
  BY WithinFacts
<1>2. s \in Texts /\ Len(s) = 1
  <2>1. s \in Texts
    BY <1>1, PartsTyped
  <2>. QED  BY <2>1
<1>3. Ahead(format, fmt, s ++ t) /\ args = x ++ y
  BY DEF ConversionOn
<1>. HIDE DEF s, t, x, y
<1>4. Ahead(format, fmt + 1, t)
  <2>1. Ahead(format, fmt + Len(s), t)
    BY ONLY <1>1, <1>2, <1>3, AheadSkip
  <2>. QED  BY <1>2, <2>1
<1>5. ASSUME NEW taken, taken = Len(x), Goes(1, taken, "text")
      PROVE  /\ Ahead(format', fmt', t) /\ args' = y /\ pc' = "text"
             /\ message' = message /\ format' = format /\ stored' = stored
  <2>1. 1 = Len(s)
    BY <1>2
  <2>. QED  BY ONLY <1>1, <1>2, <1>3, <1>5, <2>1, Gone
<1>. QED  BY <1>4, <1>5 DEF t, x, y

(* Only %n counts. *)
LEMMA NothingCounted ==
  ASSUME NEW m, NEW k, m[k].conversion # <<"n">>
  PROVE  CountAt(m, k) = <<>>
BY DEF CountAt

(* A conversion is written as the directive means. *)
LEMMA ReadingWritten ==
  ASSUME Reading, NEW k \in 1..Len(message), Within(k), directive \in Locals,
         Ahead(format, fmt, ConversionOn(message[k], Rest(k))), args = message[k].args ++ Left(k),
         NEW c \in Conversions, message[k].conversion = <<c>>, c # "n",
         NEW piece, piece = Rendered(message[k]), NEW taken, taken = Len(message[k].args),
         Write(piece, taken)
  PROVE  Reading'
<1>1. str' = str \o piece /\ Goes(1, taken, "text") /\ directive' = directive
  BY DEF Write
<1>2. /\ Ahead(format', fmt', Rest(k)) /\ args' = Left(k) /\ pc' = "text"
      /\ message' = message /\ format' = format /\ stored' = stored
  BY <1>1, ConversionPassed
<1>3. Written(k)
  BY DEF Within
<1>4. CountAt(message, k) = <<>>
  <2>1. message[k].conversion # <<"n">>
    OBVIOUS
  <2>. QED  BY <2>1, NothingCounted
<1>5. stored' = stored \o CountAt(message, k)
  BY <1>2, <1>3, <1>4, StoredStays
<1>6. str' = str ++ Rendered(message[k])
  BY <1>1 DEF ++
<1>7. directive' \in Locals
  BY <1>1
<1>. QED  BY ONLY Reading, k \in 1..Len(message), <1>2, <1>3, <1>5, <1>6, <1>7, ReadingNext

(* Padded looks at the flags read. *)
LEMMA PaddedNow ==
  ASSUME NEW piece, NEW size
  PROVE  Padded(piece, size) = PaddedIn(directive.flags, piece, size)
BY DEF Padded, PaddedIn

(* A known conversion and how many arguments it has. *)
LEMMA ArgumentsOf ==
  ASSUME NEW d \in Directives, NEW c, d.conversion = <<c>>
  PROVE  /\ c \in Taking => Len(d.args) = 1
         /\ c \notin Taking => Len(d.args) = 0
BY ArgumentOf

(* %c *)
LEMMA ReadingChar == Reading /\ ConvertChar => Reading'
<1>. SUFFICES ASSUME Reading, ConvertChar PROVE Reading'
  OBVIOUS
<1>1. /\ pc = "conversion" /\ Char = "c"
      /\ Write(Padded(<<Head(args).char>>, directive.field_width), 1)
  BY DEF ConvertChar
<1>2. Char # NUL
  BY <1>1 DEF NUL
<1>3. PICK k \in 1..Len(message) :
        LET d == message[k]
        IN  /\ Within(k) /\ d \in Directives /\ Sized(d)
            /\ directive = [flags |-> FlagsRead(d), field_width |-> WidthRead(d),
                            precision |-> PrecisionRead(d), qualifier |-> d.qualifier]
            /\ directive \in Locals
            /\ Ahead(format, fmt, ConversionOn(d, Rest(k))) /\ args = d.args ++ Left(k)
            /\ d.conversion = <<Char>> /\ Char \in Conversions
  BY <1>1, <1>2, ConversionStands
<1>. DEFINE d == message[k]
            body == <<d.args[1].char>>
<1>4. Head(args) = d.args[1] /\ Len(d.args) = 1
  BY <1>1, <1>3, TakenIs, ArgumentNext
<1>5. body \in Texts /\ Rendered(d) = Field(d, <<>>, body, " ")
  BY <1>1, <1>3, CharIs, RenderedIs
<1>6. PaddedIn(FlagsRead(d), body, WidthRead(d)) = Field(d, <<>>, body, " ")
  <2>. HIDE DEF body
  <2>. QED  BY <1>3, <1>5, PaddedIs
<1>7. Padded(<<Head(args).char>>, directive.field_width) = Rendered(d)
  BY <1>3, <1>4, <1>5, <1>6, PaddedNow
<1>. DEFINE piece == Padded(<<Head(args).char>>, directive.field_width)
<1>8. Write(piece, 1) /\ piece = Rendered(d) /\ 1 = Len(d.args) /\ Char # "n"
  BY <1>1, <1>4, <1>7
<1>. HIDE DEF piece
<1>. QED  BY <1>3, <1>8, ReadingWritten

(* %s *)
LEMMA ReadingString == Reading /\ ConvertString => Reading'
<1>. SUFFICES ASSUME Reading, ConvertString PROVE Reading'
  OBVIOUS
<1>1. /\ pc = "conversion" /\ Char = "s"
      /\ Write(Padded(SubSeq(StringOf(Head(args)), 1,
                             LengthKept(StringOf(Head(args)), directive.precision)),
                      directive.field_width), 1)
  BY DEF ConvertString, StringOf, LengthKept
<1>2. Char # NUL
  BY <1>1 DEF NUL
<1>3. PICK k \in 1..Len(message) :
        LET d == message[k]
        IN  /\ Within(k) /\ d \in Directives /\ Sized(d)
            /\ directive = [flags |-> FlagsRead(d), field_width |-> WidthRead(d),
                            precision |-> PrecisionRead(d), qualifier |-> d.qualifier]
            /\ directive \in Locals
            /\ Ahead(format, fmt, ConversionOn(d, Rest(k))) /\ args = d.args ++ Left(k)
            /\ d.conversion = <<Char>> /\ Char \in Conversions
  BY <1>1, <1>2, ConversionStands
<1>. DEFINE d == message[k]
            s == StringOf(d.args[1])
            body == SubSeq(s, 1, LengthKept(s, PrecisionRead(d)))
<1>4. Head(args) = d.args[1] /\ Len(d.args) = 1
  BY <1>1, <1>3, TakenIs, ArgumentNext
<1>5. body \in Texts /\ Rendered(d) = Field(d, <<>>, body, " ")
  BY <1>1, <1>3, StringIs, RenderedIs
<1>6. Write(Padded(body, directive.field_width), 1)
  BY <1>1, <1>3, <1>4
<1>. HIDE DEF body
<1>7. PaddedIn(FlagsRead(d), body, WidthRead(d)) = Field(d, <<>>, body, " ")
  BY <1>3, <1>5, PaddedIs
<1>8. Padded(body, directive.field_width) = Rendered(d)
  BY <1>3, <1>5, <1>7, PaddedNow
<1>. DEFINE piece == Padded(body, directive.field_width)
<1>9. Write(piece, 1) /\ piece = Rendered(d) /\ 1 = Len(d.args) /\ Char # "n"
  BY <1>1, <1>4, <1>6, <1>8
<1>. HIDE DEF piece
<1>. QED  BY <1>3, <1>9, ReadingWritten

(* %p *)
LEMMA ReadingPointer == Reading /\ ConvertPointer => Reading'
<1>. SUFFICES ASSUME Reading, ConvertPointer PROVE Reading'
  OBVIOUS
<1>. DEFINE bare == directive.field_width = -1
            piece == number(Head(args).word, 16,
                            IF bare THEN 8 ELSE directive.field_width, directive.precision,
                            directive.flags \cup (IF bare THEN {"0"} ELSE {}))
<1>1. pc = "conversion" /\ Char = "p" /\ Write(piece, 1)
  BY DEF ConvertPointer
<1>2. Char # NUL
  BY <1>1 DEF NUL
<1>3. PICK k \in 1..Len(message) :
        LET d == message[k]
        IN  /\ Within(k) /\ d \in Directives /\ Sized(d)
            /\ directive = [flags |-> FlagsRead(d), field_width |-> WidthRead(d),
                            precision |-> PrecisionRead(d), qualifier |-> d.qualifier]
            /\ directive \in Locals
            /\ Ahead(format, fmt, ConversionOn(d, Rest(k))) /\ args = d.args ++ Left(k)
            /\ d.conversion = <<Char>> /\ Char \in Conversions
  BY <1>1, <1>2, ConversionStands
<1>. DEFINE d == message[k]
<1>4. Head(args) = d.args[1] /\ Len(d.args) = 1
  BY <1>1, <1>3, TakenIs, ArgumentNext
<1>5. /\ directive.flags = FlagsRead(d) /\ directive.field_width = WidthRead(d)
      /\ directive.precision = PrecisionRead(d)
  BY <1>3
<1>6. piece = PointerRendered(d) /\ Rendered(d) = PointerRendered(d)
  <2>1. d.conversion = <<"p">> /\ d \in Directives
    BY <1>1, <1>3
  <2>2. Rendered(d) = PointerRendered(d)
    BY <2>1, RenderedIs
  <2>. HIDE DEF d
  <2>3. number(d.args[1].word, 16, IF WidthRead(d) = -1 THEN 8 ELSE WidthRead(d), PrecisionRead(d),
               FlagsRead(d) \cup (IF WidthRead(d) = -1 THEN {"0"} ELSE {})) = PointerRendered(d)
    BY <2>1, PointerIs
  <2>. QED  BY <1>4, <1>5, <2>2, <2>3
<1>7. Write(piece, 1) /\ piece = Rendered(d) /\ 1 = Len(d.args) /\ Char # "n"
  BY <1>1, <1>4, <1>6
<1>. HIDE DEF piece
<1>. QED  BY <1>3, <1>7, ReadingWritten

(* %o, %x, %X, %d, %i and %u *)
LEMMA ReadingInteger == Reading /\ ConvertInteger => Reading'
<1>. SUFFICES ASSUME Reading, ConvertInteger PROVE Reading'
  OBVIOUS
<1>. DEFINE type == directive.flags \cup TypeOf(Char)
            piece == number(Taken(Head(args).word, type), BaseOf(Char),
                            directive.field_width, directive.precision, type)
<1>1. pc = "conversion" /\ Char \in IntegerChar /\ Write(piece, 1)
  BY DEF ConvertInteger
<1>2. Char # NUL /\ Char # "n"
  BY <1>1 DEF NUL, IntegerChar
<1>3. PICK k \in 1..Len(message) :
        LET d == message[k]
        IN  /\ Within(k) /\ d \in Directives /\ Sized(d)
            /\ directive = [flags |-> FlagsRead(d), field_width |-> WidthRead(d),
                            precision |-> PrecisionRead(d), qualifier |-> d.qualifier]
            /\ directive \in Locals
            /\ Ahead(format, fmt, ConversionOn(d, Rest(k))) /\ args = d.args ++ Left(k)
            /\ d.conversion = <<Char>> /\ Char \in Conversions
  BY <1>1, <1>2, ConversionStands
<1>. DEFINE d == message[k]
<1>4. Head(args) = d.args[1] /\ Len(d.args) = 1
  <2>1. Char \in Taking
    BY <1>1, TakenIs
  <2>. QED  BY <1>3, <2>1, ArgumentNext
<1>5. /\ directive.flags = FlagsRead(d) /\ directive.field_width = WidthRead(d)
      /\ directive.precision = PrecisionRead(d) /\ directive.qualifier = d.qualifier
  BY <1>3
<1>6. piece = IntegerRendered(d) /\ Rendered(d) = IntegerRendered(d)
  <2>1. d.conversion = <<Char>> /\ d \in Directives /\ Sized(d)
    BY <1>3
  <2>2. Rendered(d) = IntegerRendered(d)
    BY <1>1, <2>1, RenderedIs
  <2>3. d.args[1].word \in 0..(Word - 1)
    BY <1>1, <2>1, WordTaken
  <2>. HIDE DEF d
  <2>. DEFINE read == FlagsRead(d) \cup TypeOf(Char)
  <2>4. number(TakenAs(d.qualifier, d.args[1].word, read), BaseOf(Char),
               WidthRead(d), PrecisionRead(d), read) = IntegerRendered(d)
    BY <1>1, <2>1, <2>3, IntegerIs
  <2>5. Taken(Head(args).word, type) = TakenAs(d.qualifier, d.args[1].word, read)
    BY <1>4, <1>5 DEF Taken, TakenAs
  <2>6. type = read
    BY <1>5
  <2>. HIDE DEF read, type
  <2>. QED  BY <1>5, <2>2, <2>4, <2>5, <2>6
<1>7. Write(piece, 1) /\ piece = Rendered(d) /\ 1 = Len(d.args)
  BY <1>1, <1>4, <1>6
<1>. HIDE DEF piece
<1>. QED  BY <1>2, <1>3, <1>7, ReadingWritten

(* %@ *)
LEMMA ReadingAddress == Reading /\ ConvertAddress => Reading'
<1>. SUFFICES ASSUME Reading, ConvertAddress PROVE Reading'
  OBVIOUS
<1>. DEFINE w == Head(args).word
            piece == Front(FlattenSeq([k \in 1..4 |->
                       number((w \div Power(Byte, k - 1)) % Byte, 10, -1, -1, {"SIGN"}) \o <<".">>]))
<1>1. pc = "conversion" /\ Char = "@" /\ Write(piece, 1)
  BY DEF ConvertAddress
<1>2. Char # NUL
  BY <1>1 DEF NUL
<1>3. PICK k \in 1..Len(message) :
        LET d == message[k]
        IN  /\ Within(k) /\ d \in Directives /\ Sized(d)
            /\ directive = [flags |-> FlagsRead(d), field_width |-> WidthRead(d),
                            precision |-> PrecisionRead(d), qualifier |-> d.qualifier]
            /\ directive \in Locals
            /\ Ahead(format, fmt, ConversionOn(d, Rest(k))) /\ args = d.args ++ Left(k)
            /\ d.conversion = <<Char>> /\ Char \in Conversions
  BY <1>1, <1>2, ConversionStands
<1>. DEFINE d == message[k]
<1>4. Head(args) = d.args[1] /\ Len(d.args) = 1
  BY <1>1, <1>3, TakenIs, ArgumentNext
<1>5. piece = Rendered(d)
  <2>1. d.conversion = <<"@">> /\ d \in Directives
    BY <1>1, <1>3
  <2>. HIDE DEF d
  <2>. QED  BY <1>4, <2>1, AddressIs
<1>6. Write(piece, 1) /\ piece = Rendered(d) /\ 1 = Len(d.args) /\ Char # "n"
  BY <1>1, <1>4, <1>5
<1>. HIDE DEF piece
<1>. QED  BY <1>3, <1>6, ReadingWritten

(* %! *)
LEMMA ReadingEther == Reading /\ ConvertEther => Reading'
<1>. SUFFICES ASSUME Reading, ConvertEther PROVE Reading'
  OBVIOUS
<1>. DEFINE piece == Front(FlattenSeq([k \in 1..6 |->
                       number(Head(args).bytes[k], 16, 2, -1, {"0", "LARGE"}) \o <<":">>]))
<1>1. pc = "conversion" /\ Char = "!" /\ Write(piece, 1)
  BY DEF ConvertEther
<1>2. Char # NUL
  BY <1>1 DEF NUL
<1>3. PICK k \in 1..Len(message) :
        LET d == message[k]
        IN  /\ Within(k) /\ d \in Directives /\ Sized(d)
            /\ directive = [flags |-> FlagsRead(d), field_width |-> WidthRead(d),
                            precision |-> PrecisionRead(d), qualifier |-> d.qualifier]
            /\ directive \in Locals
            /\ Ahead(format, fmt, ConversionOn(d, Rest(k))) /\ args = d.args ++ Left(k)
            /\ d.conversion = <<Char>> /\ Char \in Conversions
  BY <1>1, <1>2, ConversionStands
<1>. DEFINE d == message[k]
<1>4. Head(args) = d.args[1] /\ Len(d.args) = 1
  BY <1>1, <1>3, TakenIs, ArgumentNext
<1>5. piece = Rendered(d)
  <2>1. d.conversion = <<"!">> /\ d \in Directives
    BY <1>1, <1>3
  <2>. HIDE DEF d
  <2>. QED  BY <1>4, <2>1, EtherIs
<1>6. Write(piece, 1) /\ piece = Rendered(d) /\ 1 = Len(d.args) /\ Char # "n"
  BY <1>1, <1>4, <1>5
<1>. HIDE DEF piece
<1>. QED  BY <1>3, <1>6, ReadingWritten

(* %% *)
LEMMA ReadingLiteral == Reading /\ ConvertPercent => Reading'
<1>. SUFFICES ASSUME Reading, ConvertPercent PROVE Reading'
  OBVIOUS
<1>. DEFINE piece == <<"%">>
<1>1. pc = "conversion" /\ Char = "%" /\ Write(piece, 0)
  BY DEF ConvertPercent
<1>2. Char # NUL
  BY <1>1 DEF NUL
<1>3. PICK k \in 1..Len(message) :
        LET d == message[k]
        IN  /\ Within(k) /\ d \in Directives /\ directive \in Locals
            /\ Ahead(format, fmt, ConversionOn(d, Rest(k))) /\ args = d.args ++ Left(k)
            /\ d.conversion = <<Char>> /\ Char \in Conversions
  BY <1>1, <1>2, ConversionStands
<1>. DEFINE d == message[k]
<1>4. Len(d.args) = 0 /\ piece = Rendered(d)
  <2>1. "%" \notin Taking
    BY DEF Taking, IntegerChar
  <2>. QED  BY <1>1, <1>3, <2>1, ArgumentsOf, RenderedIs
<1>. HIDE DEF piece
<1>5. 0 = Len(d.args) /\ Char # "n"
  BY <1>1, <1>4
<1>. QED  BY <1>1, <1>3, <1>4, <1>5, ReadingWritten

(* Unknown conversions, and the format that ends inside a directive. *)
LEMMA ReadingUnknown == Reading /\ ConvertUnknown => Reading'
<1>. SUFFICES ASSUME Reading, ConvertUnknown PROVE Reading'
  OBVIOUS
<1>1. pc = "conversion" /\ Char \notin Known
  BY DEF ConvertUnknown
<1>2. PICK k \in 1..Len(message) :
        LET d == message[k]
        IN  /\ Within(k) /\ d \in Directives /\ directive \in Locals
            /\ Ahead(format, fmt, ConversionOn(d, Rest(k))) /\ args = d.args ++ Left(k)
            /\ Char = NUL => d.conversion = <<>>
            /\ Char # NUL => d.conversion = <<Char>> /\ Char \in Conversions
  BY <1>1, ConversionStands
<1>. DEFINE d == message[k]
<1>3. CASE Char # NUL
  <2>. DEFINE piece == <<"%", Char>>
  <2>1. Write(piece, 0)
    BY <1>3 DEF ConvertUnknown
  <2>2. Len(d.args) = 0 /\ piece = Rendered(d)
    <3>1. Char \notin Taking
      BY <1>1 DEF Known, Taking
    <3>. QED  BY <1>1, <1>2, <1>3, <3>1, ArgumentsOf, RenderedIs
  <2>. HIDE DEF piece
  <2>3. 0 = Len(d.args) /\ Char # "n"
    BY <1>1, <2>2 DEF Known
  <2>. QED  BY <1>2, <1>3, <2>1, <2>2, <2>3, ReadingWritten
<1>4. CASE Char = NUL
  <2>1. str' = Append(str, "%") /\ Goes(0, 0, "text") /\ directive' = directive
    BY <1>4 DEF ConvertUnknown
  <2>2. d.conversion = <<>> /\ Rest(k) = <<>>
    BY <1>2, <1>4, WithinFacts
  <2>. DEFINE e == <<>>
  <2>3. e \in Texts /\ e ++ e = e
    BY TextsJoin DEF Joins
  <2>4. ConversionOn(d, Rest(k)) = e
    BY <2>2, <2>3 DEF ConversionOn
  <2>5. args = Left(k) /\ Left(k) \in Seq(Argument)
    <3>1. d.args = <<>>
      <4>1. d.args \in Seq(Argument) /\ Len(d.args) = 0
        BY <1>2, <2>2, DirectiveFields
      <4>. QED  BY <4>1
    <3>2. Left(k) \in Seq(Argument)
      BY <1>2, WithinFacts
    <3>. DEFINE a == Left(k)
    <3>. HIDE DEF a
    <3>3. <<>> ++ a = a
      BY <3>2, SequencesJoin DEF Joins, a
    <3>. QED  BY <1>2, <3>1, <3>2, <3>3 DEF a
  <2>. HIDE DEF e
  <2>6. /\ Ahead(format', fmt', e) /\ args' = Left(k) /\ pc' = "text"
        /\ message' = message /\ format' = format /\ stored' = stored
    BY <1>2, <2>1, <2>3, <2>4, <2>5, Stays
  <2>7. Rest(k) = e
    BY <2>2 DEF e
  <2>8. Written(k)
    BY <1>2 DEF Within
  <2>9. CountAt(message, k) = <<>>
    <3>1. d.conversion # <<"n">>
      BY <2>2
    <3>. QED  BY <3>1, NothingCounted
  <2>10. stored' = stored \o CountAt(message, k)
    BY <2>6, <2>8, <2>9, StoredStays
  <2>11. str' = str ++ Rendered(d)
    <3>1. Rendered(d) = <<"%">>
      BY <1>2, <2>2, DirectiveFields DEF Rendered
    <3>2. str \in Seq(Character)
      <4>1. WellFormed(message)
        BY DEF Reading
      <4>2. str \in Texts
        BY <2>8, <4>1, OneItemMore DEF Written
      <4>. QED  BY <4>2 DEF Texts
    <3>3. Append(str, "%") = str \o <<"%">>
      BY ONLY <3>2, AppendIsConcat
    <3>. QED  BY <2>1, <3>1, <3>3 DEF ++
  <2>. QED  BY <1>2, <2>1, <2>6, <2>7, <2>8, <2>10, <2>11, ReadingNext
<1>. QED  BY <1>3, <1>4

(* What %n stores is the length of what the items in front mean. *)
LEMMA ReadingCount == Reading /\ ConvertCount => Reading'
<1>. SUFFICES ASSUME Reading, ConvertCount PROVE Reading'
  OBVIOUS
<1>1. /\ pc = "conversion" /\ Char = "n" /\ stored' = Append(stored, Len(str))
      /\ fmt' = fmt + 1 /\ args' = Tail(args) /\ pc' = "text"
      /\ message' = message /\ format' = format /\ str' = str /\ directive' = directive
  BY DEF ConvertCount
<1>2. Char # NUL
  BY <1>1 DEF NUL
<1>3. PICK k \in 1..Len(message) :
        LET d == message[k]
        IN  /\ Within(k) /\ d \in Directives /\ directive \in Locals
            /\ Ahead(format, fmt, ConversionOn(d, Rest(k))) /\ args = d.args ++ Left(k)
            /\ d.conversion = <<Char>> /\ Char \in Conversions
  BY <1>1, <1>2, ConversionStands
<1>. DEFINE d == message[k]
<1>4. args' = Left(k)
  BY <1>1, <1>3, TakenIs, ArgumentNext
<1>5. Ahead(format', fmt', Rest(k))
  BY <1>1, <1>3, ConversionPassed
<1>6. WellFormed(message) /\ Written(k)
  BY <1>3 DEF Reading, Within
<1>7. stored \in Seq(Nat) /\ str \in Texts
  BY <1>6, OneItemMore DEF Written
<1>8. str' = str ++ Rendered(d)
  <2>1. Rendered(d) = <<>>
    BY <1>1, <1>3, RenderedIs
  <2>2. str ++ <<>> = str
    BY ONLY <1>7, TextsJoin DEF Joins
  <2>. QED  BY <1>1, <2>1, <2>2
<1>9. stored' = stored \o CountAt(message, k)
  <2>1. CountAt(message, k) = <<Len(str)>>
    <3>1. "plain" \notin DOMAIN d /\ d.conversion = <<"n">>
      BY <1>1, <1>3, DirectiveFields
    <3>. QED  BY <1>6, <3>1 DEF CountAt, Written
  <2>2. Len(str) \in Nat
    BY <1>7 DEF Texts
  <2>3. Append(stored, Len(str)) = stored \o <<Len(str)>>
    BY ONLY <1>7, <2>2, AppendIsConcat
  <2>. QED  BY <1>1, <2>1, <2>3
<1>. QED  BY <1>1, <1>3, <1>4, <1>5, <1>6, <1>8, <1>9, ReadingNext

(* Every step of a call reads on as the message means. *)
LEMMA ReadingStep == Reading /\ Step => Reading'
BY ReadingCopyPlain, ReadingPercent, ReadingFlag, ReadingWidth, ReadingPrecision, ReadingQualifier,
   ReadingChar, ReadingString, ReadingPointer, ReadingCount, ReadingLiteral, ReadingInteger,
   ReadingAddress, ReadingEther, ReadingUnknown, ReadingReturn DEF Step

(* Steps of the others leave vsprintf where it is. *)
LEMMA ReadingStays == Reading /\ UNCHANGED text => Reading'
BY DEF text, Reading, TextInit, AtText, AtFlags, AtPrecision, AtQualifier, AtConversion, AtEnd,
       Within, Written, Rest, Left

(* What is written and what is left is a text, counts and arguments at any item. *)
LEMMA SoFarTyped ==
  ASSUME NEW m, WellFormed(m), NEW k \in 1..(Len(m) + 1)
  PROVE  /\ Rendering(UpTo(m, k - 1)) \in Seq(Character) /\ Counts(UpTo(m, k - 1)) \in Seq(Nat)
         /\ Arguments(From(m, k)) \in Seq(Argument)
<1>1. m \in Seq(Items) /\ Len(m) \in Nat
  BY DEF WellFormed
<1>2. CASE k = 1
  <2>1. /\ Rendering(UpTo(m, 1 - 1)) = <<>> /\ Counts(UpTo(m, 1 - 1)) = <<>>
        /\ From(m, 1) = m /\ Arguments(m) \in Seq(Argument)
    BY WrittenFirst
  <2>2. k - 1 = 1 - 1
    BY <1>2
  <2>3. <<>> \in Seq(Character) /\ <<>> \in Seq(Nat)
    OBVIOUS
  <2>. QED  BY <1>2, <2>1, <2>2, <2>3
<1>3. CASE k # 1
  <2>. DEFINE j == k - 1
  <2>1. j \in 1..Len(m) /\ k = j + 1 /\ k - 1 = (j + 1) - 1
    BY <1>1, <1>3
  <2>. HIDE DEF j
  <2>. DEFINE s == Rendering(UpTo(m, j - 1))
              r == Rendered(m[j])
              c == Counts(UpTo(m, j - 1))
              n == CountAt(m, j)
  <2>2. /\ s \in Texts /\ r \in Texts /\ c \in Seq(Nat)
        /\ Rendering(UpTo(m, (j + 1) - 1)) = s ++ r
        /\ Counts(UpTo(m, (j + 1) - 1)) = c \o n
    BY <2>1, OneItemMore
  <2>3. n \in Seq(Nat)
    BY <1>1, <2>1, CountsNext
  <2>4. Arguments(From(m, j + 1)) \in Seq(Argument)
    BY <2>1, ItemAhead
  <2>. HIDE DEF s, r, c, n
  <2>5. s ++ r \in Seq(Character)
    BY <2>2, TextsJoin DEF Joins, Texts
  <2>6. c \o n \in Seq(Nat)
    BY ONLY <2>2, <2>3, ConcatProperties
  <2>. QED  BY <2>1, <2>2, <2>4, <2>5, <2>6
<1>. QED  BY <1>2, <1>3

(* The type invariant of vsprintf follows. *)
LEMMA ReadingTyped == Reading => TextTypeOK
<1>. SUFFICES ASSUME Reading PROVE TextTypeOK
  OBVIOUS
<1>1. /\ WellFormed(message) /\ format = Spelling(message) /\ Len(message) \in Nat
      /\ pc \in {"idle", "text", "flags", "precision", "qualifier", "conversion", "returned"}
  BY DEF Reading, WellFormed
<1>. DEFINE Typed == /\ fmt \in 1..(Len(format) + 1)
                     /\ args \in Seq(Argument)
                     /\ str \in Seq(Character) /\ stored \in Seq(Nat)
                     /\ directive \in Locals
<1>. SUFFICES Typed
  BY <1>1 DEF TextTypeOK, Locals
<1>2. CASE pc = "idle"
  <2>1. /\ message = <<>> /\ format = <<>> /\ fmt = 1 /\ args = <<>> /\ str = <<>> /\ stored = <<>>
        /\ directive \in Locals
    BY <1>2, LocalsTyped DEF Reading, TextInit
  <2>2. fmt \in 1..(Len(format) + 1)
    BY <2>1
  <2>3. args \in Seq(Argument) /\ str \in Seq(Character) /\ stored \in Seq(Nat)
    BY <2>1
  <2>. QED  BY <2>1, <2>2, <2>3
<1>3. CASE pc = "text"
  <2>1. PICK k \in 1..(Len(message) + 1) :
          /\ Written(k) /\ directive \in Locals
          /\ Ahead(format, fmt, Spelling(From(message, k))) /\ args = Arguments(From(message, k))
    BY <1>3 DEF Reading, AtText
  <2>2. fmt \in 1..(Len(format) + 1)
    BY <2>1, CharIsHead
  <2>. QED  BY <1>1, <2>1, <2>2, SoFarTyped DEF Written
<1>4. ASSUME NEW k \in 1..Len(message), Within(k)
      PROVE  str \in Seq(Character) /\ stored \in Seq(Nat) /\ Sized(message[k])
             /\ message[k] \in Directives /\ message[k].qualifier \in Qualifiers
             /\ <<>> \in Qualifiers
  <2>1. message[k] \in Directives /\ k \in 1..(Len(message) + 1) /\ Written(k)
    BY <1>1, <1>4 DEF Within
  <2>2. <<>> \in Qualifiers
    BY DEF Qualifiers
  <2>. QED  BY <1>1, <2>1, <2>2, SoFarTyped, DirectiveSized, DirectiveFields DEF Written
<1>5. ASSUME NEW k \in 1..Len(message), Within(k), NEW y \in Seq(Argument), NEW rest,
             args = y, Ahead(format, fmt, rest)
      PROVE  fmt \in 1..(Len(format) + 1) /\ args \in Seq(Argument)
  BY <1>5, CharIsHead
<1>6. CASE pc = "flags"
  <2>1. PICK k \in 1..Len(message) : Within(k) /\ AtFlags(message[k], Rest(k), Left(k))
    BY <1>6 DEF Reading
  <2>. DEFINE d == message[k]
              v == StarOf(d.width)
              y == StarOf(d.precision) ++ (d.args ++ Left(k))
  <2>2. PICK j \in 0..Len(d.flags) :
          /\ directive = [flags |-> Range(UpTo(d.flags, j)), field_width |-> -1, precision |-> -1,
                          qualifier |-> <<>>]
          /\ Ahead(format, fmt, From(d.flags, j + 1) ++ WidthOn(d, Rest(k)))
          /\ args = v ++ y
    BY <2>1 DEF AtFlags
  <2>3. v ++ y \in Seq(Argument)
    <3>1. v \in Seq(Argument) /\ y \in Seq(Argument)
      BY <2>1, WithinFacts
    <3>. HIDE DEF v, y
    <3>. QED  BY <3>1, SequencesJoin DEF Joins
  <2>4. fmt \in 1..(Len(format) + 1) /\ args \in Seq(Argument)
    BY <2>1, <2>2, <2>3, <1>5
  <2>5. Range(UpTo(d.flags, j)) \subseteq FlagChar
    <3>. DEFINE f == d.flags
    <3>1. f \in Seq(FlagChar)
      BY <2>1, <1>4 DEF Sized
    <3>. HIDE DEF f, d
    <3>2. SubSeq(f, 1, j) \in Seq(FlagChar)
      <4>1. j \in 0..Len(f) /\ Len(f) \in Nat
        BY <2>2, <3>1 DEF f
      <4>2. \A i \in 1..j : f[i] \in FlagChar
        BY <3>1, <4>1
      <4>. QED  BY <3>1, <4>1, <4>2, SubSeqProperties
    <3>. QED  BY <3>2 DEF Range, UpTo, f
  <2>6. directive \in Locals
    BY <1>4, <2>1, <2>2, <2>5 DEF Locals
  <2>. QED  BY <1>4, <2>1, <2>4, <2>6
<1>7. CASE pc = "precision"
  <2>1. PICK k \in 1..Len(message) : Within(k) /\ AtPrecision(message[k], Rest(k), Left(k))
    BY <1>7 DEF Reading
  <2>. DEFINE d == message[k]
  <2>2. fmt \in 1..(Len(format) + 1) /\ args \in Seq(Argument)
    BY <1>5, <2>1, WithinFacts DEF AtPrecision
  <2>3. directive \in Locals
    BY <1>4, <2>1, SizesRead DEF AtPrecision, Locals
  <2>. QED  BY <1>4, <2>1, <2>2, <2>3
<1>8. CASE pc = "qualifier"
  <2>1. PICK k \in 1..Len(message) : Within(k) /\ AtQualifier(message[k], Rest(k), Left(k))
    BY <1>8 DEF Reading
  <2>2. fmt \in 1..(Len(format) + 1) /\ args \in Seq(Argument)
    BY <1>5, <2>1, WithinFacts DEF AtQualifier
  <2>3. directive \in Locals
    BY <1>4, <2>1, SizesRead DEF AtQualifier, Locals
  <2>. QED  BY <1>4, <2>1, <2>2, <2>3
<1>9. CASE pc = "conversion"
  <2>1. PICK k \in 1..Len(message) : Within(k) /\ AtConversion(message[k], Rest(k), Left(k))
    BY <1>9 DEF Reading
  <2>2. fmt \in 1..(Len(format) + 1) /\ args \in Seq(Argument)
    BY <1>5, <2>1, WithinFacts DEF AtConversion
  <2>3. directive \in Locals
    BY <1>4, <2>1, SizesRead DEF AtConversion, Locals
  <2>. QED  BY <1>4, <2>1, <2>2, <2>3
<1>10. CASE pc = "returned"
  <2>1. /\ Written(Len(message) + 1) /\ args = <<>> /\ directive \in Locals
        /\ fmt \in 1..(Len(format) + 1)
    BY <1>10 DEF Reading, AtEnd
  <2>2. Len(message) + 1 \in 1..(Len(message) + 1)
    BY <1>1
  <2>3. args \in Seq(Argument)
    BY <2>1
  <2>. QED  BY <1>1, <2>1, <2>2, <2>3, SoFarTyped DEF Written
<1>. QED  BY <1>1, <1>2, <1>3, <1>6, <1>7, <1>8, <1>9, <1>10

(* And so does what the call returns. *)
LEMMA ReadingRenders == Reading => RendersMessage
<1>. SUFFICES ASSUME Reading, pc = "returned"
              PROVE  str = Rendering(message) /\ stored = Counts(message) /\ args = <<>>
  BY DEF RendersMessage
<1>1. WellFormed(message) /\ Written(Len(message) + 1) /\ args = <<>>
  BY DEF Reading, AtEnd
<1>2. message \in Seq(Items) /\ (Len(message) + 1) - 1 = Len(message)
  BY <1>1 DEF WellFormed
<1>3. UpTo(message, Len(message)) = message
  BY <1>2, Ends
<1>. QED  BY <1>1, <1>2, <1>3 DEF Written
=============================================================================
