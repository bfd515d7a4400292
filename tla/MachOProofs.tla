------------------------------ MODULE MachOProofs ------------------------------
(***************************************************************************)
(* Proofs about the walk over the load commands, for every header that the *)
(* linker's layout describes, any names and any relation Begins that has   *)
(* the terminator begin what a name is padded with.                        *)
(*                                                                         *)
(* The walk's pointer moves by the size of a segment command, so it is at  *)
(* a command as long as the ones before are that long: what has to be      *)
(* known of the words is where the pieces they are joined from begin.      *)
(***************************************************************************)
EXTENDS MachO, WellFoundedInduction, TLAPS

(* A non-empty set of numbers has a least one. *)
LEMMA LeastOf ==
  ASSUME NEW T \in SUBSET Nat, T # {}
  PROVE  \E x \in T : \A y \in T : x <= y
<1>1. PICK x \in T : \A y \in T : <<y, x>> \notin OpToRel(<, Nat)
  BY NatLessThanWellFounded, WFMin
<1>2. \A y, z \in Nat : y < z => <<y, z>> \in OpToRel(<, Nat)
  BY DEF OpToRel
<1>3. \A y \in T : ~(y < x) /\ y \in Nat /\ x \in Nat
  BY <1>1, <1>2
<1>4. \A y \in T : x <= y
  BY <1>3
<1>. QED  BY <1>4

(* A set that holds 1 and, of the numbers up to n, the successor of each   *)
(* it holds, holds all of them.                                            *)
LEMMA UpTo ==
  ASSUME NEW n \in Nat, NEW T,
         1 \in T, \A k \in 1..(n - 1) : k \in T => k + 1 \in T
  PROVE  \A k \in 1..n : k \in T
<1>. DEFINE Bad == {k \in 1..n : k \notin T}
<1>1. SUFFICES ASSUME Bad # {} PROVE FALSE
  OBVIOUS
<1>2. Bad \in SUBSET Nat
  OBVIOUS
<1>3. PICK k \in Bad : \A m \in Bad : k <= m
  <2>. HIDE DEF Bad
  <2>. QED  BY <1>1, <1>2, LeastOf
<1>4. k \in 1..n /\ k \notin T /\ k # 1
  BY <1>3
<1>5. k - 1 \in 1..(n - 1) /\ k - 1 \notin Bad
  BY <1>3, <1>4
<1>6. k - 1 \in T
  BY <1>4, <1>5
<1>. QED  BY <1>4, <1>5, <1>6

-----------------------------------------------------------------------------
(* The partial results of FlattenSeq: after each piece, all that is joined. *)
Joined(f, seqs, k) ==
  f = [n \in 1..k |-> IF n = 1 THEN seqs[n] ELSE f[n - 1] \o seqs[n]]

(* There are such partial results, and FlattenSeq is the last of them.     *)
LEMMA FlattenJoins ==
  ASSUME NEW seqs, Len(seqs) \in Nat \ {0}
  PROVE  \E f : Joined(f, seqs, Len(seqs)) /\ FlattenSeq(seqs) = f[Len(seqs)]
<1>. DEFINE N == Len(seqs)
            T == {k \in 1..N : \E f : Joined(f, seqs, k)}
<1>1. 1 \in T
  <2>1. Joined([n \in 1..1 |-> seqs[n]], seqs, 1)
    BY DEF Joined
  <2>. QED  BY <2>1
<1>2. ASSUME NEW k \in 1..(N - 1), k \in T PROVE k + 1 \in T
  <2>1. PICK f : Joined(f, seqs, k)
    BY <1>2
  <2>. DEFINE g == [n \in 1..(k + 1) |-> IF n = k + 1 THEN f[k] \o seqs[n] ELSE f[n]]
  <2>2. ASSUME NEW n \in 1..(k + 1)
        PROVE  g[n] = IF n = 1 THEN seqs[n] ELSE g[n - 1] \o seqs[n]
    <3>1. CASE n = k + 1
      <4>1. k \in 1..(k + 1) /\ k # k + 1 /\ n - 1 = k /\ n # 1
        BY <3>1
      <4>2. g[n] = f[k] \o seqs[n] /\ g[k] = f[k]
        BY <3>1, <4>1
      <4>. QED  BY <4>1, <4>2
    <3>2. CASE n # k + 1
      <4>1. n \in 1..k /\ g[n] = f[n]
        BY <3>2
      <4>2. f[n] = IF n = 1 THEN seqs[n] ELSE f[n - 1] \o seqs[n]
        BY <2>1, <4>1 DEF Joined
      <4>3. n # 1 => n - 1 \in 1..(k + 1) /\ n - 1 # k + 1
        BY <4>1
      <4>4. n # 1 => g[n - 1] = f[n - 1]
        BY <4>3
      <4>. QED  BY <4>1, <4>2, <4>4
    <3>. QED  BY <3>1, <3>2
  <2>3. Joined(g, seqs, k + 1)
    BY <2>2 DEF Joined
  <2>. HIDE DEF g
  <2>. QED  BY <2>3
<1>3. \E f : Joined(f, seqs, N)
  <2>1. N \in Nat /\ N \in 1..N
    OBVIOUS
  <2>2. N \in T
    <3>. HIDE DEF T
    <3>. QED  BY <1>1, <1>2, <2>1, UpTo
  <2>. QED  BY <2>2
<1>. DEFINE flatten == CHOOSE f : Joined(f, seqs, N)
<1>4. Joined(flatten, seqs, N)
  BY <1>3
<1>5. FlattenSeq(seqs) = flatten[N]
  BY DEF FlattenSeq, Joined
<1>. QED  BY <1>4, <1>5

(* What is joined of sequences of numbers: a sequence of numbers, at least *)
(* as long as the pieces, that goes on with what was joined before.        *)
Grows(f, seqs, n) ==
  /\ \A k \in 1..n : f[k] \in Seq(Nat)
  /\ n >= 1 => f[1] = seqs[1]
  /\ \A k \in 1..(n - 1) :
       /\ f[k + 1] = f[k] \o seqs[k + 1]
       /\ Len(f[k + 1]) = Len(f[k]) + Len(seqs[k + 1])
       /\ \A x \in 1..Len(f[k]) : f[k + 1][x] = f[k][x]
       /\ \A x \in 1..Len(seqs[k + 1]) : f[k + 1][Len(f[k]) + x] = seqs[k + 1][x]

LEMMA JoinedGrows ==
  ASSUME NEW n \in Nat, NEW seqs, \A k \in 1..n : seqs[k] \in Seq(Nat),
         NEW f, Joined(f, seqs, n)
  PROVE  Grows(f, seqs, n)
<1>1. n >= 1 => f[1] = seqs[1]
  BY DEF Joined
<1>2. ASSUME NEW k \in 1..(n - 1) PROVE f[k + 1] = f[k] \o seqs[k + 1]
  <2>1. k + 1 \in 1..n /\ k + 1 # 1 /\ (k + 1) - 1 = k
    OBVIOUS
  <2>. QED  BY <2>1 DEF Joined
<1>3. \A k \in 1..n : f[k] \in Seq(Nat)
  <2>. DEFINE T == {k \in 1..n : f[k] \in Seq(Nat)}
  <2>1. CASE n = 0
    BY <2>1
  <2>2. CASE n >= 1
    <3>1. 1 \in T
      BY <1>1, <2>2
    <3>2. ASSUME NEW k \in 1..(n - 1), k \in T PROVE k + 1 \in T
      <4>1. f[k] \in Seq(Nat) /\ seqs[k + 1] \in Seq(Nat) /\ k + 1 \in 1..n
        BY <3>2
      <4>2. f[k] \o seqs[k + 1] \in Seq(Nat)
        BY <4>1
      <4>. QED  BY <1>2, <4>1, <4>2
    <3>3. \A k \in 1..n : k \in T
      <4>. HIDE DEF T
      <4>. QED  BY <3>1, <3>2, UpTo
    <3>. QED  BY <3>3
  <2>. QED  BY <2>1, <2>2
<1>4. ASSUME NEW k \in 1..(n - 1)
      PROVE  /\ Len(f[k + 1]) = Len(f[k]) + Len(seqs[k + 1])
             /\ \A x \in 1..Len(f[k]) : f[k + 1][x] = f[k][x]
             /\ \A x \in 1..Len(seqs[k + 1]) : f[k + 1][Len(f[k]) + x] = seqs[k + 1][x]
  <2>1. f[k] \in Seq(Nat) /\ seqs[k + 1] \in Seq(Nat) /\ f[k + 1] = f[k] \o seqs[k + 1]
    <3>1. k \in 1..n /\ k + 1 \in 1..n
      OBVIOUS
    <3>. QED  BY <1>2, <1>3, <3>1
  <2>. DEFINE a == f[k]
              b == seqs[k + 1]
  <2>2. a \in Seq(Nat) /\ b \in Seq(Nat) /\ f[k + 1] = a \o b
    BY <2>1
  <2>. HIDE DEF a, b
  <2>3. /\ Len(a \o b) = Len(a) + Len(b)
        /\ \A x \in 1..Len(a) : (a \o b)[x] = a[x]
        /\ \A x \in 1..Len(b) : (a \o b)[Len(a) + x] = b[x]
    BY <2>2
  <2>. QED  BY <2>2, <2>3 DEF a, b
<1>. QED  BY <1>1, <1>2, <1>3, <1>4 DEF Grows

(* FlattenSeq of sequences of numbers is one, as long as its pieces at least,  *)
(* and has a piece at its place when those before it are equally long.     *)
LaidOut(flat, seqs, L) ==
  /\ flat \in Seq(Nat)
  /\ (\A k \in 1..Len(seqs) : Len(seqs[k]) >= L) => Len(flat) >= L * Len(seqs)
  /\ \A k \in 1..Len(seqs) :
       (\A m \in 1..(k - 1) : Len(seqs[m]) = L)
         => \A x \in 1..Len(seqs[k]) :
              /\ L * (k - 1) + x \in 1..Len(flat)
              /\ flat[L * (k - 1) + x] = seqs[k][x]

LEMMA Flattened ==
  ASSUME NEW seqs, Len(seqs) \in Nat, Len(seqs) = 0 => seqs = <<>>,
         \A k \in 1..Len(seqs) : seqs[k] \in Seq(Nat), NEW L \in Nat
  PROVE  LaidOut(FlattenSeq(seqs), seqs, L)
<1>. DEFINE N == Len(seqs)
<1>1. CASE N = 0
  <2>1. FlattenSeq(seqs) = <<>>
    BY <1>1 DEF FlattenSeq
  <2>2. L * N = 0 /\ 1..N = {}
    BY <1>1
  <2>3. <<>> \in Seq(Nat) /\ Len(<<>>) = 0
    OBVIOUS
  <2>. QED  BY <1>1, <2>1, <2>2, <2>3 DEF LaidOut
<1>2. CASE N # 0
  <2>1. PICK f : Joined(f, seqs, N) /\ FlattenSeq(seqs) = f[N]
    BY <1>2, FlattenJoins
  <2>. HIDE DEF N
  <2>2. N \in Nat /\ N >= 1 /\ \A k \in 1..N : seqs[k] \in Seq(Nat)
    BY <1>2 DEF N
  <2>3. /\ \A k \in 1..N : f[k] \in Seq(Nat)
        /\ f[1] = seqs[1]
        /\ \A k \in 1..(N - 1) :
              /\ f[k + 1] = f[k] \o seqs[k + 1]
              /\ Len(f[k + 1]) = Len(f[k]) + Len(seqs[k + 1])
              /\ \A x \in 1..Len(f[k]) : f[k + 1][x] = f[k][x]
              /\ \A x \in 1..Len(seqs[k + 1]) : f[k + 1][Len(f[k]) + x] = seqs[k + 1][x]
    <3>1. Grows(f, seqs, N)
      BY <2>1, <2>2, JoinedGrows
    <3>. QED  BY <2>2, <3>1 DEF Grows
  <2>4. \A k \in 1..N : Len(f[k]) \in Nat /\ Len(seqs[k]) \in Nat
    BY <2>2, <2>3
  <2>5. ASSUME \A k \in 1..N : Len(seqs[k]) >= L
        PROVE  Len(f[N]) >= L * N
    <3>. DEFINE T == {k \in 1..N : Len(f[k]) >= L * k}
    <3>1. 1 \in T
      BY <2>2, <2>3, <2>4, <2>5
    <3>2. ASSUME NEW k \in 1..(N - 1), k \in T PROVE k + 1 \in T
      <4>1. k \in Nat /\ k \in 1..N /\ k + 1 \in 1..N
        BY <2>2
      <4>2. L * (k + 1) = L * k + L /\ L * k \in Nat
        BY <4>1
      <4>3. Len(f[k]) >= L * k /\ Len(f[k + 1]) = Len(f[k]) + Len(seqs[k + 1])
            /\ Len(seqs[k + 1]) >= L
        BY <2>3, <2>5, <3>2, <4>1
      <4>4. Len(f[k]) \in Nat /\ Len(f[k + 1]) \in Nat /\ Len(seqs[k + 1]) \in Nat
        BY <2>4, <4>1
      <4>5. Len(f[k + 1]) >= L * (k + 1)
        <5>. DEFINE c == L * k
                    d == L * (k + 1)
                    p == Len(f[k])
                    q == Len(f[k + 1])
                    r == Len(seqs[k + 1])
        <5>1. c \in Nat /\ d = c + L /\ p >= c /\ q = p + r /\ r >= L
          BY <4>2, <4>3
        <5>2. p \in Nat /\ q \in Nat /\ r \in Nat /\ L \in Nat
          BY <4>4
        <5>. HIDE DEF c, d, p, q, r
        <5>3. q >= d
          BY ONLY <5>1, <5>2
        <5>. QED  BY <5>3 DEF d, q
      <4>. QED  BY <4>1, <4>5
    <3>3. N \in T
      <4>. HIDE DEF T
      <4>1. N \in Nat /\ N \in 1..N
        BY <2>2
      <4>. QED  BY ONLY <3>1, <3>2, <4>1, UpTo
    <3>. QED  BY <3>3
  <2>6. ASSUME NEW k \in 1..N, \A m \in 1..(k - 1) : Len(seqs[m]) = L,
               NEW x \in 1..Len(seqs[k])
        PROVE  /\ L * (k - 1) + x \in 1..Len(f[N])
               /\ f[N][L * (k - 1) + x] = seqs[k][x]
    <3>. DEFINE at == L * (k - 1) + x
    <3>1. k = 1 \/ Len(f[k - 1]) = L * (k - 1)
      <4>1. CASE k # 1
        <5>. DEFINE T == {m \in 1..(k - 1) : Len(f[m]) = L * m}
        <5>1. 1 \in T
          BY <2>2, <2>3, <2>6, <4>1
        <5>2. ASSUME NEW m \in 1..((k - 1) - 1), m \in T PROVE m + 1 \in T
          <6>1. m \in Nat /\ m \in 1..(N - 1) /\ m + 1 \in 1..(k - 1)
            BY <2>2
          <6>2. L * (m + 1) = L * m + L
            BY <6>1
          <6>3. Len(f[m]) = L * m /\ Len(f[m + 1]) = Len(f[m]) + Len(seqs[m + 1])
                /\ Len(seqs[m + 1]) = L
            BY <2>3, <2>6, <5>2, <6>1
          <6>. QED  BY <6>1, <6>2, <6>3
        <5>3. k - 1 \in T
          <6>. HIDE DEF T
          <6>1. k - 1 \in Nat /\ k - 1 \in 1..(k - 1)
            BY <4>1
          <6>. QED  BY <5>1, <5>2, <6>1, UpTo
        <5>. QED  BY <5>3
      <4>. QED  BY <4>1
    <3>2. at \in 1..Len(f[k]) /\ f[k][at] = seqs[k][x]
      <4>1. CASE k = 1
        <5>1. L * (k - 1) = 0
          BY <4>1
        <5>. QED  BY <2>3, <4>1, <5>1
      <4>2. CASE k # 1
        <5>1. k - 1 \in 1..(N - 1) /\ (k - 1) + 1 = k /\ k - 1 \in 1..N
          BY <2>2, <4>2
        <5>. DEFINE p == k - 1
        <5>2. Len(f[k]) = Len(f[p]) + Len(seqs[k])
              /\ f[k][Len(f[p]) + x] = seqs[k][x]
          <6>1. p \in 1..(N - 1) /\ p + 1 = k
            BY <5>1
          <6>. HIDE DEF p
          <6>2. /\ Len(f[p + 1]) = Len(f[p]) + Len(seqs[p + 1])
                /\ \A z \in 1..Len(seqs[p + 1]) : f[p + 1][Len(f[p]) + z] = seqs[p + 1][z]
            BY <2>3, <6>1
          <6>. QED  BY <6>1, <6>2
        <5>3. Len(f[k - 1]) = L * (k - 1) /\ Len(f[k - 1]) \in Nat
          BY <2>4, <3>1, <4>2, <5>1
        <5>4. at = Len(f[k - 1]) + x
          BY <5>3
        <5>. HIDE DEF at
        <5>. QED  BY <2>4, <5>2, <5>3, <5>4
      <4>. QED  BY <4>1, <4>2
    <3>. HIDE DEF at
    <3>. DEFINE T == {m \in 1..(N - k + 1) : /\ at \in 1..Len(f[m + k - 1])
                                             /\ f[m + k - 1][at] = seqs[k][x]}
    <3>3. 1 \in T
      BY <2>2, <3>2
    <3>4. ASSUME NEW m \in 1..((N - k + 1) - 1), m \in T PROVE m + 1 \in T
      <4>. DEFINE y == m + k - 1
      <4>1. y \in 1..(N - 1) /\ y \in 1..N /\ y + 1 \in 1..N /\ (m + 1) + k - 1 = y + 1
            /\ m + 1 \in 1..(N - k + 1)
        BY <2>2
      <4>2. at \in 1..Len(f[y]) /\ f[y][at] = seqs[k][x]
        BY <3>4
      <4>. HIDE DEF y
      <4>3. Len(f[y + 1]) = Len(f[y]) + Len(seqs[y + 1]) /\ f[y + 1][at] = f[y][at]
        BY <2>3, <4>1, <4>2
      <4>4. at \in 1..Len(f[y + 1])
        <5>1. Len(f[y]) \in Nat /\ Len(f[y + 1]) \in Nat /\ Len(seqs[y + 1]) \in Nat
          BY <2>4, <4>1
        <5>. DEFINE p == Len(f[y])
                    q == Len(f[y + 1])
                    r == Len(seqs[y + 1])
        <5>2. at \in 1..p /\ q = p + r /\ p \in Nat /\ q \in Nat /\ r \in Nat
          BY <4>2, <4>3, <5>1
        <5>. HIDE DEF p, q, r
        <5>3. at \in 1..q
          BY ONLY <5>2
        <5>. QED  BY <5>3 DEF q
      <4>. QED  BY <4>1, <4>2, <4>3, <4>4
    <3>5. N - k + 1 \in T
      <4>. HIDE DEF T
      <4>1. N - k + 1 \in Nat /\ N - k + 1 \in 1..(N - k + 1)
        BY <2>2
      <4>. QED  BY <3>3, <3>4, <4>1, UpTo
    <3>6. (N - k + 1) + k - 1 = N
      BY <2>2
    <3>7. at \in 1..Len(f[N]) /\ f[N][at] = seqs[k][x]
      BY <3>5, <3>6
    <3>. QED  BY <3>7 DEF at
  <2>7. f[N] \in Seq(Nat)
    BY <2>2, <2>3
  <2>. QED  BY <2>1, <2>5, <2>6, <2>7 DEF N, LaidOut
<1>. QED  BY <1>1, <1>2

-----------------------------------------------------------------------------
(* Numbers, those of a and then those of b. *)
Continues(c, a, b) ==
  /\ c \in Seq(Nat) /\ Len(c) = Len(a) + Len(b)
  /\ \A x \in 1..Len(a) : c[x] = a[x]
  /\ \A x \in 1..Len(b) : c[Len(a) + x] = b[x]

LEMMA Concatenated ==
  ASSUME NEW a \in Seq(Nat), NEW b \in Seq(Nat)
  PROVE  Continues(a \o b, a, b)
BY DEF Continues

LEMMA NameIsSeq ==
  ASSUME NEW n \in Name
  PROVE  n \in Seq(Nat) /\ Len(n) = 4
<1>1. n = [x \in 1..4 |-> n[x]] /\ \A x \in 1..4 : n[x] \in Nat
  BY DEF Name
<1>2. [x \in 1..4 |-> n[x]] \in Seq(Nat) /\ Len([x \in 1..4 |-> n[x]]) = 4
  BY <1>1
<1>. QED  BY <1>1, <1>2

(* What the walk reads of a section is where it reads it. *)
LEMMA SectionLayout ==
  ASSUME NEW s \in SectionType
  PROVE  /\ SectionWords(s) \in Seq(Nat)
         /\ Len(SectionWords(s)) = SectionSize
         /\ \A x \in 1..4 : SectionWords(s)[x] = s.sect[x]
         /\ \A x \in 1..4 : SectionWords(s)[4 + x] = s.seg[x]
         /\ SectionWords(s)[9] = s.field.addr
         /\ SectionWords(s)[10] = s.field.size
<1>. DEFINE a == s.sect
            b == s.seg
            c == <<s.field.addr, s.field.size, 0, s.field.align, 0, 0, s.field.flags, 0, 0>>
<1>1. a \in Seq(Nat) /\ Len(a) = 4 /\ b \in Seq(Nat) /\ Len(b) = 4
  BY NameIsSeq DEF SectionType
<1>2. s.field \in Field
  BY DEF SectionType
<1>3. c \in Seq(Nat) /\ Len(c) = 9 /\ c[1] = s.field.addr /\ c[2] = s.field.size
  BY <1>2 DEF Field
<1>. HIDE DEF a, b, c
<1>. DEFINE p == a \o b
            q == p \o c
<1>4. SectionWords(s) = q
  BY DEF SectionWords, a, b, c
<1>5. Continues(p, a, b)
  BY <1>1, Concatenated
<1>. HIDE DEF p
<1>6. p \in Seq(Nat) /\ Len(p) = 8 /\ \A x \in 1..4 : p[x] = a[x] /\ p[4 + x] = b[x]
  BY <1>1, <1>5 DEF Continues
<1>7. Continues(q, p, c)
  BY <1>3, <1>6, Concatenated
<1>. HIDE DEF q
<1>8. /\ q \in Seq(Nat) /\ Len(q) = 17
      /\ \A x \in 1..8 : q[x] = p[x]
      /\ \A x \in 1..9 : q[8 + x] = c[x]
  <2>1. /\ q \in Seq(Nat) /\ Len(q) = Len(p) + Len(c)
        /\ \A x \in 1..Len(p) : q[x] = p[x]
        /\ \A x \in 1..Len(c) : q[Len(p) + x] = c[x]
    BY <1>7 DEF Continues
  <2>2. Len(p) = 8 /\ Len(c) = 9
    BY <1>3, <1>6
  <2>. QED  BY ONLY <2>1, <2>2
<1>9. \A x \in 1..4 : q[x] = a[x] /\ q[4 + x] = b[x]
  <2>. SUFFICES ASSUME NEW x \in 1..4 PROVE q[x] = a[x] /\ q[4 + x] = b[x]
    OBVIOUS
  <2>1. x \in 1..8 /\ 4 + x \in 1..8
    OBVIOUS
  <2>2. q[x] = p[x] /\ q[4 + x] = p[4 + x]
    BY <1>8, <2>1
  <2>3. p[x] = a[x] /\ p[4 + x] = b[x]
    BY <1>6
  <2>. QED  BY ONLY <2>2, <2>3
<1>10. q[9] = c[1] /\ q[10] = c[2]
  <2>1. 1 \in 1..9 /\ 8 + 1 = 9 /\ 2 \in 1..9 /\ 8 + 2 = 10
    OBVIOUS
  <2>2. q[8 + 1] = c[1] /\ q[8 + 2] = c[2]
    BY <1>8
  <2>. QED  BY <2>1, <2>2
<1>. QED  BY <1>3, <1>4, <1>8, <1>9, <1>10 DEF SectionSize, a, b

(* A command is a segment or it is its words.                              *)
LEMMA CommandKinds ==
  ASSUME NEW c \in CommandType
  PROVE  /\ c.segment => c.name \in Name /\ c.sections \in Seq(SectionType)
         /\ ~c.segment => c.words \in Seq(Nat)
<1>1. CASE c \in [segment : {TRUE}, name : Name, sections : Seq(SectionType)]
  <2>1. c.segment \in {TRUE} /\ c.name \in Name /\ c.sections \in Seq(SectionType)
    BY <1>1
  <2>2. c.segment = TRUE
    BY <2>1, Zenon
  <2>. QED  BY <2>1, <2>2, Zenon
<1>2. CASE c \in [segment : {FALSE}, words : Seq(Nat)]
  <2>1. c.segment \in {FALSE} /\ c.words \in Seq(Nat)
    BY <1>2
  <2>2. c.segment = FALSE
    BY <2>1, Zenon
  <2>. QED  BY <2>1, <2>2, Zenon
<1>. QED  BY <1>1, <1>2, Zenon DEF CommandType

(* So is what it reads of a segment command, and each section after it is  *)
(* a section's size further on.                                            *)
LEMMA SegmentLayout ==
  ASSUME NEW c \in CommandType, c.segment
  PROVE  /\ CommandWords(c) \in Seq(Nat)
         /\ Len(CommandWords(c)) >= SegmentSize
         /\ c.sections = <<>> => Len(CommandWords(c)) = SegmentSize
         /\ CommandWords(c)[1] = MACHO_LC_SEGMENT
         /\ \A x \in 1..4 : CommandWords(c)[2 + x] = c.name[x]
         /\ CommandWords(c)[13] = Len(c.sections)
         /\ \A n \in 1..Len(c.sections), x \in 1..SectionSize :
              /\ SegmentSize + (SectionSize * (n - 1) + x) \in 1..Len(CommandWords(c))
              /\ CommandWords(c)[SegmentSize + (SectionSize * (n - 1) + x)]
                   = SectionWords(c.sections[n])[x]
<1>. DEFINE h == <<MACHO_LC_SEGMENT, 4 * (SegmentSize + SectionSize * Len(c.sections))>>
            a == c.name
            b == <<4096, 4096, 0, 4096, 7, 7>>
            l == <<Len(c.sections), 0>>
            seqs == [k \in 1..Len(c.sections) |-> SectionWords(c.sections[k])]
            F == FlattenSeq(seqs)
<1>1. c.name \in Name /\ c.sections \in Seq(SectionType) /\ Len(c.sections) \in Nat
  <2>1. c.name \in Name /\ c.sections \in Seq(SectionType)
    BY CommandKinds, Zenon
  <2>. QED  BY <2>1
<1>2. a \in Seq(Nat) /\ Len(a) = 4
  BY <1>1, NameIsSeq
<1>3. h \in Seq(Nat) /\ Len(h) = 2 /\ h[1] = MACHO_LC_SEGMENT
  BY <1>1 DEF MACHO_LC_SEGMENT, SegmentSize, SectionSize
<1>4. b \in Seq(Nat) /\ Len(b) = 6
  OBVIOUS
<1>5. l \in Seq(Nat) /\ Len(l) = 2 /\ l[1] = Len(c.sections)
  BY <1>1
<1>6. \A k \in 1..Len(c.sections) : c.sections[k] \in SectionType
  BY <1>1
<1>7. /\ Len(seqs) = Len(c.sections) /\ (Len(seqs) = 0 => seqs = <<>>)
      /\ \A k \in 1..Len(c.sections) : seqs[k] = SectionWords(c.sections[k])
  BY <1>1
<1>8. \A k \in 1..Len(seqs) : seqs[k] \in Seq(Nat) /\ Len(seqs[k]) = SectionSize
  BY <1>6, <1>7, SectionLayout
<1>. HIDE DEF h, a, b, l, seqs, F
<1>9. CommandWords(c) = (((h \o a) \o b) \o l) \o F
  <2>1. CommandWords(c) = IF c.segment THEN (((h \o a) \o b) \o l) \o F ELSE c.words
    BY DEF CommandWords, h, a, b, l, seqs, F
  <2>. QED  BY <2>1, Zenon
<1>. USE DEF F
<1>10. /\ F \in Seq(Nat)
       /\ \A k \in 1..Len(seqs) :
            (\A m \in 1..(k - 1) : Len(seqs[m]) = SectionSize)
              => \A x \in 1..Len(seqs[k]) :
                   /\ SectionSize * (k - 1) + x \in 1..Len(F)
                   /\ F[SectionSize * (k - 1) + x] = seqs[k][x]
  <2>1. Len(seqs) \in Nat /\ SectionSize \in Nat /\ \A k \in 1..Len(seqs) : seqs[k] \in Seq(Nat)
    BY <1>1, <1>7, <1>8 DEF SectionSize
  <2>2. LaidOut(F, seqs, SectionSize)
    BY <1>7, <2>1, Flattened
  <2>. HIDE DEF F
  <2>. QED  BY <2>2 DEF LaidOut
<1>11. c.sections = <<>> => F = <<>>
  BY <1>7 DEF FlattenSeq
<1>12. \A k \in 1..Len(seqs), x \in 1..SectionSize :
         /\ SectionSize * (k - 1) + x \in 1..Len(F)
         /\ F[SectionSize * (k - 1) + x] = seqs[k][x]
  <2>1. \A k \in 1..Len(seqs) : \A m \in 1..(k - 1) : m \in 1..Len(seqs)
    BY <1>1, <1>7
  <2>. QED  BY <1>8, <1>10, <2>1
<1>. HIDE DEF F
<1>. DEFINE p == h \o a
            q == p \o b
            r == q \o l
<1>13. p \in Seq(Nat) /\ Len(p) = 6 /\ p[1] = h[1] /\ \A x \in 1..4 : p[2 + x] = a[x]
  <2>1. Continues(p, h, a)
    BY <1>2, <1>3, Concatenated
  <2>. HIDE DEF p
  <2>. QED  BY <1>2, <1>3, <2>1 DEF Continues
<1>. HIDE DEF p
<1>14. q \in Seq(Nat) /\ Len(q) = 12 /\ \A x \in 1..6 : q[x] = p[x]
  <2>1. Continues(q, p, b)
    BY <1>4, <1>13, Concatenated
  <2>. HIDE DEF q
  <2>. QED  BY <1>4, <1>13, <2>1 DEF Continues
<1>. HIDE DEF q
<1>15. r \in Seq(Nat) /\ Len(r) = 14 /\ (\A x \in 1..12 : r[x] = q[x]) /\ r[13] = l[1]
  <2>1. /\ r \in Seq(Nat) /\ Len(r) = 14 /\ (\A x \in 1..12 : r[x] = q[x])
        /\ \A x \in 1..2 : r[12 + x] = l[x]
    <3>1. Continues(r, q, l)
      BY <1>5, <1>14, Concatenated
    <3>. HIDE DEF r
    <3>. QED  BY <1>5, <1>14, <3>1 DEF Continues
  <2>. HIDE DEF r
  <2>2. 1 \in 1..2 /\ 12 + 1 = 13
    OBVIOUS
  <2>3. r[12 + 1] = l[1]
    BY <2>1
  <2>. QED  BY <2>1, <2>2, <2>3
<1>. HIDE DEF r
<1>. DEFINE t == r \o F
<1>16. /\ t \in Seq(Nat) /\ Len(t) = 14 + Len(F)
       /\ \A x \in 1..14 : t[x] = r[x]
       /\ \A x \in 1..Len(F) : t[14 + x] = F[x]
       /\ Len(F) \in Nat
  <2>1. Continues(t, r, F)
    BY <1>10, <1>15, Concatenated
  <2>. HIDE DEF t
  <2>. QED  BY <1>10, <1>15, <2>1 DEF Continues
<1>. HIDE DEF t
<1>17. CommandWords(c) = t
  BY <1>9 DEF p, q, r, t
<1>18. t[1] = h[1] /\ t[13] = l[1]
  <2>1. 1 \in 1..6 /\ 1 \in 1..12 /\ 1 \in 1..14 /\ 13 \in 1..14
    OBVIOUS
  <2>2. p[1] = h[1] /\ q[1] = p[1] /\ r[1] = q[1] /\ t[1] = r[1]
    BY <1>13, <1>14, <1>15, <1>16, <2>1
  <2>3. r[13] = l[1] /\ t[13] = r[13]
    BY <1>15, <1>16, <2>1
  <2>. QED  BY <2>2, <2>3
<1>19. \A x \in 1..4 : t[2 + x] = a[x]
  <2>. SUFFICES ASSUME NEW x \in 1..4 PROVE t[2 + x] = a[x]
    OBVIOUS
  <2>1. 2 + x \in 1..6 /\ 2 + x \in 1..12 /\ 2 + x \in 1..14
    OBVIOUS
  <2>2. t[2 + x] = r[2 + x]
    BY <1>16, <2>1
  <2>3. r[2 + x] = q[2 + x]
    BY <1>15, <2>1
  <2>4. q[2 + x] = p[2 + x]
    BY <1>14, <2>1
  <2>5. p[2 + x] = a[x]
    BY <1>13
  <2>. QED  BY <2>2, <2>3, <2>4, <2>5
<1>20. ASSUME NEW n \in 1..Len(c.sections), NEW x \in 1..SectionSize
       PROVE  /\ SegmentSize + (SectionSize * (n - 1) + x) \in 1..Len(t)
              /\ t[SegmentSize + (SectionSize * (n - 1) + x)]
                   = SectionWords(c.sections[n])[x]
  <2>. DEFINE at == SectionSize * (n - 1) + x
  <2>1. at \in 1..Len(F) /\ F[at] = SectionWords(c.sections[n])[x]
    BY <1>7, <1>12
  <2>. HIDE DEF at
  <2>2. SegmentSize + at \in 1..Len(t) /\ t[SegmentSize + at] = F[at]
    <3>1. 14 + at \in 1..Len(t)
      <4>1. Len(t) = 14 + Len(F) /\ Len(F) \in Nat
        BY <1>16
      <4>. QED  BY ONLY <2>1, <4>1
    <3>2. t[14 + at] = F[at]
      <4>1. \A y \in 1..Len(F) : t[14 + y] = F[y]
        BY <1>16
      <4>. QED  BY ONLY <2>1, <4>1
    <3>. QED  BY <3>1, <3>2 DEF SegmentSize
  <2>3. /\ SegmentSize + at \in 1..Len(t)
        /\ t[SegmentSize + at] = SectionWords(c.sections[n])[x]
    BY ONLY <2>1, <2>2
  <2>. QED  BY ONLY <2>3 DEF at
<1>21. Len(t) >= SegmentSize /\ (c.sections = <<>> => Len(t) = SegmentSize)
  BY <1>11, <1>16 DEF SegmentSize
<1>. QED
  BY <1>3, <1>5, <1>16, <1>17, <1>18, <1>19, <1>20, <1>21 DEF a

LEMMA CommandIsSeq ==
  ASSUME NEW c \in CommandType
  PROVE  CommandWords(c) \in Seq(Nat)
<1>1. CASE c.segment
  BY <1>1, SegmentLayout
<1>2. CASE ~c.segment
  <2>1. c.words \in Seq(Nat)
    BY <1>2, CommandKinds, Zenon
  <2>2. CommandWords(c) = c.words
    BY <1>2 DEF CommandWords
  <2>. QED  BY <2>1, <2>2
<1>. QED  BY <1>1, <1>2

(* The words of a header are numbers, as many as the commands have at      *)
(* least, and a command is where the walk looks for it when those before   *)
(* it are segments without sections.                                       *)
LEMMA HeaderLayout ==
  ASSUME NEW img \in Images
  PROVE  /\ img \in Header /\ Len(img.cmds) \in Nat
         /\ \A k \in 1..Len(img.cmds) : img.cmds[k] \in CommandType
         /\ Words(img) \in Seq(Nat)
         /\ (\A k \in 1..Len(img.cmds) : Len(CommandWords(img.cmds[k])) >= SegmentSize)
              => Len(Words(img)) >= SegmentSize * Len(img.cmds)
         /\ \A k \in 1..Len(img.cmds) :
              (\A m \in 1..(k - 1) : img.cmds[m].segment /\ img.cmds[m].sections = <<>>)
                => \A x \in 1..Len(CommandWords(img.cmds[k])) :
                     /\ SegmentSize * (k - 1) + x \in 1..Len(Words(img))
                     /\ Words(img)[SegmentSize * (k - 1) + x] = CommandWords(img.cmds[k])[x]
<1>. DEFINE seqs == [k \in 1..Len(img.cmds) |-> CommandWords(img.cmds[k])]
<1>1. img \in Header
  BY MachOAssumption
<1>2. img.cmds \in Seq(CommandType) /\ Len(img.cmds) \in Nat
  BY <1>1 DEF Header
<1>3. \A k \in 1..Len(img.cmds) : img.cmds[k] \in CommandType
  BY <1>2
<1>4. /\ Len(seqs) = Len(img.cmds) /\ (Len(seqs) = 0 => seqs = <<>>)
      /\ \A k \in 1..Len(img.cmds) : seqs[k] = CommandWords(img.cmds[k])
  BY <1>2
<1>5. \A k \in 1..Len(seqs) : seqs[k] \in Seq(Nat)
  BY <1>3, <1>4, CommandIsSeq
<1>6. Words(img) = FlattenSeq(seqs)
  BY DEF Words
<1>. HIDE DEF seqs
<1>7. /\ FlattenSeq(seqs) \in Seq(Nat)
      /\ (\A k \in 1..Len(seqs) : Len(seqs[k]) >= SegmentSize)
           => Len(FlattenSeq(seqs)) >= SegmentSize * Len(seqs)
      /\ \A k \in 1..Len(seqs) :
           (\A m \in 1..(k - 1) : Len(seqs[m]) = SegmentSize)
             => \A x \in 1..Len(seqs[k]) :
                  /\ SegmentSize * (k - 1) + x \in 1..Len(FlattenSeq(seqs))
                  /\ FlattenSeq(seqs)[SegmentSize * (k - 1) + x] = seqs[k][x]
  <2>1. Len(seqs) \in Nat /\ SegmentSize \in Nat
    BY <1>2, <1>4 DEF SegmentSize
  <2>2. LaidOut(FlattenSeq(seqs), seqs, SegmentSize)
    BY <1>4, <1>5, <2>1, Flattened
  <2>. QED  BY <2>2 DEF LaidOut
<1>8. ASSUME NEW k \in 1..Len(img.cmds),
             \A m \in 1..(k - 1) : img.cmds[m].segment /\ img.cmds[m].sections = <<>>
      PROVE  \A m \in 1..(k - 1) : Len(seqs[m]) = SegmentSize
  <2>. SUFFICES ASSUME NEW m \in 1..(k - 1) PROVE Len(seqs[m]) = SegmentSize
    OBVIOUS
  <2>1. m \in 1..Len(img.cmds)
    BY <1>2
  <2>2. img.cmds[m] \in CommandType /\ img.cmds[m].segment /\ img.cmds[m].sections = <<>>
    BY <1>3, <1>8, <2>1
  <2>3. Len(CommandWords(img.cmds[m])) = SegmentSize
    BY <2>2, SegmentLayout, Zenon
  <2>. QED  BY <1>4, <2>1, <2>3
<1>9. ASSUME NEW k \in 1..Len(img.cmds),
             \A m \in 1..(k - 1) : img.cmds[m].segment /\ img.cmds[m].sections = <<>>,
             NEW x \in 1..Len(CommandWords(img.cmds[k]))
      PROVE  /\ SegmentSize * (k - 1) + x \in 1..Len(Words(img))
             /\ Words(img)[SegmentSize * (k - 1) + x] = CommandWords(img.cmds[k])[x]
  <2>1. seqs[k] = CommandWords(img.cmds[k]) /\ k \in 1..Len(seqs)
    BY <1>4
  <2>2. \A m \in 1..(k - 1) : Len(seqs[m]) = SegmentSize
    BY <1>8, <1>9
  <2>3. x \in 1..Len(seqs[k])
    BY <2>1
  <2>4. /\ SegmentSize * (k - 1) + x \in 1..Len(FlattenSeq(seqs))
        /\ FlattenSeq(seqs)[SegmentSize * (k - 1) + x] = seqs[k][x]
    BY <1>7, <2>1, <2>2, <2>3
  <2>. QED  BY <1>6, <2>1, <2>4
<1>10. (\A k \in 1..Len(img.cmds) : Len(CommandWords(img.cmds[k])) >= SegmentSize)
         => Len(Words(img)) >= SegmentSize * Len(img.cmds)
  BY <1>4, <1>6, <1>7
<1>. QED  BY <1>1, <1>2, <1>3, <1>6, <1>7, <1>9, <1>10

-----------------------------------------------------------------------------
(* The sections FindsSection speaks of. *)
Due(s) == s \in Sought /\ InStep(s[1]) /\ FirstOfItsNames(s[1], s[2])

(* How far the walk can be while it has not passed section s by. *)
OnTheWay(s) ==
  /\ pc # "failed"
  /\ pc = "segments" => i < s[1]
  /\ pc = "sections" => i + 1 < s[1] \/ (i + 1 = s[1] /\ j < s[2])
  /\ pc = "found" =>
       LET field == image.cmds[s[1]].sections[s[2]].field
       IN  data = <<field.addr, field.size>>

Pointers ==
  /\ words = Words(image)
  /\ pc = "sections" =>
       /\ i < NumberOfCmds
       /\ Section = Segment + SegmentSize + SectionSize * j

IInv ==
  /\ TypeOK
  /\ Pointers
  /\ \A s : Due(s) => OnTheWay(s)

-----------------------------------------------------------------------------
LEMMA AtType ==
  ASSUME words \in Seq(Nat), NEW w \in Nat
  PROVE  At(w) \in Nat
BY DEF At

(* The name read at w is compared as the name it is. *)
LEMMA MatchesName ==
  ASSUME NEW own, NEW name, NEW w \in Nat,
         \A x \in 1..4 : At(w + x - 1) = own[x]
  PROVE  MatchesAt(w, name) <=> BeginsName(own, name)
<1>1. \A k \in 1..4 : \A m \in 1..(k - 1) : m \in 1..4
  OBVIOUS
<1>. QED  BY <1>1 DEF MatchesAt, BeginsName

(* A name that ends begins itself. *)
LEMMA OwnName ==
  BeginsName(SegmentName, SegmentName) /\ BeginsName(SectionName, SectionName)
<1>1. SegmentName[4] = 0 /\ SectionName[4] = 0 /\ 4 \in 1..4
  BY MachOAssumption
<1>2. <<0, SegmentName[4]>> \in Begins /\ <<0, SectionName[4]>> \in Begins
  <2>1. SegmentName[4] \in {SegmentName[k] : k \in 1..4}
        /\ SectionName[4] \in {SectionName[k] : k \in 1..4}
    BY <1>1
  <2>. QED  BY <2>1, MachOAssumption
<1>. QED  BY <1>1, <1>2 DEF BeginsName

(* What a section to be found is.                                          *)
LEMMA DueIs ==
  ASSUME IInv, NEW s, Due(s)
  PROVE  /\ s[1] \in 1..NumberOfCmds /\ s[2] \in 1..Len(image.cmds[s[1]].sections)
         /\ Len(image.cmds[s[1]].sections) \in Nat
         /\ image.cmds[s[1]] \in CommandType /\ image.cmds[s[1]].segment
         /\ image.cmds[s[1]].name = SegmentName \/ image.FileType = MACHO_OBJECT
         /\ \A m \in 1..(s[1] - 1) : image.cmds[m].segment /\ image.cmds[m].sections = <<>>
         /\ \A n \in 1..Len(image.cmds[s[1]].sections) :
              image.cmds[s[1]].sections[n] \in SectionType
         /\ image.cmds[s[1]].sections[s[2]].seg = SegmentName
         /\ image.cmds[s[1]].sections[s[2]].sect = SectionName
<1>1. /\ s \in (1..NumberOfCmds) \X (1..Len(words))
      /\ image.cmds[s[1]].segment /\ s[2] <= Len(image.cmds[s[1]].sections)
      /\ image.cmds[s[1]].sections[s[2]].seg = SegmentName
      /\ image.cmds[s[1]].sections[s[2]].sect = SectionName
  BY DEF Due, Sought
<1>2. s[1] \in 1..NumberOfCmds /\ s[2] \in 1..Len(words)
  BY <1>1
<1>3. image \in Images
  BY DEF IInv, TypeOK
<1>4. image.cmds[s[1]] \in CommandType
  BY <1>2, <1>3, HeaderLayout DEF NumberOfCmds
<1>5. image.cmds[s[1]].sections \in Seq(SectionType)
  BY <1>1, <1>4, CommandKinds, Zenon
<1>6. Len(image.cmds[s[1]].sections) \in Nat
      /\ \A n \in 1..Len(image.cmds[s[1]].sections) :
           image.cmds[s[1]].sections[n] \in SectionType
  BY <1>5
<1>7. s[2] \in 1..Len(image.cmds[s[1]].sections)
  <2>1. words \in Seq(Nat)
    BY DEF IInv, TypeOK
  <2>. QED  BY <1>1, <1>2, <1>6, <2>1
<1>8. /\ image.cmds[s[1]].name = SegmentName \/ image.FileType = MACHO_OBJECT
      /\ \A m \in 1..(s[1] - 1) : image.cmds[m].segment /\ image.cmds[m].sections = <<>>
  BY DEF Due, InStep
<1>. QED  BY <1>1, <1>2, <1>4, <1>6, <1>7, <1>8

(* Up to the command that s is in, the walk reads the command it counts.   *)
LEMMA ReadsCommand ==
  ASSUME IInv, NEW s, Due(s), NEW k \in 1..s[1],
         NEW x \in 1..Len(CommandWords(image.cmds[k]))
  PROVE  At(SegmentSize * (k - 1) + x - 1) = CommandWords(image.cmds[k])[x]
<1>. DEFINE w == SegmentSize * (k - 1) + x - 1
<1>1. image \in Images /\ words = Words(image)
  BY DEF IInv, TypeOK, Pointers
<1>2. /\ s[1] \in 1..NumberOfCmds
      /\ \A m \in 1..(s[1] - 1) : image.cmds[m].segment /\ image.cmds[m].sections = <<>>
  BY DueIs
<1>3. Len(image.cmds) \in Nat /\ image.cmds[k] \in CommandType
      /\ k \in 1..Len(image.cmds) /\ words \in Seq(Nat)
  <2>1. Len(image.cmds) \in Nat /\ words \in Seq(Nat)
    BY <1>1, HeaderLayout
  <2>2. k \in 1..Len(image.cmds)
    BY <1>2, <2>1 DEF NumberOfCmds
  <2>. QED  BY <1>1, <2>1, <2>2, HeaderLayout
<1>4. \A m \in 1..(k - 1) : image.cmds[m].segment /\ image.cmds[m].sections = <<>>
  BY <1>2, <1>3 DEF NumberOfCmds
<1>5. /\ SegmentSize * (k - 1) + x \in 1..Len(Words(image))
      /\ Words(image)[SegmentSize * (k - 1) + x] = CommandWords(image.cmds[k])[x]
  BY <1>1, <1>3, <1>4, HeaderLayout
<1>6. CommandWords(image.cmds[k]) \in Seq(Nat)
  BY <1>3, CommandIsSeq
<1>7. k - 1 \in Nat /\ x \in Nat /\ x >= 1 /\ SegmentSize * (k - 1) \in Nat
  BY <1>3, <1>6 DEF SegmentSize
<1>. DEFINE b == SegmentSize * (k - 1)
<1>8. w = b + x - 1 /\ b \in Nat /\ b + x \in 1..Len(words)
      /\ words[b + x] = CommandWords(image.cmds[k])[x]
  BY <1>1, <1>5, <1>7
<1>. HIDE DEF b
<1>9. w < Len(words) /\ w + 1 = b + x
  <2>1. Len(words) \in Nat
    BY <1>3
  <2>2. b + x <= Len(words) /\ b \in Nat /\ x \in Nat /\ w = b + x - 1
    BY <1>7, <1>8
  <2>. HIDE DEF w
  <2>. QED  BY ONLY <2>1, <2>2
<1>10. At(w) = words[w + 1]
  <2>. HIDE DEF w
  <2>. QED  BY <1>9 DEF At
<1>. QED  BY <1>8, <1>9, <1>10

(* A command before it is a segment without sections ...                   *)
LEMMA PassesEmpty ==
  ASSUME IInv, NEW s, Due(s), i + 1 < s[1]
  PROVE  NumberOfSections = 0
<1>. DEFINE k == i + 1
<1>1. /\ s[1] \in 1..NumberOfCmds
      /\ \A m \in 1..(s[1] - 1) : image.cmds[m].segment /\ image.cmds[m].sections = <<>>
  BY DueIs
<1>2. i \in Nat /\ NumberOfCmds \in Nat /\ Segment = SegmentSize * i /\ image \in Images
  <2>1. image \in Images /\ i \in 0..NumberOfCmds /\ Segment = i * SegmentSize
    BY DEF IInv, TypeOK
  <2>2. NumberOfCmds \in Nat
    BY <2>1, HeaderLayout DEF NumberOfCmds
  <2>. QED  BY <2>1, <2>2 DEF SegmentSize
<1>3. k \in 1..s[1] /\ k \in 1..(s[1] - 1) /\ k - 1 = i /\ k \in 1..Len(image.cmds)
  BY <1>1, <1>2 DEF NumberOfCmds
<1>. HIDE DEF k
<1>4. image.cmds[k] \in CommandType /\ image.cmds[k].segment /\ image.cmds[k].sections = <<>>
  BY <1>1, <1>2, <1>3, HeaderLayout
<1>5. Len(CommandWords(image.cmds[k])) = SegmentSize /\ CommandWords(image.cmds[k])[13] = 0
  <2>1. Len(CommandWords(image.cmds[k])) = SegmentSize
        /\ CommandWords(image.cmds[k])[13] = Len(image.cmds[k].sections)
    BY <1>4, SegmentLayout, Zenon
  <2>. QED  BY <1>4, <2>1
<1>6. 13 \in 1..Len(CommandWords(image.cmds[k]))
  BY <1>5 DEF SegmentSize
<1>7. At(SegmentSize * (k - 1) + 13 - 1) = 0
  BY <1>3, <1>5, <1>6, ReadsCommand
<1>8. SegmentSize * (k - 1) + 13 - 1 = Segment + 12
  BY <1>2, <1>3 DEF SegmentSize
<1>. QED  BY <1>7, <1>8 DEF NumberOfSections

(* ... and the walk looks inside the one that s is in.                     *)
LEMMA ReadsSegment ==
  ASSUME IInv, NEW s, Due(s), i + 1 = s[1]
  PROVE  IsSegment /\ NumberOfSections = Len(image.cmds[s[1]].sections)
<1>. DEFINE c == image.cmds[s[1]]
            W == CommandWords(c)
<1>1. /\ s[1] \in 1..NumberOfCmds /\ c \in CommandType /\ c.segment
      /\ c.name = SegmentName \/ image.FileType = MACHO_OBJECT
  BY DueIs
<1>2. /\ Len(W) >= SegmentSize /\ W \in Seq(Nat) /\ W[1] = MACHO_LC_SEGMENT
      /\ W[13] = Len(c.sections)
      /\ \A x \in 1..4 : W[2 + x] = c.name[x]
  <2>. HIDE DEF c
  <2>. QED  BY <1>1, SegmentLayout, Zenon
<1>3. i \in Nat /\ NumberOfCmds \in Nat /\ Segment = SegmentSize * i /\ Segment \in Nat
  <2>1. image \in Images /\ i \in 0..NumberOfCmds /\ Segment = i * SegmentSize
    BY DEF IInv, TypeOK
  <2>2. NumberOfCmds \in Nat
    BY <2>1, HeaderLayout DEF NumberOfCmds
  <2>. QED  BY <2>1, <2>2 DEF SegmentSize
<1>4. \A x \in 1..14 : At(Segment + x - 1) = W[x]
  <2>. SUFFICES ASSUME NEW x \in 1..14 PROVE At(Segment + x - 1) = W[x]
    OBVIOUS
  <2>1. s[1] \in 1..s[1] /\ s[1] - 1 = i
    BY <1>1, <1>3
  <2>2. x \in 1..Len(W)
    <3>. HIDE DEF W
    <3>1. Len(W) \in Nat /\ Len(W) >= 14
      BY <1>2 DEF SegmentSize
    <3>. QED  BY <3>1
  <2>3. At(SegmentSize * (s[1] - 1) + x - 1) = W[x]
    BY <2>1, <2>2, ReadsCommand
  <2>. QED  BY <1>3, <2>1, <2>3
<1>. HIDE DEF c, W
<1>5. At(Segment) = MACHO_LC_SEGMENT
  <2>1. At(Segment + 1 - 1) = W[1]
    BY <1>4
  <2>2. Segment + 1 - 1 = Segment
    BY <1>3
  <2>. QED  BY <1>2, <2>1, <2>2
<1>6. At(Segment + 12) = Len(c.sections)
  <2>1. At(Segment + 13 - 1) = W[13]
    BY <1>4
  <2>2. Segment + 13 - 1 = Segment + 12
    BY <1>3
  <2>. QED  BY <1>2, <2>1, <2>2
<1>7. c.name = SegmentName => MatchesAt(Segment + 2, SegmentName)
  <2>1. \A x \in 1..4 : At(Segment + 2 + x - 1) = c.name[x]
    <3>. SUFFICES ASSUME NEW x \in 1..4 PROVE At(Segment + 2 + x - 1) = c.name[x]
      OBVIOUS
    <3>1. 2 + x \in 1..14 /\ Segment + 2 + x - 1 = Segment + (2 + x) - 1
      BY <1>3
    <3>2. At(Segment + (2 + x) - 1) = W[2 + x]
      BY <1>4, <3>1
    <3>. QED  BY <1>2, <3>1, <3>2
  <2>2. Segment + 2 \in Nat
    BY <1>3
  <2>. QED  BY <2>1, <2>2, MatchesName, OwnName
<1>. QED  BY <1>1, <1>5, <1>6, <1>7 DEF IsSegment, NumberOfSections, c

(* There it reads the section it counts, and takes it by its names.        *)
LEMMA ReadsSection ==
  ASSUME IInv, NEW s, Due(s), pc = "sections", i + 1 = s[1], j < s[2]
  PROVE  LET own == image.cmds[s[1]].sections[j + 1]
         IN  /\ IsSection <=> /\ BeginsName(own.seg, SegmentName)
                              /\ BeginsName(own.sect, SectionName)
             /\ At(Section + 8) = own.field.addr /\ At(Section + 9) = own.field.size
<1>. DEFINE c == image.cmds[s[1]]
            own == c.sections[j + 1]
            W == CommandWords(c)
            V == SectionWords(own)
<1>1. /\ s[1] \in 1..NumberOfCmds /\ c \in CommandType /\ c.segment
      /\ s[2] \in 1..Len(c.sections) /\ Len(c.sections) \in Nat
      /\ \A n \in 1..Len(c.sections) : c.sections[n] \in SectionType
  BY DueIs
<1>2. /\ i \in Nat /\ j \in Nat /\ Segment = SegmentSize * i /\ Segment \in Nat
      /\ NumberOfCmds \in Nat /\ Section = Segment + SegmentSize + SectionSize * j
  <2>1. image \in Images /\ i \in 0..NumberOfCmds /\ Segment = i * SegmentSize /\ j \in Nat
        /\ Section = Segment + SegmentSize + SectionSize * j
    BY DEF IInv, TypeOK, Pointers
  <2>2. NumberOfCmds \in Nat
    BY <2>1, HeaderLayout DEF NumberOfCmds
  <2>. QED  BY <2>1, <2>2 DEF SegmentSize
<1>3. j + 1 \in 1..Len(c.sections) /\ (j + 1) - 1 = j
  <2>. HIDE DEF c
  <2>. QED  BY <1>1, <1>2
<1>4. own \in SectionType
  BY <1>1, <1>3
<1>5. \A x \in 1..SectionSize :
        /\ SegmentSize + (SectionSize * j + x) \in 1..Len(W)
        /\ W[SegmentSize + (SectionSize * j + x)] = V[x]
  <2>1. \A n \in 1..Len(c.sections), x \in 1..SectionSize :
          /\ SegmentSize + (SectionSize * (n - 1) + x) \in 1..Len(W)
          /\ W[SegmentSize + (SectionSize * (n - 1) + x)] = SectionWords(c.sections[n])[x]
    <3>. HIDE DEF c
    <3>. QED  BY <1>1, SegmentLayout, Zenon
  <2>2. \A x \in 1..SectionSize :
          /\ SegmentSize + (SectionSize * ((j + 1) - 1) + x) \in 1..Len(W)
          /\ W[SegmentSize + (SectionSize * ((j + 1) - 1) + x)]
               = SectionWords(c.sections[j + 1])[x]
    <3>. HIDE DEF c, W
    <3>. QED  BY <1>3, <2>1, Zenon
  <2>. QED  BY <1>3, <2>2
<1>6. \A x \in 1..17 : At(Section + x - 1) = V[x]
  <2>. SUFFICES ASSUME NEW x \in 1..17 PROVE At(Section + x - 1) = V[x]
    OBVIOUS
  <2>. DEFINE y == SegmentSize + (SectionSize * j + x)
  <2>1. y \in 1..Len(W) /\ W[y] = V[x]
    BY <1>5 DEF SectionSize
  <2>2. s[1] \in 1..s[1] /\ s[1] - 1 = i
    BY <1>1, <1>2
  <2>3. At(SegmentSize * (s[1] - 1) + y - 1) = W[y]
    <3>. HIDE DEF y
    <3>. QED  BY <2>1, <2>2, ReadsCommand
  <2>4. SegmentSize * (s[1] - 1) + y - 1 = Section + x - 1
    BY <1>2, <2>2 DEF SegmentSize, SectionSize
  <2>. QED  BY <2>1, <2>3, <2>4
<1>. HIDE DEF W
<1>7. /\ \A x \in 1..4 : V[x] = own.sect[x]
      /\ \A x \in 1..4 : V[4 + x] = own.seg[x]
      /\ V[9] = own.field.addr /\ V[10] = own.field.size
  <2>. HIDE DEF own
  <2>. QED  BY <1>4, SectionLayout
<1>8. Section \in Nat
  BY <1>2 DEF SegmentSize, SectionSize
<1>. HIDE DEF V, own, c
<1>9. At(Section + 8) = own.field.addr /\ At(Section + 9) = own.field.size
  <2>1. At(Section + 9 - 1) = V[9] /\ At(Section + 10 - 1) = V[10]
    BY <1>6
  <2>2. Section + 9 - 1 = Section + 8 /\ Section + 10 - 1 = Section + 9
    BY <1>8
  <2>. QED  BY <1>7, <2>1, <2>2
<1>10. MatchesAt(Section, SectionName) <=> BeginsName(own.sect, SectionName)
  <2>1. \A x \in 1..4 : At(Section + x - 1) = own.sect[x]
    BY <1>6, <1>7
  <2>. QED  BY <1>8, <2>1, MatchesName
<1>11. MatchesAt(Section + 4, SegmentName) <=> BeginsName(own.seg, SegmentName)
  <2>1. \A x \in 1..4 : At(Section + 4 + x - 1) = own.seg[x]
    <3>. SUFFICES ASSUME NEW x \in 1..4 PROVE At(Section + 4 + x - 1) = own.seg[x]
      OBVIOUS
    <3>1. 4 + x \in 1..17 /\ Section + 4 + x - 1 = Section + (4 + x) - 1
      BY <1>8
    <3>2. At(Section + (4 + x) - 1) = V[4 + x]
      BY <1>6, <3>1
    <3>. QED  BY <1>7, <3>1, <3>2
  <2>2. Section + 4 \in Nat
    BY <1>8
  <2>. QED  BY <2>1, <2>2, MatchesName
<1>. QED  BY <1>9, <1>10, <1>11 DEF IsSection, own, c

(* Among the sections up to s the walk takes s and no other one.           *)
LEMMA TakesOnly ==
  ASSUME IInv, NEW s, Due(s), pc = "sections", i + 1 = s[1], j < s[2]
  PROVE  IsSection <=> j + 1 = s[2]
<1>. DEFINE own == image.cmds[s[1]].sections[j + 1]
<1>1. IsSection <=> BeginsName(own.seg, SegmentName) /\ BeginsName(own.sect, SectionName)
  BY ReadsSection
<1>2. j \in Nat /\ s[2] \in Nat
  <2>1. s[2] \in 1..Len(image.cmds[s[1]].sections) /\ Len(image.cmds[s[1]].sections) \in Nat
    BY DueIs
  <2>. QED  BY <2>1 DEF IInv, TypeOK
<1>3. ASSUME j + 1 = s[2] PROVE IsSection
  <2>1. own.seg = SegmentName /\ own.sect = SectionName
    BY <1>3, DueIs
  <2>. QED  BY <1>1, <2>1, OwnName
<1>4. ASSUME j + 1 # s[2] PROVE ~IsSection
  <2>1. j + 1 \in 1..(s[2] - 1)
    BY <1>2, <1>4
  <2>2. ~(BeginsName(own.seg, SegmentName) /\ BeginsName(own.sect, SectionName))
    BY <2>1 DEF Due, FirstOfItsNames
  <2>. QED  BY <1>1, <2>2
<1>. QED  BY <1>3, <1>4

-----------------------------------------------------------------------------
LEMMA DueKept ==
  ASSUME image' = image, words' = words
  PROVE  \A s : Due(s)' <=> Due(s)
<1>1. NumberOfCmds' = NumberOfCmds
  BY DEF NumberOfCmds
<1>2. Sought' = Sought
  BY <1>1 DEF Sought
<1>. QED  BY <1>1, <1>2 DEF Due, InStep, FirstOfItsNames

LEMMA Start ==
  Init => IInv
<1>. SUFFICES ASSUME Init PROVE IInv
  OBVIOUS
<1>1. image \in Images /\ words = Words(image) /\ pc = "segments" /\ i = 0 /\ Segment = 0
      /\ j = 0 /\ Section = 0 /\ data = <<0, 0>>
  BY DEF Init
<1>2. Len(image.cmds) \in Nat /\ words \in Seq(Nat)
  BY <1>1, HeaderLayout
<1>3. TypeOK
  BY <1>1, <1>2 DEF TypeOK, NumberOfCmds, SegmentSize
<1>4. ASSUME NEW s, Due(s) PROVE OnTheWay(s)
  <2>1. s[1] \in 1..NumberOfCmds /\ NumberOfCmds \in Nat
    BY <1>2, <1>4 DEF Due, Sought, NumberOfCmds
  <2>. QED  BY <1>1, <2>1 DEF OnTheWay
<1>. QED  BY <1>1, <1>3, <1>4 DEF IInv, Pointers

(* Every step of the walk leaves the header, and the counters in range.    *)
LEMMA StepTyped ==
  ASSUME IInv, Next
  PROVE  TypeOK' /\ Pointers' /\ image' = image /\ words' = words
<1>1. /\ image \in Images /\ words \in Seq(Nat) /\ words = Words(image)
      /\ pc \in {"segments", "sections", "found", "failed"}
      /\ i \in 0..NumberOfCmds /\ Segment = i * SegmentSize
      /\ j \in Nat /\ Section \in Nat
      /\ pc = "sections" => j <= NumberOfSections
      /\ data \in Nat \X Nat
      /\ pc = "sections" =>
           /\ i < NumberOfCmds
           /\ Section = Segment + SegmentSize + SectionSize * j
  BY DEF IInv, TypeOK, Pointers
<1>2. NumberOfCmds \in Nat
  BY <1>1, HeaderLayout DEF NumberOfCmds
<1>3. Segment \in Nat
  BY <1>1, <1>2 DEF SegmentSize
<1>4. NumberOfSections \in Nat
  <2>1. words \in Seq(Nat) /\ Segment + 12 \in Nat
    BY <1>1, <1>3
  <2>. QED  BY ONLY <2>1, AtType DEF NumberOfSections
<1>5. ASSUME image' = image PROVE NumberOfCmds' = NumberOfCmds
  BY <1>5 DEF NumberOfCmds
<1>6. ASSUME words' = words, Segment' = Segment PROVE NumberOfSections' = NumberOfSections
  BY <1>6 DEF NumberOfSections, At
<1>7. CASE PassCommand
  BY <1>1, <1>2, <1>5, <1>7 DEF PassCommand, NextSegment, TypeOK, Pointers, SegmentSize
<1>8. CASE EnterSegment
  <2>1. /\ j' = 0 /\ Section' = Segment + SegmentSize /\ pc' = "sections"
        /\ i < NumberOfCmds /\ UNCHANGED <<image, words, i, Segment, data>>
    BY <1>8 DEF EnterSegment
  <2>2. SectionSize * 0 = 0
    BY DEF SectionSize
  <2>. QED
    BY <1>1, <1>3, <1>4, <1>5, <1>6, <2>1, <2>2 DEF TypeOK, Pointers, SegmentSize
<1>9. CASE PassSection
  <2>1. /\ j' = j + 1 /\ Section' = Section + SectionSize
        /\ pc = "sections" /\ j < NumberOfSections
        /\ UNCHANGED <<image, words, pc, i, Segment, data>>
    BY <1>9 DEF PassSection
  <2>2. SectionSize * (j + 1) = SectionSize * j + SectionSize /\ SectionSize * j \in Nat
    BY <1>1 DEF SectionSize
  <2>3. SectionSize \in Nat /\ SegmentSize \in Nat
    BY DEF SectionSize, SegmentSize
  <2>4. Section' = Segment' + SegmentSize + SectionSize * j'
    BY <1>1, <1>3, <2>1, <2>2, <2>3
  <2>5. j' \in Nat /\ Section' \in Nat /\ j' <= NumberOfSections
    BY <1>1, <1>4, <2>1, <2>3
  <2>. QED  BY <1>1, <1>5, <1>6, <2>1, <2>4, <2>5 DEF TypeOK, Pointers
<1>10. CASE FindSection
  <2>1. /\ data' = <<At(Section + 8), At(Section + 9)>> /\ pc' = "found"
        /\ UNCHANGED <<image, words, i, Segment, j, Section>>
    BY <1>10 DEF FindSection
  <2>2. At(Section + 8) \in Nat /\ At(Section + 9) \in Nat
    <3>1. words \in Seq(Nat) /\ Section + 8 \in Nat /\ Section + 9 \in Nat
      BY <1>1
    <3>. QED  BY ONLY <3>1, AtType
  <2>. QED  BY <1>1, <1>5, <2>1, <2>2 DEF TypeOK, Pointers
<1>11. CASE LeaveSegment
  BY <1>1, <1>2, <1>5, <1>11 DEF LeaveSegment, NextSegment, TypeOK, Pointers, SegmentSize
<1>12. CASE NotFound
  BY <1>1, <1>5, <1>12 DEF NotFound, TypeOK, Pointers
<1>13. CASE Over
  BY <1>1, <1>5, <1>13 DEF Over, vars, TypeOK, Pointers
<1>. QED  BY <1>7, <1>8, <1>9, <1>10, <1>11, <1>12, <1>13 DEF Next

(* No step passes a section to be found, or takes another one for it.      *)
LEMMA StepOnTheWay ==
  ASSUME IInv, Next, NEW s, Due(s), image' = image
  PROVE  OnTheWay(s)'
<1>1. OnTheWay(s)
  BY DEF IInv
<1>2. /\ s[1] \in 1..NumberOfCmds /\ s[2] \in 1..Len(image.cmds[s[1]].sections)
      /\ Len(image.cmds[s[1]].sections) \in Nat
  BY DueIs
<1>3. /\ i \in Nat /\ j \in Nat /\ NumberOfCmds \in Nat
      /\ s[1] \in Nat /\ s[2] \in Nat /\ s[2] >= 1 /\ s[1] <= NumberOfCmds
      /\ s[2] <= Len(image.cmds[s[1]].sections)
  <2>1. image \in Images /\ i \in 0..NumberOfCmds /\ j \in Nat
    BY DEF IInv, TypeOK
  <2>2. NumberOfCmds \in Nat
    BY <2>1, HeaderLayout DEF NumberOfCmds
  <2>. QED  BY <1>2, <2>1, <2>2
<1>4. CASE PassCommand
  <2>1. i + 1 # s[1]
    BY <1>4, ReadsSegment DEF PassCommand
  <2>. QED  BY <1>1, <1>3, <1>4, <2>1 DEF PassCommand, NextSegment, OnTheWay
<1>5. CASE EnterSegment
  BY <1>1, <1>3, <1>5 DEF EnterSegment, OnTheWay
<1>6. CASE PassSection
  <2>1. i + 1 = s[1] /\ j < s[2] => j + 1 # s[2]
    BY <1>6, TakesOnly DEF PassSection
  <2>. QED  BY <1>1, <1>3, <1>6, <2>1 DEF PassSection, OnTheWay
<1>7. CASE FindSection
  <2>1. pc = "sections" /\ j < NumberOfSections /\ IsSection /\ pc' = "found"
        /\ data' = <<At(Section + 8), At(Section + 9)>>
    BY <1>7 DEF FindSection
  <2>2. ~(i + 1 < s[1])
    BY <1>3, <2>1, PassesEmpty
  <2>3. i + 1 = s[1] /\ j < s[2]
    BY <1>1, <2>1, <2>2 DEF OnTheWay
  <2>4. j + 1 = s[2]
    BY <2>1, <2>3, TakesOnly
  <2>5. LET own == image.cmds[s[1]].sections[j + 1]
        IN  At(Section + 8) = own.field.addr /\ At(Section + 9) = own.field.size
    BY <2>1, <2>3, ReadsSection
  <2>. QED  BY <2>1, <2>4, <2>5 DEF OnTheWay
<1>8. CASE LeaveSegment
  <2>1. pc = "sections" /\ j >= NumberOfSections /\ i' = i + 1 /\ pc' = "segments"
    BY <1>8 DEF LeaveSegment, NextSegment
  <2>2. ~(i + 1 = s[1] /\ j < s[2])
    <3>. SUFFICES ASSUME i + 1 = s[1], j < s[2] PROVE FALSE
      OBVIOUS
    <3>1. NumberOfSections = Len(image.cmds[s[1]].sections)
      BY ReadsSegment
    <3>. QED  BY <1>2, <1>3, <2>1, <3>1
  <2>. QED  BY <1>1, <1>3, <2>1, <2>2 DEF OnTheWay
<1>9. CASE NotFound
  BY <1>1, <1>3, <1>9 DEF NotFound, OnTheWay
<1>10. CASE Over
  BY <1>1, <1>10 DEF Over, vars, OnTheWay
<1>. QED  BY <1>4, <1>5, <1>6, <1>7, <1>8, <1>9, <1>10 DEF Next

LEMMA Step ==
  IInv /\ [Next]_vars => IInv'
<1>. SUFFICES ASSUME IInv, [Next]_vars PROVE IInv'
  OBVIOUS
<1>1. CASE Next
  <2>1. TypeOK' /\ Pointers' /\ image' = image /\ words' = words
    BY <1>1, StepTyped
  <2>2. ASSUME NEW s, Due(s)' PROVE OnTheWay(s)'
    <3>1. Due(s)
      BY <2>1, <2>2, DueKept
    <3>. QED  BY <1>1, <2>1, <3>1, StepOnTheWay
  <2>. QED  BY <2>1, <2>2 DEF IInv
<1>2. CASE UNCHANGED vars
  <2>1. \A s : Due(s)' <=> Due(s)
    BY <1>2, DueKept DEF vars
  <2>2. \A s : OnTheWay(s)' <=> OnTheWay(s)
    BY <1>2 DEF vars, OnTheWay
  <2>3. TypeOK' /\ Pointers'
    BY <1>2 DEF IInv, vars, TypeOK, Pointers, NumberOfCmds, NumberOfSections, At
  <2>. QED  BY <2>1, <2>2, <2>3 DEF IInv
<1>. QED  BY <1>1, <1>2

(* The invariant of the walk: its pointers keep step with its counters,    *)
(* and no section that is due has been passed by.                          *)
THEOREM Walks ==
  Spec => []IInv
<1>. QED  BY Start, Step, PTL DEF Spec

(* Type correctness of the walk through GetSectionByNameFromHeader.        *)
THEOREM TypeCorrect ==
  Spec => []TypeOK
<1>1. IInv => TypeOK
  BY DEF IInv
<1>. QED  BY <1>1, Walks, PTL

(* A __TEXT,__freeldr that the walk can get to in step is the one          *)
(* GetSectionDataFromHeader returns, with its own address and size.        *)
THEOREM SectionIsFound ==
  Spec => []FindsSection
<1>1. IInv => FindsSection
  <2>. SUFFICES ASSUME IInv, NEW s \in Sought, pc \in {"found", "failed"},
                       InStep(s[1]), FirstOfItsNames(s[1], s[2])
                PROVE  /\ pc = "found"
                       /\ LET field == image.cmds[s[1]].sections[s[2]].field
                          IN  data = <<field.addr, field.size>>
    BY DEF FindsSection
  <2>1. OnTheWay(s)
    BY DEF IInv, Due
  <2>. QED  BY <2>1 DEF OnTheWay
<1>. QED  BY <1>1, Walks, PTL

(* With commands no shorter than a segment command the walk, which steps   *)
(* by the size of one, reads no command beyond the last; and of a segment  *)
(* it got to by empty segments only, the sections that the segment counts. *)
THEOREM WalkStaysInside ==
  Spec => []StaysInside
<1>1. IInv => StaysInside
  <2>. SUFFICES ASSUME IInv PROVE StaysInside
    OBVIOUS
  <2>1. /\ image \in Images /\ words = Words(image) /\ words \in Seq(Nat)
        /\ i \in 0..NumberOfCmds /\ Segment = i * SegmentSize /\ j \in Nat
    BY DEF IInv, TypeOK, Pointers
  <2>2. NumberOfCmds \in Nat /\ Len(words) \in Nat
    BY <2>1, HeaderLayout DEF NumberOfCmds
  <2>3. ASSUME i < NumberOfCmds,
               \A k \in 1..NumberOfCmds : Len(CommandWords(image.cmds[k])) >= SegmentSize
        PROVE  Segment + SegmentSize <= Len(words)
    <3>1. Len(words) >= SegmentSize * NumberOfCmds
      BY <2>1, <2>3, HeaderLayout DEF NumberOfCmds
    <3>. QED  BY <2>1, <2>2, <2>3, <3>1 DEF SegmentSize
  <2>4. ASSUME pc = "sections", j < NumberOfSections, image.cmds[i + 1].segment,
               \A m \in 1..i : image.cmds[m].segment /\ image.cmds[m].sections = <<>>
        PROVE  Section + SectionSize <= Len(words)
    <3>. DEFINE k == i + 1
                c == image.cmds[k]
                W == CommandWords(c)
                b == SegmentSize * i
    <3>1. /\ k \in 1..Len(image.cmds) /\ k - 1 = i /\ i \in Nat /\ b \in Nat
          /\ Segment = b /\ Section = b + SegmentSize + SectionSize * j
      BY <2>1, <2>2, <2>4 DEF IInv, Pointers, NumberOfCmds, SegmentSize
    <3>2. c \in CommandType /\ c.segment
      <4>. HIDE DEF k
      <4>1. image.cmds[k] \in CommandType
        BY <2>1, <3>1, HeaderLayout
      <4>. QED  BY <2>4, <4>1 DEF k
    <3>3. \A x \in 1..Len(W) : b + x \in 1..Len(words) /\ words[b + x] = W[x]
      <4>1. \A m \in 1..(k - 1) : image.cmds[m].segment /\ image.cmds[m].sections = <<>>
        BY <2>4, <3>1
      <4>2. \A x \in 1..Len(CommandWords(image.cmds[k])) :
              /\ SegmentSize * (k - 1) + x \in 1..Len(Words(image))
              /\ Words(image)[SegmentSize * (k - 1) + x] = CommandWords(image.cmds[k])[x]
        <5>. HIDE DEF k
        <5>. QED  BY <2>1, <3>1, <4>1, HeaderLayout
      <4>. QED  BY ONLY <2>1, <3>1, <4>2
    <3>. HIDE DEF W, c, k, b
    <3>4. /\ W \in Seq(Nat) /\ Len(W) >= 14 /\ W[13] = Len(c.sections)
          /\ \A n \in 1..Len(c.sections), x \in 1..SectionSize :
               SegmentSize + (SectionSize * (n - 1) + x) \in 1..Len(W)
      BY <3>2, SegmentLayout DEF W, SegmentSize
    <3>5. NumberOfSections = Len(c.sections)
      <4>1. b + 13 \in 1..Len(words) /\ words[b + 13] = W[13]
        <5>1. 13 \in 1..Len(W)
          BY <3>4
        <5>. QED  BY <3>3, <5>1
      <4>2. b + 12 < Len(words) /\ (b + 12) + 1 = b + 13
        BY <2>2, <3>1, <4>1
      <4>. QED  BY <3>1, <3>4, <4>1, <4>2 DEF NumberOfSections, At
    <3>6. Len(c.sections) \in Nat
      BY <3>2 DEF CommandType
    <3>7. j + 1 \in 1..Len(c.sections) /\ SectionSize \in 1..SectionSize /\ (j + 1) - 1 = j
      BY <2>1, <2>4, <3>5, <3>6 DEF SectionSize
    <3>8. SegmentSize + (SectionSize * ((j + 1) - 1) + SectionSize) \in 1..Len(W)
      BY <3>4, <3>7
    <3>9. b + (SegmentSize + (SectionSize * j + SectionSize)) \in 1..Len(words)
      BY <3>3, <3>7, <3>8
    <3>. QED  BY <2>1, <2>2, <3>1, <3>9 DEF SegmentSize, SectionSize
  <2>. QED  BY <2>3, <2>4 DEF StaysInside
<1>. QED  BY <1>1, Walks, PTL
=============================================================================
