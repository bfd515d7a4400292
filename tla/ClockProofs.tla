------------------------------ MODULE ClockProofs ------------------------------
(***************************************************************************)
(* Proofs about the pause, for every width of the words, every unit and    *)
(* every value of the counter.                                             *)
(*                                                                         *)
(* mseconds is right as long as the units since the first reading fit half *)
(* a word: whatever its two words wrapped around in between comes to a     *)
(* multiple of the word size.  The loop ends while they still do.          *)
(***************************************************************************)
EXTENDS Clock, TLAPS

(* The units a reading of the counter is in. *)
Units(t) == t \div Unit

(* The first reading is a lap, the one for the deadline two laps after the *)
(* call; the loop goes on up to the deadline and ends beyond it.           *)
Deadline(first, second) ==
  /\ l0 = Low(first) /\ h0 = High(first)
  /\ s = Pause + Units(second) - Units(first)
  /\ tsc >= second
  /\ pc = "msleep" => Units(tsc) - Units(first) <= s
  /\ pc = "awake" => Units(tsc) - Units(first) >= s

IInv ==
  /\ TypeOK
  /\ pc = "sleep" => tsc = start
  /\ pc = "rdtsc" =>
       /\ \E a \in Laps : tsc = start + a
       /\ l0 = Low(tsc) /\ h0 = High(tsc)
  /\ pc \in {"msleep", "awake"} =>
       \E a, b \in Laps : Deadline(start + a, start + a + b)

-----------------------------------------------------------------------------
(* Quotient and remainder, as the steps below use them. *)
LEMMA Division ==
  ASSUME NEW n \in Nat, NEW k \in Nat \ {0}
  PROVE  /\ n \div k \in Nat /\ n % k \in Nat /\ n % k < k
         /\ n = k * (n \div k) + (n % k)
OBVIOUS

(* There is one quotient and one remainder. *)
LEMMA Quotient ==
  ASSUME NEW n \in Int, NEW q \in Int, NEW r \in Int, NEW k \in Nat,
         0 <= r, r < k, n = q * k + r
  PROVE  n \div k = q /\ n % k = r
OBVIOUS

(* The words of a reading and its units: the high word's shift makes up    *)
(* for all but the turns of the high word.                                 *)
LEMMA WordsOf ==
  ASSUME NEW t \in Nat
  PROVE  /\ Low(t) \in 0..(WordSize - 1) /\ High(t) \in 0..(WordSize - 1)
         /\ Low(t) \div Unit \in Nat /\ Units(t) \in Nat
         /\ \E x \in Nat :
              Units(t) = WordSize * x + High(t) * HighUnits + (Low(t) \div Unit)
<1>. DEFINE W == WordSize
            H == HighUnits
            q == t \div W
            r == t % W
            x == q \div W
            y == q % W
            a == r \div Unit
            b == r % Unit
<1>1. W \in Nat \ {0} /\ Unit \in Nat \ {0} /\ H \in Nat /\ W = H * Unit
  BY ClockAssumption, Division DEF HighUnits
<1>2. q \in Nat /\ r \in Nat /\ r < W /\ t = W * q + r
  BY <1>1, Division
<1>3. x \in Nat /\ y \in Nat /\ y < W /\ q = W * x + y
  BY <1>1, <1>2, Division
<1>4. a \in Nat /\ b \in Nat /\ b < Unit /\ r = Unit * a + b
  BY <1>1, <1>2, Division
<1>5. Low(t) = r /\ High(t) = y
  BY DEF Low, High
<1>. HIDE DEF W, H, q, r, x, y, a, b
<1>6. t = (H * q + a) * Unit + b
  BY <1>1, <1>2, <1>4
<1>7. t \div Unit = H * q + a
  BY <1>1, <1>2, <1>4, <1>6, Quotient, H * q + a \in Int
<1>8. H * q = W * (H * x) + y * H
  BY <1>1, <1>3
<1>9. H * x \in Nat
  BY <1>1, <1>3
<1>10. t \div Unit = W * (H * x) + y * H + a
  BY <1>1, <1>7, <1>8
<1>11. \E z \in Nat : t \div Unit = W * z + y * H + a
  BY <1>9, <1>10
<1>12. t \div Unit \in Nat /\ Low(t) \div Unit = a
  BY <1>1, <1>5, Division DEF a
<1>13. \E z \in Nat :
         Units(t) = WordSize * z + High(t) * HighUnits + (Low(t) \div Unit)
  BY <1>5, <1>11, <1>12, Zenon DEF Units, W, H
<1>14. Low(t) \in 0..(WordSize - 1) /\ High(t) \in 0..(WordSize - 1)
  BY <1>1, <1>2, <1>3, <1>5 DEF W
<1>15. Low(t) \div Unit \in Nat /\ Units(t) \in Nat
  BY <1>4, <1>12, Zenon DEF Units
<1>. QED  BY <1>13, <1>14, <1>15, Zenon

(* mseconds returns the units since the first reading while they fit an    *)
(* int, wherever the words have wrapped around.                            *)
LEMMA Elapsed ==
  ASSUME NEW first \in Nat, NEW t \in Nat, l0 = Low(first), h0 = High(first),
         Units(t) >= Units(first), 2 * (Units(t) - Units(first)) < WordSize
  PROVE  mseconds(t) = Units(t) - Units(first)
<1>. DEFINE W == WordSize
            H == HighUnits
            y == High(t)
            a == Low(t) \div Unit
            y0 == High(first)
            a0 == Low(first) \div Unit
            u == Units(t)
            v == Units(first)
            d == Units(t) - Units(first)
            sum == (y + W - y0) * H + a + W - a0
<1>1. W \in Nat \ {0} /\ H \in Nat
  BY ClockAssumption, Division DEF HighUnits
<1>2. PICK x \in Nat : Units(t) = W * x + y * H + a
  BY WordsOf
<1>3. PICK x0 \in Nat : Units(first) = W * x0 + y0 * H + a0
  BY WordsOf
<1>4. y \in 0..(W - 1) /\ a \in Nat /\ y0 \in 0..(W - 1) /\ a0 \in Nat
  BY WordsOf
<1>5. d \in Nat /\ 2 * d < W
  <2>1. u \in Nat
    BY WordsOf
  <2>2. v \in Nat
    BY WordsOf
  <2>3. u >= v /\ d = u - v /\ 2 * d < W
    OBVIOUS
  <2>. HIDE DEF u, v, d
  <2>. QED  BY ONLY <2>1, <2>2, <2>3
<1>6. mseconds(t) = AsInt(sum % W)
  BY DEF mseconds
<1>7. d = u - v /\ u = W * x + y * H + a /\ v = W * x0 + y0 * H + a0
  BY <1>2, <1>3, Zenon
<1>. HIDE DEF W, H, y, a, y0, a0, u, v, d, sum
<1>8. y * H \in Int /\ y0 * H \in Int /\ W * x \in Int /\ W * x0 \in Int /\ W * H \in Int
  BY <1>1, <1>4
<1>9. (y + W - y0) * H = y * H + W * H - y0 * H
  BY <1>1, <1>4
<1>10. sum = d + W * x0 - W * x + W * H + W
  BY <1>1, <1>4, <1>7, <1>8, <1>9 DEF sum
<1>11. d + W * x0 - W * x + W * H + W = (x0 - x + H + 1) * W + d
  BY <1>1, <1>5
<1>12. sum \in Int /\ x0 - x + H + 1 \in Int /\ sum = (x0 - x + H + 1) * W + d
  BY <1>1, <1>5, <1>8, <1>10, <1>11
<1>13. sum % W = d
  BY <1>1, <1>5, <1>12, Quotient
<1>14. AsInt(d) = d
  BY <1>5 DEF AsInt, W
<1>. QED  BY <1>6, <1>13, <1>14, Zenon DEF d

(* The units of a later reading. *)
LEMMA UnitsAdvance ==
  ASSUME NEW t \in Nat, NEW lap \in Nat
  PROVE  Units(t + lap) \in Units(t)..(Units(t) + (lap \div Unit) + 1)
<1>. DEFINE q == t \div Unit
            r == t % Unit
            k == lap \div Unit
            j == lap % Unit
            z == (t + lap) \div Unit
            w == (t + lap) % Unit
            U == Unit
<1>1. U \in Nat \ {0}
  BY ClockAssumption
<1>2. q \in Nat /\ r \in Nat /\ r < U /\ t = U * q + r
  BY <1>1, Division
<1>3. k \in Nat /\ j \in Nat /\ j < U /\ lap = U * k + j
  BY <1>1, Division
<1>4. z \in Nat /\ w \in Nat /\ w < U /\ t + lap = U * z + w
  BY <1>1, Division
<1>. HIDE DEF q, r, k, j, z, w, U
<1>5. U * (z - (q + k)) = r + j - w
  BY <1>1, <1>2, <1>3, <1>4
<1>6. z >= q
  <2>1. U * (z - q) > -U
    BY <1>1, <1>2, <1>3, <1>4
  <2>. QED  BY <1>1, <1>2, <1>4, <2>1
<1>7. z <= q + k + 1
  <2>1. U * (z - (q + k)) < U * 2
    BY <1>1, <1>2, <1>3, <1>4, <1>5
  <2>2. z - (q + k) < 2
    BY <1>1, <1>2, <1>3, <1>4, <2>1
  <2>. QED  BY <1>2, <1>3, <1>4, <2>2
<1>8. z \in q..(q + k + 1)
  BY <1>2, <1>3, <1>4, <1>6, <1>7
<1>. QED  BY <1>8, Zenon DEF q, k, z, Units

(* A difference of units is one of cycles, up to a unit. *)
LEMMA UnitsApart ==
  ASSUME NEW t \in Nat, NEW u \in Nat
  PROVE  /\ t - u > (Units(t) - Units(u) - 1) * Unit
         /\ t - u < (Units(t) - Units(u) + 1) * Unit
<1>. DEFINE q == t \div Unit
            r == t % Unit
            k == u \div Unit
            j == u % Unit
            U == Unit
<1>1. U \in Nat \ {0}
  BY ClockAssumption
<1>2. q \in Nat /\ r \in Nat /\ r < U /\ t = U * q + r
  BY <1>1, Division
<1>3. k \in Nat /\ j \in Nat /\ j < U /\ u = U * k + j
  BY <1>1, Division
<1>. HIDE DEF q, r, k, j, U
<1>4. t - u > (q - k - 1) * U /\ t - u < (q - k + 1) * U
  BY <1>1, <1>2, <1>3
<1>. QED  BY <1>4, Zenon DEF q, k, U, Units

-----------------------------------------------------------------------------
(* The step that sets the deadline. *)
LEMMA SettingDeadline ==
  ASSUME IInv, NEW lap \in Laps, SetDeadline(lap)
  PROVE  IInv'
<1>1. PICK a \in Laps : tsc = start + a
  BY DEF IInv, SetDeadline
<1>2. /\ tsc \in Nat /\ start \in Nat /\ a \in Nat /\ lap \in Nat /\ start \in Starts
      /\ WordSize \in Nat /\ Pause \in Nat
      /\ tsc' = tsc + lap /\ start' = start /\ l0' = l0 /\ h0' = h0
      /\ l0 = Low(tsc) /\ h0 = High(tsc)
      /\ s' = Pause + mseconds(tsc') /\ pc' = "msleep"
  BY ClockAssumption DEF IInv, TypeOK, SetDeadline
<1>. DEFINE u == Units(tsc)
            v == Units(tsc')
            k == lap \div Unit
<1>3. u \in Nat /\ v \in Nat /\ v \in u..(u + k + 1)
  BY <1>2, WordsOf, UnitsAdvance
<1>4. k \in Nat /\ 2 * (Pause + 3 + 2 * k) < WordSize
  BY <1>2, ClockAssumption, Division
<1>. HIDE DEF u, v, k
<1>5. v >= u /\ 2 * (v - u) < WordSize /\ 2 * (Pause + (v - u)) \in 0..(WordSize - 1)
  BY <1>2, <1>3, <1>4
<1>6. mseconds(tsc') = v - u
  BY <1>2, <1>5, Elapsed DEF u, v
<1>7. s' = Pause + v - u /\ 2 * s' \in 0..(WordSize - 1)
  BY <1>2, <1>3, <1>5, <1>6
<1>8. TypeOK'
  BY <1>2, <1>7 DEF IInv, TypeOK
<1>9. Deadline(start + a, start + a + lap)'
  <2>1. start' + a = tsc /\ start' + a + lap = tsc'
    BY <1>1, <1>2
  <2>2. v - u <= s'
    BY <1>2, <1>3, <1>7
  <2>3. tsc' >= tsc'
    BY <1>2
  <2>. QED  BY <1>2, <1>7, <2>1, <2>2, <2>3, Zenon DEF Deadline, u, v
<1>. QED  BY <1>2, <1>8, <1>9 DEF IInv

(* A turn of the loop. *)
LEMMA Polling ==
  ASSUME IInv, NEW lap \in Laps, Poll(lap)
  PROVE  IInv'
<1>1. PICK a \in Laps, b \in Laps : Deadline(start + a, start + a + b)
  BY DEF IInv, Poll
<1>. DEFINE first == start + a
            second == start + a + b
            u == Units(first)
            v == Units(second)
            w == Units(tsc)
            z == Units(tsc')
            k == lap \div Unit
            j == b \div Unit
<1>2. /\ tsc \in Nat /\ start \in Nat /\ a \in Nat /\ b \in Nat /\ lap \in Nat
      /\ WordSize \in Nat /\ Pause \in Nat
      /\ tsc' = tsc + lap /\ UNCHANGED <<start, l0, h0, s>>
      /\ pc = "msleep"
      /\ pc' = IF mseconds(tsc') < s THEN "msleep" ELSE "awake"
  BY ClockAssumption DEF IInv, TypeOK, Poll, StillWaits
<1>3. /\ l0 = Low(first) /\ h0 = High(first)
      /\ s = Pause + v - u /\ tsc >= second /\ w - u <= s
  BY <1>1, <1>2 DEF Deadline
<1>4. first \in Nat /\ second \in Nat /\ tsc' \in Nat /\ second = first + b
  BY <1>2
<1>5. u \in Nat /\ v \in u..(u + j + 1)
  BY <1>2, <1>4, WordsOf, UnitsAdvance
<1>6. w \in Nat /\ z \in w..(w + k + 1)
  BY <1>2, WordsOf, UnitsAdvance
<1>7. w >= u
  <2>1. tsc - second \in Nat /\ tsc = second + (tsc - second)
    BY <1>2, <1>3, <1>4
  <2>2. w \in v..(v + ((tsc - second) \div Unit) + 1)
    BY <1>4, <2>1, UnitsAdvance
  <2>3. w >= v /\ v \in Nat
    BY <1>6, <2>2, <1>4, WordsOf
  <2>. QED  BY <1>5, <1>6, <2>3
<1>8. /\ k \in Nat /\ 2 * (Pause + 3 + 2 * k) < WordSize
      /\ j \in Nat /\ 2 * (Pause + 3 + 2 * j) < WordSize
  BY <1>2, ClockAssumption, Division
<1>. HIDE DEF first, second, u, v, w, z, k, j
<1>9. z >= u /\ z - u <= Pause + j + k + 2
  BY <1>2, <1>3, <1>5, <1>6, <1>7, <1>8
<1>10. 2 * (z - u) < WordSize
  BY <1>2, <1>5, <1>6, <1>8, <1>9
<1>11. mseconds(tsc') = z - u
  BY <1>3, <1>4, <1>9, <1>10, Elapsed DEF u, z
<1>12. /\ pc' = "msleep" => z - u <= s
       /\ pc' = "awake" => z - u >= s
       /\ pc' \in {"msleep", "awake"}
       /\ tsc' >= second
  BY <1>2, <1>3, <1>4, <1>5, <1>6, <1>11
<1>13. Deadline(start + a, start + a + b)'
  <2>1. (start + a)' = first /\ (start + a + b)' = second
    BY <1>2, Zenon DEF first, second
  <2>. QED  BY <1>2, <1>3, <1>12, <2>1, Zenon DEF Deadline, u, v, z
<1>14. TypeOK'
  BY <1>2, <1>4, <1>12 DEF IInv, TypeOK
<1>. QED  BY <1>2, <1>12, <1>13, <1>14 DEF IInv

(* The invariant holds when sleep is called ... *)
LEMMA InitIInv == Init => IInv
<1>. SUFFICES ASSUME Init PROVE IInv
  OBVIOUS
<1>1. WordSize \in Nat \ {0} /\ start \in Nat
  BY ClockAssumption DEF Init
<1>. QED  BY <1>1 DEF Init, IInv, TypeOK

(* ... and no step leaves it. *)
LEMMA NextIInv == IInv /\ [Next]_vars => IInv'
<1>. SUFFICES ASSUME IInv, [Next]_vars PROVE IInv'
  OBVIOUS
<1>1. ASSUME NEW lap \in Laps, FirstReading(lap) PROVE IInv'
  <2>1. /\ lap \in Nat /\ start \in Nat /\ tsc = start /\ start' = start /\ s' = s
        /\ tsc' = start + lap /\ l0' = Low(tsc') /\ h0' = High(tsc') /\ pc' = "rdtsc"
    BY <1>1, ClockAssumption DEF IInv, TypeOK, FirstReading
  <2>2. tsc' \in Nat
    BY <2>1
  <2>3. l0' \in 0..(WordSize - 1) /\ h0' \in 0..(WordSize - 1)
    BY <2>1, <2>2, WordsOf
  <2>4. TypeOK'
    BY <2>1, <2>2, <2>3 DEF IInv, TypeOK
  <2>. QED  BY <2>1, <2>4 DEF IInv, Low, High
<1>2. ASSUME NEW lap \in Laps, SetDeadline(lap) PROVE IInv'
  BY <1>2, SettingDeadline
<1>3. ASSUME NEW lap \in Laps, Poll(lap) PROVE IInv'
  BY <1>3, Polling
<1>4. CASE UNCHANGED vars
  BY <1>4 DEF vars, IInv, TypeOK, Deadline, Low, High
<1>. QED  BY <1>1, <1>2, <1>3, <1>4 DEF Next, Awake

(* In every behaviour of sleep, wherever the counter started. *)
THEOREM Timed == Spec => []IInv
<1>. QED  BY InitIInv, NextIInv, PTL DEF Spec

(* The deadline fits an int, twice over, and the words fit their           *)
(* registers.                                                              *)
THEOREM TypeCorrect == Spec => []TypeOK
<1>1. IInv => TypeOK
  BY DEF IInv
<1>. QED  BY <1>1, Timed, PTL

(* The units between the call and the reading the loop ends with: a pause  *)
(* is as long as asked for, up to the unit it is counted in.               *)
THEOREM SleepIsLongEnough == Spec => []SleepsLongEnough
<1>1. IInv => SleepsLongEnough
  <2>. SUFFICES ASSUME IInv, pc = "awake" PROVE tsc - start > (Pause - 1) * Unit
    BY DEF SleepsLongEnough
  <2>1. PICK a \in Laps, b \in Laps : Deadline(start + a, start + a + b)
    BY DEF IInv
  <2>. DEFINE second == start + a + b
              v == Units(second)
              w == Units(tsc)
  <2>2. /\ tsc \in Nat /\ start \in Nat /\ a \in Nat /\ b \in Nat
        /\ Unit \in Nat \ {0} /\ Pause \in Nat /\ second \in Nat /\ start + a \in Nat
    BY ClockAssumption DEF IInv, TypeOK
  <2>3. v \in Nat /\ w \in Nat /\ Units(start + a) \in Nat
    BY <2>2, WordsOf
  <2>4. w - v >= Pause
    BY <2>1, <2>2, <2>3 DEF Deadline
  <2>5. tsc - second > (w - v - 1) * Unit
    BY <2>2, UnitsApart
  <2>6. tsc - start >= tsc - second
    BY <2>2
  <2>. HIDE DEF second, v, w
  <2>7. (w - v - 1) * Unit >= (Pause - 1) * Unit
    BY <2>2, <2>3, <2>4
  <2>. QED  BY <2>2, <2>3, <2>5, <2>6, <2>7
<1>. QED  BY <1>1, Timed, PTL

(* While the loop goes on, less than the pause and a unit has passed since *)
(* the second reading.                                                     *)
THEOREM SleepEndsInTime == Spec => []WakesInTime
<1>1. IInv => WakesInTime
  <2>. SUFFICES ASSUME IInv, pc = "msleep" PROVE WakesInTime
    BY DEF WakesInTime
  <2>1. PICK a \in Laps, b \in Laps : Deadline(start + a, start + a + b)
    BY DEF IInv
  <2>. DEFINE second == start + a + b
              v == Units(second)
              w == Units(tsc)
  <2>2. /\ tsc \in Nat /\ start \in Nat /\ a \in Nat /\ b \in Nat
        /\ Unit \in Nat \ {0} /\ Pause \in Nat /\ second \in Nat /\ start + a \in Nat
    BY ClockAssumption DEF IInv, TypeOK
  <2>3. v \in Nat /\ w \in Nat /\ Units(start + a) \in Nat
    BY <2>2, WordsOf
  <2>4. w - v <= Pause
    BY <2>1, <2>2, <2>3 DEF Deadline
  <2>5. tsc - second < (w - v + 1) * Unit
    BY <2>2, UnitsApart
  <2>6. tsc - start = (tsc - second) + (a + b)
    BY <2>2
  <2>7. second \in Nat
    BY <2>2
  <2>. HIDE DEF second, v, w
  <2>8. (w - v + 1) * Unit <= (Pause + 1) * Unit
    BY <2>2, <2>3, <2>4
  <2>9. tsc - start < (Pause + 1) * Unit + (a + b)
    BY <2>2, <2>3, <2>5, <2>6, <2>7, <2>8
  <2>. QED  BY <2>9 DEF WakesInTime
<1>. QED  BY <1>1, Timed, PTL
=============================================================================
