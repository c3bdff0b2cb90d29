---------------------------- MODULE ServoWireProofs ----------------------------
(***************************************************************************)
(* The conversions of ServoWire for every angle and every damage: what the *)
(* host and the firmware make of an angle, what the loops of the CRC       *)
(* calculate, that a packet is accepted and gives back what was put into   *)
(* it, that damage shows, and from these the properties of a round trip.   *)
(***************************************************************************)
EXTENDS ServoWire, SequenceTheorems, WellFoundedInduction, TLAPS

(* A prover takes an interval between two numbers apart, value by value:   *)
(* the steps below know an interval or the numbers, never both.            *)
LEMMA Constants ==
  /\ Unit = 4
  /\ Pi = 125663
  /\ TwoPi = 251327
  /\ MaxRaw = 65535
BY DEF Unit, Pi, TwoPi, MaxRaw

LEMMA ReachableIs ==
  ASSUME NEW x
  PROVE  x \in Reachable <=> x \in Int /\ 0 <= x /\ x <= Pi
<1>1. Pi \in Int
  BY DEF Pi
<1> QED
  BY <1>1 DEF Reachable

LEMMA RawIs ==
  ASSUME NEW x
  PROVE  x \in Raw <=> x \in Int /\ 0 <= x /\ x <= MaxRaw
<1>1. MaxRaw \in Int
  BY DEF MaxRaw
<1> QED
  BY <1>1 DEF Raw

(* What the host makes of a command.                                       *)
LEMMA CommandValue ==
  ASSUME NEW angle \in Int
  PROVE  /\ angle <= 0 => encodeCommandAngle(angle) = 0
         /\ 0 < angle /\ angle < TwoPi => encodeCommandAngle(angle) = (angle + 2) \div 4
         /\ encodeCommandAngle(angle) \in Raw
<1> DEFINE clipped == Clip(0, fmod(angle, TwoPi), TwoPi)
<1>1. clipped \in Int /\ 0 <= clipped /\ clipped <= TwoPi
  BY Constants DEF Clip, fmod
<1>2. angle <= 0 => clipped = 0
  BY Constants DEF Clip, fmod
<1>3. 0 < angle /\ angle < TwoPi => clipped = angle
  BY Constants DEF Clip, fmod
<1>4. encodeCommandAngle(angle) = (clipped + 2) \div 4
  <2>1. encodeCommandAngle(angle) = RoundToRaw(clipped)
    BY DEF encodeCommandAngle
  <2> HIDE DEF clipped
  <2>2. RoundToRaw(clipped) = (clipped + 2) \div 4
    BY <1>1, Constants DEF RoundToRaw
  <2> QED
    BY <2>1, <2>2
<1> HIDE DEF clipped
<1> QED
  BY <1>1, <1>2, <1>3, <1>4, RawIs, Constants

(* A command below a full turn reaches the firmware as the nearest place   *)
(* the servo can take, to half a unit of the protocol.                     *)
LEMMA AngleKept ==
  ASSUME NEW angle \in Int, angle < TwoPi
  PROVE  Within(scaleAndClip(encodeCommandAngle(angle)), Clip(0, angle, Pi), Unit \div 2)
<1>1. CASE angle <= 0
  BY <1>1, CommandValue, Constants DEF scaleAndClip, Clip, Within
<1>2. CASE angle > 0
  BY <1>2, CommandValue, Constants DEF scaleAndClip, Clip, Within
<1> QED
  BY <1>1, <1>2

(* What the firmware publishes of a position fits into sixteen bits, and   *)
(* the host reads it at most one unit too low.                             *)
LEMMA PositionKept ==
  ASSUME NEW angle \in Reachable, NEW falls \in BOOLEAN
  PROVE  /\ publishedRaw(angle, falls) \in Raw
         /\ angle - publishedRaw(angle, falls) * Unit \in 0 .. Unit
<1>1. angle \in Int /\ 0 <= angle /\ angle <= Pi
  BY ReachableIs
<1>2. publishedRaw(angle, falls) \in Int /\ 0 <= publishedRaw(angle, falls)
      /\ publishedRaw(angle, falls) <= MaxRaw
  BY <1>1, Constants DEF publishedRaw
<1>3. angle - publishedRaw(angle, falls) * Unit \in 0 .. Unit
  BY <1>1, Constants DEF publishedRaw
<1> QED
  BY <1>2, <1>3, RawIs

LEMMA TargetInRange ==
  ASSUME NEW raw \in Raw
  PROVE  scaleAndClip(raw) \in Reachable
<1>1. raw \in Int
  BY RawIs
<1>2. scaleAndClip(raw) \in Int /\ 0 <= scaleAndClip(raw) /\ scaleAndClip(raw) <= Pi
  BY <1>1, Constants DEF scaleAndClip, Clip
<1> QED
  BY <1>2, ReachableIs

(* A command further round gives a target that is no less far.             *)
LEMMA TargetMonotone ==
  ASSUME NEW a \in Int, NEW b \in Int, a <= b, b < TwoPi
  PROVE  scaleAndClip(encodeCommandAngle(a)) <= scaleAndClip(encodeCommandAngle(b))
<1>1. ASSUME NEW m \in Int, NEW n \in Int, m <= n PROVE scaleAndClip(m) <= scaleAndClip(n)
  BY <1>1, Constants DEF scaleAndClip, Clip
<1>2. encodeCommandAngle(a) \in Int /\ encodeCommandAngle(b) \in Int
  BY CommandValue, RawIs
<1>3. 0 <= encodeCommandAngle(b)
  BY CommandValue, RawIs
<1>4. encodeCommandAngle(a) <= encodeCommandAngle(b)
  BY <1>2, <1>3, CommandValue, Constants
<1> QED
  BY <1>1, <1>2, <1>4

(* Pulses are within the servo's range, and as long as the angles are far. *)
LEMMA PulseInRange ==
  ASSUME NEW angle \in Reachable
  PROVE  anglesToDutyCycle(angle) \in Pulse
<1>1. ShortestPulse = 409 /\ LongestPulse = 2048
  BY DEF ShortestPulse, LongestPulse
<1>2. /\ anglesToDutyCycle(angle) \in Int
      /\ ShortestPulse <= anglesToDutyCycle(angle)
      /\ anglesToDutyCycle(angle) <= LongestPulse
  BY <1>1, ReachableIs, Constants DEF anglesToDutyCycle, Clip
<1>3. ShortestPulse \in Int /\ LongestPulse \in Int
  BY <1>1
<1> QED
  BY <1>2, <1>3 DEF Pulse

LEMMA PulseMonotone ==
  ASSUME NEW a \in Reachable, NEW b \in Reachable, a <= b
  PROVE  anglesToDutyCycle(a) <= anglesToDutyCycle(b)
BY ReachableIs, Constants DEF anglesToDutyCycle, Clip

-----------------------------------------------------------------------------
(* Recursion.  The library's induction takes an operator as a parameter;   *)
(* here a set stands for it: a set of numbers that holds the first one and *)
(* with each its successor holds all, or else there is a least one that it *)
(* does not hold.                                                          *)
LEMMA Least ==
  ASSUME NEW T, T \subseteq Nat, T # {}
  PROVE  \E x \in T : \A y \in T : ~ (y < x)
<1> DEFINE R == OpToRel(<, Nat)
<1>1. IsWellFoundedOn(R, Nat)
  BY NatLessThanWellFounded
<1>2. \E x \in T : \A y \in T : ~ (<<y, x>> \in R)
  <2> HIDE DEF R
  <2> QED
    BY <1>1, WFMin
<1>3. \A x, y \in Nat : y < x => <<y, x>> \in R
  BY DEF OpToRel
<1> QED
  BY <1>2, <1>3

(* The same for all numbers, and for those up to N.                        *)
LEMMA Induction ==
  ASSUME NEW T, 0 \in T, \A n \in Nat : n \in T => n + 1 \in T
  PROVE  Nat \subseteq T
<1> SUFFICES ASSUME Nat \ T # {} PROVE FALSE
  OBVIOUS
<1>1. PICK x \in Nat \ T : \A y \in Nat \ T : ~ (y < x)
  BY Least
<1>2. x # 0 /\ x - 1 \in Nat /\ x - 1 < x
  BY <1>1
<1>3. x - 1 \in T
  BY <1>1, <1>2
<1>4. (x - 1) + 1 = x
  BY <1>1
<1> QED
  BY <1>1, <1>2, <1>3, <1>4

LEMMA InductionTo ==
  ASSUME NEW N \in Nat, NEW T, 0 \in T, \A n \in 1 .. N : n - 1 \in T => n \in T
  PROVE  0 .. N \subseteq T
<1> DEFINE U == {n \in Nat : n <= N => n \in T}
<1>1. 0 \in U
  OBVIOUS
<1>2. ASSUME NEW n \in Nat, n \in U PROVE n + 1 \in U
  <2>1. CASE n + 1 <= N
    <3>1. n + 1 \in 1 .. N /\ (n + 1) - 1 = n /\ n <= N
      BY <2>1
    <3>2. n \in T
      BY <1>2, <3>1
    <3> QED
      BY <3>1, <3>2
  <2>2. CASE ~ (n + 1 <= N)
    BY <2>2
  <2> QED
    BY <2>1, <2>2
<1> HIDE DEF U
<1>3. Nat \subseteq U
  BY <1>1, <1>2, Induction
<1> QED
  BY <1>3 DEF U

(* The values of a loop that starts with start and makes N steps.          *)
Iterate(f, N, start, step) ==
  /\ DOMAIN f = 0 .. N
  /\ f[0] = start
  /\ \A n \in 1 .. N : f[n] = step[<<f[n - 1], n>>]

(* Every such loop has values.                                             *)
LEMMA IterateExists ==
  ASSUME NEW N \in Nat, NEW S, NEW start \in S, NEW step \in [S \X (1 .. N) -> S]
  PROVE  \E f \in [0 .. N -> S] : Iterate(f, N, start, step)
<1> DEFINE T == {m \in Nat : \E f \in [0 .. m -> S] : Iterate(f, m, start, step)}
<1>1. 0 \in T
  <2>1. [n \in 0 .. 0 |-> start] \in [0 .. 0 -> S]
    OBVIOUS
  <2>2. Iterate([n \in 0 .. 0 |-> start], 0, start, step)
    BY DEF Iterate
  <2> QED
    BY <2>1, <2>2
<1>2. ASSUME NEW m \in 1 .. N, m - 1 \in T PROVE m \in T
  <2>1. PICK f \in [0 .. m - 1 -> S] : Iterate(f, m - 1, start, step)
    BY <1>2
  <2>2. m - 1 \in 0 .. m - 1
    OBVIOUS
  <2> DEFINE next == step[<<f[m - 1], m>>]
             g == [n \in 0 .. m |-> IF n = m THEN next ELSE f[n]]
  <2>3. next \in S
    BY <2>1, <2>2
  <2>4. g \in [0 .. m -> S]
    BY <2>1, <2>3
  <2>5. ASSUME NEW n \in 1 .. m PROVE g[n] = step[<<g[n - 1], n>>]
    <3>1. g[n - 1] = f[n - 1]
      OBVIOUS
    <3>2. CASE n = m
      BY <3>1, <3>2
    <3>3. CASE n # m
      <4>1. n \in 1 .. m - 1
        BY <3>3
      <4>2. f[n] = step[<<f[n - 1], n>>]
        BY <2>1, <4>1 DEF Iterate
      <4>3. g[n] = f[n]
        BY <3>3
      <4> HIDE DEF next, g
      <4> QED
        BY <3>1, <4>2, <4>3
    <3> QED
      BY <3>2, <3>3
  <2>6. g[0] = start
    BY <2>1 DEF Iterate
  <2> HIDE DEF next, g
  <2>7. Iterate(g, m, start, step)
    BY <2>4, <2>5, <2>6 DEF Iterate
  <2> QED
    BY <2>4, <2>7
<1> HIDE DEF T
<1>3. 0 .. N \subseteq T
  BY <1>1, <1>2, InductionTo
<1>4. N \in T
  BY <1>3
<1> QED
  BY <1>4 DEF T

(* ByteOf, AddByte, calculateCRC16 and Remainder are recursive functions:  *)
(* each is the last value of such a loop.                                  *)
LEMMA ByteOfIs ==
  ASSUME NEW ones
  PROVE  \E f \in [0 .. 8 -> Int] :
           /\ ByteOf(ones) = f[8]
           /\ f[0] = 0
           /\ \A n \in 1 .. 8 : f[n] = 2 * f[n - 1] + (IF 8 - n \in ones THEN 1 ELSE 0)
<1> DEFINE step == [p \in Int \X (1 .. 8) |-> 2 * p[1] + (IF 8 - p[2] \in ones THEN 1 ELSE 0)]
           Fits(f) == f = [n \in 0 .. 8 |-> IF n = 0 THEN 0
                           ELSE 2 * f[n - 1] + (IF 8 - n \in ones THEN 1 ELSE 0)]
<1>1. step \in [Int \X (1 .. 8) -> Int]
  OBVIOUS
<1>2. PICK f \in [0 .. 8 -> Int] : Iterate(f, 8, 0, step)
  <2> HIDE DEF step
  <2>1. 8 \in Nat /\ 0 \in Int
    OBVIOUS
  <2> QED
    BY <1>1, <2>1, IterateExists, Zenon
<1>3. f[0] = 0
  BY <1>2 DEF Iterate
<1>4. ASSUME NEW n \in 1 .. 8
      PROVE  f[n] = 2 * f[n - 1] + (IF 8 - n \in ones THEN 1 ELSE 0)
  <2>1. f[n] = step[<<f[n - 1], n>>]
    BY <1>2 DEF Iterate
  <2>2. f[n - 1] \in Int
    OBVIOUS
  <2> QED
    BY <2>1, <2>2
<1>5. Fits(f)
  BY <1>3, <1>4
<1> DEFINE g == CHOOSE g : Fits(g)
<1>6. Fits(g)
  <2> HIDE DEF Fits
  <2> QED
    BY <1>5, Zenon
<1>7. ByteOf(ones) = g[8]
  BY Zenon DEF ByteOf
<1> HIDE DEF g
<1>8. /\ DOMAIN g = 0 .. 8 /\ g[0] = 0
      /\ \A n \in 1 .. 8 : g[n] = 2 * g[n - 1] + (IF 8 - n \in ones THEN 1 ELSE 0)
  BY <1>6
<1>9. g \in [0 .. 8 -> Int]
  <2> DEFINE T == {n \in 0 .. 8 : g[n] \in Int}
  <2>1. 0 \in T
    BY <1>8
  <2>2. ASSUME NEW n \in 1 .. 8, n - 1 \in T PROVE n \in T
    BY <1>8, <2>2
  <2>3. 0 .. 8 \subseteq T
    <3> HIDE DEF T
    <3>1. 8 \in Nat
      OBVIOUS
    <3> QED
      BY <2>1, <2>2, <3>1, InductionTo, Zenon
  <2> QED
    BY <1>6, <2>3
<1> QED
  BY <1>7, <1>8, <1>9


-----------------------------------------------------------------------------
(* Bytes and the places of their ones. *)

LEMMA PowersOfTwo ==
  /\ 2^0 = 1 /\ 2^1 = 2 /\ 2^2 = 4 /\ 2^3 = 8
  /\ 2^4 = 16 /\ 2^5 = 32 /\ 2^6 = 64 /\ 2^7 = 128
BY SMT

LEMMA Places ==
  ASSUME NEW place \in 0 .. 7
  PROVE  \/ place = 0 /\ 2^place = 1
         \/ place = 1 /\ 2^place = 2
         \/ place = 2 /\ 2^place = 4
         \/ place = 3 /\ 2^place = 8
         \/ place = 4 /\ 2^place = 16
         \/ place = 5 /\ 2^place = 32
         \/ place = 6 /\ 2^place = 64
         \/ place = 7 /\ 2^place = 128
<1>1. \/ place = 0 \/ place = 1 \/ place = 2 \/ place = 3
      \/ place = 4 \/ place = 5 \/ place = 6 \/ place = 7
  OBVIOUS
<1>2. CASE place = 0
  <2>1. 2^place = 1
    BY <1>2, PowersOfTwo, Zenon
  <2> QED
    BY <1>2, <2>1, Zenon
<1>3. CASE place = 1
  <2>1. 2^place = 2
    BY <1>3, PowersOfTwo, Zenon
  <2> QED
    BY <1>3, <2>1, Zenon
<1>4. CASE place = 2
  <2>1. 2^place = 4
    BY <1>4, PowersOfTwo, Zenon
  <2> QED
    BY <1>4, <2>1, Zenon
<1>5. CASE place = 3
  <2>1. 2^place = 8
    BY <1>5, PowersOfTwo, Zenon
  <2> QED
    BY <1>5, <2>1, Zenon
<1>6. CASE place = 4
  <2>1. 2^place = 16
    BY <1>6, PowersOfTwo, Zenon
  <2> QED
    BY <1>6, <2>1, Zenon
<1>7. CASE place = 5
  <2>1. 2^place = 32
    BY <1>7, PowersOfTwo, Zenon
  <2> QED
    BY <1>7, <2>1, Zenon
<1>8. CASE place = 6
  <2>1. 2^place = 64
    BY <1>8, PowersOfTwo, Zenon
  <2> QED
    BY <1>8, <2>1, Zenon
<1>9. CASE place = 7
  <2>1. 2^place = 128
    BY <1>9, PowersOfTwo, Zenon
  <2> QED
    BY <1>9, <2>1, Zenon
<1> QED
  BY <1>1, <1>2, <1>3, <1>4, <1>5, <1>6, <1>7, <1>8, <1>9, Zenon

(* A number is the sum of its digits, and has the digits of that sum.      *)
IsSum(v, d7, d6, d5, d4, d3, d2, d1, d0) ==
  /\ d0 \in {0, 1} /\ d1 \in {0, 1} /\ d2 \in {0, 1} /\ d3 \in {0, 1}
  /\ d4 \in {0, 1} /\ d5 \in {0, 1} /\ d6 \in {0, 1} /\ d7 \in {0, 1}
  /\ v = 128 * d7 + 64 * d6 + 32 * d5 + 16 * d4 + 8 * d3 + 4 * d2 + 2 * d1 + d0

HasDigits(v, d7, d6, d5, d4, d3, d2, d1, d0) ==
  /\ v \in Int /\ 0 <= v /\ v <= 255
  /\ (v \div 1) % 2 = d0 /\ (v \div 2) % 2 = d1
  /\ (v \div 4) % 2 = d2 /\ (v \div 8) % 2 = d3
  /\ (v \div 16) % 2 = d4 /\ (v \div 32) % 2 = d5
  /\ (v \div 64) % 2 = d6 /\ (v \div 128) % 2 = d7

LEMMA Digits ==
  ASSUME NEW v, NEW d7, NEW d6, NEW d5, NEW d4, NEW d3, NEW d2, NEW d1, NEW d0,
         IsSum(v, d7, d6, d5, d4, d3, d2, d1, d0)
  PROVE  HasDigits(v, d7, d6, d5, d4, d3, d2, d1, d0)
BY DEF IsSum, HasDigits

(* A byte is the sum of its digits.                                        *)
LEMMA OwnDigits ==
  ASSUME NEW v \in Int, 0 <= v, v <= 255
  PROVE  v = 128 * ((v \div 128) % 2) + 64 * ((v \div 64) % 2) + 32 * ((v \div 32) % 2)
             + 16 * ((v \div 16) % 2) + 8 * ((v \div 8) % 2) + 4 * ((v \div 4) % 2)
             + 2 * ((v \div 2) % 2) + ((v \div 1) % 2)
OBVIOUS

Digit(ones, place) == IF place \in ones THEN 1 ELSE 0

(* What the loop of ByteOf adds up.                                        *)
LEMMA ByteOfDigits ==
  ASSUME NEW ones
  PROVE  ByteOf(ones) = 128 * Digit(ones, 7) + 64 * Digit(ones, 6) + 32 * Digit(ones, 5)
           + 16 * Digit(ones, 4) + 8 * Digit(ones, 3) + 4 * Digit(ones, 2)
           + 2 * Digit(ones, 1) + Digit(ones, 0)
<1>1. PICK f \in [0 .. 8 -> Int] :
        /\ ByteOf(ones) = f[8]
        /\ f[0] = 0
        /\ \A n \in 1 .. 8 : f[n] = 2 * f[n - 1] + (IF 8 - n \in ones THEN 1 ELSE 0)
  BY ByteOfIs
<1>2. ASSUME NEW n \in 1 .. 8 PROVE f[n] = 2 * f[n - 1] + Digit(ones, 8 - n)
  BY <1>1 DEF Digit
<1>3. \A n \in 0 .. 7 : Digit(ones, n) \in {0, 1}
  BY DEF Digit
<1>4. /\ f[1] = 2 * f[0] + Digit(ones, 7) /\ f[2] = 2 * f[1] + Digit(ones, 6)
      /\ f[3] = 2 * f[2] + Digit(ones, 5) /\ f[4] = 2 * f[3] + Digit(ones, 4)
      /\ f[5] = 2 * f[4] + Digit(ones, 3) /\ f[6] = 2 * f[5] + Digit(ones, 2)
      /\ f[7] = 2 * f[6] + Digit(ones, 1) /\ f[8] = 2 * f[7] + Digit(ones, 0)
  BY <1>2
<1>5. /\ f[0] \in Int /\ f[1] \in Int /\ f[2] \in Int /\ f[3] \in Int /\ f[4] \in Int
      /\ f[5] \in Int /\ f[6] \in Int /\ f[7] \in Int /\ f[8] \in Int
  OBVIOUS
<1>6. /\ Digit(ones, 0) \in Int /\ Digit(ones, 1) \in Int /\ Digit(ones, 2) \in Int
      /\ Digit(ones, 3) \in Int /\ Digit(ones, 4) \in Int /\ Digit(ones, 5) \in Int
      /\ Digit(ones, 6) \in Int /\ Digit(ones, 7) \in Int
  BY DEF Digit
<1>7. ByteOf(ones) = f[8] /\ f[0] = 0
  BY <1>1
<1> QED
  BY <1>4, <1>5, <1>6, <1>7

(* A byte has ones exactly where it was given them, and is given back by   *)
(* the places of its ones.                                                 *)
LEMMA ByteOfOnes ==
  ASSUME NEW ones
  PROVE  /\ ByteOf(ones) \in Int /\ 0 <= ByteOf(ones) /\ ByteOf(ones) <= 255
         /\ OnesOf(ByteOf(ones)) = ones \cap 0 .. 7
<1> DEFINE v == ByteOf(ones)
           d(place) == Digit(ones, place)
<1>1. /\ d(0) \in {0, 1} /\ d(1) \in {0, 1} /\ d(2) \in {0, 1} /\ d(3) \in {0, 1}
      /\ d(4) \in {0, 1} /\ d(5) \in {0, 1} /\ d(6) \in {0, 1} /\ d(7) \in {0, 1}
  BY DEF Digit
<1>2. v = 128 * d(7) + 64 * d(6) + 32 * d(5) + 16 * d(4) + 8 * d(3) + 4 * d(2) + 2 * d(1) + d(0)
  BY ByteOfDigits
<1>3. \A place : d(place) = 1 <=> place \in ones
  BY DEF Digit
<1> HIDE DEF v, d
<1>4. /\ v \in Int /\ 0 <= v /\ v <= 255
      /\ (v \div 1) % 2 = d(0) /\ (v \div 2) % 2 = d(1)
      /\ (v \div 4) % 2 = d(2) /\ (v \div 8) % 2 = d(3)
      /\ (v \div 16) % 2 = d(4) /\ (v \div 32) % 2 = d(5)
      /\ (v \div 64) % 2 = d(6) /\ (v \div 128) % 2 = d(7)
  <2>1. IsSum(v, d(7), d(6), d(5), d(4), d(3), d(2), d(1), d(0))
    BY <1>1, <1>2, Zenon DEF IsSum
  <2>2. HasDigits(v, d(7), d(6), d(5), d(4), d(3), d(2), d(1), d(0))
    BY <2>1, Digits, Zenon
  <2> QED
    BY <2>2, Zenon DEF HasDigits
<1>5. ASSUME NEW place \in 0 .. 7 PROVE (v \div 2^place) % 2 = d(place)
  BY <1>4, Places, Zenon
<1>6. ASSUME NEW place \in 0 .. 7 PROVE (v \div 2^place) % 2 = 1 <=> place \in ones
  BY <1>3, <1>5, Zenon
<1>7. OnesOf(v) = ones \cap 0 .. 7
  BY <1>6, Zenon DEF OnesOf
<1> QED
  BY <1>4, <1>7, Zenon DEF v

LEMMA OnesOfByte ==
  ASSUME NEW v \in Int, 0 <= v, v <= 255
  PROVE  ByteOf(OnesOf(v)) = v
<1> DEFINE d(place) == Digit(OnesOf(v), place)
<1>1. ASSUME NEW place \in 0 .. 7 PROVE (v \div 2^place) % 2 = d(place)
  <2>1. (v \div 2^place) % 2 \in {0, 1}
    BY Places
  <2>2. place \in OnesOf(v) <=> (v \div 2^place) % 2 = 1
    BY Zenon DEF OnesOf
  <2> QED
    BY <2>1, <2>2, Zenon DEF Digit
<1>2. ByteOf(OnesOf(v)) = 128 * d(7) + 64 * d(6) + 32 * d(5) + 16 * d(4) + 8 * d(3)
                            + 4 * d(2) + 2 * d(1) + d(0)
  BY ByteOfDigits
<1> HIDE DEF d
<1>3. /\ 0 \in 0 .. 7 /\ 1 \in 0 .. 7 /\ 2 \in 0 .. 7 /\ 3 \in 0 .. 7
      /\ 4 \in 0 .. 7 /\ 5 \in 0 .. 7 /\ 6 \in 0 .. 7 /\ 7 \in 0 .. 7
  OBVIOUS
<1>4. /\ (v \div 1) % 2 = d(0) /\ (v \div 2) % 2 = d(1)
      /\ (v \div 4) % 2 = d(2) /\ (v \div 8) % 2 = d(3)
      /\ (v \div 16) % 2 = d(4) /\ (v \div 32) % 2 = d(5)
      /\ (v \div 64) % 2 = d(6) /\ (v \div 128) % 2 = d(7)
  BY <1>1, <1>3, Places
<1> QED
  BY <1>2, <1>4, OwnDigits, Zenon


-----------------------------------------------------------------------------
(* The loop over bits and the division. *)

(* Exclusive or, bit by bit.                                               *)
LEMMA InSymDiff ==
  ASSUME NEW A, NEW B, NEW x
  PROVE  x \in SymDiff(A, B) <=> ~ (x \in A <=> x \in B)
BY DEF SymDiff

LEMMA SymDiffAssociates ==
  ASSUME NEW A, NEW B, NEW C
  PROVE  SymDiff(A, SymDiff(B, C)) = SymDiff(SymDiff(A, B), C)
<1>1. \A x : x \in SymDiff(A, SymDiff(B, C)) <=> x \in SymDiff(SymDiff(A, B), C)
  BY InSymDiff
<1> QED
  BY <1>1, Zenon

LEMMA InShiftUp ==
  ASSUME NEW A \in SUBSET Int, NEW k \in Int, NEW x
  PROVE  x \in ShiftUp(A, k) <=> x \in Int /\ x - k \in A
BY DEF ShiftUp

LEMMA InRegister ==
  ASSUME NEW crc \in Register, NEW x \in crc
  PROVE  x \in Int /\ 0 <= x /\ x <= 15
BY DEF Register

(* What one step of the loop over bits makes of each bit of the register.  *)
LEMMA InShiftBit ==
  ASSUME NEW crc \in Register, NEW x
  PROVE  x \in ShiftBit(crc) <=>
           /\ x \in Int /\ 0 <= x /\ x <= 15
           /\ ~ (x - 1 \in crc <=> 15 \in crc /\ (x = 0 \/ x = 5 \/ x = 12))
<1>1. crc \ {15} \in SUBSET Int /\ 1 \in Int
  BY DEF Register
<1>2. x \in ShiftLeft(crc) <=> x \in Int /\ x - 1 \in crc \ {15}
  BY <1>1, InShiftUp, Zenon DEF ShiftLeft
<1>3. x \in Polynomial <=> x = 0 \/ x = 5 \/ x = 12
  BY DEF Polynomial
<1>4. x \in SymDiff(ShiftLeft(crc), Polynomial) <=>
        ~ (x \in ShiftLeft(crc) <=> x \in Polynomial)
  BY InSymDiff
<1>5. x \in Int /\ x - 1 \in crc => 0 <= x - 1 /\ x - 1 <= 15
  BY InRegister
<1>6. CASE 15 \in crc
  <2>1. ShiftBit(crc) = SymDiff(ShiftLeft(crc), Polynomial)
    BY <1>6 DEF ShiftBit
  <2> QED
    BY <1>2, <1>3, <1>4, <1>5, <1>6, <2>1
<1>7. CASE 15 \notin crc
  <2>1. ShiftBit(crc) = ShiftLeft(crc)
    BY <1>7 DEF ShiftBit
  <2> QED
    BY <1>2, <1>5, <1>7, <2>1
<1> QED
  BY <1>6, <1>7

LEMMA ShiftBitStays ==
  ASSUME NEW crc \in Register
  PROVE  ShiftBit(crc) \in Register
BY InShiftBit DEF Register

(* What one step of the division makes of each exponent.                   *)
LEMMA InTake ==
  ASSUME NEW A \in SUBSET Int, NEW place \in Int, NEW x
  PROVE  x \in Take(A, place) <=>
           /\ x \in Int
           /\ ~ (x \in A <=> place \in A /\ x \in Generator(place))
<1>1. x \in Generator(place) => x \in Int
  BY DEF Generator
<1>2. CASE place \in A
  <2>1. Take(A, place) = SymDiff(A, Generator(place))
    BY <1>2 DEF Take
  <2>2. x \in SymDiff(A, Generator(place)) <=> ~ (x \in A <=> x \in Generator(place))
    BY InSymDiff
  <2> QED
    BY <1>1, <1>2, <2>1, <2>2
<1>3. CASE place \notin A
  BY <1>3 DEF Take
<1> QED
  BY <1>2, <1>3

(* One step of the loop over bits is one step of the division.             *)
LEMMA BitStep ==
  ASSUME NEW crc \in Register, NEW k \in Int, NEW rest \in SUBSET Int, k + 16 \notin rest
  PROVE  Take(SymDiff(ShiftUp(crc, k + 1), rest), k + 16) = SymDiff(ShiftUp(ShiftBit(crc), k), rest)
<1> DEFINE A == SymDiff(ShiftUp(crc, k + 1), rest)
           B == SymDiff(ShiftUp(ShiftBit(crc), k), rest)
<1>1. crc \in SUBSET Int /\ ShiftBit(crc) \in SUBSET Int
  BY ShiftBitStays DEF Register
<1>2. A \in SUBSET Int /\ B \in SUBSET Int
  <2>1. ShiftUp(crc, k + 1) \in SUBSET Int /\ ShiftUp(ShiftBit(crc), k) \in SUBSET Int
    BY <1>1 DEF ShiftUp
  <2> QED
    BY <2>1 DEF SymDiff
<1>3. \A x \in Int : x \in A <=> ~ (x - (k + 1) \in crc <=> x \in rest)
  BY <1>1, InSymDiff, InShiftUp
<1>4. \A x \in Int : x \in B <=> ~ (x - k \in ShiftBit(crc) <=> x \in rest)
  BY <1>1, InSymDiff, InShiftUp
<1> HIDE DEF A, B
<1>5. k + 16 \in A <=> 15 \in crc
  BY <1>3
<1>6. ASSUME NEW x \in Int
      PROVE  x \in Take(A, k + 16) <=> x \in B
  <2>1. x \in Take(A, k + 16) <=> ~ (x \in A <=> 15 \in crc /\ x \in Generator(k + 16))
    BY <1>2, <1>5, InTake
  <2>2. x \in Generator(k + 16) <=> x = k + 16 \/ x = k + 12 \/ x = k + 5 \/ x = k
    BY DEF Generator
  <2>3. x - k \in ShiftBit(crc) <=>
           /\ 0 <= x - k /\ x - k <= 15
           /\ ~ (x - k - 1 \in crc <=> 15 \in crc /\ (x - k = 0 \/ x - k = 5 \/ x - k = 12))
    BY InShiftBit
  <2>4. x - k - 1 \in crc => 0 <= x - k - 1 /\ x - k - 1 <= 15
    BY InRegister
  <2>5. x - (k + 1) = x - k - 1
    OBVIOUS
  <2>6. x \in A <=> ~ (x - k - 1 \in crc <=> x \in rest)
    BY <1>3, <2>5
  <2>7. CASE x = k + 16
    <3>1. x - k - 1 = 15
      BY <2>7
    <3> QED
      BY <1>4, <2>1, <2>2, <2>3, <2>6, <2>7, <3>1
  <2>8. CASE x # k + 16
    <3>1. x \in Generator(k + 16) <=> x - k = 0 \/ x - k = 5 \/ x - k = 12
      BY <2>2, <2>8
    <3>2. x - k - 1 \in crc => 0 <= x - k /\ x - k <= 15
      BY <2>4, <2>8
    <3>3. x - k = 0 \/ x - k = 5 \/ x - k = 12 => 0 <= x - k /\ x - k <= 15
      OBVIOUS
    <3> QED
      BY <1>4, <2>1, <2>3, <2>6, <3>1, <3>2, <3>3
  <2> QED
    BY <2>7, <2>8
<1>7. Take(A, k + 16) \in SUBSET Int
  BY <1>2, InTake
<1> QED
  BY <1>2, <1>6, <1>7 DEF A, B

LEMMA TakeIsPolynomial ==
  ASSUME NEW A \in SUBSET Int, NEW place \in Int
  PROVE  Take(A, place) \in SUBSET Int
BY InTake

(* A step of the division is linear.                                       *)
LEMMA TakeIsLinear ==
  ASSUME NEW A \in SUBSET Int, NEW B \in SUBSET Int, NEW place \in Int
  PROVE  Take(SymDiff(A, B), place) = SymDiff(Take(A, place), Take(B, place))
<1>1. SymDiff(A, B) \in SUBSET Int
  BY DEF SymDiff
<1>2. ASSUME NEW x
      PROVE  x \in Take(SymDiff(A, B), place) <=> x \in SymDiff(Take(A, place), Take(B, place))
  BY <1>1, InTake, InSymDiff
<1> QED
  BY <1>2, Zenon

AddsByte(f, crc, byte) ==
  /\ AddByte(crc, byte) = f[8]
  /\ f[0] = SymDiff(crc, ShiftUp(OnesOf(byte), 8))
  /\ \A n \in 1 .. 8 : f[n] = ShiftBit(f[n - 1])

(* The loop over the bits of a byte.                                       *)
LEMMA AddByteIs ==
  ASSUME NEW crc \in Register, NEW byte
  PROVE  \E f \in [0 .. 8 -> Register] : AddsByte(f, crc, byte)
<1> DEFINE start == SymDiff(crc, ShiftUp(OnesOf(byte), 8))
           step == [p \in Register \X (1 .. 8) |-> ShiftBit(p[1])]
           Fits(f) == f = [n \in 0 .. 8 |-> IF n = 0 THEN start ELSE ShiftBit(f[n - 1])]
<1>1. start \in Register
  <2>1. \A x : x \in ShiftUp(OnesOf(byte), 8) => x \in 0 .. 15
    BY DEF ShiftUp, OnesOf
  <2> QED
    BY <2>1 DEF SymDiff, Register
<1> HIDE DEF start
<1>2. PICK f \in [0 .. 8 -> Register] : Iterate(f, 8, start, step)
  <2>1. step \in [Register \X (1 .. 8) -> Register]
    BY ShiftBitStays
  <2>2. 8 \in Nat
    OBVIOUS
  <2> HIDE DEF step
  <2> QED
    BY <1>1, <2>1, <2>2, IterateExists, Zenon
<1>3. f[0] = start
  BY <1>2 DEF Iterate
<1>4. ASSUME NEW n \in 1 .. 8 PROVE f[n] = ShiftBit(f[n - 1])
  <2>1. f[n] = step[<<f[n - 1], n>>]
    BY <1>2 DEF Iterate
  <2>2. f[n - 1] \in Register
    OBVIOUS
  <2> QED
    BY <2>1, <2>2
<1>5. Fits(f)
  BY <1>3, <1>4
<1> DEFINE g == CHOOSE g : Fits(g)
<1>6. Fits(g)
  <2> HIDE DEF Fits
  <2> QED
    BY <1>5, Zenon
<1>7. AddByte(crc, byte) = g[8]
  BY Zenon DEF AddByte, start
<1> HIDE DEF g
<1>8. /\ DOMAIN g = 0 .. 8 /\ g[0] = start
      /\ \A n \in 1 .. 8 : g[n] = ShiftBit(g[n - 1])
  BY <1>6
<1>9. 0 .. 8 \subseteq {n \in 0 .. 8 : g[n] = f[n]}
  <2> DEFINE T == {n \in 0 .. 8 : g[n] = f[n]}
  <2>1. 0 \in T
    BY <1>3, <1>8
  <2>2. ASSUME NEW n \in 1 .. 8, n - 1 \in T PROVE n \in T
    BY <1>4, <1>8, <2>2
  <2>3. 8 \in Nat
    OBVIOUS
  <2> HIDE DEF T
  <2>4. 0 .. 8 \subseteq T
    BY <2>1, <2>2, <2>3, InductionTo, Zenon
  <2> QED
    BY <2>4 DEF T
<1>10. AddByte(crc, byte) = f[8]
  BY <1>7, <1>9
<1> QED
  BY <1>3, <1>4, <1>10 DEF start, AddsByte


LEMMA AddByteStays ==
  ASSUME NEW crc \in Register, NEW byte
  PROVE  AddByte(crc, byte) \in Register
BY AddByteIs DEF AddsByte

Result(crc) == <<ByteOf({place \in 0 .. 7 : place + 8 \in crc}), ByteOf(crc)>>

(* The loop over bytes.                                                    *)
LEMMA CrcIs ==
  ASSUME NEW data, Len(data) \in Nat
  PROVE  \E f \in [0 .. Len(data) -> Register] :
           /\ calculateCRC16(data) = Result(f[Len(data)])
           /\ f[0] = InitialRegister
           /\ \A n \in 1 .. Len(data) : f[n] = AddByte(f[n - 1], data[n])
<1> DEFINE N == Len(data)
           step == [p \in Register \X (1 .. N) |-> AddByte(p[1], data[p[2]])]
           Fits(f) == f = [n \in 0 .. N |->
             IF n = 0 THEN InitialRegister ELSE AddByte(f[n - 1], data[n])]
<1>1. InitialRegister \in Register /\ N \in Nat
  BY DEF Register, InitialRegister
<1> HIDE DEF N
<1>2. PICK f \in [0 .. N -> Register] : Iterate(f, N, InitialRegister, step)
  <2>1. step \in [Register \X (1 .. N) -> Register]
    BY AddByteStays
  <2> HIDE DEF step
  <2> QED
    BY <1>1, <2>1, IterateExists, Zenon
<1>3. f[0] = InitialRegister
  BY <1>2, Zenon DEF Iterate
<1>4. ASSUME NEW n \in 1 .. N PROVE f[n] = AddByte(f[n - 1], data[n])
  <2>1. f[n] = step[<<f[n - 1], n>>]
    BY <1>2 DEF Iterate
  <2>2. f[n - 1] \in Register
    BY <1>1
  <2> QED
    BY <2>1, <2>2
<1>5. Fits(f)
  BY <1>3, <1>4
<1> DEFINE g == CHOOSE g : Fits(g)
<1>6. Fits(g)
  <2> HIDE DEF Fits
  <2> QED
    BY <1>5, Zenon
<1>7. calculateCRC16(data) = Result(g[N])
  BY Zenon DEF calculateCRC16, Result, N
<1> HIDE DEF g
<1>8. /\ DOMAIN g = 0 .. N /\ g[0] = InitialRegister
      /\ \A n \in 1 .. N : g[n] = AddByte(g[n - 1], data[n])
  BY <1>1, <1>6
<1>9. 0 .. N \subseteq {n \in 0 .. N : g[n] = f[n]}
  <2> DEFINE T == {n \in 0 .. N : g[n] = f[n]}
  <2>1. 0 \in T
    BY <1>1, <1>3, <1>8
  <2>2. ASSUME NEW n \in 1 .. N, n - 1 \in T PROVE n \in T
    BY <1>4, <1>8, <2>2
  <2> HIDE DEF T
  <2>3. 0 .. N \subseteq T
    BY <1>1, <2>1, <2>2, InductionTo, Zenon
  <2> QED
    BY <2>3 DEF T
<1>10. g[N] = f[N]
  BY <1>1, <1>9
<1> QED
  BY <1>3, <1>4, <1>7, <1>10 DEF N

(* The division.                                                           *)
LEMMA RemainderIs ==
  ASSUME NEW dividend \in SUBSET Int, NEW degree \in Int, degree >= 15
  PROVE  \E f \in [0 .. degree - 15 -> SUBSET Int] :
           /\ Remainder(dividend, degree) = f[degree - 15]
           /\ f[0] = dividend
           /\ \A n \in 1 .. degree - 15 : f[n] = Take(f[n - 1], degree + 1 - n)
<1> DEFINE N == degree - 15
           step == [p \in (SUBSET Int) \X (1 .. N) |-> Take(p[1], degree + 1 - p[2])]
           Fits(f) == f = [n \in 0 .. N |->
             IF n = 0 THEN dividend ELSE Take(f[n - 1], degree + 1 - n)]
<1>1. N \in Nat
  OBVIOUS
<1> HIDE DEF N
<1>2. PICK f \in [0 .. N -> SUBSET Int] : Iterate(f, N, dividend, step)
  <2>1. step \in [(SUBSET Int) \X (1 .. N) -> SUBSET Int]
    BY <1>1, TakeIsPolynomial
  <2> HIDE DEF step
  <2> QED
    BY <1>1, <2>1, IterateExists, Zenon
<1>3. f[0] = dividend
  BY <1>2, Zenon DEF Iterate
<1>4. ASSUME NEW n \in 1 .. N PROVE f[n] = Take(f[n - 1], degree + 1 - n)
  <2>1. f[n] = step[<<f[n - 1], n>>]
    BY <1>2 DEF Iterate
  <2>2. f[n - 1] \in SUBSET Int
    BY <1>1
  <2> QED
    BY <2>1, <2>2
<1>5. Fits(f)
  BY <1>3, <1>4
<1> DEFINE g == CHOOSE g : Fits(g)
<1>6. Fits(g)
  <2> HIDE DEF Fits
  <2> QED
    BY <1>5, Zenon
<1>7. Remainder(dividend, degree) = g[N]
  BY Zenon DEF Remainder, N
<1> HIDE DEF g
<1>8. /\ DOMAIN g = 0 .. N /\ g[0] = dividend
      /\ \A n \in 1 .. N : g[n] = Take(g[n - 1], degree + 1 - n)
  BY <1>1, <1>6
<1>9. 0 .. N \subseteq {n \in 0 .. N : g[n] = f[n]}
  <2> DEFINE T == {n \in 0 .. N : g[n] = f[n]}
  <2>1. 0 \in T
    BY <1>1, <1>3, <1>8
  <2>2. ASSUME NEW n \in 1 .. N, n - 1 \in T PROVE n \in T
    BY <1>4, <1>8, <2>2
  <2> HIDE DEF T
  <2>3. 0 .. N \subseteq T
    BY <1>1, <2>1, <2>2, InductionTo, Zenon
  <2> QED
    BY <2>3 DEF T
<1>10. g[N] = f[N]
  BY <1>1, <1>9
<1> QED
  BY <1>3, <1>4, <1>7, <1>10 DEF N

(* The remainder is linear.                                                *)
LEMMA RemainderIsLinear ==
  ASSUME NEW A \in SUBSET Int, NEW B \in SUBSET Int, NEW degree \in Int, degree >= 15
  PROVE  Remainder(SymDiff(A, B), degree) = SymDiff(Remainder(A, degree), Remainder(B, degree))
<1> DEFINE N == degree - 15
<1>1. N \in Nat /\ SymDiff(A, B) \in SUBSET Int
  BY DEF SymDiff
<1>2. PICK a \in [0 .. N -> SUBSET Int] :
        /\ Remainder(A, degree) = a[N]
        /\ a[0] = A
        /\ \A n \in 1 .. N : a[n] = Take(a[n - 1], degree + 1 - n)
  BY RemainderIs
<1>3. PICK b \in [0 .. N -> SUBSET Int] :
        /\ Remainder(B, degree) = b[N]
        /\ b[0] = B
        /\ \A n \in 1 .. N : b[n] = Take(b[n - 1], degree + 1 - n)
  BY RemainderIs
<1>4. PICK c \in [0 .. N -> SUBSET Int] :
        /\ Remainder(SymDiff(A, B), degree) = c[N]
        /\ c[0] = SymDiff(A, B)
        /\ \A n \in 1 .. N : c[n] = Take(c[n - 1], degree + 1 - n)
  BY <1>1, RemainderIs
<1> DEFINE T == {n \in 0 .. N : c[n] = SymDiff(a[n], b[n])}
<1> HIDE DEF N
<1>5. 0 \in T
  BY <1>1, <1>2, <1>3, <1>4
<1>6. ASSUME NEW n \in 1 .. N, n - 1 \in T PROVE n \in T
  <2>1. n - 1 \in 0 .. N /\ degree + 1 - n \in Int /\ n \in 0 .. N
    BY <1>1
  <2>2. a[n - 1] \in SUBSET Int /\ b[n - 1] \in SUBSET Int
    BY <2>1
  <2>3. Take(SymDiff(a[n - 1], b[n - 1]), degree + 1 - n)
          = SymDiff(Take(a[n - 1], degree + 1 - n), Take(b[n - 1], degree + 1 - n))
    BY <2>1, <2>2, TakeIsLinear
  <2>4. c[n - 1] = SymDiff(a[n - 1], b[n - 1])
    BY <1>6
  <2>5. c[n] = SymDiff(a[n], b[n])
    BY <1>2, <1>3, <1>4, <2>3, <2>4, Zenon
  <2> QED
    BY <2>1, <2>5
<1> HIDE DEF T
<1>7. 0 .. N \subseteq T
  BY <1>1, <1>5, <1>6, InductionTo, Zenon
<1>8. c[N] = SymDiff(a[N], b[N])
  BY <1>1, <1>7 DEF T
<1> QED
  BY <1>2, <1>3, <1>4, <1>8, Zenon

(* A burst of at most sixteen bits is no multiple of the generator.        *)
LEMMA BurstLeavesRemainder ==
  ASSUME NEW low \in Int, NEW A \in SUBSET Int, A # {},
         \A x \in A : low <= x /\ x <= low + 15, NEW degree \in Int, degree >= 15
  PROVE  Remainder(A, degree) # {}
<1> DEFINE N == degree - 15
<1>1. N \in Nat
  OBVIOUS
<1>2. PICK f \in [0 .. N -> SUBSET Int] :
        /\ Remainder(A, degree) = f[N]
        /\ f[0] = A
        /\ \A n \in 1 .. N : f[n] = Take(f[n - 1], degree + 1 - n)
  BY RemainderIs
<1> HIDE DEF N
<1> DEFINE T == {n \in 0 .. N : /\ f[n] # {}
                                /\ \/ f[n] = A
                                   \/ \A x \in f[n] : x >= degree + 1 - n - 16}
<1>3. 0 \in T
  BY <1>1, <1>2
<1>4. ASSUME NEW n \in 1 .. N, n - 1 \in T PROVE n \in T
  <2> DEFINE place == degree + 1 - n
  <2>1. n - 1 \in 0 .. N /\ place \in Int /\ n \in 0 .. N
    BY <1>1
  <2>2. f[n - 1] \in SUBSET Int /\ f[n] = Take(f[n - 1], place)
    BY <1>2, <2>1
  <2>3. CASE place \notin f[n - 1]
    <3>1. f[n] = f[n - 1]
      BY <2>2, <2>3 DEF Take
    <3> QED
      BY <1>4, <2>1, <2>2, <3>1
  <2>4. CASE place \in f[n - 1]
    <3>1. \A x : x \in f[n] <=> x \in Int /\ ~ (x \in f[n - 1] <=> x \in Generator(place))
      BY <2>1, <2>2, <2>4, InTake
    <3>2. \A x \in f[n - 1] : x >= place - 15
      BY <1>4, <2>1, <2>4, <2>2
    <3>3. \A x : x \in Generator(place) =>
            x = place \/ x = place - 4 \/ x = place - 11 \/ x = place - 16
      BY DEF Generator
    <3>4. place - 16 \in f[n]
      BY <2>1, <3>1, <3>2 DEF Generator
    <3>5. \A x \in f[n] : x >= place - 16
      BY <2>1, <2>2, <3>1, <3>2, <3>3
    <3> QED
      BY <2>1, <3>4, <3>5
  <2> QED
    BY <2>3, <2>4
<1> HIDE DEF T
<1>5. 0 .. N \subseteq T
  BY <1>1, <1>3, <1>4, InductionTo, Zenon
<1>6. f[N] # {}
  BY <1>1, <1>5 DEF T
<1> QED
  BY <1>2, <1>6


LEMMA ByteIs ==
  ASSUME NEW x
  PROVE  x \in Byte <=> x \in Int /\ 0 <= x /\ x <= 255
BY DEF Byte

LEMMA InOnes ==
  ASSUME NEW byte, NEW place \in OnesOf(byte)
  PROVE  place \in Int /\ 0 <= place /\ place <= 7
BY DEF OnesOf

LEMMA OnesArePolynomial ==
  ASSUME NEW byte
  PROVE  OnesOf(byte) \in SUBSET Int
BY DEF OnesOf

(* Bytes with the same ones are the same.                                  *)
LEMMA SameOnes ==
  ASSUME NEW a \in Byte, NEW b \in Byte, OnesOf(a) = OnesOf(b)
  PROVE  a = b
<1>1. ByteOf(OnesOf(a)) = a /\ ByteOf(OnesOf(b)) = b
  BY ByteIs, OnesOfByte
<1> QED
  BY <1>1

(* The two bytes of the result have the ones of the register.              *)
HasBytes(crc, high, low) == crc = ShiftUp(OnesOf(high), 8) \union OnesOf(low)

IsResult(crc, high, low) == <<high, low>> = Result(crc)

LEMMA ResultIs ==
  ASSUME NEW crc \in Register, NEW high \in Byte, NEW low \in Byte
  PROVE  IsResult(crc, high, low) <=> HasBytes(crc, high, low)
<1> DEFINE upper == {place \in 0 .. 7 : place + 8 \in crc}
<1>1. /\ ByteOf(upper) \in Byte /\ OnesOf(ByteOf(upper)) = upper \cap 0 .. 7
      /\ ByteOf(crc) \in Byte /\ OnesOf(ByteOf(crc)) = crc \cap 0 .. 7
  BY ByteOfOnes, ByteIs
<1>2. Result(crc) = <<ByteOf(upper), ByteOf(crc)>>
  BY Zenon DEF Result
<1>3. \A x : x \in upper \cap 0 .. 7 <=> x \in Int /\ 0 <= x /\ x <= 7 /\ x + 8 \in crc
  OBVIOUS
<1>4. \A x : x \in crc \cap 0 .. 7 <=> x \in Int /\ 0 <= x /\ x <= 7 /\ x \in crc
  OBVIOUS
<1> HIDE DEF upper
<1>5. \A x \in crc : x \in Int /\ 0 <= x /\ x <= 15
  BY InRegister
<1>6. \A x : x \in ShiftUp(OnesOf(high), 8) <=> x \in Int /\ x - 8 \in OnesOf(high)
  BY InShiftUp, OnesArePolynomial
<1>7. \A x : x \in OnesOf(high) => x \in Int /\ 0 <= x /\ x <= 7
  BY InOnes
<1>8. \A x : x \in OnesOf(low) => x \in Int /\ 0 <= x /\ x <= 7
  BY InOnes
<1>9. ASSUME <<high, low>> = Result(crc)
      PROVE  crc = ShiftUp(OnesOf(high), 8) \union OnesOf(low)
  <2>1. OnesOf(high) = upper \cap 0 .. 7 /\ OnesOf(low) = crc \cap 0 .. 7
    BY <1>1, <1>2, <1>9
  <2>2. ASSUME NEW x
        PROVE  x \in crc <=> x \in ShiftUp(OnesOf(high), 8) \/ x \in OnesOf(low)
    <3>1. x \in ShiftUp(OnesOf(high), 8) <=> x \in Int /\ x - 8 \in upper \cap 0 .. 7
      BY <1>6, <2>1, Zenon
    <3>2. x \in ShiftUp(OnesOf(high), 8) <=> x \in Int /\ 8 <= x /\ x <= 15 /\ x \in crc
      <4>1. x \in Int => (x - 8) + 8 = x
        OBVIOUS
      <4> QED
        BY <1>3, <3>1, <4>1
    <3>3. x \in OnesOf(low) <=> x \in Int /\ 0 <= x /\ x <= 7 /\ x \in crc
      BY <1>4, <2>1, Zenon
    <3> QED
      BY <1>5, <3>2, <3>3
  <2> QED
    BY <2>2
<1>10. ASSUME crc = ShiftUp(OnesOf(high), 8) \union OnesOf(low)
       PROVE  <<high, low>> = Result(crc)
  <2>1. OnesOf(high) = upper \cap 0 .. 7
    <3>1. ASSUME NEW x PROVE x \in OnesOf(high) <=> x \in upper \cap 0 .. 7
      BY <1>3, <1>6, <1>7, <1>8, <1>10
    <3> QED
      BY <3>1
  <2>2. OnesOf(low) = crc \cap 0 .. 7
    <3>1. ASSUME NEW x PROVE x \in OnesOf(low) <=> x \in crc \cap 0 .. 7
      BY <1>4, <1>6, <1>7, <1>8, <1>10
    <3> QED
      BY <3>1
  <2>3. high = ByteOf(upper) /\ low = ByteOf(crc)
    BY <1>1, <2>1, <2>2, SameOnes
  <2> QED
    BY <1>2, <2>3
<1> QED
  BY <1>9, <1>10 DEF IsResult, HasBytes

(* The bits of the bytes behind the first ones, and how they change when   *)
(* one more byte is taken.                                                 *)
Rest(bytes, taken) ==
  UNION {ShiftUp(OnesOf(bytes[i]), 8 * (Len(bytes) - i)) : i \in taken + 1 .. Len(bytes)}

LEMMA RestIs ==
  ASSUME NEW bytes, Len(bytes) \in Nat, NEW n \in 1 .. Len(bytes)
  PROVE  /\ Rest(bytes, n) \in SUBSET Int
         /\ \A x \in Rest(bytes, n) : x < 8 * (Len(bytes) - n)
         /\ \A x : x \in Rest(bytes, n - 1) <=>
              \/ x \in Rest(bytes, n)
              \/ x \in Int /\ x - 8 * (Len(bytes) - n) \in OnesOf(bytes[n])
<1> DEFINE L == Len(bytes)
           Bits(i) == ShiftUp(OnesOf(bytes[i]), 8 * (L - i))
<1>1. L \in Nat /\ n \in 1 .. L
  OBVIOUS
<1>2. \A m : Rest(bytes, m) = UNION {Bits(i) : i \in m + 1 .. L}
  BY DEF Rest
<1> HIDE DEF L
<1>3. ASSUME NEW i \in 1 .. L, NEW x
      PROVE  x \in Bits(i) <=> x \in Int /\ x - 8 * (L - i) \in OnesOf(bytes[i])
  <2>1. 8 * (L - i) \in Int
    BY <1>1
  <2> QED
    BY <2>1, InShiftUp, OnesArePolynomial
<1> HIDE DEF Bits
<1>4. ASSUME NEW i \in 1 .. L, NEW x \in Bits(i)
      PROVE  x \in Int /\ x < 8 * (L - i) + 8
  <2>1. x \in Int /\ x - 8 * (L - i) \in OnesOf(bytes[i])
    BY <1>3
  <2>2. x - 8 * (L - i) <= 7
    BY <2>1, InOnes
  <2> QED
    BY <1>1, <2>1, <2>2
<1>5. \A x, m : x \in Rest(bytes, m) <=> \E i \in m + 1 .. L : x \in Bits(i)
  BY <1>2
<1>6. ASSUME NEW x \in Rest(bytes, n)
      PROVE  x \in Int /\ x < 8 * (L - n)
  <2>1. PICK i \in n + 1 .. L : x \in Bits(i)
    BY <1>5
  <2>2. x \in Int /\ x < 8 * (L - i) + 8
    BY <1>1, <1>4, <2>1
  <2> QED
    BY <1>1, <2>2
<1>7. ASSUME NEW x
      PROVE  x \in Rest(bytes, n - 1) <=> x \in Rest(bytes, n) \/ x \in Bits(n)
  <2>1. \A i : i \in (n - 1) + 1 .. L <=> i = n \/ i \in n + 1 .. L
    BY <1>1
  <2> QED
    BY <1>5, <2>1, Zenon
<1> QED
  BY <1>1, <1>3, <1>6, <1>7 DEF L


(* The bits of a register times x^k, exclusive or rest.                    *)
Aligned(crc, k, rest) == SymDiff(ShiftUp(crc, k), rest)

(* An exponent of such a polynomial.                                       *)
LEMMA InAligned ==
  ASSUME NEW crc \in Register, NEW k \in Int, NEW rest \in SUBSET Int, NEW x
  PROVE  x \in Aligned(crc, k, rest) <=> x \in Int /\ ~ (x - k \in crc <=> x \in rest)
<1>1. crc \in SUBSET Int
  BY DEF Register
<1>2. x \in ShiftUp(crc, k) <=> x \in Int /\ x - k \in crc
  BY <1>1, InShiftUp
<1>3. x \in Aligned(crc, k, rest) <=> ~ (x \in ShiftUp(crc, k) <=> x \in rest)
  BY InSymDiff DEF Aligned
<1>4. x \in rest => x \in Int
  OBVIOUS
<1> QED
  BY <1>2, <1>3, <1>4, Zenon

LEMMA AlignedIsPolynomial ==
  ASSUME NEW crc \in Register, NEW k \in Int, NEW rest \in SUBSET Int
  PROVE  Aligned(crc, k, rest) \in SUBSET Int
BY InAligned

(* A byte enters the register: it is taken off the rest.                   *)
IsNext(byte, k, before, after) ==
  /\ before \in SUBSET Int /\ after \in SUBSET Int
  /\ \A x \in after : x < k + 8
  /\ \A x : x \in before <=> x \in after \/ (x \in Int /\ x - (k + 8) \in OnesOf(byte))

Enters(crc, k, byte, before, after) ==
  Aligned(crc, k, before) = Aligned(SymDiff(crc, ShiftUp(OnesOf(byte), 8)), k, after)

LEMMA ByteEnters ==
  ASSUME NEW crc \in Register, NEW k \in Int, NEW byte, NEW before, NEW after,
         IsNext(byte, k, before, after)
  PROVE  Enters(crc, k, byte, before, after)
<1> DEFINE entered == SymDiff(crc, ShiftUp(OnesOf(byte), 8))
<1>0. /\ before \in SUBSET Int /\ after \in SUBSET Int
      /\ \A x \in after : x < k + 8
      /\ \A x : x \in before <=> x \in after \/ (x \in Int /\ x - (k + 8) \in OnesOf(byte))
  BY DEF IsNext
<1>1. \A x : x \in ShiftUp(OnesOf(byte), 8) <=> x \in Int /\ x - 8 \in OnesOf(byte)
  BY InShiftUp, OnesArePolynomial
<1>2. \A x : x \in entered <=> ~ (x \in crc <=> x \in Int /\ x - 8 \in OnesOf(byte))
  BY <1>1, InSymDiff
<1>3. entered \in Register
  <2>1. \A x : x \in Int /\ x - 8 \in OnesOf(byte) => 0 <= x /\ x <= 15
    BY InOnes
  <2> QED
    <3>1. \A x \in entered : x \in Int /\ 0 <= x /\ x <= 15
      BY <1>2, <2>1, InRegister
    <3> HIDE DEF entered
    <3> QED
      BY <3>1 DEF Register
<1> HIDE DEF entered
<1>4. ASSUME NEW x \in Int
      PROVE  x \in Aligned(crc, k, before) <=> x \in Aligned(entered, k, after)
  <2>1. x \in Aligned(crc, k, before) <=> ~ (x - k \in crc <=> x \in before)
    BY <1>0, InAligned
  <2>2. x \in Aligned(entered, k, after) <=> ~ (x - k \in entered <=> x \in after)
    BY <1>0, <1>3, InAligned
  <2>3. x - k \in entered <=> ~ (x - k \in crc <=> x - (k + 8) \in OnesOf(byte))
    <3>1. x - k \in Int /\ (x - k) - 8 = x - (k + 8)
      OBVIOUS
    <3> QED
      BY <1>2, <3>1
  <2>4. ~ (x \in after /\ x - (k + 8) \in OnesOf(byte))
    <3>1. x - (k + 8) \in OnesOf(byte) => 0 <= x - (k + 8)
      BY InOnes
    <3> QED
      BY <1>0, <3>1
  <2> QED
    BY <1>0, <2>1, <2>2, <2>3, <2>4
<1>5. Aligned(crc, k, before) \in SUBSET Int /\ Aligned(entered, k, after) \in SUBSET Int
  BY <1>0, <1>3, InAligned
<1> QED
  BY <1>4, <1>5 DEF entered, Enters

(* The bits still to come are a polynomial.                                *)
LEMMA RestIsPolynomial ==
  ASSUME NEW bytes, Len(bytes) \in Nat, NEW n \in 0 .. Len(bytes)
  PROVE  Rest(bytes, n) \in SUBSET Int
<1>1. CASE n = 0
  <2>1. CASE Len(bytes) = 0
    BY <1>1, <2>1 DEF Rest
  <2>2. CASE Len(bytes) # 0
    <3>1. 1 \in 1 .. Len(bytes) /\ 1 - 1 = 0
      BY <2>2
    <3>2. /\ Rest(bytes, 1) \in SUBSET Int
          /\ \A x : x \in Rest(bytes, 1 - 1) => x \in Rest(bytes, 1) \/ x \in Int
      BY <3>1, RestIs
    <3> QED
      BY <1>1, <3>1, <3>2
  <2> QED
    BY <2>1, <2>2
<1>2. CASE n # 0
  <2>1. n \in 1 .. Len(bytes)
    BY <1>2
  <2> QED
    BY <2>1, RestIs
<1> QED
  BY <1>1, <1>2

(* The eight steps of a byte.                                              *)
LEMMA ByteSteps ==
  ASSUME NEW bytes, NEW L \in Nat, L = Len(bytes), NEW n \in 1 .. L - 2, NEW crc \in Register,
         NEW left \in [0 .. 8 * L - 16 -> SUBSET Int],
         \A t \in 1 .. 8 * L - 16 : left[t] = Take(left[t - 1], 8 * L - t),
         left[8 * (n - 1)] = Aligned(crc, 8 * L - 16 - 8 * (n - 1), Rest(bytes, n - 1))
  PROVE  left[8 * n] = Aligned(AddByte(crc, bytes[n]), 8 * L - 16 - 8 * n, Rest(bytes, n))
<1> DEFINE k == 8 * L - 8 - 8 * n
           rest == Rest(bytes, n)
<1>adds. PICK f \in [0 .. 8 -> Register] : AddsByte(f, crc, bytes[n])
  BY AddByteIs, Zenon
<1>1. /\ AddByte(crc, bytes[n]) = f[8]
      /\ f[0] = SymDiff(crc, ShiftUp(OnesOf(bytes[n]), 8))
      /\ \A j \in 1 .. 8 : f[j] = ShiftBit(f[j - 1])
  BY <1>adds DEF AddsByte
<1>2. /\ n \in 1 .. L /\ n - 1 \in 0 .. L /\ k \in Int
      /\ 8 * L - 16 - 8 * (n - 1) = k /\ k + 8 = 8 * (L - n)
  OBVIOUS
<1>3. /\ rest \in SUBSET Int /\ Rest(bytes, n - 1) \in SUBSET Int
      /\ \A x \in rest : x < k + 8
      /\ \A x : x \in Rest(bytes, n - 1)
                <=> x \in rest \/ (x \in Int /\ x - (k + 8) \in OnesOf(bytes[n]))
  BY <1>2, RestIs, RestIsPolynomial
<1> HIDE DEF rest
<1>4. left[8 * (n - 1)] = Aligned(f[0], k, rest)
  <2>1. left[8 * (n - 1)] = Aligned(crc, k, Rest(bytes, n - 1))
    BY <1>2, Zenon
  <2>next. IsNext(bytes[n], k, Rest(bytes, n - 1), rest)
    BY <1>3 DEF IsNext
  <2> HIDE DEF k
  <2>2. Aligned(crc, k, Rest(bytes, n - 1))
          = Aligned(SymDiff(crc, ShiftUp(OnesOf(bytes[n]), 8)), k, rest)
    <3>1. k \in Int
      BY <1>2
    <3>2. Enters(crc, k, bytes[n], Rest(bytes, n - 1), rest)
      BY <2>next, <3>1, ByteEnters, Zenon
    <3> QED
      BY <3>2, Zenon DEF Enters
  <2> QED
    BY <1>1, <2>1, <2>2, Zenon
<1> DEFINE T == {j \in 0 .. 8 : left[8 * (n - 1) + j] = Aligned(f[j], k - j, rest)}
<1>5. 0 \in T
  BY <1>2, <1>4
<1>6. ASSUME NEW j \in 1 .. 8, j - 1 \in T PROVE j \in T
  <2> DEFINE t == 8 * (n - 1) + j
  <2>1. /\ t \in 1 .. 8 * L - 16 /\ t - 1 = 8 * (n - 1) + (j - 1)
        /\ 8 * L - t = (k - j) + 16 /\ k - (j - 1) = (k - j) + 1 /\ k - j \in Int
        /\ j - 1 \in 0 .. 8
    OBVIOUS
  <2>2. left[t] = Take(left[t - 1], 8 * L - t)
    BY <2>1
  <2>3. left[t - 1] = Aligned(f[j - 1], k - (j - 1), rest)
    BY <1>6, <2>1
  <2>4. f[j - 1] \in Register
    BY <2>1
  <2>5. (k - j) + 16 \notin rest
    BY <1>2, <1>3
  <2> HIDE DEF t, k
  <2>6. Take(Aligned(f[j - 1], (k - j) + 1, rest), (k - j) + 16)
          = Aligned(ShiftBit(f[j - 1]), k - j, rest)
    BY <1>3, <2>1, <2>4, <2>5, BitStep, Zenon DEF Aligned
  <2>7. left[t] = Aligned(f[j], k - j, rest)
    BY <1>1, <2>1, <2>2, <2>3, <2>6, Zenon
  <2> QED
    BY <2>7 DEF t
<1> HIDE DEF T
<1>7. 0 .. 8 \subseteq T
  <2>1. 8 \in Nat
    OBVIOUS
  <2> QED
    BY <1>5, <1>6, <2>1, InductionTo, Zenon
<1>8. left[8 * (n - 1) + 8] = Aligned(f[8], k - 8, rest)
  BY <1>7 DEF T
<1>9. 8 * (n - 1) + 8 = 8 * n /\ k - 8 = 8 * L - 16 - 8 * n
  OBVIOUS
<1> HIDE DEF k
<1> QED
  BY <1>1, <1>8, <1>9, Zenon DEF rest

(* The register starts with ones at its sixteen places.                    *)
LEMMA InInitialRegister ==
  ASSUME NEW x
  PROVE  x \in InitialRegister <=> x \in Int /\ 0 <= x /\ x <= 15
BY DEF InitialRegister

(* The loops over bytes and bits divide: after all bytes but the last two, *)
(* the register is what the division has left of their bits.               *)
LEMMA LoopsDivide ==
  ASSUME NEW bytes, NEW L \in Nat, L = Len(bytes), DOMAIN bytes = 1 .. L, L >= 2,
         NEW data, Len(data) = L - 2, \A n \in 1 .. L - 2 : data[n] = bytes[n]
  PROVE  \E crc \in Register :
           /\ calculateCRC16(data) = Result(crc)
           /\ Remainder(Codeword(bytes), 8 * L - 1) = Aligned(crc, 0, Rest(bytes, L - 2))
<1> DEFINE N == L - 2
<1>1. N \in Nat /\ Len(data) = N
  OBVIOUS
<1>2. PICK f \in [0 .. N -> Register] :
        /\ calculateCRC16(data) = Result(f[N])
        /\ f[0] = InitialRegister
        /\ \A n \in 1 .. N : f[n] = AddByte(f[n - 1], data[n])
  <2> HIDE DEF N
  <2>1. Len(data) \in Nat
    BY <1>1
  <2> QED
    BY <1>1, <2>1, CrcIs
<1>3. Codeword(bytes) = Aligned(InitialRegister, 8 * L - 16, Rest(bytes, 0))
  <2>1. ShiftUp(InitialRegister, 8 * L - 16) = 8 * L - 16 .. 8 * L - 1
    <3>1. InitialRegister \in SUBSET Int /\ 8 * L - 16 \in Int
      BY DEF InitialRegister
    <3>2. \A x : x \in ShiftUp(InitialRegister, 8 * L - 16)
                   <=> x \in Int /\ x - (8 * L - 16) \in InitialRegister
      BY <3>1, InShiftUp
    <3>3. \A x : x \in InitialRegister <=> x \in Int /\ 0 <= x /\ x <= 15
      BY InInitialRegister, Zenon
    <3>4. \A x : x \in ShiftUp(InitialRegister, 8 * L - 16)
                   <=> x \in 8 * L - 16 .. 8 * L - 1
      BY <3>2, <3>3
    <3> QED
      BY <3>4
  <2>2. BitsOf(bytes) = Rest(bytes, 0)
    <3>1. DOMAIN bytes = 0 + 1 .. Len(bytes)
      OBVIOUS
    <3> QED
      BY <3>1, Zenon DEF BitsOf, Rest
  <2>3. Codeword(bytes) = SymDiff(8 * L - 16 .. 8 * L - 1, BitsOf(bytes))
    BY Zenon DEF Codeword
  <2> QED
    BY <2>1, <2>2, <2>3, Zenon DEF Aligned
<1>4. Codeword(bytes) \in SUBSET Int
  <2>1. Rest(bytes, 0) \in SUBSET Int /\ 8 * L - 16 \in Int
    BY RestIsPolynomial
  <2>2. InitialRegister \in Register
    BY DEF InitialRegister, Register
  <2>3. Aligned(InitialRegister, 8 * L - 16, Rest(bytes, 0)) \in SUBSET Int
    BY <2>1, <2>2, AlignedIsPolynomial, Zenon
  <2> QED
    BY <1>3, <2>3, Zenon
<1>5. PICK left \in [0 .. 8 * L - 16 -> SUBSET Int] :
        /\ Remainder(Codeword(bytes), 8 * L - 1) = left[8 * L - 16]
        /\ left[0] = Codeword(bytes)
        /\ \A t \in 1 .. 8 * L - 16 : left[t] = Take(left[t - 1], 8 * L - t)
  <2> DEFINE degree == 8 * L - 1
  <2>1. degree \in Int /\ degree >= 15 /\ degree - 15 = 8 * L - 16
    OBVIOUS
  <2>3. \A t \in 1 .. 8 * L - 16 : degree + 1 - t = 8 * L - t
    OBVIOUS
  <2> HIDE DEF degree
  <2>2. PICK left \in [0 .. degree - 15 -> SUBSET Int] :
          /\ Remainder(Codeword(bytes), degree) = left[degree - 15]
          /\ left[0] = Codeword(bytes)
          /\ \A t \in 1 .. degree - 15 : left[t] = Take(left[t - 1], degree + 1 - t)
    BY <1>4, <2>1, RemainderIs, Zenon
  <2>4. \A t \in 1 .. 8 * L - 16 : left[t] = Take(left[t - 1], 8 * L - t)
    BY <2>1, <2>2, <2>3, Zenon
  <2> QED
    BY <2>1, <2>2, <2>4, Zenon DEF degree
<1> DEFINE T == {n \in 0 .. N : left[8 * n] = Aligned(f[n], 8 * L - 16 - 8 * n, Rest(bytes, n))}
<1>6. 0 \in T
  <2>1. 8 * 0 = 0 /\ 8 * L - 16 - 8 * 0 = 8 * L - 16 /\ 0 \in 0 .. N
    BY <1>1
  <2>2. left[8 * 0] = Aligned(f[0], 8 * L - 16 - 8 * 0, Rest(bytes, 0))
    BY <1>2, <1>3, <1>5, <2>1, Zenon
  <2> QED
    BY <2>1, <2>2, Zenon
<1>7. ASSUME NEW n \in 1 .. N, n - 1 \in T PROVE n \in T
  <2>1. n \in 1 .. L - 2 /\ n - 1 \in 0 .. N /\ n \in 0 .. N
    BY <1>1
  <2>2. f[n - 1] \in Register
    BY <2>1
  <2>3. left[8 * (n - 1)] = Aligned(f[n - 1], 8 * L - 16 - 8 * (n - 1), Rest(bytes, n - 1))
    BY <1>7
  <2>4. f[n] = AddByte(f[n - 1], bytes[n])
    BY <1>2, <2>1
  <2>5. left[8 * n] = Aligned(AddByte(f[n - 1], bytes[n]), 8 * L - 16 - 8 * n, Rest(bytes, n))
    BY <1>5, <2>1, <2>2, <2>3, ByteSteps, Zenon
  <2> QED
    BY <2>1, <2>4, <2>5, Zenon
<1> HIDE DEF T
<1>8. 0 .. N \subseteq T
  BY <1>1, <1>6, <1>7, InductionTo, Zenon
<1>9. left[8 * N] = Aligned(f[N], 8 * L - 16 - 8 * N, Rest(bytes, N))
  <2>1. N \in T
    BY <1>1, <1>8
  <2> QED
    BY <2>1, Zenon DEF T
<1>10. 8 * N = 8 * L - 16 /\ 8 * L - 16 - 8 * N = 0 /\ N \in 0 .. N
  OBVIOUS
<1> HIDE DEF N
<1>11. f[N] \in Register
  BY <1>10
<1>12. Remainder(Codeword(bytes), 8 * L - 1) = Aligned(f[N], 0, Rest(bytes, N))
  BY <1>5, <1>9, <1>10, Zenon
<1> QED
  BY <1>2, <1>11, <1>12, Zenon DEF N

(* The last two bytes are the CRC of the bytes before them exactly if the  *)
(* generator divides all bytes.                                            *)
Ends(bytes, L, data) ==
  /\ L \in Nat /\ L >= 2
  /\ bytes \in Seq(Byte) /\ Len(bytes) = L
  /\ Len(data) = L - 2
  /\ \A n \in 1 .. L - 2 : data[n] = bytes[n]

EndsWithCrc(bytes, L, data) == <<bytes[L - 1], bytes[L]>> = calculateCRC16(data)

LEMMA CrcDivides ==
  ASSUME NEW bytes, NEW L, NEW data, Ends(bytes, L, data)
  PROVE  EndsWithCrc(bytes, L, data) <=> Remainder(Codeword(bytes), 8 * L - 1) = {}
<1>ends. /\ L \in Nat /\ L >= 2 /\ bytes \in Seq(Byte) /\ Len(bytes) = L
         /\ Len(data) = L - 2 /\ \A n \in 1 .. L - 2 : data[n] = bytes[n]
  BY DEF Ends
<1>1. DOMAIN bytes = 1 .. L
  BY <1>ends
<1>2. PICK crc \in Register :
        /\ calculateCRC16(data) = Result(crc)
        /\ Remainder(Codeword(bytes), 8 * L - 1) = Aligned(crc, 0, Rest(bytes, L - 2))
  BY <1>1, <1>ends, LoopsDivide, Zenon
<1>3. bytes[L - 1] \in Byte /\ bytes[L] \in Byte
  <2>1. L - 1 \in 1 .. Len(bytes) /\ L \in 1 .. Len(bytes)
    BY <1>ends
  <2> QED
    BY <1>ends, <2>1, ElementOfSeq, Zenon
<1> DEFINE last == ShiftUp(OnesOf(bytes[L - 1]), 8) \union OnesOf(bytes[L])
           rest == Rest(bytes, L - 2)
<1>4. ASSUME NEW x PROVE x \in rest <=> x \in last
  <2>1. \A i : i \in (L - 2) + 1 .. Len(bytes) <=> i = L - 1 \/ i = L
    BY <1>ends
  <2>2. 8 * (Len(bytes) - (L - 1)) = 8 /\ 8 * (Len(bytes) - L) = 0
    BY <1>ends
  <2>3. x \in rest <=> \E i \in (L - 2) + 1 .. Len(bytes) :
                          x \in ShiftUp(OnesOf(bytes[i]), 8 * (Len(bytes) - i))
    BY DEF Rest
  <2>4. x \in rest <=> x \in ShiftUp(OnesOf(bytes[L - 1]), 8) \/ x \in ShiftUp(OnesOf(bytes[L]), 0)
    BY <2>1, <2>2, <2>3, Zenon
  <2>5. x \in ShiftUp(OnesOf(bytes[L]), 0) <=> x \in Int /\ x - 0 \in OnesOf(bytes[L])
    BY InShiftUp, OnesArePolynomial
  <2>6. x \in Int /\ x - 0 \in OnesOf(bytes[L]) <=> x \in OnesOf(bytes[L])
    BY OnesArePolynomial
  <2> QED
    BY <2>4, <2>5, <2>6
<1>5. rest = last
  BY <1>4
<1>6. <<bytes[L - 1], bytes[L]>> = Result(crc) <=> crc = last
  <2>1. IsResult(crc, bytes[L - 1], bytes[L]) <=> HasBytes(crc, bytes[L - 1], bytes[L])
    BY <1>3, ResultIs, Zenon
  <2> QED
    BY <2>1, Zenon DEF IsResult, HasBytes
<1> HIDE DEF last, rest
<1>7. Aligned(crc, 0, rest) = {} <=> crc = rest
  <2>1. rest \in SUBSET Int /\ crc \in SUBSET Int
    <3>1. L - 2 \in 0 .. Len(bytes) /\ Len(bytes) \in Nat
      BY <1>ends
    <3> QED
      BY <3>1, RestIsPolynomial DEF Register, rest
  <2>2. \A x : x \in Aligned(crc, 0, rest) <=> x \in Int /\ ~ (x - 0 \in crc <=> x \in rest)
    BY <2>1, InAligned
  <2>3. \A x \in Int : x - 0 = x
    OBVIOUS
  <2>4. \A x : x \in Aligned(crc, 0, rest) <=> x \in Int /\ ~ (x \in crc <=> x \in rest)
    BY <2>2, <2>3
  <2> QED
    BY <2>1, <2>4
<1> QED
  BY <1>2, <1>5, <1>6, <1>7, Zenon DEF rest, EndsWithCrc

-----------------------------------------------------------------------------
(* Packets. *)

LEMMA Pair ==
  ASSUME NEW S, NEW a \in S, NEW b \in S
  PROVE  <<a, b>> \in Seq(S) /\ Len(<<a, b>>) = 2 /\ <<a, b>>[1] = a /\ <<a, b>>[2] = b
OBVIOUS

(* Packets and payloads are functions and sequences alike.                 *)
LEMMA BytesAreSequence ==
  ASSUME NEW n \in Nat, NEW S, NEW f
  PROVE  f \in [1 .. n -> S] <=> f \in Seq(S) /\ Len(f) = n
OBVIOUS

(* The CRC of a sequence is two bytes.                                     *)
LEMMA CrcIsBytes ==
  ASSUME NEW data, Len(data) \in Nat
  PROVE  \E high \in Byte, low \in Byte : calculateCRC16(data) = <<high, low>>
<1>1. PICK crc : calculateCRC16(data) = Result(crc)
  BY CrcIs, Zenon
<1>2. \A ones : ByteOf(ones) \in Byte
  BY ByteOfOnes, ByteIs
<1> QED
  BY <1>1, <1>2, Zenon DEF Result

(* Framing asks of a CRC that it gives bytes, as many as the packet has    *)
(* room for; this one does (main.cpp:118-135).                             *)
THEOREM CrcFitsFraming ==
  \A data \in [1 .. 9 -> Byte] : calculateCRC16(data) \in [1 .. 2 -> Byte]
<1> TAKE data \in [1 .. 9 -> Byte]
<1>1. Len(data) \in Nat
  <2>1. 9 \in Nat
    OBVIOUS
  <2>2. Len(data) = 9
    BY <2>1, BytesAreSequence, Zenon
  <2> QED
    BY <2>1, <2>2, Zenon
<1>2. PICK high \in Byte, low \in Byte : calculateCRC16(data) = <<high, low>>
  BY <1>1, CrcIsBytes, Zenon
<1>3. <<high, low>> \in Seq(Byte) /\ Len(<<high, low>>) = 2
  BY Pair, Zenon
<1>4. 2 \in Nat
  OBVIOUS
<1>5. <<high, low>> \in [1 .. 2 -> Byte]
  BY <1>3, <1>4, BytesAreSequence, Zenon
<1> QED
  BY <1>2, <1>5, Zenon

(* The bytes of a payload, and that every value comes out as it went in.   *)
LEMMA PayloadKeepsValues ==
  ASSUME NEW raw \in [Servo -> Raw]
  PROVE  /\ PayloadOf(raw) \in Seq(Byte) /\ Len(PayloadOf(raw)) = 8
         /\ \A servo \in Servo : RawAt(PayloadOf(raw), servo) = raw[servo]
<1>1. ASSUME NEW servo \in Servo
      PROVE  /\ push(raw[servo])[1] \in Byte /\ push(raw[servo])[2] \in Byte
             /\ 256 * push(raw[servo])[1] + push(raw[servo])[2] = raw[servo]
  <2>1. raw[servo] \in Int /\ 0 <= raw[servo] /\ raw[servo] <= 65535
    BY RawIs, Constants
  <2>2. ASSUME NEW n \in Int, 0 <= n, n <= 65535
        PROVE  /\ n \div 256 \in Int /\ 0 <= n \div 256 /\ n \div 256 <= 255
               /\ (n % 256) \in Int /\ 0 <= (n % 256) /\ (n % 256) <= 255
               /\ 256 * (n \div 256) + (n % 256) = n
    BY <2>2
  <2>3. /\ raw[servo] \div 256 \in Byte /\ (raw[servo] % 256) \in Byte
        /\ 256 * (raw[servo] \div 256) + (raw[servo] % 256) = raw[servo]
    BY <2>1, <2>2, ByteIs
  <2> QED
    BY <2>3, Pair DEF push
<1>2. ASSUME NEW i \in 1 .. 8
      PROVE  push(raw[(i + 1) \div 2])[2 - (i % 2)] \in Byte
  <2>1. (i + 1) \div 2 \in Servo /\ 2 - (i % 2) \in {1, 2}
    BY DEF Servo
  <2> QED
    BY <1>1, <2>1
<1>3. PayloadOf(raw) \in [1 .. 8 -> Byte]
  BY <1>2 DEF PayloadOf
<1>4. PayloadOf(raw) \in Seq(Byte) /\ Len(PayloadOf(raw)) = 8
  <2>1. 8 \in Nat
    OBVIOUS
  <2> QED
    BY <1>3, <2>1, BytesAreSequence, Zenon
<1>5. ASSUME NEW servo \in Servo
      PROVE  RawAt(PayloadOf(raw), servo) = raw[servo]
  <2>1. /\ 2 * servo - 1 \in 1 .. 8 /\ (2 * servo - 1 + 1) \div 2 = servo
        /\ 2 - ((2 * servo - 1) % 2) = 1
        /\ 2 * servo \in 1 .. 8 /\ (2 * servo + 1) \div 2 = servo
        /\ 2 - ((2 * servo) % 2) = 2
    BY DEF Servo
  <2>2. /\ PayloadOf(raw)[2 * servo - 1] = push(raw[servo])[1]
        /\ PayloadOf(raw)[2 * servo] = push(raw[servo])[2]
    BY <2>1 DEF PayloadOf
  <2> QED
    BY <1>1, <2>2 DEF RawAt
<1> QED
  BY <1>4, <1>5

(* The parts of a packet, and that a packet has them where the decoders    *)
(* look for them.                                                          *)
AreParts(S, front, body, crc) ==
  /\ front \in Seq(S) /\ Len(front) = 2
  /\ body \in Seq(S) /\ Len(body) = 8
  /\ crc \in Seq(S) /\ Len(crc) = 2

HasParts(S, frame, front, body, crc) ==
  /\ frame \in Seq(S) /\ Len(frame) = 12
  /\ frame[1] = front[1] /\ frame[2] = front[2]
  /\ SubSeq(frame, 3, 10) = body
  /\ SubSeq(frame, 2, 10) = <<front[2]>> \o body
  /\ SubSeq(frame, 11, 12) = crc

LEMMA FrameParts ==
  ASSUME NEW S, NEW front, NEW body, NEW crc, AreParts(S, front, body, crc)
  PROVE  HasParts(S, front \o body \o crc, front, body, crc)
<1> DEFINE data == front \o body
           frame == data \o crc
           inner == <<front[2]>> \o body
<1>sizes. /\ front \in Seq(S) /\ Len(front) = 2 /\ body \in Seq(S) /\ Len(body) = 8
          /\ crc \in Seq(S) /\ Len(crc) = 2
  BY DEF AreParts
<1>1. /\ data \in Seq(S) /\ Len(data) = Len(front) + Len(body)
      /\ \A i \in 1 .. Len(front) + Len(body) :
           data[i] = IF i <= Len(front) THEN front[i] ELSE body[i - Len(front)]
  BY <1>sizes, ConcatProperties, ZenonT(30)
<1>data. data \in Seq(S)
  BY <1>1
<1> HIDE DEF data
<1>2. /\ frame \in Seq(S) /\ Len(frame) = Len(data) + Len(crc)
      /\ \A i \in 1 .. Len(data) + Len(crc) :
           frame[i] = IF i <= Len(data) THEN data[i] ELSE crc[i - Len(data)]
  BY <1>sizes, <1>data, ConcatProperties, ZenonT(30)
<1> HIDE DEF frame
<1>3. Len(data) = 10 /\ Len(frame) = 12
  BY <1>sizes, <1>1, <1>2
<1>4. /\ frame[1] = front[1] /\ frame[2] = front[2]
      /\ \A i \in 3 .. 10 : frame[i] = body[i - 2]
      /\ \A i \in 11 .. 12 : frame[i] = crc[i - 10]
  BY <1>sizes, <1>1, <1>2, <1>3
<1>5. ASSUME NEW m \in 1 .. 12, NEW n \in m .. 12
      PROVE  /\ SubSeq(frame, m, n) \in Seq(S) /\ Len(SubSeq(frame, m, n)) = n - m + 1
             /\ \A i \in 1 .. n - m + 1 : SubSeq(frame, m, n)[i] = frame[m + i - 1]
  <2>1. \A i \in m .. n : i \in 1 .. Len(frame)
    BY <1>3
  <2>2. \A i \in m .. n : frame[i] \in S
    BY <1>2, <2>1, ElementOfSeq, ZenonT(30)
  <2> QED
    BY <2>2, SubSeqProperties
<1>6. SubSeq(frame, 3, 10) = body
  <2>1. /\ SubSeq(frame, 3, 10) \in Seq(S) /\ Len(SubSeq(frame, 3, 10)) = 8
        /\ \A i \in 1 .. 8 : SubSeq(frame, 3, 10)[i] = frame[3 + i - 1]
    BY <1>5
  <2>2. ASSUME NEW i \in 1 .. 8 PROVE frame[3 + i - 1] = body[i]
    <3>1. 3 + i - 1 \in 3 .. 10 /\ 3 + i - 1 - 2 = i
      OBVIOUS
    <3> QED
      BY <1>4, <3>1
  <2> QED
    BY <1>sizes, <2>1, <2>2, SeqEqual
<1>7. SubSeq(frame, 11, 12) = crc
  <2>1. /\ SubSeq(frame, 11, 12) \in Seq(S) /\ Len(SubSeq(frame, 11, 12)) = 2
        /\ \A i \in 1 .. 2 : SubSeq(frame, 11, 12)[i] = frame[11 + i - 1]
    BY <1>5
  <2>2. ASSUME NEW i \in 1 .. 2 PROVE frame[11 + i - 1] = crc[i]
    <3>1. 11 + i - 1 \in 11 .. 12 /\ 11 + i - 1 - 10 = i
      OBVIOUS
    <3> QED
      BY <1>4, <3>1
  <2> QED
    BY <1>sizes, <2>1, <2>2, SeqEqual
<1>8. /\ <<front[2]>> \in Seq(S) /\ Len(<<front[2]>>) = 1 /\ <<front[2]>>[1] = front[2]
  <2>1. 2 \in 1 .. Len(front)
    BY <1>sizes
  <2>2. front[2] \in S
    BY <1>sizes, <2>1, ElementOfSeq, ZenonT(30)
  <2> HIDE DEF inner
  <2> QED
    BY <2>2
<1>9. /\ inner \in Seq(S) /\ Len(inner) = Len(<<front[2]>>) + Len(body)
      /\ \A i \in 1 .. Len(<<front[2]>>) + Len(body) :
           inner[i] = IF i <= Len(<<front[2]>>) THEN <<front[2]>>[i]
                                                ELSE body[i - Len(<<front[2]>>)]
  BY <1>sizes, <1>8, ConcatProperties, ZenonT(30)
<1> HIDE DEF inner
<1>10. SubSeq(frame, 2, 10) = inner
  <2>1. /\ SubSeq(frame, 2, 10) \in Seq(S) /\ Len(SubSeq(frame, 2, 10)) = 9
        /\ \A i \in 1 .. 9 : SubSeq(frame, 2, 10)[i] = frame[2 + i - 1]
    BY <1>5
  <2>2. Len(inner) = 9
    BY <1>sizes, <1>8, <1>9
  <2>3. inner[1] = front[2] /\ \A i \in 2 .. 9 : inner[i] = body[i - 1]
    BY <1>sizes, <1>8, <1>9
  <2>4. ASSUME NEW i \in 1 .. 9 PROVE frame[2 + i - 1] = inner[i]
    BY <1>4, <2>3
  <2> QED
    BY <1>9, <2>1, <2>2, <2>4, SeqEqual
<1> QED
  BY <1>2, <1>3, <1>4, <1>6, <1>7, <1>10, Zenon DEF HasParts, data, frame, inner

(* A packet that was built is valid, of its type, and holds its payload.   *)
IsPacket(packet) == packet \in Seq(Byte) /\ Len(packet) = 12

LEMMA FrameIsValid ==
  ASSUME NEW type \in {0, 40}, NEW payload \in Seq(Byte), Len(payload) = 8
  PROVE  /\ Packets!ValidAt(Packets!Frame(type, payload), 1)
         /\ Packets!Frame(type, payload)[2] = type
         /\ SubSeq(Packets!Frame(type, payload), 3, 10) = payload
         /\ IsPacket(Packets!Frame(type, payload))
<1> DEFINE S == Byte
           frame == Packets!Frame(type, payload)
<1>type. type \in Byte /\ 255 \in Byte
  BY ByteIs
<1>crc. PICK high \in Byte, low \in Byte : calculateCRC16(<<type>> \o payload) = <<high, low>>
  <2> DEFINE data == <<type>> \o payload
  <2>1. <<type>> \in Seq(Byte)
    BY <1>type
  <2>2. data \in Seq(Byte)
    BY <2>1, ConcatProperties, ZenonT(30)
  <2> HIDE DEF data
  <2>3. Len(data) \in Nat
    BY <2>2
  <2>4. \E high \in Byte, low \in Byte : calculateCRC16(data) = <<high, low>>
    BY <2>3, CrcIsBytes, Zenon
  <2> QED
    BY <2>4, Zenon DEF data
<1>1. /\ <<255, type>> \in Seq(S) /\ Len(<<255, type>>) = 2
      /\ <<255, type>>[1] = 255 /\ <<255, type>>[2] = type
      /\ <<high, low>> \in Seq(S) /\ Len(<<high, low>>) = 2
  <2>1. /\ <<255, type>> \in Seq(Byte) /\ Len(<<255, type>>) = 2
        /\ <<255, type>>[1] = 255 /\ <<255, type>>[2] = type
    BY <1>type, Pair, ZenonT(30)
  <2>2. <<high, low>> \in Seq(Byte) /\ Len(<<high, low>>) = 2
    BY Pair, ZenonT(30)
  <2> QED
    BY <2>1, <2>2, Zenon
<1>2. payload \in Seq(S)
  OBVIOUS
<1>3. frame = <<255, type>> \o payload \o <<high, low>>
  BY <1>crc, Zenon DEF Packets!Frame
<1> HIDE DEF S, frame
<1>4. /\ frame \in Seq(S) /\ Len(frame) = 12
      /\ frame[1] = 255 /\ frame[2] = type
      /\ SubSeq(frame, 3, 10) = payload
      /\ SubSeq(frame, 2, 10) = <<type>> \o payload
      /\ SubSeq(frame, 11, 12) = <<high, low>>
  <2> PICK front, crc : front = <<255, type>> /\ crc = <<high, low>>
    OBVIOUS
  <2>1. /\ front \in Seq(S) /\ Len(front) = 2 /\ crc \in Seq(S) /\ Len(crc) = 2
        /\ front[1] = 255 /\ front[2] = type
    BY <1>1
  <2>2. frame = front \o payload \o crc
    BY <1>3
  <2>parts. HasParts(S, front \o payload \o crc, front, payload, crc)
    <3>1. AreParts(S, front, payload, crc)
      BY <1>2, <2>1 DEF AreParts
    <3> QED
      BY <3>1, FrameParts, Zenon
  <2>3. /\ frame \in Seq(S) /\ Len(frame) = 12
        /\ frame[1] = front[1] /\ frame[2] = front[2]
        /\ SubSeq(frame, 3, 10) = payload
        /\ SubSeq(frame, 2, 10) = <<front[2]>> \o payload
        /\ SubSeq(frame, 11, 12) = crc
    BY <2>2, <2>parts, Zenon DEF HasParts
  <2>4. <<front[2]>> = <<type>>
    BY <2>1
  <2>5. frame[1] = 255 /\ frame[2] = type
    BY <2>1, <2>3, Zenon
  <2>6. SubSeq(frame, 2, 10) = <<type>> \o payload
    BY <2>3, <2>4, Zenon
  <2>7. SubSeq(frame, 11, 12) = <<high, low>>
    BY <2>3, Zenon
  <2>8. frame \in Seq(S) /\ Len(frame) = 12 /\ SubSeq(frame, 3, 10) = payload
    BY <2>3, Zenon
  <2> QED
    BY <2>5, <2>6, <2>7, <2>8, Zenon
<1>5. Packets!ReceivedCrc(frame, 1) = <<high, low>>
  BY <1>4 DEF Packets!ReceivedCrc, Packets!FrameSize, Packets!HeaderSize
<1>6. Packets!Body(frame, 1) = <<type>> \o payload
  <2>1. Packets!Body(frame, 1) = SubSeq(frame, 2, 10)
    BY DEF Packets!Body, Packets!HeaderSize
  <2> QED
    BY <1>4, <2>1, Zenon
<1>7. Packets!Complete(frame, 1)
  BY <1>4 DEF Packets!Complete, Packets!FrameSize, Packets!HeaderSize
<1>8. Packets!HeaderPossible(frame, 1)
  BY <1>4 DEF Packets!HeaderPossible, Packets!PacketType
<1>9. Packets!ValidAt(frame, 1)
  BY <1>5, <1>6, <1>7, <1>8, <1>crc, Zenon DEF Packets!ValidAt
<1> QED
  BY <1>4, <1>9, Zenon DEF frame, S, IsPacket

-----------------------------------------------------------------------------
(* Damage. *)

(* The CRC of a packet is right exactly if the generator divides the       *)
(* packet behind its sync byte.                                            *)
CrcRight(packet) ==
  Packets!ReceivedCrc(packet, 1) = calculateCRC16(Packets!Body(packet, 1))

Divides(packet) == Remainder(Codeword(Tail(packet)), 87) = {}

(* The bytes of a packet, and those behind its sync byte.                  *)
LEMMA BytesOfPacket ==
  ASSUME NEW packet, IsPacket(packet)
  PROVE  /\ Tail(packet) \in Seq(Byte) /\ Len(Tail(packet)) = 11
         /\ \A i \in 1 .. 11 : Tail(packet)[i] = packet[i + 1]
         /\ \A i \in 1 .. 12 : packet[i] \in Byte
<1>1. packet \in Seq(Byte) /\ Len(packet) = 12
  BY DEF IsPacket
<1>2. \A i \in 1 .. 12 : packet[i] \in Byte
  BY <1>1, ElementOfSeq, Zenon
<1>3. packet # <<>>
  <2>1. Len(<<>>) = 0 /\ 12 # 0
    OBVIOUS
  <2> QED
    BY <1>1, <2>1, Zenon
<1>4. /\ Tail(packet) \in Seq(Byte) /\ Len(Tail(packet)) = Len(packet) - 1
      /\ \A i \in 1 .. Len(Tail(packet)) : Tail(packet)[i] = packet[i + 1]
  BY <1>1, <1>3, HeadTailProperties, Zenon
<1>5. Len(packet) - 1 = 11
  BY <1>1
<1> QED
  BY <1>2, <1>4, <1>5, Zenon

(* The two are the same for every packet, damaged or not.                  *)
LEMMA CrcRightIfDivides ==
  ASSUME NEW packet, IsPacket(packet)
  PROVE  CrcRight(packet) <=> Divides(packet)
<1> DEFINE bytes == Tail(packet)
           data == SubSeq(packet, 2, 10)
<1>1. /\ bytes \in Seq(Byte) /\ Len(bytes) = 11
      /\ \A i \in 1 .. 11 : bytes[i] = packet[i + 1]
      /\ \A i \in 1 .. 12 : packet[i] \in Byte
  BY BytesOfPacket, Zenon
<1>2. ASSUME NEW m \in 1 .. 12, NEW n \in m .. 12
      PROVE  /\ SubSeq(packet, m, n) \in Seq(Byte) /\ Len(SubSeq(packet, m, n)) = n - m + 1
             /\ \A i \in 1 .. n - m + 1 : SubSeq(packet, m, n)[i] = packet[m + i - 1]
  <2>1. \A i \in m .. n : i \in 1 .. 12
    OBVIOUS
  <2>2. \A i \in m .. n : packet[i] \in Byte
    BY <1>1, <2>1, Zenon
  <2> HIDE DEF bytes, data
  <2> QED
    BY <2>2, SubSeqProperties
<1>3. /\ Len(data) = 9
      /\ \A i \in 1 .. 9 : data[i] = packet[i + 1]
      /\ SubSeq(packet, 11, 12) = <<packet[11], packet[12]>>
  <2>1. Len(data) = 9 /\ \A i \in 1 .. 9 : data[i] = packet[2 + i - 1]
    BY <1>2
  <2>2. \A i \in 1 .. 9 : 2 + i - 1 = i + 1
    OBVIOUS
  <2>3. /\ SubSeq(packet, 11, 12) \in Seq(Byte) /\ Len(SubSeq(packet, 11, 12)) = 2
        /\ \A i \in 1 .. 2 : SubSeq(packet, 11, 12)[i] = packet[11 + i - 1]
    BY <1>2
  <2>4. packet[11] \in Byte /\ packet[12] \in Byte
    BY <1>1
  <2>5. /\ <<packet[11], packet[12]>> \in Seq(Byte) /\ Len(<<packet[11], packet[12]>>) = 2
        /\ <<packet[11], packet[12]>>[1] = packet[11] /\ <<packet[11], packet[12]>>[2] = packet[12]
    BY <2>4, Pair, Zenon
  <2>6. ASSUME NEW i \in 1 .. 2
        PROVE  SubSeq(packet, 11, 12)[i] = <<packet[11], packet[12]>>[i]
    <3>1. i = 1 \/ i = 2
      OBVIOUS
    <3>2. 11 + 1 - 1 = 11 /\ 11 + 2 - 1 = 12
      OBVIOUS
    <3> QED
      BY <2>3, <2>5, <3>1, <3>2, Zenon
  <2>7. SubSeq(packet, 11, 12) = <<packet[11], packet[12]>>
    BY <2>3, <2>5, <2>6, SeqEqual, Zenon
  <2> QED
    BY <2>1, <2>2, <2>7, Zenon
<1> HIDE DEF bytes, data
<1>4. /\ 11 \in Nat /\ 11 >= 2 /\ 11 - 2 = 9 /\ 11 - 1 = 10 /\ 8 * 11 - 1 = 87
      /\ bytes[10] = packet[11] /\ bytes[11] = packet[12]
      /\ \A n \in 1 .. 9 : data[n] = bytes[n]
  BY <1>1, <1>3
<1>5. <<bytes[10], bytes[11]>> = calculateCRC16(data) <=> Remainder(Codeword(bytes), 87) = {}
  <2>1. Ends(bytes, 11, data)
    BY <1>1, <1>3, <1>4, Zenon DEF Ends
  <2>2. EndsWithCrc(bytes, 11, data) <=> Remainder(Codeword(bytes), 8 * 11 - 1) = {}
    BY <2>1, CrcDivides, Zenon
  <2> QED
    BY <1>4, <2>2, Zenon DEF EndsWithCrc
<1>6. /\ Packets!ReceivedCrc(packet, 1) = SubSeq(packet, 11, 12)
      /\ Packets!Body(packet, 1) = data
  BY DEF Packets!ReceivedCrc, Packets!Body, Packets!FrameSize, Packets!HeaderSize, data
<1> QED
  BY <1>3, <1>4, <1>5, <1>6, Zenon DEF CrcRight, Divides, bytes

(* The places of a byte that are hit.                                      *)
HitPlaces(bits, i) == {place \in 0 .. 7 : 8 * i - 1 - place \in bits}

(* A packet with flipped bits is a packet, its ones those that were not    *)
(* hit and those that were not there.                                      *)
LEMMA FlipIsPacket ==
  ASSUME NEW packet, IsPacket(packet), NEW bits
  PROVE  /\ IsPacket(FlipBits(packet, bits))
         /\ \A i \in 1 .. 12 :
              /\ FlipBits(packet, bits)[i] = ByteOf(SymDiff(OnesOf(packet[i]), HitPlaces(bits, i)))
              /\ OnesOf(FlipBits(packet, bits)[i]) = SymDiff(OnesOf(packet[i]), HitPlaces(bits, i))
<1> DEFINE ones(i) == SymDiff(OnesOf(packet[i]), HitPlaces(bits, i))
           packet2 == FlipBits(packet, bits)
<1>1. DOMAIN packet = 1 .. 12
  <2>1. \A S : \A s \in Seq(S) : DOMAIN s = 1 .. Len(s)
    OBVIOUS
  <2> QED
    BY <2>1, Zenon DEF IsPacket
<1>2. packet2 = [i \in 1 .. 12 |-> ByteOf(ones(i))]
  BY <1>1, Zenon DEF FlipBits, HitPlaces
<1> HIDE DEF packet2
<1>3. \A i : ones(i) \cap 0 .. 7 = ones(i)
  <2>1. \A i, x : x \in ones(i) => x \in 0 .. 7
    <3>1. \A i, x : x \in OnesOf(packet[i]) => x \in 0 .. 7
      BY Zenon DEF OnesOf
    <3>2. \A i, x : x \in HitPlaces(bits, i) => x \in 0 .. 7
      BY Zenon DEF HitPlaces
    <3> QED
      BY <3>1, <3>2, InSymDiff, Zenon
  <2> HIDE DEF ones
  <2> QED
    BY <2>1, Zenon
<1> HIDE DEF ones
<1>4. \A i : ByteOf(ones(i)) \in Byte /\ OnesOf(ByteOf(ones(i))) = ones(i)
  BY <1>3, ByteOfOnes, ByteIs
<1>5. packet2 \in [1 .. 12 -> Byte]
  BY <1>2, <1>4, Zenon
<1>6. \A i \in 1 .. 12 : packet2[i] = ByteOf(ones(i)) /\ OnesOf(packet2[i]) = ones(i)
  BY <1>2, <1>4, Zenon
<1>7. packet2 \in Seq(Byte) /\ Len(packet2) = 12
  <2>1. 12 \in Nat
    OBVIOUS
  <2> QED
    BY <1>5, <2>1, BytesAreSequence, Zenon
<1> QED
  BY <1>6, <1>7, Zenon DEF packet2, ones, IsPacket

(* Flipping the same bits again gives the packet back.                     *)
LEMMA FlipsBack ==
  ASSUME NEW packet, IsPacket(packet), NEW bits
  PROVE  FlipBits(FlipBits(packet, bits), bits) = packet
<1> DEFINE hit == FlipBits(packet, bits)
           back == FlipBits(hit, bits)
<1>1. /\ IsPacket(hit)
      /\ \A i \in 1 .. 12 : OnesOf(hit[i]) = SymDiff(OnesOf(packet[i]), HitPlaces(bits, i))
  BY FlipIsPacket, Zenon
<1> HIDE DEF hit
<1>2. /\ IsPacket(back)
      /\ \A i \in 1 .. 12 : OnesOf(back[i]) = SymDiff(OnesOf(hit[i]), HitPlaces(bits, i))
  BY <1>1, FlipIsPacket, Zenon
<1> HIDE DEF back
<1>3. ASSUME NEW i \in 1 .. 12 PROVE back[i] = packet[i]
  <2>1. ASSUME NEW x PROVE x \in OnesOf(back[i]) <=> x \in OnesOf(packet[i])
    <3>1. x \in OnesOf(back[i]) <=> ~ (x \in OnesOf(hit[i]) <=> x \in HitPlaces(bits, i))
      BY <1>2, InSymDiff, Zenon
    <3>2. x \in OnesOf(hit[i]) <=> ~ (x \in OnesOf(packet[i]) <=> x \in HitPlaces(bits, i))
      BY <1>1, InSymDiff, Zenon
    <3> QED
      BY <3>1, <3>2
  <2>2. OnesOf(back[i]) = OnesOf(packet[i])
    BY <2>1, Zenon
  <2>3. back[i] \in Byte /\ packet[i] \in Byte
    BY <1>2, BytesOfPacket, Zenon
  <2> QED
    BY <2>2, <2>3, SameOnes, Zenon
<1>4. back \in Seq(Byte) /\ packet \in Seq(Byte) /\ Len(back) = 12 /\ Len(packet) = 12
  BY <1>2, Zenon DEF IsPacket
<1>5. back = packet
  BY <1>3, <1>4, SeqEqual, Zenon
<1> QED
  BY <1>5, Zenon DEF back, hit

(* Where the bits of a packet behind its sync byte are in the polynomial.  *)
LEMMA BitOfPacket ==
  ASSUME NEW packet, IsPacket(packet), NEW i \in 1 .. 11, NEW place \in 0 .. 7, NEW x \in Int,
         x = 8 * (11 - i) + place
  PROVE  x \in BitsOf(Tail(packet)) <=> place \in OnesOf(packet[i + 1])
<1> DEFINE bytes == Tail(packet)
<1>1. bytes \in Seq(Byte) /\ Len(bytes) = 11 /\ \A j \in 1 .. 11 : bytes[j] = packet[j + 1]
  BY BytesOfPacket, Zenon
<1> HIDE DEF bytes
<1>2. DOMAIN bytes = 1 .. 11
  BY <1>1
<1>3. x \in BitsOf(bytes) <=> \E j \in 1 .. 11 : x \in ShiftUp(OnesOf(bytes[j]), 8 * (11 - j))
  BY <1>1, <1>2 DEF BitsOf
<1>4. ASSUME NEW j \in 1 .. 11
      PROVE  x \in ShiftUp(OnesOf(bytes[j]), 8 * (11 - j)) <=> j = i /\ place \in OnesOf(bytes[i])
  <2>1. x \in ShiftUp(OnesOf(bytes[j]), 8 * (11 - j)) <=> x - 8 * (11 - j) \in OnesOf(bytes[j])
    <3>1. 8 * (11 - j) \in Int
      OBVIOUS
    <3> QED
      BY <3>1, InShiftUp, OnesArePolynomial
  <2>2. x - 8 * (11 - j) \in OnesOf(bytes[j]) => 0 <= x - 8 * (11 - j) /\ x - 8 * (11 - j) <= 7
    BY InOnes
  <2>3. 0 <= x - 8 * (11 - j) /\ x - 8 * (11 - j) <= 7 <=> j = i
    OBVIOUS
  <2>4. j = i => x - 8 * (11 - j) = place
    OBVIOUS
  <2> QED
    BY <2>1, <2>2, <2>3, <2>4, Zenon
<1> QED
  BY <1>1, <1>3, <1>4, Zenon DEF bytes

(* Behind the sync byte there are 88 bits.                                 *)
LEMMA BitsBehindSync ==
  ASSUME NEW packet, IsPacket(packet), NEW x \in BitsOf(Tail(packet))
  PROVE  x \in Int /\ 0 <= x /\ x <= 87
<1> DEFINE bytes == Tail(packet)
<1>1. bytes \in Seq(Byte) /\ Len(bytes) = 11
  BY BytesOfPacket, Zenon
<1> HIDE DEF bytes
<1>2. DOMAIN bytes = 1 .. 11
  BY <1>1
<1>3. \E j \in 1 .. 11 : x \in ShiftUp(OnesOf(bytes[j]), 8 * (11 - j))
  BY <1>1, <1>2 DEF BitsOf, bytes
<1>4. PICK j \in 1 .. 11 : x \in ShiftUp(OnesOf(bytes[j]), 8 * (11 - j))
  BY <1>3
<1>5. x \in Int /\ x - 8 * (11 - j) \in OnesOf(bytes[j])
  <2>1. 8 * (11 - j) \in Int
    OBVIOUS
  <2> QED
    BY <1>4, <2>1, InShiftUp, OnesArePolynomial
<1>6. 0 <= x - 8 * (11 - j) /\ x - 8 * (11 - j) <= 7
  BY <1>5, InOnes
<1> QED
  BY <1>5, <1>6

(* The bits hit are added to the polynomial of the packet.                 *)
BehindSync(bits) == \A bit \in bits : bit \in Int /\ 8 <= bit /\ bit <= 95

LEMMA ErrorsAre ==
  ASSUME NEW bits
  PROVE  Errors(bits) = {95 - bit : bit \in bits}
<1>1. 8 * Packets!FrameSize - 1 = 95
  BY DEF Packets!FrameSize, Packets!HeaderSize
<1> DEFINE last == 8 * Packets!FrameSize - 1
<1>2. Errors(bits) = {last - bit : bit \in bits}
  BY Zenon DEF Errors
<1>3. last = 95
  BY <1>1
<1> HIDE DEF last
<1> QED
  BY <1>2, <1>3

(* Flipping bits behind the sync byte adds them to the packet.             *)
LEMMA FlippedBits ==
  ASSUME NEW packet, IsPacket(packet), NEW bits, BehindSync(bits)
  PROVE  BitsOf(Tail(FlipBits(packet, bits))) = SymDiff(BitsOf(Tail(packet)), Errors(bits))
<1> DEFINE hit == FlipBits(packet, bits)
<1>1. /\ IsPacket(hit)
      /\ \A i \in 1 .. 12 : OnesOf(hit[i]) = SymDiff(OnesOf(packet[i]), HitPlaces(bits, i))
  BY FlipIsPacket, Zenon
<1> HIDE DEF hit
<1>errors. \A x : x \in Errors(bits) <=> x \in Int /\ 95 - x \in bits
  BY ErrorsAre DEF BehindSync
<1>2. ASSUME NEW x \in Int, 0 <= x, x <= 87
      PROVE  x \in BitsOf(Tail(hit)) <=> ~ (x \in BitsOf(Tail(packet)) <=> x \in Errors(bits))
  <2> DEFINE i == 11 - (x \div 8)
             place == x % 8
  <2>1. /\ i \in 1 .. 11 /\ place \in 0 .. 7 /\ x = 8 * (11 - i) + place
        /\ 8 * (i + 1) - 1 - place = 95 - x /\ i + 1 \in 1 .. 12
    BY <1>2
  <2> HIDE DEF i, place
  <2>2. x \in BitsOf(Tail(hit)) <=> place \in OnesOf(hit[i + 1])
    BY <1>1, <2>1, BitOfPacket, Zenon
  <2>3. x \in BitsOf(Tail(packet)) <=> place \in OnesOf(packet[i + 1])
    BY <2>1, BitOfPacket, Zenon
  <2>4. place \in OnesOf(hit[i + 1])
          <=> ~ (place \in OnesOf(packet[i + 1]) <=> place \in HitPlaces(bits, i + 1))
    <3>1. OnesOf(hit[i + 1]) = SymDiff(OnesOf(packet[i + 1]), HitPlaces(bits, i + 1))
      BY <1>1, <2>1, Zenon
    <3>2. \A A, B : place \in SymDiff(A, B) <=> ~ (place \in A <=> place \in B)
      BY InSymDiff
    <3> QED
      BY <3>1, <3>2, Zenon
  <2>5. place \in HitPlaces(bits, i + 1) <=> 95 - x \in bits
    BY <2>1, Zenon DEF HitPlaces
  <2> QED
    BY <1>errors, <2>2, <2>3, <2>4, <2>5
<1>3. ASSUME NEW x, ~ (x \in Int /\ 0 <= x /\ x <= 87)
      PROVE  x \notin BitsOf(Tail(hit)) /\ x \notin BitsOf(Tail(packet)) /\ x \notin Errors(bits)
  <2>1. x \notin BitsOf(Tail(hit)) /\ x \notin BitsOf(Tail(packet))
    BY <1>1, <1>3, BitsBehindSync, Zenon
  <2>2. x \notin Errors(bits)
    BY <1>3, <1>errors DEF BehindSync
  <2> QED
    BY <2>1, <2>2
<1>4. \A x : x \in BitsOf(Tail(hit)) <=> x \in SymDiff(BitsOf(Tail(packet)), Errors(bits))
  BY <1>2, <1>3, InSymDiff, Zenon
<1>5. BitsOf(Tail(hit)) = SymDiff(BitsOf(Tail(packet)), Errors(bits))
  BY <1>4, Zenon
<1> QED
  BY <1>5, Zenon DEF hit

(* So it does to what the CRC divides.                                     *)
LEMMA FlippedCodeword ==
  ASSUME NEW packet, IsPacket(packet), NEW bits, BehindSync(bits)
  PROVE  /\ Codeword(Tail(packet)) \in SUBSET Int /\ Errors(bits) \in SUBSET Int
         /\ Codeword(Tail(FlipBits(packet, bits))) = SymDiff(Codeword(Tail(packet)), Errors(bits))
<1> DEFINE inverted == 8 * 11 - 16 .. 8 * 11 - 1
           hit == FlipBits(packet, bits)
<1>1. IsPacket(hit)
  BY FlipIsPacket, Zenon
<1>2. BitsOf(Tail(hit)) = SymDiff(BitsOf(Tail(packet)), Errors(bits))
  BY FlippedBits, Zenon
<1> HIDE DEF hit
<1>3. Len(Tail(packet)) = 11 /\ Len(Tail(hit)) = 11
  BY <1>1, BytesOfPacket, Zenon
<1>4. inverted \in SUBSET Int
  OBVIOUS
<1> HIDE DEF inverted
<1>5. /\ Codeword(Tail(packet)) = SymDiff(inverted, BitsOf(Tail(packet)))
      /\ Codeword(Tail(hit)) = SymDiff(inverted, BitsOf(Tail(hit)))
  BY <1>3, Zenon DEF Codeword, inverted
<1>6. BitsOf(Tail(packet)) \in SUBSET Int
  <2>1. \A x \in BitsOf(Tail(packet)) : x \in Int
    BY BitsBehindSync, Zenon
  <2> QED
    BY <2>1, Zenon
<1>7. Errors(bits) \in SUBSET Int
  BY ErrorsAre DEF BehindSync
<1>8. SymDiff(inverted, BitsOf(Tail(packet))) \in SUBSET Int
  BY <1>4, <1>6 DEF SymDiff
<1>9. SymDiff(inverted, SymDiff(BitsOf(Tail(packet)), Errors(bits)))
        = SymDiff(SymDiff(inverted, BitsOf(Tail(packet))), Errors(bits))
  BY SymDiffAssociates
<1>10. Codeword(Tail(hit)) = SymDiff(Codeword(Tail(packet)), Errors(bits))
  BY <1>2, <1>5, <1>9, Zenon
<1> QED
  BY <1>5, <1>7, <1>8, <1>10, Zenon DEF hit

(* A packet that is valid when bits are flipped back was not valid before: *)
(* the sync byte shows bits flipped in it, the CRC the others.             *)
CanHit(bits) == bits # {} /\ bits \subseteq 0 .. 95 /\ Detectable(bits)

(* A sync byte with flipped bits is none.                                  *)
LEMMA SyncShowsDamage ==
  ASSUME NEW packet, IsPacket(packet), NEW bits, CanHit(bits), NEW bit \in bits, bit < 8
  PROVE  FlipBits(packet, bits)[1] # packet[1]
<1>1. 1 \in 1 .. 12 /\ 8 * 1 - 1 = 7
  OBVIOUS
<1>2. OnesOf(FlipBits(packet, bits)[1]) = SymDiff(OnesOf(packet[1]), HitPlaces(bits, 1))
  BY <1>1, FlipIsPacket, Zenon
<1>3. bit \in Int /\ 0 <= bit
  BY DEF CanHit
<1>4. 7 - bit \in HitPlaces(bits, 1)
  <2>1. 7 - bit \in 0 .. 7 /\ 8 * 1 - 1 - (7 - bit) = bit
    BY <1>3
  <2> QED
    BY <2>1 DEF HitPlaces
<1>5. ~ (7 - bit \in OnesOf(FlipBits(packet, bits)[1]) <=> 7 - bit \in OnesOf(packet[1]))
  <2> DEFINE was == OnesOf(packet[1])
             are == OnesOf(FlipBits(packet, bits)[1])
             place == 7 - bit
  <2>1. are = SymDiff(was, HitPlaces(bits, 1)) /\ place \in HitPlaces(bits, 1)
    BY <1>2, <1>4, Zenon
  <2> HIDE DEF was, are, place
  <2>2. ~ (place \in are <=> place \in was)
    BY <2>1, InSymDiff
  <2> QED
    BY <2>2, Zenon DEF was, are, place
<1> QED
  BY <1>5, Zenon

(* Other damage leaves a remainder, since the division is linear.          *)
LEMMA DamageShows ==
  ASSUME NEW packet, IsPacket(packet), NEW bits, CanHit(bits),
         Packets!ValidAt(FlipBits(packet, bits), 1)
  PROVE  ~ Packets!ValidAt(packet, 1)
<1> SUFFICES ASSUME Packets!ValidAt(packet, 1) PROVE FALSE
  OBVIOUS
<1>1. IsPacket(FlipBits(packet, bits))
  BY FlipIsPacket, Zenon
<1>2. FlipBits(packet, bits)[1] = 255 /\ packet[1] = 255
  BY Zenon DEF Packets!ValidAt, Packets!HeaderPossible
<1>3. Divides(packet) /\ Divides(FlipBits(packet, bits))
  <2>1. CrcRight(packet) /\ CrcRight(FlipBits(packet, bits))
    BY Zenon DEF Packets!ValidAt, CrcRight
  <2> QED
    BY <1>1, <2>1, CrcRightIfDivides, Zenon
<1>4. \A bit \in bits : ~ (bit < 8)
  <2>1. ASSUME NEW bit \in bits, bit < 8 PROVE FALSE
    <3>1. FlipBits(packet, bits)[1] # packet[1]
      BY <2>1, SyncShowsDamage
    <3> QED
      BY <1>2, <3>1, Zenon
  <2> QED
    BY <2>1
<1>5. Remainder(Errors(bits), 87) # {}
  <2>1. 8 * Packets!FrameSize - 9 = 87
    BY DEF Packets!FrameSize, Packets!HeaderSize
  <2> QED
    BY <1>4, <2>1, Zenon DEF CanHit, Detectable
<1>6. BehindSync(bits)
  BY <1>4 DEF CanHit, BehindSync
<1>7. /\ Codeword(Tail(packet)) \in SUBSET Int /\ Errors(bits) \in SUBSET Int
      /\ Codeword(Tail(FlipBits(packet, bits))) = SymDiff(Codeword(Tail(packet)), Errors(bits))
  BY <1>6, FlippedCodeword, Zenon
<1>8. Remainder(SymDiff(Codeword(Tail(packet)), Errors(bits)), 87)
        = SymDiff(Remainder(Codeword(Tail(packet)), 87), Remainder(Errors(bits), 87))
  <2>1. 87 \in Int /\ 87 >= 15
    OBVIOUS
  <2> QED
    BY <1>7, <2>1, RemainderIsLinear, Zenon
<1>9. SymDiff({}, Remainder(Errors(bits), 87)) = {}
  BY <1>3, <1>7, <1>8, Zenon DEF Divides
<1>10. \A x : x \notin Remainder(Errors(bits), 87)
  <2> DEFINE left == Remainder(Errors(bits), 87)
  <2>1. SymDiff({}, left) = {}
    BY <1>9, Zenon
  <2> HIDE DEF left
  <2>2. \A x : x \notin left
    BY <2>1, InSymDiff
  <2> QED
    BY <2>2, Zenon DEF left
<1> QED
  BY <1>5, <1>10, Zenon

-----------------------------------------------------------------------------
(* The round trip. *)

(* The raw values of a command and of a status fit into sixteen bits.      *)
LEMMA RawOfCommand ==
  ASSUME NEW angles \in [Servo -> Int]
  PROVE  [servo \in Servo |-> encodeCommandAngle(angles[servo])] \in [Servo -> Raw]
BY CommandValue

LEMMA RawOfStatus ==
  ASSUME NEW angles \in [Servo -> Reachable], NEW falls \in SUBSET Servo
  PROVE  [servo \in Servo |-> publishedRaw(angles[servo], servo \in falls)] \in [Servo -> Raw]
<1>1. ASSUME NEW servo \in Servo
      PROVE  publishedRaw(angles[servo], servo \in falls) \in Raw
  <2>1. angles[servo] \in Reachable /\ (servo \in falls) \in BOOLEAN
    OBVIOUS
  <2> QED
    BY <2>1, PositionKept, Zenon
<1> QED
  BY <1>1

(* The firmware takes a command that the line has left alone.              *)
LEMMA CommandTaken ==
  ASSUME CommandUnderWay, TakeCommand, flipped = {}
  PROVE  targets' = [servo \in Servo |-> scaleAndClip(encodeCommandAngle(wanted[servo]))]
<1> DEFINE raw == [servo \in Servo |-> encodeCommandAngle(wanted[servo])]
<1>1. wanted \in [Servo -> Int] /\ wire = Packets!Frame(0, PayloadOf(raw))
  BY DEF CommandUnderWay, TakeCommand, encodeServoCommandPacket
<1>2. raw \in [Servo -> Raw]
  BY <1>1, RawOfCommand
<1> HIDE DEF raw
<1>3. /\ PayloadOf(raw) \in Seq(Byte) /\ Len(PayloadOf(raw)) = 8
      /\ \A servo \in Servo : RawAt(PayloadOf(raw), servo) = raw[servo]
  BY <1>2, PayloadKeepsValues, Zenon
<1>4. Accepts(wire, 0) /\ Payload = PayloadOf(raw)
  <2>1. 0 \in {0, 40}
    OBVIOUS
  <2>2. /\ Packets!ValidAt(wire, 1) /\ wire[2] = 0
        /\ SubSeq(wire, 3, 10) = PayloadOf(raw)
    BY <1>1, <1>3, <2>1, FrameIsValid, Zenon
  <2> QED
    BY <2>2, Zenon DEF Accepts, Payload
<1>5. targets' = handleServoCommand(PayloadOf(raw))
  BY <1>4, Zenon DEF TakeCommand
<1>6. targets' = [servo \in Servo |-> scaleAndClip(RawAt(PayloadOf(raw), servo))]
  BY <1>5, Zenon DEF handleServoCommand
<1>7. targets' = [servo \in Servo |-> scaleAndClip(raw[servo])]
  BY <1>3, <1>6, Zenon
<1>8. \A servo \in Servo : raw[servo] = encodeCommandAngle(wanted[servo])
  BY DEF raw
<1> QED
  BY <1>7, <1>8, Zenon

(* The host takes a status that the line has left alone.                   *)
LEMMA StatusTaken ==
  ASSUME StatusUnderWay, TakeStatus, flipped = {}
  PROVE  \E falls \in SUBSET Servo :
           shown' = [servo \in Servo |-> publishedRaw(positions[servo], servo \in falls) * Unit]
<1>1. PICK falls \in SUBSET Servo : wire = publishServoState(positions, falls)
  BY DEF StatusUnderWay, TakeStatus
<1> DEFINE raw == [servo \in Servo |-> publishedRaw(positions[servo], servo \in falls)]
<1>2. positions \in [Servo -> Reachable] /\ wire = Packets!Frame(40, PayloadOf(raw))
  BY <1>1 DEF StatusUnderWay, publishServoState
<1>3. raw \in [Servo -> Raw]
  BY <1>2, RawOfStatus
<1> HIDE DEF raw
<1>4. /\ PayloadOf(raw) \in Seq(Byte) /\ Len(PayloadOf(raw)) = 8
      /\ \A servo \in Servo : RawAt(PayloadOf(raw), servo) = raw[servo]
  BY <1>3, PayloadKeepsValues, Zenon
<1>5. Accepts(wire, 40) /\ Payload = PayloadOf(raw)
  <2>1. 40 \in {0, 40}
    OBVIOUS
  <2>2. /\ Packets!ValidAt(wire, 1) /\ wire[2] = 40
        /\ SubSeq(wire, 3, 10) = PayloadOf(raw)
    BY <1>2, <1>4, <2>1, FrameIsValid, Zenon
  <2> QED
    BY <2>2, Zenon DEF Accepts, Payload
<1>6. shown' = decode(PayloadOf(raw))
  BY <1>5, Zenon DEF TakeStatus
<1>7. shown' = [servo \in Servo |-> RawAt(PayloadOf(raw), servo) * Unit]
  BY <1>6, Zenon DEF decode
<1>8. shown' = [servo \in Servo |-> raw[servo] * Unit]
  BY <1>4, <1>7, Zenon
<1>9. \A servo \in Servo : raw[servo] = publishedRaw(positions[servo], servo \in falls)
  BY DEF raw
<1> QED
  BY <1>8, <1>9, Zenon

(* The host's command stays as it was sent until the line damages it.      *)
THEOREM CommandOnItsWay == Spec => []CommandUnderWay
<1>1. Init => CommandUnderWay
  BY Constants DEF Init, InitialPositions, CommandUnderWay
<1>2. CommandUnderWay /\ [Next]_vars => CommandUnderWay'
  <2> SUFFICES ASSUME CommandUnderWay, [Next]_vars PROVE CommandUnderWay'
    OBVIOUS
  <2>1. ASSUME NEW angles \in Commands, SendCommand(angles) PROVE CommandUnderWay'
    BY <2>1, AnglesAssumption DEF CommandUnderWay, SendCommand, encodeServoCommandPacket
  <2>2. ASSUME NEW move \in Moves, NEW falls \in SUBSET Servo, SendStatus(move, falls)
        PROVE  CommandUnderWay'
    BY <2>2 DEF CommandUnderWay, SendStatus
  <2>3. ASSUME NEW bits \in Damage, DamagePacket(bits) PROVE CommandUnderWay'
    BY <2>3, DamageAssumption DEF CommandUnderWay, DamagePacket
  <2>4. CASE TakeCommand
    BY <2>4 DEF CommandUnderWay, TakeCommand
  <2>5. CASE TakeStatus
    BY <2>5 DEF CommandUnderWay, TakeStatus
  <2>6. CASE UNCHANGED vars
    BY <2>6 DEF CommandUnderWay, vars, encodeServoCommandPacket
  <2> QED
    BY <2>1, <2>2, <2>3, <2>4, <2>5, <2>6, Zenon DEF Next
<1> QED
  BY <1>1, <1>2, PTL DEF Spec

(* Whatever is commanded and whatever the line damages: a command that     *)
(* comes through whole below a full turn moves the servo to the nearest    *)
(* place it can take (servo_protocol_decoder.cpp:176-180, main.cpp:        *)
(* 299-317).                                                               *)
THEOREM CommandsAreKept == Spec => CommandKept
<1>1. ASSUME CommandUnderWay, TakeCommand, flipped = {}, NEW servo \in Servo,
             wanted[servo] < TwoPi
      PROVE  Within(targets'[servo], Clip(0, wanted[servo], Pi), Unit \div 2)
  <2>1. targets'[servo] = scaleAndClip(encodeCommandAngle(wanted[servo]))
    BY <1>1, CommandTaken
  <2>2. wanted[servo] \in Int
    BY <1>1 DEF CommandUnderWay
  <2> QED
    BY <1>1, <2>1, <2>2, AngleKept, Zenon
<1>2. CommandUnderWay /\ [Next]_vars =>
        [TakeCommand /\ flipped = {} =>
           \A servo \in Servo : wanted[servo] < TwoPi =>
             Within(targets'[servo], Clip(0, wanted[servo], Pi), Unit \div 2)]_vars
  BY <1>1, Zenon
<1> QED
  BY <1>2, CommandOnItsWay, PTL DEF Spec, CommandKept

(* The pulses of two servos are ordered as their commands, and in range    *)
(* (main.cpp:143-172).                                                     *)
THEOREM PulsesAreInOrder == Spec => PulsesInOrder
<1> DEFINE Ordered(servo) ==
      /\ anglesToDutyCycle(targets'[servo]) \in Pulse
      /\ \A other \in Servo : wanted[servo] <= wanted[other] /\ wanted[other] < TwoPi =>
           anglesToDutyCycle(targets'[servo]) <= anglesToDutyCycle(targets'[other])
<1>1. ASSUME CommandUnderWay, TakeCommand, flipped = {}, NEW servo \in Servo
      PROVE  Ordered(servo)
  <2>1. ASSUME NEW any \in Servo
        PROVE  /\ wanted[any] \in Int /\ targets'[any] \in Reachable
               /\ targets'[any] = scaleAndClip(encodeCommandAngle(wanted[any]))
    <3>1. targets'[any] = scaleAndClip(encodeCommandAngle(wanted[any]))
      BY <1>1, CommandTaken
    <3>2. wanted[any] \in Int
      BY <1>1 DEF CommandUnderWay
    <3>3. encodeCommandAngle(wanted[any]) \in Raw
      BY <3>2, CommandValue
    <3> QED
      BY <3>1, <3>2, <3>3, TargetInRange, Zenon
  <2>2. anglesToDutyCycle(targets'[servo]) \in Pulse
    BY <2>1, PulseInRange, Zenon
  <2>3. ASSUME NEW other \in Servo, wanted[servo] <= wanted[other], wanted[other] < TwoPi
        PROVE  anglesToDutyCycle(targets'[servo]) <= anglesToDutyCycle(targets'[other])
    <3>1. scaleAndClip(encodeCommandAngle(wanted[servo]))
            <= scaleAndClip(encodeCommandAngle(wanted[other]))
      BY <2>1, <2>3, TargetMonotone, Zenon
    <3>2. targets'[servo] <= targets'[other]
      BY <2>1, <3>1, Zenon
    <3> QED
      BY <2>1, <3>2, PulseMonotone, Zenon
  <2>4. \A other \in Servo : wanted[servo] <= wanted[other] /\ wanted[other] < TwoPi =>
          anglesToDutyCycle(targets'[servo]) <= anglesToDutyCycle(targets'[other])
    BY <2>3
  <2> QED
    BY <2>2, <2>4, Zenon
<1>2. CommandUnderWay /\ [Next]_vars =>
        [TakeCommand /\ flipped = {} => \A servo \in Servo : Ordered(servo)]_vars
  BY <1>1, Zenon
<1> QED
  BY <1>2, CommandOnItsWay, PTL DEF Spec, PulsesInOrder

-----------------------------------------------------------------------------
(* Every burst of at most sixteen bits is detectable: the assumption about *)
(* the damage leaves none of them out.                                     *)
THEOREM BurstsAreDetectable ==
  ASSUME NEW bits, bits \subseteq 0 .. 8 * Packets!FrameSize - 1, bits # {},
         NEW first \in Int, \A bit \in bits : first <= bit /\ bit <= first + 15
  PROVE  Detectable(bits)
<1> DEFINE low == 80 - first
<1>1. Errors(bits) = {95 - bit : bit \in bits}
  BY ErrorsAre, Zenon
<1>2. 8 * Packets!FrameSize - 1 = 95 /\ 8 * Packets!FrameSize - 9 = 87
  BY DEF Packets!FrameSize, Packets!HeaderSize
<1>3. \A bit \in bits : bit \in Int
  BY <1>2
<1>4. /\ low \in Int /\ Errors(bits) \in SUBSET Int /\ Errors(bits) # {}
      /\ \A x \in Errors(bits) : low <= x /\ x <= low + 15
  <2>1. ASSUME NEW x \in Errors(bits)
        PROVE  x \in Int /\ low <= x /\ x <= low + 15
    <3>1. PICK bit \in bits : x = 95 - bit
      BY <1>1, Zenon
    <3> QED
      BY <1>3, <3>1
  <2>2. Errors(bits) # {}
    <3>1. PICK bit \in bits : TRUE
      OBVIOUS
    <3>2. 95 - bit \in Errors(bits)
      BY <1>1, Zenon
    <3> QED
      BY <3>2, Zenon
  <2> QED
    BY <2>1, <2>2
<1>5. 87 \in Int /\ 87 >= 15
  OBVIOUS
<1> HIDE DEF low
<1>6. Remainder(Errors(bits), 87) # {}
  BY <1>4, <1>5, BurstLeavesRemainder
<1> QED
  BY <1>2, <1>6, Zenon DEF Detectable

(* What the encoders send is a packet that is valid.                       *)
LEMMA CommandIsValid ==
  ASSUME NEW angles \in [Servo -> Int]
  PROVE  /\ Packets!ValidAt(encodeServoCommandPacket(angles), 1)
         /\ IsPacket(encodeServoCommandPacket(angles))
<1> DEFINE raw == [servo \in Servo |-> encodeCommandAngle(angles[servo])]
<1>1. raw \in [Servo -> Raw] /\ 0 \in {0, 40}
  BY RawOfCommand
<1>2. encodeServoCommandPacket(angles) = Packets!Frame(0, PayloadOf(raw))
  BY Zenon DEF encodeServoCommandPacket
<1> HIDE DEF raw
<1>3. PayloadOf(raw) \in Seq(Byte) /\ Len(PayloadOf(raw)) = 8
  BY <1>1, PayloadKeepsValues, Zenon
<1> QED
  BY <1>1, <1>2, <1>3, FrameIsValid, Zenon

LEMMA StatusIsValid ==
  ASSUME NEW angles \in [Servo -> Reachable], NEW falls \in SUBSET Servo
  PROVE  /\ Packets!ValidAt(publishServoState(angles, falls), 1)
         /\ IsPacket(publishServoState(angles, falls))
<1> DEFINE raw == [servo \in Servo |-> publishedRaw(angles[servo], servo \in falls)]
<1>1. raw \in [Servo -> Raw] /\ 40 \in {0, 40}
  BY RawOfStatus
<1>2. publishServoState(angles, falls) = Packets!Frame(40, PayloadOf(raw))
  BY Zenon DEF publishServoState
<1> HIDE DEF raw
<1>3. PayloadOf(raw) \in Seq(Byte) /\ Len(PayloadOf(raw)) = 8
  BY <1>1, PayloadKeepsValues, Zenon
<1> QED
  BY <1>1, <1>2, <1>3, FrameIsValid, Zenon

LEMMA PacketIs ==
  ASSUME NEW packet
  PROVE  packet \in [1 .. Packets!FrameSize -> Byte] <=> IsPacket(packet)
<1>1. Packets!FrameSize = 12 /\ 12 \in Nat
  BY DEF Packets!FrameSize, Packets!HeaderSize
<1> QED
  BY <1>1, BytesAreSequence, Zenon DEF IsPacket

(* No packet that the line has damaged is valid.                           *)
LEMMA DamageIsDetected ==
  ASSUME DamageUnderWay, flipped # {}
  PROVE  ~ Packets!ValidAt(wire, 1)
<1>1. IsPacket(wire)
  BY PacketIs, Zenon DEF DamageUnderWay
<1>2. flipped \in Damage /\ Packets!ValidAt(FlipBits(wire, flipped), 1)
  BY Zenon DEF DamageUnderWay
<1>3. CanHit(flipped)
  <2>1. 8 * Packets!FrameSize - 1 = 95
    BY DEF Packets!FrameSize, Packets!HeaderSize
  <2> QED
    BY <1>2, <2>1, DamageAssumption, DetectableAssumption, Zenon DEF CanHit
<1> QED
  BY <1>1, <1>2, <1>3, DamageShows, Zenon

(* A command moves no target out of the servo's range.                     *)
LEMMA TargetsReachable ==
  ASSUME CommandUnderWay, DamageUnderWay, StatusUnderWay, TakeCommand
  PROVE  targets' \in [Servo -> Reachable]
<1>1. wanted \in [Servo -> Int]
  BY DEF CommandUnderWay
<1>2. CASE flipped = {}
  <2>1. ASSUME NEW servo \in Servo
        PROVE  scaleAndClip(encodeCommandAngle(wanted[servo])) \in Reachable
    BY <1>1, CommandValue, TargetInRange
  <2> QED
    BY <1>2, <2>1, CommandTaken
<1>3. CASE flipped # {}
  <2>1. targets' = targets
    BY <1>3, DamageIsDetected, Zenon DEF TakeCommand, Accepts
  <2> QED
    BY <2>1 DEF StatusUnderWay
<1> QED
  BY <1>2, <1>3

(* The line damages a packet that was valid.                               *)
LEMMA DamageStep ==
  ASSUME CommandUnderWay, DamageUnderWay, StatusUnderWay,
         NEW bits \in Damage, DamagePacket(bits)
  PROVE  DamageUnderWay'
<1>1. leg \in {"command", "status"} /\ flipped = {}
  BY Zenon DEF DamagePacket, DamageUnderWay
<1>2. Packets!ValidAt(wire, 1) /\ IsPacket(wire)
  <2>1. CASE leg = "command"
    BY <1>1, <2>1, CommandIsValid, Zenon DEF CommandUnderWay
  <2>2. CASE leg = "status"
    BY <1>1, <2>2, StatusIsValid, Zenon DEF StatusUnderWay
  <2> QED
    BY <1>1, <2>1, <2>2, Zenon
<1>3. wire' = FlipBits(wire, bits) /\ flipped' = bits /\ leg' = leg
  BY DEF DamagePacket
<1>4. IsPacket(wire') /\ FlipBits(wire', bits) = wire
  <2>1. IsPacket(FlipBits(wire, bits)) /\ FlipBits(FlipBits(wire, bits), bits) = wire
    BY <1>2, FlipIsPacket, FlipsBack, Zenon
  <2> QED
    BY <1>3, <2>1, Zenon
<1>5. wire' \in [1 .. Packets!FrameSize -> Byte]
  BY <1>4, PacketIs, Zenon
<1>6. Packets!ValidAt(FlipBits(wire', flipped'), 1)
  BY <1>2, <1>3, <1>4, Zenon
<1> QED
  BY <1>1, <1>3, <1>5, <1>6, Zenon DEF DamageUnderWay, FlipBits

(* The servos stay where they can be, and what goes over the line is what  *)
(* was sent or that with bits of it flipped.                               *)
THEOREM RoundTripHolds == Spec => []RoundTrip
<1>1. Init => RoundTrip
  <2> SUFFICES ASSUME Init PROVE RoundTrip
    OBVIOUS
  <2>1. 15708 * Unit \in Reachable /\ 15708 * Unit \in Int
    BY Constants, ReachableIs
  <2> QED
    BY <2>1 DEF Init, InitialPositions, RoundTrip, CommandUnderWay, DamageUnderWay, StatusUnderWay
<1>2. RoundTrip /\ [Next]_vars => RoundTrip'
  <2> SUFFICES ASSUME RoundTrip, [Next]_vars PROVE RoundTrip'
    OBVIOUS
  <2> USE DEF RoundTrip
  <2>1. ASSUME NEW angles \in Commands, SendCommand(angles) PROVE RoundTrip'
    <3>1. angles \in [Servo -> Int]
      BY AnglesAssumption
    <3>2. wire' = encodeServoCommandPacket(angles) /\ wanted' = angles
      BY <2>1, Zenon DEF SendCommand
    <3>3. wire' \in [1 .. Packets!FrameSize -> Byte]
      BY <3>1, <3>2, CommandIsValid, PacketIs, Zenon
    <3>4. flipped' = {} /\ leg' = "command" /\ UNCHANGED <<targets, positions>>
      BY <2>1 DEF SendCommand, DamageUnderWay
    <3>5. CommandUnderWay'
      BY <3>1, <3>2, Zenon DEF CommandUnderWay, encodeServoCommandPacket
    <3>6. DamageUnderWay' /\ StatusUnderWay'
      BY <3>3, <3>4 DEF DamageUnderWay, StatusUnderWay
    <3> QED
      BY <3>5, <3>6
  <2>2. ASSUME NEW move \in Moves, NEW falls \in SUBSET Servo, SendStatus(move, falls)
        PROVE  RoundTrip'
    <3>1. positions' \in [Servo -> Reachable]
      <4>1. ASSUME NEW servo \in Servo
            PROVE  Clip(0, targets[servo] + move, Pi) \in Reachable
        BY AnglesAssumption, ReachableIs, Constants DEF StatusUnderWay, Clip
      <4> QED
        BY <2>2, <4>1 DEF SendStatus
    <3>2. wire' = publishServoState(positions', falls)
      BY <2>2, Zenon DEF SendStatus
    <3>3. \E down \in SUBSET Servo : wire' = publishServoState(positions', down)
      BY <3>2, Zenon
    <3>4. StatusUnderWay'
      BY <2>2, <3>1, <3>3, Zenon DEF StatusUnderWay, SendStatus, publishServoState
    <3>5. wire' \in [1 .. Packets!FrameSize -> Byte]
      BY <3>1, <3>2, StatusIsValid, PacketIs, Zenon
    <3>6. flipped' = {} /\ leg' = "status" /\ wanted' = wanted
      BY <2>2 DEF SendStatus, DamageUnderWay
    <3> QED
      BY <3>4, <3>5, <3>6 DEF CommandUnderWay, DamageUnderWay
  <2>3. ASSUME NEW bits \in Damage, DamagePacket(bits) PROVE RoundTrip'
    <3>1. bits # {}
      BY DamageAssumption
    <3>2. CommandUnderWay' /\ StatusUnderWay'
      BY <2>3, <3>1 DEF CommandUnderWay, StatusUnderWay, DamagePacket
    <3> QED
      BY <2>3, <3>2, DamageStep
  <2>4. CASE TakeCommand
    BY <2>4, TargetsReachable DEF CommandUnderWay, DamageUnderWay, StatusUnderWay, TakeCommand
  <2>5. CASE TakeStatus
    BY <2>5 DEF CommandUnderWay, DamageUnderWay, StatusUnderWay, TakeStatus
  <2>6. CASE UNCHANGED vars
    BY <2>6, Zenon DEF vars, CommandUnderWay, DamageUnderWay, StatusUnderWay,
       encodeServoCommandPacket, publishServoState, FlipBits
  <2> QED
    BY <2>1, <2>2, <2>3, <2>4, <2>5, <2>6, Zenon DEF Next
<1> QED
  BY <1>1, <1>2, PTL DEF Spec

(* The loops over bytes and bits calculate the CRC of the algebra, for     *)
(* every packet and whatever the line has done to it (main.cpp:118-135).   *)
THEOREM CrcIsTheRemainder == Spec => []CrcIsRemainder
<1>1. RoundTrip => CrcIsRemainder
  <2> SUFFICES ASSUME RoundTrip, wire # <<>>
               PROVE  CrcRight(wire) <=>
                        Remainder(Codeword(Tail(wire)), 8 * (Len(wire) - 1) - 1) = {}
    BY Zenon DEF CrcIsRemainder, CrcRight
  <2>1. IsPacket(wire)
    BY PacketIs, Zenon DEF RoundTrip, DamageUnderWay
  <2>2. Len(wire) = 12 /\ 8 * (12 - 1) - 1 = 87
    BY <2>1 DEF IsPacket
  <2> QED
    BY <2>1, <2>2, CrcRightIfDivides, Zenon DEF Divides
<1> QED
  BY <1>1, RoundTripHolds, PTL

(* A packet in which the line has flipped bits moves no servo and changes  *)
(* no state on the host (main.cpp:350-356, servo_protocol_decoder.cpp:     *)
(* 123-134).                                                               *)
THEOREM DamageIsRejected == Spec => DamageRejected
<1>1. ASSUME RoundTrip, [Next]_vars, flipped # {}
      PROVE  UNCHANGED <<targets, shown>>
  <2>1. ~ Packets!ValidAt(wire, 1)
    BY <1>1, DamageIsDetected, Zenon DEF RoundTrip
  <2>2. CASE TakeCommand
    BY <2>1, <2>2, Zenon DEF TakeCommand, Accepts
  <2>3. CASE TakeStatus
    BY <2>1, <2>3, Zenon DEF TakeStatus, Accepts
  <2>4. ASSUME NEW angles \in Commands, SendCommand(angles) PROVE UNCHANGED <<targets, shown>>
    BY <2>4 DEF SendCommand
  <2>5. ASSUME NEW move \in Moves, NEW falls \in SUBSET Servo, SendStatus(move, falls)
        PROVE  UNCHANGED <<targets, shown>>
    BY <2>5 DEF SendStatus
  <2>6. ASSUME NEW bits \in Damage, DamagePacket(bits) PROVE UNCHANGED <<targets, shown>>
    BY <2>6 DEF DamagePacket
  <2>7. CASE UNCHANGED vars
    BY <2>7 DEF vars
  <2> QED
    BY <1>1, <2>2, <2>3, <2>4, <2>5, <2>6, <2>7, Zenon DEF Next
<1>2. RoundTrip /\ [Next]_vars =>
        [wire' = <<>> /\ flipped # {} => UNCHANGED <<targets, shown>>]_vars
  BY <1>1, Zenon
<1> QED
  BY <1>2, RoundTripHolds, PTL DEF Spec, DamageRejected

(* A status that comes through whole shows the firmware's positions, to    *)
(* one unit of the protocol and never above them (main.cpp:191-194,        *)
(* servo_protocol_decoder.cpp:257-263).                                    *)
THEOREM StatusIsKept == Spec => StatusKept
<1>1. ASSUME RoundTrip, TakeStatus, flipped = {}, NEW servo \in Servo
      PROVE  positions[servo] - shown'[servo] \in 0 .. Unit
  <2>1. PICK falls \in SUBSET Servo :
          shown' = [each \in Servo |-> publishedRaw(positions[each], each \in falls) * Unit]
    BY <1>1, StatusTaken, Zenon DEF RoundTrip
  <2>2. shown'[servo] = publishedRaw(positions[servo], servo \in falls) * Unit
    BY <2>1
  <2>3. positions[servo] \in Reachable /\ (servo \in falls) \in BOOLEAN
    BY <1>1 DEF RoundTrip, StatusUnderWay
  <2> QED
    BY <2>2, <2>3, PositionKept, Zenon
<1>2. RoundTrip /\ [Next]_vars =>
        [TakeStatus /\ flipped = {} =>
           \A servo \in Servo : positions[servo] - shown'[servo] \in 0 .. Unit]_vars
  BY <1>1, Zenon
<1> QED
  BY <1>2, RoundTripHolds, PTL DEF Spec, StatusKept
=============================================================================
