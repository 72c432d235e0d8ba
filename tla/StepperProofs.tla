---------------------------- MODULE StepperProofs ----------------------------
(***************************************************************************)
(* Proofs about Stepper: the position a stepper reports and the moves it   *)
(* makes, for any number of steppers, any pool of moves and any length of  *)
(* a move.                                                                 *)
(***************************************************************************)
EXTENDS Stepper, FiniteSetTheorems, TLAPS

-----------------------------------------------------------------------------
(* Sequences *)

\* Appending an element
LEMMA SeqAppend ==
    ASSUME NEW S, NEW s \in Seq(S), NEW e \in S
    PROVE  /\ Append(s, e) \in Seq(S) /\ Append(s, e) # <<>> /\ Len(Append(s, e)) = Len(s) + 1
           /\ \A i \in 1..Len(s) : Append(s, e)[i] = s[i]
           /\ Append(s, e)[Len(s) + 1] = e
OBVIOUS

\* The first element and the others
LEMMA SeqTail ==
    ASSUME NEW S, NEW s \in Seq(S), s # <<>>
    PROVE  /\ Head(s) \in S /\ Tail(s) \in Seq(S) /\ Len(Tail(s)) = Len(s) - 1
           /\ \A i \in 1..Len(Tail(s)) : Tail(s)[i] = s[i + 1]
OBVIOUS

\* The empty sequence
LEMMA SeqEmpty ==
    ASSUME NEW S
    PROVE  /\ <<>> \in Seq(S) /\ Len(<<>>) = 0
           /\ \A s \in Seq(S) : s # <<>> => Len(s) \in Nat \ {0}
OBVIOUS

\* The length of a sequence and its domain
LEMMA SeqLength ==
    ASSUME NEW S, NEW s \in Seq(S)
    PROVE  Len(s) \in Nat /\ s \in [1..Len(s) -> S] /\ DOMAIN s = 1..Len(s)
OBVIOUS

-----------------------------------------------------------------------------

Move == [count : 1..MaxCount, dir : BOOLEAN]
Reach == -MaxPos..MaxPos

\* Where c steps in direction d lead from p, and the direction after a move
Ahead(p, d, c) == IF d THEN p + c ELSE p - c
Flip(d, m) == IF m.dir THEN ~d ELSE d

\* The moves of q lead from a, with direction pin d, to b and pin l, and stay in reach.
Along(q, e, u) ==
    \A i \in 1..Len(q) : /\ u[i] = Flip(u[i - 1], q[i])
                         /\ e[i] = Ahead(e[i - 1], u[i], q[i].count)
Path(q, a, d, b, l) ==
    \E e \in [0..Len(q) -> Reach], u \in [0..Len(q) -> BOOLEAN] :
        /\ e[0] = a /\ u[0] = d /\ e[Len(q)] = b /\ u[Len(q)] = l
        /\ Along(q, e, u)

\* position when the move being made ends at p: negative while it counts down
Encode(d, p) == IF d THEN Bias + p ELSE Modulus - (Bias + p)
Left(md, cnt) == IF md # "full" THEN cnt ELSE cnt \div 2
PosOf(md, pos, cnt) ==
    LET p == (pos - Left(md, cnt)) % Modulus
    IN  IF p >= 2 * Bias THEN Neg(p) ELSE p

\* One stepper, given by the values of its variables
Flags(md, cnt, arm, pin) ==
    /\ md \in Mode /\ cnt \in 0..2 * MaxCount /\ arm = (cnt > 0)
    /\ pin \in BOOLEAN
    /\ md = "full" => pin = (cnt % 2 = 1)
    /\ md = "avr" => ~pin
Good(md, pos, cnt, ldir, q, arm, dir, pin, tp, pr) ==
    /\ Flags(md, cnt, arm, pin)
    /\ ldir \in BOOLEAN /\ dir \in BOOLEAN
    /\ tp \in Reach /\ q \in Seq(Move)
    /\ cnt = 0 => q = <<>>
    /\ pos = Encode(dir, Ahead(tp, dir, Left(md, cnt)))
    /\ Path(q, Ahead(tp, dir, Left(md, cnt)), dir, pr, ldir)
GoodAt(s) ==
    Good(mode[s], position[s], count[s], last_dir[s], mq[s], armed[s], dir_pin[s],
         step_pin[s], true_pos[s], promised[s])

Functions ==
    /\ mode \in [Stepper -> Mode]
    /\ position \in [Stepper -> Int] /\ count \in [Stepper -> Int]
    /\ last_dir \in [Stepper -> BOOLEAN] /\ next_dir \in [Stepper -> BOOLEAN]
    /\ need_reset \in [Stepper -> BOOLEAN] /\ mq \in [Stepper -> Seq(Move)]
    /\ armed \in [Stepper -> BOOLEAN] /\ signal \in [Stepper -> BOOLEAN]
    /\ dir_pin \in [Stepper -> BOOLEAN] /\ step_pin \in [Stepper -> BOOLEAN]
    /\ true_pos \in [Stepper -> Int] /\ promised \in [Stepper -> Int]
    /\ is_shutdown \in BOOLEAN
Pool == free \in Nat /\ free + Lengths(Stepper, mq) = MoveCount

StepperInv == Functions /\ (\A s \in Stepper : GoodAt(s)) /\ Pool

-----------------------------------------------------------------------------
(* The moves of a queue *)

LEMMA ReachInt == Reach \subseteq Int /\ \A p \in Reach : -MaxPos <= p /\ p <= MaxPos
  BY StepperAssumption DEF Reach

LEMMA FlipType == \A d \in BOOLEAN, m \in Move : Flip(d, m) \in BOOLEAN
  BY Zenon DEF Flip, Move

\* The direction bit of a move turns the last direction into the one asked for.
LEMMA FlipChange ==
    ASSUME NEW d \in BOOLEAN, NEW n \in BOOLEAN, NEW c
    PROVE  Flip(d, [count |-> c, dir |-> d # n]) = n
<1>1. [count |-> c, dir |-> d # n].dir = (d # n)  BY Zenon
<1>2. QED  BY <1>1, Zenon DEF Flip

LEMMA PathEmpty ==
    ASSUME NEW a, NEW d, NEW b, NEW l
    PROVE  /\ Path(<<>>, a, d, b, l) => a = b /\ d = l /\ a \in Reach /\ d \in BOOLEAN
           /\ a \in Reach /\ d \in BOOLEAN => Path(<<>>, a, d, a, d)
<1>1. Len(<<>>) = 0 /\ 0 \in 0..0 /\ 1..Len(<<>>) = {}
  OBVIOUS
<1>2. ASSUME Path(<<>>, a, d, b, l) PROVE a = b /\ d = l /\ a \in Reach /\ d \in BOOLEAN
  <2>1. PICK e \in [0..0 -> Reach], u \in [0..0 -> BOOLEAN] :
           e[0] = a /\ u[0] = d /\ e[0] = b /\ u[0] = l
    BY <1>1, <1>2, Zenon DEF Path
  <2>2. QED  BY <1>1, <2>1, Zenon
<1>3. ASSUME a \in Reach, d \in BOOLEAN PROVE Path(<<>>, a, d, a, d)
  <2> DEFINE e == [i \in 0..0 |-> a]
             u == [i \in 0..0 |-> d]
  <2>1. e \in [0..0 -> Reach] /\ u \in [0..0 -> BOOLEAN] /\ e[0] = a /\ u[0] = d
    BY <1>1, <1>3, Zenon
  <2>2. Along(<<>>, e, u)  BY <1>1, Zenon DEF Along
  <2>3. QED  BY <1>1, <2>1, <2>2, Zenon DEF Path
<1>4. QED  BY <1>2, <1>3, Zenon

\* A path begins and ends in reach.
LEMMA PathEnds ==
    ASSUME NEW q \in Seq(Move), NEW a, NEW d, NEW b, NEW l, Path(q, a, d, b, l)
    PROVE  a \in Reach /\ d \in BOOLEAN /\ b \in Reach /\ l \in BOOLEAN
<1>1. 0 \in 0..Len(q) /\ Len(q) \in 0..Len(q)
  <2>1. Len(q) \in Nat  BY SeqLength, Zenon
  <2>2. QED  BY <2>1
<1>2. QED  BY <1>1, Zenon DEF Path

\* command_queue_step adds a move at the end.
LEMMA PathAppend ==
    ASSUME NEW q \in Seq(Move), NEW a, NEW d, NEW b, NEW l, Path(q, a, d, b, l),
           NEW m \in Move, Ahead(b, Flip(l, m), m.count) \in Reach
    PROVE  Path(Append(q, m), a, d, Ahead(b, Flip(l, m), m.count), Flip(l, m))
<1> DEFINE n == Len(q)
           q2 == Append(q, m)
<1>1. /\ n \in Nat /\ Len(q2) = n + 1 /\ q2[n + 1] = m
      /\ \A i \in 1..n : q2[i] = q[i]
  OBVIOUS
<1>2. PICK e \in [0..n -> Reach], u \in [0..n -> BOOLEAN] :
         /\ e[0] = a /\ u[0] = d /\ e[n] = b /\ u[n] = l /\ Along(q, e, u)
  BY Zenon DEF Path
<1> DEFINE e2 == [i \in 0..n + 1 |-> IF i = n + 1 THEN Ahead(b, Flip(l, m), m.count) ELSE e[i]]
           u2 == [i \in 0..n + 1 |-> IF i = n + 1 THEN Flip(l, m) ELSE u[i]]
<1>3. l \in BOOLEAN /\ Flip(l, m) \in BOOLEAN  BY PathEnds, FlipType, Zenon
<1> HIDE DEF n, q2
<1>4. /\ \A i \in 0..n + 1 : i # n + 1 => i \in 0..n
      /\ \A i \in 1..n + 1 : i # n + 1 => i \in 1..n /\ i - 1 # n + 1
      /\ \A i \in 1..n + 1 : i - 1 \in 0..n + 1 /\ i \in 0..n + 1
      /\ 0 \in 0..n + 1 /\ n + 1 \in 0..n + 1 /\ 0 # n + 1 /\ (n + 1) - 1 = n /\ n # n + 1
      /\ n \in 0..n + 1
  BY <1>1
<1>5. e2 \in [0..n + 1 -> Reach] /\ u2 \in [0..n + 1 -> BOOLEAN]
  BY <1>3, <1>4, Zenon
<1>6. /\ e2[0] = a /\ u2[0] = d
      /\ e2[n + 1] = Ahead(b, Flip(l, m), m.count) /\ u2[n + 1] = Flip(l, m)
  BY <1>2, <1>4, Zenon
<1>7. Along(q2, e2, u2)
  <2> SUFFICES ASSUME NEW i \in 1..n + 1
               PROVE  u2[i] = Flip(u2[i - 1], q2[i])
                      /\ e2[i] = Ahead(e2[i - 1], u2[i], q2[i].count)
    BY <1>1, Zenon DEF Along
  <2>1. CASE i = n + 1
    <3>1. e2[i - 1] = b /\ u2[i - 1] = l  BY <2>1, <1>2, <1>4, Zenon
    <3>2. QED  BY <3>1, <2>1, <1>1, <1>6, Zenon
  <2>2. CASE i # n + 1
    <3>1. i \in 1..n /\ u2[i] = u[i] /\ e2[i] = e[i] /\ u2[i - 1] = u[i - 1] /\ e2[i - 1] = e[i - 1]
      BY <2>2, <1>4, Zenon
    <3>2. u[i] = Flip(u[i - 1], q[i]) /\ e[i] = Ahead(e[i - 1], u[i], q[i].count)
      BY <3>1, <1>2, Zenon DEF Along, n
    <3>3. QED  BY <3>1, <3>2, <1>1, Zenon
  <2>3. QED  BY <2>1, <2>2, Zenon
<1>8. QED
  BY <1>1, <1>5, <1>6, <1>7, Zenon DEF Path, q2

\* stepper_load_next takes the first move.
LEMMA PathTail ==
    ASSUME NEW q \in Seq(Move), q # <<>>, NEW a, NEW d, NEW b, NEW l, Path(q, a, d, b, l)
    PROVE  LET d2 == Flip(d, Head(q))
               a2 == Ahead(a, d2, Head(q).count)
           IN  a2 \in Reach /\ d2 \in BOOLEAN /\ Path(Tail(q), a2, d2, b, l)
<1> DEFINE n == Len(q)
           q2 == Tail(q)
           d2 == Flip(d, Head(q))
           a2 == Ahead(a, d2, Head(q).count)
<1>1. /\ n \in Nat \ {0} /\ Len(q2) = n - 1 /\ Head(q) = q[1]
      /\ \A i \in 1..n - 1 : q2[i] = q[i + 1]
  <2>1. Head(q) = q[1]  OBVIOUS
  <2>2. QED  BY <2>1, SeqTail, SeqEmpty, Zenon
<1>2. PICK e \in [0..n -> Reach], u \in [0..n -> BOOLEAN] :
         /\ e[0] = a /\ u[0] = d /\ e[n] = b /\ u[n] = l /\ Along(q, e, u)
  BY Zenon DEF Path
<1> DEFINE e2 == [i \in 0..n - 1 |-> e[i + 1]]
           u2 == [i \in 0..n - 1 |-> u[i + 1]]
<1>3. \A i \in 1..n : u[i] = Flip(u[i - 1], q[i]) /\ e[i] = Ahead(e[i - 1], u[i], q[i].count)
  BY <1>2, Zenon DEF Along
<1> HIDE DEF n, q2
<1>4. /\ \A i \in 0..n - 1 : i + 1 \in 0..n /\ i + 1 \in 1..n
      /\ \A i \in 1..n - 1 : i \in 0..n - 1 /\ i - 1 \in 0..n - 1 /\ (i - 1) + 1 = i /\ (i + 1) - 1 = i
      /\ 0 \in 0..n - 1 /\ n - 1 \in 0..n - 1 /\ (n - 1) + 1 = n /\ 0 + 1 = 1 /\ 1 \in 1..n /\ 1 - 1 = 0
      /\ 1 \in 0..n
  BY <1>1
<1>5. e2 \in [0..n - 1 -> Reach] /\ u2 \in [0..n - 1 -> BOOLEAN]
  BY <1>4, Zenon
<1>6. u[1] = d2 /\ e[1] = a2
  <2>1. u[1] = Flip(u[1 - 1], q[1]) /\ e[1] = Ahead(e[1 - 1], u[1], q[1].count)
    BY <1>3, <1>4, Zenon
  <2>2. u[1] = Flip(d, Head(q)) /\ e[1] = Ahead(a, u[1], Head(q).count)
    BY <2>1, <1>1, <1>2, <1>4, Zenon
  <2>3. QED  BY <2>2, Zenon
<1>7. /\ e2[0] = a2 /\ u2[0] = d2 /\ e2[n - 1] = b /\ u2[n - 1] = l
      /\ a2 \in Reach /\ d2 \in BOOLEAN
  <2>1. e2[0] = e[0 + 1] /\ u2[0] = u[0 + 1] /\ e2[n - 1] = e[(n - 1) + 1] /\ u2[n - 1] = u[(n - 1) + 1]
    BY <1>4, Zenon
  <2>2. e[1] \in Reach /\ u[1] \in BOOLEAN  BY <1>4, Zenon
  <2>3. e2[0] = e[1] /\ u2[0] = u[1] /\ e2[n - 1] = e[n] /\ u2[n - 1] = u[n]
    BY <2>1, <1>1, <1>4, Zenon
  <2>4. QED  BY <2>2, <2>3, <1>2, <1>6, Zenon
<1>8. Along(q2, e2, u2)
  <2> SUFFICES ASSUME NEW i \in 1..n - 1
               PROVE  u2[i] = Flip(u2[i - 1], q2[i])
                      /\ e2[i] = Ahead(e2[i - 1], u2[i], q2[i].count)
    BY <1>1, Zenon DEF Along
  <2>1. u2[i] = u[i + 1] /\ e2[i] = e[i + 1] /\ u2[i - 1] = u[i] /\ e2[i - 1] = e[i]
    BY <1>4, Zenon
  <2>2. u[i + 1] = Flip(u[i], q[i + 1]) /\ e[i + 1] = Ahead(e[i], u[i + 1], q[i + 1].count)
    BY <1>3, <1>4, Zenon
  <2>3. QED  BY <2>1, <2>2, <1>1, Zenon
<1>9. QED
  <2>1. Path(q2, a2, d2, b, l)  BY <1>1, <1>5, <1>7, <1>8, Zenon DEF Path
  <2>2. QED  BY <2>1, <1>7, Zenon DEF q2

-----------------------------------------------------------------------------
(* Positions in their width *)

LEMMA Widths ==
    /\ Bias \in Nat /\ Modulus \in Nat /\ Modulus = 4 * Bias
    /\ MaxPos \in Nat /\ MaxPos < Bias /\ MaxCount \in Nat
  BY StepperAssumption DEF Modulus

LEMMA ModSmall ==
    ASSUME NEW x \in Int, NEW m \in Int, 0 <= x, x < m
    PROVE  x % m = x
  BY Z3

LEMMA NegSmall ==
    ASSUME NEW p \in Int, 0 < p, p < Modulus
    PROVE  Neg(p) = Modulus - p
<1>1. Modulus - p \in Int /\ 0 <= Modulus - p /\ Modulus - p < Modulus /\ Modulus \in Int
  BY Widths
<1>2. QED  BY <1>1, ModSmall, Zenon DEF Neg

\* A position in reach is encoded away from the two ends of each half.
LEMMA EncodeRange ==
    ASSUME NEW d \in BOOLEAN, NEW p \in Reach
    PROVE  /\ Encode(d, p) \in Int /\ 0 < Encode(d, p) /\ Encode(d, p) < Modulus
           /\ d => Encode(d, p) < 2 * Bias
           /\ ~d => Encode(d, p) > 2 * Bias
<1>1. p \in Int /\ -MaxPos <= p /\ p <= MaxPos  BY ReachInt, Zenon
<1>2. CASE d  BY <1>1, <1>2, Widths DEF Encode
<1>3. CASE ~d  BY <1>1, <1>3, Widths DEF Encode
<1>4. QED  BY <1>2, <1>3, Zenon

\* Changing the sign of the position changes the direction.
LEMMA NegEncode ==
    ASSUME NEW d \in BOOLEAN, NEW p \in Reach
    PROVE  Neg(Encode(d, p)) = Encode(~d, p)
<1>1. Neg(Encode(d, p)) = Modulus - Encode(d, p)  BY EncodeRange, NegSmall, Zenon
<1>2. p \in Int  BY ReachInt, Zenon
<1>3. CASE d  BY <1>1, <1>2, <1>3, Widths, Zenon DEF Encode
<1>4. CASE ~d  BY <1>1, <1>2, <1>4, Widths DEF Encode
<1>5. QED  BY <1>3, <1>4, Zenon

\* stepper_load_next adds the steps of the move.
LEMMA EncodeAhead ==
    ASSUME NEW d \in BOOLEAN, NEW p \in Reach, NEW c \in Nat, Ahead(p, d, c) \in Reach
    PROVE  (Encode(d, p) + c) % Modulus = Encode(d, Ahead(p, d, c))
<1>1. p \in Int  BY ReachInt, Zenon
<1>2. Encode(d, p) + c = Encode(d, Ahead(p, d, c))
  <2>1. CASE d  BY <1>1, <2>1, Widths DEF Encode, Ahead
  <2>2. CASE ~d  BY <1>1, <2>2, Widths DEF Encode, Ahead
  <2>3. QED  BY <2>1, <2>2, Zenon
<1> DEFINE x == Encode(d, Ahead(p, d, c))
<1>3. x \in Int /\ 0 < x /\ x < Modulus  BY EncodeRange, Zenon
<1>4. Modulus \in Int  BY Widths
<1> HIDE DEF x
<1>5. x % Modulus = x
  <2>1. 0 <= x  BY <1>3
  <2>2. QED  BY <2>1, <1>3, <1>4, ModSmall, Zenon
<1>6. QED  BY <1>2, <1>5, Zenon DEF x

LEMMA LeftType ==
    ASSUME NEW md \in Mode, NEW cnt \in Nat
    PROVE  Left(md, cnt) \in Nat /\ Left(md, 0) = 0
<1>1. cnt \div 2 \in Nat /\ 0 \div 2 = 0  OBVIOUS
<1>2. QED  BY <1>1, Zenon DEF Left

\* stepper_get_position takes the steps not made off again.
LEMMA PosExact ==
    ASSUME NEW md \in Mode, NEW cnt \in Nat, NEW d \in BOOLEAN, NEW tp \in Reach,
           Ahead(tp, d, Left(md, cnt)) \in Reach
    PROVE  PosOf(md, Encode(d, Ahead(tp, d, Left(md, cnt))), cnt) = Bias + tp
<1> DEFINE c == Left(md, cnt)
           pos == Encode(d, Ahead(tp, d, c))
           p == (pos - c) % Modulus
<1>1. c \in Nat /\ tp \in Int  BY LeftType, ReachInt, Zenon
<1>2. pos - c = Encode(d, tp)
  <2> HIDE DEF c
  <2>1. CASE d  BY <1>1, <2>1, Widths DEF Encode, Ahead
  <2>2. CASE ~d  BY <1>1, <2>2, Widths DEF Encode, Ahead
  <2>3. QED  BY <2>1, <2>2, Zenon
<1>3. Encode(d, tp) \in Int /\ 0 < Encode(d, tp) /\ Encode(d, tp) < Modulus
  BY EncodeRange, Zenon
<1>4. p = Encode(d, tp)
  <2> DEFINE x == Encode(d, tp)
  <2>1. x \in Int /\ 0 < x /\ x < Modulus /\ pos - c = x  BY <1>2, <1>3, Zenon
  <2> HIDE DEF x, pos, c
  <2>2. Modulus \in Int /\ 0 <= x  BY <2>1, Widths
  <2>3. x % Modulus = x  BY <2>1, <2>2, ModSmall, Zenon
  <2>4. QED  BY <2>1, <2>3, Zenon DEF x
<1>5. CASE d
  <2>1. ~(Encode(d, tp) >= 2 * Bias)
    <3>1. Encode(d, tp) < 2 * Bias  BY <1>5, EncodeRange, Zenon
    <3>2. QED  BY <3>1, <1>3, Widths
  <2>2. PosOf(md, pos, cnt) = Encode(d, tp)  BY <2>1, <1>4, Zenon DEF PosOf
  <2>3. QED  BY <2>2, <1>5, Zenon DEF Encode
<1>6. CASE ~d
  <2>1. Encode(d, tp) >= 2 * Bias
    <3>1. Encode(d, tp) > 2 * Bias  BY <1>6, EncodeRange, Zenon
    <3>2. QED  BY <3>1, <1>3, Widths
  <2>2. PosOf(md, pos, cnt) = Neg(Encode(d, tp))  BY <2>1, <1>4, Zenon DEF PosOf
  <2>3. Neg(Encode(d, tp)) = Encode(TRUE, tp)  BY <1>6, NegEncode, Zenon
  <2>4. QED  BY <2>2, <2>3, Zenon DEF Encode
<1>7. QED  BY <1>5, <1>6, Zenon

-----------------------------------------------------------------------------
(* One stepper *)

LEMMA GoodTypes ==
    ASSUME NEW md, NEW pos, NEW cnt, NEW ldir, NEW q, NEW arm, NEW dir, NEW pin, NEW tp, NEW pr,
           Good(md, pos, cnt, ldir, q, arm, dir, pin, tp, pr)
    PROVE  /\ md \in Mode /\ cnt \in Nat /\ cnt <= 2 * MaxCount /\ arm \in BOOLEAN /\ pin \in BOOLEAN
           /\ Left(md, cnt) \in Nat /\ tp \in Int /\ pr \in Reach
           /\ Ahead(tp, dir, Left(md, cnt)) \in Reach
           /\ pos \in Int /\ 0 < pos /\ pos < Modulus
<1>1. md \in Mode /\ cnt \in Nat /\ cnt <= 2 * MaxCount /\ arm \in BOOLEAN /\ pin \in BOOLEAN
  BY Widths DEF Good, Flags
<1>2. Left(md, cnt) \in Nat /\ tp \in Int  BY <1>1, LeftType, ReachInt, Zenon DEF Good
<1>3. pr \in Reach /\ Ahead(tp, dir, Left(md, cnt)) \in Reach  BY PathEnds, Zenon DEF Good
<1>4. pos \in Int /\ 0 < pos /\ pos < Modulus  BY <1>3, EncodeRange, Zenon DEF Good
<1>5. QED  BY <1>1, <1>2, <1>3, <1>4, Zenon

LEMMA GoodPosition ==
    ASSUME NEW md, NEW pos, NEW cnt, NEW ldir, NEW q, NEW arm, NEW dir, NEW pin, NEW tp, NEW pr,
           Good(md, pos, cnt, ldir, q, arm, dir, pin, tp, pr)
    PROVE  PosOf(md, pos, cnt) = Bias + tp
<1>1. md \in Mode /\ cnt \in Nat /\ Ahead(tp, dir, Left(md, cnt)) \in Reach
  BY GoodTypes, Zenon
<1>2. QED  BY <1>1, PosExact, Zenon DEF Good

\* A stepper without a move
AtRest(md, pos, ldir, dir, pin, tp, pr) ==
    /\ md \in Mode /\ pin \in BOOLEAN /\ (md # "both" => pin = FALSE)
    /\ dir \in BOOLEAN /\ tp \in Reach
    /\ pos = Encode(dir, tp) /\ pr = tp /\ ldir = dir

LEMMA AheadNone == ASSUME NEW p \in Int, NEW d PROVE Ahead(p, d, 0) = p
  BY DEF Ahead

LEMMA ModeCases == \A md \in Mode : md = "full" \/ md = "both" \/ md = "avr"
  BY Zenon DEF Mode

LEMMA RestIsGood ==
    ASSUME NEW md, NEW pos, NEW ldir, NEW dir, NEW pin, NEW tp, NEW pr,
           AtRest(md, pos, ldir, dir, pin, tp, pr)
    PROVE  Good(md, pos, 0, ldir, <<>>, FALSE, dir, pin, tp, pr)
<1>1. Flags(md, 0, FALSE, pin)
  <2>1. 0 \in 0..2 * MaxCount /\ (0 > 0) = FALSE /\ (0 % 2 = 1) = FALSE /\ "full" # "both" /\ "avr" # "both"
    BY Widths
  <2>2. QED  BY <2>1, Zenon DEF AtRest, Flags
<1>2. Left(md, 0) = 0 /\ tp \in Int  BY LeftType, ReachInt, Zenon DEF AtRest
<1>3. Ahead(tp, dir, Left(md, 0)) = tp  BY <1>2, AheadNone, Zenon
<1>4. <<>> \in Seq(Move)  BY SeqEmpty, Zenon
<1>5. Path(<<>>, tp, dir, tp, dir)  BY PathEmpty, Zenon DEF AtRest
<1>6. QED  BY <1>1, <1>3, <1>4, <1>5, Zenon DEF AtRest, Good

LEMMA GoodAtRest ==
    ASSUME NEW md, NEW pos, NEW cnt, NEW ldir, NEW q, NEW arm, NEW dir, NEW pin, NEW tp, NEW pr,
           Good(md, pos, cnt, ldir, q, arm, dir, pin, tp, pr), cnt = 0
    PROVE  AtRest(md, pos, ldir, dir, pin, tp, pr)
<1>0. Good(md, pos, 0, ldir, q, arm, dir, pin, tp, pr)  BY Zenon
<1>1. Left(md, 0) = 0 /\ tp \in Int
  BY <1>0, LeftType, ReachInt, Zenon DEF Good, Flags
<1>2. Ahead(tp, dir, Left(md, 0)) = tp  BY <1>1, AheadNone, Zenon
<1>3. q = <<>> /\ pr = tp /\ ldir = dir /\ pos = Encode(dir, tp)
  <2>1. q = <<>> /\ Path(q, tp, dir, pr, ldir) /\ pos = Encode(dir, tp)
    BY <1>0, <1>2, Zenon DEF Good
  <2>2. Path(<<>>, tp, dir, pr, ldir)  BY <2>1, Zenon
  <2>3. tp = pr /\ dir = ldir  BY <2>2, PathEmpty, ZenonT(30)
  <2>4. QED  BY <2>1, <2>3, Zenon
<1>4. md # "both" => pin = FALSE
  <2>1. (0 % 2 = 1) = FALSE  OBVIOUS
  <2>2. QED  BY <1>0, <2>1, ModeCases, Zenon DEF Good, Flags
<1>5. QED  BY <1>0, <1>3, <1>4, Zenon DEF AtRest, Good, Flags

\* Between two moves, with the moves of q to come
Between(md, pos, ldir, q, dir, pin, tp, pr) ==
    /\ md \in Mode /\ ldir \in BOOLEAN /\ q \in Seq(Move)
    /\ dir \in BOOLEAN /\ pin \in BOOLEAN /\ (md # "both" => pin = FALSE)
    /\ tp \in Reach /\ pos = Encode(dir, tp) /\ Path(q, tp, dir, pr, ldir)

\* stepper_load_next at the end of a move
LoadedPos(pos, m) == ((IF m.dir THEN Neg(pos) ELSE pos) + m.count) % Modulus
LoadedCount(md, m) == IF md # "full" THEN m.count ELSE 2 * m.count
LEMMA GoodLoad ==
    ASSUME NEW md, NEW pos, NEW ldir, NEW q, NEW dir, NEW pin, NEW tp, NEW pr, NEW arm,
           Between(md, pos, ldir, q, dir, pin, tp, pr), q # <<>>, arm = TRUE
    PROVE  Good(md, LoadedPos(pos, Head(q)), LoadedCount(md, Head(q)), ldir, Tail(q), arm,
                Flip(dir, Head(q)), pin, tp, pr)
<1> DEFINE m == Head(q)
           from == IF m.dir THEN Neg(pos) ELSE pos
           cnt == IF md # "full" THEN m.count ELSE 2 * m.count
           dir2 == Flip(dir, m)
           a2 == Ahead(tp, dir2, m.count)
<1>0. /\ md \in Mode /\ ldir \in BOOLEAN /\ q \in Seq(Move)
      /\ dir \in BOOLEAN /\ pin \in BOOLEAN /\ (md # "both" => pin = FALSE)
      /\ tp \in Reach /\ pos = Encode(dir, tp) /\ Path(q, tp, dir, pr, ldir)
  BY Zenon DEF Between
<1> USE <1>0
<1>1. m \in Move /\ Tail(q) \in Seq(Move)  BY SeqTail, Zenon
<1>2. a2 \in Reach /\ dir2 \in BOOLEAN /\ Path(Tail(q), a2, dir2, pr, ldir)
  BY PathTail, Zenon
<1>3. m.count \in Nat /\ m.count >= 1 /\ m.count <= MaxCount /\ m.dir \in BOOLEAN
  BY <1>1, Widths DEF Move
<1>4. from = Encode(dir2, tp)
  <2>1. CASE m.dir  BY <2>1, NegEncode, Zenon DEF Flip
  <2>2. CASE ~m.dir  BY <2>2, Zenon DEF Flip
  <2>3. QED  BY <2>1, <2>2, <1>3, Zenon
<1>5. (from + m.count) % Modulus = Encode(dir2, a2)
  <2>1. (Encode(dir2, tp) + m.count) % Modulus = Encode(dir2, a2)
    BY <1>2, <1>3, EncodeAhead, Zenon
  <2> HIDE DEF from, dir2, a2
  <2>2. QED  BY <2>1, <1>4, Zenon
<1>6. Left(md, cnt) = m.count
  <2> DEFINE c == m.count
  <2>1. c \in Nat  BY <1>3, Zenon
  <2> HIDE DEF c
  <2>2. (2 * c) \div 2 = c  BY <2>1
  <2>3. QED  BY <2>2, Zenon DEF Left, c
<1>7. Flags(md, cnt, arm, pin)
  <2> DEFINE c == m.count
  <2>1. c \in Nat /\ c >= 1 /\ c <= MaxCount  BY <1>3, Zenon
  <2> HIDE DEF c
  <2>2. /\ c \in 0..2 * MaxCount /\ (c > 0) = TRUE
        /\ 2 * c \in 0..2 * MaxCount /\ (2 * c > 0) = TRUE /\ ((2 * c) % 2 = 1) = FALSE
    BY <2>1, Widths
  <2>3. CASE md = "full"
    <3>1. md # "both" /\ md # "avr" /\ cnt = 2 * c  BY <2>3, Zenon DEF c
    <3>2. QED  BY <2>2, <2>3, <3>1, Zenon DEF Flags
  <2>4. CASE md # "full"
    <3>1. cnt = c /\ (md = "avr" => md # "both")  BY <2>4, Zenon DEF c
    <3>2. QED  BY <2>2, <2>4, <3>1, Zenon DEF Flags
  <2>5. QED  BY <2>3, <2>4, Zenon
<1>8. cnt # 0
  <2> DEFINE c == m.count
  <2>1. c \in Nat /\ c >= 1  BY <1>3, Zenon
  <2> HIDE DEF c
  <2>2. c # 0 /\ 2 * c # 0  BY <2>1
  <2>3. QED  BY <2>2, Zenon DEF c
<1>9. Good(md, (from + m.count) % Modulus, cnt, ldir, Tail(q), arm, dir2, pin, tp, pr)
  BY <1>1, <1>2, <1>5, <1>6, <1>7, <1>8, Zenon DEF Good
<1>10. QED  BY <1>9, Zenon DEF LoadedPos, LoadedCount

\* A step event: the motor moves, or in the second event of a step only the pin does.
Stepped(md, dir, pin, tp) ==
    IF md = "full" /\ pin THEN tp ELSE IF dir THEN tp + 1 ELSE tp - 1
PinAfter(md, pin) == IF md = "avr" THEN pin ELSE ~pin

LEMMA GoodStep ==
    ASSUME NEW md, NEW pos, NEW cnt, NEW ldir, NEW q, NEW arm, NEW dir, NEW pin, NEW tp, NEW pr,
           Good(md, pos, cnt, ldir, q, arm, dir, pin, tp, pr), cnt # 0
    PROVE  /\ Stepped(md, dir, pin, tp) \in Reach
           /\ Ahead(Stepped(md, dir, pin, tp), dir, Left(md, cnt - 1)) = Ahead(tp, dir, Left(md, cnt))
           /\ Flags(md, cnt - 1, cnt - 1 > 0, PinAfter(md, pin))
<1> DEFINE moves == ~(md = "full" /\ pin)
           tp2 == Stepped(md, dir, pin, tp)
           pin2 == PinAfter(md, pin)
           left == Left(md, cnt)
<1>0. dir \in BOOLEAN /\ tp \in Reach  BY Zenon DEF Good
<1>1. md \in Mode /\ cnt \in Nat /\ cnt <= 2 * MaxCount /\ pin \in BOOLEAN /\ dir \in BOOLEAN
  BY <1>0, GoodTypes, Zenon
<1>2. /\ tp \in Int /\ -MaxPos <= tp /\ tp <= MaxPos
      /\ Ahead(tp, dir, left) \in Int
      /\ -MaxPos <= Ahead(tp, dir, left) /\ Ahead(tp, dir, left) <= MaxPos
  <2>1. Ahead(tp, dir, left) \in Reach  BY GoodTypes, Zenon
  <2>2. QED  BY <1>0, <2>1, ReachInt, Zenon
<1>3. cnt > 0  BY <1>1
<1>4. left \in Nat /\ Left(md, cnt - 1) = IF moves THEN left - 1 ELSE left
  <2>1. CASE md # "full"  BY <2>1, <1>1, <1>3, Zenon DEF Left
  <2>2. CASE md = "full" /\ pin
    <3>1. cnt % 2 = 1  BY <2>2, Zenon DEF Good, Flags
    <3>2. (cnt - 1) \div 2 = cnt \div 2 /\ cnt \div 2 \in Nat  BY <3>1, <1>1
    <3>3. QED  BY <2>2, <3>2, Zenon DEF Left
  <2>3. CASE md = "full" /\ ~pin
    <3>1. cnt % 2 # 1  BY <2>3, Zenon DEF Good, Flags
    <3>2. (cnt - 1) \div 2 = (cnt \div 2) - 1 /\ cnt \div 2 \in Nat  BY <3>1, <1>1, <1>3
    <3>3. QED  BY <2>3, <3>2, Zenon DEF Left
  <2>4. QED  BY <2>1, <2>2, <2>3, <1>1, Zenon
<1>5. moves => left >= 1
  <2>1. CASE md # "full"  BY <2>1, <1>1, <1>3 DEF Left
  <2>2. CASE md = "full" /\ ~pin
    <3>1. cnt % 2 # 1  BY <2>2, Zenon DEF Good, Flags
    <3>2. cnt \div 2 >= 1  BY <3>1, <1>1, <1>3
    <3>3. QED  BY <2>2, <3>2, Zenon DEF Left
  <2>3. QED  BY <2>1, <2>2, <1>1, Zenon
<1>6. /\ tp2 \in Int /\ -MaxPos <= tp2 /\ tp2 <= MaxPos
      /\ Ahead(tp2, dir, Left(md, cnt - 1)) = Ahead(tp, dir, left)
  <2> HIDE DEF left
  <2>1. CASE ~moves  BY <2>1, <1>2, <1>4, Zenon DEF Stepped
  <2>2. CASE moves /\ dir
    <3>1. tp2 = tp + 1 /\ Ahead(tp, dir, left) = tp + left
          /\ Ahead(tp2, dir, Left(md, cnt - 1)) = tp2 + Left(md, cnt - 1)
      BY <2>2, Zenon DEF Ahead, Stepped
    <3>2. Left(md, cnt - 1) = left - 1 /\ left >= 1  BY <2>2, <1>4, <1>5, Zenon
    <3> HIDE DEF tp2
    <3>3. QED  BY <3>1, <3>2, <1>2, <1>4, Widths
  <2>3. CASE moves /\ ~dir
    <3>1. tp2 = tp - 1 /\ Ahead(tp, dir, left) = tp - left
          /\ Ahead(tp2, dir, Left(md, cnt - 1)) = tp2 - Left(md, cnt - 1)
      BY <2>3, Zenon DEF Ahead, Stepped
    <3>2. Left(md, cnt - 1) = left - 1 /\ left >= 1  BY <2>3, <1>4, <1>5, Zenon
    <3> HIDE DEF tp2
    <3>3. QED  BY <3>1, <3>2, <1>2, <1>4, Widths
  <2>4. QED  BY <2>1, <2>2, <2>3, <1>1, Zenon
<1>7. tp2 \in Reach
  <2> HIDE DEF tp2
  <2>1. QED  BY <1>6, Widths DEF Reach
<1>8. Flags(md, cnt - 1, cnt - 1 > 0, pin2)
  <2>1. /\ cnt - 1 \in 0..2 * MaxCount 
        /\ (cnt % 2 = 1) \in BOOLEAN /\ ((cnt - 1) % 2 = 1) = ~(cnt % 2 = 1)
    BY <1>1, <1>3, Widths
  <2>2. pin2 \in BOOLEAN  BY <1>1, Zenon DEF PinAfter
  <2>3. md = "full" => pin2 = ((cnt - 1) % 2 = 1)
    <3> SUFFICES ASSUME md = "full" PROVE pin2 = ((cnt - 1) % 2 = 1)  BY Zenon
    <3>1. pin = (cnt % 2 = 1)  BY Zenon DEF Good, Flags
    <3>2. pin2 = ~pin  BY Zenon DEF PinAfter
    <3>3. QED  BY <3>1, <3>2, <2>1, Zenon
  <2>4. md = "avr" => ~pin2  BY Zenon DEF Good, Flags, PinAfter
  <2>5. QED  BY <1>1, <2>1, <2>2, <2>3, <2>4, Zenon DEF Flags
<1>9. QED  BY <1>6, <1>7, <1>8, Zenon

\* It was not the last of the move.
LEMMA GoodStepMore ==
    ASSUME NEW md, NEW pos, NEW cnt, NEW ldir, NEW q, NEW arm, NEW dir, NEW pin, NEW tp, NEW pr,
           Good(md, pos, cnt, ldir, q, arm, dir, pin, tp, pr), cnt # 0, cnt # 1
    PROVE  Good(md, pos, cnt - 1, ldir, q, arm, dir, PinAfter(md, pin),
                Stepped(md, dir, pin, tp), pr)
<1> DEFINE tp2 == Stepped(md, dir, pin, tp)
           pin2 == PinAfter(md, pin)
<1>1. /\ tp2 \in Reach
      /\ Ahead(tp2, dir, Left(md, cnt - 1)) = Ahead(tp, dir, Left(md, cnt))
      /\ Flags(md, cnt - 1, cnt - 1 > 0, pin2)
  BY GoodStep, Zenon
<1>2. (cnt - 1 > 0) = (cnt > 0) /\ cnt - 1 # 0
  <2>1. cnt \in Nat  BY GoodTypes, Zenon
  <2>2. QED  BY <2>1
<1>3. Flags(md, cnt - 1, arm, pin2)
  <2>1. arm = (cnt > 0)  BY Zenon DEF Good, Flags
  <2>2. QED  BY <1>1, <1>2, <2>1, Zenon
<1>4. QED  BY <1>1, <1>2, <1>3, Zenon DEF Good

\* It was: the motor is where the move ends, ready for stepper_load_next.
LEMMA GoodStepLast ==
    ASSUME NEW md, NEW pos, NEW ldir, NEW q, NEW arm, NEW dir, NEW pin, NEW tp, NEW pr,
           Good(md, pos, 1, ldir, q, arm, dir, pin, tp, pr)
    PROVE  Between(md, pos, ldir, q, dir, PinAfter(md, pin), Stepped(md, dir, pin, tp), pr)
<1> DEFINE tp2 == Stepped(md, dir, pin, tp)
           pin2 == PinAfter(md, pin)
<1>1. /\ tp2 \in Reach
      /\ Ahead(tp2, dir, Left(md, 1 - 1)) = Ahead(tp, dir, Left(md, 1))
      /\ Flags(md, 1 - 1, 1 - 1 > 0, pin2)
  <2>1. 1 # 0  OBVIOUS
  <2>2. QED  BY <2>1, GoodStep, Zenon
<1>3. md \in Mode /\ 1 - 1 = 0 /\ (0 % 2 = 1) = FALSE
  <2>1. md \in Mode  BY GoodTypes, Zenon
  <2>2. QED  BY <2>1
<1>4. Left(md, 0) = 0 /\ tp2 \in Int  BY <1>1, <1>3, LeftType, ReachInt, Zenon
<1>5. Ahead(tp, dir, Left(md, 1)) = tp2
  <2>1. Ahead(tp2, dir, Left(md, 0)) = Ahead(tp, dir, Left(md, 1))
    BY <1>1, <1>3, Zenon
  <2>2. QED  BY <2>1, <1>4, AheadNone, Zenon
<1>6. pin2 \in BOOLEAN /\ (md # "both" => pin2 = FALSE)
  <2>1. Flags(md, 0, 0 > 0, pin2)  BY <1>1, <1>3, Zenon
  <2>2. QED  BY <2>1, <1>3, ModeCases, Zenon DEF Flags
<1>7. QED
  <2>1. ldir \in BOOLEAN /\ dir \in BOOLEAN /\ q \in Seq(Move) /\ pos = Encode(dir, tp2)
        /\ Path(q, tp2, dir, pr, ldir)
    BY <1>5, Zenon DEF Good
  <2>2. QED  BY <2>1, <1>1, <1>3, <1>6, Zenon DEF Between

\* command_queue_step behind a move being made
LEMMA GoodAppend ==
    ASSUME NEW md, NEW pos, NEW cnt, NEW ldir, NEW q, NEW arm, NEW dir, NEW pin, NEW tp, NEW pr,
           Good(md, pos, cnt, ldir, q, arm, dir, pin, tp, pr), cnt # 0,
           NEW m \in Move, Ahead(pr, Flip(ldir, m), m.count) \in Reach
    PROVE  Good(md, pos, cnt, Flip(ldir, m), Append(q, m), arm, dir, pin, tp,
                Ahead(pr, Flip(ldir, m), m.count))
<1>1. q \in Seq(Move) /\ ldir \in BOOLEAN  BY Zenon DEF Good
<1>2. Append(q, m) \in Seq(Move) /\ Flip(ldir, m) \in BOOLEAN
  BY <1>1, SeqAppend, FlipType, Zenon
<1>3. Path(Append(q, m), Ahead(tp, dir, Left(md, cnt)), dir,
           Ahead(pr, Flip(ldir, m), m.count), Flip(ldir, m))
  BY <1>1, PathAppend, Zenon DEF Good
<1>4. QED  BY <1>2, <1>3, Zenon DEF Good

-----------------------------------------------------------------------------
(* The pool of moves *)

LEMMA PlacesMember ==
    \A S, q, p : p \in Places(S, q) <=> \E s \in S : \E i \in 1..Len(q[s]) : p = <<s, i>>
<1> TAKE S, q, p
<1>1. p \in Places(S, q) <=> \E s \in S : p \in {s} \X (1..Len(q[s]))
  BY Zenon DEF Places
<1>2. \A s \in S : p \in {s} \X (1..Len(q[s])) <=> \E i \in 1..Len(q[s]) : p = <<s, i>>
  OBVIOUS
<1>3. QED  BY <1>1, <1>2, Zenon

LEMMA PlacesPair ==
    \A S, q, s, i : <<s, i>> \in Places(S, q) <=> s \in S /\ i \in 1..Len(q[s])
<1> TAKE S, q, s, i
<1>1. \A t, j : <<s, i>> = <<t, j>> <=> s = t /\ i = j  BY Zenon
<1>2. <<s, i>> \in Places(S, q) <=> \E t \in S : \E j \in 1..Len(q[t]) : <<s, i>> = <<t, j>>
  BY PlacesMember
<1>3. QED  BY <1>1, <1>2, Zenon

\* Sets of pairs are equal when they have the same pairs.
Paired(A) == \A p \in A : \E t, i : p = <<t, i>>
LEMMA PlacesPaired == \A S, q : Paired(Places(S, q))
<1> TAKE S, q
<1>1. \A p \in Places(S, q) : \E s \in S : \E i \in 1..Len(q[s]) : p = <<s, i>>
  BY PlacesMember
<1>2. QED  BY <1>1, Zenon DEF Paired

LEMMA PairedEqual ==
    ASSUME NEW A, NEW B, Paired(A), Paired(B), \A t, i : <<t, i>> \in A <=> <<t, i>> \in B
    PROVE  A = B
<1>1. ASSUME NEW p \in A PROVE p \in B
  <2>1. PICK t, i : p = <<t, i>>  BY Zenon DEF Paired
  <2>2. QED  BY <2>1, Zenon
<1>2. ASSUME NEW p \in B PROVE p \in A
  <2>1. PICK t, i : p = <<t, i>>  BY Zenon DEF Paired
  <2>2. QED  BY <2>1, Zenon
<1>3. QED  BY <1>1, <1>2, Zenon

LEMMA PlacesFinite ==
    ASSUME NEW S, IsFiniteSet(S), NEW q \in [S -> Seq(Move)]
    PROVE  IsFiniteSet(Places(S, q)) /\ Lengths(S, q) \in Nat
<1> DEFINE P(s) == {s} \X (1..Len(q[s]))
           T == {P(s) : s \in S}
           f == [s \in S |-> P(s)]
<1>1. f \in Surjection(S, T)  BY Zenon DEF Surjection
<1>2. IsFiniteSet(T)  BY <1>1, FS_Surjection, Zenon
<1>3. \A s \in S : IsFiniteSet(P(s))
  <2> TAKE s \in S
  <2>1. Len(q[s]) \in Int /\ 1 \in Int
    <3>1. Len(q[s]) \in Nat  BY SeqLength, Zenon
    <3>2. QED  BY <3>1
  <2>2. IsFiniteSet({s}) /\ IsFiniteSet(1..Len(q[s]))  BY <2>1, FS_Singleton, FS_Interval, Zenon
  <2>3. QED  BY <2>2, FS_Product, Zenon
<1>4. IsFiniteSet(UNION T)
  <2>1. \A t \in T : IsFiniteSet(t)  BY <1>3, Zenon
  <2> HIDE DEF T
  <2>2. QED  BY <1>2, <2>1, FS_UNION, Zenon
<1>5. IsFiniteSet(Places(S, q))  BY <1>4, Zenon DEF Places
<1>6. QED  BY <1>5, FS_CardinalityType, Zenon DEF Lengths

LEMMA LengthsNone ==
    ASSUME NEW S, NEW q, \A s \in S : q[s] = <<>>
    PROVE  Lengths(S, q) = 0
<1>1. \A s \in S : \A i : i \notin 1..Len(q[s])
  <2>1. \A i : i \notin 1..Len(<<>>)  OBVIOUS
  <2>2. QED  BY <2>1, Zenon
<1>2. \A p : p \notin Places(S, q)
  <2>1. \A p : p \in Places(S, q) => \E s \in S : \E i \in 1..Len(q[s]) : p = <<s, i>>
    BY PlacesMember
  <2>2. QED  BY <1>1, <2>1, Zenon
<1>3. Places(S, q) = {}  BY <1>2, Zenon
<1>4. QED  BY <1>3, FS_EmptySet, Zenon DEF Lengths

Appended(S, q, s, m, q1) ==
    /\ IsFiniteSet(S) /\ q \in [S -> Seq(Move)] /\ s \in S /\ m \in Move
    /\ q1 = [q EXCEPT ![s] = Append(q[s], m)]
LEMMA LengthsAppend ==
    ASSUME NEW S, NEW q, NEW s, NEW m, NEW q1, Appended(S, q, s, m, q1)
    PROVE  Lengths(S, q1) = Lengths(S, q) + 1
<1>0. /\ IsFiniteSet(S) /\ q \in [S -> Seq(Move)] /\ s \in S /\ m \in Move
      /\ q1 = [q EXCEPT ![s] = Append(q[s], m)]
  BY Zenon DEF Appended
<1> USE <1>0
<1> DEFINE n == Len(q[s])
           q2 == [q EXCEPT ![s] = Append(q[s], m)]
<1>1. n \in Nat /\ Len(q2[s]) = n + 1
  <2>1. q2[s] = Append(q[s], m) /\ q[s] \in Seq(Move)  BY Zenon
  <2>2. Len(Append(q[s], m)) = Len(q[s]) + 1 /\ Len(q[s]) \in Nat
    BY <2>1, SeqAppend, SeqLength
  <2>3. QED  BY <2>1, <2>2, Zenon
<1>2. \A t \in S : t # s => q2[t] = q[t]  BY Zenon
<1>3. n = Len(q[s])  BY Zenon
<1> HIDE DEF n, q2
<1>4. \A i : i \in 1..n + 1 <=> i \in 1..n \/ i = n + 1  BY <1>1
<1>5. n + 1 \notin 1..n  BY <1>1
<1>6. Places(S, q2) = Places(S, q) \cup {<<s, n + 1>>}
  <2>1. \A t, i : <<t, i>> \in {<<s, n + 1>>} <=> t = s /\ i = n + 1  BY Zenon
  <2>2. ASSUME NEW t, NEW i
        PROVE  <<t, i>> \in Places(S, q2) <=> <<t, i>> \in Places(S, q) \cup {<<s, n + 1>>}
    <3>1. /\ <<t, i>> \in Places(S, q2) <=> t \in S /\ i \in 1..Len(q2[t])
          /\ <<t, i>> \in Places(S, q) <=> t \in S /\ i \in 1..Len(q[t])
      BY PlacesPair, Zenon
    <3>2. CASE t = s  BY <3>1, <3>2, <2>1, <1>1, <1>3, <1>4, ZenonT(30)
    <3>3. CASE t # s  BY <3>1, <3>3, <2>1, <1>2, ZenonT(30)
    <3>4. QED  BY <3>2, <3>3, Zenon
  <2>3. Paired(Places(S, q2)) /\ Paired(Places(S, q) \cup {<<s, n + 1>>})
    BY PlacesPaired DEF Paired
  <2>4. QED  BY <2>2, <2>3, PairedEqual, Zenon
<1>7. <<s, n + 1>> \notin Places(S, q)  BY <1>3, <1>5, PlacesPair, Zenon
<1>8. QED  BY <1>6, <1>7, PlacesFinite, FS_AddElement, Zenon DEF Lengths, q2

LEMMA LengthsTail ==
    ASSUME NEW S, IsFiniteSet(S), NEW q \in [S -> Seq(Move)], NEW s \in S, q[s] # <<>>
    PROVE  Lengths(S, [q EXCEPT ![s] = Tail(q[s])]) = Lengths(S, q) - 1
<1> DEFINE n == Len(q[s])
           q2 == [q EXCEPT ![s] = Tail(q[s])]
<1>1. n \in Nat \ {0} /\ Len(q2[s]) = n - 1
  <2>1. q2[s] = Tail(q[s]) /\ q[s] \in Seq(Move)  BY Zenon
  <2>2. Len(Tail(q[s])) = Len(q[s]) - 1 /\ Len(q[s]) \in Nat \ {0}
    BY <2>1, SeqTail, SeqEmpty, Zenon
  <2>3. QED  BY <2>1, <2>2, Zenon
<1>2. \A t \in S : t # s => q2[t] = q[t]  BY Zenon
<1>3. n = Len(q[s])  BY Zenon
<1> HIDE DEF n, q2
<1>4. \A i : i \in 1..n - 1 <=> i \in 1..n /\ i # n  BY <1>1
<1>5. n \in 1..n  BY <1>1
<1>6. Places(S, q2) = Places(S, q) \ {<<s, n>>}
  <2>1. \A t, i : <<t, i>> \in {<<s, n>>} <=> t = s /\ i = n  BY Zenon
  <2>2. ASSUME NEW t, NEW i
        PROVE  <<t, i>> \in Places(S, q2) <=> <<t, i>> \in Places(S, q) \ {<<s, n>>}
    <3>1. /\ <<t, i>> \in Places(S, q2) <=> t \in S /\ i \in 1..Len(q2[t])
          /\ <<t, i>> \in Places(S, q) <=> t \in S /\ i \in 1..Len(q[t])
      BY PlacesPair, Zenon
    <3>2. CASE t = s  BY <3>1, <3>2, <2>1, <1>1, <1>3, <1>4, ZenonT(30)
    <3>3. CASE t # s  BY <3>1, <3>3, <2>1, <1>2, ZenonT(30)
    <3>4. QED  BY <3>2, <3>3, Zenon
  <2>3. Paired(Places(S, q2)) /\ Paired(Places(S, q) \ {<<s, n>>})
    BY PlacesPaired DEF Paired
  <2>4. QED  BY <2>2, <2>3, PairedEqual, Zenon
<1>7. <<s, n>> \in Places(S, q)  BY <1>3, <1>5, PlacesPair, Zenon
<1>8. IsFiniteSet(Places(S, q))  BY PlacesFinite, Zenon
<1>9. Cardinality(Places(S, q) \ {<<s, n>>}) = Cardinality(Places(S, q)) - 1
  BY <1>7, <1>8, FS_RemoveElement, Zenon
<1>10. QED  BY <1>6, <1>9, Zenon DEF Lengths, q2

\* stepper_stop frees the moves of one stepper.
Emptied(S, s, q, q2) == \A t \in S : q2[t] = IF t \in {s} THEN <<>> ELSE q[t]
LEMMA LengthsClear ==
    ASSUME NEW S, IsFiniteSet(S), NEW q \in [S -> Seq(Move)], NEW s \in S,
           NEW q2, Emptied(S, s, q, q2)
    PROVE  /\ Lengths(S, q2) + Lengths({s}, q) = Lengths(S, q)
           /\ Lengths({s}, q) \in Nat /\ Lengths(S, q2) \in Nat
<1> DEFINE A == Places(S, q)
           B == Places({s}, q)
           C == Places(S, q2)
<1>1. IsFiniteSet(A) /\ Cardinality(A) \in Nat  BY PlacesFinite, FS_CardinalityType, Zenon
<1>2. \A t, i : /\ <<t, i>> \in A <=> t \in S /\ i \in 1..Len(q[t])
                /\ <<t, i>> \in B <=> t = s /\ i \in 1..Len(q[t])
                /\ <<t, i>> \in C <=> t \in S /\ i \in 1..Len(q2[t])
  <2>1. \A t : t \in {s} <=> t = s  BY Zenon
  <2>2. QED  BY <2>1, PlacesPair, Zenon
<1>3. Paired(A) /\ Paired(B) /\ Paired(C) /\ Paired(A \ B) /\ Paired(A \cap B)
  BY PlacesPaired DEF Paired
<1>4. Lengths(S, q) = Cardinality(A) /\ Lengths({s}, q) = Cardinality(B)
      /\ Lengths(S, q2) = Cardinality(C)
  BY Zenon DEF Lengths
<1> HIDE DEF A, B, C
<1>5. A \cap B = B
  <2>1. \A t, i : <<t, i>> \in A \cap B <=> <<t, i>> \in B  BY <1>2, Zenon
  <2>2. QED  BY <2>1, <1>3, PairedEqual, Zenon
<1>6. C = A \ B
  <2>1. \A i : i \notin 1..Len(<<>>)  OBVIOUS
  <2>2. ASSUME NEW t, NEW i PROVE <<t, i>> \in C <=> <<t, i>> \in A \ B
    <3>1. CASE t = s
      <4>1. q2[t] = <<>>  BY <3>1, Zenon DEF Emptied
      <4>2. QED  BY <3>1, <4>1, <2>1, <1>2, ZenonT(30)
    <3>2. CASE t # s /\ t \in S
      <4>1. q2[t] = q[t]  BY <3>2, Zenon DEF Emptied
      <4>2. QED  BY <3>2, <4>1, <1>2, ZenonT(30)
    <3>3. CASE t # s /\ t \notin S  BY <3>3, <1>2, Zenon
    <3>4. QED  BY <3>1, <3>2, <3>3, Zenon
  <2>3. QED  BY <2>2, <1>3, PairedEqual, Zenon
<1>7. IsFiniteSet(B)
  <2>1. IsFiniteSet(A \cap B)  BY <1>1, FS_Intersection, Zenon
  <2>2. QED  BY <2>1, <1>5, Zenon
<1>8. IsFiniteSet(C) /\ Cardinality(C) = Cardinality(A) - Cardinality(B)
  <2>1. IsFiniteSet(A \ B) /\ Cardinality(A \ B) = Cardinality(A) - Cardinality(A \cap B)
    BY <1>1, FS_Difference, Zenon
  <2>2. QED  BY <2>1, <1>5, <1>6, Zenon
<1>9. Cardinality(B) \in Nat /\ Cardinality(C) \in Nat  BY <1>7, <1>8, FS_CardinalityType, Zenon
<1>10. QED  BY <1>1, <1>4, <1>8, <1>9


-----------------------------------------------------------------------------
(* The steps of the specification *)

\* What an action does not touch stays as it was.
LEMMA GoodKept ==
    ASSUME NEW s, GoodAt(s),
           mode'[s] = mode[s], position'[s] = position[s], count'[s] = count[s],
           last_dir'[s] = last_dir[s], mq'[s] = mq[s], armed'[s] = armed[s],
           dir_pin'[s] = dir_pin[s], step_pin'[s] = step_pin[s],
           true_pos'[s] = true_pos[s], promised'[s] = promised[s]
    PROVE  GoodAt(s)'
  BY Zenon DEF GoodAt

\* stepper_load_next, called when the motor is where the last move ended.
LEMMA LoadNextKeeps ==
    ASSUME Functions, NEW s \in Stepper, NEW q \in Seq(Move), NEW f, LoadNext(s, q, f),
           mode' = mode,
           Between(mode[s], position[s], last_dir'[s], q, dir_pin[s], step_pin'[s],
                   true_pos'[s], promised'[s])
    PROVE  /\ GoodAt(s)'
           /\ position' \in [Stepper -> Int] /\ count' \in [Stepper -> Int]
           /\ dir_pin' \in [Stepper -> BOOLEAN] /\ armed' \in [Stepper -> BOOLEAN]
           /\ mq' \in [Stepper -> Seq(Move)]
           /\ \A t \in Stepper : t # s =>
                 /\ position'[t] = position[t] /\ count'[t] = count[t]
                 /\ dir_pin'[t] = dir_pin[t] /\ armed'[t] = armed[t] /\ mq'[t] = mq[t]
<1>1. /\ position \in [Stepper -> Int] /\ count \in [Stepper -> Int]
      /\ dir_pin \in [Stepper -> BOOLEAN] /\ armed \in [Stepper -> BOOLEAN]
      /\ mq \in [Stepper -> Seq(Move)] /\ mode[s] \in Mode /\ dir_pin[s] \in BOOLEAN
  BY Zenon DEF Functions
<1>2. CASE q = <<>>
  <2>1. /\ count' = [count EXCEPT ![s] = 0] /\ armed' = [armed EXCEPT ![s] = FALSE]
        /\ mq' = [mq EXCEPT ![s] = <<>>] /\ position' = position /\ dir_pin' = dir_pin
    BY <1>2, Zenon DEF LoadNext
  <2>2. count'[s] = 0 /\ armed'[s] = FALSE /\ mq'[s] = <<>>  BY <2>1, <1>1, ZenonT(30)
  <2>3. promised'[s] = true_pos'[s] /\ last_dir'[s] = dir_pin[s]
    <3>1. Path(<<>>, true_pos'[s], dir_pin[s], promised'[s], last_dir'[s])
      BY <1>2, Zenon DEF Between
    <3>2. QED  BY <3>1, PathEmpty
  <2>4. AtRest(mode[s], position[s], last_dir'[s], dir_pin[s], step_pin'[s], true_pos'[s],
               promised'[s])
    BY <2>3, Zenon DEF AtRest, Between
  <2>5. Good(mode[s], position[s], 0, last_dir'[s], <<>>, FALSE, dir_pin[s], step_pin'[s],
             true_pos'[s], promised'[s])
    BY <2>4, RestIsGood, Zenon
  <2>6. GoodAt(s)'  BY <2>1, <2>2, <2>5, ZenonT(30) DEF GoodAt
  <2>7. 0 \in Int /\ <<>> \in Seq(Move)  BY SeqEmpty
  <2>8. QED  BY <2>1, <2>6, <2>7, <1>1, ZenonT(30)
<1>3. CASE q # <<>>
  <2> DEFINE p2 == LoadedPos(position[s], Head(q))
             c2 == LoadedCount(mode[s], Head(q))
             d2 == Flip(dir_pin[s], Head(q))
  <2>1. /\ position' = [position EXCEPT ![s] = p2]
        /\ count' = [count EXCEPT ![s] = c2]
        /\ dir_pin' = [dir_pin EXCEPT ![s] = d2]
        /\ armed' = [armed EXCEPT ![s] = TRUE]
        /\ mq' = [mq EXCEPT ![s] = Tail(q)]
    BY <1>3, Zenon DEF LoadNext, SingleSched, LoadedPos, LoadedCount, Flip
  <2>2. /\ position'[s] = p2 /\ count'[s] = c2 /\ dir_pin'[s] = d2 /\ armed'[s] = TRUE
        /\ mq'[s] = Tail(q)
    BY <2>1, <1>1, Zenon
  <2>3. Good(mode[s], p2, c2, last_dir'[s], Tail(q), armed'[s], d2, step_pin'[s], true_pos'[s],
             promised'[s])
    BY <2>2, <1>3, GoodLoad, ZenonT(30)
  <2> HIDE DEF p2, c2, d2
  <2>4. p2 \in Int /\ c2 \in Int /\ d2 \in BOOLEAN /\ Tail(q) \in Seq(Move)
    <3>1. p2 \in Int /\ c2 \in Nat  BY <2>3, GoodTypes, Zenon
    <3>2. d2 \in BOOLEAN /\ Tail(q) \in Seq(Move)  BY <2>3, Zenon DEF Good
    <3>3. QED  BY <3>1, <3>2
  <2>5. GoodAt(s)'  BY <2>2, <2>3, Zenon DEF GoodAt
  <2>6. QED  BY <2>1, <2>4, <2>5, <1>1, ZenonT(30)
<1>4. QED  BY <1>2, <1>3, Zenon

LEMMA InitKeeps == Init => StepperInv
<1> SUFFICES ASSUME Init PROVE StepperInv  BY Zenon
<1> USE DEF Init
<1>1. Neg(Bias) = Encode(FALSE, 0) /\ 0 \in Reach /\ Neg(Bias) \in Int
  <2>1. 0 \in Reach  BY Widths, StepperAssumption DEF Reach
  <2>2. Neg(Encode(TRUE, 0)) = Encode(FALSE, 0)  BY <2>1, NegEncode, Zenon
  <2>3. Encode(TRUE, 0) = Bias  BY Widths DEF Encode
  <2>4. Encode(FALSE, 0) \in Int  BY <2>1, EncodeRange, Zenon
  <2>5. QED  BY <2>1, <2>2, <2>3, <2>4, ZenonT(30)
<1>2. Functions
  <2>1. <<>> \in Seq(Move) /\ 0 \in Int  BY SeqEmpty
  <2>2. QED  BY <1>1, <2>1, Zenon DEF Functions
<1>3. ASSUME NEW s \in Stepper PROVE GoodAt(s)
  <2>1. AtRest(mode[s], position[s], last_dir[s], dir_pin[s], step_pin[s], true_pos[s],
               promised[s])
    BY <1>1, Zenon DEF AtRest
  <2>2. Good(mode[s], position[s], 0, last_dir[s], <<>>, FALSE, dir_pin[s], step_pin[s],
             true_pos[s], promised[s])
    BY <2>1, RestIsGood, Zenon
  <2>3. count[s] = 0 /\ mq[s] = <<>> /\ armed[s] = FALSE  BY Zenon
  <2>4. QED  BY <2>2, <2>3, Zenon DEF GoodAt
<1>4. Pool
  <2>1. \A s \in Stepper : mq[s] = <<>>  BY Zenon
  <2>2. Lengths(Stepper, mq) = 0  BY <2>1, LengthsNone, Zenon
  <2>3. QED  BY <2>2, StepperAssumption DEF Pool
<1>5. QED  BY <1>2, <1>3, <1>4, ZenonT(30) DEF StepperInv


\* The pool gets back the moves that leave the queues.
LEMMA LengthsNat ==
    ASSUME NEW q \in [Stepper -> Seq(Move)]
    PROVE  Lengths(Stepper, q) \in Nat
<1>1. IsFiniteSet(Places(Stepper, q))  BY PlacesFinite, StepperAssumption, Zenon
<1>2. QED  BY <1>1, FS_CardinalityType, Zenon DEF Lengths

LEMMA StepEventKeeps ==
    ASSUME StepperInv, NEW s \in Stepper, StepEvent(s)
    PROVE  StepperInv'
<1> DEFINE tp2 == Stepped(mode[s], dir_pin[s], step_pin[s], true_pos[s])
           pin2 == PinAfter(mode[s], step_pin[s])
<1>0. Functions /\ (\A t \in Stepper : GoodAt(t)) /\ Pool  BY Zenon DEF StepperInv
<1>1. /\ mode' = mode /\ last_dir' = last_dir /\ next_dir' = next_dir
      /\ need_reset' = need_reset /\ signal' = signal /\ is_shutdown' = is_shutdown
      /\ promised' = promised /\ armed[s]
  BY Zenon DEF StepEvent
<1>2. /\ step_pin' \in [Stepper -> BOOLEAN] /\ step_pin'[s] = pin2
      /\ \A t \in Stepper : t # s => step_pin'[t] = step_pin[t]
  BY <1>0, Zenon DEF StepEvent, Functions, PinAfter
<1>3. /\ true_pos' \in [Stepper -> Int] /\ true_pos'[s] = tp2
      /\ \A t \in Stepper : t # s => true_pos'[t] = true_pos[t]
  <2>1. true_pos \in [Stepper -> Int]  BY <1>0, Zenon DEF Functions
  <2>2. true_pos[s] + 1 \in Int /\ true_pos[s] - 1 \in Int  BY <2>1
  <2>3. CASE mode[s] = "full" /\ step_pin[s]
    BY <2>1, <2>3, Zenon DEF StepEvent, Stepped
  <2>4. CASE ~(mode[s] = "full" /\ step_pin[s])
    BY <2>1, <2>2, <2>4, Zenon DEF StepEvent, StepMotor, Stepped
  <2>5. QED  BY <2>3, <2>4, Zenon
<1> HIDE DEF tp2, pin2
<1>4. /\ GoodAt(s)
      /\ count \in [Stepper -> Int] /\ mq \in [Stepper -> Seq(Move)]
  BY <1>0, Zenon DEF Functions
<1>5. CASE count[s] # 1
  <2>1. /\ count' = [count EXCEPT ![s] = count[s] - 1] /\ position' = position /\ mq' = mq
        /\ armed' = armed /\ dir_pin' = dir_pin /\ free' = free
    BY <1>5, Zenon DEF StepEvent
  <2>2. count[s] # 0
    <3>1. armed[s] = (count[s] > 0)  BY <1>4, Zenon DEF GoodAt, Good, Flags
    <3>2. ~(0 > 0)  OBVIOUS
    <3>3. QED  BY <1>1, <3>1, <3>2, Zenon
  <2>3. Good(mode[s], position[s], count[s] - 1, last_dir[s], mq[s], armed[s], dir_pin[s], pin2,
             tp2, promised[s])
    BY <1>4, <1>5, <2>2, GoodStepMore, ZenonT(30) DEF GoodAt, pin2, tp2
  <2>4. count[s] - 1 \in Int  BY <1>4
  <2>5. /\ count' \in [Stepper -> Int] /\ count'[s] = count[s] - 1
        /\ \A t \in Stepper : t # s => count'[t] = count[t]
    BY <1>4, <2>1, <2>4, Zenon
  <2>6. GoodAt(s)'  BY <1>1, <1>2, <1>3, <2>1, <2>3, <2>5, ZenonT(30) DEF GoodAt
  <2>7. \A t \in Stepper : t # s => GoodAt(t)'
    BY <1>0, <1>1, <1>2, <1>3, <2>1, <2>5, GoodKept, ZenonT(30)
  <2>8. Functions'  BY <1>0, <1>1, <1>2, <1>3, <2>1, <2>5, ZenonT(30) DEF Functions
  <2>9. Pool'  BY <1>0, <2>1, Zenon DEF Pool
  <2>10. QED  BY <2>6, <2>7, <2>8, <2>9, ZenonT(30) DEF StepperInv
<1>6. CASE count[s] = 1
  <2>1. LoadNext(s, mq[s], free)  BY <1>6, Zenon DEF StepEvent
  <2>2. Good(mode[s], position[s], 1, last_dir[s], mq[s], armed[s], dir_pin[s], step_pin[s],
             true_pos[s], promised[s])
    BY <1>4, <1>6, Zenon DEF GoodAt
  <2>3. Between(mode[s], position[s], last_dir[s], mq[s], dir_pin[s], pin2, tp2, promised[s])
    BY <2>2, GoodStepLast, Zenon DEF pin2, tp2
  <2>4. Between(mode[s], position[s], last_dir'[s], mq[s], dir_pin[s], step_pin'[s],
                true_pos'[s], promised'[s])
    BY <2>3, <1>1, <1>2, <1>3, ZenonT(30)
  <2>5. mq[s] \in Seq(Move)  BY <1>4, Zenon
  <2>6. /\ GoodAt(s)'
        /\ position' \in [Stepper -> Int] /\ count' \in [Stepper -> Int]
        /\ dir_pin' \in [Stepper -> BOOLEAN] /\ armed' \in [Stepper -> BOOLEAN]
        /\ mq' \in [Stepper -> Seq(Move)]
        /\ \A t \in Stepper : t # s =>
              /\ position'[t] = position[t] /\ count'[t] = count[t]
              /\ dir_pin'[t] = dir_pin[t] /\ armed'[t] = armed[t] /\ mq'[t] = mq[t]
    BY <1>0, <1>1, <2>1, <2>4, <2>5, LoadNextKeeps, ZenonT(30)
  <2>7. \A t \in Stepper : t # s => GoodAt(t)'
    BY <1>0, <1>1, <1>2, <1>3, <2>6, GoodKept, ZenonT(30)
  <2>8. Functions'  BY <1>0, <1>1, <1>2, <1>3, <2>6, ZenonT(30) DEF Functions
  <2>9. Pool'
    <3>1. free \in Nat /\ free + Lengths(Stepper, mq) = MoveCount  BY <1>0, Zenon DEF Pool
    <3>2. CASE mq[s] = <<>>
      <4>1. free' = free /\ mq' = [mq EXCEPT ![s] = <<>>]  BY <2>1, <3>2, Zenon DEF LoadNext
      <4>2. mq' = mq  BY <4>1, <3>2, <1>4, Zenon
      <4>3. QED  BY <3>1, <4>1, <4>2, Zenon DEF Pool
    <3>3. CASE mq[s] # <<>>
      <4>1. free' = free + 1 /\ mq' = [mq EXCEPT ![s] = Tail(mq[s])]
        BY <2>1, <3>3, Zenon DEF LoadNext
      <4>2. Lengths(Stepper, mq') = Lengths(Stepper, mq) - 1
        BY <4>1, <3>3, <1>4, LengthsTail, StepperAssumption, ZenonT(30)
      <4>3. Lengths(Stepper, mq) \in Nat  BY <1>4, LengthsNat, Zenon
      <4>4. QED  BY <3>1, <4>1, <4>2, <4>3, SMTT(30) DEF Pool
    <3>4. QED  BY <3>2, <3>3, Zenon
  <2>10. QED  BY <2>6, <2>7, <2>8, <2>9, ZenonT(30) DEF StepperInv
<1>7. QED  BY <1>5, <1>6, Zenon


\* stepper_stop: the stepper is at rest where the motor is.
LEMMA StopSteppersKeeps ==
    ASSUME StepperInv, NEW S, NEW q \in [Stepper -> Seq(Move)],
           \A t \in Stepper : t \notin S => q[t] = mq[t],
           StopSteppers(S, q), mode' = mode, is_shutdown' \in BOOLEAN
    PROVE  Functions' /\ \A t \in Stepper : GoodAt(t)'
<1>0. Functions /\ (\A t \in Stepper : GoodAt(t))  BY Zenon DEF StepperInv
<1>1. ASSUME NEW t \in Stepper
      PROVE  /\ GetPosition(t) = Bias + true_pos[t] /\ true_pos[t] \in Reach
             /\ Neg(GetPosition(t)) = Encode(FALSE, true_pos[t])
             /\ Neg(GetPosition(t)) \in Int
  <2>1. Good(mode[t], position[t], count[t], last_dir[t], mq[t], armed[t], dir_pin[t],
             step_pin[t], true_pos[t], promised[t])
    BY <1>0, ZenonT(30) DEF GoodAt
  <2>2. PosOf(mode[t], position[t], count[t]) = Bias + true_pos[t]  BY <2>1, GoodPosition
  <2>3. GetPosition(t) = PosOf(mode[t], position[t], count[t])
    BY Zenon DEF GetPosition, StepsLeft, SingleSched, PosOf, Left
  <2>4. true_pos[t] \in Reach  BY <2>1, Zenon DEF Good
  <2>5. Bias + true_pos[t] = Encode(TRUE, true_pos[t])  BY Zenon DEF Encode
  <2>6. Neg(Encode(TRUE, true_pos[t])) = Encode(FALSE, true_pos[t])
    BY <2>4, NegEncode, Zenon
  <2>7. Encode(FALSE, true_pos[t]) \in Int  BY <2>4, EncodeRange, Zenon
  <2>8. QED  BY <2>2, <2>3, <2>4, <2>5, <2>6, <2>7, ZenonT(30)
<1>2. ASSUME NEW t \in Stepper, t \in S PROVE GoodAt(t)'
  <2>1. /\ position'[t] = Encode(FALSE, true_pos[t]) /\ count'[t] = 0 /\ last_dir'[t] = FALSE
        /\ mq'[t] = <<>> /\ armed'[t] = FALSE /\ dir_pin'[t] = FALSE
        /\ step_pin'[t] = PinStopped(t) /\ true_pos'[t] = true_pos[t]
        /\ promised'[t] = true_pos[t]
    BY <1>1, <1>2, Zenon DEF StopSteppers
  <2>2. /\ PinStopped(t) \in BOOLEAN /\ (mode[t] # "both" => PinStopped(t) = FALSE)
        /\ mode[t] \in Mode
    BY <1>0, Zenon DEF PinStopped, Functions
  <2>3. AtRest(mode[t], position'[t], last_dir'[t], dir_pin'[t], step_pin'[t], true_pos'[t],
               promised'[t])
    BY <2>1, <2>2, <1>1, Zenon DEF AtRest
  <2>4. Good(mode[t], position'[t], 0, last_dir'[t], <<>>, FALSE, dir_pin'[t], step_pin'[t],
             true_pos'[t], promised'[t])
    BY <2>3, RestIsGood, Zenon
  <2>5. QED  BY <2>1, <2>4, Zenon DEF GoodAt
<1>3. ASSUME NEW t \in Stepper, t \notin S PROVE GoodAt(t)'
  <2>1. /\ last_dir[t] \in BOOLEAN /\ armed[t] \in BOOLEAN /\ dir_pin[t] \in BOOLEAN
    BY <1>0, Zenon DEF Functions
  <2>2. /\ position'[t] = position[t] /\ count'[t] = count[t] /\ last_dir'[t] = last_dir[t]
        /\ mq'[t] = mq[t] /\ armed'[t] = armed[t] /\ dir_pin'[t] = dir_pin[t]
        /\ step_pin'[t] = step_pin[t] /\ true_pos'[t] = true_pos[t]
        /\ promised'[t] = promised[t]
    BY <1>3, <2>1, Zenon DEF StopSteppers
  <2>3. QED  BY <1>0, <2>2, GoodKept, Zenon
<1>4. Functions'
  <2>1. /\ position \in [Stepper -> Int] /\ count \in [Stepper -> Int]
        /\ step_pin \in [Stepper -> BOOLEAN] /\ need_reset \in [Stepper -> BOOLEAN]
        /\ true_pos \in [Stepper -> Int] /\ promised \in [Stepper -> Int]
        /\ mode \in [Stepper -> Mode]
    BY <1>0, Zenon DEF Functions
  <2>2. 0 \in Int /\ <<>> \in Seq(Move) /\ \A t \in Stepper : PinStopped(t) \in BOOLEAN
    BY SeqEmpty DEF PinStopped
  <2>3. /\ position' \in [Stepper -> Int] /\ count' \in [Stepper -> Int]
        /\ mq' \in [Stepper -> Seq(Move)] /\ promised' \in [Stepper -> Int]
        /\ step_pin' \in [Stepper -> BOOLEAN]
    BY <1>1, <2>1, <2>2, ZenonT(30) DEF StopSteppers
  <2>4. /\ last_dir' \in [Stepper -> BOOLEAN] /\ next_dir' \in [Stepper -> BOOLEAN]
        /\ need_reset' \in [Stepper -> BOOLEAN] /\ dir_pin' \in [Stepper -> BOOLEAN]
        /\ armed' \in [Stepper -> BOOLEAN] /\ signal' \in [Stepper -> BOOLEAN]
        /\ true_pos' = true_pos
    BY Zenon DEF StopSteppers
  <2>5. QED  BY <2>1, <2>3, <2>4, Zenon DEF Functions
<1>5. QED  BY <1>2, <1>3, <1>4, ZenonT(30)

LEMMA TriggerKeeps ==
    ASSUME StepperInv, NEW s \in Stepper, Trigger(s)
    PROVE  StepperInv'
<1>1. /\ StopSteppers({s}, mq) /\ free' = free + Lengths({s}, mq) /\ mode' = mode
      /\ is_shutdown' = is_shutdown
  BY Zenon DEF Trigger
<1>2. mq \in [Stepper -> Seq(Move)] /\ is_shutdown \in BOOLEAN
  BY Zenon DEF StepperInv, Functions
<1>3. Functions' /\ \A t \in Stepper : GoodAt(t)'
  BY <1>1, <1>2, StopSteppersKeeps, ZenonT(30)
<1>4. Pool'
  <2>1. Emptied(Stepper, s, mq, mq')
    BY <1>1, Zenon DEF StopSteppers, Emptied
  <2>2. /\ Lengths(Stepper, mq') + Lengths({s}, mq) = Lengths(Stepper, mq)
        /\ Lengths({s}, mq) \in Nat /\ Lengths(Stepper, mq') \in Nat
    BY <1>2, <2>1, LengthsClear, StepperAssumption, ZenonT(30)
  <2>3. free \in Nat /\ free + Lengths(Stepper, mq) = MoveCount
    BY Zenon DEF StepperInv, Pool
  <2>4. QED  BY <1>1, <2>2, <2>3 DEF Pool
<1>5. QED  BY <1>3, <1>4, Zenon DEF StepperInv

LEMMA RunShutdownKeeps ==
    ASSUME StepperInv, RunShutdown
    PROVE  StepperInv'
<1>1. /\ StopSteppers(Stepper, Cleared(mq)) /\ mode' = mode /\ is_shutdown' = TRUE
      /\ free' = MoveCount + Lengths(Stepper, Cleared(mq))
  BY Zenon DEF RunShutdown
<1>2. Cleared(mq) \in [Stepper -> Seq(Move)] /\ \A t \in Stepper : Cleared(mq)[t] = <<>>
  <2>1. <<>> \in Seq(Move)  BY SeqEmpty, Zenon
  <2>2. QED  BY <2>1, Zenon DEF Cleared
<1>3. Functions' /\ \A t \in Stepper : GoodAt(t)'
  BY <1>1, <1>2, StopSteppersKeeps, Zenon
<1>4. Pool'
  <2>1. \A t \in Stepper : mq'[t] = <<>>  BY <1>1, Zenon DEF StopSteppers
  <2>2. Lengths(Stepper, mq') = 0 /\ Lengths(Stepper, Cleared(mq)) = 0
    BY <1>2, <2>1, LengthsNone, Zenon
  <2>3. QED  BY <1>1, <2>2, StepperAssumption DEF Pool
<1>5. QED  BY <1>3, <1>4, Zenon DEF StepperInv


LEMMA QueueStepKeeps ==
    ASSUME StepperInv, NEW s \in Stepper, NEW c \in 1..MaxCount, QueueStep(s, c)
    PROVE  StepperInv'
<1> DEFINE m == [count |-> c, dir |-> DirChange(s)]
           accepted == count[s] > 0 \/ ~need_reset[s]
           moved == promised[s] + (IF next_dir[s] THEN c ELSE -c)
<1>0. Functions /\ (\A t \in Stepper : GoodAt(t)) /\ Pool  BY Zenon DEF StepperInv
<1>1. /\ last_dir \in [Stepper -> BOOLEAN] /\ next_dir[s] \in BOOLEAN /\ last_dir[s] \in BOOLEAN
      /\ promised \in [Stepper -> Int] /\ promised[s] \in Int /\ mq \in [Stepper -> Seq(Move)]
      /\ mq[s] \in Seq(Move)
  BY <1>0, Zenon DEF Functions
<1>2. m \in Move /\ m.count = c /\ Flip(last_dir[s], m) = next_dir[s]
  <2>1. m \in Move /\ m.count = c  BY Zenon DEF Move, DirChange
  <2>2. m = [count |-> c, dir |-> last_dir[s] # next_dir[s]]  BY Zenon DEF DirChange
  <2>3. QED  BY <1>1, <2>1, <2>2, FlipChange, Zenon
<1>3. moved \in Reach /\ moved \in Int /\ moved = Ahead(promised[s], next_dir[s], c)
  <2>1. moved \in Reach  BY Zenon DEF QueueStep, Reach
  <2>2. c \in Int  BY Widths
  <2>3. promised[s] + (-c) = promised[s] - c  BY <1>1, <2>2, Zenon
  <2>4. moved = Ahead(promised[s], next_dir[s], c)  BY <2>3, Zenon DEF Ahead
  <2>5. QED  BY <2>1, <2>4, ReachInt, Zenon
<1>4. CASE free = 0
  <2>1. RunShutdown  BY <1>4, Zenon DEF QueueStep
  <2>2. QED  BY <2>1, RunShutdownKeeps, Zenon
<1>5. CASE free # 0
  <2>1. /\ last_dir' = [last_dir EXCEPT ![s] = LastDir(s, accepted)]
        /\ promised' = [promised EXCEPT ![s] = IF accepted THEN moved ELSE @]
        /\ mode' = mode /\ next_dir' = next_dir /\ need_reset' = need_reset /\ signal' = signal
        /\ step_pin' = step_pin /\ true_pos' = true_pos /\ is_shutdown' = is_shutdown
    BY <1>5, Zenon DEF QueueStep
  <2>2. /\ last_dir' \in [Stepper -> BOOLEAN] /\ promised' \in [Stepper -> Int]
        /\ last_dir'[s] = (IF accepted THEN next_dir[s] ELSE last_dir[s])
        /\ promised'[s] = (IF accepted THEN moved ELSE promised[s])
        /\ \A t \in Stepper : t # s => last_dir'[t] = last_dir[t] /\ promised'[t] = promised[t]
    <3> HIDE DEF accepted, moved
    <3>1. QED  BY <1>1, <1>3, <2>1, Zenon DEF LastDir
  <2>3. /\ free \in Nat /\ free + Lengths(Stepper, mq) = MoveCount
        /\ Lengths(Stepper, mq) \in Nat
    BY <1>0, <1>1, LengthsNat, Zenon DEF Pool
  <2>4. Good(mode[s], position[s], count[s], last_dir[s], mq[s], armed[s], dir_pin[s],
             step_pin[s], true_pos[s], promised[s])
    BY <1>0, Zenon DEF GoodAt
  <2>5. count[s] \in Nat  BY <2>4, GoodTypes, Zenon
  <2>6. CASE count[s] > 0
    <3>1. /\ mq' = [mq EXCEPT ![s] = Append(mq[s], m)] /\ free' = free - 1
          /\ position' = position /\ count' = count /\ armed' = armed /\ dir_pin' = dir_pin
      BY <1>5, <2>6, Zenon DEF QueueStep
    <3>2. last_dir'[s] = next_dir[s] /\ promised'[s] = moved  BY <2>2, <2>6, Zenon
    <3> HIDE DEF m, moved
    <3>3. Append(mq[s], m) \in Seq(Move)  BY <1>1, <1>2, SeqAppend, ZenonT(30)
    <3>4. /\ mq' \in [Stepper -> Seq(Move)] /\ mq'[s] = Append(mq[s], m)
          /\ \A t \in Stepper : t # s => mq'[t] = mq[t]
      BY <1>1, <3>1, <3>3, ZenonT(30)
    <3>5. count[s] # 0  BY <2>5, <2>6
    <3>6. Good(mode[s], position[s], count[s], next_dir[s], Append(mq[s], m), armed[s],
               dir_pin[s], step_pin[s], true_pos[s], moved)
      <4>1. Ahead(promised[s], Flip(last_dir[s], m), m.count) = moved  BY <1>2, <1>3, Zenon
      <4>2. Good(mode[s], position[s], count[s], Flip(last_dir[s], m), Append(mq[s], m),
                 armed[s], dir_pin[s], step_pin[s], true_pos[s],
                 Ahead(promised[s], Flip(last_dir[s], m), m.count))
        BY <4>1, <1>2, <1>3, <2>4, <3>5, GoodAppend, ZenonT(30)
      <4>3. QED  BY <4>1, <4>2, <1>2, Zenon
    <3>7. GoodAt(s)'  BY <2>1, <3>1, <3>2, <3>4, <3>6, ZenonT(30) DEF GoodAt
    <3>8. \A t \in Stepper : t # s => GoodAt(t)'
      BY <1>0, <2>1, <2>2, <3>1, <3>4, GoodKept, ZenonT(30)
    <3>9. Functions'  BY <1>0, <2>1, <2>2, <3>1, <3>4, ZenonT(30) DEF Functions
    <3>10. Lengths(Stepper, mq') = Lengths(Stepper, mq) + 1
      <4>1. Appended(Stepper, mq, s, m, mq')
        BY <1>1, <1>2, <3>1, StepperAssumption, ZenonT(30) DEF Appended
      <4>2. QED  BY <4>1, LengthsAppend, Zenon
    <3>11. Pool'  BY <3>1, <3>10, <2>3, <1>5, SMTT(30) DEF Pool
    <3>12. QED  BY <3>7, <3>8, <3>9, <3>11, ZenonT(30) DEF StepperInv
  <2>7. CASE ~(count[s] > 0) /\ need_reset[s]
    <3>1. /\ mq' = mq /\ free' = free /\ position' = position /\ count' = count
          /\ armed' = armed /\ dir_pin' = dir_pin
      BY <1>5, <2>7, Zenon DEF QueueStep
    <3>2. last_dir'[s] = last_dir[s] /\ promised'[s] = promised[s]  BY <2>2, <2>7, Zenon
    <3>3. \A t \in Stepper : GoodAt(t)'  BY <1>0, <2>1, <2>2, <3>1, <3>2, GoodKept, ZenonT(30)
    <3>4. Functions'  BY <1>0, <2>1, <2>2, <3>1, ZenonT(30) DEF Functions
    <3>5. Pool'  BY <1>0, <3>1, Zenon DEF Pool
    <3>6. QED  BY <3>3, <3>4, <3>5, ZenonT(30) DEF StepperInv
  <2>8. CASE ~(count[s] > 0) /\ ~need_reset[s]
    <3>1. LoadNext(s, <<m>>, free - 1)  BY <1>5, <2>8, Zenon DEF QueueStep
    <3>2. last_dir'[s] = next_dir[s] /\ promised'[s] = moved  BY <2>2, <2>8, Zenon
    <3>3. count[s] = 0  BY <2>5, <2>8
    <3>4. /\ AtRest(mode[s], position[s], last_dir[s], dir_pin[s], step_pin[s], true_pos[s],
                    promised[s])
          /\ mq[s] = <<>>
      <4>1. AtRest(mode[s], position[s], last_dir[s], dir_pin[s], step_pin[s], true_pos[s],
                   promised[s])
        BY <2>4, <3>3, GoodAtRest, Zenon
      <4>2. mq[s] = <<>>  BY <2>4, <3>3, Zenon DEF Good
      <4>3. QED  BY <4>1, <4>2, Zenon
    <3> HIDE DEF m, moved
    <3>5. Path(<<m>>, true_pos[s], dir_pin[s], moved, next_dir[s])
      <4>1. /\ true_pos[s] \in Reach /\ dir_pin[s] \in BOOLEAN
            /\ promised[s] = true_pos[s] /\ last_dir[s] = dir_pin[s]
        BY <3>4, Zenon DEF AtRest
      <4>2. Path(<<>>, true_pos[s], dir_pin[s], promised[s], last_dir[s])
        BY <4>1, PathEmpty, ZenonT(30)
      <4>3. Ahead(promised[s], Flip(last_dir[s], m), m.count) = moved  BY <1>2, <1>3, Zenon
      <4>4. <<>> \in Seq(Move)  BY SeqEmpty, Zenon
      <4>5. Path(Append(<<>>, m), true_pos[s], dir_pin[s],
                 Ahead(promised[s], Flip(last_dir[s], m), m.count), Flip(last_dir[s], m))
        BY <1>2, <1>3, <4>2, <4>3, <4>4, PathAppend, ZenonT(30)
      <4>6. Append(<<>>, m) = <<m>>  OBVIOUS
      <4>7. QED  BY <1>2, <4>3, <4>5, <4>6, ZenonT(30)
    <3>6. <<m>> \in Seq(Move) /\ <<m>> # <<>> /\ Tail(<<m>>) = <<>>  BY <1>2
    <3>7. Between(mode[s], position[s], last_dir'[s], <<m>>, dir_pin[s], step_pin'[s],
                  true_pos'[s], promised'[s])
      BY <1>1, <2>1, <3>2, <3>4, <3>5, <3>6, ZenonT(30) DEF Between, AtRest
    <3>8. /\ GoodAt(s)'
          /\ position' \in [Stepper -> Int] /\ count' \in [Stepper -> Int]
          /\ dir_pin' \in [Stepper -> BOOLEAN] /\ armed' \in [Stepper -> BOOLEAN]
          /\ mq' \in [Stepper -> Seq(Move)]
          /\ \A t \in Stepper : t # s =>
                /\ position'[t] = position[t] /\ count'[t] = count[t]
                /\ dir_pin'[t] = dir_pin[t] /\ armed'[t] = armed[t] /\ mq'[t] = mq[t]
      BY <1>0, <2>1, <3>1, <3>6, <3>7, LoadNextKeeps, ZenonT(30)
    <3>9. \A t \in Stepper : t # s => GoodAt(t)'
      BY <1>0, <2>1, <2>2, <3>8, GoodKept, ZenonT(30)
    <3>10. Functions'  BY <1>0, <2>1, <2>2, <3>8, Zenon DEF Functions
    <3>11. Pool'
      <4>1. mq' = [mq EXCEPT ![s] = Tail(<<m>>)] /\ free' = (free - 1) + 1
        BY <3>1, <3>6, Zenon DEF LoadNext
      <4>2. mq' = mq  BY <4>1, <3>4, <3>6, <1>1, Zenon
      <4>3. free' = free  BY <4>1, <2>3
      <4>4. QED  BY <4>2, <4>3, <1>0, Zenon DEF Pool
    <3>12. QED  BY <3>8, <3>9, <3>10, <3>11, ZenonT(30) DEF StepperInv
  <2>9. QED  BY <2>6, <2>7, <2>8, Zenon
<1>6. QED  BY <1>4, <1>5, Zenon


LEMMA NextKeeps == StepperInv /\ [Next]_vars => StepperInv'
<1> SUFFICES ASSUME StepperInv, [Next]_vars PROVE StepperInv'  BY Zenon
<1>0. Functions /\ (\A t \in Stepper : GoodAt(t)) /\ Pool  BY Zenon DEF StepperInv
<1>1. CASE Shutdown  BY <1>1, RunShutdownKeeps, Zenon DEF Shutdown
<1>2. ASSUME ~Shutdown,
             \A s \in Stepper : ~StepEvent(s) /\ ~Trigger(s),
             \A s \in Stepper : \A c \in 1..MaxCount : ~QueueStep(s, c),
             \A s \in Stepper : ~(ResetStepClock(s) /\ count[s] > 0),
             \A s \in Stepper : ~(StopOnTrigger(s) /\ signal[s])
      PROVE  /\ UNCHANGED <<mode, position, count, last_dir, mq, armed, dir_pin, step_pin,
                            true_pos, promised, free>>
             /\ Functions'
  <2>1. CASE ClearShutdown  BY <1>0, <2>1, Zenon DEF ClearShutdown, stepper, Functions
  <2>2. CASE \E s \in Stepper : \E d \in BOOLEAN : SetNextStepDir(s, d)
    BY <1>0, <2>2, Zenon DEF SetNextStepDir, Functions
  <2>3. CASE \E s \in Stepper : ResetStepClock(s)
    BY <1>0, <1>2, <2>3, Zenon DEF ResetStepClock, Functions
  <2>4. CASE \E s \in Stepper : StopOnTrigger(s)
    BY <1>0, <1>2, <2>4, Zenon DEF StopOnTrigger, Functions
  <2>5. CASE UNCHANGED vars  BY <1>0, <2>5, Zenon DEF vars, stepper, Functions
  <2>6. QED  BY <1>2, <2>1, <2>2, <2>3, <2>4, <2>5, ZenonT(30) DEF Next
<1>3. ASSUME NEW s \in Stepper, StepEvent(s) \/ Trigger(s)
      PROVE  StepperInv'
  BY <1>3, StepEventKeeps, TriggerKeeps, Zenon
<1>4. ASSUME NEW s \in Stepper, NEW c \in 1..MaxCount, QueueStep(s, c)
      PROVE  StepperInv'
  BY <1>4, QueueStepKeeps, Zenon
<1>5. ASSUME NEW s \in Stepper, ResetStepClock(s) /\ count[s] > 0
      PROVE  StepperInv'
  BY <1>5, RunShutdownKeeps, Zenon DEF ResetStepClock
<1>6. ASSUME NEW s \in Stepper, StopOnTrigger(s) /\ signal[s]
      PROVE  StepperInv'
  BY <1>6, RunShutdownKeeps, Zenon DEF StopOnTrigger
<1>7. ASSUME UNCHANGED <<mode, position, count, last_dir, mq, armed, dir_pin, step_pin,
                         true_pos, promised, free>>,
             Functions'
      PROVE  StepperInv'
  <2>1. \A t \in Stepper : GoodAt(t)'  BY <1>0, <1>7, GoodKept, Zenon
  <2>2. Pool'  BY <1>0, <1>7, Zenon DEF Pool
  <2>3. QED  BY <2>1, <2>2, <1>7, Zenon DEF StepperInv
<1>8. QED  BY <1>1, <1>2, <1>3, <1>4, <1>5, <1>6, <1>7, ZenonT(30)

LEMMA StepperInvariant == Spec => []StepperInv
  BY InitKeeps, NextKeeps, PTL DEF Spec

-----------------------------------------------------------------------------
(* The theorems *)

\* stepper_get_position, called at any moment of a step, of a move, of a queue of
\* moves, after stepper_stop and after a shutdown, is the position of the motor.
THEOREM PositionExact == Spec => []PositionTrue
<1>1. StepperInv => PositionTrue
  <2> SUFFICES ASSUME StepperInv, NEW s \in Stepper PROVE GetPosition(s) - Bias = true_pos[s]
    BY Zenon DEF PositionTrue
  <2>1. Good(mode[s], position[s], count[s], last_dir[s], mq[s], armed[s], dir_pin[s],
             step_pin[s], true_pos[s], promised[s])
    BY Zenon DEF StepperInv, GoodAt
  <2>2. PosOf(mode[s], position[s], count[s]) = Bias + true_pos[s]  BY <2>1, GoodPosition, Zenon
  <2>3. GetPosition(s) = PosOf(mode[s], position[s], count[s])
    BY Zenon DEF GetPosition, StepsLeft, SingleSched, PosOf, Left
  <2>4. true_pos[s] \in Int  BY <2>1, GoodTypes, ZenonT(30)
  <2>5. QED  BY <2>2, <2>3, <2>4, Widths
<1>2. QED  BY <1>1, StepperInvariant, PTL

\* A stepper at rest has made every step of the moves it took over, its step pin is
\* at the unstep level, no move waits behind one that is not being made, and the
\* moves of the pool are all accounted for (command_queue_step, stepper_load_next,
\* stepper_event_full, stepper_stop, move_alloc, move_free).
THEOREM MovesAreMade == Spec => []MovesMade
<1>1. StepperInv => MovesMade
  <2> SUFFICES ASSUME StepperInv PROVE MovesMade  BY Zenon
  <2>0. Functions /\ Pool  BY Zenon DEF StepperInv
  <2>1. ASSUME NEW s \in Stepper
        PROVE  Good(mode[s], position[s], count[s], last_dir[s], mq[s], armed[s], dir_pin[s],
                    step_pin[s], true_pos[s], promised[s])
    BY Zenon DEF StepperInv, GoodAt
  <2>2. ASSUME NEW s \in Stepper
        PROVE  /\ position[s] \in 0..Modulus - 1 /\ count[s] \in 0..2 * MaxCount
               /\ mq[s] \in Seq(Move) /\ armed[s] = (count[s] > 0)
    <3>1. position[s] \in Int /\ 0 < position[s] /\ position[s] < Modulus
      BY <2>1, GoodTypes, Zenon
    <3>2. position[s] \in 0..Modulus - 1  BY <3>1, Widths
    <3>3. count[s] \in 0..2 * MaxCount /\ mq[s] \in Seq(Move) /\ armed[s] = (count[s] > 0)
      BY <2>1, Zenon DEF Good, Flags
    <3>4. QED  BY <3>2, <3>3, Zenon
  <2>3. free + Lengths(Stepper, mq) = MoveCount /\ free \in 0..MoveCount
    <3>1. mq \in [Stepper -> Seq(Move)]  BY <2>0, Zenon DEF Functions
    <3>2. Lengths(Stepper, mq) \in Nat  BY <3>1, LengthsNat, Zenon
    <3>3. free \in Nat /\ free + Lengths(Stepper, mq) = MoveCount  BY <2>0, Zenon DEF Pool
    <3>4. QED  BY <3>2, <3>3, StepperAssumption
  <2>4. TypeOK
    <3>1. position \in [Stepper -> 0..Modulus - 1] /\ count \in [Stepper -> 0..2 * MaxCount]
      BY <2>0, <2>2, Zenon DEF Functions
    <3>2. ASSUME NEW s \in Stepper, NEW i \in DOMAIN mq[s]
          PROVE  mq[s][i] \in [count : 1..MaxCount, dir : BOOLEAN]
      <4>1. mq[s] \in Seq(Move)  BY <2>2, Zenon
      <4>2. mq[s][i] \in Move  BY <4>1
      <4>3. QED  BY <4>2, Zenon DEF Move
    <3>3. QED  BY <2>0, <2>3, <3>1, <3>2, ZenonT(30) DEF TypeOK, Functions
  <2>5. ASSUME NEW s \in Stepper, count[s] = 0
        PROVE  /\ true_pos[s] = promised[s] /\ (mode[s] # "both" => ~step_pin[s])
               /\ mq[s] = <<>>
    <3>1. AtRest(mode[s], position[s], last_dir[s], dir_pin[s], step_pin[s], true_pos[s],
                 promised[s])
      BY <2>1, <2>5, GoodAtRest, Zenon
    <3>2. mq[s] = <<>>  BY <2>1, <2>5, Zenon DEF Good
    <3>3. QED  BY <3>1, <3>2, Zenon DEF AtRest
  <2>6. \A s \in Stepper : armed[s] <=> count[s] > 0  BY <2>2, Zenon
  <2>7. QED  BY <2>3, <2>4, <2>5, <2>6, Zenon DEF MovesMade
<1>2. QED  BY <1>1, StepperInvariant, PTL
=============================================================================
