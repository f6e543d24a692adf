---------------------------- MODULE NumbersProofs -----------------------------
(***************************************************************************)
(* Theorems about Numbers: for doubles of any precision, any gas limits    *)
(* and any prices with bits to spare the fee is what the node asks for, or *)
(* one more, and a sequence up to the limit is signed as it is.            *)
(***************************************************************************)
EXTENDS Numbers, TLAPS

-----------------------------------------------------------------------------
(* Arithmetic.                                                               *)

LEMMA TimesMonotone ==
  ASSUME NEW a \in Int, NEW b \in Int, NEW c \in Nat, a <= b
  PROVE  a * c <= b * c /\ c * a <= c * b
BY SMT

LEMMA Division ==
  ASSUME NEW a \in Int, NEW b \in Nat \ {0}
  PROVE  \E q \in Int, r \in Int :
           /\ a \div b = q /\ a % b = r
           /\ a = q * b + r /\ 0 <= r /\ r < b
BY SMTT(30)

LEMMA CeilIs ==
  ASSUME NEW a \in Int, NEW b \in Nat \ {0}
  PROVE  /\ CeilOf(<<a, b>>) \in Int
         /\ a <= CeilOf(<<a, b>>) * b
         /\ CeilOf(<<a, b>>) * b < a + b
<1> DEFINE m == -a
<1>1. m \in Int /\ a = -m
  BY SMT
<1>2. CeilOf(<<a, b>>) = -(m \div b)
  BY SMT DEF CeilOf
<1> HIDE DEF m
<1>3. PICK q \in Int, r \in Int :
        m \div b = q /\ m = q * b + r /\ 0 <= r /\ r < b
  BY <1>1, Division, SMT
<1> QED BY <1>1, <1>2, <1>3, SMT

LEMMA NearestIs ==
  ASSUME NEW a \in Nat, NEW b \in Nat \ {0}
  PROVE  /\ Nearest(<<a, b>>) \in Nat
         /\ 2 * (Nearest(<<a, b>>) * b) <= 2 * a + b
         /\ 2 * a <= 2 * (Nearest(<<a, b>>) * b) + b
<1>1. PICK q \in Int, r \in Int :
        a \div b = q /\ a % b = r /\ a = q * b + r /\ 0 <= r /\ r < b
  BY Division, SMT
<1>2. q >= 0
  BY <1>1, SMT
<1>3. \/ Nearest(<<a, b>>) = q + 1 /\ 2 * r >= b
      \/ Nearest(<<a, b>>) = q /\ 2 * r <= b
  BY <1>1, SMT DEF Nearest
<1>4. CASE Nearest(<<a, b>>) = q + 1 /\ 2 * r >= b
  BY <1>1, <1>2, <1>4, SMT
<1>5. CASE Nearest(<<a, b>>) = q /\ 2 * r <= b
  BY <1>1, <1>2, <1>5, SMT
<1> QED BY <1>3, <1>4, <1>5

\* An integer is nearest to itself.
LEMMA NearestOfInteger ==
  ASSUME NEW n \in Nat
  PROVE  Nearest(<<n, 1>>) = n
BY SMT DEF Nearest

-----------------------------------------------------------------------------
(* Doubles.                                                                  *)

\* The double of a fraction has the scale u/v.
HasScale(a, b, u, v) ==
  /\ u = 1 \/ v = 1
  /\ Limit * (b * v) <= 2 * (a * u) /\ a * u < Limit * (b * v)
  /\ ToDouble(<<a, b>>) = <<Nearest(<<a * u, b * v>>) * v, u>>

LEMMA ScaleIs ==
  ASSUME NEW a \in Nat \ {0}, NEW b \in Nat \ {0}, InReach(<<a, b>>)
  PROVE  \E u \in Nat \ {0}, v \in Nat \ {0} : HasScale(a, b, u, v)
<1> DEFINE s == ScaleOf(<<a, b>>, Limit)
<1>1. s \in Scales /\ IsMantissa(Times(<<a, b>>, s), Limit)
  BY DEF InReach, ScaleOf
<1>2. ToDouble(<<a, b>>) = Over(<<Nearest(Times(<<a, b>>, s)), 1>>, s)
  BY SMT DEF ToDouble, Rounded
<1> HIDE DEF s
<1>3. PICK u \in Nat \ {0}, v \in Nat \ {0} : s = <<u, v>> /\ (u = 1 \/ v = 1)
  <2>1. s \in (Nat \ {0}) \X (Nat \ {0}) /\ (s = <<1, 1>> \/ s[2] = 1 \/ s[1] = 1)
    BY <1>1, ScalesType
  <2>2. s = <<s[1], s[2]>> /\ s[1] \in Nat \ {0} /\ s[2] \in Nat \ {0}
    BY <2>1
  <2>3. s[1] = 1 \/ s[2] = 1
    BY <2>1
  <2> QED BY <2>2, <2>3
<1>4. Times(<<a, b>>, s) = <<a * u, b * v>>
  BY <1>3, SMT DEF Times
<1>5. Over(<<Nearest(<<a * u, b * v>>), 1>>, s) = <<Nearest(<<a * u, b * v>>) * v, 1 * u>>
  BY <1>3, SMT DEF Over
<1>6. 1 * u = u
  BY SMT
<1>7. Limit * (b * v) <= 2 * (a * u) /\ a * u < Limit * (b * v)
  BY <1>1, <1>4, SMT DEF IsMantissa
<1> QED BY <1>2, <1>3, <1>4, <1>5, <1>6, <1>7 DEF HasScale

\* A double is off by no more than its fraction divided by the limit.
LEMMA DoubleIsNear ==
  ASSUME NEW a \in Nat, NEW b \in Nat \ {0}, InReach(<<a, b>>)
  PROVE  \E c \in Nat, d \in Nat \ {0} :
           /\ ToDouble(<<a, b>>) = <<c, d>>
           /\ Limit * (c * b - a * d) <= a * d
           /\ Limit * (a * d - c * b) <= a * d
<1>1. CASE a = 0
  <2>1. ToDouble(<<a, b>>) = <<0, 1>>
    BY <1>1, SMT DEF ToDouble, Rounded
  <2>2. Limit * (0 * b - a * 1) <= a * 1 /\ Limit * (a * 1 - 0 * b) <= a * 1
    BY <1>1, NumbersType, SMT
  <2> QED BY <2>1, <2>2
<1>2. CASE a # 0
  <2>1. PICK u \in Nat \ {0}, v \in Nat \ {0} : HasScale(a, b, u, v)
    <3>1. a \in Nat \ {0}
      BY <1>2
    <3> QED BY <3>1, ScaleIs
  <2> DEFINE n == Nearest(<<a * u, b * v>>)
             y == a * u
             z == b * v
             x == (n * v) * b
  <2>2. y \in Nat /\ z \in Nat \ {0}
    BY SMT
  <2>3. n \in Nat /\ 2 * (n * z) <= 2 * y + z /\ 2 * y <= 2 * (n * z) + z
    BY <2>2, NearestIs
  <2>4. x = n * z /\ x \in Nat /\ n * v \in Nat
    BY <2>3, SMT
  <2>5. Limit * z <= 2 * y
    BY <2>1 DEF HasScale
  <2> HIDE DEF n, y, z, x
  <2>6. 2 * (x - y) <= z /\ 2 * (y - x) <= z
    BY <2>2, <2>3, <2>4, SMT
  <2>7. Limit * (2 * (x - y)) <= Limit * z /\ Limit * (2 * (y - x)) <= Limit * z
    BY <2>2, <2>4, <2>6, NumbersType, TimesMonotone, SMT
  <2>8. Limit * (x - y) <= y /\ Limit * (y - x) <= y
    BY <2>2, <2>4, <2>5, <2>7, NumbersType, SMT
  <2>9. /\ ToDouble(<<a, b>>) = <<n * v, u>> /\ n * v \in Nat
        /\ Limit * ((n * v) * b - a * u) <= a * u
        /\ Limit * (a * u - (n * v) * b) <= a * u
    BY <2>1, <2>4, <2>8 DEF HasScale, n, x, y
  <2> QED BY <2>9
<1> QED BY <1>1, <1>2

\* Up to the limit an integer is a double.
LEMMA DoubleOfInteger ==
  ASSUME NEW n \in Nat, n <= Limit, InReach(<<n, 1>>)
  PROVE  FloorOf(ToDouble(<<n, 1>>)) = n
<1>1. CASE n = 0
  BY <1>1, SMT DEF FloorOf, ToDouble, Rounded
<1>2. CASE n # 0
  <2>1. PICK u \in Nat \ {0}, v \in Nat \ {0} : HasScale(n, 1, u, v)
    <3>1. n \in Nat \ {0} /\ 1 \in Nat \ {0}
      BY <1>2
    <3> QED BY <3>1, ScaleIs
  <2>2. CASE v = 1
    <3>1. Nearest(<<n * u, 1>>) = n * u /\ n * u \in Nat
      BY NearestOfInteger, SMT
    <3>2. ToDouble(<<n, 1>>) = <<n * u, u>>
      BY <2>1, <2>2, <3>1, SMT DEF HasScale
    <3>3. (n * u) \div u = n
      BY SMTT(30)
    <3> QED BY <3>2, <3>3 DEF FloorOf
  <2>3. CASE v # 1
    <3>1. u = 1 /\ v >= 2 /\ Limit * v <= 2 * n
      BY <2>1, <2>3, SMT DEF HasScale
    <3>2. Limit * 2 <= Limit * v
      BY <3>1, NumbersType, TimesMonotone, SMT
    <3>3. n = Limit /\ Limit * v <= Limit * 2
      BY <3>1, <3>2, NumbersType, SMT
    <3>4. v = 2
      BY <3>1, <3>3, NumbersType, SMT
    <3>5. Limit % 2 = 0 /\ Limit = 2 * (Limit \div 2) /\ Limit \div 2 \in Nat
      <4> DEFINE s == <<Limit, 1>>
      <4>1. s \in Scales /\ s[1] = Limit /\ s # <<1, 1>> /\ s[1] # 1
        BY NumbersType, SMT
      <4>2. s[1] % 2 = 0
        BY <4>1, ScalesType, Zenon
      <4> QED BY <4>1, <4>2, NumbersType, SMT
    <3>6. Nearest(<<Limit, 2>>) = Limit \div 2
      BY <3>5, NumbersType, SMT DEF Nearest
    <3>7. ToDouble(<<n, 1>>) = <<Nearest(<<Limit, 2>>) * 2, 1>>
      BY <2>1, <3>1, <3>3, <3>4, NumbersType, SMT DEF HasScale
    <3> QED BY <3>3, <3>5, <3>6, <3>7, SMT DEF FloorOf
  <2> QED BY <2>2, <2>3
<1> QED BY <1>1, <1>2

-----------------------------------------------------------------------------
(* The fee.                                                                  *)

LEMMA CancelFactor ==
  ASSUME NEW x \in Int, NEW y \in Int, NEW d \in Nat \ {0}, x * d <= y * d
  PROVE  x <= y
BY SMT

\* What two roundings make of a product: at most (1 + 1/limit)^2 of it, and at
\* least (1 - 1/limit)^2.
LEMMA RoundedTwice ==
  ASSUME NEW l \in Nat \ {0}, NEW m \in Nat,
         NEW a \in Nat, NEW b \in Nat \ {0},
         NEW c \in Nat, NEW d \in Nat \ {0},
         NEW e \in Nat, NEW f \in Nat \ {0},
         l * (c * b - a * d) <= a * d, l * (a * d - c * b) <= a * d,
         l * (e * d - (m * c) * f) <= (m * c) * f,
         l * ((m * c) * f - e * d) <= (m * c) * f
  PROVE  /\ (e * b) * (l * l) <= ((m * a) * f) * ((l + 1) * (l + 1))
         /\ ((m * a) * f) * ((l - 1) * (l - 1)) <= (e * b) * (l * l)
<1>1. (c * b) * l <= (a * d) * (l + 1) /\ (a * d) * (l - 1) <= (c * b) * l
  BY SMT
<1>2. /\ (e * d) * l <= ((m * c) * f) * (l + 1)
      /\ ((m * c) * f) * (l - 1) <= (e * d) * l
  BY SMT
<1>3. ((e * d) * l) * (b * l) <= (((m * c) * f) * (l + 1)) * (b * l)
  <2>1. b * l \in Nat /\ (e * d) * l \in Int /\ ((m * c) * f) * (l + 1) \in Int
    BY SMT
  <2> QED BY <1>2, <2>1, TimesMonotone
<1>4. ((c * b) * l) * ((m * f) * (l + 1)) <= ((a * d) * (l + 1)) * ((m * f) * (l + 1))
  <2>1. (m * f) * (l + 1) \in Nat /\ (c * b) * l \in Int /\ (a * d) * (l + 1) \in Int
    BY SMT
  <2> QED BY <1>1, <2>1, TimesMonotone
<1>5. (((m * c) * f) * (l - 1)) * (b * l) <= ((e * d) * l) * (b * l)
  <2>1. b * l \in Nat /\ (e * d) * l \in Int /\ ((m * c) * f) * (l - 1) \in Int
    BY SMT
  <2> QED BY <1>2, <2>1, TimesMonotone
<1>6. ((a * d) * (l - 1)) * ((m * f) * (l - 1)) <= ((c * b) * l) * ((m * f) * (l - 1))
  <2>1. (m * f) * (l - 1) \in Nat /\ (c * b) * l \in Int /\ (a * d) * (l - 1) \in Int
    BY SMT
  <2> QED BY <1>1, <2>1, TimesMonotone
<1>7. /\ ((e * d) * l) * (b * l) = ((e * b) * (l * l)) * d
      /\ ((a * d) * (l + 1)) * ((m * f) * (l + 1))
            = (((m * a) * f) * ((l + 1) * (l + 1))) * d
      /\ ((a * d) * (l - 1)) * ((m * f) * (l - 1))
            = (((m * a) * f) * ((l - 1) * (l - 1))) * d
      /\ (((m * c) * f) * (l + 1)) * (b * l) = ((c * b) * l) * ((m * f) * (l + 1))
      /\ (((m * c) * f) * (l - 1)) * (b * l) = ((c * b) * l) * ((m * f) * (l - 1))
  BY SMT
<1> DEFINE x == (e * b) * (l * l)
           y == ((m * a) * f) * ((l + 1) * (l + 1))
           z == ((m * a) * f) * ((l - 1) * (l - 1))
<1>8. x \in Int /\ y \in Int /\ z \in Int
  BY SMT
<1>9. x * d <= y * d /\ z * d <= x * d
  <2>1. x * d <= ((c * b) * l) * ((m * f) * (l + 1))
    BY <1>3, <1>7
  <2>2. ((c * b) * l) * ((m * f) * (l + 1)) <= y * d
    BY <1>4, <1>7
  <2>3. ((c * b) * l) * ((m * f) * (l - 1)) <= x * d
    BY <1>5, <1>7
  <2>4. z * d <= ((c * b) * l) * ((m * f) * (l - 1))
    BY <1>6, <1>7
  <2> HIDE DEF x, y, z
  <2>5. ((c * b) * l) * ((m * f) * (l + 1)) \in Int /\ ((c * b) * l) * ((m * f) * (l - 1)) \in Int
    BY SMT
  <2> QED BY <1>8, <2>1, <2>2, <2>3, <2>4, <2>5, SMT
<1> HIDE DEF x, y, z
<1>10. x <= y /\ z <= x
  BY <1>8, <1>9, CancelFactor
<1> QED BY <1>10 DEF x, y, z

\* What is asked for, and what is paid, of a whole product e/f of doubles.
LEMMA FeeIs ==
  ASSUME NEW g \in GasLimits, NEW p \in Prices
  PROVE  \E e \in Nat, f \in Nat \ {0} :
           /\ gasToFee(g, ToDouble(p)) = CeilOf(<<e, f>>)
           /\ (e * p[2]) * (Limit * Limit)
                <= ((g * p[1]) * f) * ((Limit + 1) * (Limit + 1))
           /\ ((g * p[1]) * f) * ((Limit - 1) * (Limit - 1))
                <= (e * p[2]) * (Limit * Limit)
<1> DEFINE a == p[1]
           b == p[2]
<1>1. a \in Nat /\ b \in Nat \ {0} /\ p = <<a, b>> /\ g \in Nat
  BY NumbersType
<1>2. InReach(p) /\ InReach(Times(<<g, 1>>, ToDouble(p)))
  BY DoublesReach
<1> HIDE DEF a, b
<1>3. PICK c \in Nat, d \in Nat \ {0} :
        /\ ToDouble(<<a, b>>) = <<c, d>>
        /\ Limit * (c * b - a * d) <= a * d
        /\ Limit * (a * d - c * b) <= a * d
  BY <1>1, <1>2, DoubleIsNear
<1>4. Times(<<g, 1>>, <<c, d>>) = <<g * c, d>> /\ g * c \in Nat
  BY <1>1, SMT DEF Times
<1>5. InReach(<<g * c, d>>)
  BY <1>1, <1>2, <1>3, <1>4
<1>6. PICK e \in Nat, f \in Nat \ {0} :
        /\ ToDouble(<<g * c, d>>) = <<e, f>>
        /\ Limit * (e * d - (g * c) * f) <= (g * c) * f
        /\ Limit * ((g * c) * f - e * d) <= (g * c) * f
  BY <1>4, <1>5, DoubleIsNear
<1>7. gasToFee(g, ToDouble(p)) = CeilOf(<<e, f>>)
  BY <1>1, <1>3, <1>4, <1>6 DEF gasToFee
<1>8. Limit \in Nat \ {0}
  BY NumbersType, SMT
<1>9. /\ (e * b) * (Limit * Limit) <= ((g * a) * f) * ((Limit + 1) * (Limit + 1))
      /\ ((g * a) * f) * ((Limit - 1) * (Limit - 1)) <= (e * b) * (Limit * Limit)
  BY <1>1, <1>3, <1>6, <1>8, RoundedTwice
<1> QED BY <1>7, <1>9 DEF a, b

\* The ceiling of a product that was rounded down is its ceiling, if what was
\* lost is less than the product has above an integer.
LEMMA CeilingsMeet ==
  ASSUME NEW l \in Nat \ {0}, NEW m \in Nat, NEW b \in Nat \ {0},
         NEW e \in Nat, NEW f \in Nat \ {0}, 2 * m < l,
         (m * f) * ((l - 1) * (l - 1)) <= (e * b) * (l * l)
  PROVE  CeilOf(<<m, b>>) <= CeilOf(<<e, f>>)
<1> DEFINE r == CeilOf(<<m, b>>)
           h == CeilOf(<<e, f>>)
<1>1. r \in Int /\ h \in Int /\ r * b < m + b /\ e <= h * f
  BY CeilIs
<1> HIDE DEF r, h
<1> SUFFICES ASSUME h <= r - 1 PROVE FALSE
  BY <1>1, SMT DEF r, h
<1>2. h * f <= (r - 1) * f
  BY <1>1, TimesMonotone, SMT
<1>3. e <= (r - 1) * f
  BY <1>1, <1>2, SMT
<1>4. e * b <= ((r - 1) * f) * b
  BY <1>1, <1>3, TimesMonotone, SMT
<1>5. (r - 1) * b <= m - 1
  BY <1>1, SMT
<1>6. ((r - 1) * b) * f <= (m - 1) * f
  <2>1. (r - 1) * b \in Int /\ m - 1 \in Int /\ f \in Nat
    BY <1>1, SMT
  <2> QED BY <1>5, <2>1, TimesMonotone
<1>7. e * b <= (m - 1) * f
  <2>1. ((r - 1) * f) * b = ((r - 1) * b) * f
    BY <1>1, SMT
  <2> QED BY <1>1, <1>4, <1>6, <2>1, SMT
<1>8. (e * b) * (l * l) <= ((m - 1) * f) * (l * l)
  <2>1. e * b \in Int /\ (m - 1) * f \in Int /\ l * l \in Nat
    BY SMT
  <2> QED BY <1>7, <2>1, TimesMonotone
<1>9. (m * f) * ((l - 1) * (l - 1)) <= ((m - 1) * f) * (l * l)
  <2>1. /\ (m * f) * ((l - 1) * (l - 1)) \in Int /\ (e * b) * (l * l) \in Int
        /\ ((m - 1) * f) * (l * l) \in Int
    BY SMT
  <2> QED BY <1>8, <2>1, SMT
<1>10. (m * ((l - 1) * (l - 1))) * f <= ((m - 1) * (l * l)) * f
  BY <1>9, SMT
<1>11. m * ((l - 1) * (l - 1)) <= (m - 1) * (l * l)
  <2>1. m * ((l - 1) * (l - 1)) \in Int /\ (m - 1) * (l * l) \in Int
    BY SMT
  <2> QED BY <1>10, <2>1, CancelFactor
<1>12. l * l + m <= (2 * m) * l
  BY <1>11, SMT
<1>13. (2 * m) * l <= (l - 1) * l
  <2>1. 2 * m <= l - 1 /\ 2 * m \in Int /\ l - 1 \in Int /\ l \in Nat
    BY SMT
  <2> QED BY <2>1, TimesMonotone
<1>14. (l - 1) * l = l * l - l
  BY SMT
<1>15. l * l \in Int /\ (2 * m) * l \in Int
  BY SMT
<1> QED BY <1>12, <1>13, <1>14, <1>15, SMT

\* That of one that was rounded up is at most one more.
LEMMA CeilingsAreClose ==
  ASSUME NEW l \in Nat \ {0}, NEW m \in Nat, NEW b \in Nat \ {0},
         NEW e \in Nat, NEW f \in Nat \ {0}, m * (2 * l + 1) <= b * (l * l),
         (e * b) * (l * l) <= (m * f) * ((l + 1) * (l + 1))
  PROVE  CeilOf(<<e, f>>) <= CeilOf(<<m, b>>) + 1
<1> DEFINE r == CeilOf(<<m, b>>)
           h == CeilOf(<<e, f>>)
<1>1. r \in Int /\ h \in Int /\ m <= r * b /\ h * f < e + f
  BY CeilIs
<1> HIDE DEF r, h
<1> SUFFICES ASSUME r + 2 <= h PROVE FALSE
  BY <1>1, SMT DEF r, h
<1>2. (r + 2) * f <= h * f
  BY <1>1, TimesMonotone, SMT
<1>3. (r + 1) * f + 1 <= e
  BY <1>1, <1>2, SMT
<1>4. ((r + 1) * f + 1) * b <= e * b
  BY <1>1, <1>3, TimesMonotone, SMT
<1>5. (m + b) * f + 1 <= e * b
  <2>1. m * f <= (r * b) * f
    BY <1>1, TimesMonotone, SMT
  <2>2. ((r + 1) * f + 1) * b = (r * b) * f + b * f + b
    BY <1>1, SMT
  <2>3. (m + b) * f = m * f + b * f
    BY SMT
  <2> QED BY <1>1, <1>4, <2>1, <2>2, <2>3, SMT
<1>6. ((m + b) * f + 1) * (l * l) <= (e * b) * (l * l)
  <2>1. (m + b) * f + 1 \in Int /\ e * b \in Int /\ l * l \in Nat
    BY SMT
  <2> QED BY <1>5, <2>1, TimesMonotone
<1>7. ((m + b) * f) * (l * l) + l * l <= (m * f) * ((l + 1) * (l + 1))
  BY <1>6, SMT
<1>8. (b * (l * l)) * f + l * l <= (m * (2 * l + 1)) * f
  BY <1>7, SMT
<1>9. (m * (2 * l + 1)) * f <= (b * (l * l)) * f
  <2>1. m * (2 * l + 1) \in Int /\ b * (l * l) \in Int /\ f \in Nat
    BY SMT
  <2> QED BY <2>1, TimesMonotone
<1>10. l * l > 0 /\ (b * (l * l)) * f \in Int /\ (m * (2 * l + 1)) * f \in Int
  BY SMT
<1> QED BY <1>8, <1>9, <1>10, SMT

-----------------------------------------------------------------------------
(* The invariant.                                                            *)

NumberInv ==
  /\ NumberTypeOK
  /\ payStage # "asked" => fee = gasToFee(gas, ToDouble(price))
  /\ payStage \in {"signed", "accepted", "refused"} =>
       signedSequence = FloorOf(ToDouble(<<sequence, 1>>))

LEMMA FeeType ==
  ASSUME NEW g \in GasLimits, NEW p \in Prices
  PROVE  gasToFee(g, ToDouble(p)) \in Nat
<1>1. PICK e \in Nat, f \in Nat \ {0} : gasToFee(g, ToDouble(p)) = CeilOf(<<e, f>>)
  BY FeeIs
<1> DEFINE h == CeilOf(<<e, f>>)
<1>2. h \in Int /\ e <= h * f
  BY CeilIs
<1> HIDE DEF h
<1>3. ASSUME h <= -1 PROVE FALSE
  <2>1. h * f <= -1 * f
    <3>1. -1 \in Int
      BY SMT
    <3> QED BY <1>2, <1>3, <3>1, TimesMonotone
  <2> QED BY <1>2, <2>1, SMT
<1>4. h \in Nat
  BY <1>2, <1>3, SMT
<1> QED BY <1>1, <1>4 DEF h

LEMMA SignedType ==
  ASSUME NEW n \in Sequences
  PROVE  FloorOf(ToDouble(<<n, 1>>)) \in Nat
<1>1. n \in Nat /\ 1 \in Nat \ {0} /\ InReach(<<n, 1>>)
  BY NumbersType, DoublesReach, SMT
<1>2. PICK c \in Nat, d \in Nat \ {0} : ToDouble(<<n, 1>>) = <<c, d>>
  BY <1>1, DoubleIsNear
<1>3. c \div d \in Nat
  <2>1. PICK q \in Int, r \in Int : c \div d = q /\ c = q * d + r /\ r < d
    BY Division, SMT
  <2>2. q >= 0
    BY <2>1, SMT
  <2> QED BY <2>1, <2>2, SMT
<1> QED BY <1>2, <1>3 DEF FloorOf

LEMMA NumberInvInit == NumberInit => NumberInv
BY SMT DEF NumberInit, NumberInv, NumberTypeOK

LEMMA NumberInvNext == NumberInv /\ [NumberNext]_numberVars => NumberInv'
<1> SUFFICES ASSUME NumberInv, [NumberNext]_numberVars PROVE NumberInv'
  OBVIOUS
<1> USE DEF NumberInv, NumberTypeOK
<1>1. CASE PriceGas
  <2>1. fee' = gasToFee(gas, ToDouble(price)) /\ fee' \in Nat
    BY <1>1, FeeType DEF PriceGas
  <2> QED BY <1>1, <2>1 DEF PriceGas
<1>2. CASE SignNumbers
  <2>1. signedSequence' = FloorOf(ToDouble(<<sequence, 1>>)) /\ signedSequence' \in Nat
    BY <1>2, SignedType DEF SignNumbers
  <2> QED BY <1>2, <2>1 DEF SignNumbers
<1>3. CASE CheckNumbers
  BY <1>3 DEF CheckNumbers
<1>4. CASE PayAgain
  BY <1>4 DEF PayAgain
<1>5. CASE UNCHANGED numberVars
  BY <1>5 DEF numberVars
<1> QED BY <1>1, <1>2, <1>3, <1>4, <1>5 DEF NumberNext

LEMMA NumberInvCorrect == NumberSpec => []NumberInv
BY NumberInvInit, NumberInvNext, PTL DEF NumberSpec

-----------------------------------------------------------------------------
(* What follows.                                                             *)

\* The type invariant: fees and signed sequences are natural numbers, and a new
\* transaction starts without either, for doubles of any precision.
THEOREM NumberTypes == NumberSpec => []NumberTypeOK
<1>1. NumberInv => NumberTypeOK
  BY DEF NumberInv
<1> QED BY <1>1, NumberInvCorrect, PTL

\* The price and its product with the gas limit are both rounded to doubles, but
\* the fee that gasToFee rounds up is not below the one the node asks for, for
\* any prices and gas limits whose product has a bit to spare.
THEOREM FeeIsPaid ==
  ASSUME BitsToSpare
  PROVE  NumberSpec => []AskedFeeIsPaid
<1>1. ASSUME NEW g \in GasLimits, NEW p \in Prices
      PROVE  CeilOf(Times(<<g, 1>>, p)) <= gasToFee(g, ToDouble(p))
  <2> DEFINE m == g * p[1]
             b == p[2]
  <2>1. m \in Nat /\ b \in Nat \ {0} /\ Limit \in Nat \ {0} /\ 2 * m < Limit
    BY NumbersType, SMT DEF BitsToSpare
  <2>2. Times(<<g, 1>>, p) = <<m, b>>
    BY NumbersType, SMT DEF Times
  <2>3. PICK e \in Nat, f \in Nat \ {0} :
          /\ gasToFee(g, ToDouble(p)) = CeilOf(<<e, f>>)
          /\ (m * f) * ((Limit - 1) * (Limit - 1)) <= (e * b) * (Limit * Limit)
    BY FeeIs
  <2> HIDE DEF m, b
  <2> QED BY <2>1, <2>2, <2>3, CeilingsMeet
<1>2. NumberInv => AskedFeeIsPaid
  <2> SUFFICES ASSUME NumberInv, payStage # "asked" PROVE fee >= Required
    BY DEF AskedFeeIsPaid
  <2>1. Required <= fee
    BY <1>1 DEF NumberInv, NumberTypeOK, Required
  <2>2. Required \in Int /\ fee \in Int
    <3>1. gas * price[1] \in Int /\ 1 * price[2] \in Nat \ {0}
      BY NumbersType, SMT DEF NumberInv, NumberTypeOK
    <3>2. Required = CeilOf(<<gas * price[1], 1 * price[2]>>)
      BY SMT DEF Required, Times
    <3> QED BY <3>1, <3>2, CeilIs DEF NumberInv, NumberTypeOK
  <2> QED BY <2>1, <2>2, SMT
<1> QED BY <1>2, NumberInvCorrect, PTL

\* Nor is it more than one unit above, for any that are small for two roundings.
THEOREM FeeIsClose ==
  ASSUME FeesAreSmall
  PROVE  NumberSpec => []LittleIsOverpaid
<1>1. ASSUME NEW g \in GasLimits, NEW p \in Prices
      PROVE  gasToFee(g, ToDouble(p)) <= CeilOf(Times(<<g, 1>>, p)) + 1
  <2> DEFINE m == g * p[1]
             b == p[2]
  <2>1. /\ m \in Nat /\ b \in Nat \ {0} /\ Limit \in Nat \ {0}
        /\ m * (2 * Limit + 1) <= b * (Limit * Limit)
    BY NumbersType, SMT DEF FeesAreSmall
  <2>2. Times(<<g, 1>>, p) = <<m, b>>
    BY NumbersType, SMT DEF Times
  <2>3. PICK e \in Nat, f \in Nat \ {0} :
          /\ gasToFee(g, ToDouble(p)) = CeilOf(<<e, f>>)
          /\ (e * b) * (Limit * Limit) <= (m * f) * ((Limit + 1) * (Limit + 1))
    BY FeeIs
  <2> HIDE DEF m, b
  <2> QED BY <2>1, <2>2, <2>3, CeilingsAreClose
<1>2. NumberInv => LittleIsOverpaid
  BY <1>1 DEF NumberInv, NumberTypeOK, LittleIsOverpaid, Required
<1> QED BY <1>2, NumberInvCorrect, PTL

\* String(Number(sequence)) is the sequence, for any up to the limit (2^53).
THEOREM SequencesAreExact ==
  ASSUME \A n \in Sequences : n <= Limit
  PROVE  NumberSpec => []SequenceIsExact
<1>1. NumberInv => SequenceIsExact
  <2> SUFFICES ASSUME NumberInv PROVE FloorOf(ToDouble(<<sequence, 1>>)) = sequence
    BY DEF NumberInv, SequenceIsExact
  <2>1. sequence \in Nat /\ sequence <= Limit /\ InReach(<<sequence, 1>>)
    BY NumbersType, DoublesReach DEF NumberInv, NumberTypeOK
  <2> QED BY <2>1, DoubleOfInteger
<1> QED BY <1>1, NumberInvCorrect, PTL
=============================================================================
