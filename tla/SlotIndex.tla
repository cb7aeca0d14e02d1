------------------------------ MODULE SlotIndex ------------------------------
(***************************************************************************)
(* Arithmetic of slot indices: the tables of region_pool.c and the rings   *)
(* of the backends address slot  a % s  of s slots.                        *)
(***************************************************************************)
EXTENDS Integers, TLAPS

(* A masked id or a wrapped index is a slot of the table. *)
LEMMA ModRange ==
  ASSUME NEW a \in Nat, NEW s \in Nat \ {0}
  PROVE  a % s \in 0 .. s - 1
  BY SMT

(* Euclidean division. *)
LEMMA DivMod ==
  ASSUME NEW a \in Nat, NEW s \in Nat \ {0}
  PROVE  a = s * (a \div s) + (a % s) /\ a \div s \in Nat
  BY SMT

(* A remainder is unique. *)
LEMMA ModUnique ==
  ASSUME NEW s \in Nat \ {0}, NEW p \in Int, NEW q \in Int,
         NEW x \in 0 .. s - 1, NEW y \in 0 .. s - 1,
         s * p + x = s * q + y
  PROVE  x = y
<1>1. s * (p - q) = y - x  BY SMT
<1>2. CASE p - q >= 1
  <2>1. s * (p - q) >= s  BY <1>2, SMT
  <2> QED  BY <2>1, <1>1, SMT
<1>3. CASE p - q <= -1
  <2>1. s * (p - q) <= -s  BY <1>3, SMT
  <2> QED  BY <2>1, <1>1, SMT
<1>4. CASE p = q  BY <1>4, SMT
<1> QED  BY <1>2, <1>3, <1>4, SMT

(* Two ids that share a slot after a doubling shared one before it: so     *)
(* region_pool_grow never maps two regions to one slot.                    *)
LEMMA ModDouble ==
  ASSUME NEW a \in Nat, NEW b \in Nat, NEW s \in Nat \ {0},
         a % (2 * s) = b % (2 * s)
  PROVE  a % s = b % s
<1> DEFINE qa == a \div (2 * s)
           qb == b \div (2 * s)
           ra == a \div s
           rb == b \div s
           m  == rb + 2 * qa - 2 * qb
<1>0. 2 * s \in Nat \ {0}  BY SMT
<1>1. a = (2 * s) * qa + (a % (2 * s)) /\ qa \in Nat  BY <1>0, DivMod
<1>2. b = (2 * s) * qb + (b % (2 * s)) /\ qb \in Nat  BY <1>0, DivMod
<1>3. a = s * ra + (a % s) /\ ra \in Nat  BY DivMod
<1>4. b = s * rb + (b % s) /\ rb \in Nat  BY DivMod
<1>5. a % s \in 0 .. s - 1 /\ b % s \in 0 .. s - 1  BY ModRange
<1>8. m \in Int  BY <1>1, <1>2, <1>4
<1> HIDE DEF qa, qb, ra, rb
<1>6. a - b = s * (2 * qa - 2 * qb)
  <2>1. a - b = (2 * s) * qa - (2 * s) * qb  BY <1>1, <1>2, ModRange, <1>0, SMT
  <2> QED  BY <2>1, <1>1, <1>2, SMT
<1>7. s * ra + (a % s) = s * m + (b % s)
  BY <1>6, <1>3, <1>4, <1>1, <1>2, <1>5, SMT
<1> HIDE DEF m
<1> DEFINE x == a % s
           y == b % s
<1>9. x \in 0 .. s - 1 /\ y \in 0 .. s - 1 /\ s * ra + x = s * m + y /\ ra \in Int
  BY <1>3, <1>5, <1>7
<1> HIDE DEF x, y
<1>10. x = y  BY <1>8, <1>9, ModUnique, Zenon
<1> QED  BY <1>10 DEF x, y

(* An index below the number of slots is its own slot, and one in the next *)
(* lap is one lap less.                                                    *)
LEMMA ModLap ==
  ASSUME NEW s \in Nat \ {0}, NEW a \in 0 .. 2 * s - 1
  PROVE  a % s = IF a < s THEN a ELSE a - s
<1> DEFINE x == a % s
           q == a \div s
           y == IF a < s THEN a ELSE a - s
           p == IF a < s THEN 0 ELSE 1
<1>1. a = s * q + x /\ q \in Int  BY DivMod
<1>2. x \in 0 .. s - 1  BY ModRange
<1>3. y \in 0 .. s - 1 /\ p \in Int /\ a = s * p + y  BY SMT
<1> HIDE DEF x, q, y, p
<1>4. s * q + x = s * p + y  BY <1>1, <1>3
<1>5. x = y  BY <1>1, <1>2, <1>3, <1>4, ModUnique, Zenon
<1> QED  BY <1>5 DEF x, y

(* What is left beside a multiple of the size is the slot. *)
LEMMA ModIs ==
  ASSUME NEW s \in Nat \ {0}, NEW a \in Nat, NEW p \in Int, NEW x \in 0 .. s - 1,
         a = s * p + x
  PROVE  a % s = x
<1> DEFINE y == a % s
           q == a \div s
<1>1. a = s * q + y /\ q \in Int  BY DivMod
<1>2. y \in 0 .. s - 1  BY ModRange
<1> HIDE DEF y, q
<1>3. s * q + y = s * p + x  BY <1>1
<1>4. y = x  BY <1>1, <1>2, <1>3, ModUnique, Zenon
<1> QED  BY <1>4 DEF y

(* Two indices less than a lap apart have different slots. *)
LEMMA ModApart ==
  ASSUME NEW s \in Nat \ {0}, NEW a \in Nat, NEW b \in Nat, a < b, b - a < s
  PROVE  a % s # b % s
<1> SUFFICES ASSUME a % s = b % s PROVE FALSE  OBVIOUS
<1>1. PICK q \in Nat, p \in Nat, x \in 0 .. s - 1 : a = s * q + x /\ b = s * p + x
  <2>1. a = s * (a \div s) + (a % s) /\ a \div s \in Nat  BY DivMod
  <2>2. b = s * (b \div s) + (b % s) /\ b \div s \in Nat  BY DivMod
  <2>3. a % s \in 0 .. s - 1  BY ModRange
  <2> QED  BY <2>1, <2>2, <2>3
<1>2. s * p - s * q = s * (p - q)  BY SMT
<1>3. CASE p - q >= 1
  <2>1. s * (p - q) >= s  BY <1>3, SMT
  <2> QED  BY <2>1, <1>1, <1>2, SMT
<1>4. CASE p - q <= 0
  <2>1. s * (p - q) <= 0  BY <1>4, SMT
  <2> QED  BY <2>1, <1>1, <1>2, SMT
<1> QED  BY <1>3, <1>4, SMT

Multiple(u, s) == \E m \in Nat \ {0} : u = s * m

(* The slot of a probe: a constant c and an offset, o advanced by d modulo *)
(* u, index a table of s slots.                                            *)
ProbeSlot(c, o, d, u, s) == (c + ((o + d) % u)) % s

(* The probes of region_pool_add_region visit every slot: an offset that   *)
(* counts up modulo u and a constant beside it reach any slot k of s,      *)
(* because s divides u, so that a wrap of the offset is no jump.           *)
LEMMA ProbesReach ==
  ASSUME NEW s \in Nat \ {0}, NEW u \in Nat, Multiple(u, s),
         NEW c \in Nat, NEW o \in 0 .. u - 1, NEW k \in 0 .. s - 1
  PROVE  \E d \in 0 .. s - 1 : ProbeSlot(c, o, d, u, s) = k
<1>0. PICK m \in Nat \ {0} : u = s * m  BY DEF Multiple
<1>1. PICK q \in Nat, r \in 0 .. s - 1 : c + o = s * q + r
  <2>1. c + o \in Nat  OBVIOUS
  <2> QED  BY <2>1, DivMod, ModRange
<1>2. PICK d \in 0 .. s - 1, l \in {0, 1} : d + r = s * l + k
  <2>1. CASE k >= r
    <3>1. k - r \in 0 .. s - 1 /\ (k - r) + r = s * 0 + k  BY <2>1
    <3> QED  BY <3>1
  <2>2. CASE k < r
    <3>1. k - r + s \in 0 .. s - 1 /\ (k - r + s) + r = s * 1 + k  BY <2>2
    <3> QED  BY <3>1
  <2> QED  BY <2>1, <2>2
<1>3. s <= u /\ u \in Nat \ {0}
  <2>1. s * m >= s  BY SMT
  <2> QED  BY <1>0, <2>1
<1>4. PICK e \in Nat, w \in {0, 1} : e = (o + d) % u /\ e = o + d - w * u
  <2>1. \A a \in 0 .. 2 * u - 1 : a % u = IF a < u THEN a ELSE a - u  BY <1>3, ModLap
  <2>2. o + d \in 0 .. 2 * u - 1  BY <1>3
  <2>3. CASE o + d < u
    <3>1. (o + d) % u = o + d  BY <2>1, <2>2, <2>3
    <3> QED  BY <3>1
  <2>4. CASE ~(o + d < u)
    <3>1. (o + d) % u = o + d - u  BY <2>1, <2>2, <2>4
    <3> QED  BY <3>1, <2>4
  <2> QED  BY <2>3, <2>4
<1>5. c + e = s * (q + l - w * m) + k
  <2>1. CASE w = 0  BY <2>1, <1>0, <1>1, <1>2, <1>4, SMT
  <2>2. CASE w = 1
    <3>1. c + e = s * q + s * l + k - s * m  BY <2>2, <1>0, <1>1, <1>2, <1>4
    <3>2. s * q + s * l + k - s * m = s * (q + l - m) + k  BY SMT
    <3> QED  BY <2>2, <3>1, <3>2
  <2> QED  BY <2>1, <2>2
<1>6. c + e \in Nat /\ q + l - w * m \in Int  OBVIOUS
<1>7. (c + e) % s = k  BY <1>5, <1>6, ModIs
<1> QED  BY <1>4, <1>7 DEF ProbeSlot

(* Two ids that share a slot of a table share one of any table whose size  *)
(* divides that table's.                                                   *)
LEMMA ModCoarser ==
  ASSUME NEW a \in Nat, NEW b \in Nat, NEW s \in Nat \ {0}, NEW u \in Nat \ {0},
         Multiple(u, s), a % u = b % u
  PROVE  a % s = b % s
<1>1. PICK m \in Nat \ {0} : u = s * m  BY DEF Multiple
<1>2. PICK q \in Nat, p \in Nat, e \in 0 .. u - 1 : a = u * q + e /\ b = u * p + e
  <2>1. a = u * (a \div u) + (a % u) /\ a \div u \in Nat  BY DivMod
  <2>2. b = u * (b \div u) + (b % u) /\ b \div u \in Nat  BY DivMod
  <2>3. a % u \in 0 .. u - 1  BY ModRange
  <2> QED  BY <2>1, <2>2, <2>3
<1>3. PICK g \in Nat, x \in 0 .. s - 1 : e = s * g + x
  <2>1. e \in Nat  OBVIOUS
  <2>2. e = s * (e \div s) + (e % s) /\ e \div s \in Nat  BY <2>1, DivMod
  <2>3. e % s \in 0 .. s - 1  BY <2>1, ModRange
  <2> QED  BY <2>2, <2>3
<1>4. \A z \in Nat : u * z + e = s * (m * z + g) + x
  <2> SUFFICES ASSUME NEW z \in Nat PROVE u * z + e = s * (m * z + g) + x
    OBVIOUS
  <2>1. u * z = s * (m * z)  BY <1>1, SMT
  <2>2. m * z \in Nat  BY SMT
  <2>3. s * (m * z + g) = s * (m * z) + s * g
    <3> DEFINE y == m * z
    <3>1. y \in Nat  BY <2>2
    <3> HIDE DEF y
    <3>2. s * (y + g) = s * y + s * g  BY <3>1, SMT
    <3> QED  BY <3>2 DEF y
  <2> QED  BY <1>3, <2>1, <2>3, SMT
<1>5. m * q + g \in Nat /\ m * p + g \in Nat  BY SMT
<1>6. a % s = x
  <2>1. a = s * (m * q + g) + x  BY <1>2, <1>4
  <2> QED  BY <1>5, <2>1, ModIs
<1>7. b % s = x
  <2>1. b = s * (m * p + g) + x  BY <1>2, <1>4
  <2> QED  BY <1>5, <2>1, ModIs
<1> QED  BY <1>6, <1>7

=============================================================================
