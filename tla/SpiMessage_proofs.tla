------------------------- MODULE SpiMessage_proofs -------------------------
(***************************************************************************)
(* What omap3_spi_write puts on the wire and where the replies go, for     *)
(* every width of a byte, all header values, payloads and buffer sizes     *)
(* that satisfy the assumptions of SpiMessage; and that no header can make *)
(* it leave a buffer.                                                      *)
(*                                                                         *)
(* The bit reversal is proved by induction on its rounds, the rest from    *)
(* the inductive invariant IInv, which says for each loop what it has done *)
(* below i and what it has still to do from i on.                          *)
(***************************************************************************)
EXTENDS SpiMessage, SequenceTheorems, WellFoundedInduction, TLAPS

-----------------------------------------------------------------------------
(***************************************************************************)
(* Induction on the natural numbers, with a set in place of a predicate,   *)
(* and the functions it defines: what Pow2 and Rounds compute.             *)
(***************************************************************************)

\* A set that holds 0 and the successor of each of its numbers holds them all.
LEMMA Induction ==
  ASSUME NEW S, 0 \in S, \A n \in Nat : n \in S => n + 1 \in S
  PROVE  \A n \in Nat : n \in S
<1> DEFINE T == Nat \ S
<1> SUFFICES ASSUME T # {} PROVE FALSE
  OBVIOUS
<1>1. PICK n \in T : \A m \in T : ~(<<m, n>> \in OpToRel(<, Nat))
  <2> T \subseteq Nat  OBVIOUS
  <2> HIDE DEF T
  <2> QED BY NatLessThanWellFounded, WFMin
<1>2. n \in Nat /\ n # 0  OBVIOUS
<1>3. n - 1 \in Nat /\ n - 1 < n /\ n = n - 1 + 1  BY <1>2
<1>4. n - 1 \notin T  BY <1>1, <1>2, <1>3 DEF OpToRel
<1> QED BY <1>3, <1>4

\* f begins with a and takes each value from the one before it by h.
IteratesTo(f, a, h) ==
  f = [n \in Nat |-> IF n = 0 THEN a ELSE h[<<n, f[n - 1]>>]]

\* Such an f exists: it is pieced together from functions on 0 .. n, which
\* exist and agree with each other by induction.
LEMMA Iteration ==
  ASSUME NEW a, NEW h
  PROVE  \E f : IteratesTo(f, a, h)
<1> DEFINE Upto(g, n) ==
      g = [k \in 0 .. n |-> IF k = 0 THEN a ELSE h[<<k, g[k - 1]>>]]
<1>1. \A n \in Nat : \E g : Upto(g, n)
  <2> DEFINE S == {n \in Nat : \E g : Upto(g, n)}
  <2>1. 0 \in S
    <3>1. Upto([k \in 0 .. 0 |-> a], 0)  OBVIOUS
    <3> QED BY <3>1
  <2>2. ASSUME NEW m \in Nat, NEW g, Upto(g, m) PROVE \E f : Upto(f, m + 1)
    <3> DEFINE n == m + 1
               f == [k \in 0 .. n |-> IF k = n THEN h[<<n, g[m]>>] ELSE g[k]]
    <3>1. n \in Nat /\ n > 0 /\ m = n - 1  OBVIOUS
    <3>2. ASSUME NEW k \in 0 .. n
          PROVE  f[k] = IF k = 0 THEN a ELSE h[<<k, f[k - 1]>>]
      <4>1. CASE k = 0
        <5>1. 0 \in 0 .. m /\ f[0] = g[0]  BY <3>1
        <5> QED BY <4>1, <5>1, <2>2
      <4>2. CASE k = n
        <5>1. n - 1 \in 0 .. n /\ n - 1 # n  BY <3>1
        <5>2. f[n - 1] = g[n - 1]  BY <5>1
        <5> QED BY <4>2, <5>2, <3>1
      <4>3. CASE k # 0 /\ k # n
        <5>1. k - 1 \in 0 .. n /\ k - 1 # n /\ k \in 0 .. m  BY <4>3, <3>1
        <5>2. f[k - 1] = g[k - 1] /\ f[k] = g[k]  BY <5>1, <4>3
        <5>3. g[k] = h[<<k, g[k - 1]>>]  BY <5>1, <2>2, <4>3
        <5> QED BY <5>2, <5>3, <4>3
      <4> QED BY <4>1, <4>2, <4>3
    <3> HIDE DEF f
    <3>3. f = [k \in 0 .. n |-> f[k]]  BY DEF f
    <3>4. Upto(f, n)  BY <3>2, <3>3
    <3> QED BY <3>4
  <2>3. \A m \in Nat : m \in S => m + 1 \in S
    <3> HIDE DEF Upto
    <3> QED BY <2>2
  <2> HIDE DEF S
  <2>4. \A n \in Nat : n \in S  BY <2>1, <2>3, Induction
  <2> QED BY <2>4 DEF S
<1>2. ASSUME NEW m \in Nat, NEW n \in 0 .. m, NEW f, NEW g, Upto(f, m), Upto(g, n)
      PROVE  \A k \in 0 .. n : f[k] = g[k]
  <2> DEFINE S == {k \in Nat : k <= n => f[k] = g[k]}
  <2> n \in Nat /\ \A k \in 0 .. n : k \in 0 .. m  OBVIOUS
  <2>1. \A k \in 0 .. n : f[k] = IF k = 0 THEN a ELSE h[<<k, f[k - 1]>>]
    BY <1>2
  <2>2. \A k \in 0 .. n : g[k] = IF k = 0 THEN a ELSE h[<<k, g[k - 1]>>]
    BY <1>2
  <2>3. 0 \in S
    <3>1. 0 \in 0 .. n  OBVIOUS
    <3>2. f[0] = a /\ g[0] = a  BY <2>1, <2>2, <3>1
    <3> QED BY <3>2
  <2>4. ASSUME NEW k \in Nat, k \in S PROVE k + 1 \in S
    <3> SUFFICES ASSUME k + 1 <= n PROVE f[k + 1] = g[k + 1]
      OBVIOUS
    <3>1. k + 1 \in 0 .. n /\ k + 1 # 0 /\ k + 1 - 1 = k /\ k <= n  OBVIOUS
    <3>2. f[k] = g[k]  BY <2>4, <3>1
    <3>3. f[k + 1] = h[<<k + 1, f[k]>>]  BY <2>1, <3>1
    <3>4. g[k + 1] = h[<<k + 1, g[k]>>]  BY <2>2, <3>1
    <3> QED BY <3>2, <3>3, <3>4
  <2> HIDE DEF S
  <2>5. \A k \in Nat : k \in S  BY <2>3, <2>4, Induction
  <2> QED BY <2>5 DEF S
<1> DEFINE G(n) == CHOOSE g : Upto(g, n)
           f == [n \in Nat |-> G(n)[n]]
<1>3. ASSUME NEW n \in Nat
      PROVE  f[n] = IF n = 0 THEN a ELSE h[<<n, f[n - 1]>>]
  <2>1. Upto(G(n), n)  BY <1>1
  <2>2. f[n] = IF n = 0 THEN a ELSE h[<<n, G(n)[n - 1]>>]
    <3>1. f[n] = G(n)[n] /\ n \in 0 .. n  OBVIOUS
    <3> HIDE DEF G, f
    <3> QED BY <2>1, <3>1
  <2>3. CASE n # 0
    <3>1. n - 1 \in Nat /\ n - 1 \in 0 .. n /\ n - 1 \in 0 .. n - 1  BY <2>3
    <3>2. Upto(G(n - 1), n - 1)  BY <1>1, <3>1
    <3>3. G(n)[n - 1] = G(n - 1)[n - 1]
      <4> HIDE DEF Upto, G
      <4> QED BY <1>2, <2>1, <3>1, <3>2
    <3>4. f[n - 1] = G(n - 1)[n - 1]  BY <3>1
    <3> HIDE DEF G, f
    <3> QED BY <2>2, <2>3, <3>3, <3>4
  <2> QED BY <2>2, <2>3
<1> HIDE DEF f
<1>4. f = [n \in Nat |-> f[n]]  BY DEF f
<1> QED BY <1>3, <1>4 DEF IteratesTo


\* 1 << n doubles from 1.
LEMMA Pow2Def ==
  /\ Pow2[0] = 1
  /\ \A n \in Nat : Pow2[n] \in Nat \ {0} /\ Pow2[n + 1] = 2 * Pow2[n]
<1> DEFINE h == [p \in Nat \X Nat |-> 2 * p[2]]
           Doubles(f) == f = [n \in Nat |-> IF n = 0 THEN 1 ELSE 2 * f[n - 1]]
<1>1. PICK f : f = [n \in Nat |-> IF n = 0 THEN 1 ELSE h[<<n, f[n - 1]>>]]
  <2> HIDE DEF h
  <2>1. PICK f : IteratesTo(f, 1, h)  BY Iteration
  <2> QED BY <2>1 DEF IteratesTo
<1>2. \A n \in Nat : f[n] \in Nat
  <2> DEFINE S == {n \in Nat : f[n] \in Nat}
  <2>1. 0 \in S  BY <1>1
  <2>2. ASSUME NEW n \in Nat, n \in S PROVE n + 1 \in S
    <3>1. f[n + 1] = h[<<n + 1, f[n]>>]
      <4> HIDE DEF h
      <4> QED BY <1>1
    <3> QED BY <2>2, <3>1
  <2> HIDE DEF S
  <2>3. \A n \in Nat : n \in S  BY <2>1, <2>2, Induction
  <2> QED BY <2>3 DEF S
<1>3. Doubles(f)
  <2>1. ASSUME NEW n \in Nat, n # 0 PROVE h[<<n, f[n - 1]>>] = 2 * f[n - 1]
    BY <1>2, <2>1
  <2> HIDE DEF h
  <2> QED BY <1>1, <2>1
<1>4. Doubles(Pow2)
  <2>1. Pow2 = CHOOSE g : Doubles(g)  BY DEF Pow2
  <2> HIDE DEF Doubles
  <2> QED BY <1>3, <2>1
<1>5. Pow2[0] = 1  BY <1>4
<1>6. \A n \in Nat : Pow2[n + 1] = 2 * Pow2[n]  BY <1>4
<1>7. \A n \in Nat : Pow2[n] \in Nat \ {0}
  <2> DEFINE S == {n \in Nat : Pow2[n] \in Nat \ {0}}
  <2> HIDE DEF Doubles
  <2>1. 0 \in S  BY <1>5
  <2>2. ASSUME NEW n \in Nat, n \in S PROVE n + 1 \in S  BY <1>6, <2>2
  <2> HIDE DEF S
  <2>3. \A n \in Nat : n \in S  BY <2>1, <2>2, Induction
  <2> QED BY <2>3 DEF S
<1> QED BY <1>5, <1>6, <1>7

\* A bit is 0 or 1.
LEMMA BitType ==
  ASSUME NEW w \in Nat, NEW k \in Nat
  PROVE  Bit(w, k) \in {0, 1}
<1>1. Pow2[k] \in Nat \ {0}  BY Pow2Def
<1>2. w \div Pow2[k] \in Nat  BY <1>1
<1> QED BY <1>2 DEF Bit

\* The loop of omap3_spi_reverse_bits adds one bit in each round.
LEMMA RoundsDef ==
  ASSUME NEW w \in Nat
  PROVE  /\ Rounds(w)[0] = 0
         /\ \A n \in 1 .. Bits :
              Rounds(w)[n] = Rounds(w)[n - 1] + Bit(w, n - 1) * Pow2[Bits - n]
<1> DEFINE h == [p \in (1 .. Bits) \X Nat |->
                   p[2] + Bit(w, p[1] - 1) * Pow2[Bits - p[1]]]
           IsLoop(f) == f = [n \in 0 .. Bits |->
                               IF n = 0 THEN 0
                               ELSE f[n - 1] + Bit(w, n - 1) * Pow2[Bits - n]]
<1> Bits \in Nat  BY SizesAssumption
<1>1. PICK f : f = [n \in Nat |-> IF n = 0 THEN 0 ELSE h[<<n, f[n - 1]>>]]
  <2> HIDE DEF h
  <2>1. PICK f : IteratesTo(f, 0, h)  BY Iteration
  <2> QED BY <2>1 DEF IteratesTo
<1>2. ASSUME NEW n \in 1 .. Bits
      PROVE Bit(w, n - 1) * Pow2[Bits - n] \in Nat
  <2>1. n - 1 \in Nat /\ Bits - n \in Nat  OBVIOUS
  <2>2. Pow2[Bits - n] \in Nat  BY <2>1, Pow2Def
  <2>3. Bit(w, n - 1) \in {0, 1}  BY <2>1, BitType
  <2> QED BY <2>2, <2>3
<1>3. \A n \in 0 .. Bits : f[n] \in Nat
  <2> DEFINE S == {n \in Nat : n <= Bits => f[n] \in Nat}
  <2>1. 0 \in S  BY <1>1
  <2>2. ASSUME NEW n \in Nat, n \in S PROVE n + 1 \in S
    <3> SUFFICES ASSUME n + 1 <= Bits PROVE f[n + 1] \in Nat
      OBVIOUS
    <3>1. f[n] \in Nat /\ n + 1 \in 1 .. Bits  BY <2>2
    <3>2. f[n + 1] = h[<<n + 1, f[n]>>]
      <4> HIDE DEF h
      <4> QED BY <1>1
    <3>3. h[<<n + 1, f[n]>>] = f[n] + Bit(w, n + 1 - 1) * Pow2[Bits - (n + 1)]
      BY <3>1
    <3>4. Bit(w, n + 1 - 1) * Pow2[Bits - (n + 1)] \in Nat  BY <1>2, <3>1
    <3> QED BY <3>1, <3>2, <3>3, <3>4
  <2> HIDE DEF S
  <2>3. \A n \in Nat : n \in S  BY <2>1, <2>2, Induction
  <2> QED BY <2>3 DEF S
<1> DEFINE g == [n \in 0 .. Bits |-> f[n]]
<1>4. IsLoop(g)
  <2>1. ASSUME NEW n \in 1 .. Bits
        PROVE  f[n] = f[n - 1] + Bit(w, n - 1) * Pow2[Bits - n]
    <3>1. n \in Nat /\ n # 0 /\ n - 1 \in 0 .. Bits  OBVIOUS
    <3>2. f[n] = h[<<n, f[n - 1]>>]
      <4> HIDE DEF h
      <4> QED BY <1>1, <3>1
    <3>3. f[n - 1] \in Nat  BY <1>3, <3>1
    <3> QED BY <3>2, <3>3
  <2>2. ASSUME NEW n \in 0 .. Bits
        PROVE  g[n] = IF n = 0 THEN 0
                      ELSE g[n - 1] + Bit(w, n - 1) * Pow2[Bits - n]
    <3>1. CASE n = 0
      <4>1. f[0] = 0  BY <1>1
      <4> QED BY <3>1, <4>1
    <3>2. CASE n # 0
      <4>1. n \in 1 .. Bits /\ n - 1 \in 0 .. Bits  BY <3>2
      <4>2. g[n] = f[n] /\ g[n - 1] = f[n - 1]  BY <4>1
      <4> HIDE DEF g
      <4> QED BY <2>1, <3>2, <4>1, <4>2
    <3> QED BY <3>1, <3>2
  <2> HIDE DEF g
  <2>3. g = [n \in 0 .. Bits |-> g[n]]  BY DEF g
  <2> QED BY <2>2, <2>3
<1>5. IsLoop(Rounds(w))
  <2>1. Rounds(w) = CHOOSE r : IsLoop(r)  BY DEF Rounds
  <2> HIDE DEF IsLoop
  <2> QED BY <1>4, <2>1
<1> DEFINE r == Rounds(w)
<1>6. IsLoop(r)  BY <1>5
<1> HIDE DEF r
<1>7. r[0] = 0  BY <1>6
<1>8. \A n \in 1 .. Bits : r[n] = r[n - 1] + Bit(w, n - 1) * Pow2[Bits - n]
  BY <1>6
<1> QED BY <1>7, <1>8 DEF r

-----------------------------------------------------------------------------
(* Arithmetic, and the reversed byte. *)

\* Division of natural numbers, in the forms used below.
LEMMA DivMod ==
  ASSUME NEW a \in Nat, NEW m \in Nat \ {0}
  PROVE  /\ a \div m \in Nat /\ a % m \in 0 .. m - 1
         /\ a = m * (a \div m) + (a % m)
         /\ \A q \in Nat, r \in 0 .. m - 1 : a = m * q + r => a \div m = q /\ a % m = r
<1>1. a \div m \in Nat /\ a % m \in 0 .. m - 1 /\ a = m * (a \div m) + (a % m)
  OBVIOUS
<1>2. ASSUME NEW q \in Nat, NEW r \in 0 .. m - 1, a = m * q + r
      PROVE  a \div m = q /\ a % m = r
  BY <1>2
<1> QED BY <1>1, <1>2

\* Shifting right by one more bit.
LEMMA DivDiv ==
  ASSUME NEW a \in Nat, NEW b \in Nat \ {0}
  PROVE  (a \div b) \div 2 = a \div (2 * b)
<1> DEFINE q == a \div b
           r == a % b
           s == q \div 2
           t == q % 2
<1>1. q \in Nat /\ r \in 0 .. b - 1 /\ a = b * q + r  BY DivMod
<1> HIDE DEF q, r
<1>2. s \in Nat /\ t \in {0, 1} /\ q = 2 * s + t  BY <1>1
<1> HIDE DEF s, t
<1>3. a = b * (2 * s + t) + r  BY <1>1, <1>2
<1>4. a = (2 * b) * s + (b * t + r)  BY <1>1, <1>2, <1>3
<1>5. b * t + r \in 0 .. 2 * b - 1
  <2>1. CASE t = 0  BY <2>1, <1>1
  <2>2. CASE t = 1  BY <2>2, <1>1
  <2> QED BY <2>1, <2>2, <1>2
<1>6. 2 * b \in Nat \ {0}  OBVIOUS
<1> DEFINE m == 2 * b
           z == b * t + r
<1>7. m \in Nat \ {0} /\ z \in 0 .. m - 1 /\ a = m * s + z  BY <1>4, <1>5, <1>6
<1> HIDE DEF m, z
<1>8. a \div m = s  BY <1>2, <1>7, DivMod
<1> QED BY <1>8 DEF m, s, q

\* omap3_spi_reverse_bits: the result is a byte, and its bits from the most
\* significant one are those of x from the least significant one.
THEOREM ReverseBitsMirrors ==
  ASSUME NEW x \in Nat
  PROVE  /\ ReverseBits(x) \in Byte
         /\ \A k \in 0 .. Bits - 1 : Bit(ReverseBits(x), Bits - 1 - k) = Bit(x, k)
<1> Bits \in Nat /\ Bits > 0  BY SizesAssumption
<1> DEFINE R == Rounds(x)
           H(n) == R[n] \div Pow2[Bits - n]
           b(n) == Bit(x, n)
<1>1. R[0] = 0 /\ \A n \in 1 .. Bits : R[n] = R[n - 1] + b(n - 1) * Pow2[Bits - n]
  BY RoundsDef
<1>2. \A n \in Nat : b(n) \in {0, 1}  BY BitType
<1> HIDE DEF R, b
\* After n rounds, the n bits read so far stand above Bits - n zeros.
<1>3. \A n \in Nat : n <= Bits =>
         /\ H(n) \in Nat /\ H(n) <= Pow2[n] - 1
         /\ R[n] = Pow2[Bits - n] * H(n)
         /\ n > 0 => H(n) = 2 * H(n - 1) + b(n - 1)
  <2> DEFINE S == {n \in Nat : n <= Bits =>
                     /\ H(n) \in Nat /\ H(n) <= Pow2[n] - 1
                     /\ R[n] = Pow2[Bits - n] * H(n)
                     /\ n > 0 => H(n) = 2 * H(n - 1) + b(n - 1)}
  <2>1. 0 \in S
    <3>1. Bits - 0 = Bits /\ Pow2[Bits] \in Nat \ {0} /\ Pow2[0] = 1  BY Pow2Def
    <3>2. H(0) = 0
      <4> DEFINE p == Pow2[Bits]
      <4>1. H(0) = 0 \div p  BY <1>1, <3>1
      <4>2. p \in Nat \ {0}  BY <3>1
      <4> HIDE DEF p, H
      <4> QED BY <4>1, <4>2
    <3> QED BY <1>1, <3>1, <3>2
  <2>2. ASSUME NEW n \in Nat, n \in S PROVE n + 1 \in S
    <3> SUFFICES ASSUME n + 1 <= Bits
                 PROVE  /\ H(n + 1) \in Nat /\ H(n + 1) <= Pow2[n + 1] - 1
                        /\ R[n + 1] = Pow2[Bits - (n + 1)] * H(n + 1)
                        /\ H(n + 1) = 2 * H(n) + b(n)
      OBVIOUS
    <3> DEFINE p == Pow2[Bits - (n + 1)]
               c == 2 * H(n) + b(n)
    <3>1. H(n) \in Nat /\ H(n) <= Pow2[n] - 1 /\ R[n] = Pow2[Bits - n] * H(n)
      BY <2>2
    <3>2. p \in Nat \ {0} /\ Pow2[Bits - n] = 2 * p
      <4>1. Bits - (n + 1) \in Nat /\ Bits - (n + 1) + 1 = Bits - n  OBVIOUS
      <4> QED BY <4>1, Pow2Def
    <3>3. R[n + 1] = R[n] + b(n) * p  BY <1>1
    <3>4. b(n) \in {0, 1}  BY <1>2
    <3>5. Pow2[n] \in Nat /\ Pow2[n + 1] = 2 * Pow2[n]  BY Pow2Def
    <3>6. H(n + 1) = R[n + 1] \div p  OBVIOUS
    <3> HIDE DEF p, H
    <3>7. c \in Nat /\ c <= Pow2[n + 1] - 1  BY <3>1, <3>4, <3>5
    <3>8. R[n + 1] = p * c
      <4>1. R[n + 1] = (2 * p) * H(n) + b(n) * p  BY <3>1, <3>2, <3>3
      <4> QED BY <4>1, <3>1, <3>2, <3>4
    <3>9. H(n + 1) = c
      <4> HIDE DEF c
      <4>1. R[n + 1] \in Nat /\ 0 \in 0 .. p - 1 /\ R[n + 1] = p * c + 0
        BY <3>2, <3>7, <3>8
      <4> QED BY <4>1, <3>2, <3>6, <3>7, DivMod
    <3> QED BY <3>7, <3>8, <3>9 DEF p
  <2> HIDE DEF S
  <2>3. \A n \in Nat : n \in S  BY <2>1, <2>2, Induction
  <2> QED BY <2>3 DEF S
\* Shifting the result right by k drops the bits of the last k rounds.
<1>4. \A k \in Nat : k <= Bits => H(Bits) \div Pow2[k] = H(Bits - k)
  <2> DEFINE S == {k \in Nat : k <= Bits => H(Bits) \div Pow2[k] = H(Bits - k)}
  <2> HIDE DEF H
  <2>1. 0 \in S
    <3>1. H(Bits) \in Nat /\ Pow2[0] = 1  BY <1>3, Pow2Def
    <3> QED BY <3>1
  <2>2. ASSUME NEW k \in Nat, k \in S PROVE k + 1 \in S
    <3> SUFFICES ASSUME k + 1 <= Bits
                 PROVE  H(Bits) \div Pow2[k + 1] = H(Bits - (k + 1))
      OBVIOUS
    <3>1. H(Bits) \div Pow2[k] = H(Bits - k)  BY <2>2
    <3>2. H(Bits) \in Nat /\ Pow2[k] \in Nat \ {0} /\ Pow2[k + 1] = 2 * Pow2[k]
      BY <1>3, Pow2Def
    <3>3. H(Bits) \div Pow2[k + 1] = H(Bits - k) \div 2  BY <3>1, <3>2, DivDiv
    <3> DEFINE n == Bits - (k + 1)
    <3>4. n \in Nat /\ Bits - k = n + 1 /\ n + 1 <= Bits /\ n <= Bits  OBVIOUS
    <3>5. H(n) \in Nat /\ H(n + 1) = 2 * H(n) + b(n)
      <4>1. n + 1 \in Nat /\ n + 1 > 0 /\ n + 1 - 1 = n  BY <3>4
      <4> HIDE DEF n
      <4> QED BY <1>3, <3>4, <4>1
    <3>6. b(n) \in {0, 1}  BY <1>2, <3>4
    <3>7. H(n + 1) \div 2 = H(n)  BY <3>5, <3>6
    <3> QED BY <3>3, <3>4, <3>7
  <2> HIDE DEF S
  <2>3. \A k \in Nat : k \in S  BY <2>1, <2>2, Induction
  <2> QED BY <2>3 DEF S
<1>5. ReverseBits(x) = H(Bits)
  <2>1. ReverseBits(x) = R[Bits]  BY DEF ReverseBits, R
  <2>2. H(Bits) \in Nat /\ R[Bits] = Pow2[Bits - Bits] * H(Bits)  BY <1>3
  <2>3. Pow2[Bits - Bits] = 1  BY Pow2Def
  <2> HIDE DEF H
  <2> QED BY <2>1, <2>2, <2>3
<1> HIDE DEF H
<1>6. ReverseBits(x) \in Byte
  <2>1. H(Bits) \in Nat /\ H(Bits) <= Pow2[Bits] - 1  BY <1>3
  <2>2. Pow2[Bits] \in Nat  BY Pow2Def
  <2> QED BY <1>5, <2>1, <2>2 DEF Byte
<1>7. ASSUME NEW k \in 0 .. Bits - 1
      PROVE  Bit(ReverseBits(x), Bits - 1 - k) = Bit(x, k)
  <2>1. k \in Nat /\ Bits - 1 - k \in Nat /\ Bits - 1 - k <= Bits
        /\ Bits - (Bits - 1 - k) = k + 1 /\ k + 1 <= Bits /\ k <= Bits
    OBVIOUS
  <2>2. H(Bits) \div Pow2[Bits - 1 - k] = H(k + 1)  BY <1>4, <2>1
  <2>3. H(k) \in Nat /\ H(k + 1) = 2 * H(k) + b(k)
    <3>1. k + 1 \in Nat /\ k + 1 > 0 /\ k + 1 - 1 = k  BY <2>1
    <3> QED BY <1>3, <2>1, <3>1
  <2>4. b(k) \in {0, 1}  BY <1>2, <2>1
  <2>5. H(k + 1) % 2 = b(k)  BY <2>3, <2>4
  <2> QED BY <1>5, <2>2, <2>5 DEF Bit, b
<1> QED BY <1>6, <1>7

-----------------------------------------------------------------------------
(***************************************************************************)
(* The inductive invariant.                                                *)
(***************************************************************************)

Lsbf == LsbfOf(control) = 1 /\ bpw \in {Bits, 2 * Bits}

\* The other byte of the two-byte word that byte k is in.
Pair(k) == IF k % 2 = 0 THEN k + 1 ELSE k - 1

\* Where the byte at k comes from when the exchange of bytes is over, and what
\* is to be sent at k.
Source(k) == IF bpw = 2 * Bits THEN Pair(k) ELSE k
Sendable(k) == IF Lsbf THEN ReverseBits(Given(Source(k))) ELSE Given(k)

MsgTypes ==
  /\ phase \in {"idle", "swap", "reverse", "send"}
  /\ control \in Byte /\ ndb \in Nat /\ group \in Nat \ {0} /\ i \in Nat
  /\ payload \in Seq(Byte) /\ wire \in Seq(Byte)
  /\ spi_buffer \in [0 .. BufSize - HeaderLen - 1 -> Byte]
  /\ DOMAIN read_buffer = 0 .. BufSize - 1
  /\ phase # "idle" => ndb \in Lengths /\ group \in Groups

\* What holds from the parsing of an accepted message to the end of its write.
Begun ==
  phase # "idle" => last_len = ndb

\* The words below i have had their bytes exchanged.
Swapping ==
  phase = "swap" =>
    /\ Lsbf /\ bpw = 2 * Bits /\ i % 2 = 0 /\ wire = <<>>
    /\ \A k \in 0 .. ndb :
         spi_buffer[k] = IF k < i THEN Given(Pair(k)) ELSE Given(k)

\* The bytes below i have been reversed.
Reversing ==
  phase = "reverse" =>
    /\ Lsbf /\ wire = <<>>
    /\ \A k \in 0 .. ndb - 1 :
         spi_buffer[k] = IF k < i THEN ReverseBits(Given(Source(k)))
                                  ELSE Given(Source(k))

\* The bytes sent when the loop is at i: the chunk of a message shorter than a
\* group is cut to the message.
Sent == IF i > 0 /\ ndb < group THEN ndb ELSE i

\* The chunks below i are on the wire, and their replies in place.
Sending ==
  phase = "send" =>
    /\ \A k \in 0 .. ndb - 1 : spi_buffer[k] = Sendable(k)
    /\ i < ndb + group /\ (ndb < group => i \in {0, group})
    /\ Len(wire) = Sent
    /\ \A k \in 0 .. Sent - 1 : /\ wire[k + 1] = spi_buffer[k]
                                /\ read_buffer[k] = spi_buffer[k]

\* What an accepted message leaves behind.
Done ==
  Finished =>
    /\ last_len = ndb
    /\ Len(wire) >= ndb /\ (ndb >= group => Len(wire) < ndb + group)
    /\ \A k \in 0 .. ndb - 1 : /\ wire[k + 1] = Sendable(k)
                               /\ read_buffer[k] = wire[k + 1]

IInv == MsgTypes /\ Begun /\ Swapping /\ Reversing /\ Sending /\ Done

-----------------------------------------------------------------------------
(* Types. *)

\* Bytes are natural numbers, and 0 is one.
LEMMA ByteNat == Byte \subseteq Nat /\ 0 \in Byte
<1>1. Pow2[Bits] \in Nat \ {0}  BY SizesAssumption, Pow2Def
<1> QED BY <1>1 DEF Byte

\* A user's lengths and groups are natural numbers, groups positive.
LEMMA InputsNat ==
  /\ Controls \subseteq Byte /\ Lengths \subseteq Nat
  /\ Groups \subseteq Nat \ {0} /\ Payloads \subseteq Seq(Byte)
BY ByteNat, InputAssumption

\* What the user gave, or the zero behind it, is a byte.
LEMMA GivenByte ==
  ASSUME payload \in Seq(Byte), NEW k \in Nat
  PROVE  Given(k) \in Byte
<1>1. CASE k < Len(payload)
  <2>1. k + 1 \in 1 .. Len(payload)  BY <1>1
  <2> QED BY <1>1, <2>1 DEF Given
<1>2. CASE ~(k < Len(payload))  BY <1>2, ByteNat DEF Given
<1> QED BY <1>1, <1>2

\* The loops of an accepted message stay inside the payload part of the buffer.
LEMMA Indices ==
  ASSUME MsgTypes, phase # "idle"
  PROVE  /\ \A k \in 0 .. ndb : k \in 0 .. BufSize - HeaderLen - 1
         /\ i < ndb => i + group - 1 \in 0 .. BufSize - HeaderLen - 1
         /\ i < ndb => i + group - 1 < BufSize
<1>1. ndb \in Lengths /\ group \in Groups  BY DEF MsgTypes
<1>2. HeaderLen + ndb + group - 1 <= BufSize /\ HeaderLen + ndb + 1 <= BufSize
  BY <1>1, BufSizeAssumption
<1>3. ndb \in Nat /\ group \in Nat \ {0} /\ i \in Nat  BY DEF MsgTypes
<1> QED BY <1>2, <1>3, SizesAssumption

\* What one round puts on the wire is a sequence of bytes of the buffer.
LEMMA ChunkType ==
  ASSUME MsgTypes, phase = "send", More
  PROVE  /\ XferLen \in Nat /\ XferLen <= group
         /\ [k \in 1 .. XferLen |-> spi_buffer[i + k - 1]] \in Seq(Byte)
         /\ Len([k \in 1 .. XferLen |-> spi_buffer[i + k - 1]]) = XferLen
<1>1. ndb \in Nat /\ group \in Nat \ {0} /\ i \in Nat  BY DEF MsgTypes
<1>2. XferLen \in Nat /\ XferLen <= group  BY <1>1 DEF XferLen
<1>3. ASSUME NEW k \in 1 .. XferLen PROVE spi_buffer[i + k - 1] \in Byte
  <2>1. i + group - 1 \in 0 .. BufSize - HeaderLen - 1  BY Indices DEF More
  <2>2. i + k - 1 \in 0 .. BufSize - HeaderLen - 1
    BY <1>1, <1>2, <2>1, SizesAssumption
  <2> QED BY <2>2 DEF MsgTypes
<1> DEFINE n == XferLen
           c == [k \in 1 .. n |-> spi_buffer[i + k - 1]]
<1>4. c \in [1 .. n -> Byte] /\ n \in Nat  BY <1>2, <1>3
<1> HIDE DEF c, n
<1>5. c \in Seq(Byte) /\ Len(c) = n
  BY <1>4, SeqDef, LenProperties
<1> QED BY <1>2, <1>5 DEF c, n

\* Every step keeps the types: no loop stores outside the buffer, and a reversed
\* byte is a byte.
LEMMA TypesInductive ==
  ASSUME MsgTypes, [Next]_vars
  PROVE  MsgTypes'
<1>1. ASSUME NEW c \in Controls, NEW b \in Widths, NEW n \in Lengths,
             NEW g \in Groups, NEW p \in Payloads, Start(c, b, n, g, p)
      PROVE  MsgTypes'
  <2>1. /\ control' = c /\ ndb' = n /\ group' = g /\ payload' = p /\ wire' = <<>>
        /\ i' = 0 /\ spi_buffer' = Loaded(p) /\ read_buffer' = read_buffer
    BY <1>1 DEF Start
  <2>2. phase' \in {"idle", "swap", "reverse", "send"}
    BY <1>1 DEF Start, MsgTypes
  <2>3. ASSUME NEW k \in 0 .. BufSize - HeaderLen - 1
        PROVE  (IF k < Len(p) THEN p[k + 1] ELSE 0) \in Byte
    <3>1. p \in Seq(Byte)  BY InputsNat
    <3>2. CASE k < Len(p)
      <4>1. k + 1 \in 1 .. Len(p)  BY <3>1, <3>2, SizesAssumption
      <4> QED BY <3>1, <3>2, <4>1
    <3> QED BY <3>2, ByteNat
  <2>4. Loaded(p) \in [0 .. BufSize - HeaderLen - 1 -> Byte]
    BY <2>3 DEF Loaded
  <2> QED BY <2>1, <2>2, <2>4, InputsNat DEF MsgTypes
<1>2. CASE Swap
  <2>1. phase = "swap" /\ UNCHANGED <<control, bpw, ndb, group, payload, writes>>
        /\ wire' = wire /\ read_buffer' = read_buffer
    BY <1>2 DEF Swap, paramVars
  <2>2. CASE i < ndb
    <3>1. i \in 0 .. BufSize - HeaderLen - 1 /\ i + 1 \in 0 .. BufSize - HeaderLen - 1
      BY <2>1, <2>2, Indices DEF MsgTypes
    <3>2. spi_buffer[i] \in Byte /\ spi_buffer[i + 1] \in Byte
      BY <3>1 DEF MsgTypes
    <3> QED BY <1>2, <2>1, <2>2, <3>2 DEF Swap, SwapStep, MsgTypes
  <2>3. CASE ~(i < ndb)
    BY <1>2, <2>1, <2>3 DEF Swap, Goto, MsgTypes
  <2> QED BY <2>2, <2>3
<1>3. CASE Reverse
  <2>1. phase = "reverse" /\ UNCHANGED <<control, bpw, ndb, group, payload, writes>>
        /\ wire' = wire /\ read_buffer' = read_buffer
    BY <1>3 DEF Reverse, paramVars
  <2>2. CASE i < ndb
    <3>1. i \in 0 .. BufSize - HeaderLen - 1
      BY <2>1, <2>2, Indices DEF MsgTypes
    <3>2. ReverseBits(spi_buffer[i]) \in Byte
      BY <3>1, ByteNat, ReverseBitsMirrors DEF MsgTypes
    <3> QED BY <1>3, <2>1, <2>2, <3>2 DEF Reverse, MsgTypes
  <2>3. CASE ~(i < ndb)
    BY <1>3, <2>1, <2>3 DEF Reverse, Goto, MsgTypes
  <2> QED BY <2>2, <2>3
<1>4. CASE Send
  <2>1. phase = "send" /\ UNCHANGED <<control, bpw, ndb, group, payload, writes>>
        /\ spi_buffer' = spi_buffer
    BY <1>4 DEF Send, paramVars
  <2>2. CASE More
    <3> DEFINE c == [k \in 1 .. XferLen |-> spi_buffer[i + k - 1]]
    <3>1. c \in Seq(Byte)  BY <2>1, <2>2, ChunkType
    <3>2. wire' = wire \o c /\ phase' = phase /\ i' = i + group
      BY <1>4, <2>2 DEF Send
    <3>3. DOMAIN read_buffer' = DOMAIN read_buffer  BY <1>4, <2>2 DEF Send
    <3> HIDE DEF c
    <3>4. wire' \in Seq(Byte)  BY <3>1, <3>2, ConcatProperties DEF MsgTypes
    <3> QED BY <2>1, <3>2, <3>3, <3>4 DEF MsgTypes
  <2>3. CASE ~More
    BY <1>4, <2>1, <2>3 DEF Send, Goto, MsgTypes
  <2> QED BY <2>2, <2>3
<1>5. CASE UNCHANGED vars  BY <1>5 DEF MsgTypes, vars
<1> QED BY <1>1, <1>2, <1>3, <1>4, <1>5 DEF Next

-----------------------------------------------------------------------------
(* The invariant, one action after the other. *)

\* Steps that leave a message's parameters alone leave its meaning alone.
LEMMA SameMessage ==
  ASSUME UNCHANGED <<control, bpw, ndb, group, payload, writes>>
  PROVE  /\ Lsbf' = Lsbf /\ Accepted' = Accepted
         /\ \A k : Given(k)' = Given(k) /\ Source(k)' = Source(k)
         /\ \A k : Sendable(k)' = Sendable(k)
<1>1. Lsbf' = Lsbf /\ Accepted' = Accepted  BY DEF Lsbf, Accepted
<1>2. \A k : Given(k)' = Given(k) /\ Source(k)' = Source(k)
  BY DEF Given, Source
<1>3. \A k : Sendable(k)' = Sendable(k)
  <2> SUFFICES ASSUME NEW k PROVE Sendable(k)' = Sendable(k)  OBVIOUS
  <2>1. Given(k)' = Given(k) /\ Given(Source(k))' = Given(Source(k))
    BY <1>2 DEF Given, Source
  <2> QED BY <1>1, <2>1 DEF Sendable
<1> QED BY <1>1, <1>2, <1>3

\* An accepted message begins in the loop its fields ask for; a refused one
\* leaves nothing to be said.
LEMMA StartKeeps ==
  ASSUME MsgTypes, IInv, NEW c \in Controls, NEW b \in Widths, NEW n \in Lengths,
         NEW g \in Groups, NEW p \in Payloads, Start(c, b, n, g, p), MsgTypes'
  PROVE  IInv'
<1>1. /\ control' = c /\ bpw' = b /\ ndb' = n /\ group' = g /\ payload' = p
      /\ wire' = <<>> /\ i' = 0 /\ spi_buffer' = Loaded(p) /\ phase = "idle"
  BY DEF Start
<1>2. CASE CsOf(c) # ChipSelect
  <2>1. phase' = "idle" /\ ~Accepted'  BY <1>1, <1>2 DEF Start, Accepted
  <2> QED BY <2>1 DEF IInv, Begun, Swapping, Reversing, Sending, Done, Finished
<1>3. CASE CsOf(c) = ChipSelect
  <2>1. /\ last_len' = n
        /\ phase' = CASE LsbfOf(c) = 1 /\ b = 2 * Bits -> "swap"
                      [] LsbfOf(c) = 1 /\ b = Bits -> "reverse"
                      [] OTHER -> "send"
    BY <1>3 DEF Start
  <2>2. phase' \in {"swap", "reverse", "send"}
        /\ (phase' = "swap" => Lsbf' /\ bpw' = 2 * Bits)
        /\ (phase' = "reverse" => Lsbf' /\ bpw' = Bits)
        /\ (phase' = "send" => ~Lsbf')
    BY <1>1, <2>1 DEF Lsbf
  <2>3. Begun'  BY <1>1, <2>1 DEF Begun
  <2>4. ASSUME NEW k \in 0 .. ndb' PROVE spi_buffer[k]' = Given(k)'
    <3>1. k \in 0 .. BufSize - HeaderLen - 1
      <4>1. HeaderLen + n + 1 <= BufSize  BY BufSizeAssumption
      <4> QED BY <1>1, <4>1, InputsNat, SizesAssumption
    <3> QED BY <1>1, <3>1 DEF Loaded, Given
  <2>5. ndb' \in Nat /\ \A k \in 0 .. ndb' : k >= 0  BY DEF MsgTypes
  <2>6. Swapping'
    BY <1>1, <2>2, <2>4, <2>5 DEF Swapping
  <2>7. Reversing'
    <3> SUFFICES ASSUME phase' = "reverse" PROVE Reversing'
      BY DEF Reversing
    <3>1. Lsbf' /\ bpw' = Bits  BY <2>2
    <3>2. \A k : Source(k)' = k  BY <3>1, SizesAssumption DEF Source
    <3>3. \A k \in 0 .. ndb' - 1 : k \in 0 .. ndb' /\ ~(k < i')  BY <1>1, <2>5
    <3>4. \A k : Given(Source(k))' = Given(k)'  BY <3>2 DEF Given
    <3> QED BY <1>1, <2>4, <3>1, <3>3, <3>4 DEF Reversing
  <2>8. Sending'
    <3> SUFFICES ASSUME phase' = "send" PROVE Sending'
      BY DEF Sending
    <3>1. \A k : Sendable(k)' = Given(k)'  BY <2>2 DEF Sendable
    <3>2. \A k \in 0 .. ndb' - 1 : k \in 0 .. ndb'
      BY <1>1, <2>5
    <3>3. ndb' \in Nat /\ group' \in Nat \ {0}  BY DEF MsgTypes
    <3>4. Sent' = 0 /\ Len(wire') = 0  BY <1>1 DEF Sent
    <3> QED BY <1>1, <2>4, <3>1, <3>2, <3>3, <3>4 DEF Sending
  <2> QED BY <2>2, <2>3, <2>6, <2>7, <2>8 DEF IInv, Done, Finished
<1> QED BY <1>2, <1>3

\* A round exchanges one word below i; at the end every byte of the message is
\* its pair's.
LEMMA SwapKeeps ==
  ASSUME IInv, Swap, MsgTypes'
  PROVE  IInv'
<1>1. /\ phase = "swap" /\ UNCHANGED <<control, bpw, ndb, group, payload, writes>>
      /\ wire' = wire /\ read_buffer' = read_buffer
      /\ last_len' = last_len
  BY DEF Swap, paramVars
<1>2. /\ Lsbf' = Lsbf
      /\ \A k : Given(k)' = Given(k) /\ Source(k)' = Source(k)
  BY <1>1, SameMessage
<1>3. /\ Lsbf /\ bpw = 2 * Bits /\ i % 2 = 0 /\ wire = <<>>
      /\ \A k \in 0 .. ndb :
           spi_buffer[k] = IF k < i THEN Given(Pair(k)) ELSE Given(k)
  BY <1>1 DEF IInv, Swapping
<1>4. last_len = ndb  BY <1>1 DEF IInv, Begun
<1>5. i \in Nat /\ ndb \in Nat  BY DEF IInv, MsgTypes
<1>6. phase' \in {"swap", "reverse"}  BY <1>1 DEF Swap, Goto
<1>7. Begun' /\ Sending' /\ Done'
  BY <1>1, <1>4, <1>6 DEF Begun, Sending, Done, Finished
<1>8. CASE i < ndb
  <2>1. /\ spi_buffer' = [spi_buffer EXCEPT ![i] = spi_buffer[i + 1],
                                            ![i + 1] = spi_buffer[i]]
        /\ i' = i + 2 /\ phase' = "swap"
    BY <1>1, <1>8 DEF Swap, SwapStep
  <2>2. \A k \in 0 .. ndb : k \in DOMAIN spi_buffer
    BY <1>1, Indices DEF IInv, MsgTypes
  <2>3. i' % 2 = 0  BY <1>3, <1>5, <2>1
  <2>4. ASSUME NEW k \in 0 .. ndb
        PROVE  spi_buffer'[k] = IF k < i' THEN Given(Pair(k)) ELSE Given(k)
    <3>1. i \in 0 .. ndb /\ i + 1 \in 0 .. ndb  BY <1>5, <1>8
    <3>2. spi_buffer[i] = Given(i) /\ spi_buffer[i + 1] = Given(i + 1)
      BY <1>3, <1>5, <3>1
    <3>3. CASE k = i
      <4>1. spi_buffer'[k] = spi_buffer[i + 1]
        BY <1>5, <2>1, <2>2, <3>1, <3>3
      <4>2. Pair(k) = i + 1 /\ k < i'  BY <1>3, <1>5, <2>1, <3>3 DEF Pair
      <4> QED BY <3>2, <4>1, <4>2
    <3>4. CASE k = i + 1
      <4>1. spi_buffer'[k] = spi_buffer[i]
        BY <1>5, <2>1, <2>2, <3>1, <3>4
      <4>2. (i + 1) % 2 # 0 /\ k < i'  BY <1>3, <1>5, <2>1, <3>4
      <4>3. Pair(k) = i  BY <1>5, <3>4, <4>2 DEF Pair
      <4> QED BY <3>2, <4>1, <4>2, <4>3
    <3>5. CASE k # i /\ k # i + 1
      <4>1. spi_buffer'[k] = spi_buffer[k]  BY <2>1, <2>2, <3>5
      <4>2. k < i' <=> k < i  BY <1>5, <2>1, <3>5
      <4> QED BY <1>3, <4>1, <4>2
    <3> QED BY <3>3, <3>4, <3>5
  <2>5. Swapping'  BY <1>1, <1>2, <1>3, <2>3, <2>4 DEF Swapping, Pair
  <2>6. Reversing'  BY <2>1 DEF Reversing
  <2> QED BY <1>7, <2>5, <2>6 DEF IInv
<1>9. CASE ~(i < ndb)
  <2>1. spi_buffer' = spi_buffer /\ i' = 0 /\ phase' = "reverse"
    BY <1>1, <1>9 DEF Swap, Goto
  <2>2. ASSUME NEW k \in 0 .. ndb - 1
        PROVE  spi_buffer'[k] = Given(Source(k))' /\ ~(k < i')
    <3>1. k < i /\ k \in 0 .. ndb /\ k \in Nat  BY <1>5, <1>9
    <3>2. spi_buffer[k] = Given(Pair(k))  BY <1>3, <3>1
    <3>3. Source(k) = Pair(k)  BY <1>3 DEF Source
    <3>4. Given(Source(k))' = Given(Source(k))  BY <1>1 DEF Given, Source, Pair
    <3> QED BY <2>1, <3>1, <3>2, <3>3, <3>4
  <2>3. Reversing'  BY <1>1, <1>2, <1>3, <2>1, <2>2 DEF Reversing
  <2>4. Swapping'  BY <2>1 DEF Swapping
  <2> QED BY <1>7, <2>3, <2>4 DEF IInv
<1> QED BY <1>8, <1>9

\* A round reverses byte i; at the end the buffer holds what is to be sent.
LEMMA ReverseKeeps ==
  ASSUME IInv, Reverse, MsgTypes'
  PROVE  IInv'
<1>1. /\ phase = "reverse" /\ UNCHANGED <<control, bpw, ndb, group, payload, writes>>
      /\ wire' = wire /\ read_buffer' = read_buffer
      /\ last_len' = last_len
  BY DEF Reverse, paramVars
<1> DEFINE G(k) == Given(Source(k))
<1>2. /\ Lsbf' = Lsbf
      /\ \A k : Given(Source(k))' = G(k) /\ Sendable(k)' = Sendable(k)
  BY <1>1, SameMessage DEF Given, Source, Pair
<1>3. /\ Lsbf /\ wire = <<>>
      /\ \A k \in 0 .. ndb - 1 :
           spi_buffer[k] = IF k < i THEN ReverseBits(G(k)) ELSE G(k)
  BY <1>1 DEF IInv, Reversing
<1>4. last_len = ndb  BY <1>1 DEF IInv, Begun
<1>5. i \in Nat /\ ndb \in Nat /\ group \in Nat \ {0}  BY DEF IInv, MsgTypes
<1>6. phase' \in {"reverse", "send"}  BY <1>1 DEF Reverse, Goto
<1>7. Begun' /\ Swapping' /\ Done'
  BY <1>1, <1>4, <1>6 DEF Begun, Swapping, Done, Finished
<1> HIDE DEF G
<1>8. CASE i < ndb
  <2>1. /\ spi_buffer' = [spi_buffer EXCEPT ![i] = ReverseBits(spi_buffer[i])]
        /\ i' = i + 1 /\ phase' = "reverse"
    BY <1>1, <1>8 DEF Reverse
  <2>2. \A k \in 0 .. ndb - 1 : k \in DOMAIN spi_buffer
    <3>1. \A k \in 0 .. ndb - 1 : k \in 0 .. ndb  BY <1>5
    <3> QED BY <1>1, <3>1, Indices DEF IInv, MsgTypes
  <2>3. ASSUME NEW k \in 0 .. ndb - 1
        PROVE  spi_buffer'[k] = IF k < i' THEN ReverseBits(G(k)) ELSE G(k)
    <3>1. CASE k = i
      <4>1. spi_buffer'[k] = ReverseBits(spi_buffer[k])  BY <2>1, <2>2, <3>1
      <4>2. spi_buffer[k] = G(k) /\ k < i'  BY <1>3, <1>5, <2>1, <3>1
      <4> QED BY <4>1, <4>2
    <3>2. CASE k # i
      <4>1. spi_buffer'[k] = spi_buffer[k]  BY <2>1, <2>2, <3>2
      <4>2. k < i' <=> k < i  BY <1>5, <2>1, <3>2
      <4> QED BY <1>3, <4>1, <4>2
    <3> QED BY <3>1, <3>2
  <2>4. Reversing'
    BY <1>1, <1>2, <1>3, <2>3 DEF Reversing, ReverseBits, Rounds, Bit
  <2>5. Sending'  BY <2>1 DEF Sending
  <2> QED BY <1>7, <2>4, <2>5 DEF IInv
<1>9. CASE ~(i < ndb)
  <2>1. spi_buffer' = spi_buffer /\ i' = 0 /\ phase' = "send"
    BY <1>1, <1>9 DEF Reverse, Goto
  <2>2. ASSUME NEW k \in 0 .. ndb - 1 PROVE spi_buffer'[k] = Sendable(k)'
    <3>1. k < i  BY <1>5, <1>9
    <3>2. spi_buffer[k] = ReverseBits(G(k))  BY <1>3, <3>1
    <3> QED BY <1>2, <1>3, <2>1, <3>2 DEF Sendable, G
  <2>3. Sent' = 0 /\ Len(wire') = 0  BY <1>1, <1>3, <2>1 DEF Sent
  <2>4. Sending'
    BY <1>1, <1>5, <2>1, <2>2, <2>3 DEF Sending
  <2>5. Reversing'  BY <2>1 DEF Reversing
  <2> QED BY <1>7, <2>4, <2>5 DEF IInv
<1> QED BY <1>8, <1>9

\* A round sends the bytes from i on, and their replies come to the same places.
LEMMA SendKeeps ==
  ASSUME IInv, Send, MsgTypes'
  PROVE  IInv'
<1>1. /\ phase = "send" /\ UNCHANGED <<control, bpw, ndb, group, payload, writes>>
      /\ spi_buffer' = spi_buffer /\ last_len' = last_len
  BY DEF Send, paramVars
<1>2. Accepted' = Accepted /\ \A k : Sendable(k)' = Sendable(k)
  BY <1>1, SameMessage
<1>3. /\ \A k \in 0 .. ndb - 1 : spi_buffer[k] = Sendable(k)
      /\ i < ndb + group /\ (ndb < group => i \in {0, group})
      /\ Len(wire) = Sent
      /\ \A k \in 0 .. Sent - 1 : /\ wire[k + 1] = spi_buffer[k]
                                  /\ read_buffer[k] = spi_buffer[k]
  BY <1>1 DEF IInv, Sending
<1>4. last_len = ndb  BY <1>1 DEF IInv, Begun
<1>5. i \in Nat /\ ndb \in Nat /\ group \in Nat \ {0} /\ wire \in Seq(Byte)
  BY DEF IInv, MsgTypes
<1>6. phase' \in {"send", "idle"}  BY <1>1 DEF Send, Goto
<1>7. Begun' /\ Swapping' /\ Reversing'
  BY <1>1, <1>4, <1>6 DEF Begun, Swapping, Reversing
<1>8. CASE More
  <2> DEFINE c == [k \in 1 .. XferLen |-> spi_buffer[i + k - 1]]
  <2>1. i < ndb  BY <1>8 DEF More
  <2>2. /\ wire' = wire \o c /\ i' = i + group /\ phase' = "send"
        /\ read_buffer' =
             [k \in DOMAIN read_buffer |->
                CASE k \in i .. i + XferLen - 1 -> spi_buffer[i + k - i]
                  [] k \in i + XferLen .. i + group - 1 -> 0
                  [] OTHER -> read_buffer[k]]
    BY <1>1, <1>8 DEF Send, ReplyAt
  <2>3. /\ XferLen \in Nat /\ XferLen <= group
        /\ c \in Seq(Byte) /\ Len(c) = XferLen
    BY <1>1, <1>8, ChunkType DEF IInv
  <2>4. Sent = i  BY <1>3, <1>5, <2>1 DEF Sent
  <2>5. Sent' = i + XferLen
    BY <1>1, <1>3, <1>5, <2>1, <2>2 DEF Sent, XferLen
  <2>6. i' < ndb + group /\ (ndb < group => i' = group)
    BY <1>3, <1>5, <2>1, <2>2
  <2> HIDE DEF c
  <2>7. /\ Len(wire') = Len(wire) + Len(c)
        /\ \A k \in 1 .. Len(wire) + Len(c) :
             wire'[k] = IF k <= Len(wire) THEN wire[k] ELSE c[k - Len(wire)]
    BY <1>5, <2>2, <2>3, ConcatProperties
  <2>8. ASSUME NEW k \in 0 .. Sent' - 1
        PROVE  wire'[k + 1] = spi_buffer[k] /\ read_buffer'[k] = spi_buffer[k]
    <3>1. /\ k \in Nat /\ k < i + XferLen /\ k + 1 \in 1 .. Len(wire) + Len(c)
          /\ Len(wire) = i
      BY <1>3, <1>5, <2>3, <2>4, <2>5
    <3>2. k \in DOMAIN read_buffer
      <4>1. i + group - 1 < BufSize  BY <1>1, <2>1, Indices DEF IInv
      <4> QED BY <1>5, <2>3, <3>1, <4>1, SizesAssumption DEF IInv, MsgTypes
    <3>3. CASE k < i
      <4>1. wire'[k + 1] = wire[k + 1]  BY <1>5, <2>7, <3>1, <3>3
      <4>2. read_buffer'[k] = read_buffer[k]
        BY <1>5, <2>2, <2>3, <3>1, <3>2, <3>3
      <4> QED BY <1>3, <1>5, <2>4, <3>1, <3>3, <4>1, <4>2
    <3>4. CASE k >= i
      <4>1. wire'[k + 1] = c[k + 1 - i] /\ k + 1 - i \in 1 .. XferLen
        BY <1>5, <2>3, <2>7, <3>1, <3>4
      <4>2. c[k + 1 - i] = spi_buffer[i + (k + 1 - i) - 1]  BY <4>1 DEF c
      <4>3. i + (k + 1 - i) - 1 = k /\ i + k - i = k  BY <1>5, <3>1
      <4>4. k \in i .. i + XferLen - 1  BY <1>5, <2>3, <3>1, <3>4
      <4>5. k \notin i + XferLen .. i + group - 1  BY <1>5, <2>3, <3>1
      <4>6. read_buffer'[k] = spi_buffer[i + k - i]
        BY <2>2, <3>2, <4>4, <4>5
      <4> QED BY <4>1, <4>2, <4>3, <4>6
    <3> QED BY <1>5, <3>1, <3>3, <3>4
  <2>9. Len(wire') = Sent'  BY <1>3, <2>3, <2>4, <2>5, <2>7
  <2>10. Sending'
    <3>1. \A k \in 0 .. ndb' - 1 : spi_buffer'[k] = Sendable(k)'
      BY <1>1, <1>2, <1>3
    <3>2. \A k \in 0 .. Sent' - 1 : /\ wire'[k + 1] = spi_buffer'[k]
                                    /\ read_buffer'[k] = spi_buffer'[k]
      BY <1>1, <2>8
    <3>3. i' < ndb' + group' /\ (ndb' < group' => i' \in {0, group'})
      BY <1>1, <2>6
    <3> QED BY <2>9, <3>1, <3>2, <3>3 DEF Sending
  <2>11. Done'  BY <2>2 DEF Done, Finished
  <2> QED BY <1>7, <2>10, <2>11 DEF IInv
<1>9. CASE ~More
  <2>1. ~(i < ndb) /\ wire' = wire /\ read_buffer' = read_buffer /\ phase' = "idle"
    BY <1>1, <1>9 DEF Send, Goto, More
  <2>2. Sent >= ndb /\ (ndb >= group => Sent < ndb + group)
    BY <1>3, <1>5, <2>1 DEF Sent
  <2>3. ASSUME NEW k \in 0 .. ndb - 1
        PROVE  wire[k + 1] = Sendable(k) /\ read_buffer[k] = wire[k + 1]
    <3>1. Sent \in Nat  BY <1>5 DEF Sent
    <3>2. k \in 0 .. Sent - 1  BY <1>5, <2>2, <3>1
    <3> QED BY <1>3, <3>2
  <2>4. Done'
    <3>1. \A k \in 0 .. ndb' - 1 :
            wire'[k + 1] = Sendable(k)' /\ read_buffer'[k] = wire'[k + 1]
      BY <1>1, <1>2, <2>1, <2>3
    <3>2. last_len' = ndb' /\ Len(wire') >= ndb'
          /\ (ndb' >= group' => Len(wire') < ndb' + group')
      BY <1>1, <1>3, <1>4, <2>1, <2>2
    <3> QED BY <3>1, <3>2 DEF Done
  <2>5. Sending'  BY <2>1 DEF Sending
  <2> QED BY <1>7, <2>4, <2>5 DEF IInv
<1> QED BY <1>8, <1>9

\* The invariant holds before the first write.
LEMMA InitHolds == Init => IInv
<1> SUFFICES ASSUME Init PROVE IInv
  OBVIOUS
<1>1. MsgTypes
  <2>1. \A k \in 0 .. BufSize - HeaderLen - 1 : ~(k < Len(<<>>))
    BY SizesAssumption
  <2>2. Loaded(<<>>) \in [0 .. BufSize - HeaderLen - 1 -> Byte]
    BY <2>1, ByteNat DEF Loaded
  <2> QED BY <2>2, ByteNat DEF Init, MsgTypes
<1>2. Begun /\ Swapping /\ Reversing /\ Sending
  BY DEF Init, Begun, Swapping, Reversing, Sending
<1>3. Done  BY DEF Init, Done
<1> QED BY <1>1, <1>2, <1>3 DEF IInv

\* The invariant holds in every state.
LEMMA Invariance == Spec => []IInv
<1>1. ASSUME IInv, [Next]_vars PROVE IInv'
  <2>1. MsgTypes'  BY <1>1, TypesInductive DEF IInv
  <2>2. ASSUME NEW c \in Controls, NEW b \in Widths, NEW n \in Lengths,
               NEW g \in Groups, NEW p \in Payloads, Start(c, b, n, g, p)
        PROVE  IInv'
    BY <1>1, <2>1, <2>2, StartKeeps DEF IInv
  <2>3. CASE Swap  BY <1>1, <2>1, <2>3, SwapKeeps
  <2>4. CASE Reverse  BY <1>1, <2>1, <2>4, ReverseKeeps
  <2>5. CASE Send  BY <1>1, <2>1, <2>5, SendKeeps
  <2>6. CASE UNCHANGED vars
    <3>1. UNCHANGED <<control, bpw, ndb, group, payload, writes>>  BY <2>6 DEF vars
    <3>2. /\ Lsbf' = Lsbf /\ Accepted' = Accepted /\ Sent' = Sent
          /\ \A k : Given(k)' = Given(k) /\ Source(k)' = Source(k)
          /\ \A k : Sendable(k)' = Sendable(k)
      BY <2>6, <3>1, SameMessage DEF Sent, vars
    <3>3. Begun'  BY <1>1, <2>6 DEF IInv, Begun, vars
    <3>4. Swapping' = Swapping
      BY <2>6, <3>2 DEF Swapping, vars, Given, Pair
    <3>5. Reversing' = Reversing
      BY <2>6, <3>2 DEF Reversing, vars, Given, Source, Pair
    <3>6. Sending' = Sending
      BY <2>6, <3>2 DEF Sending, vars
    <3>7. Done' = Done
      BY <2>6, <3>2 DEF Done, Finished, vars
    <3> QED BY <1>1, <2>1, <3>3, <3>4, <3>5, <3>6, <3>7 DEF IInv
  <2> QED BY <1>1, <2>2, <2>3, <2>4, <2>5, <2>6 DEF Next
<1> QED BY <1>1, InitHolds, PTL DEF Spec

-----------------------------------------------------------------------------
(* The theorems. *)

\* What the user gave is sent, in order and completely: as it is, or, with
\* least significant bit first, each word of one or two bytes mirrored.
THEOREM WireIsComplete == Spec => []WireComplete
<1>1. IInv => WireComplete
  <2> SUFFICES ASSUME IInv, Finished, bpw = 2 * Bits => ndb % 2 = 0
               PROVE  /\ Len(wire) >= ndb /\ (ndb >= group => Len(wire) < ndb + group)
                      /\ IF Lsbf
                         THEN LET bytes == bpw \div Bits
                              IN  /\ \A k \in 1 .. ndb : wire[k] \in Byte
                                  /\ \A w \in 0 .. ndb - 1, p \in 0 .. bpw - 1 :
                                       w % bytes = 0 =>
                                         Bit(wire[w + (p \div Bits) + 1],
                                             Bits - 1 - (p % Bits))
                                           = Bit(Given(w + bytes - 1 - (p \div Bits)),
                                                 p % Bits)
                         ELSE \A k \in 0 .. ndb - 1 : wire[k + 1] = Given(k)
    BY DEF WireComplete, Lsbf
  <2>1. /\ Len(wire) >= ndb /\ (ndb >= group => Len(wire) < ndb + group)
        /\ \A k \in 0 .. ndb - 1 : wire[k + 1] = Sendable(k)
    BY DEF IInv, Done
  <2>2. /\ ndb \in Nat /\ payload \in Seq(Byte) /\ wire \in Seq(Byte)
        /\ Bits \in Nat \ {0}
    BY SizesAssumption DEF IInv, MsgTypes
  <2>3. CASE ~Lsbf
    <3>1. \A k \in 0 .. ndb - 1 : wire[k + 1] = Given(k)
      BY <2>1, <2>3 DEF Sendable
    <3> QED BY <2>1, <2>3, <3>1
  <2>4. CASE Lsbf
    <3> DEFINE bytes == bpw \div Bits
    <3>1. ASSUME NEW k \in 1 .. ndb PROVE wire[k] \in Byte
      <4>1. k \in 1 .. Len(wire)  BY <2>1, <2>2
      <4> QED BY <2>2, <4>1
    <3>2. ASSUME NEW k \in 0 .. ndb - 1, NEW r \in 0 .. Bits - 1, Source(k) \in Nat
          PROVE  Bit(wire[k + 1], Bits - 1 - r) = Bit(Given(Source(k)), r)
      <4>1. wire[k + 1] = ReverseBits(Given(Source(k)))
        BY <2>1, <2>4 DEF Sendable
      <4>2. Given(Source(k)) \in Nat  BY <2>2, <3>2, GivenByte, ByteNat
      <4> QED BY <4>1, <4>2, ReverseBitsMirrors
    <3>3. ASSUME NEW w \in 0 .. ndb - 1, NEW p \in 0 .. bpw - 1, w % bytes = 0
          PROVE  Bit(wire[w + (p \div Bits) + 1], Bits - 1 - (p % Bits))
                   = Bit(Given(w + bytes - 1 - (p \div Bits)), p % Bits)
      <4>1. CASE bpw = Bits
        <5>1. bytes = 1
          <6>1. Bits = Bits * 1 + 0 /\ 0 \in 0 .. Bits - 1  BY <2>2
          <6> QED BY <2>2, <4>1, <6>1, DivMod
        <5>2. p \div Bits = 0 /\ p % Bits = p
          <6>1. p \in Nat /\ p < Bits  BY <2>2, <4>1
          <6> QED BY <2>2, <6>1
        <5>3. Source(w) = w  BY <2>2, <4>1 DEF Source
        <5>4. Bit(wire[w + 1], Bits - 1 - p) = Bit(Given(w), p)
          BY <3>2, <4>1, <5>3
        <5>5. w + 0 + 1 = w + 1 /\ w + 1 - 1 - 0 = w  BY <2>2
        <5> HIDE DEF bytes
        <5> QED BY <5>1, <5>2, <5>4, <5>5
      <4>2. CASE bpw = 2 * Bits
        <5> DEFINE q == p \div Bits
                   r == p % Bits
        <5>1. bytes = 2
          <6>1. bpw = Bits * 2 + 0 /\ 0 \in 0 .. Bits - 1 /\ bpw \in Nat
            BY <2>2, <4>2
          <6> QED BY <2>2, <6>1, DivMod
        <5>2. q \in {0, 1} /\ r \in 0 .. Bits - 1
          <6>1. q \in Nat /\ r \in 0 .. Bits - 1 /\ p = Bits * q + r
            <7>1. p \in Nat  BY <2>2, <4>2
            <7> QED BY <2>2, <7>1, DivMod
          <6> HIDE DEF q, r
          <6>2. q < 2
            <7> SUFFICES ASSUME q >= 2 PROVE FALSE  BY <6>1
            <7>1. Bits * q >= Bits * 2  BY <2>2, <6>1
            <7> QED BY <2>2, <4>2, <6>1, <7>1
          <6> QED BY <6>1, <6>2
        <5> HIDE DEF q, r, bytes
        <5>3. w % 2 = 0 /\ w + 1 < ndb
          BY <2>2, <3>3, <4>2, <5>1
        <5>4. w + q \in 0 .. ndb - 1  BY <2>2, <5>2, <5>3
        <5>5. Source(w + q) = w + 1 - q
          <6>1. CASE q = 0  BY <4>2, <5>3, <6>1 DEF Source, Pair
          <6>2. CASE q = 1
            <7>1. (w + 1) % 2 # 0  BY <5>3
            <7> QED BY <4>2, <6>2, <7>1 DEF Source, Pair
          <6> QED BY <5>2, <6>1, <6>2
        <5>6. w + 1 - q \in Nat  BY <5>2
        <5>7. Bit(wire[w + q + 1], Bits - 1 - r) = Bit(Given(w + 1 - q), r)
          BY <3>2, <5>2, <5>4, <5>5, <5>6
        <5>8. w + 2 - 1 - q = w + 1 - q  BY <5>2
        <5> QED BY <5>1, <5>7, <5>8 DEF q, r
      <4> QED BY <2>4, <4>1, <4>2 DEF Lsbf
    <3> QED BY <2>1, <2>4, <3>1, <3>3
  <2> QED BY <2>3, <2>4
<1> QED BY <1>1, Invariance, PTL

\* A read after the write finds each reply at the index of the byte it answers.
THEOREM RepliesInPlace == Spec => []ReplyInPlace
<1>1. IInv => ReplyInPlace  BY DEF IInv, Done, ReplyInPlace
<1> QED BY <1>1, Invariance, PTL

\* No access leaves a buffer: the last index a header can name is within
\* BUFSIZE.
THEOREM AccessesInBounds == Spec => []InBounds
<1>1. IInv => InBounds
  <2> SUFFICES ASSUME IInv PROVE InBounds  OBVIOUS
  <2>1. i \in Nat /\ ndb \in Nat /\ group \in Nat \ {0}
        /\ DOMAIN spi_buffer = 0 .. BufSize - HeaderLen - 1
    BY DEF IInv, MsgTypes
  <2>2. ASSUME phase = "swap", i < ndb PROVE i + 1 \in DOMAIN spi_buffer
    <3>1. i + 1 \in 0 .. ndb  BY <2>1, <2>2
    <3> QED BY <2>1, <2>2, <3>1, Indices DEF IInv
  <2>3. ASSUME phase = "send", More
        PROVE  HeaderLen + i + group <= BufSize /\ i + group <= BufSize
    <3>1. i + group - 1 \in 0 .. BufSize - HeaderLen - 1
      BY <2>3, Indices DEF IInv, More
    <3> QED BY <2>1, <3>1, SizesAssumption
  <2> QED BY <2>2, <2>3 DEF InBounds
<1> QED BY <1>1, Invariance, PTL
=============================================================================
