----------------------------- MODULE QpackProofs -----------------------------
(***************************************************************************)
(* Proofs about module Qpack: its type invariant and its four safety       *)
(* invariants, for any streams, fields, sizes and limits.                  *)
(*                                                                         *)
(* They follow from Inv, which every action keeps, and for the limit of    *)
(* blocked streams from WaitsCounted, which holds along with it.  Callers  *)
(* are Careful, which the code leaves to them, and the table is Small.     *)
(*                                                                         *)
(* The sizes of a table and the encoding of a section are recursive        *)
(* functions; Recursion gives their values one step at a time, where an    *)
(* induction over a predicate would be needed otherwise.  What is on its   *)
(* way is described by where it leads: instructions from one table to      *)
(* another (Leads), answers from one number to another (Walk).             *)
(***************************************************************************)
EXTENDS Qpack, TLAPS, FiniteSetTheorems, FunctionTheorems

(***************************************************************************)
(* The prefix of a section.                                                *)
(***************************************************************************)

(* Division with remainder.                                                *)
LEMMA Euclid ==
  ASSUME NEW x \in Nat, NEW w \in Nat \ {0}
  PROVE  /\ x \div w \in Nat /\ x % w \in 0 .. (w - 1)
         /\ x = w * (x \div w) + (x % w)
OBVIOUS

(* A multiple of w that is further than w from 0 is at least twice it.     *)
LEMMA Multiples ==
  ASSUME NEW w \in Nat \ {0}, NEW d \in Int, w * d < 2 * w, -(2 * w) < w * d
  PROVE  d \in {-1, 0, 1}
<1>1. d >= 2 => w * d >= w * 2 OBVIOUS
<1>2. d <= -2 => w * d <= w * (-2) OBVIOUS
<1> QED BY <1>1, <1>2

(* HeaderPrefix::get recovers what HeaderPrefix::new was given, although   *)
(* only the remainder of the required insert count is sent: for every size *)
(* of table, whenever the decoder has inserted fewer than max_entries more *)
(* than the section requires, or at most max_entries less.                 *)
THEOREM PrefixRoundTrip ==
  ASSUME NEW size \in Nat, max_entries(size) > 0, NEW required \in Nat \ {0}, NEW base \in Nat,
         NEW total \in Nat, total < required + max_entries(size), required <= total + max_entries(size)
  PROVE  /\ Required(HeaderPrefix(required, base, size), total, size) = required
         /\ Base(HeaderPrefix(required, base, size), required) = base
<1> DEFINE e == max_entries(size)
           w == 2 * e
           p == HeaderPrefix(required, base, size)
           r == required % w
           t == total % w
           qr == required \div w
           qt == total \div w
<1>0. size # 0 /\ e \in Nat \ {0}
  BY DEF max_entries, ESTIMATED_OVERHEAD_BYTES
<1>1. /\ p.count = r + 1 /\ (p.negative <=> required > base)
      /\ p.delta = IF required > base THEN required - base - 1 ELSE base - required
  BY <1>0 DEF HeaderPrefix
<1>13. total < required + e /\ required <= total + e OBVIOUS
<1>2. Base(p, required) = base
  <2> HIDE DEF p
  <2>1. CASE required > base
    <3>1. p.delta = required - base - 1 /\ p.negative BY <1>1, <2>1
    <3> QED BY <3>1 DEF Base
  <2>2. CASE ~(required > base)
    <3>1. p.delta = base - required /\ ~p.negative BY <1>1, <2>2
    <3> QED BY <3>1 DEF Base
  <2> QED BY <2>1, <2>2
<1> HIDE DEF e
<1>3. w \in Nat \ {0} BY <1>0
<1>4. qr \in Nat /\ r \in 0 .. (w - 1) /\ required = w * qr + r BY <1>3, Euclid
<1>5. qt \in Nat /\ t \in 0 .. (w - 1) /\ total = w * qt + t BY <1>3, Euclid
<1>6. Required(p, total, size)
        = total + r - t + (IF t >= r + e THEN 2 * e ELSE IF t + e < r THEN -2 * e ELSE 0)
  <2>1. p.count # 0 /\ p.count - 1 = r BY <1>1, <1>3, <1>4
  <2> QED BY <1>0, <2>1 DEF Required, e
<1> HIDE DEF r, t, qr, qt, p, w
<1>7. qr - qt \in {-1, 0, 1}
  <2>1. w * (qr - qt) = w * qr - w * qt BY <1>3, <1>4, <1>5
  <2>2. required - total < w /\ total - required < w BY <1>0, <1>13 DEF w
  <2>3. w * (qr - qt) < 2 * w /\ -(2 * w) < w * (qr - qt)
    BY <1>3, <1>4, <1>5, <2>1, <2>2
  <2> QED BY <1>3, <1>4, <1>5, <2>3, Multiples
<1>8. required - total = w * (qr - qt) + r - t
  BY <1>3, <1>4, <1>5
<1>9. w = 2 * e BY DEF w
<1>10. Required(p, total, size) = required
  <2>1. CASE qr - qt = 0
    <3>1. required - total = r - t BY <1>3, <1>4, <1>5, <1>8, <2>1
    <3> QED BY <1>0, <1>4, <1>5, <1>6, <1>9, <1>13, <3>1
  <2>2. CASE qr - qt = 1
    <3>1. required - total = w + r - t BY <1>3, <1>4, <1>5, <1>8, <2>2
    <3> QED BY <1>0, <1>4, <1>5, <1>6, <1>9, <1>13, <3>1
  <2>3. CASE qr - qt = -1
    <3>1. required - total = r - t - w BY <1>3, <1>4, <1>5, <1>8, <2>3
    <3> QED BY <1>0, <1>4, <1>5, <1>6, <1>9, <1>13, <3>1
  <2> QED BY <1>7, <2>1, <2>2, <2>3
<1> QED BY <1>2, <1>10 DEF p

(***************************************************************************)
(* Numbers.                                                                *)
(***************************************************************************)

(* Induction, for a set in the place of a predicate.                       *)
LessThan == {x \in Nat \X Nat : x[1] < x[2]}

(* Induction: a set of numbers with 0 and all successors is Nat.           *)
LEMMA SetInduction ==
  ASSUME NEW T, T \subseteq Nat, 0 \in T, \A n \in T : n + 1 \in T
  PROVE  T = Nat
<1>1. IsWellFoundedOn(LessThan, Nat)
  BY NatLessThanWellFounded, Zenon DEF OpToRel, LessThan
<1> SUFFICES ASSUME Nat \ T # {} PROVE FALSE OBVIOUS
<1>2. PICK x \in Nat \ T : \A y \in Nat \ T : ~(<<y, x>> \in LessThan)
  BY <1>1, Nat \ T \subseteq Nat, WFMin
<1>3. x # 0 /\ x - 1 \in Nat BY <1>2
<1>4. <<x - 1, x>> \in LessThan BY <1>3 DEF LessThan
<1>5. x - 1 \in T BY <1>2, <1>3, <1>4
<1>6. (x - 1) + 1 = x BY <1>3
<1> QED BY <1>2, <1>5, <1>6

(* Min is the least element ...                                            *)
LEMMA MinOf ==
  ASSUME NEW S, S \subseteq Nat, S # {}
  PROVE  Min(S) \in S /\ \A y \in S : Min(S) <= y
<1>1. IsWellFoundedOn(LessThan, Nat)
  BY NatLessThanWellFounded, Zenon DEF OpToRel, LessThan
<1>2. PICK x \in S : \A y \in S : ~(<<y, x>> \in LessThan) BY <1>1, WFMin, Zenon
<1>3. \A y \in S : x <= y
  <2> TAKE y \in S
  <2> SUFFICES ASSUME ~(x <= y) PROVE FALSE OBVIOUS
  <2>1. x \in Nat /\ y \in Nat /\ y < x OBVIOUS
  <2>2. <<y, x>> \in LessThan BY <2>1 DEF LessThan
  <2> QED BY <1>2, <2>2
<1> QED BY <1>3, Zenon DEF Min

(* ... and Max the greatest.                                               *)
LEMMA MaxOf ==
  ASSUME NEW S, NEW n \in Nat, S \subseteq 0 .. n, S # {}
  PROVE  Max(S) \in S /\ \A y \in S : y <= Max(S)
<1> DEFINE T == {n - y : y \in S}
<1>1. T \subseteq Nat /\ T # {}
  <2>1. \A y \in S : n - y \in Nat OBVIOUS
  <2>2. T \subseteq Nat BY <2>1
  <2>3. PICK y : y \in S OBVIOUS
  <2>4. n - y \in T BY <2>3
  <2> HIDE DEF T
  <2> QED BY <2>2, <2>4
<1>2. PICK z \in T : \A y \in T : z <= y BY <1>1, MinOf
<1>3. PICK x \in S : z = n - x OBVIOUS
<1>4. \A y \in S : y <= x
  <2> TAKE y \in S
  <2>1. n - y \in T OBVIOUS
  <2>2. n - x <= n - y BY <1>2, <1>3, <2>1
  <2> HIDE DEF T
  <2> QED BY <2>2
<1> QED BY <1>4, Zenon DEF Max

(* What is defined step by step exists, the results of step i in S[i].     *)
Steps(F, n, S) == \A i \in 1 .. n : \A y \in S[i - 1] : F[<<i, y>>] \in S[i]
IsRun(f, n, S, x, F) ==
  /\ f = [i \in 0 .. n |-> f[i]]
  /\ \A i \in 0 .. n : f[i] \in S[i]
  /\ f[0] = x /\ \A i \in 1 .. n : f[i] = F[<<i, f[i - 1]>>]

(* A run of n steps exists, with the results of step i in S[i].            *)
LEMMA Recursion ==
  ASSUME NEW n \in Nat, NEW S, NEW x, x \in S[0], NEW F, Steps(F, n, S)
  PROVE  \E f : IsRun(f, n, S, x, F)
<1> DEFINE Part(f, k) == /\ \A i \in 0 .. n : i <= k => f[i] \in S[i]
                         /\ f = [i \in 0 .. n |-> f[i]]
                         /\ f[0] = x
                         /\ \A i \in 1 .. n : i <= k => f[i] = F[<<i, f[i - 1]>>]
           T == {k \in Nat : \E f : Part(f, k)}
<1>1. 0 \in T
  <2> DEFINE f == [i \in 0 .. n |-> x]
  <2>1. f = [i \in 0 .. n |-> f[i]] /\ f[0] = x OBVIOUS
  <2>2. (\A i \in 1 .. n : ~(i <= 0)) /\ \A i \in 0 .. n : i <= 0 => i = 0 OBVIOUS
  <2> HIDE DEF f
  <2>3. Part(f, 0) BY <2>1, <2>2, Zenon
  <2> QED BY <2>3, Zenon
<1>2. \A k \in T : k + 1 \in T
  <2> TAKE k \in T
  <2>0. k \in Nat /\ \E f : Part(f, k) BY Zenon
  <2> PICK f : Part(f, k) BY <2>0, Zenon
  <2>1. /\ \A i \in 0 .. n : i <= k => f[i] \in S[i]
        /\ f[0] = x
        /\ \A i \in 1 .. n : i <= k => f[i] = F[<<i, f[i - 1]>>]
    BY Zenon
  <2> DEFINE g == [i \in 0 .. n |-> IF i = k + 1 THEN F[<<i, f[k]>>] ELSE f[i]]
  <2>2. g = [i \in 0 .. n |-> g[i]] OBVIOUS
  <2>3. ASSUME NEW i \in 0 .. n, i # k + 1 PROVE g[i] = f[i] BY <2>3
  <2>4. ASSUME k + 1 \in 0 .. n PROVE g[k + 1] = F[<<k + 1, f[k]>>] BY <2>4
  <2> HIDE DEF g
  <2>5. ASSUME NEW i \in 0 .. n, i <= k + 1 PROVE g[i] \in S[i]
    <3>1. CASE i = k + 1
      <4>1. k \in 0 .. n /\ i \in 1 .. n /\ i - 1 = k /\ k <= k BY <2>0, <3>1
      <4>2. f[i - 1] \in S[i - 1] BY <2>1, <4>1, Zenon
      <4>3. F[<<i, f[i - 1]>>] \in S[i] BY <4>1, <4>2, Zenon DEF Steps
      <4> QED BY <2>4, <3>1, <4>1, <4>3, Zenon
    <3>2. CASE i # k + 1
      <4>1. i <= k BY <2>0, <2>5, <3>2
      <4> QED BY <2>1, <2>3, <3>2, <4>1, Zenon
    <3> QED BY <3>1, <3>2
  <2>6. g[0] = x
    <3>1. 0 \in 0 .. n /\ 0 # k + 1 BY <2>0
    <3> QED BY <2>1, <2>3, <3>1, Zenon
  <2>7. ASSUME NEW i \in 1 .. n, i <= k + 1 PROVE g[i] = F[<<i, g[i - 1]>>]
    <3>1. i \in 0 .. n /\ i - 1 \in 0 .. n /\ i - 1 # k + 1 BY <2>0, <2>7
    <3>2. g[i - 1] = f[i - 1] BY <2>3, <3>1, Zenon
    <3>3. CASE i = k + 1
      <4>1. i - 1 = k BY <2>0, <3>3
      <4>2. g[i] = F[<<i, f[k]>>] BY <2>4, <3>1, <3>3, Zenon
      <4> QED BY <3>2, <4>1, <4>2, Zenon
    <3>4. CASE i # k + 1
      <4>1. i <= k BY <2>0, <2>7, <3>4
      <4>2. g[i] = f[i] BY <2>3, <3>1, <3>4, Zenon
      <4> QED BY <2>1, <3>2, <4>1, <4>2, Zenon
    <3> QED BY <3>3, <3>4
  <2>8. Part(g, k + 1) BY <2>2, <2>5, <2>6, <2>7, Zenon
  <2>9. k + 1 \in Nat BY <2>0
  <2> QED BY <2>8, <2>9, Zenon
<1>3. T = Nat
  <2> HIDE DEF T
  <2>1. T \subseteq Nat BY DEF T
  <2> QED BY <1>1, <1>2, <2>1, SetInduction
<1>4. PICK f : Part(f, n) BY <1>3, Zenon
<1>5. (\A i \in 1 .. n : i <= n) /\ \A i \in 0 .. n : i <= n OBVIOUS
<1>6. IsRun(f, n, S, x, F) BY <1>4, <1>5, Zenon DEF IsRun
<1> QED BY <1>6, Zenon

-----------------------------------------------------------------------------
(***************************************************************************)
(* The size of a table.                                                    *)
(***************************************************************************)
Sums(s, g) ==
  /\ g \in [0 .. Len(s) -> Nat]
  /\ g[0] = 0
  /\ \A i \in 1 .. Len(s) : g[i] = g[i - 1] + mem_size[s[i]]

(* The sums of the sizes of the first entries exist ...                    *)
LEMMA SumsExist ==
  ASSUME NEW s \in Seq(Fields)
  PROVE  \E g : Sums(s, g)
<1> DEFINE n == Len(s)
           F == [p \in (1 .. n) \X Nat |-> p[2] + mem_size[s[p[1]]]]
<1>1. n \in Nat /\ \A i \in 1 .. n : mem_size[s[i]] \in Nat BY FieldsAssumption
<1>2. F \in [(1 .. n) \X Nat -> Nat]
  <2> SUFFICES ASSUME NEW p \in (1 .. n) \X Nat PROVE p[2] + mem_size[s[p[1]]] \in Nat OBVIOUS
  <2>1. p[1] \in 1 .. n /\ p[2] \in Nat OBVIOUS
  <2> QED BY <1>1, <2>1
<1>3. \A i \in 1 .. n, x \in Nat : F[<<i, x>>] = x + mem_size[s[i]] OBVIOUS
<1> HIDE DEF n, F
<1>4. PICK g : g \in [0 .. n -> Nat] /\ g[0] = 0 /\ \A i \in 1 .. n : g[i] = F[<<i, g[i - 1]>>]
  <2> DEFINE S == [i \in 0 .. n |-> Nat]
  <2>0. \A i \in 0 .. n : S[i] = Nat OBVIOUS
  <2> HIDE DEF S
  <2>1. 0 \in S[0] /\ n \in Nat BY <1>1, <2>0
  <2>2. Steps(F, n, S)
    <3>1. \A i \in 1 .. n : i \in 0 .. n /\ i - 1 \in 0 .. n BY <1>1
    <3>2. \A i \in 1 .. n : \A y \in Nat : F[<<i, y>>] \in Nat BY <1>2
    <3> QED BY <2>0, <3>1, <3>2, Zenon DEF Steps
  <2>3. PICK g : IsRun(g, n, S, 0, F) BY <2>1, <2>2, Recursion, Zenon
  <2>4. /\ g = [i \in 0 .. n |-> g[i]] /\ g[0] = 0 /\ \A i \in 1 .. n : g[i] = F[<<i, g[i - 1]>>]
        /\ \A i \in 0 .. n : g[i] \in S[i]
    BY <2>3, Zenon DEF IsRun
  <2>5. \A i \in 0 .. n : g[i] \in Nat BY <2>0, <2>4, Zenon
  <2>6. g \in [0 .. n -> Nat] BY <2>4, <2>5, Zenon
  <2> QED BY <2>4, <2>6
<1>5. \A i \in 1 .. n : g[i] = g[i - 1] + mem_size[s[i]]
  <2> TAKE i \in 1 .. n
  <2>1. g[i - 1] \in Nat
    <3>1. i - 1 \in 0 .. n BY <1>1
    <3> QED BY <1>4, <3>1
  <2> QED BY <1>3, <1>4, <2>1, Zenon
<1> QED BY <1>4, <1>5 DEF Sums, n

(* ... and the last is SizeOf.                                             *)
LEMMA SumsSize ==
  ASSUME NEW s \in Seq(Fields), NEW f, Sums(s, f)
  PROVE  SizeOf(s) = f[Len(s)]
<1> DEFINE n == Len(s)
           Solves(g) == g = [i \in 0 .. n |-> IF i = 0 THEN 0 ELSE g[i - 1] + mem_size[s[i]]]
           g == CHOOSE x : Solves(x)
           T == {k \in Nat : k \in 0 .. n => g[k] = f[k]}
<1>1. n \in Nat OBVIOUS
<1>2. /\ f \in [0 .. n -> Nat] /\ f[0] = 0
      /\ \A i \in 1 .. n : f[i] = f[i - 1] + mem_size[s[i]]
  BY DEF Sums
<1>3. SizeOf(s) = g[n] BY Zenon DEF SizeOf
<1> HIDE DEF n
<1>4. Solves(f)
  <2>1. \A i \in 0 .. n : i # 0 => i \in 1 .. n BY <1>1
  <2>2. \A i \in 0 .. n : f[i] = IF i = 0 THEN 0 ELSE f[i - 1] + mem_size[s[i]] BY <1>2, <2>1, Zenon
  <2>3. f = [i \in 0 .. n |-> f[i]] BY <1>2
  <2>4. f = [i \in 0 .. n |-> IF i = 0 THEN 0 ELSE f[i - 1] + mem_size[s[i]]] BY <2>2, <2>3
  <2> QED BY <2>4
<1>5. Solves(g)
  <2> HIDE DEF Solves
  <2> QED BY <1>4
<1> HIDE DEF g
<1>6. \A i \in 0 .. n : g[i] = IF i = 0 THEN 0 ELSE g[i - 1] + mem_size[s[i]] BY <1>5
<1> HIDE DEF Solves
<1>7. 0 \in T
  <2>1. 0 \in 0 .. n BY <1>1
  <2> QED BY <1>2, <1>6, <2>1
<1>8. \A k \in T : k + 1 \in T
  <2> TAKE k \in T
  <2>1. k \in Nat /\ (k \in 0 .. n => g[k] = f[k]) OBVIOUS
  <2> SUFFICES ASSUME k + 1 \in 0 .. n PROVE g[k + 1] = f[k + 1] BY <2>1
  <2>2. k \in 0 .. n /\ k + 1 \in 1 .. n /\ (k + 1) - 1 = k /\ k + 1 # 0 BY <1>1, <2>1
  <2>3. g[k + 1] = g[k] + mem_size[s[k + 1]] BY <1>6, <2>2, Zenon
  <2>4. f[k + 1] = f[k] + mem_size[s[k + 1]] BY <1>2, <2>2, Zenon
  <2> QED BY <2>1, <2>2, <2>3, <2>4, Zenon
<1>9. T = Nat
  <2> HIDE DEF T
  <2>1. T \subseteq Nat BY DEF T
  <2> QED BY <1>7, <1>8, <2>1, SetInduction
<1>10. n \in 0 .. n /\ n \in Nat BY <1>1
<1>11. g[n] = f[n] BY <1>9, <1>10
<1> QED BY <1>3, <1>11, Zenon DEF n

(* Nothing has size 0.                                                     *)
LEMMA SizeEmpty == SizeOf(<<>>) = 0
<1>1. <<>> \in Seq(Fields) /\ Len(<<>>) = 0 OBVIOUS
<1>2. PICK g : Sums(<<>>, g) BY <1>1, SumsExist
<1>3. g[0] = 0 BY <1>2 DEF Sums
<1> QED BY <1>1, <1>2, <1>3, SumsSize, Zenon

(* A size is a number.                                                     *)
LEMMA SizeNat == ASSUME NEW s \in Seq(Fields) PROVE SizeOf(s) \in Nat
<1>1. PICK g : Sums(s, g) BY SumsExist
<1>2. Len(s) \in 0 .. Len(s) OBVIOUS
<1> QED BY <1>1, <1>2, SumsSize DEF Sums

(* An entry adds its size.                                                 *)
LEMMA SizeAppend ==
  ASSUME NEW s \in Seq(Fields), NEW f \in Fields
  PROVE  SizeOf(Append(s, f)) = SizeOf(s) + mem_size[f]
<1> DEFINE n == Len(s)
           u == Append(s, f)
<1>1. n \in Nat /\ u \in Seq(Fields) /\ Len(u) = n + 1 /\ u[n + 1] = f
      /\ \A i \in 1 .. n : u[i] = s[i]
  OBVIOUS
<1>2. PICK g : Sums(s, g) BY SumsExist
<1>3. /\ g \in [0 .. n -> Nat] /\ g[0] = 0 /\ SizeOf(s) = g[n]
      /\ \A i \in 1 .. n : g[i] = g[i - 1] + mem_size[s[i]]
  BY <1>2, SumsSize DEF Sums
<1>4. mem_size[f] \in Nat BY FieldsAssumption
<1> HIDE DEF n, u
<1> DEFINE h == [i \in 0 .. (n + 1) |-> IF i = n + 1 THEN g[n] + mem_size[f] ELSE g[i]]
<1>5. h \in [0 .. (n + 1) -> Nat] /\ h[0] = 0 /\ h[n + 1] = g[n] + mem_size[f]
  BY <1>1, <1>3, <1>4
<1>6. \A i \in 1 .. (n + 1) : h[i] = h[i - 1] + mem_size[u[i]]
  <2> TAKE i \in 1 .. (n + 1)
  <2>1. i \in 0 .. (n + 1) /\ i - 1 \in 0 .. (n + 1) /\ i - 1 # n + 1 BY <1>1
  <2>2. h[i - 1] = g[i - 1] BY <2>1
  <2>3. CASE i = n + 1
    <3>1. h[i] = g[n] + mem_size[f] /\ i - 1 = n BY <1>1, <1>5, <2>3
    <3> QED BY <1>1, <2>2, <2>3, <3>1, Zenon
  <2>4. CASE i # n + 1
    <3>1. i \in 1 .. n BY <1>1, <2>4
    <3>2. h[i] = g[i] BY <2>1, <2>4
    <3> QED BY <1>1, <1>3, <2>2, <3>1, <3>2, Zenon
  <2> QED BY <2>3, <2>4
<1> HIDE DEF h
<1>7. Sums(u, h) BY <1>1, <1>5, <1>6 DEF Sums
<1>8. SizeOf(u) = h[n + 1] BY <1>1, <1>7, SumsSize, Zenon
<1> QED BY <1>3, <1>5, <1>8 DEF u

(* Taking away the first n entries.                                        *)
LEMMA SizeSplit ==
  ASSUME NEW s \in Seq(Fields), NEW n \in 0 .. Len(s)
  PROVE  /\ SizeOf(s) = SizeOf(SubSeq(s, 1, n)) + SizeOf(SubSeq(s, n + 1, Len(s)))
         /\ SizeOf(SubSeq(s, 1, n)) \in Nat /\ SizeOf(SubSeq(s, n + 1, Len(s))) \in Nat
<1> DEFINE l == Len(s)
           a == SubSeq(s, 1, n)
           b == SubSeq(s, n + 1, l)
<1>1. PICK g : Sums(s, g) BY SumsExist
<1>2. /\ g \in [0 .. l -> Nat] /\ g[0] = 0 /\ SizeOf(s) = g[l]
      /\ \A i \in 1 .. l : g[i] = g[i - 1] + mem_size[s[i]]
  BY <1>1, SumsSize DEF Sums
<1>3. /\ l \in Nat /\ n \in Nat /\ n <= l /\ \A i \in 1 .. l : mem_size[s[i]] \in Nat
  BY FieldsAssumption
<1>4. a \in Seq(Fields) /\ Len(a) = n /\ \A i \in 1 .. n : a[i] = s[i] BY <1>3
<1>5. b \in Seq(Fields) /\ Len(b) = l - n /\ \A i \in 1 .. (l - n) : b[i] = s[n + i] BY <1>3
<1> HIDE DEF l, a, b
<1>6. SizeOf(a) = g[n]
  <2> DEFINE h == [i \in 0 .. n |-> g[i]]
  <2>1. h \in [0 .. n -> Nat] /\ h[0] = 0 /\ h[n] = g[n] BY <1>2, <1>3
  <2>2. \A i \in 1 .. n : h[i] = h[i - 1] + mem_size[a[i]]
    <3> TAKE i \in 1 .. n
    <3>1. i \in 0 .. n /\ i - 1 \in 0 .. n /\ i \in 1 .. l BY <1>3
    <3>2. h[i] = g[i] /\ h[i - 1] = g[i - 1] BY <3>1
    <3> QED BY <1>2, <1>4, <3>1, <3>2, Zenon
  <2> HIDE DEF h
  <2>3. Sums(a, h) BY <1>4, <2>1, <2>2 DEF Sums
  <2> QED BY <1>4, <2>1, <2>3, SumsSize, Zenon
<1>7. \A i \in 0 .. (l - n) : g[n + i] \in Nat /\ g[n + i] >= g[n]
  <2> DEFINE T == {k \in Nat : k \in 0 .. (l - n) => g[n + k] >= g[n]}
  <2>1. \A i \in 0 .. (l - n) : g[n + i] \in Nat
    <3> TAKE i \in 0 .. (l - n)
    <3>1. n + i \in 0 .. l BY <1>3
    <3> QED BY <1>2, <3>1
  <2>2. g[n] \in Nat BY <1>2, <1>3
  <2>3. 0 \in T BY <1>3, <2>2
  <2>4. \A k \in T : k + 1 \in T
    <3> TAKE k \in T
    <3>1. k \in Nat /\ (k \in 0 .. (l - n) => g[n + k] >= g[n]) OBVIOUS
    <3> SUFFICES ASSUME k + 1 \in 0 .. (l - n) PROVE g[n + (k + 1)] >= g[n] BY <3>1
    <3>2. k \in 0 .. (l - n) /\ n + (k + 1) \in 1 .. l /\ (n + (k + 1)) - 1 = n + k BY <1>3, <3>1
    <3>3. g[n + (k + 1)] = g[n + k] + mem_size[s[n + (k + 1)]] BY <1>2, <3>2, Zenon
    <3>4. mem_size[s[n + (k + 1)]] \in Nat /\ g[n + k] \in Nat BY <1>3, <2>1, <3>2, Zenon
    <3> QED BY <2>2, <3>1, <3>2, <3>3, <3>4
  <2>5. T = Nat
    <3> HIDE DEF T
    <3>1. T \subseteq Nat BY DEF T
    <3> QED BY <2>3, <2>4, <3>1, SetInduction
  <2> QED BY <2>1, <2>5
<1>8. SizeOf(b) = g[l] - g[n]
  <2> DEFINE h == [i \in 0 .. (l - n) |-> g[n + i] - g[n]]
  <2>0. g[n] \in Nat BY <1>2, <1>3
  <2>1. h \in [0 .. (l - n) -> Nat]
    <3> SUFFICES ASSUME NEW i \in 0 .. (l - n) PROVE g[n + i] - g[n] \in Nat OBVIOUS
    <3> QED BY <1>7, <2>0
  <2>2. h[0] = 0 /\ h[l - n] = g[l] - g[n] BY <1>3, <2>0
  <2>3. \A i \in 1 .. (l - n) : h[i] = h[i - 1] + mem_size[b[i]]
    <3> TAKE i \in 1 .. (l - n)
    <3>1. i \in 0 .. (l - n) /\ i - 1 \in 0 .. (l - n) /\ n + i \in 1 .. l
          /\ (n + i) - 1 = n + (i - 1)
      BY <1>3
    <3>2. h[i] = g[n + i] - g[n] /\ h[i - 1] = g[n + (i - 1)] - g[n] BY <3>1
    <3>3. g[n + i] = g[n + (i - 1)] + mem_size[s[n + i]] BY <1>2, <3>1, Zenon
    <3>4. b[i] = s[n + i] /\ mem_size[s[n + i]] \in Nat BY <1>3, <1>5, <3>1, Zenon
    <3>5. g[n + (i - 1)] \in Nat BY <1>7, <3>1
    <3> HIDE DEF h
    <3>6. h[i] = h[i - 1] + mem_size[s[n + i]] BY <2>0, <3>2, <3>3, <3>4, <3>5
    <3> QED BY <3>4, <3>6, Zenon
  <2> HIDE DEF h
  <2>4. l - n \in Nat BY <1>3
  <2>5. Sums(b, h) BY <1>5, <2>1, <2>2, <2>3 DEF Sums
  <2> QED BY <1>5, <2>2, <2>5, SumsSize, Zenon
<1>9. g[n] \in Nat /\ g[l] \in Nat /\ g[l] >= g[n]
  <2>1. l - n \in 0 .. (l - n) /\ n + (l - n) = l BY <1>3
  <2>2. g[l] \in Nat /\ g[l] >= g[n] BY <1>7, <2>1
  <2> QED BY <1>2, <1>3, <2>2
<1> QED BY <1>2, <1>6, <1>8, <1>9 DEF a, b, l

-----------------------------------------------------------------------------
(***************************************************************************)
(* The table.                                                              *)
(***************************************************************************)
Tables ==
  {t \in [fields : Seq(Fields), dropped : Nat, curr_size : Nat, max_size : Sizes] :
     t.curr_size = SizeOf(t.fields) /\ t.curr_size <= t.max_size}

(* What is known of the parts of a table.                                  *)
LEMMA TableFacts ==
  ASSUME NEW t \in Tables
  PROVE  /\ t \in [fields : Seq(Fields), dropped : Nat, curr_size : Nat, max_size : Sizes]
         /\ t.fields \in Seq(Fields) /\ Len(t.fields) \in Nat
         /\ t.dropped \in Nat /\ t.curr_size \in Nat
         /\ t.max_size \in Sizes /\ t.max_size \in Nat
         /\ t.curr_size = SizeOf(t.fields) /\ t.curr_size <= t.max_size
         /\ total_inserted(t) \in Nat
<1>1. /\ t \in [fields : Seq(Fields), dropped : Nat, curr_size : Nat, max_size : Sizes]
      /\ t.curr_size = SizeOf(t.fields) /\ t.curr_size <= t.max_size
  BY DEF Tables
<1>2. t.fields \in Seq(Fields) /\ t.dropped \in Nat /\ t.curr_size \in Nat /\ t.max_size \in Sizes
  BY <1>1
<1>0. Sizes \subseteq Nat BY BoundsAssumption, Zenon
<1>3. Len(t.fields) \in Nat /\ t.max_size \in Nat
  <2>1. \A s \in Seq(Fields) : Len(s) \in Nat OBVIOUS
  <2> QED BY <1>0, <1>2, <2>1, Zenon
<1>4. t.dropped + Len(t.fields) \in Nat BY <1>2, <1>3
<1>5. total_inserted(t) \in Nat BY <1>4, Zenon DEF total_inserted
<1> QED BY <1>1, <1>2, <1>3, <1>5

(* Finitely many numbers have a bound.                                     *)
LEMMA FiniteIsBounded ==
  ASSUME NEW S, S \subseteq Nat, IsFiniteSet(S)
  PROVE  \E n \in Nat : S \subseteq 0 .. n
<1> DEFINE Finite(m) == {X \in SUBSET Nat : IsFiniteSet(X) /\ Cardinality(X) = m}
           T == {m \in Nat : \A X \in Finite(m) : \E n \in Nat : X \subseteq 0 .. n}
<1>1. T \subseteq Nat OBVIOUS
<1>2. 0 \in T
  <2> SUFFICES ASSUME NEW X \in Finite(0) PROVE \E n \in Nat : X \subseteq 0 .. n OBVIOUS
  <2>1. X = {} BY FS_EmptySet
  <2> QED BY <2>1
<1>3. ASSUME NEW m \in T PROVE m + 1 \in T
  <2> SUFFICES ASSUME NEW X \in Finite(m + 1) PROVE \E n \in Nat : X \subseteq 0 .. n OBVIOUS
  <2>1. X \subseteq Nat /\ IsFiniteSet(X) /\ Cardinality(X) = m + 1 /\ m \in Nat OBVIOUS
  <2>2. X # {} BY <2>1, FS_EmptySet
  <2>3. PICK x \in X : x \in Nat BY <2>1, <2>2
  <2>4. IsFiniteSet(X \ {x}) /\ Cardinality(X \ {x}) = m
    <3>1. IsFiniteSet(X \ {x}) /\ Cardinality(X \ {x}) = (m + 1) - 1
      BY <2>1, <2>3, FS_RemoveElement, Zenon
    <3>2. (m + 1) - 1 = m BY <2>1
    <3> QED BY <3>1, <3>2
  <2>5. X \ {x} \in Finite(m) BY <2>1, <2>4
  <2>6. PICK n \in Nat : X \ {x} \subseteq 0 .. n BY <2>5
  <2>7. n + x \in Nat /\ X \subseteq 0 .. (n + x) BY <2>1, <2>3, <2>6
  <2> QED BY <2>7
<1>4. Cardinality(S) \in Nat BY FS_CardinalityType
<1> HIDE DEF T
<1>5. T = Nat BY <1>1, <1>2, <1>3, SetInduction
<1>6. Cardinality(S) \in T BY <1>4, <1>5
<1> QED BY <1>6 DEF T

(* A table is empty at first.                                              *)
LEMMA NewTableIsTable == NewTable \in Tables
<1>1. Max(Sizes) \in Sizes /\ Max(Sizes) \in Nat
  <2>1. PICK n \in Nat : Sizes \subseteq 0 .. n BY BoundsAssumption, FiniteIsBounded
  <2> QED BY <2>1, MaxOf, BoundsAssumption
<1>2. <<>> \in Seq(Fields) OBVIOUS
<1> QED BY <1>1, <1>2, SizeEmpty DEF NewTable, Tables

(* evict takes entries away and their size with them.                      *)
LEMMA Evicted ==
  ASSUME NEW t \in Tables, NEW n \in 0 .. Len(t.fields)
  PROVE  /\ evict(t, n) \in Tables
         /\ evict(t, n).fields = SubSeq(t.fields, n + 1, Len(t.fields))
         /\ evict(t, n).dropped = t.dropped + n
         /\ evict(t, n).max_size = t.max_size
         /\ evict(t, n).curr_size = t.curr_size - SizeOf(SubSeq(t.fields, 1, n))
         /\ evict(t, n).curr_size <= t.curr_size
<1> DEFINE l == Len(t.fields)
           front == SizeOf(SubSeq(t.fields, 1, n))
           rest == SubSeq(t.fields, n + 1, l)
<1>1. /\ SizeOf(t.fields) = front + SizeOf(rest)
      /\ front \in Nat /\ SizeOf(rest) \in Nat
  BY TableFacts, SizeSplit
<1>2. rest \in Seq(Fields) /\ n \in Nat BY TableFacts
<1>3. n = 0 => rest = t.fields BY TableFacts
<1>4. n = 0 => front = 0
  <2>1. n = 0 => SubSeq(t.fields, 1, n) = <<>> BY TableFacts
  <2> QED BY <2>1, SizeEmpty, Zenon
<1> HIDE DEF front, rest, l
<1>5. evict(t, n) = [t EXCEPT !.fields = rest, !.dropped = @ + n, !.curr_size = @ - front]
  <2>1. CASE n = 0
    <3>1. evict(t, n) = t BY <2>1 DEF evict
    <3>2. t.dropped + n = t.dropped /\ t.curr_size - front = t.curr_size
      BY <1>4, <2>1, TableFacts
    <3>3. t = [t EXCEPT !.fields = rest, !.dropped = @ + n, !.curr_size = @ - front]
      BY <1>3, <2>1, <3>2, TableFacts
    <3> QED BY <3>1, <3>3
  <2>2. CASE n # 0 BY <2>2 DEF evict, rest, front, l
  <2> QED BY <2>1, <2>2
<1>6. t.curr_size - front = SizeOf(rest) /\ t.curr_size - front \in Nat
      /\ t.curr_size - front <= t.curr_size
  BY <1>1, TableFacts
<1>7. t.dropped + n \in Nat BY <1>2, TableFacts
<1>8. /\ evict(t, n).fields = rest /\ evict(t, n).dropped = t.dropped + n
      /\ evict(t, n).max_size = t.max_size /\ evict(t, n).curr_size = t.curr_size - front
      /\ evict(t, n) \in [fields : Seq(Fields), dropped : Nat, curr_size : Nat, max_size : Sizes]
  BY <1>2, <1>5, <1>6, <1>7, TableFacts
<1>9. evict(t, n) \in Tables
  <2>1. evict(t, n).curr_size <= evict(t, n).max_size BY <1>6, <1>8, TableFacts
  <2> QED BY <1>6, <1>8, <2>1 DEF Tables
<1> QED BY <1>6, <1>8, <1>9 DEF rest, front, l

(* evict keeps the indices of what it leaves.                              *)
LEMMA EvictedTotal ==
  ASSUME NEW t \in Tables, NEW n \in 0 .. Len(t.fields)
  PROVE  /\ total_inserted(evict(t, n)) = total_inserted(t)
         /\ \A r \in Nat : Live(evict(t, n), r) =>
              Live(t, r) /\ Entry(evict(t, n), r) = Entry(t, r)
<1>1. /\ evict(t, n).fields = SubSeq(t.fields, n + 1, Len(t.fields))
      /\ evict(t, n).dropped = t.dropped + n
  BY Evicted
<1>2. Len(evict(t, n).fields) = Len(t.fields) - n BY <1>1, TableFacts
<1>3. total_inserted(evict(t, n)) = total_inserted(t) BY <1>1, <1>2, TableFacts DEF total_inserted
<1>4. ASSUME NEW r \in Nat, Live(evict(t, n), r)
      PROVE  Live(t, r) /\ Entry(evict(t, n), r) = Entry(t, r)
  <2>1. t.dropped + n < r /\ r <= t.dropped + Len(t.fields)
    BY <1>1, <1>3, <1>4, Zenon DEF Live, total_inserted
  <2>2. Live(t, r) BY <2>1, TableFacts DEF Live, total_inserted
  <2>3. r - (t.dropped + n) \in 1 .. (Len(t.fields) - n)
        /\ (n + (r - (t.dropped + n))) = r - t.dropped
    BY <2>1, TableFacts
  <2>4. \A k \in 1 .. (Len(t.fields) - n) :
          SubSeq(t.fields, n + 1, Len(t.fields))[k] = t.fields[n + k]
    BY TableFacts
  <2>5. SubSeq(t.fields, n + 1, Len(t.fields))[r - (t.dropped + n)] = t.fields[r - t.dropped]
    BY <2>3, <2>4, Zenon
  <2> QED BY <1>1, <2>2, <2>5, Zenon DEF Entry
<1> QED BY <1>3, <1>4

(* What has to go fits, and makes room.                                    *)
LEMMA ToEvictFits ==
  ASSUME NEW t \in Tables, NEW required \in Nat, required <= t.max_size
  PROVE  /\ ToEvict(t, required) \in 0 .. Len(t.fields)
         /\ evict(t, ToEvict(t, required)).curr_size <= t.max_size - required
<1> DEFINE N == {n \in 0 .. Len(t.fields) :
                   t.curr_size - SizeOf(SubSeq(t.fields, 1, n)) <= t.max_size - required}
           l == Len(t.fields)
<1>1. CASE t.max_size - t.curr_size >= required
  <2>1. ToEvict(t, required) = 0 BY <1>1 DEF ToEvict
  <2>2. evict(t, 0) = t BY DEF evict
  <2> QED BY <1>1, <2>1, <2>2, TableFacts
<1>2. CASE ~(t.max_size - t.curr_size >= required)
  <2>1. ToEvict(t, required) = Min(N) BY <1>2, Zenon DEF ToEvict
  <2>2. l \in N
    <3>1. l \in 0 .. l BY TableFacts
    <3>2. SubSeq(t.fields, l + 1, l) = <<>> BY TableFacts
    <3>3. SizeOf(t.fields) = SizeOf(SubSeq(t.fields, 1, l)) + SizeOf(SubSeq(t.fields, l + 1, l))
          /\ SizeOf(SubSeq(t.fields, 1, l)) \in Nat
      BY <3>1, TableFacts, SizeSplit, Zenon
    <3>4. SizeOf(SubSeq(t.fields, l + 1, l)) = 0 BY <3>2, SizeEmpty, Zenon
    <3>5. t.curr_size - SizeOf(SubSeq(t.fields, 1, l)) <= t.max_size - required
      BY <3>3, <3>4, TableFacts
    <3> QED BY <3>1, <3>5
  <2>3. N \subseteq Nat OBVIOUS
  <2> HIDE DEF N
  <2>4. Min(N) \in N BY <2>2, <2>3, MinOf
  <2> USE DEF N
  <2>5. ToEvict(t, required) \in 0 .. Len(t.fields)
        /\ t.curr_size - SizeOf(SubSeq(t.fields, 1, ToEvict(t, required))) <= t.max_size - required
    BY <2>1, <2>4
  <2> HIDE DEF N
  <2>6. evict(t, ToEvict(t, required)).curr_size
          = t.curr_size - SizeOf(SubSeq(t.fields, 1, ToEvict(t, required)))
    BY <2>5, Evicted
  <2> QED BY <2>5, <2>6, Zenon
<1> QED BY <1>1, <1>2

(* Entries are inserted into a table that has room for them.               *)
LEMMA Inserting ==
  ASSUME NEW t \in Tables, NEW f \in Fields, mem_size[f] <= t.max_size
  PROVE  /\ MakeRoom(t, f) \in Tables
         /\ total_inserted(MakeRoom(t, f)) = total_inserted(t)
         /\ MakeRoom(t, f).max_size = t.max_size
         /\ \A r \in Nat : Live(MakeRoom(t, f), r) =>
              Live(t, r) /\ Entry(MakeRoom(t, f), r) = Entry(t, r)
         /\ insert(t, f) \in Tables
         /\ insert(t, f).max_size = t.max_size
         /\ insert(t, f).dropped = MakeRoom(t, f).dropped
         /\ insert(t, f).fields = Append(MakeRoom(t, f).fields, f)
         /\ total_inserted(insert(t, f)) = total_inserted(t) + 1
<1> DEFINE n == ToEvict(t, mem_size[f])
           m == MakeRoom(t, f)
<1>1. mem_size[f] \in Nat BY FieldsAssumption
<1>2. n \in 0 .. Len(t.fields) /\ m = evict(t, n)
      /\ m.curr_size <= t.max_size - mem_size[f]
  BY <1>1, ToEvictFits, Zenon DEF MakeRoom
<1> HIDE DEF n
<1>3. /\ m \in Tables /\ total_inserted(m) = total_inserted(t) /\ m.max_size = t.max_size
      /\ \A r \in Nat : Live(m, r) => Live(t, r) /\ Entry(m, r) = Entry(t, r)
  <2> HIDE DEF m
  <2> QED BY <1>2, Evicted, EvictedTotal
<1>4. insert(t, f) = [m EXCEPT !.fields = Append(@, f), !.curr_size = @ + mem_size[f]]
  BY DEF insert
<1> HIDE DEF m
<1>5. /\ m \in [fields : Seq(Fields), dropped : Nat, curr_size : Nat, max_size : Sizes]
      /\ m.fields \in Seq(Fields) /\ Len(m.fields) \in Nat /\ m.dropped \in Nat
      /\ m.curr_size \in Nat /\ m.curr_size = SizeOf(m.fields)
      /\ m.max_size \in Nat /\ t.max_size \in Nat /\ total_inserted(t) \in Nat
  BY <1>3, TableFacts
<1>6. /\ insert(t, f).fields = Append(m.fields, f) /\ insert(t, f).dropped = m.dropped
      /\ insert(t, f).max_size = m.max_size
      /\ insert(t, f).curr_size = m.curr_size + mem_size[f]
      /\ insert(t, f) \in [fields : Seq(Fields), dropped : Nat, curr_size : Nat, max_size : Sizes]
  <2>1. Append(m.fields, f) \in Seq(Fields) /\ m.curr_size + mem_size[f] \in Nat BY <1>1, <1>5
  <2> QED BY <1>4, <1>5, <2>1
<1>7. SizeOf(Append(m.fields, f)) = m.curr_size + mem_size[f] BY <1>5, SizeAppend
<1>8. m.curr_size + mem_size[f] <= m.max_size BY <1>1, <1>2, <1>3, <1>5
<1>9. insert(t, f) \in Tables BY <1>6, <1>7, <1>8 DEF Tables
<1>10. Len(Append(m.fields, f)) = Len(m.fields) + 1 BY <1>5
<1>11. total_inserted(insert(t, f)) = total_inserted(m) + 1
  <2>1. total_inserted(insert(t, f)) = m.dropped + Len(Append(m.fields, f))
    BY <1>6, Zenon DEF total_inserted
  <2>2. total_inserted(m) = m.dropped + Len(m.fields) BY Zenon DEF total_inserted
  <2>3. m.dropped + (Len(m.fields) + 1) = (m.dropped + Len(m.fields)) + 1 BY <1>5
  <2> QED BY <1>10, <2>1, <2>2, <2>3, Zenon
<1> QED BY <1>3, <1>6, <1>9, <1>11 DEF m

(* set_max_size when nothing is tracked: the decoder does the same.        *)
LEMMA Resized ==
  ASSUME NEW t \in Tables, NEW size \in Sizes, NEW tracked,
         \A r \in Nat : ~BagIn(r, tracked)
  PROVE  /\ set_max_size(t, tracked, size) \in Tables
         /\ set_max_size(t, tracked, size).max_size = size
         /\ total_inserted(set_max_size(t, tracked, size)) = total_inserted(t)
         /\ set_max_size(t, tracked, size) = set_max_size(t, EmptyBag, size)
<1> DEFINE required == t.max_size - size
           n == ToEvict(t, required)
           left == IF size < t.max_size THEN evict(t, n) ELSE t
<1>1. size \in Nat /\ t.max_size \in Nat BY TableFacts, BoundsAssumption
<1>2. size < t.max_size => required \in Nat /\ required <= t.max_size BY <1>1
<1>3. size < t.max_size => n \in 0 .. Len(t.fields) /\ evict(t, n).curr_size <= size
  <2> SUFFICES ASSUME size < t.max_size
               PROVE  n \in 0 .. Len(t.fields) /\ evict(t, n).curr_size <= size
    OBVIOUS
  <2> HIDE DEF required
  <2>1. n \in 0 .. Len(t.fields) /\ evict(t, n).curr_size <= t.max_size - required
    BY <1>2, ToEvictFits, Zenon
  <2>2. t.max_size - required = size BY <1>1 DEF required
  <2> QED BY <2>1, <2>2
<1>4. \A i \in 1 .. n : size < t.max_size => t.dropped + i \in Nat
  BY <1>3, TableFacts
<1>5. ASSUME NEW b, \A r \in Nat : ~BagIn(r, b)
      PROVE  set_max_size(t, b, size) = [left EXCEPT !.max_size = size]
  <2>1. size < t.max_size => can_free(t, b, required)
    BY <1>2, <1>4, <1>5, Zenon DEF can_free
  <2> QED BY <2>1, Zenon DEF set_max_size
<1>6. \A r \in Nat : ~BagIn(r, EmptyBag) BY DEF BagIn, BagToSet, EmptyBag, SetToBag
<1>7. set_max_size(t, tracked, size) = [left EXCEPT !.max_size = size]
      /\ set_max_size(t, EmptyBag, size) = [left EXCEPT !.max_size = size]
  BY <1>5, <1>6
<1> HIDE DEF n, required
<1>8. left \in Tables /\ total_inserted(left) = total_inserted(t) /\ left.curr_size <= size
  <2>1. CASE size < t.max_size
    <3>1. left = evict(t, n) BY <2>1
    <3> QED BY <1>3, <2>1, <3>1, Evicted, EvictedTotal
  <2>2. CASE ~(size < t.max_size)
    <3>1. left = t BY <2>2
    <3> QED BY <1>1, <2>2, <3>1, TableFacts
  <2> QED BY <2>1, <2>2
<1> HIDE DEF left
<1> DEFINE u == [left EXCEPT !.max_size = size]
<1>9. /\ left \in [fields : Seq(Fields), dropped : Nat, curr_size : Nat, max_size : Sizes]
      /\ left.curr_size = SizeOf(left.fields)
  BY <1>8, TableFacts
<1>10. /\ u \in [fields : Seq(Fields), dropped : Nat, curr_size : Nat, max_size : Sizes]
       /\ u.fields = left.fields /\ u.dropped = left.dropped
       /\ u.curr_size = left.curr_size /\ u.max_size = size
  BY <1>9
<1> HIDE DEF u
<1>11. u \in Tables BY <1>8, <1>9, <1>10 DEF Tables
<1>12. total_inserted(u) = total_inserted(t) BY <1>8, <1>10 DEF total_inserted
<1> QED BY <1>7, <1>10, <1>11, <1>12 DEF u

(* What the encoder finds is in the table.                                 *)
LEMMA NewestIsLive ==
  ASSUME NEW t \in Tables, NEW fs
  PROVE  /\ Newest(t, fs) \in 0 .. total_inserted(t)
         /\ Newest(t, fs) # 0 =>
              Live(t, Newest(t, fs)) /\ Entry(t, Newest(t, fs)) \in fs
<1> DEFINE S == {0} \cup {t.dropped + i : i \in {j \in 1 .. Len(t.fields) : t.fields[j] \in fs}}
<1>1. S \subseteq 0 .. total_inserted(t) /\ S # {} BY TableFacts DEF total_inserted
<1>2. Newest(t, fs) = Max(S) BY Zenon DEF Newest
<1> HIDE DEF S
<1>3. total_inserted(t) \in Nat BY TableFacts
<1>4. Newest(t, fs) \in S BY <1>1, <1>2, <1>3, MaxOf
<1>5. CASE Newest(t, fs) # 0
  <2>1. PICK j \in 1 .. Len(t.fields) : t.fields[j] \in fs /\ Newest(t, fs) = t.dropped + j
    BY <1>4, <1>5 DEF S
  <2>2. Live(t, Newest(t, fs)) BY <2>1, TableFacts DEF Live, total_inserted
  <2>3. Newest(t, fs) - t.dropped = j BY <2>1, TableFacts
  <2>4. Entry(t, Newest(t, fs)) \in fs BY <2>1, <2>3, Zenon DEF Entry
  <2> QED BY <1>1, <1>4, <2>2, <2>4
<1> QED BY <1>1, <1>4, <1>5

(* A table that comes of another by evicting and inserting: it agrees with *)
(* it on the entries both have.                                            *)
Follows(t, u) ==
  /\ t.dropped <= u.dropped
  /\ total_inserted(t) <= total_inserted(u)
  /\ \A r \in Nat : Live(t, r) /\ Live(u, r) => Entry(t, r) = Entry(u, r)

(* A table follows itself ...                                              *)
LEMMA FollowsSelf == ASSUME NEW t \in Tables PROVE Follows(t, t)
BY TableFacts DEF Follows

(* ... and what it follows follows.                                        *)
LEMMA FollowsTrans ==
  ASSUME NEW t \in Tables, NEW u \in Tables, NEW v \in Tables, Follows(t, u), Follows(u, v)
  PROVE  Follows(t, v)
<1>1. /\ t.dropped \in Nat /\ u.dropped \in Nat /\ v.dropped \in Nat
      /\ total_inserted(t) \in Nat /\ total_inserted(u) \in Nat /\ total_inserted(v) \in Nat
  BY TableFacts
<1>2. t.dropped <= u.dropped /\ u.dropped <= v.dropped
      /\ total_inserted(t) <= total_inserted(u) /\ total_inserted(u) <= total_inserted(v)
  BY DEF Follows
<1>3. t.dropped <= v.dropped /\ total_inserted(t) <= total_inserted(v) BY <1>1, <1>2
<1>4. ASSUME NEW r \in Nat, Live(t, r), Live(v, r) PROVE Entry(t, r) = Entry(v, r)
  <2>1. Live(u, r) BY <1>1, <1>2, <1>4 DEF Live
  <2> QED BY <1>4, <2>1, Zenon DEF Follows
<1> QED BY <1>3, <1>4 DEF Follows

(* evict, insert and set_max_size make a table that follows.               *)
LEMMA EvictedFollows ==
  ASSUME NEW t \in Tables, NEW n \in 0 .. Len(t.fields)
  PROVE  Follows(t, evict(t, n))
<1>1. evict(t, n).dropped = t.dropped + n BY Evicted
<1>2. total_inserted(evict(t, n)) = total_inserted(t)
      /\ \A r \in Nat : Live(evict(t, n), r) => Entry(evict(t, n), r) = Entry(t, r)
  BY EvictedTotal
<1>3. t.dropped <= evict(t, n).dropped /\ total_inserted(t) <= total_inserted(evict(t, n))
  BY <1>1, <1>2, TableFacts
<1>4. \A r \in Nat : Live(t, r) /\ Live(evict(t, n), r) => Entry(t, r) = Entry(evict(t, n), r)
  BY <1>2, Zenon
<1> QED BY <1>3, <1>4, Zenon DEF Follows

(* insert adds the entry with the next index.                              *)
LEMMA InsertedFollows ==
  ASSUME NEW t \in Tables, NEW f \in Fields, mem_size[f] <= t.max_size
  PROVE  /\ Follows(t, insert(t, f))
         /\ Live(insert(t, f), total_inserted(t) + 1)
         /\ Entry(insert(t, f), total_inserted(t) + 1) = f
<1> DEFINE m == MakeRoom(t, f)
           u == insert(t, f)
           new == total_inserted(t) + 1
<1>1. /\ m \in Tables /\ total_inserted(m) = total_inserted(t)
      /\ u \in Tables /\ u.dropped = m.dropped /\ u.fields = Append(m.fields, f)
      /\ total_inserted(u) = new
  BY Inserting
<1>2. Follows(t, m)
  <2>1. mem_size[f] \in Nat BY FieldsAssumption
  <2>2. ToEvict(t, mem_size[f]) \in 0 .. Len(t.fields) BY <2>1, ToEvictFits, Zenon
  <2> QED BY <2>2, EvictedFollows, Zenon DEF MakeRoom
<1> HIDE DEF m, u
<1>3. /\ m.fields \in Seq(Fields) /\ Len(m.fields) \in Nat /\ m.dropped \in Nat
      /\ total_inserted(t) \in Nat /\ m.dropped + Len(m.fields) = total_inserted(t)
  BY <1>1, TableFacts DEF total_inserted
<1>4. ASSUME NEW r \in Nat, Live(m, r), Live(u, r) PROVE Entry(m, r) = Entry(u, r)
  <2>1. r - m.dropped \in 1 .. Len(m.fields) BY <1>3, <1>4 DEF Live, total_inserted
  <2>2. Append(m.fields, f)[r - m.dropped] = m.fields[r - m.dropped] BY <1>3, <2>1
  <2> QED BY <1>1, <2>2, Zenon DEF Entry
<1>5. Follows(m, u)
  <2>1. m.dropped <= u.dropped /\ total_inserted(m) <= total_inserted(u) BY <1>1, <1>3
  <2> QED BY <1>4, <2>1, Zenon DEF Follows
<1>6. Follows(t, u) BY <1>1, <1>2, <1>5, FollowsTrans
<1>7. Live(u, new) BY <1>1, <1>3 DEF Live
<1>8. Entry(u, new) = f
  <2>1. new - m.dropped = Len(m.fields) + 1 BY <1>3
  <2>2. Append(m.fields, f)[Len(m.fields) + 1] = f BY <1>3
  <2> QED BY <1>1, <2>1, <2>2, Zenon DEF Entry
<1> QED BY <1>6, <1>7, <1>8 DEF u

(* A table of another size follows.                                        *)
LEMMA ResizedFollows ==
  ASSUME NEW t \in Tables, NEW size \in Sizes
  PROVE  Follows(t, set_max_size(t, EmptyBag, size))
<1> DEFINE required == t.max_size - size
           n == ToEvict(t, required)
           left == IF size < t.max_size /\ can_free(t, EmptyBag, required) THEN evict(t, n) ELSE t
           u == [left EXCEPT !.max_size = size]
<1>1. size \in Nat /\ t.max_size \in Nat BY TableFacts, BoundsAssumption
<1>2. left \in Tables /\ Follows(t, left)
  <2>1. CASE size < t.max_size
    <3>1. required \in Nat /\ required <= t.max_size BY <1>1, <2>1
    <3> HIDE DEF required
    <3>2. n \in 0 .. Len(t.fields) BY <3>1, ToEvictFits
    <3> HIDE DEF n
    <3>3. evict(t, n) \in Tables /\ Follows(t, evict(t, n)) BY <3>2, Evicted, EvictedFollows
    <3> QED BY <3>3, FollowsSelf, Zenon
  <2>2. CASE ~(size < t.max_size) BY <2>2, FollowsSelf
  <2> QED BY <2>1, <2>2
<1>3. set_max_size(t, EmptyBag, size) = u BY Zenon DEF set_max_size
<1> HIDE DEF left
<1>4. left \in [fields : Seq(Fields), dropped : Nat, curr_size : Nat, max_size : Sizes]
  BY <1>2, TableFacts
<1>5. u.fields = left.fields /\ u.dropped = left.dropped BY <1>4
<1> HIDE DEF u
<1>6. Follows(t, u) BY <1>2, <1>5 DEF Follows, Live, Entry, total_inserted
<1> QED BY <1>3, <1>6

-----------------------------------------------------------------------------
(***************************************************************************)
(* Instructions on their way.                                              *)
(***************************************************************************)
LEMMA BrokenIsNone == Broken \notin Tables
<1>1. Broken.max_size = -1 BY DEF Broken, NewTable
<1>2. \A t \in Tables : t.max_size \in Nat BY TableFacts
<1> QED BY <1>1, <1>2

(* The decoder inserts what an instruction stands for ...                  *)
LEMMA AppliedInsert ==
  ASSUME NEW t \in Tables, NEW f \in Fields, NEW i,
         i.op # "size", InstructedField(t, i) = f,
         t.max_size # 0, mem_size[f] <= t.max_size
  PROVE  Apply(t, i) = insert(t, f)
<1>1. t # Broken BY BrokenIsNone
<1>2. f # NoField BY NoFieldAssumption
<1>3. \A r : ~BagIn(r, EmptyBag) BY DEF BagIn, BagToSet, EmptyBag, SetToBag
<1>4. CanInsert(t, EmptyBag, f) BY <1>3, Zenon DEF CanInsert, can_free
<1> QED BY <1>1, <1>2, <1>4, Zenon DEF Apply

(* ... and sets the size it is told.                                       *)
LEMMA AppliedSize ==
  ASSUME NEW t \in Tables, NEW size
  PROVE  Apply(t, DynamicTableSizeUpdate(size)) = set_max_size(t, EmptyBag, size)
<1>1. t # Broken BY BrokenIsNone
<1>2. DynamicTableSizeUpdate(size).op = "size" /\ DynamicTableSizeUpdate(size).size = size
  BY DEF DynamicTableSizeUpdate
<1> QED BY <1>1, <1>2, Zenon DEF Apply

(* The decoder's table t becomes u when it has applied the instructions.   *)
Chain(f, t, is, u) ==
  /\ f \in [0 .. Len(is) -> Tables]
  /\ f[0] = t /\ f[Len(is)] = u
  /\ \A i \in 1 .. Len(is) : f[i] = Apply(f[i - 1], is[i]) /\ Follows(f[i - 1], f[i])
Leads(t, is, u) == \E f : Chain(f, t, is, u)

(* Where instructions lead is a table that follows.                        *)
LEMMA LeadsFollows ==
  ASSUME NEW X, NEW is \in Seq(X), NEW t, NEW u, Leads(t, is, u)
  PROVE  t \in Tables /\ u \in Tables /\ Follows(t, u)
<1> DEFINE n == Len(is)
<1>1. n \in Nat OBVIOUS
<1>2. PICK f : Chain(f, t, is, u) BY Zenon DEF Leads
<1>3. /\ f \in [0 .. n -> Tables] /\ f[0] = t /\ f[n] = u
      /\ \A i \in 1 .. n : Follows(f[i - 1], f[i])
  BY <1>2, Zenon DEF Chain
<1> HIDE DEF n
<1> DEFINE T == {k \in Nat : k \in 0 .. n => Follows(t, f[k])}
<1>4. \A i \in 0 .. n : f[i] \in Tables BY <1>3
<1>5. t \in Tables /\ u \in Tables /\ n \in 0 .. n
  <2>1. 0 \in 0 .. n /\ n \in 0 .. n BY <1>1
  <2> QED BY <1>3, <1>4, <2>1, Zenon
<1>6. 0 \in T BY <1>3, <1>5, FollowsSelf
<1>7. \A k \in T : k + 1 \in T
  <2> TAKE k \in T
  <2>1. k \in Nat /\ (k \in 0 .. n => Follows(t, f[k])) OBVIOUS
  <2> SUFFICES ASSUME k + 1 \in 0 .. n PROVE Follows(t, f[k + 1]) BY <2>1
  <2>2. k \in 0 .. n /\ k + 1 \in 1 .. n /\ (k + 1) - 1 = k BY <1>1, <2>1
  <2>3. Follows(f[k], f[k + 1]) BY <1>3, <2>2, Zenon
  <2>4. f[k] \in Tables /\ f[k + 1] \in Tables BY <1>4, <2>2, Zenon
  <2> HIDE DEF T
  <2> QED BY <1>5, <2>1, <2>2, <2>3, <2>4, FollowsTrans, Zenon
<1>8. T = Nat
  <2> HIDE DEF T
  <2>1. T \subseteq Nat BY DEF T
  <2> QED BY <1>6, <1>7, <2>1, SetInduction
<1>9. n \in T BY <1>1, <1>8, Zenon
<1>10. Follows(t, f[n]) BY <1>5, <1>9
<1> QED BY <1>3, <1>5, <1>10

(* No instructions lead nowhere else.                                      *)
LEMMA LeadsNowhere == ASSUME NEW t \in Tables PROVE Leads(t, <<>>, t)
<1> DEFINE f == [i \in 0 .. 0 |-> t]
<1>1. Len(<<>>) = 0 /\ 0 \in 0 .. 0 OBVIOUS
<1>2. f \in [0 .. Len(<<>>) -> Tables] /\ f[0] = t /\ f[Len(<<>>)] = t BY <1>1
<1>3. \A i \in 1 .. Len(<<>>) : FALSE BY <1>1
<1> HIDE DEF f
<1>4. Chain(f, t, <<>>, t) BY <1>2, <1>3, Zenon DEF Chain
<1> QED BY <1>4, Zenon DEF Leads

(* One instruction leads where applying it does.                           *)
LEMMA LeadsTo ==
  ASSUME NEW t \in Tables, NEW u \in Tables, NEW i, Apply(t, i) = u, Follows(t, u)
  PROVE  Leads(t, <<i>>, u)
<1> DEFINE f == [k \in 0 .. 1 |-> IF k = 0 THEN t ELSE u]
           is == <<i>>
<1>1. Len(is) = 1 /\ is[1] = i OBVIOUS
<1> HIDE DEF is
<1>2. f \in [0 .. Len(is) -> Tables] /\ f[0] = t /\ f[Len(is)] = u BY <1>1
<1>3. ASSUME NEW k \in 1 .. Len(is)
      PROVE  f[k] = Apply(f[k - 1], is[k]) /\ Follows(f[k - 1], f[k])
  <2>1. k = 1 /\ k - 1 = 0 BY <1>1
  <2>2. f[1] = u /\ f[0] = t OBVIOUS
  <2> HIDE DEF f
  <2> QED BY <1>1, <2>1, <2>2, Zenon
<1> HIDE DEF f
<1>4. Chain(f, t, is, u) BY <1>2, <1>3, Zenon DEF Chain
<1>5. Leads(t, is, u) BY <1>4, Zenon DEF Leads
<1> QED BY <1>5 DEF is

(* Instructions one after the other.                                       *)
LEMMA LeadsJoin ==
  ASSUME NEW X, NEW a \in Seq(X), NEW b \in Seq(X), NEW t, NEW u, NEW v,
         Leads(t, a, u), Leads(u, b, v)
  PROVE  Leads(t, a \o b, v)
<1> DEFINE n == Len(a)
           m == Len(b)
           c == a \o b
<1>1. PICK f : Chain(f, t, a, u) BY Zenon DEF Leads
<1>2. PICK g : Chain(g, u, b, v) BY Zenon DEF Leads
<1>3. /\ f \in [0 .. n -> Tables] /\ f[0] = t /\ f[n] = u
      /\ \A i \in 1 .. n : f[i] = Apply(f[i - 1], a[i]) /\ Follows(f[i - 1], f[i])
  BY <1>1, Zenon DEF Chain
<1>4. /\ g \in [0 .. m -> Tables] /\ g[0] = u /\ g[m] = v
      /\ \A i \in 1 .. m : g[i] = Apply(g[i - 1], b[i]) /\ Follows(g[i - 1], g[i])
  BY <1>2, Zenon DEF Chain
<1>5. n \in Nat /\ m \in Nat OBVIOUS
<1>6. Len(c) = n + m /\ (\A i \in 1 .. n : c[i] = a[i]) /\ \A i \in 1 .. m : c[n + i] = b[i]
  OBVIOUS
<1> HIDE DEF n, m, c
<1> DEFINE h == [i \in 0 .. (n + m) |-> IF i <= n THEN f[i] ELSE g[i - n]]
<1>7. h \in [0 .. (n + m) -> Tables]
  <2> SUFFICES ASSUME NEW i \in 0 .. (n + m) PROVE (IF i <= n THEN f[i] ELSE g[i - n]) \in Tables
    OBVIOUS
  <2>1. CASE i <= n
    <3>1. i \in 0 .. n BY <1>5, <2>1
    <3> QED BY <1>3, <2>1, <3>1
  <2>2. CASE ~(i <= n)
    <3>1. i - n \in 0 .. m BY <1>5, <2>2
    <3> QED BY <1>4, <2>2, <3>1
  <2> QED BY <2>1, <2>2
<1>8. \A i \in 0 .. n : h[i] = f[i] BY <1>5
<1>9. \A i \in 0 .. m : h[n + i] = g[i]
  <2> TAKE i \in 0 .. m
  <2>1. n + i \in 0 .. (n + m) /\ (n + i) - n = i BY <1>5
  <2>2. CASE i = 0
    <3>1. n + i = n /\ n \in 0 .. n BY <1>5, <2>2
    <3> QED BY <1>3, <1>4, <1>8, <2>2, <3>1, Zenon
  <2>3. CASE i # 0
    <3>1. ~(n + i <= n) BY <1>5, <2>3
    <3> QED BY <2>1, <3>1
  <2> QED BY <2>2, <2>3
<1> HIDE DEF h
<1>10. h[0] = t /\ h[n + m] = v
  <2>1. 0 \in 0 .. n /\ m \in 0 .. m BY <1>5
  <2> QED BY <1>3, <1>4, <1>8, <1>9, <2>1, Zenon
<1>11. ASSUME NEW i \in 1 .. (n + m)
       PROVE  h[i] = Apply(h[i - 1], c[i]) /\ Follows(h[i - 1], h[i])
  <2>1. CASE i <= n
    <3>1. i \in 0 .. n /\ i - 1 \in 0 .. n /\ i \in 1 .. n BY <1>5, <2>1
    <3> QED BY <1>3, <1>6, <1>8, <3>1, Zenon
  <2>2. CASE ~(i <= n)
    <3> DEFINE k == i - n
    <3>1. k \in 1 .. m /\ k \in 0 .. m /\ k - 1 \in 0 .. m /\ n + k = i /\ n + (k - 1) = i - 1
      BY <1>5, <2>2
    <3> HIDE DEF k
    <3>2. h[i] = g[k] /\ h[i - 1] = g[k - 1] /\ c[i] = b[k] BY <1>6, <1>9, <3>1, Zenon
    <3> QED BY <1>4, <3>1, <3>2, Zenon
  <2> QED BY <2>1, <2>2
<1>12. Chain(h, t, c, v) BY <1>6, <1>7, <1>10, <1>11, Zenon DEF Chain
<1>13. Leads(t, c, v) BY <1>12, Zenon DEF Leads
<1> QED BY <1>13 DEF c

(* The decoder applies the first n and leaves the others.                  *)
LEMMA LeadsSplit ==
  ASSUME NEW X, NEW is \in Seq(X), NEW n \in 0 .. Len(is), NEW t, NEW v, Leads(t, is, v)
  PROVE  \E u : Leads(t, SubSeq(is, 1, n), u) /\ Leads(u, SubSeq(is, n + 1, Len(is)), v)
<1> DEFINE l == Len(is)
           a == SubSeq(is, 1, n)
           b == SubSeq(is, n + 1, l)
<1>1. PICK f : Chain(f, t, is, v) BY Zenon DEF Leads
<1>2. /\ f \in [0 .. l -> Tables] /\ f[0] = t /\ f[l] = v
      /\ \A i \in 1 .. l : f[i] = Apply(f[i - 1], is[i]) /\ Follows(f[i - 1], f[i])
  BY <1>1, Zenon DEF Chain
<1>3. n \in Nat /\ l \in Nat /\ n <= l OBVIOUS
<1>4. Len(a) = n /\ (\A i \in 1 .. n : a[i] = is[i])
      /\ Len(b) = l - n /\ \A i \in 1 .. (l - n) : b[i] = is[n + i]
  <2>1. Len(a) = n /\ \A i \in 1 .. n : a[i] = is[i] BY <1>3
  <2>2. Len(b) = l - n /\ \A i \in 1 .. (l - n) : b[i] = is[n + i] BY <1>3
  <2> HIDE DEF a, b, l
  <2> QED BY <2>1, <2>2
<1> HIDE DEF l, a, b
<1> DEFINE g == [i \in 0 .. n |-> f[i]]
           h == [i \in 0 .. (l - n) |-> f[n + i]]
<1>5. Chain(g, t, a, f[n])
  <2>1. g \in [0 .. n -> Tables] /\ g[0] = t /\ g[n] = f[n] BY <1>2, <1>3
  <2>2. ASSUME NEW i \in 1 .. n
        PROVE  g[i] = Apply(g[i - 1], a[i]) /\ Follows(g[i - 1], g[i])
    <3>1. i \in 0 .. n /\ i - 1 \in 0 .. n /\ i \in 1 .. l BY <1>3
    <3>2. g[i] = f[i] /\ g[i - 1] = f[i - 1] BY <3>1
    <3> HIDE DEF g
    <3> QED BY <1>2, <1>4, <3>1, <3>2, Zenon
  <2> HIDE DEF g
  <2> QED BY <1>4, <2>1, <2>2, Zenon DEF Chain
<1>6. Chain(h, f[n], b, v)
  <2>1. h \in [0 .. (l - n) -> Tables]
    <3> SUFFICES ASSUME NEW i \in 0 .. (l - n) PROVE f[n + i] \in Tables OBVIOUS
    <3>1. n + i \in 0 .. l BY <1>3
    <3> QED BY <1>2, <3>1
  <2>2. h[0] = f[n] /\ h[l - n] = v
    <3>1. 0 \in 0 .. (l - n) /\ l - n \in 0 .. (l - n) /\ n + 0 = n /\ n + (l - n) = l BY <1>3
    <3>2. h[0] = f[n + 0] /\ h[l - n] = f[n + (l - n)] BY <3>1
    <3> HIDE DEF h
    <3> QED BY <1>2, <3>1, <3>2, Zenon
  <2>3. ASSUME NEW i \in 1 .. (l - n)
        PROVE  h[i] = Apply(h[i - 1], b[i]) /\ Follows(h[i - 1], h[i])
    <3>1. i \in 0 .. (l - n) /\ i - 1 \in 0 .. (l - n) /\ n + i \in 1 .. l
          /\ (n + i) - 1 = n + (i - 1)
      BY <1>3
    <3>2. h[i] = f[n + i] /\ h[i - 1] = f[n + (i - 1)] BY <3>1
    <3> HIDE DEF h
    <3>3. f[n + i] = Apply(f[n + (i - 1)], is[n + i]) /\ Follows(f[n + (i - 1)], f[n + i])
      BY <1>2, <3>1, Zenon
    <3>4. b[i] = is[n + i] BY <1>4, Zenon
    <3> QED BY <3>2, <3>3, <3>4, Zenon
  <2> HIDE DEF h
  <2> QED BY <1>4, <2>1, <2>2, <2>3, Zenon DEF Chain
<1> HIDE DEF g, h
<1>7. Leads(t, a, f[n]) /\ Leads(f[n], b, v) BY <1>5, <1>6, Zenon DEF Leads
<1> QED BY <1>7, Zenon DEF a, b, l

(* The decoder gets where the instructions lead.                           *)
LEMMA LeadsApplied ==
  ASSUME NEW X, NEW is \in Seq(X), NEW t, NEW u, Leads(t, is, u)
  PROVE  Applied(t, is) = u
<1> DEFINE n == Len(is)
           Solves(g) == g = [i \in 0 .. n |-> IF i = 0 THEN t ELSE Apply(g[i - 1], is[i])]
           g == CHOOSE x : Solves(x)
<1>1. n \in Nat OBVIOUS
<1>2. Applied(t, is) = g[n] BY Zenon DEF Applied
<1>3. PICK f : Chain(f, t, is, u) BY Zenon DEF Leads
<1>4. /\ f \in [0 .. n -> Tables] /\ f[0] = t /\ f[n] = u
      /\ \A i \in 1 .. n : f[i] = Apply(f[i - 1], is[i])
  BY <1>3, Zenon DEF Chain
<1> HIDE DEF n
<1>5. Solves(f)
  <2>1. \A i \in 0 .. n : i # 0 => i \in 1 .. n BY <1>1
  <2>2. \A i \in 0 .. n : f[i] = IF i = 0 THEN t ELSE Apply(f[i - 1], is[i])
    BY <1>4, <2>1, Zenon
  <2>3. f = [i \in 0 .. n |-> f[i]] BY <1>4
  <2>4. f = [i \in 0 .. n |-> IF i = 0 THEN t ELSE Apply(f[i - 1], is[i])] BY <2>2, <2>3
  <2> QED BY <2>4
<1>6. Solves(g)
  <2> HIDE DEF Solves
  <2> QED BY <1>5
<1> HIDE DEF g
<1>7. \A i \in 0 .. n : g[i] = IF i = 0 THEN t ELSE Apply(g[i - 1], is[i]) BY <1>6
<1> HIDE DEF Solves
<1> DEFINE T == {k \in Nat : k \in 0 .. n => g[k] = f[k]}
<1>8. 0 \in T
  <2>1. 0 \in 0 .. n BY <1>1
  <2>2. g[0] = t BY <1>7, <2>1, Zenon
  <2> QED BY <1>4, <2>2
<1>9. \A k \in T : k + 1 \in T
  <2> TAKE k \in T
  <2>1. k \in Nat /\ (k \in 0 .. n => g[k] = f[k]) OBVIOUS
  <2> SUFFICES ASSUME k + 1 \in 0 .. n PROVE g[k + 1] = f[k + 1] BY <2>1
  <2>2. k \in 0 .. n /\ k + 1 \in 1 .. n /\ (k + 1) - 1 = k /\ k + 1 # 0 BY <1>1, <2>1
  <2> QED BY <1>4, <1>7, <2>1, <2>2, Zenon
<1>10. T = Nat
  <2> HIDE DEF T
  <2>1. T \subseteq Nat BY DEF T
  <2> QED BY <1>8, <1>9, <2>1, SetInduction
<1>11. n \in 0 .. n /\ n \in Nat BY <1>1
<1>12. g[n] = f[n] BY <1>10, <1>11
<1> QED BY <1>2, <1>4, <1>12, Zenon DEF n

-----------------------------------------------------------------------------
(***************************************************************************)
(* Bags of references.                                                     *)
(***************************************************************************)
Refs == UNION {[D -> Nat \ {0}] : D \in SUBSET Nat}

(* A bag of references counts what is in it.                               *)
LEMMA RefsFacts ==
  ASSUME NEW b \in Refs
  PROVE  /\ DOMAIN b \subseteq Nat /\ b = [r \in DOMAIN b |-> b[r]]
         /\ \A r \in DOMAIN b : b[r] \in Nat /\ b[r] > 0
         /\ IsABag(b)
<1>1. PICK D \in SUBSET Nat : b \in [D -> Nat \ {0}] BY Zenon DEF Refs
<1>2. DOMAIN b = D /\ b = [r \in DOMAIN b |-> b[r]] BY <1>1
<1>3. \A r \in D : b[r] \in Nat /\ b[r] > 0 BY <1>1
<1>4. b \in [DOMAIN b -> {n \in Nat : n > 0}] BY <1>2, <1>3
<1> QED BY <1>2, <1>3, <1>4 DEF IsABag

(* What is a bag of references.                                            *)
LEMMA RefsIntro ==
  ASSUME NEW D, D \subseteq Nat, NEW b, b = [r \in D |-> b[r]],
         \A r \in D : b[r] \in Nat /\ b[r] > 0
  PROVE  b \in Refs
<1>1. b \in [D -> Nat \ {0}]
  <2>1. \A r \in D : b[r] \in Nat \ {0} OBVIOUS
  <2> QED BY <2>1
<1> QED BY <1>1, Zenon DEF Refs

(* What is in the bag is counted.                                          *)
LEMMA CountFacts ==
  ASSUME NEW b \in Refs, NEW r
  PROVE  /\ Count(r, b) \in Nat
         /\ BagIn(r, b) <=> r \in DOMAIN b
         /\ BagIn(r, b) <=> Count(r, b) > 0
<1>1. BagIn(r, b) <=> r \in DOMAIN b BY Zenon DEF BagIn, BagToSet
<1>2. r \in DOMAIN b => b[r] \in Nat /\ b[r] > 0 BY RefsFacts
<1>3. Count(r, b) = IF r \in DOMAIN b THEN b[r] ELSE 0 BY <1>1, Zenon DEF Count
<1> QED BY <1>1, <1>2, <1>3

(* Nothing is in the empty bag ...                                         *)
LEMMA EmptyRefs == EmptyBag \in Refs /\ \A r : Count(r, EmptyBag) = 0 /\ ~BagIn(r, EmptyBag)
<1>1. EmptyBag = [e \in {} |-> 1] BY Zenon DEF EmptyBag, SetToBag
<1>2. DOMAIN EmptyBag = {} /\ EmptyBag = [e \in {} |-> EmptyBag[e]] BY <1>1
<1>3. EmptyBag \in Refs
  <2>1. {} \subseteq Nat /\ \A r \in {} : EmptyBag[r] \in Nat /\ EmptyBag[r] > 0 OBVIOUS
  <2> QED BY <1>2, <2>1, RefsIntro
<1>4. \A r : ~BagIn(r, EmptyBag) BY <1>2 DEF BagIn, BagToSet
<1> QED BY <1>3, <1>4, Zenon DEF Count

(* ... and a reference once in its own.                                    *)
LEMMA OneRef ==
  ASSUME NEW x \in Nat
  PROVE  One(x) \in Refs /\ \A r : Count(r, One(x)) = IF r = x THEN 1 ELSE 0
<1>1. One(x) = [e \in {x} |-> 1] BY Zenon DEF One, SetToBag
<1>2. DOMAIN One(x) = {x} /\ One(x)[x] = 1 /\ One(x) = [e \in {x} |-> One(x)[e]] BY <1>1
<1>3. One(x) \in Refs
  <2>1. {x} \subseteq Nat /\ \A r \in {x} : One(x)[r] \in Nat /\ One(x)[r] > 0 BY <1>2
  <2> QED BY <1>2, <2>1, RefsIntro
<1> QED BY <1>2, <1>3 DEF Count, BagIn, BagToSet

(* Counts add up ...                                                       *)
LEMMA RefsAdded ==
  ASSUME NEW a \in Refs, NEW b \in Refs
  PROVE  /\ a (+) b \in Refs
         /\ \A r : Count(r, a (+) b) = Count(r, a) + Count(r, b)
<1> DEFINE c == a (+) b
           D == DOMAIN a \cup DOMAIN b
           Plus(e) == (IF e \in DOMAIN a THEN a[e] ELSE 0) + (IF e \in DOMAIN b THEN b[e] ELSE 0)
<1>1. c = [e \in D |-> Plus(e)] BY Zenon DEF (+)
<1>2. /\ DOMAIN a \subseteq Nat /\ DOMAIN b \subseteq Nat
      /\ (\A e \in DOMAIN a : a[e] \in Nat /\ a[e] > 0)
      /\ (\A e \in DOMAIN b : b[e] \in Nat /\ b[e] > 0)
  BY RefsFacts
<1>3. D \subseteq Nat /\ \A e \in D : Plus(e) \in Nat /\ Plus(e) > 0
  <2>1. D \subseteq Nat BY <1>2
  <2>2. ASSUME NEW e \in D PROVE Plus(e) \in Nat /\ Plus(e) > 0
    <3>1. CASE e \in DOMAIN a /\ e \in DOMAIN b BY <1>2, <3>1
    <3>2. CASE e \in DOMAIN a /\ e \notin DOMAIN b BY <1>2, <3>2
    <3>3. CASE e \notin DOMAIN a /\ e \in DOMAIN b BY <1>2, <3>3
    <3> QED BY <3>1, <3>2, <3>3
  <2> QED BY <2>1, <2>2
<1>4. \A e : (e \in DOMAIN a => e \in D) /\ (e \in DOMAIN b => e \in D) OBVIOUS
<1>5. \A e : e \notin D => e \notin DOMAIN a /\ e \notin DOMAIN b OBVIOUS
<1> HIDE DEF D
<1>6. DOMAIN c = D /\ (\A e \in D : c[e] = Plus(e)) /\ c = [e \in D |-> c[e]] BY <1>1
<1> HIDE DEF c
<1>7. c \in Refs
  <2> HIDE DEF Plus
  <2>1. \A e \in D : c[e] \in Nat /\ c[e] > 0 BY <1>3, <1>6
  <2> QED BY <1>3, <1>6, <2>1, RefsIntro
<1>8. ASSUME NEW r PROVE Count(r, c) = Count(r, a) + Count(r, b)
  <2>1. Count(r, a) = IF r \in DOMAIN a THEN a[r] ELSE 0 BY Zenon DEF Count, BagIn, BagToSet
  <2>2. Count(r, b) = IF r \in DOMAIN b THEN b[r] ELSE 0 BY Zenon DEF Count, BagIn, BagToSet
  <2>3. Count(r, c) = IF r \in D THEN c[r] ELSE 0 BY <1>6, Zenon DEF Count, BagIn, BagToSet
  <2>4. CASE r \in D
    <3>1. Count(r, c) = Plus(r) BY <1>6, <2>3, <2>4, Zenon
    <3> QED BY <2>1, <2>2, <3>1, Zenon
  <2>5. CASE r \notin D
    <3>1. Count(r, c) = 0 /\ Count(r, a) = 0 /\ Count(r, b) = 0
      BY <1>5, <2>1, <2>2, <2>3, <2>5, Zenon
    <3> QED BY <3>1
  <2> QED BY <2>4, <2>5
<1> QED BY <1>7, <1>8 DEF c

(* ... and are taken away, when they are there ...                         *)
LEMMA RefsTaken ==
  ASSUME NEW a \in Refs, NEW b \in Refs, \A r \in Nat : Count(r, b) <= Count(r, a)
  PROVE  /\ a (-) b \in Refs
         /\ \A r \in Nat : Count(r, a (-) b) = Count(r, a) - Count(r, b)
<1> DEFINE c == a (-) b
           Less(e) == IF e \in DOMAIN b THEN a[e] - b[e] ELSE a[e]
           B == [e \in DOMAIN a |-> Less(e)]
           D == {d \in DOMAIN B : B[d] > 0}
<1>1. c = [e \in D |-> B[e]] BY Zenon DEF (-)
<1>2. DOMAIN B = DOMAIN a /\ \A e \in DOMAIN a : B[e] = Less(e) OBVIOUS
<1> HIDE DEF B
<1>3. /\ DOMAIN a \subseteq Nat /\ DOMAIN b \subseteq Nat
      /\ (\A e \in DOMAIN a : a[e] \in Nat /\ a[e] > 0)
      /\ (\A e \in DOMAIN b : b[e] \in Nat /\ b[e] > 0)
  BY RefsFacts
<1>4. \A r : Count(r, a) = IF r \in DOMAIN a THEN a[r] ELSE 0 BY Zenon DEF Count, BagIn, BagToSet
<1>5. \A r : Count(r, b) = IF r \in DOMAIN b THEN b[r] ELSE 0 BY Zenon DEF Count, BagIn, BagToSet
<1>6. ASSUME NEW e \in DOMAIN a
      PROVE  Less(e) \in Nat /\ Less(e) = Count(e, a) - Count(e, b)
  <2>1. e \in Nat /\ Count(e, b) <= Count(e, a) BY <1>3
  <2>2. Count(e, a) = a[e] /\ a[e] \in Nat BY <1>3, <1>4
  <2>3. CASE e \in DOMAIN b
    <3>1. Count(e, b) = b[e] /\ b[e] \in Nat BY <1>3, <1>5, <2>3
    <3> QED BY <2>1, <2>2, <2>3, <3>1
  <2>4. CASE e \notin DOMAIN b
    <3>1. Count(e, b) = 0 BY <1>5, <2>4
    <3> QED BY <2>2, <2>4, <3>1
  <2> QED BY <2>3, <2>4
<1>7. \A e \in DOMAIN a : B[e] \in Nat /\ B[e] = Count(e, a) - Count(e, b) BY <1>2, <1>6, Zenon
<1> HIDE DEF Less
<1>8. D \subseteq DOMAIN a /\ \A e \in D : B[e] > 0 BY <1>2
<1>9. \A e \in DOMAIN a : e \notin D => ~(B[e] > 0) BY <1>2
<1> HIDE DEF D
<1>10. DOMAIN c = D /\ (\A e \in D : c[e] = B[e]) /\ c = [e \in D |-> c[e]] BY <1>1
<1> HIDE DEF c
<1>11. c \in Refs
  <2>1. D \subseteq Nat BY <1>3, <1>8
  <2>2. \A e \in D : c[e] \in Nat /\ c[e] > 0 BY <1>7, <1>8, <1>10
  <2> QED BY <1>10, <2>1, <2>2, RefsIntro
<1>12. ASSUME NEW r \in Nat PROVE Count(r, c) = Count(r, a) - Count(r, b)
  <2>1. Count(r, c) = IF r \in D THEN c[r] ELSE 0 BY <1>10, Zenon DEF Count, BagIn, BagToSet
  <2>2. CASE r \in D BY <1>7, <1>8, <1>10, <2>1, <2>2
  <2>3. CASE r \notin D /\ r \in DOMAIN a
    <3>1. B[r] = 0 BY <1>7, <1>9, <2>3
    <3> QED BY <1>7, <2>1, <2>3, <3>1
  <2>4. CASE r \notin D /\ r \notin DOMAIN a
    <3>1. Count(r, a) = 0 /\ Count(r, c) = 0 BY <1>4, <2>1, <2>4
    <3>2. Count(r, b) \in Nat /\ Count(r, b) <= Count(r, a) BY CountFacts
    <3> QED BY <3>1, <3>2
  <2> QED BY <2>2, <2>3, <2>4
<1> QED BY <1>11, <1>12 DEF c

(* ... which untrack_block checks.                                         *)
LEMMA RefsWithin ==
  ASSUME NEW a \in Refs, NEW b \in Refs
  PROVE  (b \sqsubseteq a) <=> \A r \in Nat : Count(r, b) <= Count(r, a)
<1>1. /\ DOMAIN a \subseteq Nat /\ DOMAIN b \subseteq Nat
      /\ (\A e \in DOMAIN a : a[e] \in Nat /\ a[e] > 0)
      /\ (\A e \in DOMAIN b : b[e] \in Nat /\ b[e] > 0)
  BY RefsFacts
<1>2. \A r : Count(r, a) = IF r \in DOMAIN a THEN a[r] ELSE 0 BY Zenon DEF Count, BagIn, BagToSet
<1>3. \A r : Count(r, b) = IF r \in DOMAIN b THEN b[r] ELSE 0 BY Zenon DEF Count, BagIn, BagToSet
<1>4. (b \sqsubseteq a) <=> DOMAIN b \subseteq DOMAIN a /\ \A e \in DOMAIN b : b[e] <= a[e]
  BY Zenon DEF \sqsubseteq
<1>5. ASSUME b \sqsubseteq a, NEW r \in Nat PROVE Count(r, b) <= Count(r, a)
  <2>1. CASE r \in DOMAIN b BY <1>2, <1>3, <1>4, <1>5, <2>1
  <2>2. CASE r \notin DOMAIN b
    <3>1. Count(r, b) = 0 /\ Count(r, a) \in Nat BY <1>3, <2>2, CountFacts
    <3> QED BY <3>1
  <2> QED BY <2>1, <2>2
<1>6. ASSUME \A r \in Nat : Count(r, b) <= Count(r, a) PROVE b \sqsubseteq a
  <2>1. ASSUME NEW e \in DOMAIN b PROVE e \in DOMAIN a /\ b[e] <= a[e]
    <3>1. Count(e, b) = b[e] /\ b[e] \in Nat /\ b[e] > 0 /\ Count(e, b) <= Count(e, a)
      BY <1>1, <1>3, <1>6
    <3>2. e \in DOMAIN a
      <4> SUFFICES ASSUME e \notin DOMAIN a PROVE FALSE OBVIOUS
      <4>1. Count(e, a) = 0 BY <1>2
      <4> QED BY <3>1, <4>1
    <3> QED BY <1>2, <3>1, <3>2
  <2> QED BY <1>4, <2>1, Zenon
<1> QED BY <1>5, <1>6

-----------------------------------------------------------------------------
(***************************************************************************)
(* Encoding: what holds between two fields of a section.                   *)
(***************************************************************************)
Values == {f.value : f \in Fields}
Lines ==
  [op : {"literal"}, field : Fields] \cup [op : {"indexed", "post-base"}, index : Int]
    \cup [op : {"name", "post-base name"}, index : Int, value : Values]
Instructions ==
  [op : {"literal"}, field : Fields] \cup [op : {"duplicate"}, index : Int]
    \cup [op : {"name"}, index : Int, value : Values] \cup [op : {"size"}, size : Sizes]
Encoders ==
  [t : Tables, track : Refs, base : Nat, refs : Refs, lines : Seq(Lines),
   ins : Seq(Instructions), required : Nat, panic : BOOLEAN]

(* The encoder s began with table e and tracked m.                         *)
Sound(e, m, s) ==
  /\ s \in Encoders /\ m \in Refs
  /\ s.panic = FALSE
  /\ Leads(e, s.ins, s.t)
  /\ s.t.max_size = e.max_size
  /\ \A i \in 1 .. Len(s.ins) : s.ins[i].op # "size"
  /\ \A r \in Nat : Count(r, s.track) = Count(r, m) + Count(r, s.refs)
  /\ \A r \in Nat : Count(r, s.track) > 0 => Live(s.t, r)
  /\ \A r \in Nat : total_inserted(e) < r /\ r <= total_inserted(s.t) =>
       Count(r, s.refs) > 0 /\ r <= s.required
  /\ s.required = 0 \/ Count(s.required, s.refs) > 0

(* The entry a line refers to.                                             *)
Absolute(base, l) ==
  IF l.op \in {"indexed", "name"} THEN base - l.index ELSE base + l.index + 1

(* A line of the section stands for f, whatever is encoded after it.       *)
Means(t, base, l, f) ==
  \/ l.op = "literal" /\ l.field = f
  \/ l.op \in {"indexed", "post-base"} /\ Entry(t, Absolute(base, l)) = f
  \/ l.op \in {"name", "post-base name"} /\ l.value = f.value
       /\ Entry(t, Absolute(base, l)) \in Named(f.name)
(* A line refers to what is tracked for the section.                       *)
RefersWithin(refs, required, base, l) ==
  l.op # "literal" =>
    /\ Absolute(base, l) \in Nat /\ Absolute(base, l) <= required
    /\ Count(Absolute(base, l), refs) > 0
LineOK(s, l, f) == Means(s.t, s.base, l, f) /\ RefersWithin(s.refs, s.required, s.base, l)

(* From s to u only more was encoded.                                      *)
Grows(s, u) ==
  /\ u.base = s.base /\ s.required <= u.required
  /\ \A r \in Nat : Count(r, s.refs) > 0 =>
       Count(r, u.refs) > 0 /\ Entry(s.t, r) = Entry(u.t, r)

(* A line stands for its field after more is encoded.                      *)
LEMMA LineStays ==
  ASSUME NEW s \in Encoders, NEW u \in Encoders, Grows(s, u), NEW l, NEW f, LineOK(s, l, f)
  PROVE  LineOK(u, l, f)
<1>1. s.required \in Nat /\ u.required \in Nat /\ s.required <= u.required /\ u.base = s.base
  BY DEF Grows, Encoders
<1>2. CASE l.op = "literal" BY <1>2, Zenon DEF LineOK, Means, RefersWithin
<1>3. CASE l.op # "literal"
  <2> DEFINE a == Absolute(s.base, l)
  <2>1. a \in Nat /\ a <= s.required /\ Count(a, s.refs) > 0
    BY <1>3, Zenon DEF LineOK, RefersWithin
  <2>2. Count(a, u.refs) > 0 /\ Entry(s.t, a) = Entry(u.t, a) BY <2>1, Zenon DEF Grows
  <2>3. a <= u.required BY <1>1, <2>1
  <2>4. a = Absolute(u.base, l) BY <1>1, Zenon
  <2>5. Means(u.t, u.base, l, f) BY <1>1, <1>3, <2>2, <2>4, Zenon DEF LineOK, Means
  <2>6. RefersWithin(u.refs, u.required, u.base, l)
    BY <2>1, <2>2, <2>3, <2>4, Zenon DEF RefersWithin
  <2> QED BY <2>5, <2>6, Zenon DEF LineOK
<1> QED BY <1>2, <1>3

(* The larger of two numbers.                                              *)
LEMMA MaxOfTwo ==
  ASSUME NEW a \in Nat, NEW b \in Nat
  PROVE  /\ Max({a, b}) \in Nat /\ a <= Max({a, b}) /\ b <= Max({a, b})
         /\ Max({a, b}) \in {a, b}
<1>1. {a, b} \subseteq 0 .. (a + b) /\ {a, b} # {} /\ a + b \in Nat OBVIOUS
<1>2. Max({a, b}) \in {a, b} /\ \A y \in {a, b} : y <= Max({a, b}) BY <1>1, MaxOf, Zenon
<1> QED BY <1>2

(* What is known of the parts of the encoder.                              *)
LEMMA EncoderFacts ==
  ASSUME NEW s \in Encoders
  PROVE  /\ s.t \in Tables /\ s.track \in Refs /\ s.base \in Nat /\ s.refs \in Refs
         /\ s.lines \in Seq(Lines) /\ s.ins \in Seq(Instructions) /\ s.required \in Nat
BY DEF Encoders

(* A reference to an entry of the table.                                   *)
LEMMA Referring ==
  ASSUME NEW e, NEW m, NEW s, Sound(e, m, s), NEW r \in Nat, Live(s.t, r),
         NEW u \in Encoders, u.t = s.t, u.base = s.base, u.ins = s.ins, u.panic = s.panic,
         u.refs = s.refs (+) One(r), u.track = s.track (+) One(r),
         u.required \in {s.required, Max({s.required, r})}
  PROVE  Sound(e, m, u) /\ Grows(s, u)
<1>1. s \in Encoders BY DEF Sound
<1>2. /\ s.refs \in Refs /\ s.track \in Refs /\ s.required \in Nat
      /\ One(r) \in Refs /\ \A q : Count(q, One(r)) = IF q = r THEN 1 ELSE 0
  BY <1>1, EncoderFacts, OneRef
<1>3. /\ \A q : Count(q, u.refs) = Count(q, s.refs) + Count(q, One(r))
      /\ \A q : Count(q, u.track) = Count(q, s.track) + Count(q, One(r))
  BY <1>2, RefsAdded
<1>4. \A q : Count(q, s.refs) \in Nat /\ Count(q, s.track) \in Nat /\ Count(q, One(r)) \in Nat
  BY <1>2, CountFacts
<1>5. ASSUME NEW q PROVE Count(q, s.refs) > 0 \/ q = r => Count(q, u.refs) > 0
  <2>1. Count(q, u.refs) = Count(q, s.refs) + Count(q, One(r))
        /\ Count(q, s.refs) \in Nat /\ Count(q, One(r)) \in Nat
        /\ (q = r => Count(q, One(r)) = 1)
    BY <1>2, <1>3, <1>4
  <2> QED BY <2>1
<1>6. s.required <= u.required /\ u.required \in {s.required, r}
  BY <1>2, MaxOfTwo
<1>7. \A q \in Nat : Count(q, u.track) = Count(q, m) + Count(q, u.refs)
  <2> SUFFICES ASSUME NEW q \in Nat PROVE Count(q, u.track) = Count(q, m) + Count(q, u.refs)
    OBVIOUS
  <2>1. Count(q, s.track) = Count(q, m) + Count(q, s.refs) /\ m \in Refs BY DEF Sound
  <2>2. Count(q, m) \in Nat BY <2>1, CountFacts
  <2>3. /\ Count(q, u.refs) = Count(q, s.refs) + Count(q, One(r))
        /\ Count(q, u.track) = Count(q, s.track) + Count(q, One(r))
        /\ Count(q, s.refs) \in Nat /\ Count(q, One(r)) \in Nat
    BY <1>3, <1>4, Zenon
  <2> QED BY <2>1, <2>2, <2>3
<1>8. \A q \in Nat : Count(q, u.track) > 0 => Live(u.t, q)
  <2> SUFFICES ASSUME NEW q \in Nat, Count(q, u.track) > 0 PROVE Live(u.t, q)
    OBVIOUS
  <2>1. CASE q = r BY <2>1
  <2>2. CASE q # r
    <3>1. Count(q, u.track) = Count(q, s.track) + Count(q, One(r)) /\ Count(q, One(r)) = 0
          /\ Count(q, s.track) \in Nat
      BY <1>2, <1>3, <1>4, <2>2
    <3>2. Count(q, s.track) > 0 BY <3>1
    <3> QED BY <3>2, Zenon DEF Sound
  <2> QED BY <2>1, <2>2
<1>9. \A q \in Nat : total_inserted(e) < q /\ q <= total_inserted(u.t) =>
        Count(q, u.refs) > 0 /\ q <= u.required
  <2> SUFFICES ASSUME NEW q \in Nat, total_inserted(e) < q, q <= total_inserted(u.t)
               PROVE  Count(q, u.refs) > 0 /\ q <= u.required
    OBVIOUS
  <2>1. Count(q, s.refs) > 0 /\ q <= s.required BY Zenon DEF Sound
  <2>2. u.required \in Nat BY EncoderFacts
  <2> QED BY <1>2, <1>5, <1>6, <2>1, <2>2
<1>10. u.required = 0 \/ Count(u.required, u.refs) > 0
  <2>1. s.required = 0 \/ Count(s.required, s.refs) > 0 BY DEF Sound
  <2>2. u.required = r \/ u.required = s.required BY <1>6
  <2> QED BY <1>5, <2>1, <2>2, Zenon
<1>11. Sound(e, m, u) BY <1>7, <1>8, <1>9, <1>10, Zenon DEF Sound
<1>12. Grows(s, u) BY <1>5, <1>6, Zenon DEF Grows
<1> QED BY <1>11, <1>12

(* A field is inserted, and referred to.                                   *)
LEMMA Entering ==
  ASSUME NEW e, NEW m, NEW s, Sound(e, m, s), NEW f \in Fields,
         CanInsert(s.t, s.track, f),
         NEW i \in Instructions, i.op # "size", InstructedField(s.t, i) = f,
         NEW new, new = total_inserted(s.t) + 1,
         NEW u \in Encoders, u.t = insert(s.t, f), u.base = s.base, u.ins = Append(s.ins, i),
         u.panic = s.panic,
         u.refs = s.refs (+) One(new), u.track = s.track (+) One(new),
         u.required = Max({s.required, new})
  PROVE  Sound(e, m, u) /\ Grows(s, u)
<1>1. s \in Encoders BY DEF Sound
<1>2. /\ s.t \in Tables /\ s.ins \in Seq(Instructions)
      /\ total_inserted(s.t) \in Nat /\ new \in Nat /\ s.t.dropped \in Nat
      /\ mem_size[f] <= s.t.max_size /\ s.t.max_size # 0
      /\ mem_size[f] \in Nat
  <2>1. s.t \in Tables /\ s.ins \in Seq(Instructions) BY <1>1, EncoderFacts
  <2>2. total_inserted(s.t) \in Nat /\ s.t.dropped \in Nat BY <2>1, TableFacts
  <2>3. mem_size[f] <= s.t.max_size /\ s.t.max_size # 0 BY Zenon DEF CanInsert, can_free
  <2>4. mem_size[f] \in Nat BY FieldsAssumption
  <2> QED BY <2>1, <2>2, <2>3, <2>4
<1>3. /\ s.refs \in Refs /\ s.track \in Refs /\ s.required \in Nat
      /\ One(new) \in Refs /\ \A q : Count(q, One(new)) = IF q = new THEN 1 ELSE 0
  BY <1>1, <1>2, EncoderFacts, OneRef
<1>4. /\ \A q : Count(q, u.refs) = Count(q, s.refs) + Count(q, One(new))
      /\ \A q : Count(q, u.track) = Count(q, s.track) + Count(q, One(new))
  BY <1>3, RefsAdded
<1>5. \A q : Count(q, s.refs) \in Nat /\ Count(q, s.track) \in Nat /\ Count(q, One(new)) \in Nat
  BY <1>3, CountFacts
<1>6. ASSUME NEW q PROVE Count(q, s.refs) > 0 \/ q = new => Count(q, u.refs) > 0
  <2>1. Count(q, u.refs) = Count(q, s.refs) + Count(q, One(new))
        /\ Count(q, s.refs) \in Nat /\ Count(q, One(new)) \in Nat
        /\ (q = new => Count(q, One(new)) = 1)
    BY <1>3, <1>4, <1>5
  <2> QED BY <2>1
<1>7. u.required \in Nat /\ s.required <= u.required /\ new <= u.required
      /\ u.required \in {s.required, new}
  BY <1>2, <1>3, MaxOfTwo
<1>8. /\ u.t \in Tables /\ u.t.max_size = s.t.max_size
      /\ u.t.dropped = MakeRoom(s.t, f).dropped
      /\ total_inserted(u.t) = new
      /\ Follows(s.t, u.t) /\ Live(u.t, new)
  BY <1>2, Inserting, InsertedFollows
<1>9. Leads(e, u.ins, u.t)
  <2>1. Apply(s.t, i) = u.t BY <1>2, AppliedInsert
  <2>2. Leads(s.t, <<i>>, u.t) BY <1>2, <1>8, <2>1, LeadsTo
  <2>3. Leads(e, s.ins, s.t) BY DEF Sound
  <2>4. <<i>> \in Seq(Instructions) OBVIOUS
  <2>5. Leads(e, s.ins \o <<i>>, u.t) BY <1>2, <2>2, <2>3, <2>4, LeadsJoin
  <2>6. s.ins \o <<i>> = Append(s.ins, i) BY <1>2
  <2> QED BY <2>5, <2>6
<1>10. \A k \in 1 .. Len(u.ins) : u.ins[k].op # "size"
  <2>1. \A k \in 1 .. Len(s.ins) : s.ins[k].op # "size" BY DEF Sound
  <2>2. \A k \in 1 .. Len(Append(s.ins, i)) :
          (k \in 1 .. Len(s.ins) /\ Append(s.ins, i)[k] = s.ins[k]) \/ Append(s.ins, i)[k] = i
    BY <1>2
  <2> QED BY <2>1, <2>2, Zenon
<1>11. \A q \in Nat : Count(q, u.track) = Count(q, m) + Count(q, u.refs)
  <2> SUFFICES ASSUME NEW q \in Nat PROVE Count(q, u.track) = Count(q, m) + Count(q, u.refs)
    OBVIOUS
  <2>1. Count(q, s.track) = Count(q, m) + Count(q, s.refs) /\ m \in Refs BY DEF Sound
  <2>2. Count(q, m) \in Nat BY <2>1, CountFacts
  <2>3. /\ Count(q, u.refs) = Count(q, s.refs) + Count(q, One(new))
        /\ Count(q, u.track) = Count(q, s.track) + Count(q, One(new))
        /\ Count(q, s.refs) \in Nat /\ Count(q, One(new)) \in Nat
    BY <1>4, <1>5, Zenon
  <2> QED BY <2>1, <2>2, <2>3
<1>12. ASSUME NEW q \in Nat, Count(q, s.track) > 0 PROVE Live(u.t, q)
  <2> DEFINE n == ToEvict(s.t, mem_size[f])
  <2>1. Live(s.t, q) BY <1>12, Zenon DEF Sound
  <2>2. n \in 0 .. Len(s.t.fields) BY <1>2, ToEvictFits
  <2>3. u.t.dropped = s.t.dropped + n
    <3> HIDE DEF n
    <3>1. evict(s.t, n).dropped = s.t.dropped + n BY <1>2, <2>2, Evicted
    <3> QED BY <1>8, <3>1, Zenon DEF MakeRoom, n
  <2>4. \A k \in 1 .. n : ~BagIn(s.t.dropped + k, s.track) BY Zenon DEF CanInsert, can_free
  <2> HIDE DEF n
  <2>5. BagIn(q, s.track) BY <1>3, <1>12, CountFacts
  <2>6. s.t.dropped < q /\ q <= total_inserted(s.t) BY <2>1, Zenon DEF Live
  <2>7. ~(q - s.t.dropped \in 1 .. n)
    <3> SUFFICES ASSUME q - s.t.dropped \in 1 .. n PROVE FALSE OBVIOUS
    <3>1. s.t.dropped + (q - s.t.dropped) = q BY <1>2
    <3> QED BY <2>4, <2>5, <3>1, Zenon
  <2>8. n \in Nat BY <2>2
  <2>9. s.t.dropped + n < q BY <1>2, <2>6, <2>7, <2>8
  <2>10. q <= total_inserted(u.t) BY <1>2, <1>8, <2>6
  <2> QED BY <2>3, <2>9, <2>10, Zenon DEF Live
<1>13. \A q \in Nat : Count(q, u.track) > 0 => Live(u.t, q)
  <2> SUFFICES ASSUME NEW q \in Nat, Count(q, u.track) > 0 PROVE Live(u.t, q)
    OBVIOUS
  <2>1. CASE q = new BY <1>8, <2>1
  <2>2. CASE q # new
    <3>1. Count(q, u.track) = Count(q, s.track) + Count(q, One(new)) /\ Count(q, One(new)) = 0
          /\ Count(q, s.track) \in Nat
      BY <1>3, <1>4, <1>5, <2>2
    <3>2. Count(q, s.track) > 0 BY <3>1
    <3> QED BY <1>12, <3>2
  <2> QED BY <2>1, <2>2
<1>14. \A q \in Nat : total_inserted(e) < q /\ q <= total_inserted(u.t) =>
         Count(q, u.refs) > 0 /\ q <= u.required
  <2> SUFFICES ASSUME NEW q \in Nat, total_inserted(e) < q, q <= total_inserted(u.t)
               PROVE  Count(q, u.refs) > 0 /\ q <= u.required
    OBVIOUS
  <2>1. CASE q = new BY <1>6, <1>7, <2>1
  <2>2. CASE q # new
    <3>1. q <= total_inserted(s.t) BY <1>2, <1>8, <2>2
    <3>2. Count(q, s.refs) > 0 /\ q <= s.required BY <3>1, Zenon DEF Sound
    <3> QED BY <1>3, <1>6, <1>7, <3>2
  <2> QED BY <2>1, <2>2
<1>15. u.required = 0 \/ Count(u.required, u.refs) > 0
  <2>1. s.required = 0 \/ Count(s.required, s.refs) > 0 BY DEF Sound
  <2>2. u.required = new \/ u.required = s.required BY <1>7
  <2> QED BY <1>6, <2>1, <2>2, Zenon
<1>16. m \in Refs /\ s.panic = FALSE /\ s.t.max_size = e.max_size BY DEF Sound
<1>17. Sound(e, m, u) BY <1>8, <1>9, <1>10, <1>11, <1>13, <1>14, <1>15, <1>16, Zenon DEF Sound
<1>18. ASSUME NEW q \in Nat, Count(q, s.refs) > 0 PROVE Entry(s.t, q) = Entry(u.t, q)
  <2>1. Count(q, s.track) = Count(q, m) + Count(q, s.refs) BY DEF Sound
  <2>2. Count(q, m) \in Nat BY <1>16, CountFacts
  <2>3. Count(q, s.track) > 0 BY <1>5, <1>18, <2>1, <2>2
  <2>4. Live(s.t, q) BY <2>3, Zenon DEF Sound
  <2>5. Live(u.t, q) BY <1>12, <2>3
  <2> QED BY <1>8, <2>4, <2>5, Zenon DEF Follows
<1>19. Grows(s, u) BY <1>6, <1>7, <1>18, Zenon DEF Grows
<1> QED BY <1>17, <1>19

(* More is encoded in steps.                                               *)
LEMMA GrowsTrans ==
  ASSUME NEW s \in Encoders, NEW u \in Encoders, NEW v \in Encoders, Grows(s, u), Grows(u, v)
  PROVE  Grows(s, v)
<1>1. s.required \in Nat /\ u.required \in Nat /\ v.required \in Nat BY EncoderFacts
<1>2. s.required <= v.required BY <1>1 DEF Grows
<1>3. v.base = s.base BY DEF Grows
<1>4. \A r \in Nat : Count(r, s.refs) > 0 => Count(r, v.refs) > 0 /\ Entry(s.t, r) = Entry(v.t, r)
  BY Zenon DEF Grows
<1> QED BY <1>2, <1>3, <1>4, Zenon DEF Grows

(* Nothing is encoded.                                                     *)
LEMMA GrowsSelf == ASSUME NEW s \in Encoders PROVE Grows(s, s)
BY EncoderFacts DEF Grows

(* The field f has become a line of the section.                           *)
Took(e, m, s, u, f) ==
  /\ Sound(e, m, u) /\ Grows(s, u)
  /\ \E l \in Lines : u.lines = Append(s.lines, l) /\ LineOK(u, l, f)

(* A literal is written.                                                   *)
LEMMA Writing ==
  ASSUME NEW e, NEW m, NEW s, Sound(e, m, s), NEW f \in Fields
  PROVE  Took(e, m, s, Write(s, Literal(f)), f)
<1> DEFINE l == Literal(f)
           u == Write(s, l)
<1>1. s \in Encoders BY DEF Sound
<1>2. l \in Lines /\ l.op = "literal" /\ l.field = f BY DEF Literal, Lines
<1>3. LineOK(u, l, f) BY <1>2, Zenon DEF LineOK, Means, RefersWithin
<1> HIDE DEF l
<1>4. /\ u.t = s.t /\ u.track = s.track /\ u.refs = s.refs /\ u.ins = s.ins /\ u.base = s.base
      /\ u.required = s.required /\ u.panic = s.panic /\ u.lines = Append(s.lines, l)
      /\ u \in Encoders
  <2>1. Append(s.lines, l) \in Seq(Lines) BY <1>1, <1>2, EncoderFacts
  <2> QED BY <1>1, <2>1 DEF Write, Encoders
<1> HIDE DEF u
<1>5. Sound(e, m, u) BY <1>4, Zenon DEF Sound
<1>6. Grows(s, u) BY <1>1, <1>4, GrowsSelf, Zenon DEF Grows
<1> QED BY <1>2, <1>3, <1>4, <1>5, <1>6, Zenon DEF Took, l, u

(* An entry in the table is tracked.                                       *)
LEMMA Tracking ==
  ASSUME NEW e, NEW m, NEW s, Sound(e, m, s), NEW r \in Nat, Live(s.t, r)
  PROVE  LET u == track_ref(s, r) IN
         /\ Sound(e, m, u) /\ Grows(s, u) /\ u.t = s.t /\ u.lines = s.lines /\ u.base = s.base
<1> DEFINE u == track_ref(s, r)
<1>1. s \in Encoders BY DEF Sound
<1>2. s.refs (+) One(r) \in Refs /\ s.track (+) One(r) \in Refs
  BY <1>1, EncoderFacts, OneRef, RefsAdded
<1>3. /\ u.t = s.t /\ u.track = s.track (+) One(r) /\ u.refs = s.refs (+) One(r)
      /\ u.ins = s.ins /\ u.base = s.base /\ u.required = s.required /\ u.panic = s.panic
      /\ u.lines = s.lines /\ u \in Encoders
  BY <1>1, <1>2 DEF track_ref, Encoders
<1> HIDE DEF u
<1>4. u.required \in {s.required, Max({s.required, r})} BY <1>3
<1>5. Sound(e, m, u) /\ Grows(s, u) BY <1>3, <1>4, Referring
<1> QED BY <1>3, <1>5 DEF u

(* A line is written that refers to an entry.                              *)
LEMMA WritingRef ==
  ASSUME NEW e, NEW m, NEW s, Sound(e, m, s), NEW r \in Nat, Live(s.t, r),
         NEW l \in Lines, l.op # "literal", Absolute(s.base, l) = r,
         NEW f, Means(s.t, s.base, l, f)
  PROVE  Took(e, m, s, WriteRef(s, r, l), f)
<1> DEFINE u == WriteRef(s, r, l)
<1>1. s \in Encoders BY DEF Sound
<1>2. s.refs (+) One(r) \in Refs /\ s.track (+) One(r) \in Refs
      /\ \A q : Count(q, s.refs (+) One(r)) = Count(q, s.refs) + Count(q, One(r))
  BY <1>1, EncoderFacts, OneRef, RefsAdded
<1>3. Append(s.lines, l) \in Seq(Lines) BY <1>1, EncoderFacts
<1>4. Max({s.required, r}) \in Nat /\ r <= Max({s.required, r}) BY <1>1, EncoderFacts, MaxOfTwo
<1>5. /\ u.t = s.t /\ u.track = s.track (+) One(r) /\ u.refs = s.refs (+) One(r)
      /\ u.ins = s.ins /\ u.base = s.base /\ u.required = Max({s.required, r})
      /\ u.panic = s.panic /\ u.lines = Append(s.lines, l) /\ u \in Encoders
  BY <1>1, <1>2, <1>3, <1>4 DEF WriteRef, Write, track_ref, Encoders
<1> HIDE DEF u
<1>6. u.required \in {s.required, Max({s.required, r})} BY <1>5
<1>7. Sound(e, m, u) /\ Grows(s, u) BY <1>5, <1>6, Referring
<1>8. Count(r, u.refs) > 0
  <2>1. Count(r, s.refs) \in Nat /\ Count(r, One(r)) = 1 BY <1>1, EncoderFacts, CountFacts, OneRef
  <2> QED BY <1>2, <1>5, <2>1
<1>9. LineOK(u, l, f)
  <2>1. Means(u.t, u.base, l, f) BY <1>5, Zenon
  <2>2. RefersWithin(u.refs, u.required, u.base, l) BY <1>4, <1>5, <1>8, Zenon DEF RefersWithin
  <2> QED BY <2>1, <2>2, Zenon DEF LineOK
<1>10. Took(e, m, s, u, f) BY <1>5, <1>7, <1>9, Zenon DEF Took
<1> QED BY <1>10 DEF u

(* Something is tracked first, in vain.                                    *)
LEMMA TookAfter ==
  ASSUME NEW e, NEW m, NEW s \in Encoders, NEW v \in Encoders, Grows(s, v), v.lines = s.lines,
         NEW u, NEW f, Took(e, m, v, u, f)
  PROVE  Took(e, m, s, u, f)
<1>1. u \in Encoders BY DEF Took, Sound
<1>2. Grows(s, u) BY <1>1, GrowsTrans DEF Took
<1> QED BY <1>2, Zenon DEF Took

(* A line that refers to an entry.                                         *)
LEMMA IndexedLine ==
  ASSUME NEW base \in Nat, NEW r \in Nat
  PROVE  /\ Indexed(base - r) \in Lines /\ Indexed(base - r).op = "indexed"
         /\ Absolute(base, Indexed(base - r)) = r
         /\ IndexedWithPostBase(r - base - 1) \in Lines
         /\ IndexedWithPostBase(r - base - 1).op = "post-base"
         /\ Absolute(base, IndexedWithPostBase(r - base - 1)) = r
<1>1. base - r \in Int /\ r - base - 1 \in Int OBVIOUS
<1>2. Indexed(base - r) \in Lines /\ IndexedWithPostBase(r - base - 1) \in Lines
  BY <1>1 DEF Indexed, IndexedWithPostBase, Lines
<1> QED BY <1>2 DEF Indexed, IndexedWithPostBase, Absolute

(* A literal that refers to the name of an entry, before the base or after *)
(* it.                                                                     *)
LEMMA NamedLine ==
  ASSUME NEW base \in Nat, NEW r \in Nat, NEW f \in Fields
  PROVE  /\ LiteralWithNameRef(base - r, f.value) \in Lines
         /\ LiteralWithNameRef(base - r, f.value).op = "name"
         /\ LiteralWithNameRef(base - r, f.value).value = f.value
         /\ Absolute(base, LiteralWithNameRef(base - r, f.value)) = r
         /\ LiteralWithPostBaseNameRef(r - base - 1, f.value) \in Lines
         /\ LiteralWithPostBaseNameRef(r - base - 1, f.value).op = "post-base name"
         /\ LiteralWithPostBaseNameRef(r - base - 1, f.value).value = f.value
         /\ Absolute(base, LiteralWithPostBaseNameRef(r - base - 1, f.value)) = r
<1>1. base - r \in Int /\ r - base - 1 \in Int /\ f.value \in Values BY DEF Values
<1>2. LiteralWithNameRef(base - r, f.value) \in Lines
      /\ LiteralWithPostBaseNameRef(r - base - 1, f.value) \in Lines
  BY <1>1 DEF LiteralWithNameRef, LiteralWithPostBaseNameRef, Lines
<1>3. /\ LiteralWithNameRef(base - r, f.value).op = "name"
      /\ LiteralWithNameRef(base - r, f.value).value = f.value
      /\ LiteralWithNameRef(base - r, f.value).index = base - r
  BY DEF LiteralWithNameRef
<1>4. /\ LiteralWithPostBaseNameRef(r - base - 1, f.value).op = "post-base name"
      /\ LiteralWithPostBaseNameRef(r - base - 1, f.value).value = f.value
      /\ LiteralWithPostBaseNameRef(r - base - 1, f.value).index = r - base - 1
  BY DEF LiteralWithPostBaseNameRef
<1>5. base - (base - r) = r /\ base + (r - base - 1) + 1 = r OBVIOUS
<1>6. Absolute(base, LiteralWithNameRef(base - r, f.value)) = r
  BY <1>3, <1>5, Zenon DEF Absolute
<1>7. Absolute(base, LiteralWithPostBaseNameRef(r - base - 1, f.value)) = r
  <2>1. "post-base name" \notin {"indexed", "name"} OBVIOUS
  <2> QED BY <1>4, <1>5, <2>1, Zenon DEF Absolute
<1> QED BY <1>2, <1>3, <1>4, <1>6, <1>7

(* The field is not inserted.                                              *)
LEMMA NotInsertedTook ==
  ASSUME NEW e, NEW m, NEW s, Sound(e, m, s), NEW f \in Fields
  PROVE  Took(e, m, s, NotInserted(s, f), f)
<1> DEFINE n == Newest(s.t, Named(f.name))
<1>1. s.t \in Tables /\ s.base \in Nat BY EncoderFacts DEF Sound
<1>2. n \in Nat /\ (n # 0 => Live(s.t, n) /\ Entry(s.t, n) \in Named(f.name))
  <2>1. n \in 0 .. total_inserted(s.t) BY <1>1, NewestIsLive
  <2> QED BY <1>1, <2>1, NewestIsLive
<1>3. NotInserted(s, f) =
        IF f.name \in StaticNames \/ n = 0 THEN Write(s, Literal(f))
        ELSE IF n <= s.base THEN WriteRef(s, n, LiteralWithNameRef(s.base - n, f.value))
        ELSE WriteRef(s, n, LiteralWithPostBaseNameRef(n - s.base - 1, f.value))
  BY Zenon DEF NotInserted
<1> HIDE DEF n
<1>4. CASE f.name \in StaticNames \/ n = 0 BY <1>3, <1>4, Writing, Zenon
<1>5. CASE ~(f.name \in StaticNames \/ n = 0) /\ n <= s.base
  <2> DEFINE l == LiteralWithNameRef(s.base - n, f.value)
  <2>1. l \in Lines /\ l.op = "name" /\ l.value = f.value /\ Absolute(s.base, l) = n
    BY <1>1, <1>2, NamedLine
  <2>2. NotInserted(s, f) = WriteRef(s, n, l) BY <1>3, <1>5, Zenon
  <2> HIDE DEF l
  <2>3. Means(s.t, s.base, l, f) BY <1>2, <1>5, <2>1, Zenon DEF Means
  <2>4. l.op # "literal" BY <2>1
  <2> QED BY <1>2, <1>5, <2>1, <2>2, <2>3, <2>4, WritingRef, Zenon
<1>6. CASE ~(f.name \in StaticNames \/ n = 0) /\ ~(n <= s.base)
  <2> DEFINE l == LiteralWithPostBaseNameRef(n - s.base - 1, f.value)
  <2>1. l \in Lines /\ l.op = "post-base name" /\ l.value = f.value /\ Absolute(s.base, l) = n
    BY <1>1, <1>2, NamedLine
  <2>2. NotInserted(s, f) = WriteRef(s, n, l) BY <1>3, <1>6, Zenon
  <2> HIDE DEF l
  <2>3. Means(s.t, s.base, l, f) BY <1>2, <1>6, <2>1, Zenon DEF Means
  <2>4. l.op # "literal" BY <2>1
  <2> QED BY <1>2, <1>6, <2>1, <2>2, <2>3, <2>4, WritingRef, Zenon
<1> QED BY <1>4, <1>5, <1>6, Zenon

(* The field is inserted: it was not tracked away what has to go.          *)
LEMMA InsertedTook ==
  ASSUME NEW e, NEW m, NEW s, Sound(e, m, s), NEW f \in Fields, CanInsert(s.t, s.track, f)
  PROVE  Took(e, m, s, Inserted(s, f), f)
<1> DEFINE left == MakeRoom(s.t, f)
           new == total_inserted(left) + 1
           same == Newest(left, {f})
           named == Newest(left, Named(f.name))
           l == IndexedWithPostBase(new - s.base - 1)
           done == [WriteRef(s, new, l) EXCEPT !.t = insert(s.t, f)]
           Instruct(d, i) == [d EXCEPT !.ins = Append(@, i)]
<1>1. s \in Encoders BY DEF Sound
<1>2. /\ s.t \in Tables /\ s.base \in Nat /\ s.lines \in Seq(Lines) /\ s.ins \in Seq(Instructions)
      /\ s.required \in Nat
  BY <1>1, EncoderFacts
<1>3. mem_size[f] <= s.t.max_size BY Zenon DEF CanInsert, can_free
<1>4. /\ left \in Tables /\ total_inserted(left) = total_inserted(s.t)
      /\ \A r \in Nat : Live(left, r) => Live(s.t, r) /\ Entry(left, r) = Entry(s.t, r)
      /\ insert(s.t, f) \in Tables /\ insert(s.t, f).dropped = left.dropped
      /\ total_inserted(insert(s.t, f)) = total_inserted(s.t) + 1
      /\ Entry(insert(s.t, f), total_inserted(s.t) + 1) = f
  BY <1>2, <1>3, Inserting, InsertedFollows
<1> HIDE DEF left
<1>5. total_inserted(s.t) \in Nat /\ new \in Nat /\ new = total_inserted(s.t) + 1
  BY <1>2, <1>4, TableFacts
<1>6. /\ same \in Nat /\ (same # 0 => Live(left, same) /\ Entry(left, same) = f)
      /\ named \in Nat /\ (named # 0 => Live(left, named) /\ Entry(left, named) \in Named(f.name))
  <2>1. same \in 0 .. total_inserted(left) /\ named \in 0 .. total_inserted(left)
    BY <1>4, NewestIsLive
  <2>2. \A r \in 0 .. total_inserted(left) : r \in Nat OBVIOUS
  <2>3. same # 0 => Live(left, same) /\ Entry(left, same) \in {f} BY <1>4, NewestIsLive
  <2>4. named # 0 => Live(left, named) /\ Entry(left, named) \in Named(f.name)
    BY <1>4, NewestIsLive
  <2> HIDE DEF same, named
  <2> QED BY <2>1, <2>2, <2>3, <2>4
<1>7. Inserted(s, f) =
        IF same # 0 THEN Instruct(track_ref(done, same), Duplicate(new - same - 1))
        ELSE IF f.name \in StaticNames \/ named = 0 THEN Instruct(done, InsertWithoutNameRef(f))
        ELSE Instruct(track_ref(done, named), InsertWithNameRef(new - named - 1, f.value))
  BY Zenon DEF Inserted, left
<1>8. l \in Lines /\ l.op = "post-base" /\ Absolute(s.base, l) = new
  <2> HIDE DEF new
  <2> QED BY <1>2, <1>5, IndexedLine
<1> HIDE DEF l, new, same, named
<1>9. /\ s.refs \in Refs /\ s.track \in Refs
      /\ s.refs (+) One(new) \in Refs /\ s.track (+) One(new) \in Refs
      /\ \A q : Count(q, s.refs (+) One(new)) = Count(q, s.refs) + Count(q, One(new))
  BY <1>1, <1>5, EncoderFacts, OneRef, RefsAdded
<1>10. Append(s.lines, l) \in Seq(Lines) BY <1>2, <1>8
<1>11. Max({s.required, new}) \in Nat /\ new <= Max({s.required, new}) BY <1>2, <1>5, MaxOfTwo
<1>12. /\ done \in Encoders
       /\ done.t = insert(s.t, f) /\ done.base = s.base /\ done.ins = s.ins
       /\ done.panic = s.panic /\ done.lines = Append(s.lines, l)
       /\ done.refs = s.refs (+) One(new) /\ done.track = s.track (+) One(new)
       /\ done.required = Max({s.required, new})
  BY <1>1, <1>4, <1>9, <1>10, <1>11 DEF WriteRef, Write, track_ref, Encoders
<1> HIDE DEF done
<1>13. ASSUME NEW i \in Instructions, i.op # "size", InstructedField(s.t, i) = f
       PROVE  /\ Took(e, m, s, Instruct(done, i), f)
              /\ \A x \in Nat : Live(left, x) => Took(e, m, s, Instruct(track_ref(done, x), i), f)
  <2> DEFINE u == Instruct(done, i)
  <2>1. Append(s.ins, i) \in Seq(Instructions) BY <1>2
  <2>2. /\ u \in Encoders
        /\ u.t = insert(s.t, f) /\ u.base = s.base /\ u.ins = Append(s.ins, i)
        /\ u.panic = s.panic /\ u.lines = Append(s.lines, l)
        /\ u.refs = s.refs (+) One(new) /\ u.track = s.track (+) One(new)
        /\ u.required = Max({s.required, new})
    BY <1>12, <2>1 DEF Encoders
  <2> HIDE DEF u
  <2>3. Sound(e, m, u) /\ Grows(s, u) BY <1>5, <1>13, <2>2, Entering
  <2>4. LineOK(u, l, f)
    <3>1. Count(new, s.refs) \in Nat /\ Count(new, One(new)) = 1
      BY <1>5, <1>9, CountFacts, OneRef
    <3>2. Count(new, u.refs) > 0 BY <1>9, <2>2, <3>1
    <3>3. Means(u.t, u.base, l, f) BY <1>4, <1>5, <1>8, <2>2, Zenon DEF Means
    <3>4. RefersWithin(u.refs, u.required, u.base, l)
      BY <1>5, <1>8, <1>11, <2>2, <3>2, Zenon DEF RefersWithin
    <3> QED BY <3>3, <3>4, Zenon DEF LineOK
  <2>5. Took(e, m, s, u, f) BY <1>8, <2>2, <2>3, <2>4, Zenon DEF Took
  <2>6. ASSUME NEW x \in Nat, Live(left, x) PROVE Took(e, m, s, Instruct(track_ref(done, x), i), f)
    <3> DEFINE v == Instruct(track_ref(done, x), i)
               w == track_ref(u, x)
    <3>1. v = w BY <1>12 DEF track_ref, u, Encoders
    <3>2. Live(u.t, x) BY <1>4, <1>5, <2>2, <2>6 DEF Live
    <3>3. Sound(e, m, w) /\ Grows(u, w) /\ w.lines = u.lines BY <2>3, <3>2, Tracking
    <3> HIDE DEF w
    <3>4. w \in Encoders BY <3>3 DEF Sound
    <3>5. Grows(s, w) BY <1>1, <2>2, <2>3, <3>3, <3>4, GrowsTrans
    <3>6. LineOK(w, l, f) BY <2>2, <2>4, <3>3, <3>4, LineStays
    <3>7. Took(e, m, s, w, f) BY <1>8, <2>2, <3>3, <3>5, <3>6, Zenon DEF Took
    <3> QED BY <3>1, <3>7, Zenon
  <2> QED BY <2>5, <2>6 DEF u
<1> HIDE DEF Instruct
<1>14. CASE same # 0
  <2> DEFINE i == Duplicate(new - same - 1)
  <2>1. i \in Instructions /\ i.op = "duplicate" /\ i.index = new - same - 1
    BY <1>5, <1>6 DEF Duplicate, Instructions
  <2>2. total_inserted(s.t) - i.index = same BY <1>5, <1>6, <2>1
  <2> HIDE DEF i
  <2>3. Live(s.t, same) /\ Entry(s.t, same) = f BY <1>4, <1>6, <1>14
  <2>4. InstructedField(s.t, i) = f BY <2>1, <2>2, <2>3, Zenon DEF InstructedField
  <2>5. Took(e, m, s, Instruct(track_ref(done, same), i), f) BY <1>6, <1>13, <1>14, <2>1, <2>4
  <2> QED BY <1>7, <1>14, <2>5, Zenon DEF i
<1>15. CASE same = 0 /\ (f.name \in StaticNames \/ named = 0)
  <2> DEFINE i == InsertWithoutNameRef(f)
  <2>1. i \in Instructions /\ i.op = "literal" /\ i.field = f
    BY DEF InsertWithoutNameRef, Instructions
  <2> HIDE DEF i
  <2>2. InstructedField(s.t, i) = f BY <2>1, Zenon DEF InstructedField
  <2>3. Took(e, m, s, Instruct(done, i), f) BY <1>13, <2>1, <2>2
  <2> QED BY <1>7, <1>15, <2>3, Zenon DEF i
<1>16. CASE same = 0 /\ ~(f.name \in StaticNames \/ named = 0)
  <2> DEFINE i == InsertWithNameRef(new - named - 1, f.value)
  <2>1. /\ i \in Instructions /\ i.op = "name" /\ i.index = new - named - 1
        /\ i.value = f.value
    BY <1>5, <1>6 DEF InsertWithNameRef, Instructions, Values
  <2>2. total_inserted(s.t) - i.index = named BY <1>5, <1>6, <2>1
  <2> HIDE DEF i
  <2>3. Live(s.t, named) /\ Entry(s.t, named) \in Named(f.name) BY <1>4, <1>6, <1>16
  <2>4. [Entry(s.t, named) EXCEPT !.value = f.value] = f
    <3> DEFINE g == Entry(s.t, named)
    <3>1. g \in Fields /\ g.name = f.name BY <2>3 DEF Named
    <3>2. g = [name |-> g.name, value |-> g.value] /\ f = [name |-> f.name, value |-> f.value]
      BY <3>1, FieldsAssumption
    <3> HIDE DEF g
    <3>3. [g EXCEPT !.value = f.value] = [name |-> g.name, value |-> f.value] BY <3>2
    <3> QED BY <3>1, <3>2, <3>3 DEF g
  <2>5. InstructedField(s.t, i) = f BY <2>1, <2>2, <2>3, <2>4, Zenon DEF InstructedField
  <2>6. Took(e, m, s, Instruct(track_ref(done, named), i), f) BY <1>6, <1>13, <1>16, <2>1, <2>5
  <2> QED BY <1>7, <1>16, <2>6, Zenon DEF i
<1> QED BY <1>14, <1>15, <1>16, Zenon

(* encode_field, whichever way it takes.                                   *)
LEMMA FieldEncoded ==
  ASSUME NEW e, NEW m, NEW s, Sound(e, m, s), NEW f \in Fields
  PROVE  Took(e, m, s, encode_field(s, f), f)
<1> DEFINE same == Newest(s.t, {f})
           found == IF same = 0 THEN s ELSE track_ref(s, same)
<1>1. s \in Encoders /\ s.t \in Tables /\ s.base \in Nat BY EncoderFacts DEF Sound
<1>2. same \in Nat /\ (same # 0 => Live(s.t, same) /\ Entry(s.t, same) = f)
  <2>1. same \in 0 .. total_inserted(s.t) BY <1>1, NewestIsLive
  <2>2. same # 0 => Live(s.t, same) /\ Entry(s.t, same) \in {f} BY <1>1, NewestIsLive
  <2> HIDE DEF same
  <2> QED BY <2>1, <2>2
<1>3. encode_field(s, f) =
        IF f \in StaticFields THEN Write(s, Literal(f))
        ELSE IF same # 0 /\ same <= s.base THEN WriteRef(s, same, Indexed(s.base - same))
        ELSE IF blocked_count >= blocked_max THEN NotInserted(found, f)
        ELSE IF Overflows(s.t, mem_size[f]) THEN [s EXCEPT !.panic = TRUE]
        ELSE IF CanInsert(s.t, found.track, f) THEN Inserted(found, f)
        ELSE NotInserted(found, f)
  BY Zenon DEF encode_field
<1> HIDE DEF same
<1>4. Sound(e, m, found) /\ Grows(s, found) /\ found.t = s.t /\ found.lines = s.lines
  <2>1. CASE same = 0 BY <1>1, <2>1, GrowsSelf
  <2>2. CASE same # 0
    <3>1. found = track_ref(s, same) BY <2>2
    <3> HIDE DEF found
    <3> QED BY <1>2, <2>2, <3>1, Tracking
  <2> QED BY <2>1, <2>2
<1> HIDE DEF found
<1>5. found \in Encoders BY <1>4 DEF Sound
<1>6. Took(e, m, s, NotInserted(found, f), f)
  <2>1. Took(e, m, found, NotInserted(found, f), f) BY <1>4, NotInsertedTook
  <2> QED BY <1>1, <1>4, <1>5, <2>1, TookAfter
<1>7. CanInsert(s.t, found.track, f) => Took(e, m, s, Inserted(found, f), f)
  <2> SUFFICES ASSUME CanInsert(s.t, found.track, f) PROVE Took(e, m, s, Inserted(found, f), f)
    OBVIOUS
  <2>1. Took(e, m, found, Inserted(found, f), f) BY <1>4, InsertedTook
  <2> QED BY <1>1, <1>4, <1>5, <2>1, TookAfter
<1>8. ~Overflows(s.t, mem_size[f]) BY <1>1, TableFacts DEF Overflows
<1>9. same # 0 /\ same <= s.base => Took(e, m, s, WriteRef(s, same, Indexed(s.base - same)), f)
  <2> SUFFICES ASSUME same # 0, same <= s.base
               PROVE  Took(e, m, s, WriteRef(s, same, Indexed(s.base - same)), f)
    OBVIOUS
  <2> DEFINE l == Indexed(s.base - same)
  <2>1. l \in Lines /\ l.op = "indexed" /\ Absolute(s.base, l) = same BY <1>1, <1>2, IndexedLine
  <2> HIDE DEF l
  <2>2. Means(s.t, s.base, l, f) BY <1>2, <2>1, Zenon DEF Means
  <2>3. l.op # "literal" BY <2>1
  <2> QED BY <1>2, <2>1, <2>2, <2>3, WritingRef DEF l
<1>10. Took(e, m, s, Write(s, Literal(f)), f) BY Writing
<1> QED BY <1>3, <1>6, <1>7, <1>8, <1>9, <1>10, Zenon

(* All fields of a section.                                                *)
Written(e, m, s, fs, k) ==
  /\ Sound(e, m, s)
  /\ Len(s.lines) = k
  /\ \A j \in 1 .. k : LineOK(s, s.lines[j], fs[j])

(* One field after the other ...                                           *)
LEMMA NextWritten ==
  ASSUME NEW e, NEW m, NEW fs \in Seq(Fields), NEW k \in 1 .. Len(fs),
         NEW s, Written(e, m, s, fs, k - 1)
  PROVE  Written(e, m, encode_field(s, fs[k]), fs, k)
<1> DEFINE f == fs[k]
           u == encode_field(s, f)
<1>1. f \in Fields /\ k \in Nat OBVIOUS
<1>2. Sound(e, m, s) BY DEF Written
<1>3. Took(e, m, s, u, f) BY <1>1, <1>2, FieldEncoded
<1> HIDE DEF u
<1>4. PICK l \in Lines : u.lines = Append(s.lines, l) /\ LineOK(u, l, f) BY <1>3, Zenon DEF Took
<1>5. Sound(e, m, u) /\ Grows(s, u) BY <1>3, Zenon DEF Took
<1>6. s \in Encoders /\ u \in Encoders BY <1>2, <1>5, Zenon DEF Sound
<1>7. s.lines \in Seq(Lines) BY <1>6, EncoderFacts
<1>8. Len(s.lines) = k - 1 /\ \A j \in 1 .. (k - 1) : LineOK(s, s.lines[j], fs[j])
  BY Zenon DEF Written
<1>9. Len(u.lines) = k BY <1>1, <1>4, <1>7, <1>8
<1>10. ASSUME NEW j \in 1 .. k PROVE LineOK(u, u.lines[j], fs[j])
  <2>1. CASE j = k
    <3>1. u.lines[j] = l BY <1>1, <1>4, <1>7, <1>8, <2>1
    <3> QED BY <1>4, <2>1, <3>1
  <2>2. CASE j # k
    <3>1. j \in 1 .. (k - 1) BY <1>1, <2>2
    <3>2. u.lines[j] = s.lines[j] BY <1>4, <1>7, <1>8, <3>1
    <3>3. LineOK(s, s.lines[j], fs[j]) BY <1>8, <3>1
    <3>4. LineOK(u, s.lines[j], fs[j]) BY <1>5, <1>6, <3>3, LineStays
    <3> QED BY <3>2, <3>4
  <2> QED BY <2>1, <2>2
<1>11. Written(e, m, u, fs, k) BY <1>5, <1>9, <1>10, Zenon DEF Written
<1> QED BY <1>11 DEF u

(* ... until all of the section is written ...                             *)
LEMMA SectionEncoded ==
  ASSUME NEW e, NEW m, NEW fs \in Seq(Fields), NEW s, Written(e, m, s, fs, 0)
  PROVE  Written(e, m, encode_fields(s, fs), fs, Len(fs))
<1> DEFINE n == Len(fs)
           Solves(g) == g = [i \in 0 .. n |-> IF i = 0 THEN s ELSE encode_field(g[i - 1], fs[i])]
           g == CHOOSE x : Solves(x)
           S == [k \in 0 .. n |-> {u \in Encoders : Written(e, m, u, fs, k)}]
           F == [p \in (1 .. n) \X Encoders |-> encode_field(p[2], fs[p[1]])]
<1>1. n \in Nat OBVIOUS
<1>2. encode_fields(s, fs) = g[n] BY Zenon DEF encode_fields
<1>3. \A k \in 1 .. n : \A u : Written(e, m, u, fs, k - 1) => Written(e, m, encode_field(u, fs[k]), fs, k)
  BY NextWritten
<1> HIDE DEF n
<1>4. \A k \in 0 .. n : \A u : u \in S[k] <=> u \in Encoders /\ Written(e, m, u, fs, k)
  OBVIOUS
<1>5. \A k \in 1 .. n : \A u \in Encoders : F[<<k, u>>] = encode_field(u, fs[k]) OBVIOUS
<1>6. \A k, u : Written(e, m, u, fs, k) => u \in Encoders BY Zenon DEF Written, Sound
<1> HIDE DEF S, F
<1>7. s \in S[0]
  <2>1. 0 \in 0 .. n BY <1>1
  <2> QED BY <1>4, <1>6, <2>1, Zenon
<1>8. Steps(F, n, S)
  <2> SUFFICES ASSUME NEW k \in 1 .. n, NEW u \in S[k - 1] PROVE F[<<k, u>>] \in S[k]
    BY Zenon DEF Steps
  <2>1. k \in 0 .. n /\ k - 1 \in 0 .. n BY <1>1
  <2>2. u \in Encoders /\ Written(e, m, u, fs, k - 1) BY <1>4, <2>1, Zenon
  <2>3. Written(e, m, encode_field(u, fs[k]), fs, k) BY <1>3, <2>2, Zenon
  <2> QED BY <1>4, <1>5, <1>6, <2>1, <2>2, <2>3, Zenon
<1>9. PICK f : IsRun(f, n, S, s, F) BY <1>1, <1>7, <1>8, Recursion, Zenon
<1>10. /\ f = [i \in 0 .. n |-> f[i]] /\ (\A i \in 0 .. n : f[i] \in S[i])
       /\ f[0] = s /\ \A i \in 1 .. n : f[i] = F[<<i, f[i - 1]>>]
  BY <1>9, Zenon DEF IsRun
<1>11. \A i \in 0 .. n : f[i] = IF i = 0 THEN s ELSE encode_field(f[i - 1], fs[i])
  <2> TAKE i \in 0 .. n
  <2>1. CASE i = 0 BY <1>10, <2>1, Zenon
  <2>2. CASE i # 0
    <3>1. i \in 1 .. n /\ i - 1 \in 0 .. n BY <1>1, <2>2
    <3>2. f[i - 1] \in Encoders BY <1>4, <1>10, <3>1, Zenon
    <3> QED BY <1>5, <1>10, <2>2, <3>1, <3>2, Zenon
  <2> QED BY <2>1, <2>2
<1>12. Solves(f)
  <2>1. [i \in 0 .. n |-> f[i]]
          = [i \in 0 .. n |-> IF i = 0 THEN s ELSE encode_field(f[i - 1], fs[i])]
    BY <1>11
  <2> QED BY <1>10, <2>1, Zenon
<1>13. Solves(g)
  <2> HIDE DEF Solves
  <2> QED BY <1>12
<1> HIDE DEF g
<1>14. \A i \in 0 .. n : g[i] = IF i = 0 THEN s ELSE encode_field(g[i - 1], fs[i]) BY <1>13
<1> HIDE DEF Solves
<1> DEFINE T == {k \in Nat : k \in 0 .. n => Written(e, m, g[k], fs, k)}
<1>15. 0 \in T
  <2>1. 0 \in 0 .. n BY <1>1
  <2>2. g[0] = s BY <1>14, <2>1, Zenon
  <2> QED BY <2>2
<1>16. \A k \in T : k + 1 \in T
  <2> TAKE k \in T
  <2>1. k \in Nat /\ (k \in 0 .. n => Written(e, m, g[k], fs, k)) OBVIOUS
  <2> SUFFICES ASSUME k + 1 \in 0 .. n PROVE Written(e, m, g[k + 1], fs, k + 1) BY <2>1
  <2>2. k \in 0 .. n /\ k + 1 \in 1 .. n /\ (k + 1) - 1 = k /\ k + 1 # 0 BY <1>1, <2>1
  <2>3. g[k + 1] = encode_field(g[k], fs[k + 1]) BY <1>14, <2>2, Zenon
  <2> HIDE DEF T
  <2> QED BY <1>3, <2>1, <2>2, <2>3, Zenon
<1>17. T = Nat
  <2> HIDE DEF T
  <2>1. T \subseteq Nat BY DEF T
  <2> QED BY <1>15, <1>16, <2>1, SetInduction
<1>18. n \in 0 .. n /\ n \in Nat BY <1>1
<1>19. Written(e, m, g[n], fs, n) BY <1>17, <1>18
<1> QED BY <1>2, <1>19, Zenon DEF n

(* ... from an encoder that has written nothing.                           *)
LEMMA BeginsWritten ==
  ASSUME enc \in Tables, track_map \in Refs, NEW fs,
         \A r \in Nat : Count(r, track_map) > 0 => Live(enc, r)
  PROVE  Written(enc, track_map, DynamicTableEncoder, fs, 0)
<1> DEFINE s == DynamicTableEncoder
<1>1. Len(enc.fields) \in Nat /\ total_inserted(enc) \in Nat BY TableFacts
<1>2. EmptyBag \in Refs /\ \A r : Count(r, EmptyBag) = 0 BY EmptyRefs
<1>3. <<>> \in Seq(Lines) /\ <<>> \in Seq(Instructions) /\ Len(<<>>) = 0 OBVIOUS
<1>4. /\ s \in Encoders
      /\ s.t = enc /\ s.track = track_map /\ s.refs = EmptyBag /\ s.lines = <<>>
      /\ s.ins = <<>> /\ s.required = 0 /\ s.panic = FALSE
  BY <1>1, <1>2, <1>3 DEF DynamicTableEncoder, Encoders
<1> HIDE DEF s
<1>5. Leads(enc, s.ins, s.t) BY <1>4, LeadsNowhere
<1>6. \A r \in Nat : Count(r, s.track) = Count(r, track_map) + Count(r, s.refs)
  <2> TAKE r \in Nat
  <2>1. Count(r, track_map) \in Nat BY CountFacts
  <2> QED BY <1>2, <1>4, <2>1
<1>7. \A r \in Nat : total_inserted(enc) < r /\ r <= total_inserted(s.t) => FALSE
  BY <1>1, <1>4
<1>8. \A i \in 1 .. Len(s.ins) : FALSE BY <1>3, <1>4
<1>9. Sound(enc, track_map, s) BY <1>4, <1>5, <1>6, <1>7, <1>8, Zenon DEF Sound
<1>10. Len(s.lines) = 0 /\ \A j \in 1 .. 0 : FALSE BY <1>3, <1>4
<1>11. Written(enc, track_map, s, fs, 0) BY <1>9, <1>10, Zenon DEF Written
<1> QED BY <1>11 DEF s

-----------------------------------------------------------------------------
(***************************************************************************)
(* What answers on their way to the encoder do to a number: h walks from x *)
(* to y when each step is among those of R.                                *)
(***************************************************************************)
Answers == [op : {"ack", "cancel"}, id : Streams] \cup [op : {"increment"}, n : Nat]

(* h is such a walk.                                                       *)
IsWalk(h, ds, R, x, y) ==
  /\ h = [i \in 0 .. Len(ds) |-> h[i]]
  /\ \A i \in 0 .. Len(ds) : h[i] \in Nat
  /\ h[0] = x /\ h[Len(ds)] = y
  /\ \A i \in 1 .. Len(ds) : <<ds[i], h[i - 1], h[i]>> \in R
Walk(ds, R, x, y) == \E h : IsWalk(h, ds, R, x, y)

(* A walk of no steps.                                                     *)
LEMMA WalkStart == ASSUME NEW R, NEW x \in Nat PROVE Walk(<<>>, R, x, x)
<1> DEFINE h == [i \in 0 .. 0 |-> x]
<1>1. Len(<<>>) = 0 /\ (\A i \in 0 .. 0 : h[i] = x) /\ (\A i \in 1 .. 0 : FALSE) /\ 0 \in 0 .. 0
  OBVIOUS
<1>2. h = [i \in 0 .. 0 |-> h[i]] OBVIOUS
<1> HIDE DEF h
<1>3. IsWalk(h, <<>>, R, x, x) BY <1>1, <1>2, Zenon DEF IsWalk
<1> QED BY <1>3, Zenon DEF Walk

(* A walk goes on when an answer is sent ...                               *)
LEMMA WalkAppend ==
  ASSUME NEW X, NEW ds \in Seq(X), NEW R, NEW x, NEW y, Walk(ds, R, x, y),
         NEW a, NEW z \in Nat, <<a, y, z>> \in R
  PROVE  Walk(Append(ds, a), R, x, z)
<1> DEFINE n == Len(ds)
           es == Append(ds, a)
<1>1. PICK h : IsWalk(h, ds, R, x, y) BY Zenon DEF Walk
<1>2. n \in Nat /\ Len(es) = n + 1 /\ es[n + 1] = a /\ \A i \in 1 .. n : es[i] = ds[i] OBVIOUS
<1>3. /\ \A i \in 0 .. n : h[i] \in Nat
      /\ h[0] = x /\ h[n] = y
      /\ \A i \in 1 .. n : <<ds[i], h[i - 1], h[i]>> \in R
  BY <1>1, Zenon DEF IsWalk
<1> HIDE DEF n, es
<1> DEFINE g == [i \in 0 .. (n + 1) |-> IF i = n + 1 THEN z ELSE h[i]]
<1>4. g = [i \in 0 .. (n + 1) |-> g[i]] OBVIOUS
<1>5. g[n + 1] = z /\ \A i \in 0 .. n : g[i] = h[i] BY <1>2
<1> HIDE DEF g
<1>6. \A i \in 0 .. (n + 1) : i \in 0 .. n \/ i = n + 1 BY <1>2
<1>7. \A i \in 0 .. (n + 1) : g[i] \in Nat BY <1>3, <1>5, <1>6, Zenon
<1>8. g[0] = x
  <2>1. 0 \in 0 .. n BY <1>2
  <2> QED BY <1>3, <1>5, <2>1, Zenon
<1>9. ASSUME NEW i \in 1 .. (n + 1) PROVE <<es[i], g[i - 1], g[i]>> \in R
  <2>1. CASE i = n + 1
    <3>1. i - 1 = n /\ n \in 0 .. n BY <1>2, <2>1
    <3>2. g[i - 1] = y /\ g[i] = z /\ es[i] = a BY <1>2, <1>3, <1>5, <2>1, <3>1, Zenon
    <3> QED BY <3>2, Zenon
  <2>2. CASE i # n + 1
    <3>1. i \in 1 .. n /\ i \in 0 .. n /\ i - 1 \in 0 .. n BY <1>2, <2>2
    <3>2. g[i - 1] = h[i - 1] /\ g[i] = h[i] /\ es[i] = ds[i] BY <1>2, <1>5, <3>1, Zenon
    <3> QED BY <1>3, <3>1, <3>2, Zenon
  <2> QED BY <2>1, <2>2
<1>10. IsWalk(g, es, R, x, z) BY <1>2, <1>4, <1>5, <1>7, <1>8, <1>9, Zenon DEF IsWalk
<1> QED BY <1>10, Zenon DEF Walk, es

(* ... and has its first step behind it when one is received.              *)
LEMMA WalkTail ==
  ASSUME NEW X, NEW ds \in Seq(X), ds # <<>>, NEW R, NEW x, NEW y, Walk(ds, R, x, y)
  PROVE  \E z \in Nat : <<Head(ds), x, z>> \in R /\ Walk(Tail(ds), R, z, y)
<1> DEFINE n == Len(ds)
           es == Tail(ds)
<1>1. PICK h : IsWalk(h, ds, R, x, y) BY Zenon DEF Walk
<1>2. n \in Nat /\ n >= 1 /\ Len(es) = n - 1 /\ Head(ds) = ds[1]
      /\ \A i \in 1 .. (n - 1) : es[i] = ds[i + 1]
  OBVIOUS
<1>3. /\ \A i \in 0 .. n : h[i] \in Nat
      /\ h[0] = x /\ h[n] = y
      /\ \A i \in 1 .. n : <<ds[i], h[i - 1], h[i]>> \in R
  BY <1>1, Zenon DEF IsWalk
<1> HIDE DEF n, es
<1> DEFINE g == [i \in 0 .. (n - 1) |-> h[i + 1]]
<1>4. g = [i \in 0 .. (n - 1) |-> g[i]] /\ \A i \in 0 .. (n - 1) : g[i] = h[i + 1] OBVIOUS
<1> HIDE DEF g
<1>5. \A i \in 0 .. (n - 1) : g[i] \in Nat
  <2>1. \A i \in 0 .. (n - 1) : i + 1 \in 0 .. n BY <1>2
  <2> QED BY <1>3, <1>4, <2>1, Zenon
<1>6. g[0] = h[1] /\ g[n - 1] = y
  <2>1. 0 \in 0 .. (n - 1) /\ n - 1 \in 0 .. (n - 1) /\ 0 + 1 = 1 /\ (n - 1) + 1 = n BY <1>2
  <2>2. g[0] = h[0 + 1] /\ g[n - 1] = h[(n - 1) + 1] BY <1>4, <2>1, Zenon
  <2> QED BY <1>3, <2>1, <2>2, Zenon
<1>7. ASSUME NEW i \in 1 .. (n - 1) PROVE <<es[i], g[i - 1], g[i]>> \in R
  <2>1. i \in 0 .. (n - 1) /\ i - 1 \in 0 .. (n - 1) /\ i + 1 \in 1 .. n
        /\ (i + 1) - 1 = i /\ (i - 1) + 1 = i
    BY <1>2
  <2>2. g[i] = h[i + 1] /\ g[i - 1] = h[i] /\ es[i] = ds[i + 1] BY <1>2, <1>4, <2>1, Zenon
  <2>3. <<ds[i + 1], h[(i + 1) - 1], h[i + 1]>> \in R BY <1>3, <2>1, Zenon
  <2> QED BY <2>1, <2>2, <2>3, Zenon
<1>8. IsWalk(g, es, R, h[1], y) BY <1>2, <1>4, <1>5, <1>6, <1>7, Zenon DEF IsWalk
<1>9. Walk(es, R, h[1], y) BY <1>8, Zenon DEF Walk
<1>10. <<Head(ds), x, h[1]>> \in R /\ h[1] \in Nat
  <2>1. 1 \in 1 .. n /\ 1 \in 0 .. n /\ 1 - 1 = 0 BY <1>2
  <2>2. <<ds[1], h[1 - 1], h[1]>> \in R /\ h[1] \in Nat BY <1>3, <2>1, Zenon
  <2> QED BY <1>2, <1>3, <2>1, <2>2, Zenon
<1> QED BY <1>9, <1>10, Zenon DEF es

(* Steps that go one way take the walk one way.                            *)
LEMMA WalkRises ==
  ASSUME NEW X, NEW ds \in Seq(X), NEW R, NEW x, NEW y, Walk(ds, R, x, y),
         \A a \in X : \A p \in Nat : \A q \in Nat : <<a, p, q>> \in R => p <= q
  PROVE  x \in Nat /\ y \in Nat /\ x <= y
<1> DEFINE n == Len(ds)
<1>1. PICK h : IsWalk(h, ds, R, x, y) BY Zenon DEF Walk
<1>2. n \in Nat /\ \A i \in 1 .. n : ds[i] \in X OBVIOUS
<1>3. /\ \A i \in 0 .. n : h[i] \in Nat
      /\ h[0] = x /\ h[n] = y
      /\ \A i \in 1 .. n : <<ds[i], h[i - 1], h[i]>> \in R
  BY <1>1, Zenon DEF IsWalk
<1> HIDE DEF n
<1> DEFINE T == {k \in Nat : k \in 0 .. n => x <= h[k]}
<1>4. x \in Nat /\ y \in Nat /\ n \in 0 .. n
  <2>1. 0 \in 0 .. n /\ n \in 0 .. n BY <1>2
  <2> QED BY <1>3, <2>1, Zenon
<1>5. 0 \in T BY <1>3, <1>4
<1>6. \A k \in T : k + 1 \in T
  <2> TAKE k \in T
  <2>1. k \in Nat /\ (k \in 0 .. n => x <= h[k]) OBVIOUS
  <2> SUFFICES ASSUME k + 1 \in 0 .. n PROVE x <= h[k + 1] BY <2>1
  <2>2. k \in 0 .. n /\ k + 1 \in 1 .. n /\ (k + 1) - 1 = k BY <1>2, <2>1
  <2>3. <<ds[k + 1], h[k], h[k + 1]>> \in R BY <1>3, <2>2, Zenon
  <2>4. ds[k + 1] \in X /\ h[k] \in Nat /\ h[k + 1] \in Nat BY <1>2, <1>3, <2>2, Zenon
  <2>5. h[k] <= h[k + 1] BY <2>3, <2>4, Zenon
  <2> HIDE DEF T
  <2> QED BY <1>4, <2>1, <2>2, <2>4, <2>5
<1>7. T = Nat
  <2> HIDE DEF T
  <2>1. T \subseteq Nat BY DEF T
  <2> QED BY <1>5, <1>6, <2>1, SetInduction
<1>8. x <= h[n] BY <1>2, <1>4, <1>7
<1> QED BY <1>3, <1>4, <1>8

(* Steps that go the other way.                                            *)
LEMMA WalkFalls ==
  ASSUME NEW X, NEW ds \in Seq(X), NEW R, NEW x, NEW y, Walk(ds, R, x, y),
         \A a \in X : \A p \in Nat : \A q \in Nat : <<a, p, q>> \in R => q <= p
  PROVE  x \in Nat /\ y \in Nat /\ y <= x
<1> DEFINE n == Len(ds)
<1>1. PICK h : IsWalk(h, ds, R, x, y) BY Zenon DEF Walk
<1>2. n \in Nat /\ \A i \in 1 .. n : ds[i] \in X OBVIOUS
<1>3. /\ \A i \in 0 .. n : h[i] \in Nat
      /\ h[0] = x /\ h[n] = y
      /\ \A i \in 1 .. n : <<ds[i], h[i - 1], h[i]>> \in R
  BY <1>1, Zenon DEF IsWalk
<1> HIDE DEF n
<1> DEFINE T == {k \in Nat : k \in 0 .. n => h[k] <= x}
<1>4. x \in Nat /\ y \in Nat /\ n \in 0 .. n
  <2>1. 0 \in 0 .. n /\ n \in 0 .. n BY <1>2
  <2> QED BY <1>3, <2>1, Zenon
<1>5. 0 \in T BY <1>3, <1>4
<1>6. \A k \in T : k + 1 \in T
  <2> TAKE k \in T
  <2>1. k \in Nat /\ (k \in 0 .. n => h[k] <= x) OBVIOUS
  <2> SUFFICES ASSUME k + 1 \in 0 .. n PROVE h[k + 1] <= x BY <2>1
  <2>2. k \in 0 .. n /\ k + 1 \in 1 .. n /\ (k + 1) - 1 = k BY <1>2, <2>1
  <2>3. <<ds[k + 1], h[k], h[k + 1]>> \in R BY <1>3, <2>2, Zenon
  <2>4. ds[k + 1] \in X /\ h[k] \in Nat /\ h[k + 1] \in Nat BY <1>2, <1>3, <2>2, Zenon
  <2>5. h[k + 1] <= h[k] BY <2>3, <2>4, Zenon
  <2> HIDE DEF T
  <2> QED BY <1>4, <2>1, <2>2, <2>4, <2>5
<1>7. T = Nat
  <2> HIDE DEF T
  <2>1. T \subseteq Nat BY DEF T
  <2> QED BY <1>5, <1>6, <2>1, SetInduction
<1>8. h[n] <= x BY <1>2, <1>4, <1>7
<1> QED BY <1>3, <1>4, <1>8

(* The number of insertions the encoder knows of ...                       *)
Counting ==
  {p \in Answers \X Nat \X Nat :
     p[3] = p[2] + (IF p[1].op = "increment" THEN p[1].n ELSE 0)}
(* ... and of sections of a stream it has yet to see acknowledged.         *)
Taking(id) ==
  {p \in Answers \X Nat \X Nat :
     p[3] = IF p[1].op = "ack" /\ p[1].id = id THEN p[2] - 1
            ELSE IF p[1].op = "cancel" /\ p[1].id = id THEN IF p[2] <= 2 THEN 0 ELSE p[2] - 2
            ELSE p[2]}

(* An answer adds the insertions it reports.                               *)
LEMMA CountingStep ==
  ASSUME NEW a \in Answers, NEW x \in Nat, NEW y \in Nat
  PROVE  <<a, x, y>> \in Counting <=> y = x + (IF a.op = "increment" THEN a.n ELSE 0)
<1> DEFINE p == <<a, x, y>>
<1>1. p \in Answers \X Nat \X Nat /\ p[1] = a /\ p[2] = x /\ p[3] = y OBVIOUS
<1> HIDE DEF p
<1>2. p \in Counting <=> p[3] = p[2] + (IF p[1].op = "increment" THEN p[1].n ELSE 0)
  BY <1>1, Zenon DEF Counting
<1>3. p \in Counting <=> y = x + (IF a.op = "increment" THEN a.n ELSE 0) BY <1>1, <1>2, Zenon
<1> QED BY <1>3, Zenon DEF p

(* An answer takes a section, or two, of its stream.                       *)
LEMMA TakingStep ==
  ASSUME NEW id, NEW a \in Answers, NEW x \in Nat, NEW y \in Nat
  PROVE  <<a, x, y>> \in Taking(id) <=>
           y = IF a.op = "ack" /\ a.id = id THEN x - 1
               ELSE IF a.op = "cancel" /\ a.id = id THEN IF x <= 2 THEN 0 ELSE x - 2
               ELSE x
<1> DEFINE p == <<a, x, y>>
<1>1. p \in Answers \X Nat \X Nat /\ p[1] = a /\ p[2] = x /\ p[3] = y OBVIOUS
<1> HIDE DEF p
<1>2. p \in Taking(id) <=>
        p[3] = IF p[1].op = "ack" /\ p[1].id = id THEN p[2] - 1
               ELSE IF p[1].op = "cancel" /\ p[1].id = id THEN IF p[2] <= 2 THEN 0 ELSE p[2] - 2
               ELSE p[2]
  BY <1>1, Zenon DEF Taking
<1>3. p \in Taking(id) <=>
        y = IF a.op = "ack" /\ a.id = id THEN x - 1
            ELSE IF a.op = "cancel" /\ a.id = id THEN IF x <= 2 THEN 0 ELSE x - 2
            ELSE x
  BY <1>1, <1>2, Zenon
<1> QED BY <1>3, Zenon DEF p

(* The encoder never knows of more insertions than there are.              *)
LEMMA CountingRises ==
  ASSUME NEW ds \in Seq(Answers), NEW x, NEW y, Walk(ds, Counting, x, y)
  PROVE  x \in Nat /\ y \in Nat /\ x <= y
<1>1. ASSUME NEW a \in Answers, NEW p \in Nat, NEW q \in Nat, <<a, p, q>> \in Counting
      PROVE  p <= q
  <2>1. q = p + (IF a.op = "increment" THEN a.n ELSE 0) BY <1>1, CountingStep, Zenon
  <2>2. a.op = "increment" => a.n \in Nat BY DEF Answers
  <2> QED BY <2>1, <2>2
<1> QED BY <1>1, WalkRises

(* Answers only take sections away.                                        *)
LEMMA TakingFalls ==
  ASSUME NEW id, NEW ds \in Seq(Answers), NEW x, NEW y, Walk(ds, Taking(id), x, y)
  PROVE  x \in Nat /\ y \in Nat /\ y <= x
<1>1. ASSUME NEW a \in Answers, NEW p \in Nat, NEW q \in Nat, <<a, p, q>> \in Taking(id)
      PROVE  q <= p
  <2>1. q = IF a.op = "ack" /\ a.id = id THEN p - 1
            ELSE IF a.op = "cancel" /\ a.id = id THEN IF p <= 2 THEN 0 ELSE p - 2
            ELSE p
    BY <1>1, TakingStep, Zenon
  <2> QED BY <2>1
<1> QED BY <1>1, WalkFalls

(* One more section is taken away as late.                                 *)
LEMMA WalkMore ==
  ASSUME NEW id, NEW ds \in Seq(Answers), NEW x, NEW y, Walk(ds, Taking(id), x, y),
         \A i \in 1 .. Len(ds) : ~(ds[i].op = "cancel" /\ ds[i].id = id)
  PROVE  Walk(ds, Taking(id), x + 1, y + 1)
<1> DEFINE n == Len(ds)
<1>1. PICK h : IsWalk(h, ds, Taking(id), x, y) BY Zenon DEF Walk
<1>2. n \in Nat /\ \A i \in 1 .. n : ds[i] \in Answers OBVIOUS
<1>3. /\ \A i \in 0 .. n : h[i] \in Nat
      /\ h[0] = x /\ h[n] = y
      /\ \A i \in 1 .. n : <<ds[i], h[i - 1], h[i]>> \in Taking(id)
  BY <1>1, Zenon DEF IsWalk
<1>4. \A i \in 1 .. n : ~(ds[i].op = "cancel" /\ ds[i].id = id) OBVIOUS
<1> HIDE DEF n
<1> DEFINE g == [i \in 0 .. n |-> h[i] + 1]
<1>5. g = [i \in 0 .. n |-> g[i]] /\ \A i \in 0 .. n : g[i] = h[i] + 1 OBVIOUS
<1> HIDE DEF g
<1>6. \A i \in 0 .. n : g[i] \in Nat BY <1>3, <1>5
<1>7. g[0] = x + 1 /\ g[n] = y + 1
  <2>1. 0 \in 0 .. n /\ n \in 0 .. n BY <1>2
  <2> QED BY <1>3, <1>5, <2>1, Zenon
<1>8. ASSUME NEW i \in 1 .. n PROVE <<ds[i], g[i - 1], g[i]>> \in Taking(id)
  <2> DEFINE a == ds[i]
             p == h[i - 1]
             q == h[i]
  <2>1. i \in 0 .. n /\ i - 1 \in 0 .. n BY <1>2
  <2>2. a \in Answers /\ p \in Nat /\ q \in Nat /\ g[i - 1] = p + 1 /\ g[i] = q + 1
        /\ <<a, p, q>> \in Taking(id) /\ ~(a.op = "cancel" /\ a.id = id)
    BY <1>2, <1>3, <1>4, <1>5, <2>1, Zenon
  <2> HIDE DEF a, p, q
  <2>3. q = IF a.op = "ack" /\ a.id = id THEN p - 1
            ELSE IF a.op = "cancel" /\ a.id = id THEN IF p <= 2 THEN 0 ELSE p - 2
            ELSE p
    BY <2>2, TakingStep, Zenon
  <2> DEFINE u == p + 1
             v == q + 1
  <2>4. u \in Nat /\ v \in Nat
        /\ v = IF a.op = "ack" /\ a.id = id THEN u - 1
               ELSE IF a.op = "cancel" /\ a.id = id THEN IF u <= 2 THEN 0 ELSE u - 2
               ELSE u
    BY <2>2, <2>3
  <2>5. g[i - 1] = u /\ g[i] = v BY <2>2
  <2> HIDE DEF u, v
  <2>6. <<a, u, v>> \in Taking(id) BY <2>2, <2>4, TakingStep
  <2> QED BY <2>5, <2>6, Zenon DEF a
<1>9. IsWalk(g, ds, Taking(id), x + 1, y + 1) BY <1>5, <1>6, <1>7, <1>8, Zenon DEF IsWalk, n
<1> QED BY <1>9, Zenon DEF Walk

-----------------------------------------------------------------------------
(***************************************************************************)
(* Where an entry is referred to.                                          *)
(***************************************************************************)
Occ(B, r) ==
  UNION {UNION {{<<id, i, k>> : k \in 1 .. Count(r, B[id][i])} : i \in 1 .. Len(B[id])} :
           id \in Streams}
Blocks == [Streams -> Seq(Refs)]
(* What is tracked is counted as often as it is referred to.               *)
Tally(m, B) == \A r \in Nat : IsFiniteSet(Occ(B, r)) /\ Count(r, m) = Cardinality(Occ(B, r))

(* The places where an entry is referred to ...                            *)
LEMMA OccMember ==
  ASSUME NEW B, NEW r, NEW id, NEW i, NEW k
  PROVE  <<id, i, k>> \in Occ(B, r) <=>
           id \in Streams /\ i \in 1 .. Len(B[id]) /\ k \in 1 .. Count(r, B[id][i])
BY DEF Occ

(* ... are triples.                                                        *)
LEMMA OccTriple ==
  ASSUME NEW B, NEW r, NEW x \in Occ(B, r)
  PROVE  x = <<x[1], x[2], x[3]>>
BY DEF Occ

(* As many elements as the other set has.                                  *)
LEMMA Bijective ==
  ASSUME NEW S, NEW T, NEW f \in [S -> T], IsFiniteSet(S),
         \A a, b \in S : f[a] = f[b] => a = b,
         \A t \in T : \E s \in S : f[s] = t
  PROVE  IsFiniteSet(T) /\ Cardinality(T) = Cardinality(S)
<1>1. f \in Bijection(S, T) BY Fun_IsBij
<1>2. ExistsBijection(S, T) BY <1>1, Fun_ExistsBij
<1> QED BY <1>2, FS_Bijection

(* Nothing is referred to when nothing is outstanding.                     *)
LEMMA OccNone ==
  ASSUME NEW B, \A id \in Streams : Len(B[id]) = 0, NEW r
  PROVE  Occ(B, r) = {} /\ IsFiniteSet(Occ(B, r)) /\ Cardinality(Occ(B, r)) = 0
<1>1. Occ(B, r) = {} BY DEF Occ
<1> QED BY <1>1, FS_EmptySet

(* As many as are counted in one block.                                    *)
Copies(id, i, c) == {<<id, i, k>> : k \in 1 .. c}

(* A set of as many triples as are counted.                                *)
LEMMA OccOfBlock ==
  ASSUME NEW c \in Nat, NEW id, NEW i
  PROVE  IsFiniteSet(Copies(id, i, c)) /\ Cardinality(Copies(id, i, c)) = c
<1> DEFINE S == {<<id, i, k>> : k \in 1 .. c}
           f == [k \in 1 .. c |-> <<id, i, k>>]
<1>1. f \in [1 .. c -> S] OBVIOUS
<1>2. \A a, b \in 1 .. c : f[a] = f[b] => a = b OBVIOUS
<1>3. \A t \in S : \E k \in 1 .. c : f[k] = t OBVIOUS
<1>4. IsFiniteSet(1 .. c) /\ Cardinality(1 .. c) = c
  <2>1. 0 \in Int /\ 1 \in Int /\ c \in Int OBVIOUS
  <2>2. IsFiniteSet(1 .. c) /\ Cardinality(1 .. c) = IF 1 > c THEN 0 ELSE c - 1 + 1
    BY <2>1, FS_Interval
  <2> QED BY <2>2
<1> HIDE DEF S, f
<1>5. IsFiniteSet(S) /\ Cardinality(S) = Cardinality(1 .. c) BY <1>1, <1>2, <1>3, <1>4, Bijective
<1> QED BY <1>4, <1>5 DEF S, Copies

(* A section that refers to it is sent ...                                 *)
LEMMA OccAppended ==
  ASSUME NEW B \in Blocks, NEW id \in Streams, NEW b \in Refs, NEW r \in Nat,
         IsFiniteSet(Occ(B, r))
  PROVE  LET C == [B EXCEPT ![id] = Append(@, b)] IN
         /\ IsFiniteSet(Occ(C, r))
         /\ Cardinality(Occ(C, r)) = Cardinality(Occ(B, r)) + Count(r, b)
<1> DEFINE C == [B EXCEPT ![id] = Append(@, b)]
           n == Len(B[id])
           c == Count(r, b)
           S == Copies(id, n + 1, c)
<1>1. B[id] \in Seq(Refs) /\ n \in Nat /\ C \in Blocks BY DEF Blocks
<1>2. /\ C[id] = Append(B[id], b) /\ \A j \in Streams : j # id => C[j] = B[j]
  BY DEF Blocks
<1>3. /\ Len(C[id]) = n + 1 /\ C[id][n + 1] = b /\ \A i \in 1 .. n : C[id][i] = B[id][i]
  BY <1>1, <1>2
<1>4. c \in Nat BY CountFacts
<1> HIDE DEF c, n
<1>5. IsFiniteSet(S) /\ Cardinality(S) = c BY <1>4, OccOfBlock
<1>6. \A k : <<id, n + 1, k>> \in S <=> k \in 1 .. c BY DEF Copies
<1>7. \A x \in S : x = <<id, n + 1, x[3]>> BY DEF Copies
<1> HIDE DEF C, S
<1>8. \A j, i, k : <<j, i, k>> \in Occ(C, r) <=> <<j, i, k>> \in Occ(B, r) \/ (j = id /\ i = n + 1 /\ k \in 1 .. c)
  <2> TAKE j, i, k
  <2>1. <<j, i, k>> \in Occ(C, r) <=> j \in Streams /\ i \in 1 .. Len(C[j]) /\ k \in 1 .. Count(r, C[j][i])
    BY OccMember
  <2>2. <<j, i, k>> \in Occ(B, r) <=> j \in Streams /\ i \in 1 .. Len(B[j]) /\ k \in 1 .. Count(r, B[j][i])
    BY OccMember
  <2>3. CASE j # id BY <1>2, <2>1, <2>2, <2>3, Zenon
  <2>4. CASE j = id /\ i = n + 1
    <3>1. n + 1 \in 1 .. (n + 1) /\ n + 1 \notin 1 .. n BY <1>1
    <3>2. <<j, i, k>> \in Occ(C, r) <=> k \in 1 .. c BY <1>3, <2>1, <2>4, <3>1, Zenon DEF c
    <3> QED BY <2>4, <3>2, <2>2, <3>1, Zenon DEF n
  <2>5. CASE j = id /\ i # n + 1
    <3>1. i \in 1 .. (n + 1) <=> i \in 1 .. n BY <1>1, <2>5
    <3>2. <<j, i, k>> \in Occ(C, r) <=> i \in 1 .. n /\ k \in 1 .. Count(r, B[id][i])
      BY <1>3, <2>1, <2>5, <3>1, Zenon
    <3> QED BY <2>2, <2>5, <3>2, Zenon DEF n
  <2> QED BY <2>3, <2>4, <2>5
<1>9. Occ(C, r) = Occ(B, r) \cup S
  <2>1. ASSUME NEW x \in Occ(C, r) PROVE x \in Occ(B, r) \/ x \in S
    <3>1. x = <<x[1], x[2], x[3]>> BY OccTriple
    <3>2. <<x[1], x[2], x[3]>> \in Occ(C, r) BY <3>1, Zenon
    <3>3. <<x[1], x[2], x[3]>> \in Occ(B, r) \/ (x[1] = id /\ x[2] = n + 1 /\ x[3] \in 1 .. c)
      BY <1>8, <3>2, Zenon
    <3>4. x[1] = id /\ x[2] = n + 1 /\ x[3] \in 1 .. c => <<x[1], x[2], x[3]>> \in S
      BY <1>6, Zenon
    <3> QED BY <3>1, <3>3, <3>4, Zenon
  <2>2. ASSUME NEW x \in Occ(B, r) PROVE x \in Occ(C, r)
    <3>1. x = <<x[1], x[2], x[3]>> BY OccTriple
    <3>2. <<x[1], x[2], x[3]>> \in Occ(B, r) BY <3>1, Zenon
    <3>3. <<x[1], x[2], x[3]>> \in Occ(C, r) BY <1>8, <3>2, Zenon
    <3> QED BY <3>1, <3>3, Zenon
  <2>3. ASSUME NEW x \in S PROVE x \in Occ(C, r)
    <3>1. x = <<id, n + 1, x[3]>> BY <1>7
    <3>2. x[3] \in 1 .. c BY <1>6, <3>1, Zenon
    <3>3. <<id, n + 1, x[3]>> \in Occ(C, r) BY <1>8, <3>2, Zenon
    <3> QED BY <3>1, <3>3, Zenon
  <2> QED BY <2>1, <2>2, <2>3, Zenon
<1>10. Occ(B, r) \cap S = {}
  <2> SUFFICES ASSUME NEW x \in Occ(B, r), x \in S PROVE FALSE OBVIOUS
  <2>1. x = <<id, n + 1, x[3]>> BY <1>7
  <2>2. <<id, n + 1, x[3]>> \in Occ(B, r) BY <2>1, Zenon
  <2>3. n + 1 \in 1 .. n BY <2>2, OccMember, Zenon DEF n
  <2> QED BY <1>1, <2>3
<1>11. IsFiniteSet(Occ(C, r))
       /\ Cardinality(Occ(C, r)) = Cardinality(Occ(B, r)) + c - Cardinality({})
  BY <1>5, <1>9, <1>10, FS_Union
<1>12. Cardinality(Occ(B, r)) \in Nat /\ Cardinality({}) = 0 BY FS_CardinalityType, FS_EmptySet
<1>13. Cardinality(Occ(C, r)) = Cardinality(Occ(B, r)) + c BY <1>4, <1>11, <1>12
<1> QED BY <1>11, <1>13 DEF C, c

(* ... and the oldest of a stream is released.                             *)
LEMMA OccTaken ==
  ASSUME NEW B \in Blocks, NEW id \in Streams, B[id] # <<>>, NEW r \in Nat,
         IsFiniteSet(Occ(B, r))
  PROVE  LET C == [B EXCEPT ![id] = Tail(@)] IN
         /\ IsFiniteSet(Occ(C, r)) /\ Cardinality(Occ(C, r)) \in Nat
         /\ Cardinality(Occ(B, r)) = Cardinality(Occ(C, r)) + Count(r, Head(B[id]))
<1> DEFINE C == [B EXCEPT ![id] = Tail(@)]
           n == Len(B[id])
           c == Count(r, Head(B[id]))
           S == Copies(id, 1, c)
           R == Occ(B, r) \ S
<1>0. \A s \in Seq(Refs) : s # <<>> =>
        /\ Len(s) \in Nat /\ Len(s) >= 1 /\ Len(Tail(s)) = Len(s) - 1
        /\ Head(s) = s[1] /\ Head(s) \in Refs
        /\ \A i \in 1 .. (Len(s) - 1) : Tail(s)[i] = s[i + 1]
  OBVIOUS
<1>1. B[id] \in Seq(Refs) BY DEF Blocks
<1>1a. n \in Nat /\ n >= 1 BY <1>0, <1>1, Zenon
<1>2. C[id] = Tail(B[id]) /\ \A j \in Streams : j # id => C[j] = B[j] BY DEF Blocks
<1> HIDE DEF C
<1>3. /\ Len(C[id]) = n - 1 /\ Head(B[id]) = B[id][1] /\ Head(B[id]) \in Refs
      /\ \A i \in 1 .. (n - 1) : C[id][i] = B[id][i + 1]
  BY <1>0, <1>1, <1>2, Zenon
<1>4. c \in Nat BY <1>3, CountFacts
<1> HIDE DEF c, n
<1>5. IsFiniteSet(S) /\ Cardinality(S) = c BY <1>4, OccOfBlock
<1>6. \A j, i, k : <<j, i, k>> \in S <=> j = id /\ i = 1 /\ k \in 1 .. c BY DEF Copies
<1>7. \A x \in S : x = <<id, 1, x[3]>> /\ x[3] \in 1 .. c BY DEF Copies
<1> HIDE DEF S
<1>8. S \subseteq Occ(B, r)
  <2> SUFFICES ASSUME NEW x \in S PROVE x \in Occ(B, r) OBVIOUS
  <2>1. x = <<id, 1, x[3]>> /\ x[3] \in 1 .. c BY <1>7
  <2>2. 1 \in 1 .. n BY <1>1a
  <2>3. <<id, 1, x[3]>> \in Occ(B, r) BY <1>3, <2>1, <2>2, OccMember, Zenon DEF n, c
  <2> QED BY <2>1, <2>3, Zenon
<1>9. /\ IsFiniteSet(R) /\ Cardinality(R) \in Nat
      /\ Cardinality(R) = Cardinality(Occ(B, r)) - c
  <2>1. Occ(B, r) \cap S = S BY <1>8
  <2>2. IsFiniteSet(R) /\ Cardinality(R) = Cardinality(Occ(B, r)) - Cardinality(S)
    BY <2>1, FS_Difference
  <2> QED BY <1>5, <2>2, FS_CardinalityType
<1>10. \A j, i, k : <<j, i, k>> \in R <=>
         /\ j \in Streams /\ i \in 1 .. Len(B[j]) /\ k \in 1 .. Count(r, B[j][i])
         /\ j = id => i # 1
  <2> TAKE j, i, k
  <2>1. <<j, i, k>> \in Occ(B, r) <=> j \in Streams /\ i \in 1 .. Len(B[j]) /\ k \in 1 .. Count(r, B[j][i])
    BY OccMember
  <2>2. <<j, i, k>> \in S <=> j = id /\ i = 1 /\ k \in 1 .. c BY <1>6
  <2>3. j = id /\ i = 1 => Count(r, B[j][i]) = c BY <1>3, Zenon DEF c
  <2> QED BY <2>1, <2>2, <2>3, Zenon
<1>11. \A x \in R : x = <<x[1], x[2], x[3]>> BY OccTriple
<1> HIDE DEF R
<1> DEFINE g(x) == <<x[1], IF x[1] = id THEN x[2] - 1 ELSE x[2], x[3]>>
           f == [x \in R |-> g(x)]
<1>12. ASSUME NEW x \in R
       PROVE  /\ g(x) \in Occ(C, r)
              /\ x[1] = id => x[2] \in Nat /\ x[2] > 1
  <2>1. <<x[1], x[2], x[3]>> \in R BY <1>11, Zenon
  <2>2. /\ x[1] \in Streams /\ x[2] \in 1 .. Len(B[x[1]]) /\ x[3] \in 1 .. Count(r, B[x[1]][x[2]])
        /\ x[1] = id => x[2] # 1
    BY <1>10, <2>1, Zenon
  <2>3. CASE x[1] = id
    <3>1. x[2] \in 1 .. n /\ x[2] # 1 BY <2>2, <2>3, Zenon DEF n
    <3>2. x[2] - 1 \in 1 .. (n - 1) /\ (x[2] - 1) + 1 = x[2] /\ x[2] \in Nat /\ x[2] > 1
      BY <1>1a, <3>1
    <3>3. C[id][x[2] - 1] = B[id][x[2]] BY <1>3, <3>2, Zenon
    <3>4. <<id, x[2] - 1, x[3]>> \in Occ(C, r) BY <1>3, <2>2, <2>3, <3>2, <3>3, OccMember, Zenon
    <3> QED BY <2>3, <3>2, <3>4, Zenon
  <2>4. CASE x[1] # id
    <3>1. <<x[1], x[2], x[3]>> \in Occ(C, r) BY <1>2, <2>2, <2>4, OccMember, Zenon
    <3> QED BY <2>4, <3>1, Zenon
  <2> QED BY <2>3, <2>4
<1>13. f \in [R -> Occ(C, r)] BY <1>12
<1>14. ASSUME NEW x \in R, NEW y \in R, f[x] = f[y] PROVE x = y
  <2>1. g(x) = g(y) BY <1>14
  <2>2. x[1] = y[1] /\ x[3] = y[3] BY <2>1
  <2>3. (IF x[1] = id THEN x[2] - 1 ELSE x[2]) = (IF y[1] = id THEN y[2] - 1 ELSE y[2]) BY <2>1
  <2>4. x[2] = y[2]
    <3>1. CASE x[1] = id
      <4>1. x[2] \in Nat /\ y[2] \in Nat BY <1>12, <2>2, <3>1
      <4> QED BY <2>2, <2>3, <3>1, <4>1
    <3>2. CASE x[1] # id BY <2>2, <2>3, <3>2
    <3> QED BY <3>1, <3>2
  <2> QED BY <1>11, <2>2, <2>4, Zenon
<1>15. ASSUME NEW t \in Occ(C, r) PROVE \E x \in R : f[x] = t
  <2>1. t = <<t[1], t[2], t[3]>> BY OccTriple
  <2>2. <<t[1], t[2], t[3]>> \in Occ(C, r) BY <2>1, Zenon
  <2>3. t[1] \in Streams /\ t[2] \in 1 .. Len(C[t[1]]) /\ t[3] \in 1 .. Count(r, C[t[1]][t[2]])
    BY <2>2, OccMember, Zenon
  <2>4. CASE t[1] = id
    <3> DEFINE x == <<id, t[2] + 1, t[3]>>
    <3>1. t[2] \in 1 .. (n - 1) BY <1>3, <2>3, <2>4, Zenon
    <3>2. t[2] + 1 \in 1 .. n /\ t[2] + 1 # 1 /\ (t[2] + 1) - 1 = t[2] BY <1>1a, <3>1
    <3>3. C[id][t[2]] = B[id][t[2] + 1] BY <1>3, <3>1, Zenon
    <3>4. t[3] \in 1 .. Count(r, B[id][t[2] + 1]) BY <2>3, <2>4, <3>3, Zenon
    <3>5. x \in R BY <1>10, <2>3, <3>2, <3>4, Zenon DEF n
    <3>6. x[1] = id /\ x[2] = t[2] + 1 /\ x[3] = t[3] OBVIOUS
    <3> HIDE DEF x
    <3>7. g(x) = <<id, t[2], t[3]>> BY <3>2, <3>6, Zenon
    <3>8. f[x] = t BY <2>1, <2>4, <3>5, <3>7
    <3> QED BY <3>5, <3>8
  <2>5. CASE t[1] # id
    <3>1. C[t[1]] = B[t[1]] BY <1>2, <2>3, <2>5, Zenon
    <3>2. <<t[1], t[2], t[3]>> \in R BY <1>10, <2>3, <2>5, <3>1, Zenon
    <3>3. t \in R BY <2>1, <3>2, Zenon
    <3>4. g(t) = <<t[1], t[2], t[3]>> BY <2>5, Zenon
    <3>5. f[t] = t BY <2>1, <3>3, <3>4
    <3> QED BY <3>3, <3>5
  <2> QED BY <2>4, <2>5
<1> HIDE DEF f
<1>16. IsFiniteSet(Occ(C, r)) /\ Cardinality(Occ(C, r)) = Cardinality(R)
  BY <1>9, <1>13, <1>14, <1>15, Bijective
<1>17. Cardinality(Occ(B, r)) \in Nat BY FS_CardinalityType
<1> QED BY <1>4, <1>9, <1>16, <1>17 DEF C, c

-----------------------------------------------------------------------------
(***************************************************************************)
(* What a table of a size holds, and what instructions leave alone.        *)
(***************************************************************************)
LEMMA FieldsFit ==
  ASSUME NEW t \in Tables
  PROVE  Len(t.fields) <= max_entries(t.max_size)
<1> DEFINE s == t.fields
           n == Len(s)
<1>1. s \in Seq(Fields) /\ n \in Nat /\ t.max_size \in Nat /\ t.curr_size \in Nat
      /\ t.curr_size = SizeOf(s) /\ t.curr_size <= t.max_size
  BY TableFacts
<1>2. PICK g : Sums(s, g) BY <1>1, SumsExist
<1>3. SizeOf(s) = g[n] BY <1>1, <1>2, SumsSize
<1>4. /\ \A i \in 0 .. n : g[i] \in Nat
      /\ g[0] = 0
      /\ \A i \in 1 .. n : g[i] = g[i - 1] + mem_size[s[i]]
  BY <1>2, Zenon DEF Sums
<1>5. \A i \in 1 .. n : s[i] \in Fields BY <1>1
<1>6. \A f \in Fields : mem_size[f] \in Nat /\ mem_size[f] >= 32
  BY FieldsAssumption DEF ESTIMATED_OVERHEAD_BYTES
<1> HIDE DEF s, n
<1> DEFINE T == {k \in Nat : k \in 0 .. n => 32 * k <= g[k]}
<1>7. 0 \in T BY <1>4
<1>8. \A k \in T : k + 1 \in T
  <2> TAKE k \in T
  <2>1. k \in Nat /\ (k \in 0 .. n => 32 * k <= g[k]) OBVIOUS
  <2> SUFFICES ASSUME k + 1 \in 0 .. n PROVE 32 * (k + 1) <= g[k + 1] BY <2>1
  <2>2. k \in 0 .. n /\ k + 1 \in 1 .. n /\ (k + 1) - 1 = k BY <1>1, <2>1
  <2>3. g[k + 1] = g[k] + mem_size[s[k + 1]] BY <1>4, <2>2, Zenon
  <2>4. mem_size[s[k + 1]] \in Nat /\ mem_size[s[k + 1]] >= 32 BY <1>5, <1>6, <2>2, Zenon
  <2>5. g[k] \in Nat /\ 32 * k <= g[k] BY <1>4, <2>1, <2>2
  <2> HIDE DEF T
  <2> QED BY <2>1, <2>3, <2>4, <2>5
<1>9. T = Nat
  <2> HIDE DEF T
  <2>1. T \subseteq Nat BY DEF T
  <2> QED BY <1>7, <1>8, <2>1, SetInduction
<1>10. n \in Nat /\ n \in 0 .. n BY <1>1
<1>11. 32 * n <= g[n] BY <1>9, <1>10
<1>12. 32 * n <= t.max_size /\ n \in Nat /\ t.max_size \in Nat BY <1>1, <1>3, <1>4, <1>10, <1>11
<1> DEFINE z == t.max_size
<1>13. n <= z \div 32
  <2> HIDE DEF z
  <2>1. z \in Nat /\ 32 * n <= z BY <1>12 DEF z
  <2>2. z \div 32 \in Nat /\ z % 32 \in 0 .. 31 /\ z = 32 * (z \div 32) + (z % 32) BY <2>1
  <2> QED BY <1>12, <2>1, <2>2
<1> QED BY <1>13, Zenon DEF max_entries, ESTIMATED_OVERHEAD_BYTES, s, n, z

(* An instruction that is no change of size changes no size ...            *)
LEMMA AppliedSameSize ==
  ASSUME NEW t \in Tables, NEW i, i.op # "size", Apply(t, i) \in Tables
  PROVE  Apply(t, i).max_size = t.max_size
<1> DEFINE f == InstructedField(t, i)
<1>1. t # Broken /\ Apply(t, i) # Broken BY BrokenIsNone, Zenon
<1>2. Apply(t, i) = IF f = NoField THEN Broken
                    ELSE IF t.max_size = 0 THEN t
                    ELSE IF CanInsert(t, EmptyBag, f) THEN insert(t, f) ELSE Broken
  BY <1>1, Zenon DEF Apply
<1>3. Apply(t, i) = t \/ Apply(t, i) = insert(t, f) BY <1>1, <1>2, Zenon
<1> HIDE DEF f
<1>4. t \in [fields : Seq(Fields), dropped : Nat, curr_size : Nat, max_size : Sizes]
  BY TableFacts
<1>5. \A n : evict(t, n).max_size = t.max_size /\ DOMAIN evict(t, n) = DOMAIN t BY <1>4 DEF evict
<1>6. MakeRoom(t, f).max_size = t.max_size /\ DOMAIN MakeRoom(t, f) = DOMAIN t
  BY <1>5, Zenon DEF MakeRoom
<1>7. insert(t, f).max_size = t.max_size
  <2> DEFINE m == MakeRoom(t, f)
  <2>1. m.max_size = t.max_size /\ "max_size" \in DOMAIN m BY <1>4, <1>6
  <2> HIDE DEF m
  <2>2. [m EXCEPT !.fields = Append(@, f), !.curr_size = @ + mem_size[f]].max_size = t.max_size
    BY <2>1
  <2> QED BY <2>2 DEF insert, m
<1> QED BY <1>3, <1>7

(* ... nor do many.                                                        *)
LEMMA LeadsSameSize ==
  ASSUME NEW X, NEW is \in Seq(X), NEW t, NEW u, Leads(t, is, u),
         \A i \in 1 .. Len(is) : is[i].op # "size"
  PROVE  u.max_size = t.max_size
<1> DEFINE n == Len(is)
<1>1. n \in Nat OBVIOUS
<1>2. PICK f : Chain(f, t, is, u) BY Zenon DEF Leads
<1>3. /\ f \in [0 .. n -> Tables] /\ f[0] = t /\ f[n] = u
      /\ \A i \in 1 .. n : f[i] = Apply(f[i - 1], is[i])
  BY <1>2, Zenon DEF Chain
<1>4. \A i \in 0 .. n : f[i] \in Tables BY <1>3
<1>5. \A i \in 1 .. n : is[i].op # "size" OBVIOUS
<1>6. f[0] = t /\ f[n] = u /\ \A i \in 1 .. n : f[i] = Apply(f[i - 1], is[i]) BY <1>3
<1> HIDE DEF n
<1> DEFINE T == {k \in Nat : k \in 0 .. n => f[k].max_size = t.max_size}
<1>7. 0 \in T BY <1>6
<1>8. \A k \in T : k + 1 \in T
  <2> TAKE k \in T
  <2>1. k \in Nat /\ (k \in 0 .. n => f[k].max_size = t.max_size) OBVIOUS
  <2> SUFFICES ASSUME k + 1 \in 0 .. n PROVE f[k + 1].max_size = t.max_size BY <2>1
  <2>2. k \in 0 .. n /\ k + 1 \in 1 .. n /\ (k + 1) - 1 = k BY <1>1, <2>1
  <2>3. f[k + 1] = Apply(f[k], is[k + 1]) BY <1>6, <2>2, Zenon
  <2>4. f[k] \in Tables /\ Apply(f[k], is[k + 1]) \in Tables /\ is[k + 1].op # "size"
    BY <1>4, <1>5, <2>2, <2>3, Zenon
  <2> DEFINE a == f[k]
             i == is[k + 1]
  <2>5. a \in Tables /\ Apply(a, i) \in Tables /\ i.op # "size" /\ f[k + 1] = Apply(a, i)
    BY <2>3, <2>4
  <2> HIDE DEF a, i
  <2>6. f[k + 1].max_size = a.max_size BY <2>5, AppliedSameSize
  <2> HIDE DEF T
  <2> QED BY <2>1, <2>2, <2>6, Zenon DEF a
<1>9. T = Nat
  <2> HIDE DEF T
  <2>1. T \subseteq Nat BY DEF T
  <2> QED BY <1>7, <1>8, <2>1, SetInduction
<1>10. n \in 0 .. n /\ n \in Nat BY <1>1
<1> QED BY <1>6, <1>9, <1>10

(* What no instructions lead to.                                           *)
LEMMA LeadsNowhereElse ==
  ASSUME NEW t, NEW u, Leads(t, <<>>, u)
  PROVE  t = u
<1>1. Len(<<>>) = 0 OBVIOUS
<1>2. PICK f : Chain(f, t, <<>>, u) BY Zenon DEF Leads
<1>3. f[0] = t /\ f[Len(<<>>)] = u BY <1>2, Zenon DEF Chain
<1> QED BY <1>1, <1>3

-----------------------------------------------------------------------------
(***************************************************************************)
(* Sections on their way.                                                  *)
(***************************************************************************)
Prefixes == [count : Nat, negative : BOOLEAN, delta : Nat]
Pending ==
  [prefix : Prefixes, lines : Seq(Lines), original : Seq(Fields), refs : SUBSET Nat]

(* A line refers to what the section refers to.                            *)
Within(refs, q, b, l) ==
  l.op # "literal" => Absolute(b, l) \in refs /\ Absolute(b, l) <= q

(* The section requires q insertions, is encoded from base b, and says in  *)
(* the table t what was encoded.                                           *)
SectionOK(t, sec, q, b) ==
  /\ q \in Nat /\ b \in Nat
  /\ sec.prefix = HeaderPrefix(q, b, t.max_size)
  /\ q = 0 \/ q \in sec.refs
  /\ Len(sec.lines) = Len(sec.original)
  /\ \A k \in 1 .. Len(sec.lines) :
       /\ Means(t, b, sec.lines[k], sec.original[k])
       /\ Within(sec.refs, q, b, sec.lines[k])

(* The answers on their way leave a stream at least the sections that are  *)
(* still to be decoded.                                                    *)
Settled(ds, id, n, secs) == \E y \in Nat : Len(secs) <= y /\ Walk(ds, Taking(id), n, y)

(* The encoder tracks what they refer to.                                  *)
Aligned(secs, blocks) ==
  \A j \in 1 .. Len(secs) : secs[j].refs = BagToSet(blocks[(Len(blocks) - Len(secs)) + j])

(* What is known of the parts of a section.                                *)
LEMMA PendingFacts ==
  ASSUME NEW sec \in Pending
  PROVE  /\ sec.lines \in Seq(Lines) /\ sec.original \in Seq(Fields) /\ sec.refs \subseteq Nat
         /\ Len(sec.lines) \in Nat
BY DEF Pending

(* It says the same in a table that has what it refers to.                 *)
LEMMA SectionStays ==
  ASSUME NEW t, NEW u, u.max_size = t.max_size,
         NEW sec, NEW q, NEW b, SectionOK(t, sec, q, b),
         \A r \in sec.refs : Entry(t, r) = Entry(u, r)
  PROVE  SectionOK(u, sec, q, b)
<1>1. ASSUME NEW k \in 1 .. Len(sec.lines)
      PROVE  /\ Means(u, b, sec.lines[k], sec.original[k])
             /\ Within(sec.refs, q, b, sec.lines[k])
  <2> DEFINE l == sec.lines[k]
             f == sec.original[k]
  <2>1. Means(t, b, l, f) /\ Within(sec.refs, q, b, l) BY Zenon DEF SectionOK
  <2> HIDE DEF l, f
  <2>2. CASE l.op = "literal" BY <2>1, <2>2, Zenon DEF Means, Within, l, f
  <2>3. CASE l.op # "literal"
    <3>1. Entry(t, Absolute(b, l)) = Entry(u, Absolute(b, l)) BY <2>1, <2>3, Zenon DEF Within
    <3>2. Means(u, b, l, f) BY <2>1, <3>1, Zenon DEF Means
    <3> QED BY <2>1, <3>2 DEF l, f
  <2> QED BY <2>2, <2>3
<1> QED BY <1>1, Zenon DEF SectionOK

(* A table with a size has room for an entry.                              *)
LEMMA Entries ==
  ASSUME NEW size \in Sizes, size # 0
  PROVE  max_entries(size) \in Nat /\ max_entries(size) > 0
<1>1. size \in Nat /\ size \notin 1 .. 31
  <2>1. Sizes \subseteq Nat /\ Sizes \cap 1 .. (ESTIMATED_OVERHEAD_BYTES - 1) = {}
    BY BoundsAssumption, Zenon
  <2>2. ESTIMATED_OVERHEAD_BYTES - 1 = 31 BY DEF ESTIMATED_OVERHEAD_BYTES
  <2> QED BY <2>1, <2>2
<1>2. size >= 32 BY <1>1
<1> QED BY <1>1, <1>2 DEF max_entries, ESTIMATED_OVERHEAD_BYTES

(* What HeaderPrefix::new makes.                                           *)
LEMMA PrefixType ==
  ASSUME NEW q \in Nat, NEW b \in Nat, NEW size \in Sizes
  PROVE  HeaderPrefix(q, b, size) \in Prefixes
<1>1. CASE q = 0 \/ size = 0 BY <1>1 DEF HeaderPrefix, Prefixes
<1>2. CASE ~(q = 0 \/ size = 0)
  <2> DEFINE w == 2 * max_entries(size)
             c == (q % w) + 1
             d == IF q > b THEN q - b - 1 ELSE b - q
             n == q > b
  <2>1. d \in Nat OBVIOUS
  <2>2. w \in Nat /\ w > 0 BY <1>2, Entries
  <2>3. c \in Nat
    <3> HIDE DEF w
    <3> QED BY <2>2, Euclid
  <2>4. n \in BOOLEAN OBVIOUS
  <2>5. HeaderPrefix(q, b, size) = [count |-> c, negative |-> n, delta |-> d]
    BY <1>2 DEF HeaderPrefix
  <2> HIDE DEF c, d, n
  <2> QED BY <2>1, <2>3, <2>4, <2>5 DEF Prefixes
<1> QED BY <1>1, <1>2

-----------------------------------------------------------------------------
(***************************************************************************)
(* Tracking and releasing the references of a section.                     *)
(***************************************************************************)
LEMMA BlocksFacts ==
  ASSUME NEW B \in Blocks, NEW id \in Streams
  PROVE  /\ B[id] \in Seq(Refs) /\ Len(B[id]) \in Nat
         /\ \A i \in 1 .. Len(B[id]) : B[id][i] \in Refs
         /\ \A x \in Seq(Refs) :
              LET C == [B EXCEPT ![id] = x] IN
              C \in Blocks /\ C[id] = x /\ \A j \in Streams : j # id => C[j] = B[j]
<1>1. B[id] \in Seq(Refs) BY DEF Blocks
<1>2. \A s \in Seq(Refs) : Len(s) \in Nat /\ \A i \in 1 .. Len(s) : s[i] \in Refs OBVIOUS
<1>3. ASSUME NEW x \in Seq(Refs)
      PROVE  LET C == [B EXCEPT ![id] = x] IN
             C \in Blocks /\ C[id] = x /\ \A j \in Streams : j # id => C[j] = B[j]
  BY DEF Blocks
<1> QED BY <1>1, <1>2, <1>3, Zenon

(* The entries of a section are tracked at least as often.                 *)
LEMMA TrackedCount ==
  ASSUME NEW m, NEW B \in Blocks, Tally(m, B), NEW id \in Streams, NEW i \in 1 .. Len(B[id]),
         NEW r \in Nat
  PROVE  Count(r, B[id][i]) <= Count(r, m)
<1> DEFINE c == Count(r, B[id][i])
           S == Copies(id, i, c)
<1>1. B[id][i] \in Refs BY BlocksFacts
<1>2. c \in Nat BY <1>1, CountFacts
<1>3. IsFiniteSet(Occ(B, r)) /\ Count(r, m) = Cardinality(Occ(B, r)) BY Zenon DEF Tally
<1>4. \A x \in S : \E k \in 1 .. c : x = <<id, i, k>> BY DEF Copies
<1>5. \A k \in 1 .. c : <<id, i, k>> \in Occ(B, r) BY OccMember, Zenon
<1> HIDE DEF c
<1>6. IsFiniteSet(S) /\ Cardinality(S) = c BY <1>2, OccOfBlock
<1>7. S \subseteq Occ(B, r) BY <1>4, <1>5, Zenon
<1> HIDE DEF S
<1>8. Cardinality(S) <= Cardinality(Occ(B, r)) BY <1>3, <1>7, FS_Subset
<1> QED BY <1>3, <1>6, <1>8 DEF c

(* commit keeps the tally ...                                              *)
LEMMA Tracked ==
  ASSUME NEW m \in Refs, NEW B \in Blocks, Tally(m, B), NEW id \in Streams, NEW b \in Refs,
         NEW m2 \in Refs, \A r \in Nat : Count(r, m2) = Count(r, m) + Count(r, b)
  PROVE  Tally(m2, [B EXCEPT ![id] = Append(@, b)])
<1> DEFINE C == [B EXCEPT ![id] = Append(@, b)]
<1>1. ASSUME NEW r \in Nat
      PROVE  IsFiniteSet(Occ(C, r)) /\ Count(r, m2) = Cardinality(Occ(C, r))
  <2>1. IsFiniteSet(Occ(B, r)) /\ Count(r, m) = Cardinality(Occ(B, r)) BY Zenon DEF Tally
  <2>2. /\ IsFiniteSet(Occ(C, r))
        /\ Cardinality(Occ(C, r)) = Cardinality(Occ(B, r)) + Count(r, b)
    BY <2>1, OccAppended
  <2>3. Count(r, m2) = Count(r, m) + Count(r, b) OBVIOUS
  <2> HIDE DEF C
  <2> QED BY <2>1, <2>2, <2>3, Zenon
<1> HIDE DEF C
<1>2. Tally(m2, C) BY <1>1, Zenon DEF Tally
<1> QED BY <1>2 DEF C

(* ... and so does untrack_block, which finds what it takes away.          *)
LEMMA Released ==
  ASSUME NEW m \in Refs, NEW B \in Blocks, Tally(m, B), NEW id \in Streams, B[id] # <<>>
  PROVE  LET m2 == m (-) Head(B[id])
             C == [B EXCEPT ![id] = Tail(@)]
         IN /\ Head(B[id]) \sqsubseteq m
            /\ m2 \in Refs /\ C \in Blocks /\ Tally(m2, C)
            /\ C[id] = Tail(B[id]) /\ \A j \in Streams : j # id => C[j] = B[j]
            /\ \A r \in Nat : Count(r, m2) <= Count(r, m)
<1> DEFINE b == Head(B[id])
           m2 == m (-) b
           C == [B EXCEPT ![id] = Tail(@)]
<1>0. \A s \in Seq(Refs) : s # <<>> => Head(s) \in Refs /\ Tail(s) \in Seq(Refs) OBVIOUS
<1>1. b \in Refs /\ Tail(B[id]) \in Seq(Refs) BY <1>0, BlocksFacts
<1>2. C \in Blocks /\ C[id] = Tail(B[id]) /\ \A j \in Streams : j # id => C[j] = B[j]
  BY <1>1 DEF Blocks
<1>3. ASSUME NEW r \in Nat
      PROVE  /\ IsFiniteSet(Occ(C, r)) /\ Cardinality(Occ(C, r)) \in Nat
             /\ Count(r, m) = Cardinality(Occ(C, r)) + Count(r, b)
             /\ Count(r, b) \in Nat
  <2>1. IsFiniteSet(Occ(B, r)) /\ Count(r, m) = Cardinality(Occ(B, r)) BY Zenon DEF Tally
  <2>2. /\ IsFiniteSet(Occ(C, r)) /\ Cardinality(Occ(C, r)) \in Nat
        /\ Cardinality(Occ(B, r)) = Cardinality(Occ(C, r)) + Count(r, b)
    BY <2>1, OccTaken
  <2>3. Count(r, b) \in Nat BY <1>1, CountFacts
  <2> HIDE DEF C, b
  <2> QED BY <2>1, <2>2, <2>3, Zenon
<1> HIDE DEF C, b
<1>4. \A r \in Nat : Count(r, b) <= Count(r, m) BY <1>3
<1>5. m2 \in Refs /\ \A r \in Nat : Count(r, m2) = Count(r, m) - Count(r, b)
  BY <1>1, <1>4, RefsTaken
<1>6. b \sqsubseteq m BY <1>1, <1>4, RefsWithin
<1> HIDE DEF m2
<1>7. \A r \in Nat : Count(r, m2) <= Count(r, m) /\ Count(r, m2) = Cardinality(Occ(C, r))
  BY <1>3, <1>5
<1>8. Tally(m2, C) BY <1>3, <1>7, Zenon DEF Tally
<1> QED BY <1>2, <1>5, <1>6, <1>7, <1>8 DEF b, m2, C

-----------------------------------------------------------------------------
(***************************************************************************)
(* The inductive invariant.                                                *)
(***************************************************************************)

(* Either the two tables have one size and no change is on its way, or the *)
(* change is all that is on its way and no section is outstanding.         *)
Sizing(t, u, is, B) ==
  \/ t.max_size = u.max_size /\ \A i \in 1 .. Len(is) : is[i].op # "size"
  \/ t.max_size # u.max_size /\ Len(is) = 1 /\ \A id \in Streams : B[id] = <<>>

(* What is tracked is in the table ...                                     *)
LiveIn(m, t) == \A r \in Nat : Count(r, m) > 0 => Live(t, r)
(* ... and every section to be decoded can be.                             *)
Supported(t, secs) == \A j \in 1 .. Len(secs) : \E q, b : SectionOK(t, secs[j], q, b)
(* Cancellations on their way are of streams that were cancelled.          *)
Cancels(ds, gone) == \A i \in 1 .. Len(ds) : ds[i].op = "cancel" => ds[i].id \in gone

(* A section that has yet to be decoded requires the insertion of r.       *)
Asked(u, ss, r) ==
  \E id \in Streams : \E j \in 1 .. Len(ss[id]) : \E q, b :
    SectionOK(u, ss[id][j], q, b) /\ r \in ss[id][j].refs /\ r <= q
AllAsked(t, u, ss) ==
  \A r \in Nat : total_inserted(t) < r /\ r <= total_inserted(u) => Asked(u, ss, r)

(* What each variable holds; nothing fails.                                *)
Typing ==
  /\ enc \in Tables /\ dec \in Tables
  /\ track_map \in Refs /\ blocked_streams \in Refs
  /\ track_blocks \in Blocks
  /\ largest_known_received \in Nat
  /\ encoder_stream \in Seq(Instructions)
  /\ decoder_stream \in Seq(Answers)
  /\ sections \in [Streams -> Seq(Pending)]
  /\ opened \in [Streams -> 0 .. MaxSections]
  /\ cancelled \subseteq Streams
  /\ failed = "no"

(* The two tables: the instructions on their way lead the decoder to the   *)
(* encoder's table. The numbers: the answers on their way lead the encoder *)
(* to what the decoder has inserted, and to sections it has yet to decode. *)
(* The references: what outstanding sections refer to is counted exactly,  *)
(* is in the encoder's table, and says there what was encoded. The last    *)
(* conjunct, that some section requires every insertion the decoder has    *)
(* not seen, is why the encoder evicts nothing the decoder has yet to      *)
(* insert.                                                                 *)
Inv ==
  /\ Typing
  /\ Leads(dec, encoder_stream, enc)
  /\ Sizing(dec, enc, encoder_stream, track_blocks)
  /\ Walk(decoder_stream, Counting, largest_known_received, total_inserted(dec))
  /\ Tally(track_map, track_blocks)
  /\ LiveIn(track_map, enc)
  /\ \A id \in Streams : Settled(decoder_stream, id, Len(track_blocks[id]), sections[id])
  /\ \A id \in Streams : Aligned(sections[id], track_blocks[id])
  /\ \A id \in Streams : Supported(enc, sections[id])
  /\ \A id \in Streams : Len(sections[id]) <= opened[id]
  /\ \A id \in cancelled : sections[id] = <<>>
  /\ Cancels(decoder_stream, cancelled)
  /\ AllAsked(dec, enc, sections)

(* What is known of the sections and blocks of a stream.                   *)
LEMMA QueueFacts ==
  ASSUME Typing, NEW id \in Streams
  PROVE  /\ sections[id] \in Seq(Pending) /\ Len(sections[id]) \in Nat
         /\ \A j \in 1 .. Len(sections[id]) : sections[id][j] \in Pending
         /\ track_blocks[id] \in Seq(Refs) /\ Len(track_blocks[id]) \in Nat
<1>1. sections[id] \in Seq(Pending) BY DEF Typing
<1>2. \A s \in Seq(Pending) : Len(s) \in Nat /\ \A i \in 1 .. Len(s) : s[i] \in Pending OBVIOUS
<1>3. track_blocks \in Blocks BY DEF Typing
<1> QED BY <1>1, <1>2, <1>3, BlocksFacts, Zenon

(* A section still to be decoded is still tracked.                         *)
LEMMA Outstanding ==
  ASSUME Inv, NEW id \in Streams
  PROVE  Len(sections[id]) <= Len(track_blocks[id])
<1>1. Settled(decoder_stream, id, Len(track_blocks[id]), sections[id]) /\ Typing
  BY Zenon DEF Inv
<1>2. PICK y \in Nat :
        Len(sections[id]) <= y /\ Walk(decoder_stream, Taking(id), Len(track_blocks[id]), y)
  BY <1>1, Zenon DEF Settled
<1>3. decoder_stream \in Seq(Answers) BY <1>1, Zenon DEF Typing
<1>4. y <= Len(track_blocks[id]) BY <1>2, <1>3, TakingFalls
<1> QED BY <1>1, <1>2, <1>4, QueueFacts

(* What it refers to is in the encoder's table, and tracked.               *)
LEMMA RefsLive ==
  ASSUME Inv, NEW id \in Streams, NEW j \in 1 .. Len(sections[id]),
         NEW r \in sections[id][j].refs
  PROVE  r \in Nat /\ Live(enc, r) /\ Count(r, track_map) > 0 /\ BagIn(r, track_map)
<1> DEFINE n == Len(track_blocks[id])
           k == (n - Len(sections[id])) + j
           b == track_blocks[id][k]
<1>1. Typing /\ Aligned(sections[id], track_blocks[id]) /\ Tally(track_map, track_blocks)
      /\ LiveIn(track_map, enc)
  BY Zenon DEF Inv
<1>2. Len(sections[id]) \in Nat /\ n \in Nat /\ Len(sections[id]) <= n
  BY <1>1, QueueFacts, Outstanding
<1>3. k \in 1 .. n
  <2> DEFINE l == Len(sections[id])
  <2>1. l \in Nat /\ n \in Nat /\ l <= n /\ j \in 1 .. l BY <1>2
  <2>2. (n - l) + j \in 1 .. n
    <3> HIDE DEF l, n
    <3> QED BY <2>1
  <2> QED BY <2>2
<1>4. track_map \in Refs /\ track_blocks \in Blocks BY <1>1, Zenon DEF Typing
<1>5. b \in Refs BY <1>3, <1>4, BlocksFacts
<1>6. sections[id][j] \in Pending BY <1>1, QueueFacts
<1>7. r \in Nat BY <1>6, PendingFacts
<1>8. sections[id][j].refs = BagToSet(b) BY <1>1, Zenon DEF Aligned
<1>9. Count(r, b) <= Count(r, track_map) BY <1>1, <1>3, <1>4, <1>7, TrackedCount
<1>10. BagIn(r, b) BY <1>8, Zenon DEF BagIn
<1> HIDE DEF b
<1>11. Count(r, b) \in Nat /\ Count(r, b) > 0 BY <1>5, <1>10, CountFacts
<1>12. Count(r, track_map) \in Nat BY <1>4, CountFacts
<1>13. Count(r, track_map) > 0 BY <1>9, <1>11, <1>12
<1>14. BagIn(r, track_map) BY <1>4, <1>13, CountFacts
<1>15. Live(enc, r) BY <1>1, <1>7, <1>13, Zenon DEF LiveIn
<1> QED BY <1>7, <1>13, <1>14, <1>15

(* While a section is outstanding the two tables have one size.            *)
LEMMA OneSize ==
  ASSUME Inv, NEW id \in Streams, sections[id] # <<>> \/ track_blocks[id] # <<>>
  PROVE  dec.max_size = enc.max_size
<1>1. Sizing(dec, enc, encoder_stream, track_blocks) /\ Typing BY Zenon DEF Inv
<1>2. \A s \in Seq(Pending) : s # <<>> => Len(s) > 0 OBVIOUS
<1>3. track_blocks[id] = <<>> => Len(track_blocks[id]) = 0 OBVIOUS
<1>4. track_blocks[id] # <<>>
  <2> SUFFICES ASSUME track_blocks[id] = <<>> PROVE FALSE OBVIOUS
  <2>1. Len(sections[id]) > 0 BY <1>1, <1>2, QueueFacts
  <2> QED BY <1>1, <1>3, <2>1, QueueFacts, Outstanding
<1> QED BY <1>1, <1>4, Zenon DEF Sizing

(* The decoder has seen every insertion the encoder has evicted, and what  *)
(* is on its way is still in the encoder's table.                          *)
LEMMA Behind ==
  ASSUME Inv
  PROVE  /\ dec \in Tables /\ enc \in Tables /\ Follows(dec, enc)
         /\ total_inserted(dec) \in Nat /\ total_inserted(enc) \in Nat
         /\ total_inserted(dec) <= total_inserted(enc)
         /\ enc.dropped \in Nat /\ enc.dropped <= total_inserted(dec)
         /\ Len(enc.fields) \in Nat /\ total_inserted(enc) = enc.dropped + Len(enc.fields)
<1>1. Typing /\ Leads(dec, encoder_stream, enc) /\ AllAsked(dec, enc, sections) BY Zenon DEF Inv
<1>2. encoder_stream \in Seq(Instructions) BY <1>1, Zenon DEF Typing
<1>3. dec \in Tables /\ enc \in Tables /\ Follows(dec, enc) BY <1>1, <1>2, LeadsFollows
<1>4. total_inserted(dec) \in Nat /\ total_inserted(enc) \in Nat /\ enc.dropped \in Nat
      /\ Len(enc.fields) \in Nat
  BY <1>3, TableFacts
<1>5. total_inserted(dec) <= total_inserted(enc) BY <1>3, Zenon DEF Follows
<1>6. total_inserted(enc) = enc.dropped + Len(enc.fields) BY DEF total_inserted
<1>7. enc.dropped <= total_inserted(dec)
  <2>1. CASE total_inserted(dec) = total_inserted(enc) BY <1>4, <1>6, <2>1
  <2>2. CASE total_inserted(dec) # total_inserted(enc)
    <3> DEFINE r == total_inserted(dec) + 1
    <3>1. r \in Nat /\ total_inserted(dec) < r /\ r <= total_inserted(enc) BY <1>4, <1>5, <2>2
    <3> HIDE DEF r
    <3>2. Asked(enc, sections, r) BY <1>1, <3>1, Zenon DEF AllAsked
    <3>3. PICK id \in Streams : \E j \in 1 .. Len(sections[id]) : r \in sections[id][j].refs
      BY <3>2, Zenon DEF Asked
    <3>4. Live(enc, r) BY <3>3, RefsLive, Zenon
    <3> QED BY <1>4, <3>4 DEF Live, r
  <2> QED BY <2>1, <2>2
<1> QED BY <1>3, <1>4, <1>5, <1>6, <1>7

-----------------------------------------------------------------------------
(***************************************************************************)
(* Decoding.                                                               *)
(***************************************************************************)
LEMMA NeedsIs ==
  ASSUME Inv, NEW id \in Streams, NEW j \in 1 .. Len(sections[id]), NEW q, NEW b,
         SectionOK(enc, sections[id][j], q, b)
  PROVE  /\ q \in Nat /\ b \in Nat /\ q <= total_inserted(enc)
         /\ Needs(sections[id][j]) = q
         /\ q # 0 => Base(sections[id][j].prefix, q) = b
<1> DEFINE sec == sections[id][j]
           p == HeaderPrefix(q, b, enc.max_size)
           e == max_entries(enc.max_size)
           n == Len(enc.fields)
           total == total_inserted(dec)
<1>1. q \in Nat /\ b \in Nat /\ sec.prefix = p /\ (q = 0 \/ q \in sec.refs)
  BY Zenon DEF SectionOK
<1>2. Typing BY Zenon DEF Inv
<1>3. sections[id] # <<>>
  <2>1. Len(<<>>) = 0 OBVIOUS
  <2> QED BY <1>2, <2>1, QueueFacts
<1>4. dec.max_size = enc.max_size BY <1>3, OneSize
<1>5. /\ enc \in Tables /\ total \in Nat /\ enc.dropped \in Nat /\ enc.dropped <= total
      /\ n \in Nat /\ total_inserted(enc) = enc.dropped + n /\ total <= total_inserted(enc)
  BY Behind
<1>6. Needs(sec) = Required(p, total, enc.max_size) BY <1>1, <1>4, Zenon DEF Needs
<1>7. CASE q = 0
  <2>1. p.count = 0 BY <1>7 DEF HeaderPrefix
  <2>2. Required(p, total, enc.max_size) = 0 BY <2>1 DEF Required
  <2> HIDE DEF sec, p, total
  <2> QED BY <1>1, <1>5, <1>6, <1>7, <2>2 DEF sec
<1>8. CASE q # 0
  <2>1. Live(enc, q) BY <1>1, <1>8, RefsLive, Zenon
  <2>2. enc.dropped < q /\ q <= enc.dropped + n BY <1>5, <2>1 DEF Live
  <2>3. n <= e /\ enc.max_size \in Sizes /\ enc.max_size \in Nat
    BY <1>5, FieldsFit, TableFacts
  <2>4. n > 0 BY <1>1, <1>5, <2>2
  <2>5. e \in Nat /\ e > 0
    <3>1. CASE enc.max_size = 0
      <4>1. e = 0 BY <3>1 DEF max_entries, ESTIMATED_OVERHEAD_BYTES
      <4> HIDE DEF e, n
      <4> QED BY <1>5, <2>3, <2>4, <4>1
    <3>2. CASE enc.max_size # 0 BY <2>3, <3>2, Entries
    <3> QED BY <3>1, <3>2
  <2>6. total < q + e /\ q <= total + e
    <3> HIDE DEF e, n, total
    <3> QED BY <1>1, <1>5, <2>2, <2>3, <2>5
  <2>7. q \in Nat \ {0} BY <1>1, <1>8
  <2> HIDE DEF total
  <2>8. Required(p, total, enc.max_size) = q /\ Base(p, q) = b
    BY <1>1, <1>5, <2>3, <2>5, <2>6, <2>7, PrefixRoundTrip
  <2>9. q <= total_inserted(enc) BY <1>5, <2>2
  <2> HIDE DEF sec, p
  <2> QED BY <1>1, <1>6, <2>8, <2>9 DEF sec
<1> QED BY <1>7, <1>8

(* A line is decoded to the field it stands for.                           *)
LEMMA LineDecoded ==
  ASSUME Inv, NEW id \in Streams, NEW j \in 1 .. Len(sections[id]), NEW q, NEW b,
         SectionOK(enc, sections[id][j], q, b), q <= total_inserted(dec),
         NEW k \in 1 .. Len(sections[id][j].lines)
  PROVE  DecodedField(Base(sections[id][j].prefix, q), sections[id][j].lines[k])
           = sections[id][j].original[k]
<1>0. /\ q \in Nat /\ b \in Nat /\ q <= total_inserted(enc)
      /\ Needs(sections[id][j]) = q
      /\ q # 0 => Base(sections[id][j].prefix, q) = b
  BY NeedsIs
<1> DEFINE sec == sections[id][j]
           l == sec.lines[k]
           f == sec.original[k]
           base == Base(sec.prefix, q)
           r == Absolute(b, l)
<1>1. Typing BY Zenon DEF Inv
<1>2. /\ Means(enc, b, l, f) /\ Within(sec.refs, q, b, l) /\ Len(sec.lines) = Len(sec.original)
  BY Zenon DEF SectionOK
<1>3. sec \in Pending BY <1>1, QueueFacts
<1>4. l \in Lines /\ f \in Fields
  <2>1. sec.lines \in Seq(Lines) /\ sec.original \in Seq(Fields) BY <1>3, PendingFacts
  <2>2. \A s \in Seq(Lines) : \A i \in 1 .. Len(s) : s[i] \in Lines OBVIOUS
  <2>3. \A s \in Seq(Fields) : \A i \in 1 .. Len(s) : s[i] \in Fields OBVIOUS
  <2>4. k \in 1 .. Len(sec.lines) /\ k \in 1 .. Len(sec.original) BY <1>2, Zenon
  <2> QED BY <2>1, <2>2, <2>3, <2>4, Zenon
<1>5. q \in Nat /\ b \in Nat /\ (q # 0 => base = b) BY <1>0
<1>6. l.op \in {"literal", "indexed", "post-base", "name", "post-base name"}
      /\ (l.op # "literal" => l.index \in Int)
  <2> HIDE DEF l
  <2> QED BY <1>4 DEF Lines
<1>7. CASE l.op = "literal"
  <2>1. l.field = f BY <1>2, <1>7 DEF Means
  <2> HIDE DEF l, f, base
  <2>2. DecodedField(base, l) = l.field BY <1>7 DEF DecodedField
  <2> QED BY <2>1, <2>2 DEF l, f, base
<1>8. CASE l.op # "literal"
  <2>1. r \in sec.refs /\ r <= q BY <1>2, <1>8, Zenon DEF Within
  <2>2. r \in Nat /\ Live(enc, r) BY <2>1, RefsLive, Zenon
  <2>3. /\ dec \in Tables /\ enc \in Tables /\ Follows(dec, enc)
        /\ dec.dropped \in Nat /\ enc.dropped \in Nat /\ total_inserted(dec) \in Nat
    BY Behind, TableFacts
  <2>4. dec.dropped <= enc.dropped BY <2>3, Zenon DEF Follows
  <2> HIDE DEF r, l, f, base
  <2>5. enc.dropped < r BY <2>2, Zenon DEF Live
  <2>6. Live(dec, r) BY <1>5, <2>1, <2>2, <2>3, <2>4, <2>5 DEF Live
  <2>7. Entry(dec, r) = Entry(enc, r) BY <2>2, <2>3, <2>6, Zenon DEF Follows
  <2>8. q # 0 /\ base = b BY <1>5, <2>1, <2>2, <2>3, <2>5
  <2>9. r = (IF l.op \in {"indexed", "name"} THEN b - l.index ELSE b + l.index + 1)
    BY DEF r, Absolute
  <2>10. CASE l.op \in {"indexed", "post-base"}
    <3>1. DecodedField(base, l) = Entry(dec, r) BY <1>6, <2>6, <2>8, <2>9, <2>10 DEF DecodedField
    <3>2. Entry(enc, r) = f BY <1>2, <2>10 DEF Means, r
    <3> QED BY <2>7, <3>1, <3>2 DEF l, f, base
  <2>11. CASE l.op \in {"name", "post-base name"}
    <3>1. DecodedField(base, l) = [Entry(dec, r) EXCEPT !.value = l.value]
      BY <1>6, <2>6, <2>8, <2>9, <2>11 DEF DecodedField
    <3>2. Entry(enc, r) \in Named(f.name) /\ l.value = f.value BY <1>2, <2>11 DEF Means, r
    <3> DEFINE g == Entry(enc, r)
    <3>3. g \in Fields /\ g.name = f.name BY <3>2 DEF Named
    <3> HIDE DEF g
    <3>4. g = [name |-> g.name, value |-> g.value] BY <3>3, FieldsAssumption, Zenon
    <3>5. f = [name |-> f.name, value |-> f.value] BY <1>4, FieldsAssumption, Zenon
    <3>6. [g EXCEPT !.value = f.value] = f BY <3>3, <3>4, <3>5
    <3> QED BY <2>7, <3>1, <3>2, <3>6 DEF l, f, base, g
  <2> QED BY <1>6, <1>8, <2>10, <2>11
<1> QED BY <1>7, <1>8

(* decode_header recovers the fields of a section that waits for nothing.  *)
LEMMA SectionDecoded ==
  ASSUME Inv, NEW id \in Streams, NEW j \in 1 .. Len(sections[id]),
         ~Missing(sections[id][j])
  PROVE  /\ Needs(sections[id][j]) \in Nat
         /\ Decoded(sections[id][j]) = sections[id][j].original
         /\ \A i \in DOMAIN sections[id][j].lines : Decoded(sections[id][j])[i] # NoField
<1> DEFINE sec == sections[id][j]
           d == Decoded(sec)
<1>1. Typing /\ Supported(enc, sections[id]) BY Zenon DEF Inv
<1>2. PICK q, b : SectionOK(enc, sec, q, b) BY <1>1, Zenon DEF Supported
<1>3. Needs(sec) = q /\ q \in Nat /\ total_inserted(dec) \in Nat BY <1>2, NeedsIs, Behind
<1>4. q <= total_inserted(dec) BY <1>3 DEF Missing
<1>5. \A k \in 1 .. Len(sec.lines) : DecodedField(Base(sec.prefix, q), sec.lines[k]) = sec.original[k]
  BY <1>2, <1>4, LineDecoded
<1>6. sec \in Pending BY <1>1, QueueFacts
<1>7. Len(sec.lines) = Len(sec.original) BY <1>2, Zenon DEF SectionOK
<1> HIDE DEF sec
<1>8. sec.lines \in Seq(Lines) /\ sec.original \in Seq(Fields) BY <1>6, PendingFacts
<1>9. DOMAIN sec.lines = 1 .. Len(sec.lines) BY <1>8
<1>10. d = [i \in 1 .. Len(sec.lines) |-> DecodedField(Base(sec.prefix, q), sec.lines[i])]
  BY <1>3, <1>9, Zenon DEF Decoded
<1>11. d = [i \in 1 .. Len(sec.lines) |-> sec.original[i]] BY <1>5, <1>10
<1>12. d = sec.original /\ \A i \in 1 .. Len(sec.lines) : d[i] \in Fields
  BY <1>7, <1>8, <1>11
<1>13. \A i \in DOMAIN sec.lines : d[i] # NoField BY <1>9, <1>12, NoFieldAssumption, Zenon
<1> QED BY <1>3, <1>12, <1>13 DEF sec

(* When the decoder has seen all instructions its table is the encoder's.  *)
LEMMA SeenAll ==
  ASSUME Inv, encoder_stream = <<>>
  PROVE  dec = enc
<1>1. Leads(dec, <<>>, enc) BY Zenon DEF Inv
<1> QED BY <1>1, LeadsNowhereElse

-----------------------------------------------------------------------------
(***************************************************************************)
(* Every action keeps the invariant.                                       *)
(***************************************************************************)
LEMMA Appending ==
  ASSUME NEW S, NEW s \in Seq(S), NEW x \in S
  PROVE  /\ Append(s, x) \in Seq(S) /\ Len(s) \in Nat /\ Len(Append(s, x)) = Len(s) + 1
         /\ Append(s, x)[Len(s) + 1] = x
         /\ \A i \in 1 .. Len(s) : i \in 1 .. (Len(s) + 1) /\ Append(s, x)[i] = s[i]
         /\ \A i \in 1 .. (Len(s) + 1) : i \in 1 .. Len(s) \/ i = Len(s) + 1
OBVIOUS

(* A function changed in one place.                                        *)
LEMMA Updating ==
  ASSUME NEW D, NEW S, NEW f \in [D -> S], NEW d \in D, NEW x \in S
  PROVE  /\ [f EXCEPT ![d] = x] \in [D -> S]
         /\ [f EXCEPT ![d] = x][d] = x
         /\ \A e \in D : e # d => [f EXCEPT ![d] = x][e] = f[e]
OBVIOUS

(* A section is added at the end, with what it refers to.                  *)
LEMMA AlignedAppended ==
  ASSUME NEW secs \in Seq(Pending), NEW blocks \in Seq(Refs), Len(secs) <= Len(blocks),
         Aligned(secs, blocks), NEW sec \in Pending, NEW b \in Refs, sec.refs = BagToSet(b)
  PROVE  Aligned(Append(secs, sec), Append(blocks, b))
<1> DEFINE m == Len(secs)
           n == Len(blocks)
           ts == Append(secs, sec)
           bs == Append(blocks, b)
<1>1. /\ m \in Nat /\ Len(ts) = m + 1 /\ ts[m + 1] = sec
      /\ \A i \in 1 .. m : ts[i] = secs[i]
  BY Appending
<1>2. /\ n \in Nat /\ Len(bs) = n + 1 /\ bs[n + 1] = b
      /\ \A i \in 1 .. n : bs[i] = blocks[i]
  BY Appending
<1>3. m <= n /\ \A j \in 1 .. m : secs[j].refs = BagToSet(blocks[(n - m) + j])
  BY Zenon DEF Aligned
<1> HIDE DEF m, n, ts, bs
<1>4. ASSUME NEW j \in 1 .. (m + 1)
      PROVE  ts[j].refs = BagToSet(bs[((n + 1) - (m + 1)) + j])
  <2>1. CASE j = m + 1
    <3>1. ((n + 1) - (m + 1)) + j = n + 1 BY <1>1, <1>2, <2>1
    <3> QED BY <1>1, <1>2, <2>1, <3>1, Zenon
  <2>2. CASE j # m + 1
    <3>1. j \in 1 .. m /\ ((n + 1) - (m + 1)) + j = (n - m) + j /\ (n - m) + j \in 1 .. n
      BY <1>1, <1>2, <1>3, <2>2
    <3> QED BY <1>1, <1>2, <1>3, <3>1, Zenon
  <2> QED BY <2>1, <2>2
<1>5. Aligned(ts, bs) BY <1>1, <1>2, <1>4, Zenon DEF Aligned
<1> QED BY <1>5 DEF ts, bs

(* The oldest section is decoded.                                          *)
LEMMA AlignedDecoded ==
  ASSUME NEW secs \in Seq(Pending), secs # <<>>, NEW blocks, Len(blocks) \in Nat,
         Aligned(secs, blocks)
  PROVE  Aligned(Tail(secs), blocks)
<1> DEFINE m == Len(secs)
           n == Len(blocks)
           ts == Tail(secs)
<1>1. m \in Nat /\ m >= 1 /\ Len(ts) = m - 1 /\ \A i \in 1 .. (m - 1) : ts[i] = secs[i + 1]
  OBVIOUS
<1>2. n \in Nat /\ \A j \in 1 .. m : secs[j].refs = BagToSet(blocks[(n - m) + j])
  BY Zenon DEF Aligned
<1> HIDE DEF m, n, ts
<1>3. ASSUME NEW j \in 1 .. (m - 1)
      PROVE  ts[j].refs = BagToSet(blocks[(n - (m - 1)) + j])
  <2>1. j + 1 \in 1 .. m /\ (n - m) + (j + 1) = (n - (m - 1)) + j BY <1>1, <1>2
  <2>2. secs[j + 1].refs = BagToSet(blocks[(n - m) + (j + 1)]) BY <1>2, <2>1, Zenon
  <2> QED BY <1>1, <2>1, <2>2, Zenon
<1>4. Aligned(ts, blocks) BY <1>1, <1>3, Zenon DEF Aligned, n
<1> QED BY <1>4 DEF ts

(* The oldest section is acknowledged.                                     *)
LEMMA AlignedReleased ==
  ASSUME NEW secs, Len(secs) \in Nat, NEW blocks \in Seq(Refs), Len(secs) < Len(blocks),
         Aligned(secs, blocks)
  PROVE  Aligned(secs, Tail(blocks))
<1> DEFINE m == Len(secs)
           n == Len(blocks)
           bs == Tail(blocks)
<1>1. n \in Nat /\ m \in Nat /\ m < n OBVIOUS
<1>2. Len(bs) = n - 1 /\ \A i \in 1 .. (n - 1) : bs[i] = blocks[i + 1]
  <2>1. blocks # <<>> BY <1>1
  <2> QED BY <2>1
<1>3. \A j \in 1 .. m : secs[j].refs = BagToSet(blocks[(n - m) + j])
  BY Zenon DEF Aligned
<1> HIDE DEF m, n, bs
<1>4. ASSUME NEW j \in 1 .. m
      PROVE  secs[j].refs = BagToSet(bs[((n - 1) - m) + j])
  <2>1. ((n - 1) - m) + j \in 1 .. (n - 1) /\ (((n - 1) - m) + j) + 1 = (n - m) + j BY <1>1
  <2>2. bs[((n - 1) - m) + j] = blocks[(n - m) + j] BY <1>2, <2>1, Zenon
  <2> QED BY <1>3, <2>2, Zenon
<1>5. Aligned(secs, bs) BY <1>2, <1>4, Zenon DEF Aligned, m
<1> QED BY <1>5 DEF bs

(* What is committed and sent.                                             *)
Sent(s, fs) ==
  [prefix |-> HeaderPrefix(s.required, s.base, s.t.max_size),
   lines |-> s.lines, original |-> fs, refs |-> BagToSet(s.refs)]

(* What encode sends is such a section.                                    *)
LEMMA SentIsOK ==
  ASSUME NEW e, NEW m, NEW fs \in Seq(Fields), NEW s, Written(e, m, s, fs, Len(fs))
  PROVE  /\ Sent(s, fs) \in Pending
         /\ SectionOK(s.t, Sent(s, fs), s.required, s.base)
<1> DEFINE sec == Sent(s, fs)
           q == s.required
           b == s.base
<1>1. /\ Sound(e, m, s) /\ Len(s.lines) = Len(fs)
      /\ \A j \in 1 .. Len(fs) : LineOK(s, s.lines[j], fs[j])
  BY Zenon DEF Written
<1>2. s \in Encoders /\ (q = 0 \/ Count(q, s.refs) > 0) BY <1>1, Zenon DEF Sound
<1>3. s.t \in Tables /\ q \in Nat /\ b \in Nat /\ s.refs \in Refs /\ s.lines \in Seq(Lines)
  BY <1>2, EncoderFacts
<1>4. s.t.max_size \in Sizes BY <1>3, TableFacts
<1>5. HeaderPrefix(q, b, s.t.max_size) \in Prefixes BY <1>3, <1>4, PrefixType
<1>6. BagToSet(s.refs) \subseteq Nat /\ \A r : Count(r, s.refs) > 0 => r \in BagToSet(s.refs)
  <2>1. BagToSet(s.refs) \subseteq Nat BY <1>3, RefsFacts, Zenon DEF BagToSet
  <2>2. \A r : Count(r, s.refs) > 0 => BagIn(r, s.refs) BY <1>3, CountFacts
  <2> QED BY <2>1, <2>2, Zenon DEF BagIn
<1>7. /\ sec.prefix = HeaderPrefix(q, b, s.t.max_size) /\ sec.lines = s.lines
      /\ sec.original = fs /\ sec.refs = BagToSet(s.refs)
      /\ sec \in Pending
  BY <1>3, <1>5, <1>6 DEF Sent, Pending
<1> HIDE DEF sec
<1>8. ASSUME NEW k \in 1 .. Len(fs)
      PROVE  Means(s.t, b, s.lines[k], fs[k]) /\ Within(sec.refs, q, b, s.lines[k])
  <2>1. Means(s.t, b, s.lines[k], fs[k]) /\ RefersWithin(s.refs, q, b, s.lines[k])
    BY <1>1, Zenon DEF LineOK
  <2>2. Within(sec.refs, q, b, s.lines[k]) BY <1>6, <1>7, <2>1, Zenon DEF RefersWithin, Within
  <2> QED BY <2>1, <2>2
<1>9. q = 0 \/ q \in sec.refs BY <1>2, <1>6, <1>7, Zenon
<1>10. SectionOK(s.t, sec, q, b) BY <1>1, <1>3, <1>7, <1>8, <1>9, Zenon DEF SectionOK
<1> QED BY <1>7, <1>10 DEF sec

(* A section sent is outstanding until it is answered.                     *)
LEMMA SettledSent ==
  ASSUME NEW ds \in Seq(Answers), NEW id, NEW n \in Nat, NEW secs, Len(secs) \in Nat,
         NEW ts, Len(ts) = Len(secs) + 1, Settled(ds, id, n, secs),
         \A i \in 1 .. Len(ds) : ~(ds[i].op = "cancel" /\ ds[i].id = id)
  PROVE  Settled(ds, id, n + 1, ts)
<1>1. PICK y \in Nat : Len(secs) <= y /\ Walk(ds, Taking(id), n, y) BY Zenon DEF Settled
<1>2. Walk(ds, Taking(id), n + 1, y + 1) BY <1>1, WalkMore
<1>3. y + 1 \in Nat /\ Len(ts) <= y + 1 BY <1>1
<1> QED BY <1>2, <1>3, Zenon DEF Settled

(* What encode sends, and what it leaves.                                  *)
Encoded(id, s, sec) ==
  /\ opened[id] < MaxSections
  /\ id \notin cancelled /\ dec.max_size = enc.max_size
  /\ opened' = [opened EXCEPT ![id] = @ + 1]
  /\ enc' = s.t /\ failed' = "no"
  /\ track_map' = s.track
  /\ track_blocks' = [track_blocks EXCEPT ![id] = Append(@, s.refs)]
  /\ blocked_streams' = IF s.required <= largest_known_received THEN blocked_streams
                        ELSE blocked_streams (+) One(s.required)
  /\ encoder_stream' = encoder_stream \o s.ins
  /\ sections' = [sections EXCEPT ![id] = Append(@, sec)]
  /\ UNCHANGED <<largest_known_received, dec, decoder_stream, cancelled>>
  /\ s.t \in Tables /\ s.track \in Refs /\ s.refs \in Refs
  /\ s.ins \in Seq(Instructions) /\ s.required \in Nat
  /\ Leads(enc, s.ins, s.t)
  /\ s.t.max_size = enc.max_size
  /\ \A i \in 1 .. Len(s.ins) : s.ins[i].op # "size"
  /\ \A r \in Nat : Count(r, s.track) = Count(r, track_map) + Count(r, s.refs)
  /\ \A r \in Nat : Count(r, s.track) > 0 => Live(s.t, r)
  /\ \A r \in Nat : total_inserted(enc) < r /\ r <= total_inserted(s.t) =>
       Count(r, s.refs) > 0 /\ r <= s.required
  /\ sec \in Pending /\ sec.refs = BagToSet(s.refs)
  /\ SectionOK(s.t, sec, s.required, s.base)

(* encode does so.                                                         *)
LEMMA EncodeFacts ==
  ASSUME Inv, Careful, NEW id \in Streams, NEW fs \in Lists, encode(id, fs)
  PROVE  \E s, sec : Encoded(id, s, sec)
<1> DEFINE s == encode_fields(DynamicTableEncoder, fs)
           sec == Sent(s, fs)
<1>1. Typing /\ LiveIn(track_map, enc) BY Zenon DEF Inv
<1>2. /\ opened[id] < MaxSections
      /\ id \notin cancelled /\ dec.max_size = enc.max_size
      /\ opened' = [opened EXCEPT ![id] = @ + 1]
      /\ enc' = s.t
      /\ commit(id, s)
      /\ encoder_stream' = encoder_stream \o s.ins
      /\ sections' = (IF id \in cancelled THEN sections
                      ELSE [sections EXCEPT ![id] = Append(@, sec)])
      /\ failed' = (IF s.panic THEN "panic" ELSE "no")
      /\ UNCHANGED <<largest_known_received, dec, decoder_stream, cancelled>>
  BY Zenon DEF encode, Sent
<1>3. enc \in Tables /\ track_map \in Refs BY <1>1, Zenon DEF Typing
<1>4. fs \in Seq(Fields)
  <2>1. Lists \subseteq Seq(Fields) BY FieldsAssumption, Zenon
  <2> QED BY <2>1
<1>5. Written(enc, track_map, s, fs, Len(fs))
  <2>1. Written(enc, track_map, DynamicTableEncoder, fs, 0)
    BY <1>1, <1>3, BeginsWritten, Zenon DEF LiveIn
  <2> QED BY <1>4, <2>1, SectionEncoded
<1>6. /\ s \in Encoders /\ s.panic = FALSE
      /\ Leads(enc, s.ins, s.t)
      /\ s.t.max_size = enc.max_size
      /\ (\A i \in 1 .. Len(s.ins) : s.ins[i].op # "size")
      /\ (\A r \in Nat : Count(r, s.track) = Count(r, track_map) + Count(r, s.refs))
      /\ (\A r \in Nat : Count(r, s.track) > 0 => Live(s.t, r))
      /\ (\A r \in Nat : total_inserted(enc) < r /\ r <= total_inserted(s.t) =>
            Count(r, s.refs) > 0 /\ r <= s.required)
  BY <1>5, Zenon DEF Written, Sound
<1>7. /\ s.t \in Tables /\ s.track \in Refs /\ s.refs \in Refs
      /\ s.ins \in Seq(Instructions) /\ s.required \in Nat
  BY <1>6, EncoderFacts
<1>8. sec \in Pending /\ SectionOK(s.t, sec, s.required, s.base) BY <1>4, <1>5, SentIsOK
<1>9. sec.refs = BagToSet(s.refs) BY DEF Sent
<1> HIDE DEF s, sec
<1>10. /\ track_map' = s.track
       /\ track_blocks' = [track_blocks EXCEPT ![id] = Append(@, s.refs)]
       /\ blocked_streams' = (IF s.required <= largest_known_received THEN blocked_streams
                              ELSE blocked_streams (+) One(s.required))
  BY <1>2, Zenon DEF commit
<1>11. sections' = [sections EXCEPT ![id] = Append(@, sec)] BY <1>2, Zenon
<1>12. failed' = "no" BY <1>2, <1>6, Zenon
<1>13. Encoded(id, s, sec)
  BY <1>2, <1>6, <1>7, <1>8, <1>9, <1>10, <1>11, <1>12, Zenon DEF Encoded
<1> QED BY <1>13, Zenon

(* Earlier sections require what they required.                            *)
LEMMA EarlierStay ==
  ASSUME Inv, NEW id \in Streams, NEW s, NEW sec, Encoded(id, s, sec),
         NEW i \in Streams, NEW j \in 1 .. Len(sections[i]), NEW q, NEW b
  PROVE  SectionOK(enc, sections[i][j], q, b) <=> SectionOK(s.t, sections[i][j], q, b)
<1>1. /\ s.t \in Tables /\ s.track \in Refs /\ s.refs \in Refs
      /\ s.ins \in Seq(Instructions) /\ Leads(enc, s.ins, s.t) /\ s.t.max_size = enc.max_size
      /\ (\A r \in Nat : Count(r, s.track) = Count(r, track_map) + Count(r, s.refs))
      /\ (\A r \in Nat : Count(r, s.track) > 0 => Live(s.t, r))
  BY Zenon DEF Encoded
<1>2. enc \in Tables /\ track_map \in Refs BY Zenon DEF Inv, Typing
<1>3. Follows(enc, s.t) BY <1>1, <1>2, LeadsFollows
<1>4. ASSUME NEW r \in sections[i][j].refs PROVE Entry(enc, r) = Entry(s.t, r)
  <2>1. r \in Nat /\ Live(enc, r) /\ Count(r, track_map) > 0 BY RefsLive, Zenon
  <2>2. Count(r, s.track) = Count(r, track_map) + Count(r, s.refs) BY <1>1, <2>1
  <2>3. Count(r, track_map) \in Nat /\ Count(r, s.refs) \in Nat BY <1>1, <1>2, CountFacts
  <2>4. Count(r, s.track) > 0 BY <2>1, <2>2, <2>3
  <2>5. Live(s.t, r) BY <1>1, <2>1, <2>4
  <2> QED BY <1>3, <2>1, <2>5, Zenon DEF Follows
<1>5. \A r \in sections[i][j].refs : Entry(s.t, r) = Entry(enc, r) BY <1>4, Zenon
<1>6. SectionOK(enc, sections[i][j], q, b) => SectionOK(s.t, sections[i][j], q, b)
  BY <1>1, <1>4, SectionStays
<1>7. SectionOK(s.t, sections[i][j], q, b) => SectionOK(enc, sections[i][j], q, b)
  BY <1>1, <1>5, SectionStays
<1> QED BY <1>6, <1>7

(* Encoder::encode keeps the invariant.                                    *)
LEMMA EncodeKeeps ==
  ASSUME Inv, Careful, NEW id \in Streams, NEW fs \in Lists, encode(id, fs)
  PROVE  Inv'
<1>1. /\ Typing
      /\ Leads(dec, encoder_stream, enc)
      /\ Sizing(dec, enc, encoder_stream, track_blocks)
      /\ Walk(decoder_stream, Counting, largest_known_received, total_inserted(dec))
      /\ Tally(track_map, track_blocks)
      /\ LiveIn(track_map, enc)
      /\ (\A i \in Streams : Settled(decoder_stream, i, Len(track_blocks[i]), sections[i]))
      /\ (\A i \in Streams : Aligned(sections[i], track_blocks[i]))
      /\ (\A i \in Streams : Supported(enc, sections[i]))
      /\ (\A i \in Streams : Len(sections[i]) <= opened[i])
      /\ (\A i \in cancelled : sections[i] = <<>>)
      /\ Cancels(decoder_stream, cancelled)
      /\ AllAsked(dec, enc, sections)
  BY Zenon DEF Inv
<1>2. PICK s, sec : Encoded(id, s, sec) BY EncodeFacts, Zenon
<1>3. /\ enc \in Tables /\ dec \in Tables
      /\ track_map \in Refs /\ blocked_streams \in Refs
      /\ track_blocks \in Blocks
      /\ largest_known_received \in Nat
      /\ encoder_stream \in Seq(Instructions)
      /\ decoder_stream \in Seq(Answers)
      /\ sections \in [Streams -> Seq(Pending)]
      /\ opened \in [Streams -> 0 .. MaxSections]
      /\ cancelled \subseteq Streams
  BY <1>1, Zenon DEF Typing
<1>4. /\ opened[id] < MaxSections
      /\ id \notin cancelled /\ dec.max_size = enc.max_size
      /\ opened' = [opened EXCEPT ![id] = @ + 1]
      /\ enc' = s.t /\ failed' = "no"
      /\ encoder_stream' = encoder_stream \o s.ins
      /\ UNCHANGED <<largest_known_received, dec, decoder_stream, cancelled>>
  BY <1>2, Zenon DEF Encoded
<1>6. /\ Leads(enc, s.ins, s.t)
      /\ s.t.max_size = enc.max_size
      /\ (\A i \in 1 .. Len(s.ins) : s.ins[i].op # "size")
      /\ (\A r \in Nat : Count(r, s.track) = Count(r, track_map) + Count(r, s.refs))
      /\ (\A r \in Nat : Count(r, s.track) > 0 => Live(s.t, r))
      /\ (\A r \in Nat : total_inserted(enc) < r /\ r <= total_inserted(s.t) =>
            Count(r, s.refs) > 0 /\ r <= s.required)
  BY <1>2, Zenon DEF Encoded
<1>7. /\ s.t \in Tables /\ s.track \in Refs /\ s.refs \in Refs
      /\ s.ins \in Seq(Instructions) /\ s.required \in Nat
  BY <1>2, Zenon DEF Encoded
<1>8. sec \in Pending /\ SectionOK(s.t, sec, s.required, s.base) BY <1>2, Zenon DEF Encoded
<1>9. sec.refs = BagToSet(s.refs) BY <1>2, Zenon DEF Encoded
<1>10. /\ track_map' = s.track
       /\ track_blocks' = [track_blocks EXCEPT ![id] = Append(@, s.refs)]
       /\ blocked_streams' = (IF s.required <= largest_known_received THEN blocked_streams
                              ELSE blocked_streams (+) One(s.required))
  BY <1>2, Zenon DEF Encoded
<1>11. sections' = [sections EXCEPT ![id] = Append(@, sec)] BY <1>2, Zenon DEF Encoded
<1>12. /\ sections[id] \in Seq(Pending) /\ Len(sections[id]) \in Nat
       /\ track_blocks[id] \in Seq(Refs) /\ Len(track_blocks[id]) \in Nat
  BY <1>1, QueueFacts
<1>13. /\ Append(sections[id], sec) \in Seq(Pending)
       /\ Len(Append(sections[id], sec)) = Len(sections[id]) + 1
       /\ Append(sections[id], sec)[Len(sections[id]) + 1] = sec
       /\ \A i \in 1 .. Len(sections[id]) :
            i \in 1 .. (Len(sections[id]) + 1) /\ Append(sections[id], sec)[i] = sections[id][i]
       /\ \A i \in 1 .. (Len(sections[id]) + 1) : i \in 1 .. Len(sections[id]) \/ i = Len(sections[id]) + 1
  BY <1>8, <1>12, Appending
<1>14. /\ sections' \in [Streams -> Seq(Pending)]
       /\ sections'[id] = Append(sections[id], sec)
       /\ \A i \in Streams : i # id => sections'[i] = sections[i]
  BY <1>3, <1>11, <1>13, Updating
<1>15. Append(track_blocks[id], s.refs) \in Seq(Refs)
       /\ Len(Append(track_blocks[id], s.refs)) = Len(track_blocks[id]) + 1
  BY <1>7, <1>12, Appending
<1>16. /\ track_blocks' \in Blocks
       /\ track_blocks'[id] = Append(track_blocks[id], s.refs)
       /\ \A i \in Streams : i # id => track_blocks'[i] = track_blocks[i]
  BY <1>3, <1>10, <1>15, Updating DEF Blocks
<1>17. blocked_streams' \in Refs
  <2>1. One(s.required) \in Refs BY <1>7, OneRef
  <2>2. blocked_streams (+) One(s.required) \in Refs BY <1>3, <2>1, RefsAdded
  <2> QED BY <1>3, <1>10, <2>2, Zenon
<1>18. /\ opened' \in [Streams -> 0 .. MaxSections]
       /\ opened'[id] = opened[id] + 1 /\ opened[id] \in Nat
       /\ \A i \in Streams : i # id => opened'[i] = opened[i]
  <2>1. MaxSections \in Nat BY BoundsAssumption, Zenon
  <2>2. opened[id] \in 0 .. MaxSections /\ opened[id] < MaxSections BY <1>4, <1>3
  <2>3. opened[id] + 1 \in 0 .. MaxSections /\ opened[id] \in Nat BY <2>1, <2>2
  <2>4. opened' = [opened EXCEPT ![id] = opened[id] + 1] BY <1>4
  <2> QED BY <1>3, <2>3, <2>4, Updating
<1>19. Typing'
  <2>1. encoder_stream' \in Seq(Instructions) BY <1>4, <1>3, <1>7
  <2>2. failed' = "no" BY <1>4, <1>6, Zenon
  <2> QED BY <1>4, <1>3, <1>7, <1>10, <1>14, <1>16, <1>17, <1>18, <2>1, <2>2, Zenon DEF Typing
<1>20. Leads(dec, encoder_stream, enc)'
  <2>1. Leads(dec, encoder_stream \o s.ins, s.t) BY <1>1, <1>3, <1>6, <1>7, LeadsJoin
  <2> QED BY <1>4, <2>1, Zenon
<1>21. Sizing(dec, enc, encoder_stream, track_blocks)'
  <2> DEFINE c == encoder_stream \o s.ins
  <2>1. \A i \in 1 .. Len(encoder_stream) : encoder_stream[i].op # "size"
    BY <1>1, <1>4, Zenon DEF Sizing
  <2>2. \A i \in 1 .. Len(c) :
          \/ i \in 1 .. Len(encoder_stream) /\ c[i] = encoder_stream[i]
          \/ \E k \in 1 .. Len(s.ins) : c[i] = s.ins[k]
    <3> TAKE i \in 1 .. Len(c)
    <3> DEFINE a == encoder_stream
               z == s.ins
               k == i - Len(a)
    <3>1. a \in Seq(Instructions) /\ z \in Seq(Instructions) BY <1>3, <1>7
    <3> HIDE DEF a, z
    <3>2. i \in 1 .. Len(a \o z) BY DEF a, z
    <3>3. CASE i <= Len(a)
      <4>1. i \in 1 .. Len(a) /\ (a \o z)[i] = a[i] BY <3>1, <3>2, <3>3
      <4> QED BY <4>1 DEF a, z
    <3>4. CASE ~(i <= Len(a))
      <4>1. k \in 1 .. Len(z) /\ (a \o z)[i] = z[k] BY <3>1, <3>2, <3>4
      <4> QED BY <4>1 DEF a, z
    <3> QED BY <3>3, <3>4
  <2> HIDE DEF c
  <2>3. \A i \in 1 .. Len(c) : c[i].op # "size" BY <1>6, <2>1, <2>2, Zenon
  <2>4. encoder_stream' = c BY <1>4 DEF c
  <2> QED BY <1>4, <1>6, <2>3, <2>4, Zenon DEF Sizing
<1>22. Walk(decoder_stream, Counting, largest_known_received, total_inserted(dec))'
  BY <1>1, <1>4, Zenon
<1>23. Tally(track_map, track_blocks)'
  <2>1. Tally(s.track, [track_blocks EXCEPT ![id] = Append(@, s.refs)])
    BY <1>1, <1>3, <1>6, <1>7, Tracked
  <2> QED BY <1>10, <2>1, Zenon
<1>24. LiveIn(track_map, enc)' BY <1>4, <1>6, <1>10, Zenon DEF LiveIn
<1>25. ASSUME NEW i \in Streams
       PROVE  Settled(decoder_stream, i, Len(track_blocks[i]), sections[i])'
  <2>1. Settled(decoder_stream, i, Len(track_blocks[i]), sections[i]) BY <1>1, Zenon
  <2>2. CASE i = id
    <3>1. \A k \in 1 .. Len(decoder_stream) :
            ~(decoder_stream[k].op = "cancel" /\ decoder_stream[k].id = id)
      BY <1>1, <1>4, Zenon DEF Cancels
    <3>2. Settled(decoder_stream, id, Len(track_blocks[id]) + 1, sections'[id])
      BY <1>3, <1>12, <1>13, <1>14, <2>1, <2>2, <3>1, SettledSent
    <3> QED BY <1>4, <1>15, <1>16, <2>2, <3>2, Zenon
  <2>3. CASE i # id BY <1>4, <1>14, <1>16, <2>1, <2>3, Zenon
  <2> QED BY <2>2, <2>3
<1>26. ASSUME NEW i \in Streams PROVE Aligned(sections[i], track_blocks[i])'
  <2>1. CASE i = id
    <3>1. Len(sections[id]) <= Len(track_blocks[id]) BY Outstanding
    <3>2. Aligned(sections[id], track_blocks[id]) BY <1>1, Zenon
    <3>3. Aligned(Append(sections[id], sec), Append(track_blocks[id], s.refs))
      BY <1>7, <1>8, <1>9, <1>12, <3>1, <3>2, AlignedAppended
    <3> QED BY <1>14, <1>16, <2>1, <3>3, Zenon
  <2>2. CASE i # id BY <1>1, <1>14, <1>16, <2>2, Zenon
  <2> QED BY <2>1, <2>2
<1>27. ASSUME NEW i \in Streams, NEW j \in 1 .. Len(sections[i]), NEW q, NEW b,
              SectionOK(enc, sections[i][j], q, b)
       PROVE  SectionOK(s.t, sections[i][j], q, b)
  BY <1>2, <1>27, EarlierStay
<1>28. ASSUME NEW i \in Streams PROVE Supported(enc, sections[i])'
  <2>1. Supported(enc, sections[i]) BY <1>1, Zenon
  <2>2. \A j \in 1 .. Len(sections[i]) : \E q, b : SectionOK(s.t, sections[i][j], q, b)
    BY <1>27, <2>1, Zenon DEF Supported
  <2>3. CASE i = id
    <3>1. ASSUME NEW j \in 1 .. (Len(sections[id]) + 1)
          PROVE  \E q, b : SectionOK(s.t, Append(sections[id], sec)[j], q, b)
      <4>1. CASE j \in 1 .. Len(sections[id]) BY <1>13, <2>2, <2>3, <4>1, Zenon
      <4>2. CASE j = Len(sections[id]) + 1 BY <1>8, <1>13, <4>2, Zenon
      <4> QED BY <1>13, <4>1, <4>2, Zenon
    <3>2. Supported(s.t, Append(sections[id], sec)) BY <1>13, <3>1, Zenon DEF Supported
    <3> QED BY <1>4, <1>14, <2>3, <3>2, Zenon
  <2>4. CASE i # id
    <3>1. Supported(s.t, sections[i]) BY <2>2, Zenon DEF Supported
    <3> QED BY <1>4, <1>14, <2>4, <3>1, Zenon
  <2> QED BY <2>3, <2>4
<1>29. ASSUME NEW i \in Streams PROVE Len(sections'[i]) <= opened'[i]
  <2>1. Len(sections[i]) <= opened[i] BY <1>1, Zenon
  <2>2. CASE i = id
    <3>1. Len(sections'[id]) = Len(sections[id]) + 1 BY <1>13, <1>14
    <3>2. opened'[id] = opened[id] + 1 /\ opened[id] \in Nat BY <1>18
    <3>3. Len(sections[id]) \in Nat /\ Len(sections[id]) <= opened[id] BY <1>12, <2>1, <2>2, Zenon
    <3>4. Len(sections'[id]) <= opened'[id] BY <3>1, <3>2, <3>3
    <3> QED BY <2>2, <3>4
  <2>3. CASE i # id BY <1>14, <1>18, <2>1, <2>3, Zenon
  <2> QED BY <2>2, <2>3
<1>30. \A i \in cancelled' : sections'[i] = <<>> BY <1>1, <1>4, <1>3, <1>14
<1>31. Cancels(decoder_stream, cancelled)' BY <1>1, <1>4, Zenon
<1>32. AllAsked(dec, enc, sections)'
  <2>1. ASSUME NEW r \in Nat, total_inserted(dec) < r, r <= total_inserted(s.t)
        PROVE  Asked(s.t, sections', r)
    <3>1. total_inserted(enc) \in Nat BY <1>3, TableFacts
    <3>2. CASE r <= total_inserted(enc)
      <4>1. Asked(enc, sections, r) BY <1>1, <2>1, <3>2, Zenon DEF AllAsked
      <4>2a. PICK i \in Streams : \E j \in 1 .. Len(sections[i]) : \E q, b :
              SectionOK(enc, sections[i][j], q, b) /\ r \in sections[i][j].refs /\ r <= q
        BY <4>1, Zenon DEF Asked
      <4>2b. PICK j \in 1 .. Len(sections[i]) : \E q, b :
              SectionOK(enc, sections[i][j], q, b) /\ r \in sections[i][j].refs /\ r <= q
        BY <4>2a, Zenon
      <4>2. PICK q, b :
              SectionOK(enc, sections[i][j], q, b) /\ r \in sections[i][j].refs /\ r <= q
        BY <4>2b, Zenon
      <4>3. SectionOK(s.t, sections[i][j], q, b) BY <1>27, <4>2, Zenon
      <4>4. j \in 1 .. Len(sections'[i]) /\ sections'[i][j] = sections[i][j]
        <5>1. CASE i = id BY <1>13, <1>14, <5>1, Zenon
        <5>2. CASE i # id BY <1>14, <5>2, Zenon
        <5> QED BY <5>1, <5>2
      <4> QED BY <4>2, <4>3, <4>4, Zenon DEF Asked
    <3>3. CASE ~(r <= total_inserted(enc))
      <4> DEFINE j == Len(sections[id]) + 1
      <4>1. Count(r, s.refs) > 0 /\ r <= s.required BY <1>6, <2>1, <3>1, <3>3
      <4>2. r \in sec.refs BY <1>7, <1>9, <4>1, CountFacts, Zenon DEF BagIn
      <4>3. j \in 1 .. Len(sections'[id]) /\ sections'[id][j] = sec
        <5>1. j \in 1 .. j BY <1>12
        <5> QED BY <1>13, <1>14, <5>1, Zenon
      <4> HIDE DEF j
      <4> QED BY <1>8, <4>1, <4>2, <4>3, Zenon DEF Asked
    <3> QED BY <3>2, <3>3
  <2> QED BY <1>4, <2>1, Zenon DEF AllAsked
<1> QED
  BY <1>19, <1>20, <1>21, <1>22, <1>23, <1>24, <1>25, <1>26, <1>28, <1>29, <1>30, <1>31, <1>32,
     Zenon DEF Inv

(* set_dynamic_table_size keeps it: nothing is in flight.                  *)
LEMMA ResizeKeeps ==
  ASSUME Inv, Careful, NEW size \in Sizes, set_dynamic_table_size(size)
  PROVE  Inv'
<1> DEFINE u == set_max_size(enc, track_map, size)
           i == DynamicTableSizeUpdate(size)
<1>1. /\ Typing
      /\ Leads(dec, encoder_stream, enc)
      /\ Walk(decoder_stream, Counting, largest_known_received, total_inserted(dec))
      /\ Tally(track_map, track_blocks)
      /\ (\A id \in Streams : Settled(decoder_stream, id, Len(track_blocks[id]), sections[id]))
      /\ (\A id \in Streams : Aligned(sections[id], track_blocks[id]))
      /\ (\A id \in Streams : Len(sections[id]) <= opened[id])
      /\ (\A id \in cancelled : sections[id] = <<>>)
      /\ Cancels(decoder_stream, cancelled)
  BY Zenon DEF Inv
<1>2. /\ size # enc.max_size
      /\ ~InFlight
      /\ failed' = (IF size < enc.max_size /\ Overflows(enc, enc.max_size - size) THEN "panic" ELSE "no")
      /\ enc' = u
      /\ encoder_stream' = Append(encoder_stream, i)
      /\ UNCHANGED <<track_map, track_blocks, largest_known_received, blocked_streams, dec,
                     decoder_stream, sections, opened, cancelled>>
  BY Zenon DEF set_dynamic_table_size
<1>3. encoder_stream = <<>> /\ \A id \in Streams : track_blocks[id] = <<>>
  BY <1>2, Zenon DEF InFlight
<1>4. dec = enc BY <1>3, SeenAll
<1>5. /\ enc \in Tables /\ track_map \in Refs /\ track_blocks \in Blocks
      /\ enc.curr_size \in Nat /\ enc.max_size \in Nat /\ enc.curr_size <= enc.max_size
  <2>1. enc \in Tables /\ track_map \in Refs /\ track_blocks \in Blocks
    BY <1>1, Zenon DEF Typing
  <2> QED BY <2>1, TableFacts
<1>6. failed' = "no"
  <2>1. ~(enc.curr_size > enc.max_size) BY <1>5
  <2>2. ~Overflows(enc, enc.max_size - size) BY <2>1, Zenon DEF Overflows
  <2> QED BY <1>2, <2>2, Zenon
<1>7. \A r \in Nat : Count(r, track_map) = 0
  <2> TAKE r \in Nat
  <2>1. \A id \in Streams : Len(track_blocks[id]) = 0 BY <1>3
  <2>2. Count(r, track_map) = Cardinality(Occ(track_blocks, r)) BY <1>1, Zenon DEF Tally
  <2>3. Cardinality(Occ(track_blocks, r)) = 0 BY <2>1, OccNone, Zenon
  <2> QED BY <2>2, <2>3
<1>8. \A r \in Nat : ~BagIn(r, track_map)
  <2> TAKE r \in Nat
  <2>1. ~(Count(r, track_map) > 0) BY <1>7
  <2> QED BY <1>5, <2>1, CountFacts, Zenon
<1>9. /\ u \in Tables /\ u.max_size = size
      /\ total_inserted(u) = total_inserted(enc)
      /\ u = set_max_size(enc, EmptyBag, size)
  BY <1>5, <1>8, Resized
<1>10. Apply(enc, i) = u BY <1>5, <1>9, AppliedSize
<1>11. Follows(enc, u) BY <1>5, <1>9, ResizedFollows
<1>12. i \in Instructions BY DEF DynamicTableSizeUpdate, Instructions
<1> HIDE DEF u, i
<1>13. encoder_stream' = <<i>> BY <1>2, <1>3
<1>14. Leads(dec, encoder_stream, enc)'
  <2>1. Leads(enc, <<i>>, u) BY <1>5, <1>9, <1>10, <1>11, LeadsTo
  <2> QED BY <1>2, <1>4, <1>13, <2>1, Zenon
<1>15. Typing'
  <2>1. encoder_stream' \in Seq(Instructions) BY <1>12, <1>13
  <2> QED BY <1>1, <1>2, <1>6, <1>9, <2>1, Zenon DEF Typing
<1>16. Sizing(dec, enc, encoder_stream, track_blocks)'
  <2>1. Len(encoder_stream') = 1 BY <1>13
  <2>2. dec'.max_size # enc'.max_size BY <1>2, <1>4, <1>9, Zenon
  <2> QED BY <1>2, <1>3, <2>1, <2>2, Zenon DEF Sizing
<1>17. LiveIn(track_map, enc)'
  <2>1. \A r \in Nat : ~(Count(r, track_map') > 0) BY <1>2, <1>7
  <2> QED BY <2>1, Zenon DEF LiveIn
<1>18. ASSUME NEW id \in Streams PROVE Supported(enc, sections[id])'
  <2>1. Len(sections[id]) <= Len(track_blocks[id]) BY Outstanding
  <2>2. Len(track_blocks[id]) = 0 BY <1>3
  <2>3. Len(sections[id]) \in Nat BY <1>1, QueueFacts
  <2>4. Len(sections[id]) = 0 BY <2>1, <2>2, <2>3
  <2>5. \A j \in 1 .. Len(sections[id]) : FALSE BY <2>4
  <2> QED BY <1>2, <2>5, Zenon DEF Supported
<1>19. AllAsked(dec, enc, sections)'
  <2>1. total_inserted(dec') = total_inserted(enc') /\ total_inserted(enc') \in Nat
    BY <1>2, <1>4, <1>5, <1>9, TableFacts
  <2>2. \A r \in Nat : ~(total_inserted(dec') < r /\ r <= total_inserted(enc')) BY <2>1
  <2> QED BY <2>2, Zenon DEF AllAsked
<1>20. Walk(decoder_stream, Counting, largest_known_received, total_inserted(dec))'
  BY <1>1, <1>2, Zenon
<1>21. /\ Tally(track_map, track_blocks)'
       /\ (\A id \in Streams : Settled(decoder_stream, id, Len(track_blocks[id]), sections[id]))'
       /\ (\A id \in Streams : Aligned(sections[id], track_blocks[id]))'
       /\ (\A id \in Streams : Len(sections[id]) <= opened[id])'
       /\ (\A id \in cancelled : sections[id] = <<>>)'
       /\ Cancels(decoder_stream, cancelled)'
  BY <1>1, <1>2, Zenon
<1> QED BY <1>14, <1>15, <1>16, <1>17, <1>18, <1>19, <1>20, <1>21, Zenon DEF Inv

(* An increment says nothing of sections.                                  *)
LEMMA SettledMore ==
  ASSUME NEW ds \in Seq(Answers), NEW id, NEW n, NEW secs, Settled(ds, id, n, secs),
         NEW k \in Nat
  PROVE  Settled(Append(ds, InsertCountIncrement(k)), id, n, secs)
<1> DEFINE a == InsertCountIncrement(k)
<1>1. a \in Answers /\ a.op = "increment" BY DEF InsertCountIncrement, Answers
<1>2. PICK y \in Nat : Len(secs) <= y /\ Walk(ds, Taking(id), n, y) BY Zenon DEF Settled
<1> HIDE DEF a
<1>3. <<a, y, y>> \in Taking(id) BY <1>1, TakingStep
<1>4. Walk(Append(ds, a), Taking(id), n, y) BY <1>2, <1>3, WalkAppend
<1> QED BY <1>2, <1>4, Zenon DEF Settled, a

(* A cancellation is of a stream that was cancelled.                       *)
LEMMA CancelsMore ==
  ASSUME NEW ds \in Seq(Answers), NEW gone, NEW more, gone \subseteq more, Cancels(ds, gone),
         NEW a, a.op = "cancel" => a.id \in more
  PROVE  Cancels(Append(ds, a), more)
<1> DEFINE n == Len(ds)
           es == Append(ds, a)
<1>1. n \in Nat /\ Len(es) = n + 1 /\ es[n + 1] = a /\ \A i \in 1 .. n : es[i] = ds[i] OBVIOUS
<1>2. \A i \in 1 .. n : ds[i].op = "cancel" => ds[i].id \in gone BY Zenon DEF Cancels
<1> HIDE DEF n, es
<1>3. ASSUME NEW i \in 1 .. (n + 1), es[i].op = "cancel" PROVE es[i].id \in more
  <2>1. CASE i = n + 1 BY <1>1, <1>3, <2>1
  <2>2. CASE i # n + 1
    <3>1. i \in 1 .. n BY <1>1, <2>2
    <3>2. es[i] = ds[i] BY <1>1, <3>1, Zenon
    <3>3. ds[i].id \in gone BY <1>2, <1>3, <3>1, <3>2, Zenon
    <3> QED BY <3>2, <3>3
  <2> QED BY <2>1, <2>2
<1>4. Cancels(es, more) BY <1>1, <1>3, Zenon DEF Cancels
<1> QED BY <1>4 DEF es

(* A batch of insertions is reported by an increment, one byte in the      *)
(* code: on_encoder_recv fails where it is larger. A table of at most 255  *)
(* entries, of 8191 bytes, never makes one.                                *)
Small == \A size \in Sizes : max_entries(size) <= MaxIncrement

(* Decoder::on_encoder_recv keeps the invariant: no instruction is         *)
(* refused.                                                                *)
LEMMA ReceiveKeeps ==
  ASSUME Inv, Small, NEW n \in 1 .. Len(encoder_stream), on_encoder_recv(n)
  PROVE  Inv'
<1> DEFINE is == SubSeq(encoder_stream, 1, n)
           rest == SubSeq(encoder_stream, n + 1, Len(encoder_stream))
           t == Applied(dec, is)
           k == total_inserted(t) - total_inserted(dec)
<1>1. /\ Typing
      /\ Leads(dec, encoder_stream, enc)
      /\ Sizing(dec, enc, encoder_stream, track_blocks)
      /\ Walk(decoder_stream, Counting, largest_known_received, total_inserted(dec))
      /\ Tally(track_map, track_blocks)
      /\ LiveIn(track_map, enc)
      /\ (\A id \in Streams : Settled(decoder_stream, id, Len(track_blocks[id]), sections[id]))
      /\ (\A id \in Streams : Aligned(sections[id], track_blocks[id]))
      /\ (\A id \in Streams : Supported(enc, sections[id]))
      /\ (\A id \in Streams : Len(sections[id]) <= opened[id])
      /\ (\A id \in cancelled : sections[id] = <<>>)
      /\ Cancels(decoder_stream, cancelled)
      /\ AllAsked(dec, enc, sections)
  BY Zenon DEF Inv
<1>2. /\ failed = "no"
      /\ encoder_stream' = rest
      /\ IF t = Broken \/ k > MaxIncrement
         THEN failed' = "decoder" /\ UNCHANGED <<dec, decoder_stream>>
         ELSE /\ dec' = t
              /\ decoder_stream' = IF k = 0 THEN decoder_stream
                                   ELSE Append(decoder_stream, InsertCountIncrement(k))
              /\ UNCHANGED failed
      /\ UNCHANGED <<enc, track_map, track_blocks, largest_known_received, blocked_streams>>
      /\ UNCHANGED <<sections, opened, cancelled>>
  BY Zenon DEF on_encoder_recv, encoder
<1>3. encoder_stream \in Seq(Instructions) /\ decoder_stream \in Seq(Answers)
  BY <1>1, Zenon DEF Typing
<1>4. is \in Seq(Instructions) /\ rest \in Seq(Instructions) /\ n \in 0 .. Len(encoder_stream)
      /\ Len(encoder_stream) \in Nat
  BY <1>3
<1>5. PICK u : Leads(dec, is, u) /\ Leads(u, rest, enc) BY <1>1, <1>3, <1>4, LeadsSplit
<1>6. t = u BY <1>4, <1>5, LeadsApplied
<1>7. Leads(dec, is, t) /\ Leads(t, rest, enc) BY <1>5, <1>6
<1>8. t \in Tables /\ Follows(dec, t) /\ Follows(t, enc) BY <1>4, <1>7, LeadsFollows
<1>9. /\ dec \in Tables /\ enc \in Tables /\ enc.dropped \in Nat
      /\ total_inserted(dec) \in Nat /\ enc.dropped <= total_inserted(dec)
      /\ Len(enc.fields) \in Nat /\ total_inserted(enc) = enc.dropped + Len(enc.fields)
  BY Behind
<1>10. /\ total_inserted(t) \in Nat
       /\ total_inserted(dec) <= total_inserted(t) /\ total_inserted(t) <= total_inserted(enc)
  <2>1. total_inserted(t) \in Nat BY <1>8, TableFacts
  <2> QED BY <1>8, <2>1, Zenon DEF Follows
<1>11. t # Broken BY <1>8, BrokenIsNone, Zenon
<1> HIDE DEF t, is, rest
<1>12. k \in Nat /\ k <= MaxIncrement
  <2>1. Len(enc.fields) <= max_entries(enc.max_size) /\ enc.max_size \in Sizes
    BY <1>9, FieldsFit, TableFacts
  <2>2. max_entries(enc.max_size) <= MaxIncrement BY <2>1, Zenon DEF Small
  <2>3. max_entries(enc.max_size) \in Nat
    <3>1. enc.max_size \in Nat BY <1>9, TableFacts
    <3> QED BY <3>1 DEF max_entries, ESTIMATED_OVERHEAD_BYTES
  <2>4. k \in Nat /\ k <= Len(enc.fields) BY <1>9, <1>10
  <2>5. MaxIncrement \in Nat BY DEF MaxIncrement
  <2> HIDE DEF k
  <2> QED BY <1>9, <2>1, <2>2, <2>3, <2>4, <2>5
<1>13. total_inserted(dec) + k = total_inserted(t) BY <1>9, <1>10
<1> HIDE DEF k
<1>14. ~(k > MaxIncrement) BY <1>12 DEF MaxIncrement
<1>15. /\ dec' = t /\ failed' = "no"
       /\ decoder_stream' = (IF k = 0 THEN decoder_stream
                             ELSE Append(decoder_stream, InsertCountIncrement(k)))
  BY <1>2, <1>11, <1>14, Zenon
<1>16. InsertCountIncrement(k) \in Answers /\ InsertCountIncrement(k).op = "increment"
       /\ InsertCountIncrement(k).n = k
  BY <1>12 DEF InsertCountIncrement, Answers
<1>17. Typing'
  <2>1. decoder_stream' \in Seq(Answers) BY <1>3, <1>15, <1>16
  <2> QED BY <1>1, <1>2, <1>4, <1>8, <1>15, <2>1, Zenon DEF Typing
<1>18. Leads(dec, encoder_stream, enc)' BY <1>2, <1>7, <1>15, Zenon
<1>19. Sizing(dec, enc, encoder_stream, track_blocks)'
  <2>1. CASE /\ dec.max_size = enc.max_size
             /\ \A i \in 1 .. Len(encoder_stream) : encoder_stream[i].op # "size"
    <3>1. /\ \A i \in 1 .. Len(is) : is[i].op # "size"
          /\ \A i \in 1 .. Len(rest) : rest[i].op # "size"
      <4>1. Len(is) = n /\ \A i \in 1 .. n : is[i] = encoder_stream[i] /\ i \in 1 .. Len(encoder_stream)
        BY <1>3, <1>4 DEF is
      <4>2. /\ Len(rest) = Len(encoder_stream) - n
            /\ \A i \in 1 .. (Len(encoder_stream) - n) :
                 rest[i] = encoder_stream[n + i] /\ n + i \in 1 .. Len(encoder_stream)
        BY <1>3, <1>4 DEF rest
      <4> QED BY <2>1, <4>1, <4>2, Zenon
    <3>2. t.max_size = dec.max_size BY <1>4, <1>7, <3>1, LeadsSameSize
    <3> QED BY <1>2, <1>15, <2>1, <3>1, <3>2, Zenon DEF Sizing
  <2>2. CASE Len(encoder_stream) = 1
    <3>1. n = 1 BY <2>2
    <3>2. rest = <<>> BY <1>3, <2>2, <3>1 DEF rest
    <3>3. t = enc BY <1>7, <3>2, LeadsNowhereElse
    <3>4. \A i \in 1 .. Len(rest) : FALSE BY <3>2
    <3> QED BY <1>2, <1>15, <3>3, <3>4, Zenon DEF Sizing
  <2> QED BY <1>1, <2>1, <2>2, Zenon DEF Sizing
<1>20. Walk(decoder_stream, Counting, largest_known_received, total_inserted(dec))'
  <2>1. CASE k = 0
    <3>1. total_inserted(t) = total_inserted(dec) BY <1>9, <1>13, <2>1
    <3> QED BY <1>1, <1>2, <1>15, <2>1, <3>1, Zenon
  <2>2. CASE k # 0
    <3> DEFINE a == InsertCountIncrement(k)
               x == total_inserted(dec)
               z == total_inserted(t)
    <3>1. a \in Answers /\ a.op = "increment" /\ a.n = k /\ x \in Nat /\ z \in Nat /\ z = x + k
      BY <1>9, <1>10, <1>13, <1>16
    <3> HIDE DEF a, x, z
    <3>2. z = x + (IF a.op = "increment" THEN a.n ELSE 0) BY <3>1
    <3>3. <<a, x, z>> \in Counting BY <3>1, <3>2, CountingStep, Zenon
    <3>4. Walk(Append(decoder_stream, a), Counting, largest_known_received, z)
      BY <1>1, <1>3, <3>1, <3>3, WalkAppend DEF x
    <3> QED BY <1>2, <1>15, <2>2, <3>4, Zenon DEF a, z
  <2> QED BY <2>1, <2>2
<1>21. ASSUME NEW id \in Streams
       PROVE  Settled(decoder_stream, id, Len(track_blocks[id]), sections[id])'
  <2>1. Settled(decoder_stream, id, Len(track_blocks[id]), sections[id]) BY <1>1, Zenon
  <2>2. Settled(Append(decoder_stream, InsertCountIncrement(k)), id, Len(track_blocks[id]), sections[id])
    BY <1>3, <1>12, <2>1, SettledMore
  <2> QED BY <1>2, <1>15, <2>1, <2>2, Zenon
<1>22. Cancels(decoder_stream, cancelled)'
  <2>1. Cancels(Append(decoder_stream, InsertCountIncrement(k)), cancelled)
    BY <1>1, <1>3, <1>16, CancelsMore
  <2> QED BY <1>1, <1>2, <1>15, <2>1, Zenon
<1>23. AllAsked(dec, enc, sections)'
  <2>1. ASSUME NEW r \in Nat, total_inserted(t) < r, r <= total_inserted(enc)
        PROVE  Asked(enc, sections, r)
    <3>1. total_inserted(dec) < r BY <1>9, <1>10, <2>1
    <3> QED BY <1>1, <2>1, <3>1, Zenon DEF AllAsked
  <2> QED BY <1>2, <1>15, <2>1, Zenon DEF AllAsked
<1>24. /\ Tally(track_map, track_blocks)' /\ LiveIn(track_map, enc)'
       /\ (\A id \in Streams : Aligned(sections[id], track_blocks[id]))'
       /\ (\A id \in Streams : Supported(enc, sections[id]))'
       /\ (\A id \in Streams : Len(sections[id]) <= opened[id])'
       /\ (\A id \in cancelled : sections[id] = <<>>)'
  BY <1>1, <1>2, Zenon
<1> QED BY <1>17, <1>18, <1>19, <1>20, <1>21, <1>22, <1>23, <1>24, Zenon DEF Inv

(* The encoder reads an answer.                                            *)
LEMMA CountingAnswered ==
  ASSUME NEW ds \in Seq(Answers), ds # <<>>, NEW x \in Nat, NEW y, Walk(ds, Counting, x, y)
  PROVE  /\ Head(ds) \in Answers
         /\ Walk(Tail(ds), Counting,
                 x + (IF Head(ds).op = "increment" THEN Head(ds).n ELSE 0), y)
<1> DEFINE a == Head(ds)
<1>1. PICK z \in Nat : <<a, x, z>> \in Counting /\ Walk(Tail(ds), Counting, z, y) BY WalkTail
<1>2. a \in Answers OBVIOUS
<1> HIDE DEF a
<1>3. z = x + (IF a.op = "increment" THEN a.n ELSE 0) BY <1>1, <1>2, CountingStep
<1> QED BY <1>1, <1>2, <1>3, Zenon DEF a

(* An answer received was due.                                             *)
LEMMA SettledAnswered ==
  ASSUME NEW ds \in Seq(Answers), ds # <<>>, NEW id, NEW n \in Nat, NEW secs,
         Settled(ds, id, n, secs)
  PROVE  \E z \in Nat :
           /\ z = IF Head(ds).op = "ack" /\ Head(ds).id = id THEN n - 1
                  ELSE IF Head(ds).op = "cancel" /\ Head(ds).id = id
                       THEN IF n <= 2 THEN 0 ELSE n - 2
                  ELSE n
           /\ Settled(Tail(ds), id, z, secs)
<1> DEFINE a == Head(ds)
<1>1. PICK y \in Nat : Len(secs) <= y /\ Walk(ds, Taking(id), n, y) BY Zenon DEF Settled
<1>2. PICK z \in Nat : <<a, n, z>> \in Taking(id) /\ Walk(Tail(ds), Taking(id), z, y)
  BY <1>1, WalkTail
<1>3. a \in Answers OBVIOUS
<1> HIDE DEF a
<1>4. z = IF a.op = "ack" /\ a.id = id THEN n - 1
          ELSE IF a.op = "cancel" /\ a.id = id THEN IF n <= 2 THEN 0 ELSE n - 2
          ELSE n
  BY <1>2, <1>3, TakingStep, Zenon
<1>5. Settled(Tail(ds), id, z, secs) BY <1>1, <1>2, Zenon DEF Settled
<1> QED BY <1>4, <1>5, Zenon DEF a

(* What the three answers have in common.                                  *)
LEMMA AnswerKeeps ==
  ASSUME Inv, decoder_stream # <<>>, decoder_stream' = Tail(decoder_stream),
         UNCHANGED <<enc, dec, encoder_stream, sections, opened, cancelled, failed>>,
         track_map' \in Refs, blocked_streams' \in Refs, track_blocks' \in Blocks,
         largest_known_received' \in Nat,
         Tally(track_map', track_blocks'),
         \A r \in Nat : Count(r, track_map') <= Count(r, track_map),
         \A id \in Streams : track_blocks[id] = <<>> => track_blocks'[id] = <<>>,
         Walk(Tail(decoder_stream), Counting, largest_known_received', total_inserted(dec)),
         \A id \in Streams :
           Settled(Tail(decoder_stream), id, Len(track_blocks'[id]), sections[id]),
         \A id \in Streams : Aligned(sections[id], track_blocks'[id])
  PROVE  Inv'
<1>1. /\ Typing
      /\ Leads(dec, encoder_stream, enc)
      /\ Sizing(dec, enc, encoder_stream, track_blocks)
      /\ LiveIn(track_map, enc)
      /\ (\A id \in Streams : Supported(enc, sections[id]))
      /\ (\A id \in Streams : Len(sections[id]) <= opened[id])
      /\ (\A id \in cancelled : sections[id] = <<>>)
      /\ Cancels(decoder_stream, cancelled)
      /\ AllAsked(dec, enc, sections)
  BY Zenon DEF Inv
<1>2. decoder_stream \in Seq(Answers) /\ track_map \in Refs BY <1>1, Zenon DEF Typing
<1>3. Tail(decoder_stream) \in Seq(Answers) BY <1>2
<1>4. Typing' BY <1>1, <1>3, Zenon DEF Typing
<1>5. Leads(dec, encoder_stream, enc)' BY <1>1, Zenon
<1>6. Sizing(dec, enc, encoder_stream, track_blocks)' BY <1>1, Zenon DEF Sizing
<1>7. Walk(decoder_stream, Counting, largest_known_received, total_inserted(dec))' BY Zenon
<1>8. LiveIn(track_map, enc)'
  <2>1. ASSUME NEW r \in Nat, Count(r, track_map') > 0 PROVE Live(enc, r)
    <3>1. Count(r, track_map') \in Nat /\ Count(r, track_map) \in Nat BY <1>2, CountFacts
    <3>2. Count(r, track_map) > 0 BY <2>1, <3>1
    <3> QED BY <1>1, <3>2, Zenon DEF LiveIn
  <2> QED BY <2>1, Zenon DEF LiveIn
<1>9. Cancels(decoder_stream, cancelled)'
  <2> DEFINE ds == decoder_stream
             n == Len(ds)
             es == Tail(ds)
  <2>1. n \in Nat /\ Len(es) = n - 1 /\ \A i \in 1 .. (n - 1) : es[i] = ds[i + 1] /\ i + 1 \in 1 .. n
    BY <1>2
  <2>2. \A i \in 1 .. n : ds[i].op = "cancel" => ds[i].id \in cancelled
    BY <1>1, Zenon DEF Cancels
  <2> HIDE DEF n, ds
  <2>3. \A i \in 1 .. (n - 1) : es[i].op = "cancel" => es[i].id \in cancelled
    BY <2>1, <2>2, Zenon
  <2>4. Cancels(es, cancelled) BY <2>1, <2>3, Zenon DEF Cancels
  <2> QED BY <2>4, Zenon DEF ds
<1>10. /\ Tally(track_map, track_blocks)'
       /\ (\A id \in Streams : Settled(decoder_stream, id, Len(track_blocks[id]), sections[id]))'
       /\ (\A id \in Streams : Aligned(sections[id], track_blocks[id]))'
       /\ (\A id \in Streams : Supported(enc, sections[id]))'
       /\ (\A id \in Streams : Len(sections[id]) <= opened[id])'
       /\ (\A id \in cancelled : sections[id] = <<>>)'
       /\ AllAsked(dec, enc, sections)'
  BY <1>1, Zenon
<1> QED BY <1>4, <1>5, <1>6, <1>7, <1>8, <1>9, <1>10, Zenon DEF Inv

(* A section acknowledged.                                                 *)
LEMMA AckKeeps ==
  ASSUME Inv, on_decoder_recv, Head(decoder_stream).op = "ack",
         OnHeaderAck(Head(decoder_stream).id)
  PROVE  Inv'
<1> DEFINE a == Head(decoder_stream)
           id == a.id
           B == track_blocks
           C == [B EXCEPT ![id] = Tail(@)]
           m == track_map (-) Head(B[id])
<1>1. /\ Typing
      /\ Walk(decoder_stream, Counting, largest_known_received, total_inserted(dec))
      /\ Tally(track_map, track_blocks)
      /\ (\A i \in Streams : Settled(decoder_stream, i, Len(track_blocks[i]), sections[i]))
      /\ (\A i \in Streams : Aligned(sections[i], track_blocks[i]))
  BY Zenon DEF Inv
<1>2. /\ decoder_stream # <<>> /\ decoder_stream' = Tail(decoder_stream)
      /\ UNCHANGED <<enc, dec, encoder_stream, sections, opened, cancelled>>
  BY Zenon DEF on_decoder_recv
<1>3. /\ decoder_stream \in Seq(Answers) /\ track_map \in Refs /\ track_blocks \in Blocks
      /\ blocked_streams \in Refs /\ largest_known_received \in Nat /\ failed = "no"
  BY <1>1, Zenon DEF Typing
<1>4. a.op = "ack" /\ a \in Answers BY <1>1, <1>2, <1>3, CountingAnswered
<1>5. id \in Streams BY <1>4 DEF Answers
<1>6. Walk(Tail(decoder_stream), Counting, largest_known_received, total_inserted(dec))
  <2>1. Walk(Tail(decoder_stream), Counting,
             largest_known_received + (IF a.op = "increment" THEN a.n ELSE 0), total_inserted(dec))
    BY <1>1, <1>2, <1>3, CountingAnswered
  <2>2. largest_known_received + (IF a.op = "increment" THEN a.n ELSE 0) = largest_known_received
    BY <1>3, <1>4
  <2> QED BY <2>1, <2>2
<1>7. \A i \in Streams : Len(B[i]) \in Nat /\ B[i] \in Seq(Refs) /\ sections[i] \in Seq(Pending)
                         /\ Len(sections[i]) \in Nat
  BY <1>1, QueueFacts
<1>8. ASSUME NEW i \in Streams
      PROVE  \E z \in Nat : /\ z = IF i = id THEN Len(B[i]) - 1 ELSE Len(B[i])
                            /\ Settled(Tail(decoder_stream), i, z, sections[i])
  <2>1. PICK z \in Nat :
          /\ z = IF a.op = "ack" /\ a.id = i THEN Len(B[i]) - 1
                 ELSE IF a.op = "cancel" /\ a.id = i
                      THEN IF Len(B[i]) <= 2 THEN 0 ELSE Len(B[i]) - 2
                 ELSE Len(B[i])
          /\ Settled(Tail(decoder_stream), i, z, sections[i])
    BY <1>1, <1>2, <1>3, <1>7, SettledAnswered
  <2>2. z = IF i = id THEN Len(B[i]) - 1 ELSE Len(B[i]) BY <1>4, <2>1
  <2> QED BY <2>1, <2>2
<1> HIDE DEF a
<1>9. B[id] # <<>> /\ Len(B[id]) >= 1
  <2>1. PICK z \in Nat : z = Len(B[id]) - 1 BY <1>5, <1>8
  <2>2. Len(B[id]) \in Nat BY <1>5, <1>7
  <2>3. Len(B[id]) >= 1 BY <2>1, <2>2
  <2>4. B[id] = <<>> => Len(B[id]) = 0 OBVIOUS
  <2> QED BY <2>3, <2>4
<1>10. /\ Head(B[id]) \sqsubseteq track_map
       /\ m \in Refs /\ C \in Blocks /\ Tally(m, C)
       /\ C[id] = Tail(B[id]) /\ (\A j \in Streams : j # id => C[j] = B[j])
       /\ \A r \in Nat : Count(r, m) <= Count(r, track_map)
  BY <1>1, <1>3, <1>5, <1>9, Released
<1>11. /\ track_blocks' = C /\ track_map' = m
       /\ UNCHANGED <<largest_known_received, blocked_streams, failed>>
  <2>1. /\ IF B[id] # <<>> /\ Head(B[id]) \sqsubseteq track_map
           THEN untrack_block(id) /\ UNCHANGED failed
           ELSE failed' = "encoder" /\ UNCHANGED <<track_blocks, track_map>>
        /\ UNCHANGED <<largest_known_received, blocked_streams>>
    BY Zenon DEF OnHeaderAck, a
  <2>2. untrack_block(id) /\ UNCHANGED failed BY <1>9, <1>10, <2>1, Zenon
  <2> QED BY <2>1, <2>2, Zenon DEF untrack_block
<1> HIDE DEF C, m
<1>12. Len(C[id]) = Len(B[id]) - 1
  <2>1. \A s \in Seq(Refs) : s # <<>> => Len(Tail(s)) = Len(s) - 1 OBVIOUS
  <2> QED BY <1>5, <1>7, <1>9, <1>10, <2>1, Zenon
<1>13. ASSUME NEW i \in Streams
       PROVE  /\ Settled(Tail(decoder_stream), i, Len(C[i]), sections[i])
              /\ Aligned(sections[i], C[i])
  <2>1. PICK z \in Nat : /\ z = IF i = id THEN Len(B[i]) - 1 ELSE Len(B[i])
                         /\ Settled(Tail(decoder_stream), i, z, sections[i])
    BY <1>8
  <2>2. Aligned(sections[i], B[i]) BY <1>1, Zenon
  <2>3. CASE i = id
    <3>1. z = Len(C[i]) BY <1>12, <2>1, <2>3
    <3>2. PICK y \in Nat : Len(sections[i]) <= y /\ Walk(Tail(decoder_stream), Taking(i), z, y)
      BY <2>1, Zenon DEF Settled
    <3>3. y <= z
      <4>1. Tail(decoder_stream) \in Seq(Answers) BY <1>2, <1>3
      <4> QED BY <3>2, <4>1, TakingFalls
    <3>4. Len(sections[i]) < Len(B[i])
      <4>1. Len(sections[i]) \in Nat /\ Len(B[i]) \in Nat BY <1>7
      <4>2. z = Len(B[i]) - 1 /\ Len(sections[i]) <= y BY <2>1, <2>3, <3>2
      <4> QED BY <3>3, <4>1, <4>2
    <3>5. Aligned(sections[i], Tail(B[i])) BY <1>7, <2>2, <3>4, AlignedReleased
    <3>6. C[i] = Tail(B[i]) BY <1>10, <2>3
    <3> QED BY <2>1, <3>1, <3>5, <3>6, Zenon
  <2>4. CASE i # id
    <3>1. C[i] = B[i] BY <1>10, <2>4, Zenon
    <3> QED BY <2>1, <2>2, <2>4, <3>1, Zenon
  <2> QED BY <2>3, <2>4
<1>14. \A i \in Streams : B[i] = <<>> => C[i] = <<>>
  <2> TAKE i \in Streams
  <2>1. CASE i = id BY <1>9, <2>1, Zenon
  <2>2. CASE i # id BY <1>10, <2>2, Zenon
  <2> QED BY <2>1, <2>2
<1> QED BY <1>2, <1>3, <1>6, <1>10, <1>11, <1>13, <1>14, AnswerKeeps

(* Insertions reported.                                                    *)
LEMMA IncrementKeeps ==
  ASSUME Inv, on_decoder_recv, Head(decoder_stream).op = "increment",
         OnInsertCountIncrement(Head(decoder_stream).n)
  PROVE  Inv'
<1> DEFINE a == Head(decoder_stream)
           L == largest_known_received'
<1>1. /\ Typing
      /\ Walk(decoder_stream, Counting, largest_known_received, total_inserted(dec))
      /\ Tally(track_map, track_blocks)
      /\ (\A i \in Streams : Settled(decoder_stream, i, Len(track_blocks[i]), sections[i]))
      /\ (\A i \in Streams : Aligned(sections[i], track_blocks[i]))
  BY Zenon DEF Inv
<1>2. /\ decoder_stream # <<>> /\ decoder_stream' = Tail(decoder_stream)
      /\ UNCHANGED <<enc, dec, encoder_stream, sections, opened, cancelled>>
  BY Zenon DEF on_decoder_recv
<1>3. /\ decoder_stream \in Seq(Answers) /\ track_map \in Refs /\ track_blocks \in Blocks
      /\ blocked_streams \in Refs /\ largest_known_received \in Nat
  BY <1>1, Zenon DEF Typing
<1>4. a.op = "increment" /\ a \in Answers BY <1>1, <1>2, <1>3, CountingAnswered
<1>5. a.n \in Nat BY <1>4 DEF Answers
<1>6. Walk(Tail(decoder_stream), Counting,
           largest_known_received + (IF a.op = "increment" THEN a.n ELSE 0), total_inserted(dec))
  BY <1>1, <1>2, <1>3, CountingAnswered
<1>7. /\ L = largest_known_received + a.n
      /\ blocked_streams' = [r \in {q \in DOMAIN blocked_streams : q > L} |-> blocked_streams[r]]
      /\ UNCHANGED <<track_blocks, track_map, failed>>
  BY Zenon DEF OnInsertCountIncrement
<1> HIDE DEF a
<1>8. Walk(Tail(decoder_stream), Counting, L, total_inserted(dec)) /\ L \in Nat
  BY <1>3, <1>4, <1>5, <1>6, <1>7
<1>9. blocked_streams' \in Refs
  <2> DEFINE D == {q \in DOMAIN blocked_streams : q > L}
             b == blocked_streams'
  <2>1. DOMAIN blocked_streams \subseteq Nat
        /\ \A r \in DOMAIN blocked_streams : blocked_streams[r] \in Nat /\ blocked_streams[r] > 0
    BY <1>3, RefsFacts
  <2>2. D \subseteq Nat /\ D \subseteq DOMAIN blocked_streams BY <2>1
  <2>3. b = [r \in D |-> blocked_streams[r]] BY <1>7
  <2> HIDE DEF D, b
  <2>4. b = [r \in D |-> b[r]] /\ \A r \in D : b[r] = blocked_streams[r] BY <2>3
  <2>5. \A r \in D : b[r] \in Nat /\ b[r] > 0 BY <2>1, <2>2, <2>4
  <2>6. b \in Refs BY <2>2, <2>4, <2>5, RefsIntro
  <2> QED BY <2>6 DEF b
<1>10. \A i \in Streams : Settled(Tail(decoder_stream), i, Len(track_blocks'[i]), sections[i])
  <2> TAKE i \in Streams
  <2>0. Len(track_blocks[i]) \in Nat BY <1>1, QueueFacts
  <2>1. PICK z \in Nat :
          /\ z = IF Head(decoder_stream).op = "ack" /\ Head(decoder_stream).id = i
                 THEN Len(track_blocks[i]) - 1
                 ELSE IF Head(decoder_stream).op = "cancel" /\ Head(decoder_stream).id = i
                      THEN IF Len(track_blocks[i]) <= 2 THEN 0 ELSE Len(track_blocks[i]) - 2
                 ELSE Len(track_blocks[i])
          /\ Settled(Tail(decoder_stream), i, z, sections[i])
    BY <1>1, <1>2, <1>3, <2>0, SettledAnswered
  <2>2. z = Len(track_blocks[i]) BY <1>4, <2>1 DEF a
  <2> QED BY <1>7, <2>1, <2>2, Zenon
<1>11. \A r \in Nat : Count(r, track_map') <= Count(r, track_map)
  <2> TAKE r \in Nat
  <2>1. Count(r, track_map) \in Nat BY <1>3, CountFacts
  <2>2. Count(r, track_map) <= Count(r, track_map) BY <2>1
  <2> QED BY <1>7, <2>2, Zenon
<1>12. /\ track_map' \in Refs /\ track_blocks' \in Blocks /\ Tally(track_map', track_blocks')
       /\ (\A i \in Streams : track_blocks[i] = <<>> => track_blocks'[i] = <<>>)
       /\ \A i \in Streams : Aligned(sections[i], track_blocks'[i])
  BY <1>1, <1>3, <1>7, Zenon
<1>13. UNCHANGED <<enc, dec, encoder_stream, sections, opened, cancelled, failed>>
  BY <1>2, <1>7
<1> QED BY <1>2, <1>8, <1>9, <1>10, <1>11, <1>12, <1>13, AnswerKeeps

(* A sequence without its first element.                                   *)
LEMMA Shorter ==
  ASSUME NEW S, NEW s \in Seq(S), s # <<>>
  PROVE  /\ Len(s) \in Nat /\ Len(s) >= 1 /\ Head(s) = s[1]
         /\ Tail(s) \in Seq(S) /\ Len(Tail(s)) = Len(s) - 1
         /\ \A i \in 1 .. (Len(s) - 1) : Tail(s)[i] = s[i + 1]
OBVIOUS

(* Sequences of the same elements are the same.                            *)
LEMMA SameSeq ==
  ASSUME NEW s \in Seq(Refs), NEW u \in Seq(Refs), Len(s) = Len(u),
         \A i \in 1 .. Len(s) : s[i] = u[i]
  PROVE  s = u
OBVIOUS

(* Only the empty sequence has length 0.                                   *)
LEMMA NoneOrSome ==
  ASSUME NEW s \in Seq(Refs)
  PROVE  Len(s) \in Nat /\ (Len(s) = 0 <=> s = <<>>)
OBVIOUS

(* What is left of a list when two are taken.                              *)
LEMMA WithoutTwo ==
  ASSUME NEW s \in Seq(Refs)
  PROVE  /\ SubSeq(s, 3, Len(s)) \in Seq(Refs)
         /\ Len(SubSeq(s, 3, Len(s))) = IF Len(s) <= 2 THEN 0 ELSE Len(s) - 2
         /\ \A i \in 1 .. (Len(s) - 2) : SubSeq(s, 3, Len(s))[i] = s[i + 2]
OBVIOUS

(* stream_cancel takes away what there is, at most two blocks.             *)
LEMMA ForgottenNone ==
  ASSUME NEW s \in Seq(Refs), Len(s) = 0
  PROVE  s = <<>> /\ SubSeq(s, 3, Len(s)) = s
<1> DEFINE u == SubSeq(s, 3, Len(s))
<1>1. u \in Seq(Refs) /\ Len(u) = 0 BY WithoutTwo
<1> HIDE DEF u
<1>2. u = <<>> /\ s = <<>> BY <1>1, NoneOrSome
<1> QED BY <1>2 DEF u

(* One block ...                                                           *)
LEMMA ForgottenOne ==
  ASSUME NEW s \in Seq(Refs), Len(s) = 1
  PROVE  s # <<>> /\ SubSeq(s, 3, Len(s)) = Tail(s)
<1> DEFINE u == SubSeq(s, 3, Len(s))
           v == Tail(s)
<1>1. u \in Seq(Refs) /\ Len(u) = 0 BY WithoutTwo
<1>2. s # <<>> BY NoneOrSome
<1>3. v \in Seq(Refs) /\ Len(v) = 0 BY <1>2, Shorter
<1> HIDE DEF u, v
<1>4. u = <<>> /\ v = <<>> BY <1>1, <1>3, NoneOrSome
<1> QED BY <1>2, <1>4 DEF u, v

(* ... or two, or more.                                                    *)
LEMMA ForgottenTwo ==
  ASSUME NEW s \in Seq(Refs), Len(s) >= 2
  PROVE  /\ s # <<>> /\ Tail(s) # <<>> /\ Head(Tail(s)) = s[2]
         /\ SubSeq(s, 3, Len(s)) = Tail(Tail(s))
<1> DEFINE n == Len(s)
           u == SubSeq(s, 3, n)
           t == Tail(s)
           v == Tail(t)
<1>1. n \in Nat /\ n >= 2 BY NoneOrSome
<1>2. s # <<>> BY NoneOrSome
<1>3. /\ t \in Seq(Refs) /\ Len(t) = n - 1
      /\ \A i \in 1 .. (n - 1) : t[i] = s[i + 1]
  BY <1>2, Shorter
<1>4. /\ u \in Seq(Refs) /\ Len(u) = (IF n <= 2 THEN 0 ELSE n - 2)
      /\ \A i \in 1 .. (n - 2) : u[i] = s[i + 2]
  BY WithoutTwo
<1> HIDE DEF n, u, t
<1>5. t # <<>>
  <2>1. Len(t) # 0 BY <1>1, <1>3
  <2> QED BY <1>3, <2>1, NoneOrSome
<1>6. /\ v \in Seq(Refs) /\ Len(v) = (n - 1) - 1 /\ Head(t) = t[1]
      /\ \A i \in 1 .. ((n - 1) - 1) : v[i] = t[i + 1]
  BY <1>3, <1>5, Shorter
<1> HIDE DEF v
<1>7. Head(t) = s[2]
  <2>1. 1 \in 1 .. (n - 1) /\ 1 + 1 = 2 BY <1>1
  <2>2. t[1] = s[1 + 1] BY <1>3, <2>1
  <2> QED BY <1>6, <2>1, <2>2
<1>8. Len(u) = n - 2 /\ Len(v) = n - 2 BY <1>1, <1>4, <1>6
<1>9. ASSUME NEW i \in 1 .. (n - 2) PROVE u[i] = v[i]
  <2>1. i \in 1 .. ((n - 1) - 1) /\ i + 1 \in 1 .. (n - 1) /\ (i + 1) + 1 = i + 2 BY <1>1
  <2>2. v[i] = t[i + 1] BY <1>6, <2>1
  <2>3. t[i + 1] = s[(i + 1) + 1] BY <1>3, <2>1
  <2>4. u[i] = s[i + 2] BY <1>4
  <2> QED BY <2>1, <2>2, <2>3, <2>4
<1>10. u = v BY <1>4, <1>6, <1>8, <1>9, SameSeq
<1> QED BY <1>2, <1>5, <1>7, <1>10 DEF n, u, t, v

(* A stream is cancelled: two sections at most are released.               *)
Forgets(m, B, id, m2, C) ==
  /\ C = [B EXCEPT ![id] = SubSeq(@, 3, Len(@))]
  /\ m2 = CASE Len(B[id]) = 0 -> m
            [] Len(B[id]) = 1 -> m (-) B[id][1]
            [] OTHER -> (m (-) B[id][1]) (-) B[id][2]

(* It keeps the tally.                                                     *)
LEMMA Forgotten ==
  ASSUME NEW m \in Refs, NEW B \in Blocks, Tally(m, B), NEW id \in Streams,
         NEW m2, NEW C, Forgets(m, B, id, m2, C)
  PROVE  /\ m2 \in Refs /\ C \in Blocks /\ Tally(m2, C)
         /\ Len(C[id]) = (IF Len(B[id]) <= 2 THEN 0 ELSE Len(B[id]) - 2)
         /\ (B[id] = <<>> => C[id] = B[id])
         /\ (\A j \in Streams : j # id => C[j] = B[j])
         /\ \A r \in Nat : Count(r, m2) <= Count(r, m)
<1> DEFINE s == B[id]
           n == Len(s)
           u == SubSeq(s, 3, n)
<1>1. s \in Seq(Refs) /\ n \in Nat BY BlocksFacts
<1>2. u \in Seq(Refs) /\ Len(u) = IF n <= 2 THEN 0 ELSE n - 2 BY <1>1, WithoutTwo
<1>3. C \in Blocks /\ C[id] = u /\ \A j \in Streams : j # id => C[j] = B[j]
  <2>1. C = [B EXCEPT ![id] = u] BY Zenon DEF Forgets
  <2> HIDE DEF u
  <2> QED BY <1>2, <2>1 DEF Blocks
<1>4. s = <<>> => u = s
  <2>1. s = <<>> => n = 0 BY <1>1, NoneOrSome
  <2> QED BY <1>1, <2>1, ForgottenNone
<1>5. \A D \in Blocks : D[id] = u /\ (\A j \in Streams : j # id => D[j] = B[j]) => C = D
  <2> TAKE D \in Blocks
  <2> HAVE D[id] = u /\ (\A j \in Streams : j # id => D[j] = B[j])
  <2>1. C = [j \in Streams |-> C[j]] /\ D = [j \in Streams |-> D[j]]
    BY <1>3, Zenon DEF Blocks
  <2> HIDE DEF u
  <2>2. \A j \in Streams : C[j] = D[j] BY <1>3, Zenon
  <2> QED BY <2>1, <2>2
<1> HIDE DEF u
<1>6. CASE n = 0
  <2>1. s = <<>> /\ u = s BY <1>1, <1>6, ForgottenNone DEF u
  <2>2. C = B BY <1>5, <2>1, Zenon
  <2>3. m2 = m BY <1>6 DEF Forgets
  <2>4. \A r \in Nat : Count(r, m) <= Count(r, m) BY CountFacts
  <2> QED BY <1>2, <1>3, <1>4, <2>2, <2>3, <2>4, Zenon
<1>7. CASE n >= 1
  <2> DEFINE p == m (-) Head(s)
             D == [B EXCEPT ![id] = Tail(@)]
  <2>1. s # <<>> /\ Head(s) = s[1] BY <1>1, <1>7, NoneOrSome
  <2>2. /\ p \in Refs /\ D \in Blocks /\ Tally(p, D)
        /\ D[id] = Tail(s) /\ (\A j \in Streams : j # id => D[j] = B[j])
        /\ \A r \in Nat : Count(r, p) <= Count(r, m)
    BY <2>1, Released
  <2> HIDE DEF D
  <2>3. CASE n = 1
    <3>1. u = Tail(s) BY <1>1, <2>3, ForgottenOne DEF u
    <3>2. C = D BY <1>5, <2>2, <3>1, Zenon
    <3>3. m2 = m (-) s[1] BY <2>3 DEF Forgets
    <3>4. m2 = p BY <2>1, <3>3
    <3> HIDE DEF p
    <3> QED BY <1>2, <1>3, <1>4, <2>2, <3>2, <3>4, Zenon
  <2>4. CASE n # 1
    <3> DEFINE p2 == p (-) Head(D[id])
               E == [D EXCEPT ![id] = Tail(@)]
    <3>1. n >= 2
      <4> HIDE DEF n, s
      <4> QED BY <1>1, <1>7, <2>4
    <3>2. /\ Tail(s) # <<>> /\ Head(Tail(s)) = s[2] /\ u = Tail(Tail(s))
      BY <1>1, <3>1, ForgottenTwo DEF u
    <3>3. D[id] # <<>> /\ Head(D[id]) = s[2] /\ Tail(D[id]) = u BY <2>2, <3>2
    <3>4. p \in Refs /\ D \in Blocks /\ Tally(p, D) BY <2>2
    <3> HIDE DEF p
    <3>31. D[id] # <<>> BY <3>3
    <3>5. /\ Head(D[id]) \sqsubseteq p
          /\ p2 \in Refs /\ E \in Blocks /\ Tally(p2, E)
          /\ E[id] = Tail(D[id]) /\ (\A j \in Streams : j # id => E[j] = D[j])
          /\ \A r \in Nat : Count(r, p2) <= Count(r, p)
      BY <3>31, <3>4, Released, SMTT(30)
    <3> HIDE DEF E
    <3>6. C = E
      <4>1. \A j \in Streams : j # id => E[j] = B[j] BY <2>2, <3>5, Zenon
      <4>2. E[id] = u BY <3>3, <3>5
      <4> QED BY <1>5, <3>5, <4>1, <4>2, Zenon
    <3>7. m2 = p2
      <4>1. ~(n = 0) /\ ~(n = 1)
        <5> HIDE DEF n
        <5> QED BY <3>1, <2>4, <1>1
      <4>2. m2 = (m (-) s[1]) (-) s[2] BY <4>1 DEF Forgets
      <4> QED BY <2>1, <3>3, <4>2 DEF p
    <3>8. ASSUME NEW r \in Nat PROVE Count(r, p2) <= Count(r, m)
      <4> HIDE DEF p2
      <4>1. Count(r, p2) \in Nat /\ Count(r, p) \in Nat /\ Count(r, m) \in Nat
        BY <3>4, <3>5, CountFacts
      <4>2. Count(r, p2) <= Count(r, p) /\ Count(r, p) <= Count(r, m) BY <2>2, <3>5
      <4> QED BY <4>1, <4>2
    <3> HIDE DEF p2
    <3> QED BY <1>2, <1>3, <1>4, <3>5, <3>6, <3>7, <3>8, Zenon
  <2> QED BY <2>3, <2>4
<1> QED
  <2> HIDE DEF n, s
  <2>1. n = 0 \/ n >= 1 BY <1>1
  <2> QED BY <1>6, <1>7, <2>1 DEF n, s

(* A stream cancelled.                                                     *)
LEMMA CancelKeeps ==
  ASSUME Inv, on_decoder_recv, Head(decoder_stream).op = "cancel",
         OnStreamCancel(Head(decoder_stream).id)
  PROVE  Inv'
<1> DEFINE a == Head(decoder_stream)
           id == a.id
           B == track_blocks
           C == track_blocks'
           m == track_map'
<1>1. /\ Typing
      /\ Walk(decoder_stream, Counting, largest_known_received, total_inserted(dec))
      /\ Tally(track_map, track_blocks)
      /\ (\A i \in Streams : Settled(decoder_stream, i, Len(track_blocks[i]), sections[i]))
      /\ (\A i \in Streams : Aligned(sections[i], track_blocks[i]))
      /\ (\A i \in cancelled : sections[i] = <<>>)
      /\ Cancels(decoder_stream, cancelled)
  BY Zenon DEF Inv
<1>2. /\ decoder_stream # <<>> /\ decoder_stream' = Tail(decoder_stream)
      /\ UNCHANGED <<enc, dec, encoder_stream, sections, opened, cancelled>>
  BY Zenon DEF on_decoder_recv
<1>3. /\ decoder_stream \in Seq(Answers) /\ track_map \in Refs /\ track_blocks \in Blocks
      /\ blocked_streams \in Refs /\ largest_known_received \in Nat
  BY <1>1, Zenon DEF Typing
<1>4. a.op = "cancel" /\ a \in Answers BY <1>1, <1>2, <1>3, CountingAnswered
<1>5. id \in Streams BY <1>4 DEF Answers
<1>6. sections[id] = <<>>
  <2>1. 1 \in 1 .. Len(decoder_stream) /\ decoder_stream[1] = a BY <1>2, <1>3
  <2>2. id \in cancelled BY <1>1, <1>4, <2>1, Zenon DEF Cancels
  <2> QED BY <1>1, <2>2, Zenon
<1>7. Walk(Tail(decoder_stream), Counting, largest_known_received, total_inserted(dec))
  <2>1. Walk(Tail(decoder_stream), Counting,
             largest_known_received + (IF a.op = "increment" THEN a.n ELSE 0), total_inserted(dec))
    BY <1>1, <1>2, <1>3, CountingAnswered
  <2>2. largest_known_received + (IF a.op = "increment" THEN a.n ELSE 0) = largest_known_received
    BY <1>3, <1>4
  <2> QED BY <2>1, <2>2
<1>8. \A i \in Streams : Len(B[i]) \in Nat BY <1>1, QueueFacts
<1>9. ASSUME NEW i \in Streams
      PROVE  \E z \in Nat :
               /\ z = IF i = id THEN IF Len(B[i]) <= 2 THEN 0 ELSE Len(B[i]) - 2 ELSE Len(B[i])
               /\ Settled(Tail(decoder_stream), i, z, sections[i])
  <2>1. PICK z \in Nat :
          /\ z = IF a.op = "ack" /\ a.id = i THEN Len(B[i]) - 1
                 ELSE IF a.op = "cancel" /\ a.id = i
                      THEN IF Len(B[i]) <= 2 THEN 0 ELSE Len(B[i]) - 2
                 ELSE Len(B[i])
          /\ Settled(Tail(decoder_stream), i, z, sections[i])
    BY <1>1, <1>2, <1>3, <1>8, SettledAnswered
  <2>2. z = IF i = id THEN IF Len(B[i]) <= 2 THEN 0 ELSE Len(B[i]) - 2 ELSE Len(B[i])
    BY <1>4, <2>1
  <2> QED BY <2>1, <2>2
<1>10. /\ C = [B EXCEPT ![id] = SubSeq(@, 3, Len(@))]
       /\ m = (CASE Len(B[id]) = 0 -> track_map
                 [] Len(B[id]) = 1 -> track_map (-) B[id][1]
                 [] OTHER -> (track_map (-) B[id][1]) (-) B[id][2])
       /\ UNCHANGED <<largest_known_received, blocked_streams, failed>>
  BY Zenon DEF OnStreamCancel
<1> HIDE DEF a
<1>11. /\ m \in Refs /\ C \in Blocks /\ Tally(m, C)
       /\ Len(C[id]) = (IF Len(B[id]) <= 2 THEN 0 ELSE Len(B[id]) - 2)
       /\ (B[id] = <<>> => C[id] = B[id])
       /\ (\A j \in Streams : j # id => C[j] = B[j])
       /\ \A r \in Nat : Count(r, m) <= Count(r, track_map)
  <2> DEFINE w == track_map
  <2>1. w \in Refs /\ B \in Blocks /\ Tally(w, B) BY <1>1, <1>3
  <2>2. Forgets(w, B, id, m, C) BY <1>10, Zenon DEF Forgets
  <2>3. id \in Streams BY <1>5
  <2> HIDE DEF w, B, C, m, id
  <2>4. /\ m \in Refs /\ C \in Blocks /\ Tally(m, C)
        /\ Len(C[id]) = (IF Len(B[id]) <= 2 THEN 0 ELSE Len(B[id]) - 2)
        /\ (B[id] = <<>> => C[id] = B[id])
        /\ (\A j \in Streams : j # id => C[j] = B[j])
        /\ \A r \in Nat : Count(r, m) <= Count(r, w)
    BY <2>1, <2>2, <2>3, Forgotten, Zenon
  <2> QED BY <2>4 DEF w
<1>12. ASSUME NEW i \in Streams
       PROVE  /\ Settled(Tail(decoder_stream), i, Len(C[i]), sections[i])
              /\ Aligned(sections[i], C[i])
              /\ B[i] = <<>> => C[i] = <<>>
  <2>1. PICK z \in Nat :
          /\ z = IF i = id THEN IF Len(B[i]) <= 2 THEN 0 ELSE Len(B[i]) - 2 ELSE Len(B[i])
          /\ Settled(Tail(decoder_stream), i, z, sections[i])
    BY <1>9
  <2>2. CASE i = id
    <3>1. z = Len(C[i]) BY <1>11, <2>1, <2>2
    <3>2. \A j \in 1 .. Len(sections[i]) : FALSE BY <1>6, <2>2
    <3>3. Aligned(sections[i], C[i]) BY <3>2, Zenon DEF Aligned
    <3> QED BY <1>11, <2>1, <2>2, <3>1, <3>3, Zenon
  <2>3. CASE i # id
    <3>1. C[i] = B[i] BY <1>11, <2>3, Zenon
    <3> QED BY <1>1, <2>1, <2>3, <3>1, Zenon
  <2> QED BY <2>2, <2>3
<1>13. UNCHANGED <<enc, dec, encoder_stream, sections, opened, cancelled, failed>>
  BY <1>2, <1>10
<1>14. blocked_streams' \in Refs /\ largest_known_received' = largest_known_received
       /\ largest_known_received' \in Nat
  BY <1>3, <1>10
<1> QED BY <1>2, <1>7, <1>11, <1>12, <1>13, <1>14, AnswerKeeps

(* Encoder::on_decoder_recv keeps the invariant: no answer is refused.     *)
LEMMA AnswersKeep == ASSUME Inv, on_decoder_recv PROVE Inv'
<1>1. decoder_stream # <<>> /\ decoder_stream \in Seq(Answers)
  BY Zenon DEF Inv, Typing, on_decoder_recv
<1> DEFINE i == Head(decoder_stream)
<1>2. \/ i.op = "ack" /\ OnHeaderAck(i.id)
      \/ i.op = "cancel" /\ OnStreamCancel(i.id)
      \/ i.op = "increment" /\ OnInsertCountIncrement(i.n)
  BY Zenon DEF on_decoder_recv
<1> QED BY <1>2, AckKeeps, CancelKeeps, IncrementKeeps

-----------------------------------------------------------------------------
(***************************************************************************)
(* The decoder takes a section from a stream, or gives the stream up.      *)
(***************************************************************************)
LEMMA SettledDecoded ==
  ASSUME NEW ds \in Seq(Answers), NEW id \in Streams, NEW n, NEW secs \in Seq(Pending),
         secs # <<>>, Settled(ds, id, n, secs)
  PROVE  /\ Settled(ds, id, n, Tail(secs))
         /\ Settled(Append(ds, HeaderAck(id)), id, n, Tail(secs))
<1> DEFINE m == Len(secs)
           ts == Tail(secs)
           a == HeaderAck(id)
<1>1. m \in Nat /\ m >= 1 /\ Len(ts) = m - 1 BY Shorter
<1>2. PICK y \in Nat : m <= y /\ Walk(ds, Taking(id), n, y) BY Zenon DEF Settled
<1>3. a \in Answers /\ a.op = "ack" /\ a.id = id BY DEF HeaderAck, Answers
<1> HIDE DEF m, ts, a
<1>4. Len(ts) <= y /\ y - 1 \in Nat /\ Len(ts) <= y - 1 BY <1>1, <1>2
<1>5. <<a, y, y - 1>> \in Taking(id) BY <1>2, <1>3, <1>4, TakingStep
<1>6. Walk(Append(ds, a), Taking(id), n, y - 1) BY <1>2, <1>4, <1>5, WalkAppend
<1>7. Settled(ds, id, n, ts) BY <1>2, <1>4, Zenon DEF Settled
<1>8. Settled(Append(ds, a), id, n, ts)
  <2> DEFINE z == y - 1
  <2>1. z \in Nat /\ Len(ts) <= z /\ Walk(Append(ds, a), Taking(id), n, z) BY <1>4, <1>6
  <2> HIDE DEF z
  <2> QED BY <2>1, Zenon DEF Settled
<1> QED BY <1>7, <1>8 DEF ts, a

(* An answer about another stream.                                         *)
LEMMA SettledElsewhere ==
  ASSUME NEW ds \in Seq(Answers), NEW id, NEW n, NEW secs, Settled(ds, id, n, secs),
         NEW a \in Answers, ~(a.op = "ack" /\ a.id = id), ~(a.op = "cancel" /\ a.id = id)
  PROVE  Settled(Append(ds, a), id, n, secs)
<1>1. PICK y \in Nat : Len(secs) <= y /\ Walk(ds, Taking(id), n, y) BY Zenon DEF Settled
<1>2. <<a, y, y>> \in Taking(id) BY <1>1, TakingStep
<1>3. Walk(Append(ds, a), Taking(id), n, y) BY <1>1, <1>2, WalkAppend
<1> QED BY <1>1, <1>3, Zenon DEF Settled

(* An answer that reports no insertion.                                    *)
LEMMA CountingElsewhere ==
  ASSUME NEW ds \in Seq(Answers), NEW x, NEW y, Walk(ds, Counting, x, y),
         NEW a \in Answers, a.op # "increment"
  PROVE  Walk(Append(ds, a), Counting, x, y)
<1>1. y \in Nat BY CountingRises
<1>2. y = y + (IF a.op = "increment" THEN a.n ELSE 0) BY <1>1
<1>3. <<a, y, y>> \in Counting BY <1>1, <1>2, CountingStep, Zenon
<1> QED BY <1>1, <1>3, WalkAppend

(* What requires an insertion the decoder has not seen is missing it.      *)
LEMMA AskersWait ==
  ASSUME Inv, NEW id \in Streams, NEW j \in 1 .. Len(sections[id]), NEW q, NEW b,
         SectionOK(enc, sections[id][j], q, b), NEW r \in Nat, total_inserted(dec) < r, r <= q
  PROVE  Missing(sections[id][j])
<1>1. q \in Nat /\ Needs(sections[id][j]) = q BY NeedsIs
<1>2. total_inserted(dec) \in Nat BY Behind
<1>3. q > total_inserted(dec) BY <1>1, <1>2
<1> QED BY <1>1, <1>3, Zenon DEF Missing

(* Decoder::decode_header keeps the invariant.                             *)
LEMMA DecodeKeeps ==
  ASSUME Inv, NEW id \in Streams, decode_header(id)
  PROVE  Inv'
<1> DEFINE secs == sections[id]
           sec == Head(secs)
           a == HeaderAck(id)
<1>1. /\ Typing
      /\ Leads(dec, encoder_stream, enc)
      /\ Sizing(dec, enc, encoder_stream, track_blocks)
      /\ Walk(decoder_stream, Counting, largest_known_received, total_inserted(dec))
      /\ Tally(track_map, track_blocks)
      /\ LiveIn(track_map, enc)
      /\ (\A i \in Streams : Settled(decoder_stream, i, Len(track_blocks[i]), sections[i]))
      /\ (\A i \in Streams : Aligned(sections[i], track_blocks[i]))
      /\ (\A i \in Streams : Supported(enc, sections[i]))
      /\ (\A i \in Streams : Len(sections[i]) <= opened[i])
      /\ (\A i \in cancelled : sections[i] = <<>>)
      /\ Cancels(decoder_stream, cancelled)
      /\ AllAsked(dec, enc, sections)
  BY Zenon DEF Inv
<1>2. /\ failed = "no" /\ secs # <<>> /\ ~Missing(sec)
      /\ IF Needs(sec) < 0 \/ \E i \in DOMAIN sec.lines : Decoded(sec)[i] = NoField
         THEN failed' = "decoder" /\ UNCHANGED decoder_stream
         ELSE /\ decoder_stream' = IF Needs(sec) = 0 THEN decoder_stream
                                   ELSE Append(decoder_stream, a)
              /\ UNCHANGED failed
      /\ sections' = [sections EXCEPT ![id] = Tail(@)]
      /\ UNCHANGED <<enc, track_map, track_blocks, largest_known_received, blocked_streams>>
      /\ UNCHANGED <<dec, encoder_stream, opened, cancelled>>
  BY Zenon DEF decode_header, encoder
<1>3. /\ decoder_stream \in Seq(Answers) /\ sections \in [Streams -> Seq(Pending)]
      /\ opened \in [Streams -> 0 .. MaxSections] /\ cancelled \subseteq Streams
  BY <1>1, Zenon DEF Typing
<1>4. secs \in Seq(Pending) BY <1>1, QueueFacts
<1>5. a \in Answers /\ a.op = "ack" /\ a.id = id BY DEF HeaderAck, Answers
<1>6. /\ Len(secs) \in Nat /\ Len(secs) >= 1 /\ sec = secs[1]
      /\ Tail(secs) \in Seq(Pending) /\ Len(Tail(secs)) = Len(secs) - 1
      /\ \A i \in 1 .. (Len(secs) - 1) : Tail(secs)[i] = secs[i + 1]
  BY <1>2, <1>4, Shorter
<1>7. Needs(sec) \in Nat /\ \A i \in DOMAIN sec.lines : Decoded(sec)[i] # NoField
  <2>1. 1 \in 1 .. Len(sections[id]) BY <1>6
  <2>2. ~Missing(sections[id][1]) BY <1>2, <1>6
  <2>3. /\ Needs(sections[id][1]) \in Nat
        /\ \A i \in DOMAIN sections[id][1].lines : Decoded(sections[id][1])[i] # NoField
    BY <2>1, <2>2, SectionDecoded, Zenon
  <2> QED BY <1>6, <2>3, Zenon
<1> HIDE DEF sec, a
<1>8. /\ failed' = "no"
      /\ decoder_stream' = decoder_stream \/ decoder_stream' = Append(decoder_stream, a)
  <2>1. ~(Needs(sec) < 0) BY <1>7
  <2> QED BY <1>2, <1>7, <2>1, Zenon
<1>9. /\ sections' \in [Streams -> Seq(Pending)]
      /\ sections'[id] = Tail(secs)
      /\ \A i \in Streams : i # id => sections'[i] = sections[i]
  BY <1>2, <1>3, <1>6, Updating
<1>10. Typing'
  <2>1. Append(decoder_stream, a) \in Seq(Answers) BY <1>3, <1>5, Appending
  <2>2. decoder_stream' \in Seq(Answers) BY <1>3, <1>8, <2>1, Zenon
  <2> QED BY <1>1, <1>2, <1>8, <1>9, <2>2, Zenon DEF Typing
<1>11. Walk(decoder_stream, Counting, largest_known_received, total_inserted(dec))'
  <2>1. Walk(Append(decoder_stream, a), Counting, largest_known_received, total_inserted(dec))
    <3>1. a.op # "increment" BY <1>5
    <3> QED BY <1>1, <1>3, <1>5, <3>1, CountingElsewhere
  <2> QED BY <1>1, <1>2, <1>8, <2>1, Zenon
<1>12. ASSUME NEW i \in Streams
       PROVE  Settled(decoder_stream, i, Len(track_blocks[i]), sections[i])'
  <2>1. Settled(decoder_stream, i, Len(track_blocks[i]), sections[i]) BY <1>1, Zenon
  <2>2. CASE i = id
    <3>1. /\ Settled(decoder_stream, id, Len(track_blocks[id]), Tail(secs))
          /\ Settled(Append(decoder_stream, HeaderAck(id)), id, Len(track_blocks[id]), Tail(secs))
      BY <1>2, <1>3, <1>4, <2>1, <2>2, SettledDecoded
    <3> QED BY <1>2, <1>8, <1>9, <2>2, <3>1, Zenon DEF a
  <2>3. CASE i # id
    <3>1. ~(a.op = "ack" /\ a.id = i) /\ ~(a.op = "cancel" /\ a.id = i) BY <1>5, <2>3
    <3>2. Settled(Append(decoder_stream, a), i, Len(track_blocks[i]), sections[i])
      BY <1>3, <1>5, <2>1, <3>1, SettledElsewhere
    <3> QED BY <1>2, <1>8, <1>9, <2>1, <2>3, <3>2, Zenon
  <2> QED BY <2>2, <2>3
<1>13. ASSUME NEW i \in Streams PROVE Aligned(sections[i], track_blocks[i])'
  <2>1. Aligned(sections[i], track_blocks[i]) BY <1>1, Zenon
  <2>2. CASE i = id
    <3>1. Len(track_blocks[id]) \in Nat BY <1>1, QueueFacts
    <3>2. Aligned(Tail(secs), track_blocks[id]) BY <1>2, <1>4, <2>1, <2>2, <3>1, AlignedDecoded
    <3> QED BY <1>2, <1>9, <2>2, <3>2, Zenon
  <2>3. CASE i # id BY <1>2, <1>9, <2>1, <2>3, Zenon
  <2> QED BY <2>2, <2>3
<1>14. \A j \in 1 .. (Len(secs) - 1) : j + 1 \in 1 .. Len(secs) BY <1>6
<1>15. ASSUME NEW i \in Streams PROVE Supported(enc, sections[i])'
  <2>1. Supported(enc, sections[i]) BY <1>1, Zenon
  <2>2. CASE i = id
    <3>1. \A j \in 1 .. Len(Tail(secs)) : \E q, b : SectionOK(enc, Tail(secs)[j], q, b)
      BY <1>6, <1>14, <2>1, <2>2, Zenon DEF Supported
    <3>2. Supported(enc, Tail(secs)) BY <3>1, Zenon DEF Supported
    <3> QED BY <1>2, <1>9, <2>2, <3>2, Zenon
  <2>3. CASE i # id BY <1>2, <1>9, <2>1, <2>3, Zenon
  <2> QED BY <2>2, <2>3
<1>16. ASSUME NEW i \in Streams PROVE Len(sections'[i]) <= opened'[i]
  <2>1. Len(sections[i]) <= opened[i] BY <1>1, Zenon
  <2>2. CASE i = id
    <3> DEFINE o == opened[id]
    <3>1. o \in Nat
      <4>1. MaxSections \in Nat BY BoundsAssumption, Zenon
      <4>2. o \in 0 .. MaxSections BY <1>3
      <4> HIDE DEF o
      <4> QED BY <4>1, <4>2
    <3>2. Len(secs) <= o BY <2>1, <2>2
    <3> HIDE DEF o
    <3>3. Len(Tail(secs)) <= o BY <1>6, <3>1, <3>2
    <3> QED BY <1>2, <1>9, <2>2, <3>3 DEF o
  <2>3. CASE i # id BY <1>2, <1>9, <2>1, <2>3, Zenon
  <2> QED BY <2>2, <2>3
<1>17. ASSUME NEW i \in cancelled' PROVE sections'[i] = <<>>
  <2>0. i \in cancelled BY <1>2
  <2>1. i # id BY <1>1, <1>2, <2>0
  <2> QED BY <1>1, <1>3, <1>9, <2>0, <2>1
<1>18. Cancels(decoder_stream, cancelled)'
  <2>1. Cancels(Append(decoder_stream, a), cancelled)
    <3>1. a.op = "cancel" => a.id \in cancelled BY <1>5
    <3> QED BY <1>1, <1>3, <3>1, CancelsMore
  <2> QED BY <1>1, <1>2, <1>8, <2>1, Zenon
<1>19. AllAsked(dec, enc, sections)'
  <2>1. ASSUME NEW r \in Nat, total_inserted(dec) < r, r <= total_inserted(enc)
        PROVE  Asked(enc, sections', r)
    <3>1. Asked(enc, sections, r) BY <1>1, <2>1, Zenon DEF AllAsked
    <3>2. PICK i \in Streams : \E j \in 1 .. Len(sections[i]) : \E q, b :
            SectionOK(enc, sections[i][j], q, b) /\ r \in sections[i][j].refs /\ r <= q
      BY <3>1, Zenon DEF Asked
    <3>3. PICK j \in 1 .. Len(sections[i]) : \E q, b :
            SectionOK(enc, sections[i][j], q, b) /\ r \in sections[i][j].refs /\ r <= q
      BY <3>2, Zenon
    <3>4. PICK q, b :
            SectionOK(enc, sections[i][j], q, b) /\ r \in sections[i][j].refs /\ r <= q
      BY <3>3, Zenon
    <3>5. Missing(sections[i][j]) BY <2>1, <3>4, AskersWait
    <3>6. \E k \in 1 .. Len(sections'[i]) : sections'[i][k] = sections[i][j]
      <4>1. CASE i = id
        <5>1. j # 1 BY <1>2, <1>6, <3>5, <4>1 DEF sec
        <5>2. j \in 1 .. Len(secs) BY <4>1
        <5> DEFINE k == j - 1
        <5>3. k \in 1 .. (Len(secs) - 1) /\ k + 1 = j
          <6> DEFINE l == Len(secs)
          <6>1. l \in Nat /\ j \in 1 .. l /\ j # 1 BY <1>6, <5>1, <5>2
          <6>2. k \in 1 .. (l - 1) /\ k + 1 = j
            <7> HIDE DEF l
            <7> QED BY <6>1
          <6> QED BY <6>2
        <5> HIDE DEF k
        <5>4. Tail(secs)[k] = secs[j] BY <1>6, <5>3
        <5>5. k \in 1 .. Len(Tail(secs)) BY <1>6, <5>3
        <5> QED BY <1>9, <4>1, <5>4, <5>5, Zenon
      <4>2. CASE i # id BY <1>9, <4>2, Zenon
      <4> QED BY <4>1, <4>2
    <3> QED BY <3>4, <3>6, Zenon DEF Asked
  <2> QED BY <1>2, <2>1, Zenon DEF AllAsked
<1>20. /\ Leads(dec, encoder_stream, enc)'
       /\ Sizing(dec, enc, encoder_stream, track_blocks)'
       /\ Tally(track_map, track_blocks)' /\ LiveIn(track_map, enc)'
  BY <1>1, <1>2, Zenon
<1> QED
  BY <1>10, <1>11, <1>12, <1>13, <1>15, <1>16, <1>17, <1>18, <1>19, <1>20, Zenon DEF Inv

(* The cancellation of a stream takes what is outstanding there.           *)
LEMMA SettledCancelled ==
  ASSUME NEW ds \in Seq(Answers), NEW id \in Streams, NEW n, NEW secs, Len(secs) \in Nat,
         Settled(ds, id, n, secs)
  PROVE  Settled(Append(ds, StreamCancel(id)), id, n, <<>>)
<1> DEFINE a == StreamCancel(id)
<1>1. PICK y \in Nat : Len(secs) <= y /\ Walk(ds, Taking(id), n, y) BY Zenon DEF Settled
<1>2. a \in Answers /\ a.op = "cancel" /\ a.id = id BY DEF StreamCancel, Answers
<1> HIDE DEF a
<1> DEFINE z == IF y <= 2 THEN 0 ELSE y - 2
<1>3. z \in Nat /\ Len(<<>>) <= z OBVIOUS
<1>4. <<a, y, z>> \in Taking(id) BY <1>1, <1>2, <1>3, TakingStep
<1> HIDE DEF z
<1>5. Walk(Append(ds, a), Taking(id), n, z) BY <1>1, <1>3, <1>4, WalkAppend
<1> QED BY <1>3, <1>5, Zenon DEF Settled, a

(* Decoder::stream_canceled keeps it: the decoder has caught up.           *)
LEMMA CancelStreamKeeps ==
  ASSUME Inv, Careful, NEW id \in Streams, stream_canceled(id)
  PROVE  Inv'
<1> DEFINE a == StreamCancel(id)
<1>1. /\ Typing
      /\ Leads(dec, encoder_stream, enc)
      /\ Sizing(dec, enc, encoder_stream, track_blocks)
      /\ Walk(decoder_stream, Counting, largest_known_received, total_inserted(dec))
      /\ Tally(track_map, track_blocks)
      /\ LiveIn(track_map, enc)
      /\ (\A i \in Streams : Settled(decoder_stream, i, Len(track_blocks[i]), sections[i]))
      /\ (\A i \in Streams : Aligned(sections[i], track_blocks[i]))
      /\ (\A i \in Streams : Supported(enc, sections[i]))
      /\ (\A i \in Streams : Len(sections[i]) <= opened[i])
      /\ (\A i \in cancelled : sections[i] = <<>>)
      /\ Cancels(decoder_stream, cancelled)
  BY Zenon DEF Inv
<1>2. /\ failed = "no" /\ encoder_stream = <<>>
      /\ cancelled' = cancelled \cup {id}
      /\ sections' = [sections EXCEPT ![id] = <<>>]
      /\ decoder_stream' = Append(decoder_stream, a)
      /\ UNCHANGED <<enc, track_map, track_blocks, largest_known_received, blocked_streams>>
      /\ UNCHANGED <<dec, encoder_stream, opened, failed>>
  BY Zenon DEF stream_canceled, encoder
<1>3. /\ decoder_stream \in Seq(Answers) /\ sections \in [Streams -> Seq(Pending)]
      /\ opened \in [Streams -> 0 .. MaxSections] /\ cancelled \subseteq Streams
  BY <1>1, Zenon DEF Typing
<1>4. a \in Answers /\ a.op = "cancel" /\ a.id = id BY DEF StreamCancel, Answers
<1> HIDE DEF a
<1>5. /\ sections' \in [Streams -> Seq(Pending)]
      /\ sections'[id] = <<>>
      /\ \A i \in Streams : i # id => sections'[i] = sections[i]
  <2>1. <<>> \in Seq(Pending) OBVIOUS
  <2> QED BY <1>2, <1>3, <2>1, Updating
<1>6. Typing'
  <2>1. decoder_stream' \in Seq(Answers)
    <3>1. Append(decoder_stream, a) \in Seq(Answers) BY <1>3, <1>4, Appending
    <3> QED BY <1>2, <3>1, Zenon
  <2>2. cancelled' \subseteq Streams BY <1>2, <1>3
  <2> QED BY <1>1, <1>2, <1>5, <2>1, <2>2, Zenon DEF Typing
<1>7. Walk(decoder_stream, Counting, largest_known_received, total_inserted(dec))'
  <2>1. a.op # "increment" BY <1>4
  <2>2. Walk(Append(decoder_stream, a), Counting, largest_known_received, total_inserted(dec))
    BY <1>1, <1>3, <1>4, <2>1, CountingElsewhere
  <2> QED BY <1>2, <2>2, Zenon
<1>8. ASSUME NEW i \in Streams
      PROVE  Settled(decoder_stream, i, Len(track_blocks[i]), sections[i])'
  <2>1. Settled(decoder_stream, i, Len(track_blocks[i]), sections[i]) BY <1>1, Zenon
  <2>2. CASE i = id
    <3>1. Len(sections[id]) \in Nat BY <1>1, QueueFacts
    <3>2. Settled(Append(decoder_stream, StreamCancel(id)), id, Len(track_blocks[id]), <<>>)
      BY <1>3, <2>1, <2>2, <3>1, SettledCancelled
    <3> QED BY <1>2, <1>5, <2>2, <3>2, Zenon DEF a
  <2>3. CASE i # id
    <3>1. ~(a.op = "ack" /\ a.id = i) /\ ~(a.op = "cancel" /\ a.id = i) BY <1>4, <2>3
    <3>2. Settled(Append(decoder_stream, a), i, Len(track_blocks[i]), sections[i])
      BY <1>3, <1>4, <2>1, <3>1, SettledElsewhere
    <3> QED BY <1>2, <1>5, <2>3, <3>2, Zenon
  <2> QED BY <2>2, <2>3
<1>9. \A j \in 1 .. Len(<<>>) : FALSE OBVIOUS
<1>10. ASSUME NEW i \in Streams
       PROVE  Aligned(sections[i], track_blocks[i])' /\ Supported(enc, sections[i])'
  <2>1. CASE i = id
    <3>1. Aligned(<<>>, track_blocks[i]) BY <1>9, Zenon DEF Aligned
    <3>2. Supported(enc, <<>>) BY <1>9, Zenon DEF Supported
    <3> QED BY <1>2, <1>5, <2>1, <3>1, <3>2, Zenon
  <2>2. CASE i # id BY <1>1, <1>2, <1>5, <2>2, Zenon
  <2> QED BY <2>1, <2>2
<1>11. ASSUME NEW i \in Streams PROVE Len(sections'[i]) <= opened'[i]
  <2>1. CASE i = id
    <3> DEFINE o == opened[id]
    <3>1. o \in Nat
      <4>1. MaxSections \in Nat BY BoundsAssumption, Zenon
      <4>2. o \in 0 .. MaxSections BY <1>3
      <4> HIDE DEF o
      <4> QED BY <4>1, <4>2
    <3> HIDE DEF o
    <3>2. Len(<<>>) <= o BY <3>1
    <3> QED BY <1>2, <1>5, <2>1, <3>2 DEF o
  <2>2. CASE i # id BY <1>1, <1>2, <1>5, <2>2, Zenon
  <2> QED BY <2>1, <2>2
<1>12. ASSUME NEW i \in cancelled' PROVE sections'[i] = <<>>
  <2>1. i = id \/ i \in cancelled BY <1>2
  <2> QED BY <1>1, <1>3, <1>5, <2>1
<1>13. Cancels(decoder_stream, cancelled)'
  <2>1. cancelled \subseteq cancelled' BY <1>2
  <2>2. a.op = "cancel" => a.id \in cancelled' BY <1>2, <1>4
  <2>3. Cancels(Append(decoder_stream, a), cancelled') BY <1>1, <1>3, <2>1, <2>2, CancelsMore
  <2> QED BY <1>2, <2>3, Zenon
<1>14. AllAsked(dec, enc, sections)'
  <2>1. dec = enc BY <1>2, SeenAll
  <2>2. total_inserted(dec) \in Nat BY Behind
  <2>3. \A r \in Nat : ~(total_inserted(dec) < r /\ r <= total_inserted(enc)) BY <2>1, <2>2
  <2> QED BY <1>2, <2>3, Zenon DEF AllAsked
<1>15. /\ Leads(dec, encoder_stream, enc)'
       /\ Sizing(dec, enc, encoder_stream, track_blocks)'
       /\ Tally(track_map, track_blocks)' /\ LiveIn(track_map, enc)'
  BY <1>1, <1>2, Zenon
<1> QED
  BY <1>6, <1>7, <1>8, <1>10, <1>11, <1>12, <1>13, <1>14, <1>15, Zenon DEF Inv

(* Initially nothing is in flight.                                         *)
LEMMA InitInv == Init => Inv
<1> SUFFICES ASSUME Init PROVE Inv OBVIOUS
<1>1. /\ enc = NewTable /\ dec = NewTable
      /\ track_map = EmptyBag
      /\ track_blocks = [id \in Streams |-> <<>>]
      /\ largest_known_received = 0
      /\ blocked_streams = EmptyBag
      /\ encoder_stream = <<>> /\ decoder_stream = <<>>
      /\ sections = [id \in Streams |-> <<>>]
      /\ opened = [id \in Streams |-> 0]
      /\ cancelled = {}
      /\ failed = "no"
  BY Zenon DEF Init
<1>2. NewTable \in Tables /\ total_inserted(NewTable) = 0
  <2>1. total_inserted(NewTable) = 0 BY DEF NewTable, total_inserted
  <2> QED BY <2>1, NewTableIsTable
<1>3. EmptyBag \in Refs /\ \A r : Count(r, EmptyBag) = 0 BY EmptyRefs
<1>4. \A id \in Streams : sections[id] = <<>> /\ track_blocks[id] = <<>> /\ opened[id] = 0
  BY <1>1
<1>5. Len(<<>>) = 0 /\ 0 \in Nat /\ \A j \in 1 .. Len(<<>>) : FALSE OBVIOUS
<1>6. track_blocks \in Blocks
  <2>1. <<>> \in Seq(Refs) OBVIOUS
  <2> QED BY <1>1, <2>1 DEF Blocks
<1>7. Typing
  <2>1. sections \in [Streams -> Seq(Pending)]
    <3>1. <<>> \in Seq(Pending) OBVIOUS
    <3> QED BY <1>1, <3>1
  <2>2. opened \in [Streams -> 0 .. MaxSections]
    <3>1. MaxSections \in Nat BY BoundsAssumption, Zenon
    <3>2. 0 \in 0 .. MaxSections BY <3>1
    <3> QED BY <1>1, <3>2
  <2>3. encoder_stream \in Seq(Instructions) /\ decoder_stream \in Seq(Answers) BY <1>1
  <2>4. cancelled \subseteq Streams BY <1>1
  <2> QED BY <1>1, <1>2, <1>3, <1>5, <1>6, <2>1, <2>2, <2>3, <2>4, Zenon DEF Typing
<1>8. Leads(dec, encoder_stream, enc) BY <1>1, <1>2, LeadsNowhere, Zenon
<1>9. Sizing(dec, enc, encoder_stream, track_blocks)
  <2>1. dec.max_size = enc.max_size BY <1>1
  <2> QED BY <1>1, <1>5, <2>1, Zenon DEF Sizing
<1>10. Walk(decoder_stream, Counting, largest_known_received, total_inserted(dec))
  BY <1>1, <1>2, <1>5, WalkStart, Zenon
<1>11. Tally(track_map, track_blocks)
  <2>1. \A id \in Streams : Len(track_blocks[id]) = 0 BY <1>4, <1>5, Zenon
  <2>2. \A r \in Nat : IsFiniteSet(Occ(track_blocks, r)) /\ Cardinality(Occ(track_blocks, r)) = 0
    BY <2>1, OccNone, Zenon
  <2> QED BY <1>1, <1>3, <2>2, Zenon DEF Tally
<1>12. LiveIn(track_map, enc)
  <2>1. \A r \in Nat : ~(Count(r, track_map) > 0) BY <1>1, <1>3
  <2> QED BY <2>1, Zenon DEF LiveIn
<1>13. ASSUME NEW id \in Streams
       PROVE  Settled(decoder_stream, id, Len(track_blocks[id]), sections[id])
  <2>1. Walk(<<>>, Taking(id), 0, 0) BY WalkStart
  <2>2. Len(sections[id]) <= 0 BY <1>4
  <2> QED BY <1>1, <1>4, <1>5, <2>1, <2>2, Zenon DEF Settled
<1>14. \A id \in Streams : Aligned(sections[id], track_blocks[id]) /\ Supported(enc, sections[id])
  BY <1>4, <1>5, Zenon DEF Aligned, Supported
<1>15. \A id \in Streams : Len(sections[id]) <= opened[id] BY <1>4
<1>16. (\A id \in cancelled : sections[id] = <<>>) /\ Cancels(decoder_stream, cancelled)
  <2>1. \A id \in cancelled : sections[id] = <<>> BY <1>1
  <2>2. Cancels(decoder_stream, cancelled) BY <1>1, <1>5, Zenon DEF Cancels
  <2> QED BY <2>1, <2>2
<1>17. AllAsked(dec, enc, sections)
  <2>1. \A r \in Nat : ~(total_inserted(dec) < r /\ r <= total_inserted(enc)) BY <1>1, <1>2
  <2> QED BY <2>1, Zenon DEF AllAsked
<1> QED
  BY <1>7, <1>8, <1>9, <1>10, <1>11, <1>12, <1>13, <1>14, <1>15, <1>16, <1>17, Zenon DEF Inv

(* Nothing happens.                                                        *)
LEMMA StutterKeeps == ASSUME Inv, UNCHANGED vars PROVE Inv'
<1>1. /\ UNCHANGED <<enc, track_map, track_blocks, largest_known_received, blocked_streams>>
      /\ UNCHANGED <<dec, encoder_stream, decoder_stream, sections, opened, cancelled, failed>>
  BY DEF vars, encoder
<1>2. /\ Typing
      /\ Leads(dec, encoder_stream, enc)
      /\ Sizing(dec, enc, encoder_stream, track_blocks)
      /\ Walk(decoder_stream, Counting, largest_known_received, total_inserted(dec))
      /\ Tally(track_map, track_blocks)
      /\ LiveIn(track_map, enc)
      /\ (\A id \in Streams : Settled(decoder_stream, id, Len(track_blocks[id]), sections[id]))
      /\ (\A id \in Streams : Aligned(sections[id], track_blocks[id]))
      /\ (\A id \in Streams : Supported(enc, sections[id]))
      /\ (\A id \in Streams : Len(sections[id]) <= opened[id])
      /\ (\A id \in cancelled : sections[id] = <<>>)
      /\ Cancels(decoder_stream, cancelled)
      /\ AllAsked(dec, enc, sections)
  BY Zenon DEF Inv
<1>3. Typing' BY <1>1, <1>2, Zenon DEF Typing
<1> QED BY <1>1, <1>2, <1>3, Zenon DEF Inv

(* Any step.                                                               *)
LEMMA NextKeeps == ASSUME Careful, Small, Inv, [Next]_vars PROVE Inv'
<1>1. CASE UNCHANGED vars BY <1>1, StutterKeeps
<1>2. CASE Next
  <2>1. CASE \E id \in Streams, fs \in Lists : encode(id, fs)
    <3>1. PICK id \in Streams, fs \in Lists : encode(id, fs) BY <2>1, Zenon
    <3> QED BY <3>1, EncodeKeeps
  <2>2. CASE \E size \in Sizes : set_dynamic_table_size(size)
    <3>1. PICK size \in Sizes : set_dynamic_table_size(size) BY <2>2, Zenon
    <3> QED BY <3>1, ResizeKeeps
  <2>3. CASE \E n \in 1 .. Len(encoder_stream) : on_encoder_recv(n)
    <3>1. PICK n \in 1 .. Len(encoder_stream) : on_encoder_recv(n) BY <2>3, Zenon
    <3> QED BY <3>1, ReceiveKeeps
  <2>4. CASE on_decoder_recv BY <2>4, AnswersKeep
  <2>5. CASE \E id \in Streams : decode_header(id) \/ stream_canceled(id)
    <3>1. PICK id \in Streams : decode_header(id) \/ stream_canceled(id) BY <2>5, Zenon
    <3>2. CASE decode_header(id) BY <3>2, DecodeKeeps
    <3>3. CASE stream_canceled(id) BY <3>3, CancelStreamKeeps
    <3> QED BY <3>1, <3>2, <3>3
  <2> QED BY <1>2, <2>1, <2>2, <2>3, <2>4, <2>5, Zenon DEF Next
<1> QED BY <1>1, <1>2, Zenon

(* The invariant holds, and no error or panic ends the connection.         *)
LEMMA Invariant == ASSUME Careful, Small PROVE Spec => []Inv
<1>1. Inv /\ [Next]_vars => Inv' BY NextKeeps
<1> QED BY InitInv, <1>1, PTL DEF Spec

-----------------------------------------------------------------------------
(***************************************************************************)
(* What it implies.                                                        *)
(***************************************************************************)
LEMMA TypeFollows == Inv => TypeOK
<1> SUFFICES ASSUME Inv PROVE TypeOK OBVIOUS
<1>1. /\ Typing
      /\ Walk(decoder_stream, Counting, largest_known_received, total_inserted(dec))
      /\ (\A id \in Streams : Len(sections[id]) <= opened[id])
  BY Zenon DEF Inv
<1>2. /\ enc \in Tables /\ dec \in Tables
      /\ track_map \in Refs /\ blocked_streams \in Refs
      /\ track_blocks \in Blocks
      /\ decoder_stream \in Seq(Answers)
      /\ opened \in [Streams -> 0 .. MaxSections]
      /\ cancelled \subseteq Streams
      /\ failed = "no"
  BY <1>1, Zenon DEF Typing
<1>3. IsTable(enc) /\ IsTable(dec) BY <1>2, TableFacts DEF IsTable
<1>4. \A b \in Refs : IsABag(b) BY RefsFacts DEF IsABag
<1>5. \A id \in Streams : \A i \in 1 .. Len(track_blocks[id]) : track_blocks[id][i] \in Refs
  BY <1>2, BlocksFacts
<1>6. largest_known_received \in 0 .. total_inserted(dec) BY <1>1, <1>2, CountingRises
<1>7. failed \in {"no", "encoder", "decoder", "panic"} BY <1>2
<1> QED BY <1>1, <1>2, <1>3, <1>4, <1>5, <1>6, <1>7, Zenon DEF TypeOK

(* The instructions on their way lead to the encoder's table.              *)
LEMMA AgreementFollows == Inv => TablesAgree
<1>1. ASSUME Inv PROVE TablesAgree
  <2>1. Leads(dec, encoder_stream, enc) /\ encoder_stream \in Seq(Instructions)
    BY <1>1, Zenon DEF Inv, Typing
  <2> QED BY <2>1, LeadsApplied DEF TablesAgree
<1> QED BY <1>1

(* What can be decoded is what was encoded.                                *)
LEMMA DecodingFollows == Inv => DecodesToOriginal
<1> SUFFICES ASSUME Inv PROVE DecodesToOriginal OBVIOUS
<1>1. Typing /\ failed = "no" BY Zenon DEF Inv, Typing
<1>2. ASSUME NEW id \in Streams, sections[id] # <<>>, ~Missing(Head(sections[id]))
      PROVE  Decoded(Head(sections[id])) = Head(sections[id]).original
  <2>1. Len(sections[id]) \in Nat /\ Len(sections[id]) >= 1 /\ Head(sections[id]) = sections[id][1]
    BY <1>1, <1>2, QueueFacts, Shorter
  <2>2. 1 \in 1 .. Len(sections[id]) BY <2>1
  <2>3. ~Missing(sections[id][1]) BY <1>2, <2>1
  <2>4. Decoded(sections[id][1]) = sections[id][1].original BY <2>2, <2>3, SectionDecoded, Zenon
  <2> QED BY <2>1, <2>4
<1> QED BY <1>1, <1>2, Zenon DEF DecodesToOriginal

(* The tally, and what sections refer to.                                  *)
LEMMA TrackingFollows == Inv => TracksOutstanding
<1> SUFFICES ASSUME Inv PROVE TracksOutstanding OBVIOUS
<1>1. Tally(track_map, track_blocks) BY Zenon DEF Inv
<1>2. ASSUME NEW r \in 1 .. total_inserted(enc)
      PROVE  Count(r, track_map) = Cardinality(Occurrences(r))
  <2>1. r \in Nat BY Behind
  <2>2. Occ(track_blocks, r) = Occurrences(r) BY DEF Occ, Occurrences
  <2> QED BY <1>1, <2>1, <2>2, Zenon DEF Tally
<1>3. ASSUME NEW id \in Streams, NEW i \in 1 .. Len(sections[id]), NEW r \in sections[id][i].refs
      PROVE  Live(enc, r) /\ BagIn(r, track_map)
  BY RefsLive
<1> QED BY <1>2, <1>3, Zenon DEF TracksOutstanding

(* When the decoder has seen every instruction, no section waits.          *)
LEMMA WaitingFollows == ASSUME Inv, encoder_stream = <<>> PROVE Waiting = {}
<1> SUFFICES ASSUME NEW id \in Streams, sections[id] # <<>>, Missing(Head(sections[id]))
             PROVE  FALSE
  BY DEF Waiting
<1>1. Typing /\ Supported(enc, sections[id]) BY Zenon DEF Inv
<1>2. Len(sections[id]) \in Nat /\ Len(sections[id]) >= 1 /\ Head(sections[id]) = sections[id][1]
  BY <1>1, QueueFacts, Shorter
<1>3. 1 \in 1 .. Len(sections[id]) BY <1>2
<1>4. PICK q, b : SectionOK(enc, sections[id][1], q, b) BY <1>1, <1>3, Zenon DEF Supported
<1>5. q \in Nat /\ q <= total_inserted(enc) /\ Needs(sections[id][1]) = q BY <1>3, <1>4, NeedsIs
<1>6. dec = enc /\ total_inserted(dec) \in Nat BY SeenAll, Behind
<1>7. ~(q > total_inserted(dec)) BY <1>5, <1>6
<1>8. ~Missing(sections[id][1]) BY <1>5, <1>7, Zenon DEF Missing
<1> QED BY <1>2, <1>8

-----------------------------------------------------------------------------
(***************************************************************************)
(* The sections that wait for insertion r, each known by its stream and    *)
(* the number of sections opened there before it and with it, are no more  *)
(* than the encoder counts as blocked by r.                                *)
(***************************************************************************)
Requires(e, sec, r) == \E b : SectionOK(e, sec, r, b)
Wanting(e, ss, op, r) ==
  {x \in Streams \X Int :
     \E j \in 1 .. Len(ss[x[1]]) :
       x[2] = (op[x[1]] - Len(ss[x[1]])) + j /\ Requires(e, ss[x[1]][j], r)}
Fits(S, n) == IsFiniteSet(S) /\ Cardinality(S) <= n
Pairs(b) == UNION {{<<r, k>> : k \in 1 .. b[r]} : r \in DOMAIN b}

WaitsCounted ==
  /\ IsFiniteSet(Pairs(blocked_streams))
  /\ \A r \in Nat : largest_known_received < r =>
       Fits(Wanting(enc, sections, opened, r), Count(r, blocked_streams))

(* Which sections wait for r.                                              *)
LEMMA Wants ==
  ASSUME NEW e, NEW ss, NEW op, NEW r, NEW x
  PROVE  x \in Wanting(e, ss, op, r) <=>
           /\ x = <<x[1], x[2]>> /\ x[1] \in Streams /\ x[2] \in Int
           /\ \E j \in 1 .. Len(ss[x[1]]) :
                x[2] = (op[x[1]] - Len(ss[x[1]])) + j /\ Requires(e, ss[x[1]][j], r)
<1> DEFINE P(y) == \E j \in 1 .. Len(ss[y[1]]) :
                y[2] = (op[y[1]] - Len(ss[y[1]])) + j /\ Requires(e, ss[y[1]][j], r)
<1>1. x \in Wanting(e, ss, op, r) <=> x \in Streams \X Int /\ P(x) BY Zenon DEF Wanting
<1> HIDE DEF P
<1>2. x \in Streams \X Int <=> x = <<x[1], x[2]>> /\ x[1] \in Streams /\ x[2] \in Int OBVIOUS
<1>3. x \in Wanting(e, ss, op, r) <=>
        x = <<x[1], x[2]>> /\ x[1] \in Streams /\ x[2] \in Int /\ P(x)
  BY <1>1, <1>2
<1> QED BY <1>3 DEF P

(* None do when there are none.                                            *)
LEMMA WantsNone ==
  ASSUME NEW e, NEW ss, NEW op, NEW r, \A id \in Streams : \A j \in 1 .. Len(ss[id]) : FALSE
  PROVE  Wanting(e, ss, op, r) = {}
<1> SUFFICES ASSUME NEW x \in Wanting(e, ss, op, r) PROVE FALSE OBVIOUS
<1>1. x[1] \in Streams /\ \E j \in 1 .. Len(ss[x[1]]) : TRUE BY Zenon, Wants
<1> QED BY <1>1, Zenon

(* Fewer sections, or more counted.                                        *)
LEMMA FitsStill ==
  ASSUME NEW S, NEW n \in Nat, Fits(S, n), NEW T, T \subseteq S, NEW m \in Nat, n <= m
  PROVE  Fits(T, m)
<1>1. IsFiniteSet(S) /\ Cardinality(S) <= n BY DEF Fits
<1>2. IsFiniteSet(T) /\ Cardinality(T) <= Cardinality(S) BY <1>1, FS_Subset
<1>3. Cardinality(S) \in Nat /\ Cardinality(T) \in Nat BY <1>1, <1>2, FS_CardinalityType
<1>4. Cardinality(T) <= m BY <1>1, <1>2, <1>3
<1> QED BY <1>2, <1>4 DEF Fits

(* One more of each.                                                       *)
LEMMA FitsOneMore ==
  ASSUME NEW S, NEW n \in Nat, Fits(S, n), NEW x, NEW T, T \subseteq S \cup {x}
  PROVE  Fits(T, n + 1)
<1>1. IsFiniteSet(S) /\ Cardinality(S) <= n BY DEF Fits
<1> DEFINE U == S \cup {x}
<1>2. /\ IsFiniteSet(U)
      /\ Cardinality(U) = IF x \in S THEN Cardinality(S) ELSE Cardinality(S) + 1
  BY <1>1, FS_AddElement
<1>3. Cardinality(S) \in Nat BY <1>1, FS_CardinalityType
<1> HIDE DEF U
<1>4. Cardinality(U) <= n + 1 BY <1>1, <1>2, <1>3
<1>5. Fits(U, n + 1) BY <1>2, <1>4 DEF Fits
<1>6. n + 1 \in Nat /\ n + 1 <= n + 1 OBVIOUS
<1>7. T \subseteq U BY DEF U
<1> QED BY <1>5, <1>6, <1>7, FitsStill

(* No sections.                                                            *)
LEMMA FitsNone == ASSUME NEW S, S = {}, NEW n \in Nat PROVE Fits(S, n)
<1>1. IsFiniteSet(S) /\ Cardinality(S) = 0 BY FS_EmptySet
<1> QED BY <1>1 DEF Fits

(* Steps that make no section and count no fewer as blocked.               *)
LEMMA CountedStill ==
  ASSUME Typing, WaitsCounted, UNCHANGED blocked_streams, UNCHANGED largest_known_received,
         \A r \in Nat :
           Wanting(enc', sections', opened', r) \subseteq Wanting(enc, sections, opened, r)
  PROVE  WaitsCounted'
<1>1. blocked_streams \in Refs BY Zenon DEF Typing
<1>2. IsFiniteSet(Pairs(blocked_streams)) BY Zenon DEF WaitsCounted
<1>3. ASSUME NEW r \in Nat, largest_known_received < r
      PROVE  Fits(Wanting(enc', sections', opened', r), Count(r, blocked_streams))
  <2>1. Fits(Wanting(enc, sections, opened, r), Count(r, blocked_streams))
    BY <1>3, Zenon DEF WaitsCounted
  <2>2. Count(r, blocked_streams) \in Nat BY <1>1, CountFacts
  <2>3. Count(r, blocked_streams) <= Count(r, blocked_streams) BY <2>2
  <2> QED BY <2>1, <2>2, <2>3, FitsStill
<1> QED BY <1>2, <1>3, Zenon DEF WaitsCounted

(* Nothing waits at first.                                                 *)
LEMMA InitCounted == ASSUME Init PROVE WaitsCounted
<1>1. sections = [id \in Streams |-> <<>>] /\ blocked_streams = EmptyBag BY Zenon DEF Init
<1>2. Inv BY InitInv
<1>3. blocked_streams \in Refs BY <1>2, Zenon DEF Inv, Typing
<1>4. IsFiniteSet(Pairs(blocked_streams))
  <2>1. \A r : ~BagIn(r, blocked_streams) BY <1>1, EmptyRefs
  <2>2. DOMAIN blocked_streams = {} BY <2>1 DEF BagIn, BagToSet
  <2>3. Pairs(blocked_streams) = {} BY <2>2 DEF Pairs
  <2> QED BY <2>3, FS_EmptySet
<1>5. ASSUME NEW r \in Nat
      PROVE  Fits(Wanting(enc, sections, opened, r), Count(r, blocked_streams))
  <2>1. \A id \in Streams : \A j \in 1 .. Len(sections[id]) : FALSE BY <1>1
  <2>3. Wanting(enc, sections, opened, r) = {} BY <2>1, WantsNone
  <2>4. Count(r, blocked_streams) \in Nat BY <1>3, CountFacts
  <2> QED BY <2>3, <2>4, FitsNone
<1> QED BY <1>4, <1>5, Zenon DEF WaitsCounted

(* set_dynamic_table_size: no section is outstanding.                      *)
LEMMA ResizeCounts ==
  ASSUME Inv, WaitsCounted, Careful, NEW size \in Sizes, set_dynamic_table_size(size)
  PROVE  WaitsCounted'
<1>1. Typing BY Zenon DEF Inv
<1>2. /\ UNCHANGED blocked_streams /\ UNCHANGED largest_known_received
      /\ UNCHANGED sections /\ UNCHANGED opened
      /\ \A id \in Streams : track_blocks[id] = <<>>
  BY Zenon DEF set_dynamic_table_size, InFlight
<1>3. ASSUME NEW id \in Streams PROVE \A j \in 1 .. Len(sections[id]) : FALSE
  <2>1. Len(sections[id]) <= Len(track_blocks[id]) BY Outstanding
  <2>2. Len(track_blocks[id]) = 0 BY <1>2
  <2>3. Len(sections[id]) \in Nat BY <1>1, QueueFacts
  <2>4. Len(sections[id]) = 0 BY <2>1, <2>2, <2>3
  <2> QED BY <2>4
<1>4. ASSUME NEW r \in Nat PROVE Wanting(enc', sections', opened', r) = {}
  <2> DEFINE e == enc'
  <2> HIDE DEF e
  <2>1. Wanting(e, sections, opened, r) = {} BY <1>3, WantsNone
  <2> QED BY <1>2, <2>1 DEF e
<1>5. \A r \in Nat :
        Wanting(enc', sections', opened', r) \subseteq Wanting(enc, sections, opened, r)
  BY <1>4
<1> QED BY <1>1, <1>2, <1>5, CountedStill

(* on_decoder_recv: what is no longer counted waits no longer.             *)
LEMMA AnswersCount ==
  ASSUME Inv, WaitsCounted, on_decoder_recv
  PROVE  WaitsCounted'
<1> DEFINE i == Head(decoder_stream)
           L == largest_known_received'
<1>1. Typing BY Zenon DEF Inv
<1>2. /\ UNCHANGED enc /\ UNCHANGED sections /\ UNCHANGED opened
      /\ decoder_stream # <<>>
      /\ \/ i.op = "ack" /\ OnHeaderAck(i.id)
         \/ i.op = "cancel" /\ OnStreamCancel(i.id)
         \/ i.op = "increment" /\ OnInsertCountIncrement(i.n)
  BY Zenon DEF on_decoder_recv
<1>3. blocked_streams \in Refs /\ largest_known_received \in Nat /\ decoder_stream \in Seq(Answers)
  BY <1>1, Zenon DEF Typing
<1>4. CASE UNCHANGED blocked_streams /\ UNCHANGED largest_known_received
  <2>1. \A r \in Nat :
          Wanting(enc', sections', opened', r) \subseteq Wanting(enc, sections, opened, r)
    BY <1>2
  <2> QED BY <1>1, <1>4, <2>1, CountedStill
<1>5. CASE i.op = "increment" /\ OnInsertCountIncrement(i.n)
  <2>1. i.n \in Nat
    <3>1. i \in Answers BY <1>2, <1>3
    <3> HIDE DEF i
    <3> QED BY <1>5, <3>1 DEF Answers
  <2> HIDE DEF i
  <2>2. /\ L = largest_known_received + i.n
        /\ blocked_streams' = [r \in {q \in DOMAIN blocked_streams : q > L} |-> blocked_streams[r]]
    BY <1>5, Zenon DEF OnInsertCountIncrement
  <2>3. L \in Nat /\ largest_known_received <= L BY <1>3, <2>1, <2>2
  <2> DEFINE b == blocked_streams
             c == blocked_streams'
  <2>4. /\ DOMAIN c \subseteq DOMAIN b
        /\ \A r \in DOMAIN c : c[r] = b[r]
        /\ \A r \in DOMAIN b : r > L => r \in DOMAIN c
    BY <2>2
  <2> HIDE DEF b, c, L
  <2>5. Pairs(c) \subseteq Pairs(b) BY <2>4 DEF Pairs
  <2>6. IsFiniteSet(Pairs(c))
    <3>1. IsFiniteSet(Pairs(b)) BY Zenon DEF WaitsCounted, b
    <3> QED BY <2>5, <3>1, FS_Subset
  <2>7. ASSUME NEW r \in Nat, L < r PROVE Fits(Wanting(enc, sections, opened, r), Count(r, c))
    <3>1. largest_known_received < r BY <1>3, <2>3, <2>7
    <3>2. Fits(Wanting(enc, sections, opened, r), Count(r, b))
      BY <3>1, Zenon DEF WaitsCounted, b
    <3>3. Count(r, c) = Count(r, b)
      <4>1. r > L BY <2>3, <2>7
      <4>2. r \in DOMAIN b <=> r \in DOMAIN c BY <2>4, <4>1
      <4> QED BY <2>4, <4>2 DEF Count, BagIn, BagToSet
    <3> QED BY <3>2, <3>3
  <2> QED BY <1>2, <2>6, <2>7, Zenon DEF WaitsCounted, c, L
<1> QED BY <1>2, <1>4, <1>5, Zenon DEF OnHeaderAck, OnStreamCancel

(* Sections are taken away: the others keep their numbers.                 *)
LEMMA WantsFewer ==
  ASSUME NEW e, NEW ss, NEW tt, NEW op, NEW r,
         \A i \in Streams : \A j \in 1 .. Len(tt[i]) : \E k \in 1 .. Len(ss[i]) :
           /\ tt[i][j] = ss[i][k]
           /\ (op[i] - Len(tt[i])) + j = (op[i] - Len(ss[i])) + k
  PROVE  Wanting(e, tt, op, r) \subseteq Wanting(e, ss, op, r)
<1> SUFFICES ASSUME NEW x \in Wanting(e, tt, op, r) PROVE x \in Wanting(e, ss, op, r) OBVIOUS
<1> DEFINE i == x[1]
<1>1. /\ x = <<x[1], x[2]>> /\ x[1] \in Streams /\ x[2] \in Int
      /\ \E j \in 1 .. Len(tt[x[1]]) :
           x[2] = (op[x[1]] - Len(tt[x[1]])) + j /\ Requires(e, tt[x[1]][j], r)
  BY Wants
<1>2. PICK j \in 1 .. Len(tt[i]) : x[2] = (op[i] - Len(tt[i])) + j /\ Requires(e, tt[i][j], r)
  BY <1>1, Zenon
<1>3. PICK k \in 1 .. Len(ss[i]) :
        tt[i][j] = ss[i][k] /\ (op[i] - Len(tt[i])) + j = (op[i] - Len(ss[i])) + k
  BY <1>1, Zenon
<1>4. \E l \in 1 .. Len(ss[i]) : x[2] = (op[i] - Len(ss[i])) + l /\ Requires(e, ss[i][l], r)
  BY <1>2, <1>3, Zenon
<1> QED BY <1>1, <1>4, Wants, Zenon

(* decode_header takes the oldest section of a stream ...                  *)
LEMMA DecodeCounts ==
  ASSUME Inv, WaitsCounted, NEW id \in Streams, decode_header(id)
  PROVE  WaitsCounted'
<1> DEFINE secs == sections[id]
           o == opened[id]
           n == Len(secs)
<1>1. Typing BY Zenon DEF Inv
<1>2. /\ UNCHANGED enc /\ UNCHANGED blocked_streams /\ UNCHANGED largest_known_received
      /\ UNCHANGED opened /\ secs # <<>>
      /\ sections' = [sections EXCEPT ![id] = Tail(@)]
  BY Zenon DEF decode_header, encoder
<1>3. /\ sections \in [Streams -> Seq(Pending)] /\ opened \in [Streams -> 0 .. MaxSections]
  BY <1>1, Zenon DEF Typing
<1>4. secs \in Seq(Pending) BY <1>1, QueueFacts
<1>5. /\ n \in Nat /\ n >= 1 /\ Tail(secs) \in Seq(Pending) /\ Len(Tail(secs)) = n - 1
      /\ \A i \in 1 .. (n - 1) : Tail(secs)[i] = secs[i + 1]
  BY <1>2, <1>4, Shorter
<1>6. /\ sections'[id] = Tail(secs)
      /\ \A i \in Streams : i # id => sections'[i] = sections[i]
  BY <1>2, <1>3, <1>5, Updating
<1>7. o \in Int
  <2>1. MaxSections \in Nat BY BoundsAssumption, Zenon
  <2>2. o \in 0 .. MaxSections BY <1>3
  <2> HIDE DEF o
  <2> QED BY <2>1, <2>2
<1>8. ASSUME NEW i \in Streams, NEW j \in 1 .. Len(sections'[i])
      PROVE  \E k \in 1 .. Len(sections[i]) :
               /\ sections'[i][j] = sections[i][k]
               /\ (opened[i] - Len(sections'[i])) + j = (opened[i] - Len(sections[i])) + k
  <2>1. CASE i = id
    <3>0. j \in 1 .. (n - 1) BY <1>5, <1>6, <2>1
    <3> HIDE DEF o, n, secs
    <3> DEFINE k == j + 1
    <3>1. k \in 1 .. n /\ (o - (n - 1)) + j = (o - n) + k BY <1>5, <1>7, <3>0
    <3>2. Tail(secs)[j] = secs[k] BY <1>5, <3>0
    <3> HIDE DEF k
    <3>3. k \in 1 .. Len(secs) /\ (o - Len(Tail(secs))) + j = (o - Len(secs)) + k
      BY <1>5, <3>1 DEF n
    <3> QED BY <1>6, <2>1, <3>2, <3>3, Zenon DEF o, secs
  <2>2. CASE i # id BY <1>6, <2>2, Zenon
  <2> QED BY <2>1, <2>2
<1> DEFINE tt == sections'
<1>9. ASSUME NEW r \in Nat
      PROVE  Wanting(enc, tt, opened, r) \subseteq Wanting(enc, sections, opened, r)
  <2> HIDE DEF tt
  <2> QED BY <1>8, WantsFewer DEF tt
<1>10. \A r \in Nat :
         Wanting(enc', sections', opened', r) \subseteq Wanting(enc, sections, opened, r)
  BY <1>2, <1>9, Zenon
<1> QED BY <1>1, <1>2, <1>10, CountedStill

(* ... and stream_canceled all of them.                                    *)
LEMMA CancelStreamCounts ==
  ASSUME Inv, WaitsCounted, NEW id \in Streams, stream_canceled(id)
  PROVE  WaitsCounted'
<1> DEFINE tt == sections'
<1>1. Typing BY Zenon DEF Inv
<1>2. /\ UNCHANGED enc /\ UNCHANGED blocked_streams /\ UNCHANGED largest_known_received
      /\ UNCHANGED opened
      /\ sections' = [sections EXCEPT ![id] = <<>>]
  BY Zenon DEF stream_canceled, encoder
<1>3. sections \in [Streams -> Seq(Pending)] BY <1>1, Zenon DEF Typing
<1>4. tt[id] = <<>> /\ \A i \in Streams : i # id => tt[i] = sections[i] BY <1>2, <1>3
<1>5. \A j \in 1 .. Len(<<>>) : FALSE OBVIOUS
<1> HIDE DEF tt
<1>6. ASSUME NEW i \in Streams, NEW j \in 1 .. Len(tt[i])
      PROVE  \E k \in 1 .. Len(sections[i]) :
               /\ tt[i][j] = sections[i][k]
               /\ (opened[i] - Len(tt[i])) + j = (opened[i] - Len(sections[i])) + k
  <2>1. CASE i = id BY <1>4, <1>5, <2>1, Zenon
  <2>2. CASE i # id BY <1>4, <2>2, Zenon
  <2> QED BY <2>1, <2>2
<1>7. ASSUME NEW r \in Nat
      PROVE  Wanting(enc, tt, opened, r) \subseteq Wanting(enc, sections, opened, r)
  BY <1>6, WantsFewer
<1>8. \A r \in Nat :
         Wanting(enc', sections', opened', r) \subseteq Wanting(enc, sections, opened, r)
  BY <1>2, <1>7, Zenon DEF tt
<1> QED BY <1>1, <1>2, <1>8, CountedStill

(* A section requires one number of insertions.                            *)
LEMMA RequiredOnce ==
  ASSUME NEW t \in Tables, NEW sec, NEW q, NEW b, NEW p, NEW c,
         SectionOK(t, sec, q, b), SectionOK(t, sec, p, c), \A r \in sec.refs : Live(t, r)
  PROVE  q = p
<1> DEFINE e == max_entries(t.max_size)
           n == Len(t.fields)
           x == sec.prefix
<1>1. /\ q \in Nat /\ b \in Nat /\ x = HeaderPrefix(q, b, t.max_size)
      /\ (q = 0 \/ q \in sec.refs)
      /\ p \in Nat /\ c \in Nat /\ x = HeaderPrefix(p, c, t.max_size)
      /\ (p = 0 \/ p \in sec.refs)
  BY Zenon DEF SectionOK
<1>2. /\ n <= e /\ n \in Nat /\ t.dropped \in Nat /\ t.max_size \in Sizes /\ t.max_size \in Nat
      /\ total_inserted(t) = t.dropped + n
  BY FieldsFit, TableFacts DEF total_inserted
<1>3. e \in Nat
  <2>1. CASE t.max_size = 0 BY <2>1 DEF max_entries, ESTIMATED_OVERHEAD_BYTES
  <2>2. CASE t.max_size # 0 BY <1>2, <2>2, Entries
  <2> QED BY <2>1, <2>2
<1>4. ASSUME NEW y \in Nat, y # 0, y = q \/ y = p
      PROVE  t.dropped < y /\ y <= t.dropped + n /\ e > 0
  <2>1. Live(t, y) BY <1>1, <1>4
  <2>2. t.dropped < y /\ y <= t.dropped + n BY <1>2, <2>1 DEF Live
  <2> HIDE DEF e, n
  <2>3. n > 0 BY <1>2, <2>2
  <2> QED BY <1>2, <1>3, <2>2, <2>3
<1>5. ASSUME NEW y \in Nat, y # 0, y = q \/ y = p, NEW z \in Nat, z # 0, z = q \/ z = p
      PROVE  Required(x, z, t.max_size) = y
  <2>1. t.dropped < y /\ y <= t.dropped + n /\ e > 0 BY <1>4, <1>5
  <2>2. t.dropped < z /\ z <= t.dropped + n BY <1>4, <1>5
  <2>3. z < y + e /\ y <= z + e
    <3> HIDE DEF e, n
    <3> QED BY <1>2, <1>3, <2>1, <2>2
  <2>4. y \in Nat \ {0} BY <1>5
  <2>5. PICK d \in Nat : x = HeaderPrefix(y, d, t.max_size) BY <1>1, <1>5
  <2> HIDE DEF x
  <2>6. Required(HeaderPrefix(y, d, t.max_size), z, t.max_size) = y
    BY <1>2, <2>1, <2>3, <2>4, PrefixRoundTrip
  <2> QED BY <2>5, <2>6
<1>6. q = 0 \/ p = 0 => x.count = 0
  <2>1. ASSUME NEW d PROVE HeaderPrefix(0, d, t.max_size).count = 0 BY DEF HeaderPrefix
  <2> HIDE DEF x
  <2>2. CASE q = 0
    <3>1. x = HeaderPrefix(0, b, t.max_size) BY <1>1, <2>2, Zenon
    <3> QED BY <2>1, <3>1
  <2>3. CASE p = 0
    <3>1. x = HeaderPrefix(0, c, t.max_size) BY <1>1, <2>3, Zenon
    <3> QED BY <2>1, <3>1
  <2> QED BY <2>2, <2>3
<1> HIDE DEF x, e, n
<1>7. CASE q # 0 /\ p # 0
  <2>1. Required(x, p, t.max_size) = q BY <1>1, <1>5, <1>7
  <2>2. Required(x, p, t.max_size) = p BY <1>1, <1>5, <1>7
  <2> QED BY <2>1, <2>2
<1>8. ASSUME NEW y \in Nat, y # 0, y = q \/ y = p, q = 0 \/ p = 0 PROVE FALSE
  <2>1. Required(x, y, t.max_size) = y BY <1>5, <1>8
  <2>2. Required(x, y, t.max_size) = 0 BY <1>6, <1>8 DEF Required
  <2> QED BY <1>8, <2>1, <2>2
<1>9. CASE q = 0 /\ p # 0 BY <1>1, <1>8, <1>9
<1>10. CASE q # 0 /\ p = 0 BY <1>1, <1>8, <1>10
<1> QED BY <1>7, <1>9, <1>10

(* What encode sends refers to what its table still holds.                 *)
LEMMA RefsSent ==
  ASSUME Inv, NEW id \in Streams, NEW s, NEW sec, Encoded(id, s, sec), NEW r \in sec.refs
  PROVE  Live(s.t, r)
<1>1. /\ s.refs \in Refs /\ sec.refs = BagToSet(s.refs)
      /\ (\A k \in Nat : Count(k, s.track) = Count(k, track_map) + Count(k, s.refs))
      /\ (\A k \in Nat : Count(k, s.track) > 0 => Live(s.t, k))
  BY Zenon DEF Encoded
<1>2. track_map \in Refs BY Zenon DEF Inv, Typing
<1>3. BagIn(r, s.refs) BY <1>1, Zenon DEF BagIn
<1>4. r \in Nat
  <2>1. r \in DOMAIN s.refs BY <1>1, <1>3, CountFacts
  <2>2. DOMAIN s.refs \subseteq Nat BY <1>1, RefsFacts
  <2> QED BY <2>1, <2>2
<1>5. Count(r, s.refs) \in Nat /\ Count(r, s.refs) > 0 BY <1>1, <1>3, CountFacts
<1>6. Count(r, track_map) \in Nat BY <1>2, CountFacts
<1>7. Count(r, s.track) = Count(r, track_map) + Count(r, s.refs) BY <1>1, <1>4
<1>8. Count(r, s.track) > 0 BY <1>5, <1>6, <1>7
<1> QED BY <1>1, <1>4, <1>8

(* It adds a section to those that wait for what it requires.              *)
LEMMA EncodeWants ==
  ASSUME Inv, NEW id \in Streams, NEW s, NEW sec, Encoded(id, s, sec), NEW r,
         NEW tt, tt = sections', NEW oo, oo = opened', NEW x \in Wanting(s.t, tt, oo, r)
  PROVE  \/ x \in Wanting(enc, sections, opened, r)
         \/ r = s.required /\ x = <<id, opened[id] + 1>>
<1>1. Typing BY Zenon DEF Inv
<1>2. /\ sections \in [Streams -> Seq(Pending)] /\ opened \in [Streams -> 0 .. MaxSections]
  BY <1>1, Zenon DEF Typing
<1>3. /\ opened[id] < MaxSections
      /\ opened' = [opened EXCEPT ![id] = @ + 1]
      /\ sections' = [sections EXCEPT ![id] = Append(@, sec)]
      /\ s.t \in Tables /\ sec \in Pending
      /\ SectionOK(s.t, sec, s.required, s.base)
  BY Zenon DEF Encoded
<1>4. sections[id] \in Seq(Pending) /\ Len(sections[id]) \in Nat BY <1>1, QueueFacts
<1>5. /\ Append(sections[id], sec) \in Seq(Pending)
      /\ Len(Append(sections[id], sec)) = Len(sections[id]) + 1
      /\ Append(sections[id], sec)[Len(sections[id]) + 1] = sec
      /\ \A i \in 1 .. Len(sections[id]) :
           i \in 1 .. (Len(sections[id]) + 1) /\ Append(sections[id], sec)[i] = sections[id][i]
      /\ \A i \in 1 .. (Len(sections[id]) + 1) : i \in 1 .. Len(sections[id]) \/ i = Len(sections[id]) + 1
  BY <1>3, <1>4, Appending
<1>6. /\ tt[id] = Append(sections[id], sec)
      /\ \A i \in Streams : i # id => tt[i] = sections[i]
  BY <1>2, <1>3, <1>5, Updating
<1>7. /\ oo[id] = opened[id] + 1 /\ opened[id] \in Int
      /\ \A i \in Streams : i # id => oo[i] = opened[i]
  <2>1. MaxSections \in Nat BY BoundsAssumption, Zenon
  <2>2. opened[id] \in 0 .. MaxSections BY <1>2
  <2>3. opened[id] \in Int BY <2>1, <2>2
  <2> QED BY <1>2, <1>3, <2>3
<1>8. /\ x = <<x[1], x[2]>> /\ x[1] \in Streams /\ x[2] \in Int
      /\ \E j \in 1 .. Len(tt[x[1]]) :
           x[2] = (oo[x[1]] - Len(tt[x[1]])) + j /\ Requires(s.t, tt[x[1]][j], r)
  BY Wants
<1>9. PICK j \in 1 .. Len(tt[x[1]]) :
        x[2] = (oo[x[1]] - Len(tt[x[1]])) + j /\ Requires(s.t, tt[x[1]][j], r)
  BY <1>8, Zenon
<1>10. ASSUME NEW i \in Streams, NEW k \in 1 .. Len(sections[i]), Requires(s.t, sections[i][k], r)
       PROVE  Requires(enc, sections[i][k], r)
  <2>1. PICK b : SectionOK(s.t, sections[i][k], r, b) BY <1>10, Zenon DEF Requires
  <2>2. SectionOK(enc, sections[i][k], r, b) BY <2>1, EarlierStay
  <2> QED BY <2>2, Zenon DEF Requires
<1>11. ASSUME NEW k \in 1 .. Len(sections[x[1]]),
              x[2] = (opened[x[1]] - Len(sections[x[1]])) + k,
              Requires(s.t, sections[x[1]][k], r)
       PROVE  x \in Wanting(enc, sections, opened, r)
  <2>1. Requires(enc, sections[x[1]][k], r) BY <1>8, <1>10, <1>11
  <2>2. \E l \in 1 .. Len(sections[x[1]]) :
          x[2] = (opened[x[1]] - Len(sections[x[1]])) + l /\ Requires(enc, sections[x[1]][l], r)
    BY <1>11, <2>1, Zenon
  <2> QED BY <1>8, <2>2, Wants
<1>12. CASE x[1] # id
  <2>1. tt[x[1]] = sections[x[1]] /\ oo[x[1]] = opened[x[1]] BY <1>6, <1>7, <1>8, <1>12, Zenon
  <2>2. x \in Wanting(enc, sections, opened, r) BY <1>9, <1>11, <2>1, Zenon
  <2> QED BY <2>2
<1>13. CASE x[1] = id
  <2> DEFINE m == Len(sections[id])
             o == opened[id]
  <2>1. j \in 1 .. (m + 1) /\ x[2] = ((o + 1) - (m + 1)) + j
        /\ Requires(s.t, Append(sections[id], sec)[j], r)
    BY <1>5, <1>6, <1>7, <1>9, <1>13, Zenon
  <2>2. m \in Nat /\ o \in Int BY <1>4, <1>7
  <2>3. CASE j \in 1 .. m
    <3>1. x[2] = (o - m) + j
      <4> HIDE DEF m, o
      <4> QED BY <2>1, <2>2, <2>3
    <3>2. Requires(s.t, sections[id][j], r) BY <1>5, <2>1, <2>3, Zenon
    <3>3. x \in Wanting(enc, sections, opened, r) BY <1>11, <1>13, <2>3, <3>1, <3>2, Zenon
    <3> QED BY <3>3
  <2>4. CASE j = m + 1
    <3>1. x[2] = o + 1
      <4> HIDE DEF m, o
      <4> QED BY <2>1, <2>2, <2>4
    <3>2. Requires(s.t, sec, r) BY <1>5, <2>1, <2>4, Zenon
    <3>3. PICK b : SectionOK(s.t, sec, r, b) BY <3>2, Zenon DEF Requires
    <3>4. \A k \in sec.refs : Live(s.t, k) BY RefsSent
    <3>5. r = s.required BY <1>3, <3>3, <3>4, RequiredOnce
    <3>6. x = <<id, opened[id] + 1>> BY <1>8, <1>13, <3>1, Zenon
    <3> QED BY <3>5, <3>6
  <2> QED BY <1>5, <2>1, <2>3, <2>4, Zenon
<1> QED BY <1>12, <1>13

(* A pair for each time r is counted.                                      *)
LEMMA PairIn ==
  ASSUME NEW b, NEW r \in DOMAIN b, NEW k \in 1 .. b[r]
  PROVE  <<r, k>> \in Pairs(b)
BY DEF Pairs

(* One more is counted.                                                    *)
LEMMA OnePair ==
  ASSUME NEW b \in Refs, NEW q \in Nat, IsFiniteSet(Pairs(b))
  PROVE  IsFiniteSet(Pairs(b (+) One(q)))
<1> DEFINE c == b (+) One(q)
           z == <<q, Count(q, b) + 1>>
<1>1. One(q) \in Refs /\ \A r : Count(r, One(q)) = IF r = q THEN 1 ELSE 0 BY OneRef
<1>2. c \in Refs /\ \A r : Count(r, c) = Count(r, b) + Count(r, One(q)) BY <1>1, RefsAdded
<1>3. \A r : Count(r, b) \in Nat /\ (BagIn(r, b) <=> r \in DOMAIN b) BY CountFacts
<1> HIDE DEF c
<1>4. \A r : BagIn(r, c) <=> r \in DOMAIN c BY <1>2, CountFacts
<1>5. ASSUME NEW p \in Pairs(c) PROVE p \in Pairs(b) \/ p = z
  <2>1. PICK r \in DOMAIN c : p \in {<<r, k>> : k \in 1 .. c[r]} BY Zenon DEF Pairs
  <2>2. PICK k \in 1 .. c[r] : p = <<r, k>> BY <2>1, Zenon
  <2>3. c[r] = Count(r, c) BY <1>4, <2>1, Zenon DEF Count
  <2>4. Count(r, c) = Count(r, b) + (IF r = q THEN 1 ELSE 0) BY <1>1, <1>2
  <2>5. Count(r, b) \in Nat BY <1>3
  <2>6. k \in 1 .. Count(r, b) \/ (r = q /\ k = Count(r, b) + 1) BY <2>2, <2>3, <2>4, <2>5
  <2>7. CASE k \in 1 .. Count(r, b)
    <3>1. r \in DOMAIN b /\ Count(r, b) = b[r]
      <4>1. Count(r, b) # 0 BY <2>5, <2>7
      <4> QED BY <1>3, <4>1, Zenon DEF Count
    <3> QED BY <2>2, <2>7, <3>1, PairIn
  <2>8. CASE r = q /\ k = Count(r, b) + 1 BY <2>2, <2>8
  <2> QED BY <2>6, <2>7, <2>8
<1>6. IsFiniteSet(Pairs(b) \cup {z}) BY FS_AddElement
<1>7. Pairs(c) \subseteq Pairs(b) \cup {z} BY <1>5
<1>8. IsFiniteSet(Pairs(c)) BY <1>6, <1>7, FS_Subset
<1> QED BY <1>8 DEF c

(* commit counts the stream as blocked unless the decoder is known to have *)
(* all.                                                                    *)
LEMMA EncodeCounts ==
  ASSUME Inv, Careful, WaitsCounted, NEW id \in Streams, NEW fs \in Lists, encode(id, fs)
  PROVE  WaitsCounted'
<1>1. Typing BY Zenon DEF Inv
<1>2. PICK s, sec : Encoded(id, s, sec) BY EncodeFacts, Zenon
<1> DEFINE tt == sections'
           oo == opened'
           known == largest_known_received
           b == blocked_streams
           c == blocked_streams'
           q == s.required
<1>3. /\ enc' = s.t /\ largest_known_received' = known /\ q \in Nat
      /\ c = (IF q <= known THEN b ELSE b (+) One(q))
  BY <1>2, Zenon DEF Encoded
<1>4. b \in Refs /\ known \in Nat BY <1>1, Zenon DEF Typing
<1>5. IsFiniteSet(Pairs(b)) /\ \A r \in Nat : known < r => Fits(Wanting(enc, sections, opened, r), Count(r, b))
  BY Zenon DEF WaitsCounted
<1>6. ASSUME NEW r \in Nat, NEW x \in Wanting(s.t, tt, oo, r)
      PROVE  \/ x \in Wanting(enc, sections, opened, r)
             \/ r = q /\ x = <<id, opened[id] + 1>>
  BY <1>2, EncodeWants
<1>7. One(q) \in Refs /\ \A r : Count(r, One(q)) = IF r = q THEN 1 ELSE 0 BY <1>3, OneRef
<1>8. \A r : Count(r, b (+) One(q)) = Count(r, b) + Count(r, One(q)) BY <1>4, <1>7, RefsAdded
<1>9. IsFiniteSet(Pairs(b (+) One(q))) BY <1>3, <1>4, <1>5, OnePair
<1> HIDE DEF tt, oo, known, b, c, q
<1>10. IsFiniteSet(Pairs(c)) BY <1>3, <1>5, <1>9, Zenon
<1>11. ASSUME NEW r \in Nat, known < r PROVE Fits(Wanting(s.t, tt, oo, r), Count(r, c))
  <2> DEFINE W == Wanting(enc, sections, opened, r)
             V == Wanting(s.t, tt, oo, r)
             n == Count(r, b)
             z == <<id, opened[id] + 1>>
  <2>1. Fits(W, n) BY <1>5, <1>11, Zenon
  <2>2. n \in Nat BY <1>4, CountFacts
  <2>3. \A x \in V : x \in W \/ (r = q /\ x = z) BY <1>6
  <2> HIDE DEF W, V, n, z
  <2>4. CASE q <= known
    <3>1. r # q BY <1>3, <1>4, <1>11, <2>4
    <3>2. V \subseteq W BY <2>3, <3>1
    <3>3. n <= n BY <2>2
    <3>4. Fits(V, n) BY <2>1, <2>2, <3>2, <3>3, FitsStill
    <3>5. c = b BY <1>3, <2>4, Zenon
    <3> QED BY <3>4, <3>5 DEF V, n
  <2>5. CASE ~(q <= known)
    <3>1. c = b (+) One(q) BY <1>3, <2>5, Zenon
    <3>2. Count(r, c) = n + (IF r = q THEN 1 ELSE 0) BY <1>7, <1>8, <3>1 DEF n
    <3>3. CASE r = q
      <4>1. V \subseteq W \cup {z} BY <2>3
      <4>2. Fits(V, n + 1) BY <2>1, <2>2, <4>1, FitsOneMore
      <4>3. Count(r, c) = n + 1 BY <3>2, <3>3
      <4> QED BY <4>2, <4>3 DEF V
    <3>4. CASE r # q
      <4>1. V \subseteq W BY <2>3, <3>4
      <4>2. n <= n BY <2>2
      <4>3. Fits(V, n) BY <2>1, <2>2, <4>1, <4>2, FitsStill
      <4>4. Count(r, c) = n BY <2>2, <3>2, <3>4
      <4> QED BY <4>3, <4>4 DEF V
    <3> QED BY <3>3, <3>4
  <2> QED BY <2>4, <2>5
<1> QED BY <1>3, <1>10, <1>11, Zenon DEF WaitsCounted, tt, oo, known, c

(* on_encoder_recv changes nothing the encoder knows.                      *)
LEMMA ReceiveCounts ==
  ASSUME Inv, WaitsCounted, NEW n, on_encoder_recv(n)
  PROVE  WaitsCounted'
<1>1. Typing BY Zenon DEF Inv
<1>2. /\ UNCHANGED <<enc, track_map, track_blocks, largest_known_received, blocked_streams>>
      /\ UNCHANGED <<sections, opened, cancelled>>
  BY Zenon DEF on_encoder_recv, encoder
<1>3. \A r \in Nat :
        Wanting(enc', sections', opened', r) \subseteq Wanting(enc, sections, opened, r)
  BY <1>2
<1> QED BY <1>1, <1>2, <1>3, CountedStill

(* Any step.                                                               *)
LEMMA NextCounts == ASSUME Careful, Inv, WaitsCounted, [Next]_vars PROVE WaitsCounted'
<1>1. CASE UNCHANGED vars
  <2>1. /\ UNCHANGED <<enc, track_map, track_blocks, largest_known_received, blocked_streams>>
        /\ UNCHANGED <<sections, opened>>
    BY <1>1 DEF vars, encoder
  <2>2. \A r \in Nat :
          Wanting(enc', sections', opened', r) \subseteq Wanting(enc, sections, opened, r)
    BY <2>1
  <2>3. Typing BY Zenon DEF Inv
  <2> QED BY <2>1, <2>2, <2>3, CountedStill
<1>2. CASE Next
  <2>1. CASE \E id \in Streams, fs \in Lists : encode(id, fs)
    <3>1. PICK id \in Streams, fs \in Lists : encode(id, fs) BY <2>1, Zenon
    <3> QED BY <3>1, EncodeCounts
  <2>2. CASE \E size \in Sizes : set_dynamic_table_size(size)
    <3>1. PICK size \in Sizes : set_dynamic_table_size(size) BY <2>2, Zenon
    <3> QED BY <3>1, ResizeCounts
  <2>3. CASE \E n \in 1 .. Len(encoder_stream) : on_encoder_recv(n)
    <3>1. PICK n \in 1 .. Len(encoder_stream) : on_encoder_recv(n) BY <2>3, Zenon
    <3> QED BY <3>1, ReceiveCounts
  <2>4. CASE on_decoder_recv BY <2>4, AnswersCount
  <2>5. CASE \E id \in Streams : decode_header(id) \/ stream_canceled(id)
    <3>1. PICK id \in Streams : decode_header(id) \/ stream_canceled(id) BY <2>5, Zenon
    <3>2. CASE decode_header(id) BY <3>2, DecodeCounts
    <3>3. CASE stream_canceled(id) BY <3>3, CancelStreamCounts
    <3> QED BY <3>1, <3>2, <3>3
  <2> QED BY <1>2, <2>1, <2>2, <2>3, <2>4, <2>5, Zenon DEF Next
<1> QED BY <1>1, <1>2, Zenon

(* Distinct numbers for the elements of S.                                 *)
Numbers(g, S, n) ==
  /\ \A x \in S : g[x] \in 1 .. n
  /\ \A x, y \in S : g[x] = g[y] => x = y

(* They exist when there are enough.                                       *)
LEMMA Numbered ==
  ASSUME NEW S, NEW n \in Nat, Fits(S, n)
  PROVE  \E g : Numbers(g, S, n)
<1> DEFINE c == Cardinality(S)
<1>1. IsFiniteSet(S) /\ c <= n BY DEF Fits
<1>2. c \in Nat /\ ExistsBijection(1 .. c, S) BY <1>1, FS_CardinalityType
<1>3. PICK f : f \in [1 .. c -> S] /\ \A x \in S : \E k \in 1 .. c : f[k] = x
  BY <1>2 DEF ExistsBijection, Bijection, Surjection
<1> HIDE DEF c
<1> DEFINE At(x) == CHOOSE k \in 1 .. c : f[k] = x
           g == [x \in S |-> At(x)]
<1>4. ASSUME NEW x \in S PROVE At(x) \in 1 .. c /\ f[At(x)] = x
  BY <1>3, Zenon
<1>5. \A x \in S : g[x] = At(x) OBVIOUS
<1> HIDE DEF g, At
<1>6. ASSUME NEW x \in S PROVE g[x] \in 1 .. n
  <2>1. g[x] \in 1 .. c BY <1>4, <1>5, Zenon
  <2> QED BY <1>1, <1>2, <2>1
<1>7. ASSUME NEW x \in S, NEW y \in S, g[x] = g[y] PROVE x = y
  <2>1. f[g[x]] = x /\ f[g[y]] = y BY <1>4, <1>5, Zenon
  <2> QED BY <1>7, <2>1
<1> QED BY <1>6, <1>7, Zenon DEF Numbers

(* A stream that waits does so for a section that is counted.              *)
LEMMA WaitsFor ==
  ASSUME Inv, NEW id \in Waiting
  PROVE  /\ id \in Streams /\ Needs(Head(sections[id])) \in Nat
         /\ largest_known_received < Needs(Head(sections[id]))
         /\ <<id, (opened[id] - Len(sections[id])) + 1>>
              \in Wanting(enc, sections, opened, Needs(Head(sections[id])))
<1> DEFINE q == Needs(Head(sections[id]))
           x == <<id, (opened[id] - Len(sections[id])) + 1>>
<1>1. id \in Streams /\ sections[id] # <<>> /\ Missing(Head(sections[id])) BY DEF Waiting
<1>2. Typing /\ Supported(enc, sections[id])
      /\ Walk(decoder_stream, Counting, largest_known_received, total_inserted(dec))
  BY <1>1, Zenon DEF Inv
<1>3. Len(sections[id]) \in Nat /\ Len(sections[id]) >= 1 /\ Head(sections[id]) = sections[id][1]
  BY <1>1, <1>2, QueueFacts, Shorter
<1>4. 1 \in 1 .. Len(sections[id]) BY <1>3
<1>5. PICK p, b : SectionOK(enc, sections[id][1], p, b) BY <1>2, <1>4, Zenon DEF Supported
<1>6. p \in Nat /\ Needs(sections[id][1]) = p BY <1>1, <1>4, <1>5, NeedsIs
<1>7. q = p BY <1>3, <1>6
<1>8. decoder_stream \in Seq(Answers) /\ opened \in [Streams -> 0 .. MaxSections]
  BY <1>2, Zenon DEF Typing
<1>9. /\ largest_known_received \in Nat /\ total_inserted(dec) \in Nat
      /\ largest_known_received <= total_inserted(dec)
  BY <1>2, <1>8, CountingRises
<1>10. q > total_inserted(dec) BY <1>1, <1>6, <1>7 DEF Missing
<1> HIDE DEF q
<1>11. largest_known_received < q BY <1>6, <1>7, <1>9, <1>10
<1>12. opened[id] \in Int
  <2>1. MaxSections \in Nat BY BoundsAssumption, Zenon
  <2>2. opened[id] \in 0 .. MaxSections BY <1>1, <1>8
  <2> QED BY <2>1, <2>2
<1>13. x[1] = id /\ x[2] = (opened[id] - Len(sections[id])) + 1 /\ x = <<x[1], x[2]>> /\ x[2] \in Int
  BY <1>3, <1>12
<1>14. Requires(enc, sections[id][1], q) BY <1>5, <1>7, Zenon DEF Requires
<1>15. \E j \in 1 .. Len(sections[x[1]]) :
         x[2] = (opened[x[1]] - Len(sections[x[1]])) + j /\ Requires(enc, sections[x[1]][j], q)
  BY <1>4, <1>13, <1>14, Zenon
<1> HIDE DEF x
<1>16. x \in Wanting(enc, sections, opened, q) BY <1>1, <1>13, <1>15, Wants
<1> QED BY <1>1, <1>6, <1>7, <1>11, <1>16 DEF q, x

(* The streams that wait are no more than blocked_count.                   *)
LEMMA BlockedFollows == ASSUME Inv, WaitsCounted PROVE BlockedAreCounted
<1> DEFINE b == blocked_streams
           W(r) == Wanting(enc, sections, opened, r)
           q(id) == Needs(Head(sections[id]))
           w(id) == <<id, (opened[id] - Len(sections[id])) + 1>>
           number(r) == CHOOSE g : Numbers(g, W(r), Count(r, b))
           F == [id \in Waiting |-> <<q(id), number(q(id))[w(id)]>>]
<1>1. b \in Refs BY Zenon DEF Inv, Typing
<1>2. ASSUME NEW id \in Waiting
      PROVE  q(id) \in Nat /\ largest_known_received < q(id) /\ w(id) \in W(q(id))
  BY WaitsFor
<1>3. ASSUME NEW r \in Nat, largest_known_received < r
      PROVE  Numbers(number(r), W(r), Count(r, b))
  <2>1. Fits(W(r), Count(r, b)) BY <1>3, Zenon DEF WaitsCounted
  <2>2. Count(r, b) \in Nat BY <1>1, CountFacts
  <2> HIDE DEF W, b
  <2>3. \E g : Numbers(g, W(r), Count(r, b)) BY <2>1, <2>2, Numbered
  <2> QED BY <2>3, Zenon
<1>4. \A i, j : w(i) = w(j) => i = j OBVIOUS
<1> HIDE DEF W, q, w, number
<1>5. ASSUME NEW id \in Waiting PROVE number(q(id))[w(id)] \in 1 .. Count(q(id), b)
  <2>1. q(id) \in Nat /\ largest_known_received < q(id) /\ w(id) \in W(q(id)) BY <1>2
  <2>2. Numbers(number(q(id)), W(q(id)), Count(q(id), b)) BY <1>3, <2>1
  <2> QED BY <2>1, <2>2, Zenon DEF Numbers
<1>6. ASSUME NEW id \in Waiting PROVE <<q(id), number(q(id))[w(id)]>> \in Pairs(b)
  <2> DEFINE k == number(q(id))[w(id)]
  <2>1. k \in 1 .. Count(q(id), b) BY <1>5
  <2>2. Count(q(id), b) \in Nat BY <1>1, CountFacts
  <2> HIDE DEF k
  <2>3. Count(q(id), b) > 0 BY <2>1, <2>2
  <2>4. BagIn(q(id), b) /\ q(id) \in DOMAIN b BY <1>1, <2>3, CountFacts
  <2>5. Count(q(id), b) = b[q(id)] BY <2>4, Zenon DEF Count
  <2>6. k \in 1 .. b[q(id)] BY <2>1, <2>5
  <2> HIDE DEF b
  <2>7. <<q(id), k>> \in Pairs(b) BY <2>4, <2>6, PairIn
  <2> QED BY <2>7 DEF k
<1>7. F \in [Waiting -> Pairs(b)] BY <1>6
<1>8. ASSUME NEW i \in Waiting, NEW j \in Waiting, F[i] = F[j] PROVE i = j
  <2>1. q(i) = q(j) /\ number(q(i))[w(i)] = number(q(j))[w(j)] BY <1>8
  <2>2. q(i) \in Nat /\ largest_known_received < q(i) /\ w(i) \in W(q(i)) BY <1>2
  <2>3. w(j) \in W(q(j)) BY <1>2
  <2>4. Numbers(number(q(i)), W(q(i)), Count(q(i), b)) BY <1>3, <2>2
  <2>5. w(i) = w(j) BY <2>1, <2>2, <2>3, <2>4, Zenon DEF Numbers
  <2> QED BY <1>4, <2>5, Zenon
<1> HIDE DEF F
<1>9. F \in Injection(Waiting, Pairs(b)) BY <1>7, <1>8, Fun_IsInj
<1>10. IsFiniteSet(Pairs(b)) BY Zenon DEF WaitsCounted
<1>11. Cardinality(Waiting) <= Cardinality(Pairs(b)) BY <1>9, <1>10, FS_Injection
<1>12. blocked_count = Cardinality(Pairs(b)) BY DEF blocked_count, Pairs
<1>13. encoder_stream = <<>> => Waiting = {} BY WaitingFollows
<1> QED BY <1>11, <1>12, <1>13 DEF BlockedAreCounted

(* Both hold.                                                              *)
LEMMA CountedInvariant == ASSUME Careful, Small PROVE Spec => [](Inv /\ WaitsCounted)
<1>1. Init => Inv /\ WaitsCounted BY InitInv, InitCounted
<1>2. Inv /\ WaitsCounted /\ [Next]_vars => (Inv /\ WaitsCounted)' BY NextKeeps, NextCounts
<1> QED BY <1>1, <1>2, PTL DEF Spec

-----------------------------------------------------------------------------
(***************************************************************************)
(* The theorems.                                                           *)
(***************************************************************************)
(* The tables are within their size and count it right, the bags of        *)
(* references are bags, and Encoder and Decoder know of each other no more *)
(* than there is.                                                          *)
THEOREM TypeCorrect == ASSUME Careful, Small PROVE Spec => []TypeOK
<1> QED BY Invariant, TypeFollows, PTL

(* The decoder's table, with the instructions on their way applied by      *)
(* on_encoder_recv, is the encoder's: the two evict the same entries,      *)
(* although can_free looks at what is tracked and only the encoder tracks  *)
(* anything.                                                               *)
THEOREM BothTablesAgree == ASSUME Careful, Small PROVE Spec => []TablesAgree
<1> QED BY Invariant, AgreementFollows, PTL

(* decode_header returns the fields that encode was given, whatever was    *)
(* inserted and evicted on either side since, and no error or panic ends   *)
(* the connection.                                                         *)
THEOREM WhatIsDecodedWasEncoded == ASSUME Careful, Small PROVE Spec => []DecodesToOriginal
<1> QED BY Invariant, DecodingFollows, PTL

(* track_map counts the references of the sections that are not            *)
(* acknowledged, no more and no fewer, through commit, untrack_block and   *)
(* stream_cancel, and an entry a section still refers to is not evicted.   *)
THEOREM OutstandingIsTracked == ASSUME Careful, Small PROVE Spec => []TracksOutstanding
<1> QED BY Invariant, TrackingFollows, PTL

(* No more streams wait for insertions than blocked_count says, and none   *)
(* when the decoder has seen every instruction.                            *)
THEOREM WaitingIsCounted == ASSUME Careful, Small PROVE Spec => []BlockedAreCounted
<1>1. Inv /\ WaitsCounted => BlockedAreCounted BY BlockedFollows
<1> QED BY CountedInvariant, <1>1, PTL
=============================================================================
