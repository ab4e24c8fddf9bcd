-------------------------------- MODULE Sums --------------------------------
(***************************************************************************)
(* The place of a packet in a buffer, as the plugins of wmb_asm compute it *)
(* in a loop: the sum of the sizes of those before it.                     *)
(***************************************************************************)
EXTENDS Integers, WellFoundedInduction, TLAPS

\* for(i=0; i<n; i++) sum+= sizes[i];
SumTo(sizes, n) ==
    LET sum[i \in 0 .. n] == IF i = 0 THEN 0 ELSE sum[i - 1] + sizes[i - 1]
    IN  sum[n]

-----------------------------------------------------------------------------

\* More blocks are not fewer bytes.
LEMMA MulMonotone ==
    ASSUME NEW i \in Int, NEW j \in Int, NEW b \in Nat, i <= j
    PROVE  i * b \in Int /\ j * b \in Int /\ i * b <= j * b
<1>1. (j - i) * b >= 0
    OBVIOUS
<1>2. (j - i) * b = j * b - i * b
    OBVIOUS
<1> QED  BY <1>1, <1>2

\* One block more or less.
LEMMA OneMore ==
    ASSUME NEW i \in Int, NEW b \in Int
    PROVE  (i + 1) * b = i * b + b /\ (i - 1) * b = i * b - b /\ i * b \in Int
OBVIOUS

\* Packets of b bytes for a bytes: all but the last one are full.
LEMMA QuotientCovers ==
    ASSUME NEW a \in Nat \ {0}, NEW b \in Nat \ {0}
    PROVE  /\ (a + b - 1) \div b \in Nat \ {0}
           /\ ((a + b - 1) \div b - 1) * b < a /\ a <= ((a + b - 1) \div b) * b
<1> DEFINE d == (a + b - 1) \div b
<1>1. a + b - 1 \in Nat
    OBVIOUS
<1>2. d \in Nat /\ d * b <= a + b - 1 /\ a + b - 1 < d * b + b
    BY <1>1
<1>3. d # 0
    BY <1>2
<1> HIDE DEF d
<1>4. (d - 1) * b = d * b - b /\ d * b \in Int
    BY <1>2, OneMore
<1>5. d \in Nat \ {0} /\ (d - 1) * b < a /\ a <= d * b
    <2> DEFINE m == d * b
    <2>1. m \in Int /\ (d - 1) * b = m - b /\ m <= a + b - 1 /\ a + b - 1 < m + b
        BY <1>2, <1>4
    <2> HIDE DEF m
    <2>2. m - b < a /\ a <= m
        BY <2>1
    <2> QED  BY <1>2, <1>3, <2>1, <2>2 DEF m
<1> QED  BY <1>5 DEF d

\* Every set of natural numbers has a least one: what inductions here rest on.
LEMMA LeastNumber ==
    ASSUME NEW S, S \subseteq Nat, S # {}
    PROVE  \E x \in S : \A y \in S : x <= y
<1>1. PICK x \in S : \A y \in S : ~(<<y, x>> \in OpToRel(<, Nat))
    BY WFMin, NatLessThanWellFounded, Zenon
<1>2. \A y \in S : ~(y < x)
    <2> SUFFICES ASSUME NEW y \in S, y < x PROVE FALSE
        OBVIOUS
    <2>1. y \in Nat /\ x \in Nat
        OBVIOUS
    <2>2. <<y, x>> \in OpToRel(<, Nat)
        BY <2>1 DEF OpToRel
    <2> QED  BY <1>1, <2>2, Zenon
<1> QED  BY <1>2

\* The loop up to m.
Steps(sizes, s, m) == s = [i \in 0 .. m |-> IF i = 0 THEN 0 ELSE s[i - 1] + sizes[i - 1]]

\* A run of the loop goes on for one step more.
LEMMA OneStepMore ==
    ASSUME NEW m \in Nat \ {0}, NEW sizes, NEW s, Steps(sizes, s, m - 1)
    PROVE  \E t : Steps(sizes, t, m)
<1> DEFINE t == [i \in 0 .. m |-> IF i = m THEN s[m - 1] + sizes[m - 1] ELSE s[i]]
<1>1. DOMAIN t = 0 .. m /\ t = [i \in 0 .. m |-> t[i]]
    OBVIOUS
<1>2. \A i \in 0 .. m : t[i] = IF i = m THEN s[m - 1] + sizes[m - 1] ELSE s[i]
    OBVIOUS
<1>3. \A i \in 0 .. m - 1 : s[i] = IF i = 0 THEN 0 ELSE s[i - 1] + sizes[i - 1]
    BY DEF Steps
<1> HIDE DEF t
<1>4. \A i \in 0 .. m : t[i] = IF i = 0 THEN 0 ELSE t[i - 1] + sizes[i - 1]
    <2> SUFFICES ASSUME NEW i \in 0 .. m
                 PROVE  t[i] = IF i = 0 THEN 0 ELSE t[i - 1] + sizes[i - 1]
        OBVIOUS
    <2>1. CASE i = m
        <3>1. i - 1 \in 0 .. m /\ i - 1 # m /\ i # 0
            BY <2>1
        <3> QED  BY <1>2, <2>1, <3>1
    <2>2. CASE i # m /\ i # 0
        <3>1. i \in 0 .. m - 1 /\ i - 1 \in 0 .. m /\ i - 1 # m
            BY <2>2
        <3> QED  BY <1>2, <1>3, <2>2, <3>1
    <2>3. CASE i # m /\ i = 0
        <3>1. i \in 0 .. m - 1
            BY <2>3
        <3> QED  BY <1>2, <1>3, <2>3, <3>1
    <2> QED  BY <2>1, <2>2, <2>3
<1>5. Steps(sizes, t, m)
    <2>1. [i \in 0 .. m |-> t[i]] = [i \in 0 .. m |-> IF i = 0 THEN 0 ELSE t[i - 1] + sizes[i - 1]]
        BY <1>4
    <2> QED  BY <1>1, <2>1, Zenon DEF Steps
<1> QED  BY <1>5

\* The recursive function exists.
LEMMA LoopExists ==
    ASSUME NEW n \in Nat, NEW sizes
    PROVE  \E s : Steps(sizes, s, n)
<1> DEFINE Bad == {m \in Nat : ~\E s : Steps(sizes, s, m)}
<1>1. SUFFICES Bad = {}
    OBVIOUS
<1>2. SUFFICES ASSUME Bad # {} PROVE FALSE
    OBVIOUS
<1>3. Bad \subseteq Nat
    OBVIOUS
<1>4. \A m : m \in Bad <=> m \in Nat /\ ~\E s : Steps(sizes, s, m)
    OBVIOUS
<1> HIDE DEF Bad
<1>5. PICK m \in Bad : \A k \in Bad : m <= k
    BY <1>2, <1>3, LeastNumber
<1>6. m # 0
    <2>1. Steps(sizes, [i \in 0 .. 0 |-> 0], 0)
        BY DEF Steps
    <2> QED  BY <1>4, <1>5, <2>1
<1>7. m - 1 \in Nat /\ m - 1 \notin Bad
    BY <1>3, <1>5, <1>6
<1>8. PICK s : Steps(sizes, s, m - 1)
    BY <1>4, <1>7
<1>9. m \in Nat \ {0}
    BY <1>3, <1>5, <1>6
<1> QED  BY <1>4, <1>5, <1>8, <1>9, OneStepMore

\* The loop adds one size after another.
LEMMA SumSteps ==
    ASSUME NEW n \in Nat, NEW sizes, \A i \in 0 .. n - 1 : sizes[i] \in Int
    PROVE  \E s \in [0 .. n -> Int] :
              /\ s[0] = 0 /\ \A i \in 1 .. n : s[i] = s[i - 1] + sizes[i - 1]
              /\ SumTo(sizes, n) = s[n]
<1> DEFINE s == CHOOSE u : Steps(sizes, u, n)
<1>1. Steps(sizes, s, n)
    BY LoopExists, Zenon
<1>2. SumTo(sizes, n) = s[n]
    BY DEF SumTo, Steps
<1> HIDE DEF s
<1>3. /\ DOMAIN s = 0 .. n /\ s = [i \in 0 .. n |-> s[i]]
      /\ s[0] = 0 /\ \A i \in 1 .. n : s[i] = s[i - 1] + sizes[i - 1]
    <2> DEFINE f == [i \in 0 .. n |-> IF i = 0 THEN 0 ELSE s[i - 1] + sizes[i - 1]]
    <2>1. /\ DOMAIN f = 0 .. n /\ f = [i \in 0 .. n |-> f[i]]
          /\ f[0] = 0 /\ \A i \in 1 .. n : f[i] = s[i - 1] + sizes[i - 1]
        OBVIOUS
    <2>2. s = f
        BY <1>1 DEF Steps
    <2> HIDE DEF f
    <2> QED  BY <2>1, <2>2
<1> DEFINE Bad == {i \in 0 .. n : s[i] \notin Int}
<1>4. Bad = {}
    <2> SUFFICES ASSUME Bad # {} PROVE FALSE
        OBVIOUS
    <2>1. Bad \subseteq Nat /\ \A i : i \in Bad <=> i \in 0 .. n /\ s[i] \notin Int
        OBVIOUS
    <2> HIDE DEF Bad
    <2>2. PICK i \in Bad : \A k \in Bad : i <= k
        BY <2>1, LeastNumber
    <2>3. i \in 1 .. n
        BY <1>3, <2>1
    <2>4. i - 1 \in 0 .. n - 1 /\ i - 1 \notin Bad
        BY <2>1, <2>2, <2>3
    <2>5. s[i - 1] \in Int /\ sizes[i - 1] \in Int
        BY <2>1, <2>4
    <2>6. s[i] = s[i - 1] + sizes[i - 1]
        BY <1>3, <2>3
    <2>7. s[i] \in Int
        BY <2>5, <2>6
    <2> QED  BY <2>1, <2>2, <2>7
<1>5. s \in [0 .. n -> Int]
    BY <1>3, <1>4
<1> QED  BY <1>2, <1>3, <1>5

\* A table of places fits the sizes: the loop gives the last of them.
LEMMA SumIs ==
    ASSUME NEW n \in Nat, NEW sizes, NEW place \in [0 .. n -> Int], place[0] = 0,
           \A i \in 0 .. n - 1 : sizes[i] \in Int /\ place[i + 1] = place[i] + sizes[i]
    PROVE  SumTo(sizes, n) = place[n]
<1>1. PICK s \in [0 .. n -> Int] :
           /\ s[0] = 0 /\ \A i \in 1 .. n : s[i] = s[i - 1] + sizes[i - 1]
           /\ SumTo(sizes, n) = s[n]
    BY SumSteps
<1> DEFINE Bad == {i \in 0 .. n : s[i] # place[i]}
<1>2. Bad = {}
    <2> SUFFICES ASSUME Bad # {} PROVE FALSE
        OBVIOUS
    <2>1. Bad \subseteq Nat /\ \A i : i \in Bad <=> i \in 0 .. n /\ s[i] # place[i]
        OBVIOUS
    <2> HIDE DEF Bad
    <2>2. PICK i \in Bad : \A k \in Bad : i <= k
        BY <2>1, LeastNumber
    <2>3. i \in 1 .. n
        BY <1>1, <2>1
    <2>4. i - 1 \in 0 .. n - 1 /\ i - 1 \notin Bad /\ i - 1 + 1 = i
        BY <2>1, <2>2, <2>3
    <2>5. place[i] = place[i - 1] + sizes[i - 1]
        BY <2>4
    <2>6. s[i - 1] = place[i - 1]
        <3>1. i - 1 \in 0 .. n
            BY <2>4
        <3> QED  BY <2>1, <2>4, <3>1, Zenon
    <2>7. s[i] = place[i]
        BY <1>1, <2>3, <2>5, <2>6
    <2> QED  BY <2>1, <2>2, <2>7
<1>3. n \in 0 .. n
    OBVIOUS
<1> QED  BY <1>1, <1>2, <1>3

\* Packets of at most p bytes each.
LEMMA SumAtMost ==
    ASSUME NEW n \in Nat, NEW sizes, NEW p \in Nat, \A i \in 0 .. n - 1 : sizes[i] \in 0 .. p
    PROVE  SumTo(sizes, n) \in 0 .. n * p
<1>1. PICK s \in [0 .. n -> Int] :
           /\ s[0] = 0 /\ \A i \in 1 .. n : s[i] = s[i - 1] + sizes[i - 1]
           /\ SumTo(sizes, n) = s[n]
    <2>1. \A i \in 0 .. n - 1 : sizes[i] \in Int
        OBVIOUS
    <2> QED  BY <2>1, SumSteps
<1> DEFINE Bad == {i \in 0 .. n : ~(0 <= s[i] /\ s[i] <= i * p)}
<1>2. Bad = {}
    <2> SUFFICES ASSUME Bad # {} PROVE FALSE
        OBVIOUS
    <2>1. /\ Bad \subseteq Nat
          /\ \A i : i \in Bad <=> i \in 0 .. n /\ ~(0 <= s[i] /\ s[i] <= i * p)
        OBVIOUS
    <2> HIDE DEF Bad
    <2>2. PICK i \in Bad : \A k \in Bad : i <= k
        BY <2>1, LeastNumber
    <2>3. i \in 1 .. n
        BY <1>1, <2>1
    <2>4. i - 1 \in 0 .. n - 1 /\ i - 1 \notin Bad
        BY <2>1, <2>2, <2>3
    <2>5. 0 <= s[i - 1] /\ s[i - 1] <= (i - 1) * p /\ sizes[i - 1] \in 0 .. p
        <3>1. i - 1 \in 0 .. n
            BY <2>4
        <3>2. 0 <= s[i - 1] /\ s[i - 1] <= (i - 1) * p
            BY <2>1, <2>4, <3>1, Zenon
        <3> QED  BY <2>4, <3>2, Zenon
    <2>6. (i - 1) * p + p = i * p
        BY <2>3
    <2>7. s[i] = s[i - 1] + sizes[i - 1] /\ s[i - 1] \in Int
        BY <1>1, <2>3, <2>4
    <2>8. 0 <= s[i] /\ s[i] <= i * p
        <3> DEFINE q == i * p
                   r == (i - 1) * p
        <3>1. q \in Int /\ r \in Int /\ r + p = q /\ s[i - 1] <= r
            BY <2>3, <2>5, <2>6
        <3> HIDE DEF q, r
        <3>2. 0 <= s[i] /\ s[i] <= q
            BY <2>5, <2>7, <3>1
        <3> QED  BY <3>2 DEF q
    <2> QED  BY <2>1, <2>8
<1>3. 0 <= s[n] /\ s[n] <= n * p /\ s[n] \in Int /\ n * p \in Int
    BY <1>1, <1>2
<1> QED  BY <1>1, <1>3
=============================================================================
