---------------------------- MODULE WmbDataProof ----------------------------
(***************************************************************************)
(* Proofs about WmbData, for binaries and packets of any size: what holds  *)
(* of every capture of a transfer, and that a steady one gives the program *)
(* that Download promises.                                                 *)
(***************************************************************************)
EXTENDS WmbData, FiniteSetTheorems

Count(h) == Packets9(h) + Blocks(h.arm7, BlockOf(h))

\* No packet of the transfer has a size the plugin takes for something else.
Regular(h) ==
    /\ ~h.short => Size(h, 1) # Q
    /\ \A k \in Packets(h) : Size(h, k) # R

-----------------------------------------------------------------------------
(* Arithmetic of packets *)

\* The blocks of a binary: all but the last one are full.
LEMMA BlocksCover ==
    ASSUME NEW a \in Nat \ {0}, NEW b \in Nat \ {0}
    PROVE  /\ Blocks(a, b) \in Nat \ {0}
           /\ (Blocks(a, b) - 1) * b < a /\ a <= Blocks(a, b) * b
BY QuotientCovers DEF Blocks

\* Blocks that are full need no rounding.
LEMMA FullBlocks ==
    ASSUME NEW a \in Nat \ {0}, NEW b \in Nat \ {0}, a % b = 0
    PROVE  Blocks(a, b) = a \div b /\ a = Blocks(a, b) * b
<1> DEFINE d == a \div b
           n == Blocks(a, b)
<1>1. d \in Nat /\ d * b = a
    OBVIOUS
<1>2. n \in Nat \ {0} /\ (n - 1) * b < a /\ a <= n * b
    BY BlocksCover
<1> HIDE DEF d, n
<1>3. n = d
    <2>1. CASE n < d
        BY <1>1, <1>2, <2>1, MulMonotone
    <2>2. CASE n > d
        <3>1. d <= n - 1 /\ n - 1 \in Int
            BY <1>1, <1>2, <2>2
        <3>2. d * b <= (n - 1) * b /\ d * b \in Int /\ (n - 1) * b \in Int
            BY <1>1, <3>1, MulMonotone
        <3> QED  BY <1>1, <1>2, <3>2
    <2>3. CASE n = d
        BY <2>3
    <2> QED  BY <1>1, <1>2, <2>1, <2>2, <2>3
<1> QED  BY <1>1, <1>3 DEF n, d

LEMMA FewerBlocks ==
    ASSUME NEW a \in Nat \ {0}, NEW b \in Nat \ {0}, NEW c \in Nat \ {0}, b <= c
    PROVE  Blocks(a, c) <= Blocks(a, b) /\ a \div c <= Blocks(a, b)
<1> DEFINE n == Blocks(a, b)
           m == Blocks(a, c)
           d == a \div c
<1>1. /\ n \in Nat \ {0} /\ (n - 1) * b < a /\ a <= n * b
      /\ m \in Nat \ {0} /\ (m - 1) * c < a /\ a <= m * c
    BY BlocksCover
<1>2. d \in Nat /\ d * c <= a
    OBVIOUS
<1> HIDE DEF n, m, d
<1>3. n * b <= n * c /\ n * b \in Int /\ n * c \in Int
    <2>1. b * n <= c * n /\ b * n \in Int /\ c * n \in Int
        BY <1>1, MulMonotone
    <2> QED  BY <1>1, <2>1
<1>4. m <= n
    <2> SUFFICES ASSUME n <= m - 1 PROVE FALSE
        BY <1>1
    <2>1. n * c <= (m - 1) * c /\ (m - 1) * c \in Int
        BY <1>1, MulMonotone
    <2> QED  BY <1>1, <1>3, <2>1
<1>5. d <= n
    <2> SUFFICES ASSUME n <= d - 1 PROVE FALSE
        BY <1>1, <1>2
    <2>1. n * c <= (d - 1) * c /\ (d - 1) * c \in Int
        BY <1>1, <1>2, MulMonotone
    <2>2. (d - 1) * c = d * c - c /\ d * c \in Int
        BY <1>2, OneMore
    <2> DEFINE p == n * b
               q == n * c
               r == (d - 1) * c
               s == d * c
    <2>3. /\ p \in Int /\ q \in Int /\ r \in Int /\ s \in Int
          /\ a <= p /\ p <= q /\ q <= r /\ r = s - c /\ s <= a
        BY <1>1, <1>2, <1>3, <2>1, <2>2
    <2> HIDE DEF p, q, r, s
    <2> QED  BY <2>3
<1> QED  BY <1>4, <1>5 DEF n, m, d

-----------------------------------------------------------------------------
(* The packets of a host, one behind the other *)

LEMMA HostType ==
    ASSUME NEW h \in Hosts
    PROVE  /\ h.arm9 \in Nat \ {0} /\ h.arm7 \in Nat \ {0} /\ h.short \in BOOLEAN
           /\ BlockOf(h) \in Nat \ {0} /\ BlockOf(h) <= P /\ R < BlockOf(h)
           /\ Packets9(h) \in Nat \ {0} /\ Count(h) \in Nat /\ Count(h) > Packets9(h)
           /\ (Packets9(h) - 1) * BlockOf(h) < h.arm9 /\ h.arm9 <= Packets9(h) * BlockOf(h)
           /\ (Count(h) - Packets9(h) - 1) * BlockOf(h) < h.arm7
           /\ h.arm7 <= (Count(h) - Packets9(h)) * BlockOf(h)
           /\ Packets(h) = 1 .. Count(h) /\ Seqs(h) = 0 .. Count(h)
           /\ Total(h) \in Nat /\ Total(h) = h.arm9 + h.arm7
<1> USE WmbDataConstants
<1>1. h.arm9 \in Nat \ {0} /\ h.arm7 \in Nat \ {0} /\ h.short \in BOOLEAN
    OBVIOUS
<1>2. BlockOf(h) \in Nat \ {0} /\ BlockOf(h) <= P /\ R < BlockOf(h)
    BY DEF BlockOf
<1> DEFINE n == Packets9(h)
           m == Blocks(h.arm7, BlockOf(h))
<1>3. /\ n \in Nat \ {0}
      /\ (n - 1) * BlockOf(h) < h.arm9 /\ h.arm9 <= n * BlockOf(h)
    BY <1>1, <1>2, BlocksCover DEF Packets9
<1>4. /\ m \in Nat \ {0}
      /\ (m - 1) * BlockOf(h) < h.arm7 /\ h.arm7 <= m * BlockOf(h)
    BY <1>1, <1>2, BlocksCover
<1>5. Count(h) = n + m /\ Packets(h) = 1 .. n + m
    BY DEF Count, Packets
<1> HIDE DEF n, m
<1>6. Count(h) - n = m /\ Count(h) - n - 1 = m - 1 /\ Count(h) \in Nat /\ Count(h) > n
    BY <1>3, <1>4, <1>5
<1>7. Cardinality(Packets(h)) = Count(h)
    BY <1>3, <1>4, <1>5, FS_Interval
<1>8. Packets(h) = 1 .. Count(h) /\ Seqs(h) = 0 .. Count(h)
    BY <1>5, <1>7 DEF Seqs
<1>9. Total(h) \in Nat /\ Total(h) = h.arm9 + h.arm7
    BY <1>1 DEF Total
<1>10. /\ (Count(h) - n - 1) * BlockOf(h) < h.arm7
       /\ h.arm7 <= (Count(h) - n) * BlockOf(h)
    BY <1>4, <1>6, Zenon
<1> QED  BY <1>1, <1>2, <1>3, <1>6, <1>8, <1>9, <1>10, Zenon DEF n

\* The same, of numbers alone.
LEMMA CountType ==
    ASSUME NEW h \in Hosts
    PROVE  /\ Packets(h) = 1 .. Count(h) /\ Seqs(h) = 0 .. Count(h)
           /\ Count(h) \in Nat /\ Packets9(h) \in Nat \ {0} /\ Count(h) > Packets9(h)
           /\ BlockOf(h) \in Nat \ {0} /\ Total(h) \in Nat
BY HostType, Zenon

\* Where packets are and how they follow each other.
LEMMA PacketPlace ==
    ASSUME NEW h \in Hosts, NEW k \in Packets(h)
    PROVE  /\ Start(h, k) \in Nat /\ Size(h, k) \in 1 .. BlockOf(h)
           /\ Start(h, k) + Size(h, k) <= Total(h)
           /\ k <= Packets9(h) => Start(h, k) + Size(h, k) <= h.arm9
           /\ k > Packets9(h) => Start(h, k) >= h.arm9
           /\ k < Packets9(h) => Start(h, k) + Size(h, k) < h.arm9
           /\ k = Packets9(h) => Start(h, k) + Size(h, k) = h.arm9
           /\ k # Packets9(h) /\ k # Count(h) => Size(h, k) = BlockOf(h)
           /\ k = Count(h) <=> Start(h, k) + Size(h, k) = Total(h)
           /\ k # Count(h) => k + 1 \in Packets(h) /\ Start(h, k + 1) = Start(h, k) + Size(h, k)
<1> DEFINE b == BlockOf(h)
           n == Packets9(h)
           c == Count(h)
           A == h.arm9
           T == Total(h)
<1>1. /\ A \in Nat \ {0} /\ h.arm7 \in Nat \ {0} /\ T = A + h.arm7 /\ b \in Nat \ {0}
      /\ n \in Nat \ {0} /\ c \in Nat /\ c > n /\ k \in 1 .. c
      /\ (n - 1) * b < A /\ A <= n * b
      /\ (c - n - 1) * b < h.arm7 /\ h.arm7 <= (c - n) * b
      /\ Packets(h) = 1 .. c
    BY HostType
<1>2. /\ Start(h, k) = IF k <= n THEN (k - 1) * b ELSE A + (k - n - 1) * b
      /\ Start(h, k + 1) = IF k + 1 <= n THEN k * b ELSE A + (k - n) * b
      /\ Size(h, k) = LET rest == (IF k <= n THEN A ELSE T) - Start(h, k)
                      IN  IF rest < b THEN rest ELSE b
    <2>1. (k + 1) - 1 = k /\ (k + 1) - n - 1 = k - n
        BY <1>1
    <2>2. /\ Start(h, k) = IF k <= n THEN (k - 1) * b ELSE A + (k - n - 1) * b
          /\ Start(h, k + 1) = IF k + 1 <= n THEN ((k + 1) - 1) * b ELSE A + ((k + 1) - n - 1) * b
        BY DEF Start
    <2>3. Size(h, k) = LET rest == (IF k <= n THEN A ELSE T) - Start(h, k)
                       IN  IF rest < b THEN rest ELSE b
        BY DEF Size
    <2> HIDE DEF b, n, A, T
    <2> QED  BY <2>1, <2>2, <2>3
<1> HIDE DEF b, n, c, A, T
<1>3. CASE k < n
    <2>1. /\ (k - 1) * b \in Int /\ k * b \in Int /\ k * b = (k - 1) * b + b
          /\ k * b <= (n - 1) * b /\ (n - 1) * b \in Int /\ 0 <= (k - 1) * b
        <3>1. k * b = (k - 1) * b + b /\ k * b \in Int /\ (k - 1) * b \in Int
            BY <1>1
        <3>2. k * b <= (n - 1) * b /\ (n - 1) * b \in Int
            BY <1>1, <1>3, MulMonotone
        <3>3. 0 * b <= (k - 1) * b /\ 0 * b = 0
            BY <1>1, MulMonotone
        <3> QED  BY <3>1, <3>2, <3>3
    <2> DEFINE x == (k - 1) * b
               y == k * b
               z == (n - 1) * b
    <2>2. /\ x \in Nat /\ y = x + b /\ y <= z /\ z \in Int /\ z < A
          /\ Start(h, k) = x /\ Start(h, k + 1) = y
          /\ Size(h, k) = IF A - x < b THEN A - x ELSE b
        BY <1>1, <1>2, <1>3, <2>1
    <2> HIDE DEF x, y, z
    <2>3. Size(h, k) = b
        BY <1>1, <2>2
    <2>4. k # n /\ k # c /\ k + 1 \in 1 .. c /\ ~(k > n) /\ k <= n
        BY <1>1, <1>3
    <2>5. x + b <= T /\ x + b <= A /\ x + b < A /\ x + b # T /\ b \in 1 .. b
        BY <1>1, <2>2
    <2> QED  BY <1>1, <2>2, <2>3, <2>4, <2>5 DEF b, n, c, A, T
<1>4. CASE k = n
    <2>1. (n - 1) * b \in Int /\ n * b = (n - 1) * b + b /\ (k - n) * b = 0 /\ 0 <= (n - 1) * b
        <3>1. n * b = (n - 1) * b + b /\ (n - 1) * b \in Int
            BY <1>1
        <3>2. 0 * b <= (n - 1) * b /\ 0 * b = 0 /\ k - n = 0
            BY <1>1, <1>4, MulMonotone
        <3> QED  BY <3>1, <3>2
    <2> DEFINE x == (n - 1) * b
               y == n * b
    <2>2. /\ x \in Nat /\ y = x + b /\ x < A /\ A <= y
          /\ Start(h, k) = x /\ Start(h, k + 1) = A
          /\ Size(h, k) = IF A - x < b THEN A - x ELSE b
        BY <1>1, <1>2, <1>4, <2>1
    <2> HIDE DEF x, y
    <2>3. Size(h, k) = A - x /\ Size(h, k) \in 1 .. b /\ x + Size(h, k) = A
        BY <1>1, <2>2
    <2>4. k # c /\ k + 1 \in 1 .. c /\ ~(k > n) /\ k <= n /\ ~(k < n)
        BY <1>1, <1>4
    <2>5. A <= T /\ A # T
        BY <1>1
    <2>6. Start(h, k) + Size(h, k) = A
        BY <2>2, <2>3
    <2>7. Start(h, k) + Size(h, k) <= T /\ Start(h, k) + Size(h, k) # T /\ A <= A
        BY <1>1, <2>5, <2>6
    <2> QED  BY <1>1, <1>4, <2>2, <2>3, <2>4, <2>6, <2>7 DEF b, n, c, A, T
<1>5. CASE k > n
    <2>1. /\ (k - n - 1) * b \in Int /\ (k - n) * b \in Int /\ (k - n) * b = (k - n - 1) * b + b
          /\ 0 <= (k - n - 1) * b
        <3>1. (k - n) * b = (k - n - 1) * b + b /\ (k - n) * b \in Int /\ (k - n - 1) * b \in Int
            BY <1>1
        <3>2. 0 * b <= (k - n - 1) * b /\ 0 * b = 0
            <4>1. k - n - 1 \in Int /\ 0 <= k - n - 1
                BY <1>1, <1>5
            <4> QED  BY <1>1, <4>1, MulMonotone
        <3> QED  BY <3>1, <3>2
    <2> DEFINE x == (k - n - 1) * b
               y == (k - n) * b
               z == (c - n - 1) * b
               w == (c - n) * b
    <2>2. /\ x \in Nat /\ y = x + b
          /\ Start(h, k) = A + x /\ Start(h, k + 1) = A + y
          /\ Size(h, k) = IF T - (A + x) < b THEN T - (A + x) ELSE b
        BY <1>1, <1>2, <1>5, <2>1
    <2>3. CASE k = c
        <3> DEFINE B == h.arm7
        <3>1. /\ x < B /\ B <= y /\ B \in Nat /\ T = A + B /\ A \in Nat /\ b \in Nat
            BY <1>1, <2>3
        <3> HIDE DEF x, y, z, w, B
        <3>2. Size(h, k) = B - x
            BY <2>2, <3>1
        <3>5. Size(h, k) \in 1 .. b /\ A + x + Size(h, k) = T
            BY <2>2, <3>1, <3>2
        <3>3. ~(k <= n) /\ ~(k < n) /\ k # n
            BY <1>1, <1>5
        <3>4. A + x >= A /\ A + x \in Nat
            BY <1>1, <2>2
        <3>6. /\ Start(h, k) \in Nat /\ Size(h, k) \in 1 .. b
              /\ Start(h, k) + Size(h, k) = T /\ Start(h, k) >= A
            BY <2>2, <3>4, <3>5
        <3> QED  BY <1>1, <2>3, <3>3, <3>6 DEF b, n, c, A, T
    <2>4. CASE k # c
        <3>1. z \in Int /\ z < h.arm7 /\ y <= z
            <4>1. k - n <= c - n - 1 /\ k - n \in Int /\ c - n - 1 \in Int
                BY <1>1, <2>4
            <4>2. (k - n) * b <= (c - n - 1) * b /\ (c - n - 1) * b \in Int
                BY <1>1, <4>1, MulMonotone
            <4> QED  BY <1>1, <4>2
        <3> HIDE DEF x, y, z, w
        <3>2. Size(h, k) = b /\ A + x + b < T /\ b \in 1 .. b
            BY <1>1, <2>2, <3>1
        <3>3. ~(k <= n) /\ ~(k < n) /\ k # n /\ k + 1 \in 1 .. c
            BY <1>1, <1>5, <2>4
        <3>4. A + x >= A /\ A + x \in Nat /\ A + y = A + x + b /\ A + x + b <= T /\ A + x + b # T
            BY <1>1, <2>2, <3>2
        <3> QED  BY <1>1, <2>2, <2>4, <3>2, <3>3, <3>4 DEF b, n, c, A, T
    <2> QED  BY <2>3, <2>4
<1> QED  BY <1>1, <1>3, <1>4, <1>5

\* A packet is not empty.
LEMMA SizeType ==
    ASSUME NEW h \in Hosts, NEW k \in Packets(h)
    PROVE  k \in Nat \ {0} /\ Size(h, k) \in Nat \ {0}
<1>1. Size(h, k) \in 1 .. BlockOf(h)
    BY PacketPlace
<1>2. Packets(h) = 1 .. Count(h) /\ Count(h) \in Nat /\ BlockOf(h) \in Nat
    BY CountType
<1> QED  BY <1>1, <1>2

\* Every byte of the program is in a packet.
LEMMA PacketsCover ==
    ASSUME NEW h \in Hosts, NEW x \in Bytes(h)
    PROVE  \E k \in Packets(h) : x \in Start(h, k) .. Start(h, k) + Size(h, k) - 1
<1> DEFINE b == BlockOf(h)
           n == Packets9(h)
           c == Count(h)
           A == h.arm9
           y == IF x < A THEN x ELSE x - A
           d == y \div b
           k == IF x < A THEN d + 1 ELSE n + d + 1
<1>1. /\ A \in Nat \ {0} /\ h.arm7 \in Nat \ {0} /\ Total(h) = A + h.arm7 /\ b \in Nat \ {0}
      /\ n \in Nat \ {0} /\ c \in Nat /\ c > n
      /\ A <= n * b /\ h.arm7 <= (c - n) * b /\ Packets(h) = 1 .. c
    BY HostType
<1>2. x \in Nat /\ x < A + h.arm7 /\ y \in Nat /\ (x < A => y < A) /\ (x >= A => y < h.arm7)
    BY <1>1 DEF Bytes
<1>3. d \in Nat /\ d * b <= y /\ y < d * b + b /\ d * b \in Int
    <2> HIDE DEF b, y
    <2>1. y \in Nat /\ b \in Nat \ {0}
        BY <1>1, <1>2
    <2> QED  BY <2>1
<1>4. /\ x < A => d < n /\ k = d + 1
      /\ ~(x < A) => d < c - n /\ k = n + d + 1
    <2> HIDE DEF b, n, c, A, y, d
    <2>1. ASSUME x < A, d >= n PROVE FALSE
        <3>1. n * b <= d * b /\ n * b \in Int
            BY <1>1, <1>3, <2>1, MulMonotone
        <3> QED  BY <1>1, <1>2, <1>3, <2>1, <3>1
    <2>2. ASSUME ~(x < A), d >= c - n PROVE FALSE
        <3>1. (c - n) * b <= d * b /\ (c - n) * b \in Int
            BY <1>1, <1>3, <2>2, MulMonotone
        <3> QED  BY <1>1, <1>2, <1>3, <2>2, <3>1
    <2> QED  BY <1>1, <1>3, <2>1, <2>2
<1>5. k \in Packets(h)
    <2> HIDE DEF b, n, c, A, y, d, k
    <2> QED  BY <1>1, <1>3, <1>4
<1>6. /\ Start(h, k) = IF k <= n THEN (k - 1) * b ELSE A + (k - n - 1) * b
      /\ Size(h, k) = LET rest == (IF k <= n THEN A ELSE Total(h)) - Start(h, k)
                      IN  IF rest < b THEN rest ELSE b
    <2> HIDE DEF k
    <2> QED  BY DEF Start, Size
<1>7. CASE x < A
    <2>1. k <= n /\ k - 1 = d /\ y = x
        BY <1>1, <1>3, <1>4, <1>7
    <2> HIDE DEF b, n, c, A, y, d, k
    <2>2. Start(h, k) = d * b /\ Size(h, k) = IF A - d * b < b THEN A - d * b ELSE b
        BY <1>6, <2>1
    <2> DEFINE z == d * b
    <2>3. /\ Start(h, k) = z /\ Size(h, k) = (IF A - z < b THEN A - z ELSE b)
          /\ z \in Int /\ z <= x /\ x < z + b
        BY <1>3, <2>1, <2>2
    <2> HIDE DEF z
    <2>4. x \in Start(h, k) .. Start(h, k) + Size(h, k) - 1
        BY <1>1, <1>2, <1>7, <2>3
    <2> QED  BY <1>5, <2>4
<1>8. CASE ~(x < A)
    <2>1. ~(k <= n) /\ k - n - 1 = d /\ y = x - A
        BY <1>1, <1>3, <1>4, <1>8
    <2> HIDE DEF b, n, c, A, y, d, k
    <2>2. /\ Start(h, k) = A + d * b
          /\ Size(h, k) = LET rest == Total(h) - (A + d * b) IN IF rest < b THEN rest ELSE b
        BY <1>6, <2>1
    <2> DEFINE z == d * b
               B == h.arm7
    <2>3. /\ Start(h, k) = A + z /\ z \in Int /\ z <= x - A /\ x - A < z + b /\ Total(h) = A + B
          /\ Size(h, k) = (IF Total(h) - (A + z) < b THEN Total(h) - (A + z) ELSE b)
          /\ B \in Nat /\ x < A + B
        BY <1>1, <1>2, <1>3, <2>1, <2>2
    <2> HIDE DEF z, B
    <2>4. x \in Start(h, k) .. Start(h, k) + Size(h, k) - 1
        BY <1>1, <1>2, <1>8, <2>3
    <2> QED  BY <1>5, <2>4
<1> QED  BY <1>7, <1>8

-----------------------------------------------------------------------------
(* What is known of packets, whatever the order *)

\* Transfers and captures in which a frame is what it looks like.
Legible == Regular(host) /\ (Steady \/ ~host.short)

\* The table of sizes is that of the packets stored, and pkt_size the size of
\* a packet or not known.
Sorted ==
    /\ host \in Hosts
    /\ stage \in {"header", "data", "assembled"}
    /\ data_init \in BOOLEAN /\ last_seq \in BOOLEAN
    /\ stored \subseteq Packets(host)
    /\ data_sizes \in [Seqs(host) -> 0 .. P]
    /\ \A k \in Packets(host) : data_sizes[k - 1] = IF k \in stored THEN Size(host, k) ELSE 0
    /\ pkt_size \in 0 .. BlockOf(host)
    /\ ~host.short => /\ pkt_size \in {0, Size(host, 1)}
                      /\ 1 \in stored => pkt_size = Size(host, 1)

\* A packet not found yet is given the room of pkt bytes.
LEMMA RoomTaken ==
    ASSUME Sorted, NEW k \in Packets(host), NEW pkt, NEW i \in 0 .. k - 2
    PROVE  /\ i + 1 \in Packets(host) /\ i + 1 < k
           /\ Taken(data_sizes, pkt)[i] = IF i + 1 \in stored THEN Size(host, i + 1) ELSE pkt
<1>1. /\ Packets(host) = 1 .. Count(host) /\ Seqs(host) = 0 .. Count(host)
      /\ Count(host) \in Nat /\ k \in 1 .. Count(host)
    BY HostType DEF Sorted
<1>2. i + 1 \in Packets(host) /\ i \in DOMAIN data_sizes /\ (i + 1) - 1 = i /\ i + 1 < k
    BY <1>1 DEF Sorted
<1>3. data_sizes[i] = IF i + 1 \in stored THEN Size(host, i + 1) ELSE 0
    <2>1. data_sizes[(i + 1) - 1] = IF i + 1 \in stored THEN Size(host, i + 1) ELSE 0
        BY <1>2, Zenon DEF Sorted
    <2> QED  BY <1>2, <2>1
<1>4. Size(host, i + 1) # 0
    BY <1>2, PacketPlace DEF Sorted
<1>5. Taken(data_sizes, pkt)[i] = IF data_sizes[i] = 0 THEN pkt ELSE data_sizes[i]
    BY <1>2 DEF Taken
<1> QED  BY <1>2, <1>3, <1>4, <1>5

\* No packet goes behind the place it has if all are full.
LEMMA PositionAtMost ==
    ASSUME Sorted, NEW k \in Packets(host), NEW pkt \in 0 .. BlockOf(host)
    PROVE  Position(data_sizes, k, pkt) \in 0 .. (k - 1) * BlockOf(host)
<1>1. k \in Nat /\ k - 1 \in Nat /\ BlockOf(host) \in Nat
    <2>1. Packets(host) = 1 .. Count(host) /\ BlockOf(host) \in Nat
        BY HostType DEF Sorted
    <2> QED  BY <2>1
<1>2. \A i \in 0 .. (k - 1) - 1 : Taken(data_sizes, pkt)[i] \in 0 .. BlockOf(host)
    <2> SUFFICES ASSUME NEW i \in 0 .. k - 2
                 PROVE  Taken(data_sizes, pkt)[i] \in 0 .. BlockOf(host)
        <3>1. (k - 1) - 1 = k - 2
            BY <1>1
        <3> QED  BY <3>1
    <2>1. i + 1 \in Packets(host) /\ Taken(data_sizes, pkt)[i] \in {Size(host, i + 1), pkt}
        BY RoomTaken
    <2>2. Size(host, i + 1) \in 1 .. BlockOf(host)
        BY <2>1, PacketPlace DEF Sorted
    <2> QED  BY <2>1, <2>2
<1> QED  BY <1>1, <1>2, SumAtMost DEF Position

\* It goes to its own place if the missing ones before have pkt bytes.
LEMMA PositionIsStart ==
    ASSUME Sorted, NEW k \in Packets(host), NEW pkt \in Nat,
           \A j \in Packets(host) \ stored : j < k => Size(host, j) = pkt
    PROVE  Position(data_sizes, k, pkt) = Start(host, k)
<1> DEFINE place == [i \in 0 .. k - 1 |-> Start(host, i + 1)]
<1>1. /\ Packets(host) = 1 .. Count(host) /\ Count(host) \in Nat /\ k \in 1 .. Count(host)
      /\ k - 1 \in Nat /\ host \in Hosts
    BY HostType DEF Sorted
<1>2. place \in [0 .. k - 1 -> Int] /\ place[k - 1] = Start(host, k)
    <2>1. \A i \in 0 .. k - 1 : Start(host, i + 1) \in Int
        BY <1>1, PacketPlace
    <2>2. k - 1 \in 0 .. k - 1 /\ (k - 1) + 1 = k
        BY <1>1
    <2> QED  BY <2>1, <2>2
<1>3. place[0] = 0
    <2>1. Start(host, 1) = 0
        <3>1. 1 <= Packets9(host) /\ BlockOf(host) \in Int
            BY <1>1, HostType
        <3> QED  BY <3>1 DEF Start
    <2> QED  BY <1>1, <2>1
<1>4. \A i \in 0 .. (k - 1) - 1 :
           Taken(data_sizes, pkt)[i] \in Int /\ place[i + 1] = place[i] + Taken(data_sizes, pkt)[i]
    <2> SUFFICES ASSUME NEW i \in 0 .. k - 2
                 PROVE  /\ Taken(data_sizes, pkt)[i] \in Int
                        /\ place[i + 1] = place[i] + Taken(data_sizes, pkt)[i]
        <3>1. (k - 1) - 1 = k - 2
            BY <1>1
        <3> QED  BY <3>1
    <2>1. /\ i + 1 \in Packets(host) /\ i + 1 < k
          /\ Taken(data_sizes, pkt)[i] = IF i + 1 \in stored THEN Size(host, i + 1) ELSE pkt
        BY RoomTaken
    <2>2. Taken(data_sizes, pkt)[i] = Size(host, i + 1)
        BY <2>1
    <2>3. /\ Size(host, i + 1) \in 1 .. BlockOf(host) /\ BlockOf(host) \in Nat
          /\ Start(host, (i + 1) + 1) = Start(host, i + 1) + Size(host, i + 1)
        <3>1. i + 1 # Count(host)
            BY <1>1, <2>1
        <3> QED  BY <1>1, <2>1, <3>1, PacketPlace, HostType
    <2>4. i \in 0 .. k - 1 /\ i + 1 \in 0 .. k - 1
        BY <1>1
    <2> QED  BY <2>2, <2>3, <2>4
<1> HIDE DEF place
<1> QED  BY <1>1, <1>2, <1>3, <1>4, SumIs DEF Position

\* What a frame of the host looks like.
LEMMA FrameOf ==
    ASSUME NEW h \in Hosts, Regular(h), NEW f \in Frames(h)
    PROVE  \/ /\ f.pkt \in Packets(h) /\ f.size = Size(h, f.pkt) /\ f.start = Start(h, f.pkt)
              /\ f.size # R /\ f.seq = (IF h.short THEN f.pkt + 1 ELSE f.pkt)
           \/ h.short /\ f.pkt = 0 /\ f.seq = 1 /\ f.size = R
<1>1. CASE \E k \in Packets(h) :
               f = [pkt |-> k, seq |-> IF h.short THEN k + 1 ELSE k, size |-> Size(h, k),
                    start |-> Start(h, k)]
    <2>1. PICK k \in Packets(h) :
               f = [pkt |-> k, seq |-> IF h.short THEN k + 1 ELSE k, size |-> Size(h, k),
                    start |-> Start(h, k)]
        BY <1>1
    <2>2. /\ f.pkt = k /\ f.size = Size(h, k) /\ f.start = Start(h, k)
          /\ f.seq = IF h.short THEN k + 1 ELSE k
        BY <2>1
    <2>3. Size(h, k) # R
        BY DEF Regular
    <2> QED  BY <2>2, <2>3
<1>2. CASE h.short /\ f = [pkt |-> 0, seq |-> 1, size |-> R, start |-> 0]
    BY <1>2
<1> QED  BY <1>1, <1>2 DEF Frames

\* A frame that is turned down before it is looked at.
Untouched ==
    UNCHANGED <<stage, data_sizes, saved_data, arm7s, arm7e, arm7e_seq, stored, rom, wild>>

\* What pkt_size is behind packet k.
PktSizeAt(k) == IF k = 1 THEN Size(host, 1) ELSE pkt_size

\* What a data frame does: nothing; only the size of packets is noted; it was there
\* before; or it is stored.
LEMMA FrameStep ==
    ASSUME Sorted, Legible, NEW f \in Frames(host), NEW fh_seq \in FhSeq,
           WMBProcessData(f, fh_seq)
    PROVE  /\ stage = "data" /\ ~wild /\ host' = host /\ data_init' = TRUE /\ last_seq' \in BOOLEAN
           /\ \/ Untouched /\ pkt_size' = pkt_size
              \/ Untouched /\ pkt_size' = Q /\ host.short
              \/ /\ f.pkt \in Packets(host)
                 /\ f.size = Size(host, f.pkt) /\ f.start = Start(host, f.pkt)
                 /\ pkt_size' = PktSizeAt(f.pkt)
                 /\ \/ Untouched
                    \/ /\ f.pkt \notin stored \/ arm7e # 0
                       /\ Store(f, f.pkt, data_sizes, PktSizeAt(f.pkt))
<1> USE WmbDataConstants
<1>1. /\ stage = "data" /\ ~wild /\ host' = host /\ data_init' = TRUE
      /\ Steady => SizesKnown(f)
    BY DEF WMBProcessData
<1>2. last_seq' \in BOOLEAN
    BY DEF WMBProcessData, Sorted
<1>3. CASE last_seq /\ fh_seq # "next" /\ ~data_init
    <2>1. Untouched /\ pkt_size' = pkt_size
        BY <1>3 DEF WMBProcessData, Untouched
    <2> QED  BY <1>1, <1>2, <2>1
<1>4. CASE ~(last_seq /\ fh_seq # "next" /\ ~data_init)
    <2>1. ProcessFrame(f)
        BY <1>4 DEF WMBProcessData
    <2>2. CASE host.short /\ f.pkt = 0 /\ f.seq = 1 /\ f.size = R
        <3>1. Untouched /\ pkt_size' = Q
            BY <2>1, <2>2 DEF ProcessFrame, Untouched
        <3> QED  BY <1>1, <1>2, <2>2, <3>1
    <2>3. CASE /\ f.pkt \in Packets(host)
               /\ f.size = Size(host, f.pkt) /\ f.start = Start(host, f.pkt)
               /\ f.size # R /\ f.seq = (IF host.short THEN f.pkt + 1 ELSE f.pkt)
        <3> DEFINE k == f.pkt
        <3>1. k \in Nat \ {0} /\ f.seq \in Nat /\ (k + 1) - 1 = k
            <4>1. Packets(host) = 1 .. Count(host)
                BY HostType DEF Sorted
            <4> QED  BY <2>3, <4>1
        <3>2. (IF pkt_size = Q THEN f.seq - 1 ELSE f.seq) = k
            <4>1. CASE host.short
                <5>1. pkt_size = Q
                    BY <1>1, <3>1, <4>1 DEF Legible, SizesKnown
                <5> QED  BY <2>3, <3>1, <4>1, <5>1
            <4>2. CASE ~host.short
                <5>1. pkt_size # Q
                    BY <4>2 DEF Sorted, Legible, Regular
                <5> QED  BY <2>3, <4>2, <5>1
            <4> QED  BY <4>1, <4>2
        <3>3. \/ /\ k = 0 /\ wild' = TRUE
              \/ /\ k # 0 /\ pkt_size' = (IF k = 1 THEN f.size ELSE pkt_size)
                 /\ IF data_sizes[k - 1] # 0 /\ arm7e = 0
                    THEN data_sizes' = data_sizes /\ UNCHANGED wild
                         /\ UNCHANGED <<saved_data, arm7s, arm7e, arm7e_seq, stored, rom, stage>>
                    ELSE Store(f, k, data_sizes, IF k = 1 THEN f.size ELSE pkt_size)
            BY <2>1, <2>3, <3>2 DEF ProcessFrame
        <3>4. (IF k = 1 THEN f.size ELSE pkt_size) = PktSizeAt(k)
            BY <2>3 DEF PktSizeAt
        <3>5. data_sizes[k - 1] # 0 <=> k \in stored
            <4>1. Size(host, k) # 0
                BY <2>3, SizeType DEF Sorted
            <4> QED  BY <2>3, <4>1 DEF Sorted
        <3>6. pkt_size' = PktSizeAt(k)
            BY <3>1, <3>3, <3>4
        <3>7. \/ Untouched
              \/ /\ k \notin stored \/ arm7e # 0
                 /\ Store(f, k, data_sizes, PktSizeAt(k))
            <4>1. CASE data_sizes[k - 1] # 0 /\ arm7e = 0
                <5>1. /\ data_sizes' = data_sizes /\ UNCHANGED wild
                      /\ UNCHANGED <<saved_data, arm7s, arm7e, arm7e_seq, stored, rom, stage>>
                    BY <3>1, <3>3, <4>1, Zenon
                <5>2. Untouched
                    BY <5>1 DEF Untouched
                <5> QED  BY <5>2
            <4>2. CASE ~(data_sizes[k - 1] # 0 /\ arm7e = 0)
                <5>1. Store(f, k, data_sizes, PktSizeAt(k))
                    BY <3>1, <3>3, <3>4, <4>2, Zenon
                <5>2. k \notin stored \/ arm7e # 0
                    BY <3>5, <4>2
                <5> QED  BY <5>1, <5>2
            <4> QED  BY <4>1, <4>2
        <3> QED  BY <1>1, <1>2, <2>3, <3>6, <3>7
    <2> QED  BY <2>2, <2>3, FrameOf DEF Sorted, Legible
<1> QED  BY <1>3, <1>4

LEMMA HostKept == [Next]_vars => host' = host
BY DEF Next, WMBProcessHeader, WMBProcessData, OtherFrame, vars

LEMMA PktSizeType ==
    ASSUME Sorted, NEW k \in Packets(host)
    PROVE  /\ PktSizeAt(k) \in 0 .. BlockOf(host)
           /\ ~host.short => /\ PktSizeAt(k) \in {0, Size(host, 1)}
                             /\ 1 \in stored \cup {k} => PktSizeAt(k) = Size(host, 1)
<1>1. 1 \in Packets(host) /\ BlockOf(host) \in Nat
    BY HostType DEF Sorted
<1>2. Size(host, 1) \in 1 .. BlockOf(host)
    BY <1>1, PacketPlace DEF Sorted
<1> QED  BY <1>1, <1>2 DEF PktSizeAt, Sorted

\* Storing a packet enters it in the table.
LEMMA StoreSorts ==
    ASSUME Sorted, NEW f, NEW k \in Packets(host), f.pkt = k, f.size = Size(host, k),
           host' = host, data_init' \in BOOLEAN, last_seq' \in BOOLEAN,
           pkt_size' = PktSizeAt(k), Store(f, k, data_sizes, PktSizeAt(k))
    PROVE  Sorted'
<1>1. /\ data_sizes' = [data_sizes EXCEPT ![k - 1] = Size(host, k)]
      /\ stored' = stored \cup {k}
      /\ stage' = "assembled" \/ stage' = stage
    BY DEF Store
<1>2. /\ Packets(host) = 1 .. Count(host) /\ Seqs(host) = 0 .. Count(host)
      /\ Count(host) \in Nat /\ k \in 1 .. Count(host) /\ host \in Hosts
      /\ BlockOf(host) \in Nat /\ BlockOf(host) <= P /\ P \in Nat
    BY HostType, WmbDataConstants DEF Sorted
<1>3. Size(host, k) \in 0 .. P
    <2>1. Size(host, k) \in 1 .. BlockOf(host)
        BY <1>2, PacketPlace
    <2> QED  BY <1>2, <2>1
<1>4. data_sizes' \in [Seqs(host) -> 0 .. P]
    BY <1>1, <1>3 DEF Sorted
<1>5. ASSUME NEW j \in Packets(host)
      PROVE  data_sizes'[j - 1] = IF j \in stored' THEN Size(host, j) ELSE 0
    <2>1. j - 1 \in Seqs(host) /\ k - 1 \in Seqs(host) /\ (j - 1 = k - 1 => j = k)
        BY <1>2
    <2>2. data_sizes[j - 1] = IF j \in stored THEN Size(host, j) ELSE 0
        BY Zenon DEF Sorted
    <2>3. DOMAIN data_sizes = Seqs(host)
        BY DEF Sorted
    <2>4. CASE j = k
        BY <1>1, <2>1, <2>3, <2>4
    <2>5. CASE j # k
        <3>1. data_sizes'[j - 1] = data_sizes[j - 1]
            BY <1>1, <2>1, <2>3, <2>5
        <3> QED  BY <1>1, <2>2, <2>5, <3>1
    <2> QED  BY <2>4, <2>5
<1>6. stored' \subseteq Packets(host) /\ stage' \in {"header", "data", "assembled"}
    BY <1>1 DEF Sorted
<1>7. /\ pkt_size' \in 0 .. BlockOf(host)
      /\ ~host.short => /\ pkt_size' \in {0, Size(host, 1)}
                        /\ 1 \in stored' => pkt_size' = Size(host, 1)
    BY <1>1, PktSizeType
<1> QED  BY <1>2, <1>4, <1>5, <1>6, <1>7 DEF Sorted

\* Noting the size of packets changes nothing for a host with short headers.
LEMMA SortedKept == ASSUME Sorted, Legible, [Next]_vars PROVE Sorted'
<1>1. CASE UNCHANGED vars
    BY <1>1 DEF vars, Sorted
<1>2. ASSUME NEW zero \in BOOLEAN, WMBProcessHeader(zero) PROVE Sorted'
    BY <1>2 DEF WMBProcessHeader, Sorted
<1>3. CASE OtherFrame
    BY <1>3 DEF OtherFrame, Sorted
<1>4. ASSUME NEW f \in Frames(host), NEW fh_seq \in FhSeq, WMBProcessData(f, fh_seq)
      PROVE  Sorted'
    <2>1. host' = host /\ data_init' \in BOOLEAN /\ last_seq' \in BOOLEAN
        BY <1>4, FrameStep
    <2>2. CASE Untouched /\ pkt_size' = pkt_size
        BY <2>1, <2>2 DEF Untouched, Sorted
    <2>3. CASE Untouched /\ pkt_size' = Q /\ host.short
        <3>1. BlockOf(host) = Q /\ Q \in 0 .. Q
            BY <2>3, WmbDataConstants DEF BlockOf
        <3> QED  BY <2>1, <2>3, <3>1 DEF Untouched, Sorted
    <2>4. CASE /\ f.pkt \in Packets(host)
               /\ f.size = Size(host, f.pkt) /\ f.start = Start(host, f.pkt)
               /\ pkt_size' = PktSizeAt(f.pkt)
               /\ \/ Untouched
                  \/ /\ f.pkt \notin stored \/ arm7e # 0
                     /\ Store(f, f.pkt, data_sizes, PktSizeAt(f.pkt))
        <3>1. CASE Untouched
            <4> DEFINE n == PktSizeAt(f.pkt)
            <4>1. /\ n \in 0 .. BlockOf(host)
                  /\ ~host.short => /\ n \in {0, Size(host, 1)}
                                    /\ 1 \in stored => n = Size(host, 1)
                BY <2>4, PktSizeType
            <4>2. pkt_size' = n
                BY <2>4
            <4> HIDE DEF n
            <4> QED  BY <2>1, <3>1, <4>1, <4>2 DEF Untouched, Sorted
        <3>2. CASE Store(f, f.pkt, data_sizes, PktSizeAt(f.pkt))
            BY <2>1, <2>4, <3>2, StoreSorts
        <3> QED  BY <2>4, <3>1, <3>2
    <2> QED  BY <1>4, <2>2, <2>3, <2>4, FrameStep
<1> QED  BY <1>1, <1>2, <1>3, <1>4 DEF Next

\* Where the copy of a packet ends at most.
LEMMA EndAtMost ==
    ASSUME Sorted, NEW k \in Packets(host)
    PROVE  LET pos == Position(data_sizes, k, PktSizeAt(k))
           IN  /\ pos \in Nat
               /\ pos <= (k - 1) * BlockOf(host)
               /\ pos + Size(host, k) <= k * BlockOf(host)
<1> DEFINE pos == Position(data_sizes, k, PktSizeAt(k))
           b == BlockOf(host)
           s == Size(host, k)
           p == (k - 1) * b
           q == k * b
<1>1. k \in Nat /\ b \in Nat /\ s \in 1 .. b
    <2>1. Packets(host) = 1 .. Count(host) /\ BlockOf(host) \in Nat /\ host \in Hosts
        BY HostType DEF Sorted
    <2>2. Size(host, k) \in 1 .. BlockOf(host)
        BY <2>1, PacketPlace
    <2> HIDE DEF b
    <2> QED  BY <2>1, <2>2 DEF b
<1>2. p \in Int /\ q \in Int /\ p = q - b
    BY <1>1, OneMore
<1>3. pos \in 0 .. p
    BY PktSizeType, PositionAtMost
<1> HIDE DEF pos, b, s, p, q
<1>4. pos \in Nat /\ pos <= p /\ pos + s <= q
    BY <1>1, <1>2, <1>3
<1> QED  BY <1>4 DEF pos, b, s, p, q

-----------------------------------------------------------------------------
(* Any capture *)

InBoundsInv == (Legible => Sorted) /\ host \in Hosts /\ InBounds

\* If the ARM9 binary fills its packets, k packets of room end before the
\* program does.
LEMMA NoneBehind ==
    ASSUME Sorted, Plain(host), host.arm9 % P = 0, NEW k \in Packets(host)
    PROVE  Position(data_sizes, k, PktSizeAt(k)) + Size(host, k) <= Total(host)
<1> DEFINE pos == Position(data_sizes, k, PktSizeAt(k))
           b == BlockOf(host)
           n == Packets9(host)
           A == host.arm9
           s == Size(host, k)
<1>1. /\ k \in Nat /\ b \in Nat \ {0} /\ n \in Nat /\ A \in Nat \ {0}
      /\ Start(host, k) + s <= Total(host)
      /\ s \in Nat /\ Start(host, k) \in Nat /\ Total(host) \in Nat
    <2>1. Packets(host) = 1 .. Count(host) /\ BlockOf(host) \in Nat
        BY HostType DEF Sorted
    <2>2. /\ Start(host, k) + s <= Total(host)
          /\ s \in Nat /\ Start(host, k) \in Nat /\ k \in Nat
        BY PacketPlace, SizeType DEF Sorted
    <2>3. b \in Nat \ {0} /\ n \in Nat /\ A \in Nat \ {0} /\ Total(host) \in Nat
        BY HostType, Zenon DEF Sorted
    <2> QED  BY <2>2, <2>3
<1>2. b = P
    BY DEF Plain, BlockOf
<1>3. A = n * b
    BY <1>1, <1>2, FullBlocks DEF Packets9
<1>4. pos \in Nat /\ pos <= (k - 1) * b
    BY EndAtMost
<1>5. Start(host, k) = (k - 1) * b
    <2>1. Start(host, k) = IF k <= n THEN (k - 1) * b ELSE A + (k - n - 1) * b
        BY DEF Start
    <2>2. n * b + (k - n - 1) * b = (k - 1) * b
        <3> HIDE DEF n, b
        <3> QED  BY <1>1
    <2> HIDE DEF n, b, A
    <2> QED  BY <1>3, <2>1, <2>2
<1> HIDE DEF pos, s
<1>6. pos <= Start(host, k)
    BY <1>4, <1>5
<1>7. pos + s <= Total(host)
    BY <1>1, <1>4, <1>6
<1> QED  BY <1>7 DEF pos, s

\* A transfer starts with nothing found.
LEMMA InitSorted == ASSUME Init PROVE Sorted
<1>1. host \in Hosts
    BY DEF Init
<1>2. /\ Packets(host) = 1 .. Count(host) /\ Seqs(host) = 0 .. Count(host)
      /\ Count(host) \in Nat /\ P \in Nat /\ BlockOf(host) \in Nat
    BY <1>1, HostType, WmbDataConstants
<1>3. \A k \in Packets(host) : data_sizes[k - 1] = 0
    <2>1. \A k \in Packets(host) : k - 1 \in Seqs(host)
        BY <1>2
    <2> QED  BY <2>1 DEF Init
<1>4. data_sizes \in [Seqs(host) -> 0 .. P] /\ pkt_size \in {0} /\ 0 \in 0 .. BlockOf(host)
    <2>1. 0 \in 0 .. P /\ 0 \in 0 .. BlockOf(host)
        BY <1>2
    <2> QED  BY <2>1 DEF Init
<1>5. stored = {} /\ stage = "header" /\ data_init = FALSE /\ last_seq = FALSE
    BY DEF Init
<1> QED  BY <1>1, <1>3, <1>4, <1>5 DEF Sorted

\* Plain says of frames what Legible needs.
LEMMA PlainIsLegible == Plain(host) => Legible /\ ~host.short
BY DEF Plain, Legible, Regular

\* No copy ends behind saved_data, in whatever order the packets come.
THEOREM NoneOutOfBounds == Spec => []InBounds
<1>1. Init => InBoundsInv
    <2> SUFFICES ASSUME Init PROVE InBoundsInv
        OBVIOUS
    <2>1. Sorted
        BY InitSorted
    <2> QED  BY <2>1 DEF InBoundsInv, InBounds, Init
<1>2. InBoundsInv /\ [Next]_vars => InBoundsInv'
    <2> SUFFICES ASSUME InBoundsInv, [Next]_vars PROVE InBoundsInv'
        OBVIOUS
    <2>1. host' = host
        BY HostKept
    <2>2. (Legible => Sorted)'
        BY <2>1, SortedKept DEF InBoundsInv, Legible
    <2>3. ASSUME Plain(host), host.arm9 % P = 0 PROVE ~wild'
        <3>1. Sorted /\ Legible /\ ~wild
            BY <2>3, PlainIsLegible DEF InBoundsInv, InBounds
        <3>2. CASE UNCHANGED vars
            BY <3>1, <3>2 DEF vars
        <3>3. ASSUME NEW zero \in BOOLEAN, WMBProcessHeader(zero) PROVE ~wild'
            BY <3>1, <3>3 DEF WMBProcessHeader
        <3>4. CASE OtherFrame
            BY <3>1, <3>4 DEF OtherFrame
        <3>5. ASSUME NEW f \in Frames(host), NEW fh_seq \in FhSeq, WMBProcessData(f, fh_seq)
              PROVE  ~wild'
            <4>1. CASE Untouched
                BY <3>1, <4>1 DEF Untouched
            <4>2. CASE /\ f.pkt \in Packets(host) /\ f.size = Size(host, f.pkt)
                       /\ Store(f, f.pkt, data_sizes, PktSizeAt(f.pkt))
                <5> DEFINE end == Position(data_sizes, f.pkt, PktSizeAt(f.pkt)) + f.size
                <5>1. end <= Total(host)
                    BY <2>3, <3>1, <4>2, NoneBehind
                <5>2. end \in Nat /\ Total(host) \in Nat
                    <6>1. Size(host, f.pkt) \in Nat
                        BY <3>1, <4>2, PacketPlace, HostType DEF Sorted
                    <6>2. Position(data_sizes, f.pkt, PktSizeAt(f.pkt)) \in Nat
                        BY <3>1, <4>2, EndAtMost
                    <6>3. Total(host) \in Nat
                        BY <3>1, HostType DEF Sorted
                    <6> QED  BY <4>2, <6>1, <6>2, <6>3
                <5>3. wild' = (end > Total(host))
                    BY <4>2 DEF Store
                <5> HIDE DEF end
                <5>4. ~(end > Total(host))
                    BY <5>1, <5>2
                <5> QED  BY <5>3, <5>4, Zenon
            <4> QED  BY <3>1, <3>5, <4>1, <4>2, FrameStep
        <3> QED  BY <3>2, <3>3, <3>4, <3>5 DEF Next
    <2> QED  BY <2>1, <2>2, <2>3 DEF InBoundsInv, InBounds
<1>3. InBoundsInv => InBounds
    BY DEF InBoundsInv
<1> QED  BY <1>1, <1>2, <1>3, PTL DEF Spec

\* The packets of a table without gaps were stored.
LEMMA NoGaps ==
    ASSUME NEW h \in Hosts, NEW found, NEW sizes, NEW n \in 0 .. Count(h),
           \A k \in Packets(h) : sizes[k - 1] = IF k \in found THEN Size(h, k) ELSE 0,
           \A i \in 0 .. n - 1 : sizes[i] # 0
    PROVE  1 .. n \subseteq found
<1> SUFFICES ASSUME NEW k \in 1 .. n PROVE k \in found
    OBVIOUS
<1>1. k \in Packets(h) /\ k - 1 \in 0 .. n - 1
    <2>1. Packets(h) = 1 .. Count(h) /\ Count(h) \in Nat
        BY HostType
    <2> QED  BY <2>1
<1> QED  BY <1>1

\* The plugin waits for the last packet, or has it and waits for the rest.
Waited ==
    /\ stage = "header" => rom = NoRom
    /\ stage = "data" =>
          /\ rom = NoRom
          /\ \/ arm7e_seq = Count(host)
             \/ arm7e_seq = Count(host) - 1 /\ Count(host) \in stored
    /\ stage = "assembled" => stored = Packets(host)

MissedInv ==
    /\ host \in Hosts
    /\ Legible => Sorted
    /\ Plain(host) /\ host.arm7 % P = 0 => Waited

\* If the ARM7 binary fills its packets, the packets to wait for are counted right.
LEMMA AllAwaited ==
    ASSUME host \in Hosts, Plain(host), host.arm7 % P = 0
    PROVE  /\ LastSeq(host) = Count(host) /\ BlockOf(host) = P
           /\ \A k \in Packets(host) : k # Count(host) => k * P < Total(host)
<1> DEFINE n == Packets9(host)
           m == Blocks(host.arm7, P)
           c == Count(host)
           A == host.arm9
           B == host.arm7
<1>1. BlockOf(host) = P /\ Packets9(host) = Blocks(host.arm9, P)
    BY DEF Plain, BlockOf, Packets9
<1>2. /\ A \in Nat \ {0} /\ B \in Nat \ {0} /\ P \in Nat \ {0} /\ n \in Nat /\ c \in Nat
      /\ (n - 1) * P < A /\ Packets(host) = 1 .. c /\ Total(host) = A + B /\ c = n + m
    BY <1>1, HostType DEF Count
<1>3. m = B \div P /\ B = m * P /\ m \in Nat
    <2>1. B % P = 0 /\ B \in Nat \ {0} /\ P \in Nat \ {0}
        BY <1>2
    <2> HIDE DEF B
    <2>2. Blocks(B, P) = B \div P /\ B = Blocks(B, P) * P /\ Blocks(B, P) \in Nat
        BY <2>1, FullBlocks, BlocksCover
    <2> QED  BY <2>2, Zenon DEF B
<1>4. LastSeq(host) = c
    BY <1>1, <1>2, <1>3 DEF LastSeq
<1>5. ASSUME NEW k \in Packets(host), k # c PROVE k * P < Total(host)
    <2> HIDE DEF n, m, c, A, B
    <2>1. k \in Int /\ k <= n + m - 1 /\ n + m - 1 \in Int
        BY <1>2, <1>3, <1>5
    <2>2. k * P <= (n + m - 1) * P /\ k * P \in Int
        BY <1>2, <2>1, MulMonotone
    <2>3. (n + m - 1) * P = (n - 1) * P + m * P
        BY <1>2, <1>3
    <2> DEFINE x == (n - 1) * P
               y == m * P
               z == k * P
    <2>4. x \in Int /\ y \in Int /\ z \in Int /\ z <= x + y /\ x < A /\ y = B /\ Total(host) = A + B
        BY <1>2, <1>3, <2>2, <2>3
    <2> HIDE DEF x, y, z
    <2>5. z < Total(host)
        BY <1>2, <2>4
    <2> QED  BY <2>5 DEF z
<1> QED  BY <1>1, <1>4, <1>5

\* What a packet changes of the marks: arm7e_seq is set behind the last packet.
LEMMA StoreWaits ==
    ASSUME Sorted, Plain(host), host.arm7 % P = 0, Waited, stage = "data", Sorted', host' = host,
           NEW f, NEW k \in Packets(host), f.pkt = k, f.size = Size(host, k),
           Store(f, k, data_sizes, PktSizeAt(k))
    PROVE  Waited'
<1> DEFINE end == Position(data_sizes, k, PktSizeAt(k)) + Size(host, k)
           found9 == end >= host.arm9 /\ arm7s = 0
           cur == IF found9 THEN Clipped(end, host.arm9) ELSE end
           found7 == cur >= Total(host) /\ arm7e = 0
           c == Count(host)
<1>1. /\ c \in Nat /\ Packets(host) = 1 .. c /\ k \in 1 .. c /\ host.arm9 \in Nat
      /\ Total(host) \in Nat /\ P \in Nat /\ host \in Hosts /\ c > 0
    <2>1. host \in Hosts
        BY DEF Sorted
    <2>2. Packets(host) = 1 .. c /\ c \in Nat /\ Total(host) \in Nat /\ c > 0
        <3>1. Count(host) \in Nat /\ Packets9(host) \in Nat /\ Count(host) > Packets9(host)
            BY <2>1, CountType
        <3> QED  BY <2>1, <3>1, CountType
    <2>3. host.arm9 \in Nat /\ P \in Nat
        BY <2>1, HostType, WmbDataConstants
    <2> QED  BY <2>1, <2>2, <2>3
<1>2. end \in Nat /\ end <= k * P
    <2>1. Size(host, k) \in Nat
        BY <1>1, PacketPlace
    <2> QED  BY <1>1, <2>1, EndAtMost, AllAwaited
<1>3. /\ stored' = stored \cup {k}
      /\ arm7e_seq' = IF found7 THEN k - 1 ELSE arm7e_seq
      /\ \/ /\ arm7e_seq' # 0 /\ \A i \in 0 .. arm7e_seq' - 1 : data_sizes'[i] # 0
            /\ stage' = "assembled"
         \/ rom' = rom /\ stage' = stage
    BY Zenon DEF Store
<1>4. found7 => k = c
    <2> SUFFICES ASSUME found7, k # c PROVE FALSE
        OBVIOUS
    <2>1. k * P < Total(host) /\ k * P \in Int
        BY <1>1, AllAwaited
    <2>2. cur <= end /\ cur \in Int
        BY <1>1, <1>2 DEF Clipped
    <2> HIDE DEF end, cur
    <2> DEFINE z == k * P
    <2>3. z \in Int /\ z < Total(host) /\ end <= z
        BY <1>2, <2>1
    <2> HIDE DEF z
    <2> QED  BY <1>1, <1>2, <2>2, <2>3
<1> HIDE DEF found7
<1>5. \/ arm7e_seq' = c
      \/ arm7e_seq' = c - 1 /\ c \in stored'
    BY <1>3, <1>4 DEF Waited
<1>6. ASSUME \A i \in 0 .. arm7e_seq' - 1 : data_sizes'[i] # 0
      PROVE  stored' = Packets(host)
    <2>1. \A j \in Packets(host) : data_sizes'[j - 1] = IF j \in stored' THEN Size(host, j) ELSE 0
        BY Zenon DEF Sorted
    <2>2. arm7e_seq' \in 0 .. c
        BY <1>1, <1>5
    <2>3. 1 .. arm7e_seq' \subseteq stored'
        <3> DEFINE n == arm7e_seq'
                   found == stored'
                   sizes == data_sizes'
        <3>1. /\ \A j \in Packets(host) : sizes[j - 1] = IF j \in found THEN Size(host, j) ELSE 0
              /\ \A i \in 0 .. n - 1 : sizes[i] # 0
              /\ n \in 0 .. Count(host) /\ host \in Hosts
            BY <1>1, <1>6, <2>1, <2>2, Zenon
        <3> HIDE DEF n, found, sizes
        <3>2. 1 .. n \subseteq found
            BY <3>1, NoGaps
        <3> QED  BY <3>2 DEF n, found
    <2>4. stored' \subseteq Packets(host)
        BY Zenon DEF Sorted
    <2>5. 1 .. c \subseteq stored'
        <3>1. CASE arm7e_seq' = c
            BY <2>3, <3>1
        <3>2. CASE arm7e_seq' = c - 1 /\ c \in stored'
            <4>1. \A j \in 1 .. c : j \in 1 .. c - 1 \/ j = c
                BY <1>1
            <4> QED  BY <2>3, <3>2, <4>1
        <3> QED  BY <1>5, <3>1, <3>2
    <2> QED  BY <1>1, <2>4, <2>5
<1>7. rom = NoRom
    BY DEF Waited
<1> QED  BY <1>3, <1>5, <1>6, <1>7 DEF Waited

\* "If we missed any packets, don't begin assembly."
THEOREM NoneMissed == Spec => []MissedNone
<1>1. Init => MissedInv
    <2> SUFFICES ASSUME Init PROVE MissedInv
        OBVIOUS
    <2>1. Sorted
        BY InitSorted
    <2>2. Waited
        BY DEF Init, Waited
    <2> QED  BY <2>1, <2>2 DEF MissedInv, Init
<1>2. MissedInv /\ [Next]_vars => MissedInv'
    <2> SUFFICES ASSUME MissedInv, [Next]_vars PROVE MissedInv'
        OBVIOUS
    <2>1. host' = host
        BY HostKept
    <2>2. (Legible => Sorted)'
        BY <2>1, SortedKept DEF MissedInv, Legible
    <2>3. ASSUME Plain(host), host.arm7 % P = 0 PROVE Waited'
        <3>1. Sorted /\ Legible /\ Waited /\ host \in Hosts
            BY <2>3, PlainIsLegible DEF MissedInv
        <3>2. Sorted'
            BY <3>1, SortedKept
        <3>3. CASE UNCHANGED vars
            BY <3>1, <3>3 DEF vars, Waited
        <3>4. ASSUME NEW zero \in BOOLEAN, WMBProcessHeader(zero) PROVE Waited'
            BY <2>3, <3>1, <3>4, AllAwaited DEF WMBProcessHeader, Waited
        <3>5. CASE OtherFrame
            BY <3>1, <3>5 DEF OtherFrame, Waited
        <3>6. ASSUME NEW f \in Frames(host), NEW fh_seq \in FhSeq, WMBProcessData(f, fh_seq)
              PROVE  Waited'
            <4>1. CASE Untouched
                BY <2>1, <3>1, <4>1 DEF Untouched, Waited
            <4>2. CASE /\ f.pkt \in Packets(host) /\ f.size = Size(host, f.pkt)
                       /\ Store(f, f.pkt, data_sizes, PktSizeAt(f.pkt))
                <5>1. stage = "data"
                    BY <3>6 DEF WMBProcessData
                <5> QED  BY <2>1, <2>3, <3>1, <3>2, <4>2, <5>1, StoreWaits
            <4> QED  BY <3>1, <3>6, <4>1, <4>2, FrameStep
        <3> QED  BY <3>3, <3>4, <3>5, <3>6 DEF Next
    <2> QED  BY <2>1, <2>2, <2>3 DEF MissedInv
<1>3. MissedInv => MissedNone
    <2> SUFFICES ASSUME MissedInv, Plain(host), host.arm7 % P = 0, rom # NoRom
                 PROVE  stored = Packets(host)
        BY DEF MissedNone
    <2>1. Waited /\ Sorted
        BY PlainIsLegible DEF MissedInv
    <2> QED  BY <2>1 DEF Waited, Sorted
<1> QED  BY <1>1, <1>2, <1>3, PTL DEF Spec

-----------------------------------------------------------------------------
(* A steady capture *)

SteadyCaptures == Steady /\ \A h \in Hosts : Regular(h)

\* Every packet stored is at its place, and the marks are what it says they are.
Placed ==
    /\ wild = FALSE
    /\ arm7s \in {0, host.arm9} /\ arm7e \in {0, Total(host)}
    /\ saved_data \in [Bytes(host) -> Bytes(host) \cup {-1}]
    /\ \A b \in Bytes(host) : saved_data[b] \in {-1, b}
    /\ \A k \in stored : \A b \in Start(host, k) .. Start(host, k) + Size(host, k) - 1 :
          saved_data[b] = b
    /\ (\E k \in stored : k >= Packets9(host)) => arm7s = host.arm9

\* The program is written when all packets are stored, and not before.
Phase ==
    /\ stage = "header" => stored = {} /\ rom = NoRom /\ arm7e_seq = 0
    /\ stage = "data" =>
          /\ rom = NoRom /\ stored # Packets(host)
          /\ \/ arm7e_seq = LastSeq(host)
             \/ arm7e_seq = Count(host) - 1 /\ Count(host) \in stored
    /\ stage = "assembled" =>
          stored = Packets(host) /\ rom = Program(host) /\ arm7e_seq \in Seqs(host)

SteadyInv == Sorted /\ Placed /\ Phase

LEMMA LastSeqType ==
    ASSUME NEW h \in Hosts PROVE LastSeq(h) \in 1 .. Count(h)
<1>1. /\ h.arm9 \in Nat \ {0} /\ h.arm7 \in Nat \ {0} /\ P \in Nat \ {0}
      /\ BlockOf(h) \in Nat \ {0} /\ BlockOf(h) <= P
    BY HostType, WmbDataConstants
<1>2. /\ Blocks(h.arm9, P) <= Blocks(h.arm9, BlockOf(h))
      /\ h.arm7 \div P <= Blocks(h.arm7, BlockOf(h))
      /\ Blocks(h.arm9, P) \in Nat \ {0}
      /\ Blocks(h.arm9, BlockOf(h)) \in Nat /\ Blocks(h.arm7, BlockOf(h)) \in Nat
    BY <1>1, FewerBlocks, BlocksCover
<1>3. h.arm7 \div P \in Nat
    BY <1>1
<1> QED  BY <1>2, <1>3 DEF LastSeq, Count, Packets9

\* In a steady capture packets go where they belong.
LEMMA SteadyPlace ==
    ASSUME Sorted, Steady, Regular(host), NEW f, NEW k \in Packets(host), f.pkt = k,
           SizesKnown(f)
    PROVE  Position(data_sizes, k, PktSizeAt(k)) = Start(host, k)
<1>1. /\ host \in Hosts /\ Packets(host) = 1 .. Count(host) /\ k \in 1 .. Count(host)
      /\ Count(host) \in Nat /\ Packets9(host) \in Nat /\ BlockOf(host) \in Nat
    BY HostType DEF Sorted
<1>2. PktSizeAt(k) \in Nat
    BY <1>1, PktSizeType
<1>3. ASSUME NEW j \in Packets(host) \ stored, j < k
      PROVE  Size(host, j) = PktSizeAt(k)
    <2>1. k # 1 /\ j # Count(host) /\ 1 \in Packets(host)
        BY <1>1, <1>3
    <2>2. Size(host, j) = Size(host, 1) /\ 1 \in stored /\ (host.short => pkt_size = Q)
        BY <1>1, <1>3, <2>1 DEF SizesKnown
    <2>3. PktSizeAt(k) = pkt_size
        BY <2>1 DEF PktSizeAt
    <2>4. CASE ~host.short
        BY <2>2, <2>3, <2>4 DEF Sorted
    <2>5. CASE host.short
        <3>1. BlockOf(host) = Q
            BY <2>5 DEF BlockOf
        <3>2. j # Packets9(host) => Size(host, j) = BlockOf(host)
            BY <1>1, <2>1, PacketPlace
        <3>3. j = Packets9(host) => Size(host, 1) = BlockOf(host)
            <4>1. j = Packets9(host) => 1 # Packets9(host) /\ 1 # Count(host)
                BY <1>1, <1>3, <2>1, <2>2
            <4> QED  BY <1>1, <2>1, <4>1, PacketPlace
        <3> QED  BY <2>2, <2>3, <2>5, <3>1, <3>2, <3>3
    <2> QED  BY <2>4, <2>5
<1> QED  BY <1>2, <1>3, PositionIsStart

\* What a packet that goes to its place changes.
LEMMA StoreAtPlace ==
    ASSUME Sorted, Placed, NEW f, NEW k \in Packets(host), NEW pkt, f.pkt = k,
           f.size = Size(host, k), f.start = Start(host, k),
           Position(data_sizes, k, pkt) = Start(host, k), Store(f, k, data_sizes, pkt)
    PROVE  LET here == Start(host, k) .. Start(host, k) + Size(host, k) - 1
           IN  /\ stored' = stored \cup {k} /\ wild' = FALSE
               /\ saved_data' = [b \in Bytes(host) |-> IF b \in here THEN b ELSE saved_data[b]]
               /\ arm7s' \in {0, host.arm9} /\ arm7e' \in {0, Total(host)}
               /\ k >= Packets9(host) \/ arm7s = host.arm9 => arm7s' = host.arm9
               /\ arm7e_seq' = arm7e_seq \/ (k = Count(host) /\ arm7e_seq' = k - 1)
               /\ \/ /\ arm7e_seq' # 0 /\ \A i \in 0 .. arm7e_seq' - 1 : data_sizes'[i] # 0
                     /\ rom' = AssembleNds(saved_data', arm7s', Total(host))
                     /\ stage' = "assembled"
                  \/ /\ ~(arm7e_seq' # 0 /\ \A i \in 0 .. arm7e_seq' - 1 : data_sizes'[i] # 0)
                     /\ rom' = rom /\ stage' = stage
<1> DEFINE s == Start(host, k)
           z == Size(host, k)
           end == s + z
           A == host.arm9
           T == Total(host)
           found9 == end >= A /\ arm7s = 0
           cur == IF found9 THEN Clipped(end, A) ELSE end
           found7 == cur >= T /\ arm7e = 0
           n == Packets9(host)
           c == Count(host)
           all == arm7e_seq' # 0 /\ \A i \in 0 .. arm7e_seq' - 1 : data_sizes'[i] # 0
<1>1. /\ s \in Nat /\ z \in Nat \ {0} /\ end <= T /\ A \in Nat \ {0} /\ T \in Nat /\ T > A
      /\ (k >= n => end >= A) /\ (k = c <=> end = T)
    <2>1. /\ host \in Hosts /\ Packets(host) = 1 .. c /\ k \in 1 .. c /\ n \in Nat
          /\ A \in Nat \ {0} /\ host.arm7 \in Nat \ {0} /\ T = A + host.arm7 /\ c \in Nat
          /\ BlockOf(host) \in Nat
        BY HostType DEF Sorted
    <2>2. /\ s \in Nat /\ z \in 1 .. BlockOf(host) /\ s + z <= T
          /\ (k > n => s >= A) /\ (k = n => s + z = A) /\ (k = c <=> s + z = T)
        BY <2>1, PacketPlace
    <2> HIDE DEF s, z, A, T, n, c
    <2> QED  BY <2>1, <2>2
<1>2. /\ stored' = stored \cup {k}
      /\ saved_data' = [b \in Bytes(host) |->
                          IF b \in s .. end - 1 THEN s + b - s ELSE saved_data[b]]
      /\ wild' = (end > T)
      /\ arm7s' = IF found9 THEN cur ELSE arm7s
      /\ arm7e_seq' = IF found7 THEN k - 1 ELSE arm7e_seq
    BY DEF Store
<1>3. \/ /\ all /\ arm7e' = T /\ rom' = AssembleNds(saved_data', arm7s', arm7e')
         /\ stage' = "assembled"
      \/ /\ ~all /\ arm7e' = (IF found7 THEN T ELSE arm7e) /\ rom' = rom /\ stage' = stage
    BY Zenon DEF Store
<1>4. cur = IF found9 THEN A ELSE end
    BY <1>1 DEF Clipped
<1>5. saved_data' = [b \in Bytes(host) |-> IF b \in s .. end - 1 THEN b ELSE saved_data[b]]
    <2>1. \A b \in Bytes(host) : s + b - s = b
        BY <1>1, HostType DEF Bytes, Sorted
    <2> HIDE DEF s, end
    <2> QED  BY <1>2, <2>1
<1>6. wild' = FALSE
    <2>1. (end > T) = FALSE
        BY <1>1
    <2> QED  BY <1>2, <2>1, Zenon
<1>7. found7 => k = c
    BY <1>1, <1>4
<1>8. arm7s' \in {0, A} /\ (k >= n \/ arm7s = A => arm7s' = A)
    <2>1. arm7s \in {0, A}
        BY DEF Placed
    <2>2. k >= n => found9 \/ arm7s = A
        BY <1>1, <2>1
    <2>3. found9 => arm7s' = A
        BY <1>2, <1>4
    <2>4. ~found9 => arm7s' = arm7s
        BY <1>2
    <2> HIDE DEF found9, cur
    <2> QED  BY <2>1, <2>2, <2>3, <2>4
<1>9. arm7e' \in {0, T}
    <2>1. arm7e \in {0, T}
        BY DEF Placed
    <2> HIDE DEF found7, all, T
    <2> QED  BY <1>3, <2>1
<1>10. arm7e_seq' = arm7e_seq \/ (k = c /\ arm7e_seq' = k - 1)
    <2> HIDE DEF found7, c
    <2> QED  BY <1>2, <1>7
<1>11. \/ /\ all /\ rom' = AssembleNds(saved_data', arm7s', T) /\ stage' = "assembled"
       \/ /\ ~all /\ rom' = rom /\ stage' = stage
    <2> HIDE DEF found7, all, T
    <2> QED  BY <1>3
<1>12. s .. end - 1 = Start(host, k) .. Start(host, k) + Size(host, k) - 1
    <2>1. end - 1 = s + z - 1
        BY <1>1
    <2> QED  BY <2>1
<1>13. stored' = stored \cup {k}
    BY <1>2
<1> HIDE DEF found7, found9, cur
<1> QED  BY <1>5, <1>6, <1>8, <1>9, <1>10, <1>11, <1>12, <1>13, Zenon

\* What AssembleNds writes when every byte is at its place.
LEMMA AssembledRight ==
    ASSUME NEW h \in Hosts, NEW saved, \A b \in Bytes(h) : saved[b] = b
    PROVE  AssembleNds(saved, h.arm9, Total(h)) = Program(h)
<1>1. /\ h.arm9 \in Nat \ {0} /\ h.arm7 \in Nat \ {0} /\ Total(h) = h.arm9 + h.arm7
    BY HostType
<1>2. /\ \A b \in 0 .. h.arm9 - 1 : saved[b] = b
      /\ \A b \in 0 .. h.arm7 - 1 : saved[h.arm9 + b] = h.arm9 + b
      /\ Total(h) - h.arm9 - 1 = h.arm7 - 1
    BY <1>1 DEF Bytes
<1>3. /\ [b \in 0 .. h.arm9 - 1 |-> saved[b]] = [b \in 0 .. h.arm9 - 1 |-> b]
      /\ [b \in 0 .. Total(h) - h.arm9 - 1 |-> saved[h.arm9 + b]]
           = [b \in 0 .. h.arm7 - 1 |-> h.arm9 + b]
    BY <1>2
<1> QED  BY <1>3, Zenon DEF AssembleNds, Program

LEMMA StorePlaces ==
    ASSUME Sorted, Placed, host' = host, NEW f, NEW k \in Packets(host), NEW pkt, f.pkt = k,
           f.size = Size(host, k), f.start = Start(host, k),
           Position(data_sizes, k, pkt) = Start(host, k), Store(f, k, data_sizes, pkt)
    PROVE  Placed'
<1> DEFINE here == Start(host, k) .. Start(host, k) + Size(host, k) - 1
<1>1. /\ stored' = stored \cup {k} /\ wild' = FALSE
      /\ saved_data' = [b \in Bytes(host) |-> IF b \in here THEN b ELSE saved_data[b]]
      /\ arm7s' \in {0, host.arm9} /\ arm7e' \in {0, Total(host)}
      /\ k >= Packets9(host) \/ arm7s = host.arm9 => arm7s' = host.arm9
    BY StoreAtPlace
<1>2. saved_data' \in [Bytes(host) -> Bytes(host) \cup {-1}]
    BY <1>1 DEF Placed
<1>3. \A b \in Bytes(host) : saved_data'[b] \in {-1, b}
    BY <1>1 DEF Placed
<1>4. ASSUME NEW j \in stored', NEW b \in Start(host, j) .. Start(host, j) + Size(host, j) - 1
      PROVE  saved_data'[b] = b
    <2>1. b \in Bytes(host)
        <3>1. j \in Packets(host) /\ host \in Hosts
            BY <1>1 DEF Sorted
        <3>2. /\ Start(host, j) \in Nat /\ Size(host, j) \in 1 .. BlockOf(host)
              /\ Start(host, j) + Size(host, j) <= Total(host)
            BY <3>1, PacketPlace
        <3>3. Total(host) \in Nat /\ BlockOf(host) \in Nat
            BY <3>1, HostType
        <3> QED  BY <3>2, <3>3 DEF Bytes
    <2>2. CASE b \in here
        BY <1>1, <2>1, <2>2
    <2>3. CASE b \notin here
        <3>1. j \in stored
            BY <1>1, <2>3
        <3>2. saved_data[b] = b
            BY <3>1 DEF Placed
        <3> QED  BY <1>1, <2>1, <2>3, <3>2
    <2> QED  BY <2>2, <2>3
<1>5. (\E j \in stored' : j >= Packets9(host)) => arm7s' = host.arm9
    <2> SUFFICES ASSUME NEW j \in stored', j >= Packets9(host) PROVE arm7s' = host.arm9
        OBVIOUS
    <2>1. j = k \/ j \in stored
        BY <1>1
    <2> QED  BY <1>1, <2>1 DEF Placed
<1> QED  BY <1>1, <1>2, <1>3, <1>4, <1>5 DEF Placed

\* A packet of a steady capture: it is stored, and the program is written if it is
\* the last one.
LEMMA StorePhase ==
    ASSUME Sorted, Placed, Phase, Sorted', Placed', host' = host, stage = "data",
           NEW f, NEW k \in Packets(host), NEW pkt, f.pkt = k, f.size = Size(host, k),
           f.start = Start(host, k), TailNotLast(f),
           Position(data_sizes, k, pkt) = Start(host, k), Store(f, k, data_sizes, pkt)
    PROVE  /\ Phase' /\ stored' = stored \cup {k}
           /\ rom' = IF stored' = Packets(host) THEN Program(host) ELSE NoRom
<1> DEFINE c == Count(host)
           n == arm7e_seq'
           found == stored'
           sizes == data_sizes'
           all == n # 0 /\ \A i \in 0 .. n - 1 : sizes[i] # 0
<1>1. /\ host \in Hosts /\ c \in Nat /\ Packets(host) = 1 .. c /\ c > Packets9(host)
      /\ Packets9(host) \in Nat \ {0} /\ LastSeq(host) \in 1 .. c /\ Seqs(host) = 0 .. c
    BY HostType, LastSeqType DEF Sorted
<1>2. /\ stored' = stored \cup {k}
      /\ arm7e_seq' = arm7e_seq \/ (k = c /\ arm7e_seq' = k - 1)
      /\ \/ /\ all /\ rom' = AssembleNds(saved_data', arm7s', Total(host))
            /\ stage' = "assembled"
         \/ ~all /\ rom' = rom /\ stage' = stage
    BY StoreAtPlace
<1>3. rom = NoRom /\ (arm7e_seq = LastSeq(host) \/ (arm7e_seq = c - 1 /\ c \in stored))
    BY DEF Phase
<1>4. n \in 1 .. c /\ (n = LastSeq(host) \/ (n = c - 1 /\ c \in found))
    BY <1>1, <1>2, <1>3
<1>5. found \subseteq Packets(host)
    BY Zenon DEF Sorted
<1>6. \A j \in Packets(host) : sizes[j - 1] = IF j \in found THEN Size(host, j) ELSE 0
    BY Zenon DEF Sorted
<1>7. all => found = Packets(host)
    <2> SUFFICES ASSUME all PROVE Packets(host) \subseteq found
        BY <1>5
    <2> HIDE DEF n, found, sizes
    <2>1. 1 .. n \subseteq found
        <3>1. n \in 0 .. Count(host) /\ \A i \in 0 .. n - 1 : sizes[i] # 0
            BY <1>1, <1>4
        <3>2. host \in Hosts
            BY <1>1
        <3> HIDE DEF c
        <3> QED  BY <1>6, <3>1, <3>2, NoGaps
    <2>2. CASE n = LastSeq(host)
        <3>1. found = stored \cup {f.pkt}
            BY <1>2 DEF found
        <3>2. LastSeq(host) = (host.arm9 + P - 1) \div P + host.arm7 \div P
            BY DEF LastSeq, Blocks
        <3> QED  BY <2>1, <2>2, <3>1, <3>2 DEF TailNotLast
    <2>3. CASE n = c - 1 /\ c \in found
        <3>1. \A j \in 1 .. c : j \in 1 .. c - 1 \/ j = c
            BY <1>1
        <3> QED  BY <1>1, <2>1, <2>3, <3>1
    <2> QED  BY <1>4, <2>2, <2>3
<1>8. found = Packets(host) => all
    <2> SUFFICES ASSUME found = Packets(host) PROVE all
        OBVIOUS
    <2> HIDE DEF n, found, sizes
    <2> SUFFICES ASSUME NEW i \in 0 .. n - 1 PROVE sizes[i] # 0
        BY <1>1, <1>4
    <2>1. i + 1 \in Packets(host) /\ (i + 1) - 1 = i
        BY <1>1, <1>4
    <2>2. Size(host, i + 1) # 0
        BY <1>1, <2>1, SizeType
    <2>3. sizes[(i + 1) - 1] = Size(host, i + 1)
        BY <1>6, <2>1, Zenon
    <2> QED  BY <2>1, <2>2, <2>3
<1>9. found = Packets(host) => AssembleNds(saved_data', arm7s', Total(host)) = Program(host)
    <2> SUFFICES ASSUME found = Packets(host)
                 PROVE  AssembleNds(saved_data', arm7s', Total(host)) = Program(host)
        OBVIOUS
    <2>1. arm7s' = host.arm9
        <3>1. c \in stored' /\ c >= Packets9(host)
            BY <1>1
        <3> QED  BY <3>1 DEF Placed
    <2>2. \A b \in Bytes(host) : saved_data'[b] = b
        <3> SUFFICES ASSUME NEW b \in Bytes(host) PROVE saved_data'[b] = b
            OBVIOUS
        <3>1. PICK j \in Packets(host) : b \in Start(host, j) .. Start(host, j) + Size(host, j) - 1
            BY <1>1, PacketsCover
        <3>2. j \in stored'
            BY <3>1
        <3> QED  BY <3>1, <3>2 DEF Placed
    <2> DEFINE saved == saved_data'
    <2>3. AssembleNds(saved, host.arm9, Total(host)) = Program(host)
        <3>1. \A b \in Bytes(host) : saved[b] = b
            BY <2>2
        <3> HIDE DEF saved
        <3> QED  BY <1>1, <3>1, AssembledRight
    <2> QED  BY <2>1, <2>3
<1>10. rom' = IF found = Packets(host) THEN Program(host) ELSE NoRom
    <2> HIDE DEF all, found
    <2> QED  BY <1>2, <1>3, <1>7, <1>8, <1>9
<1>11. Phase'
    <2>1. CASE all
        <3>1. found = Packets(host) /\ rom' = Program(host) /\ stage' = "assembled"
            BY <1>2, <1>7, <1>10, <2>1
        <3>2. arm7e_seq' \in Seqs(host)
            BY <1>1, <1>4
        <3> QED  BY <3>1, <3>2 DEF Phase
    <2>2. CASE ~all
        <3>1. found # Packets(host) /\ rom' = NoRom /\ stage' = "data"
            BY <1>2, <1>3, <1>8, <2>2
        <3>2. /\ stored' # Packets(host')
              /\ n = LastSeq(host') \/ (n = Count(host') - 1 /\ Count(host') \in stored')
            BY <1>4, <3>1
        <3> QED  BY <3>1, <3>2 DEF Phase
    <2> QED  BY <2>1, <2>2
<1> QED  BY <1>2, <1>10, <1>11

LEMMA SteadyInit == ASSUME Init PROVE SteadyInv
<1>1. Sorted
    BY InitSorted
<1>2. host \in Hosts /\ host.arm9 \in Nat /\ Total(host) \in Nat
    BY <1>1, HostType DEF Sorted
<1>3. /\ saved_data = [b \in Bytes(host) |-> -1]
      /\ wild = FALSE /\ arm7s = 0 /\ arm7e = 0 /\ stored = {}
    BY DEF Init
<1>4. Placed
    BY <1>2, <1>3 DEF Placed
<1>5. Phase
    BY DEF Init, Phase
<1> QED  BY <1>1, <1>4, <1>5 DEF SteadyInv

\* Every step of a steady capture keeps all this, and is one that Download allows.
LEMMA SteadyStep ==
    ASSUME SteadyCaptures, SteadyInv, [Next]_vars
    PROVE  SteadyInv' /\ [Promise!Next]_(Promise!vars)
<1>1. /\ Sorted /\ Placed /\ Phase /\ Legible /\ Steady /\ Regular(host) /\ host \in Hosts
    BY DEF SteadyCaptures, SteadyInv, Legible, Sorted
<1>2. Sorted' /\ host' = host
    BY <1>1, SortedKept, HostKept
<1>3. ASSUME UNCHANGED <<stored, rom>>, Placed', Phase'
      PROVE  SteadyInv' /\ [Promise!Next]_(Promise!vars)
    BY <1>2, <1>3 DEF SteadyInv, Promise!vars
<1>4. CASE UNCHANGED vars
    <2>1. UNCHANGED <<stored, rom>> /\ Placed' /\ Phase'
        BY <1>1, <1>4 DEF vars, Placed, Phase
    <2> QED  BY <1>3, <2>1
<1>5. ASSUME NEW zero \in BOOLEAN, WMBProcessHeader(zero)
      PROVE  SteadyInv' /\ [Promise!Next]_(Promise!vars)
    <2>1. UNCHANGED <<stored, rom>> /\ Placed'
        BY <1>1, <1>2, <1>5 DEF WMBProcessHeader, Placed
    <2>2. Phase'
        <3>1. stored = {} /\ rom = NoRom /\ stage' = "data" /\ arm7e_seq' = LastSeq(host)
            BY <1>1, <1>5 DEF WMBProcessHeader, Phase
        <3>2. Packets(host) # {}
            <4>1. /\ Packets(host) = 1 .. Count(host) /\ Count(host) \in Nat
                  /\ Count(host) > Packets9(host) /\ Packets9(host) \in Nat
                BY <1>1, HostType
            <4>2. 1 \in Packets(host)
                BY <4>1
            <4> QED  BY <4>2
        <3> QED  BY <1>2, <2>1, <3>1, <3>2 DEF Phase
    <2> QED  BY <1>3, <2>1, <2>2
<1>6. CASE OtherFrame
    <2>1. UNCHANGED <<stored, rom>> /\ Placed' /\ Phase'
        BY <1>1, <1>6 DEF OtherFrame, Placed, Phase
    <2> QED  BY <1>3, <2>1
<1>7. ASSUME NEW f \in Frames(host), NEW fh_seq \in FhSeq, WMBProcessData(f, fh_seq)
      PROVE  SteadyInv' /\ [Promise!Next]_(Promise!vars)
    <2>1. CASE Untouched
        <3>1. UNCHANGED <<stored, rom>> /\ Placed' /\ Phase'
            BY <1>1, <1>2, <2>1 DEF Untouched, Placed, Phase
        <3> QED  BY <1>3, <3>1
    <2>2. CASE /\ f.pkt \in Packets(host)
               /\ f.size = Size(host, f.pkt) /\ f.start = Start(host, f.pkt)
               /\ Store(f, f.pkt, data_sizes, PktSizeAt(f.pkt))
        <3> DEFINE k == f.pkt
        <3>1. stage = "data" /\ SizesKnown(f) /\ TailNotLast(f)
            BY <1>1, <1>7 DEF WMBProcessData
        <3>2. Position(data_sizes, k, PktSizeAt(k)) = Start(host, k)
            BY <1>1, <2>2, <3>1, SteadyPlace
        <3>3. Placed'
            BY <1>1, <1>2, <2>2, <3>2, StorePlaces
        <3>4. /\ Phase' /\ stored' = stored \cup {k}
              /\ rom' = IF stored' = Packets(host) THEN Program(host) ELSE NoRom
            BY <1>1, <1>2, <2>2, <3>1, <3>2, <3>3, StorePhase
        <3>5. rom = NoRom /\ stored # Packets(host)
            BY <1>1, <3>1 DEF Phase
        <3>6. CASE k \in stored
            BY <1>3, <3>3, <3>4, <3>5, <3>6
        <3>7. CASE k \notin stored
            <4>1. Promise!Capture(k)
                BY <1>2, <2>2, <3>4, <3>5, <3>7 DEF Promise!Capture
            <4>2. Promise!Next
                BY <2>2, <4>1 DEF Promise!Next
            <4> QED  BY <1>2, <3>3, <3>4, <4>2 DEF SteadyInv
        <3> QED  BY <3>6, <3>7
    <2> QED  BY <1>1, <1>7, <2>1, <2>2, FrameStep
<1> QED  BY <1>4, <1>5, <1>6, <1>7 DEF Next

\* From a steady capture every byte copied is the one that belongs there.
THEOREM BytesPlaced ==
    ASSUME SteadyCaptures PROVE Spec => []PlacedRight
<1>1. Init => SteadyInv
    BY SteadyInit
<1>2. SteadyInv /\ [Next]_vars => SteadyInv'
    BY SteadyStep
<1>3. SteadyInv => PlacedRight
    <2> SUFFICES ASSUME SteadyInv PROVE TypeOK /\ \A b \in Bytes(host) : saved_data[b] \in {-1, b}
        BY DEF PlacedRight
    <2>1. Sorted /\ Placed /\ Phase /\ host \in Hosts
        BY DEF SteadyInv, Sorted
    <2>2. /\ LastSeq(host) \in 1 .. Count(host) /\ Seqs(host) = 0 .. Count(host)
          /\ Count(host) \in Nat /\ Count(host) > 0
          /\ P \in Nat /\ BlockOf(host) \in Nat /\ BlockOf(host) <= P
        <3>1. Count(host) > Packets9(host) /\ Packets9(host) \in Nat \ {0} /\ Count(host) \in Nat
            BY <2>1, HostType
        <3> QED  BY <2>1, <3>1, HostType, LastSeqType, WmbDataConstants
    <2>3. arm7e_seq \in Seqs(host)
        BY <2>1, <2>2 DEF Phase, Sorted
    <2>4. pkt_size \in 0 .. P
        <3>1. pkt_size \in 0 .. BlockOf(host)
            BY <2>1 DEF Sorted
        <3> QED  BY <2>2, <3>1
    <2>5. wild \in BOOLEAN
        BY <2>1 DEF Placed
    <2> QED  BY <2>1, <2>3, <2>4, <2>5 DEF Sorted, Placed, TypeOK
<1> QED  BY <1>1, <1>2, <1>3, PTL DEF Spec

\* A steady capture implements Download: nothing is written before all packets
\* were found, and then the program that was sent.
THEOREM PromiseKept ==
    ASSUME SteadyCaptures PROVE Spec => Promise!Init /\ [][Promise!Next]_(Promise!vars)
<1>1. Init => SteadyInv /\ Promise!Init
    BY SteadyInit DEF Init, Promise!Init
<1>2. SteadyInv /\ [Next]_vars => SteadyInv' /\ [Promise!Next]_(Promise!vars)
    BY SteadyStep
<1> QED  BY <1>1, <1>2, PTL DEF Spec
=============================================================================
