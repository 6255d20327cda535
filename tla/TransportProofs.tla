-------------------------- MODULE TransportProofs --------------------------
(***************************************************************************)
(* Proofs about DllImage: what sect.c reads from a DLL with any number of  *)
(* sections.                                                               *)
(***************************************************************************)
EXTENDS Transport, WellFoundedInduction, TLAPS

-----------------------------------------------------------------------------
(* Induction, over a set instead of a formula.                             *)

LEMMA LeastNumber ==
    ASSUME NEW T, T \subseteq Nat, T # {}
    PROVE  \E x \in T : \A y \in T : x <= y
  <1> DEFINE R == {xy \in Nat \X Nat : xy[1] < xy[2]}
  <1>1. IsWellFoundedOn(R, Nat)
    BY NatLessThanWellFounded DEF OpToRel
  <1>2. \A x, y \in Nat : <<y, x>> \in R <=> y < x
    OBVIOUS
  <1> HIDE DEF R
  <1>3. PICK x \in T : \A y \in T : ~(<<y, x>> \in R)
    BY <1>1, WFMin
  <1>4. ASSUME NEW y \in T PROVE x <= y
    <2>1. x \in Nat /\ y \in Nat
      OBVIOUS
    <2>2. ~(y < x)
      BY <1>2, <1>3, <2>1
    <2>3. QED
      BY <2>1, <2>2
  <1>5. QED
    BY <1>4

(* A set of numbers with 0 and, below N, every successor has all up to N.  *)
LEMMA Counting ==
    ASSUME NEW N \in Nat, NEW T, 0 \in T,
           \A k \in 0..N : k < N /\ k \in T => k + 1 \in T
    PROVE  0..N \subseteq T
  <1> SUFFICES ASSUME NEW a \in 0..N, a \notin T PROVE FALSE
    OBVIOUS
  <1> DEFINE U == {k \in 0..N : k \notin T}
  <1>1. U \subseteq Nat /\ U # {}
    OBVIOUS
  <1>2. PICK x \in U : \A y \in U : x <= y
    BY <1>1, LeastNumber
  <1>3. x \in 0..N /\ x \notin T /\ x # 0
    BY <1>2
  <1>4. x - 1 \in 0..N /\ x - 1 < N /\ (x - 1) + 1 = x /\ ~(x <= x - 1)
    BY <1>3
  <1>5. x - 1 \in T
    BY <1>2, <1>4
  <1>6. QED
    BY <1>3, <1>4, <1>5

(* A function that is defined step by step exists: f[k + 1] is step[k] of  *)
(* f[k].                                                                   *)
Runs(f, N, S, base, step) ==
    /\ f \in [0..N -> S] /\ f[0] = base
    /\ \A k \in 0..N : k < N => f[k + 1] = step[k][f[k]]

LEMMA RunsExist ==
    ASSUME NEW N \in Nat, NEW S, NEW base \in S, NEW step \in [Nat -> [S -> S]]
    PROVE  \E f : Runs(f, N, S, base, step)
  <1> DEFINE T == {k \in Nat : \E f : Runs(f, k, S, base, step)}
  <1>1. 0 \in T
    <2>1. Runs([k \in 0..0 |-> base], 0, S, base, step)
      BY DEF Runs
    <2>2. QED
      BY <2>1
  <1>2. ASSUME NEW k \in 0..N, k < N, k \in T PROVE k + 1 \in T
    <2>1. PICK f : Runs(f, k, S, base, step)
      BY <1>2
    <2> DEFINE g == [j \in 0..(k + 1) |-> IF j = k + 1 THEN step[k][f[k]] ELSE f[j]]
    <2>2. k \in Nat /\ f \in [0..k -> S] /\ f[k] \in S /\ step[k][f[k]] \in S
      BY <2>1 DEF Runs
    <2>3. g \in [0..(k + 1) -> S]
      BY <2>2
    <2>4. g[0] = base
      BY <2>1, <2>2 DEF Runs
    <2>5. ASSUME NEW j \in 0..(k + 1), j < k + 1 PROVE g[j + 1] = step[j][g[j]]
      <3>1. CASE j = k
        BY <3>1, <2>2
      <3>2. CASE j < k
        <4>1. j \in 0..k /\ j + 1 \in 0..k /\ j + 1 # k + 1 /\ j # k + 1
          BY <3>2, <2>2
        <4>2. f[j + 1] = step[j][f[j]]
          BY <4>1, <3>2, <2>1 DEF Runs
        <4>3. g[j + 1] = f[j + 1] /\ g[j] = f[j]
          BY <4>1, <2>2
        <4>4. QED
          BY <4>2, <4>3
      <3>3. QED
        BY <3>1, <3>2, <2>5, <2>2
    <2> HIDE DEF g
    <2>6. Runs(g, k + 1, S, base, step)
      BY <2>3, <2>4, <2>5 DEF Runs
    <2>7. QED
      BY <2>6, <2>2
  <1> HIDE DEF T
  <1>3. 0..N \subseteq T
    BY <1>1, <1>2, Counting
  <1>4. N \in T
    BY <1>3
  <1>5. QED
    BY <1>4 DEF T

-----------------------------------------------------------------------------
(* Memory of a DLL: pe_copy_mem and pe_peek_mem_i8                         *)

(* What is needed of a file: sections with a place, a size and data.       *)
SectionsOk(pe) ==
    /\ pe.size \in Nat /\ Len(pe.sects) \in Nat /\ DOMAIN pe.sects = 1..Len(pe.sects)
    /\ \A i \in 1..Len(pe.sects) :
          /\ pe.sects[i].off \in Nat /\ pe.sects[i].size \in Nat
          /\ Len(pe.sects[i].data) \in Nat

(* Cell a is in section sec, and sec has data for it.                      *)
InFile(sec, a) == Holds(sec, a) /\ a - sec.off < Len(sec.data)
Cell(sec, a)   == sec.data[a - sec.off + 1]

IsMax(m, a, b) == m \in Int /\ m >= a /\ m >= b /\ (m = a \/ m = b)
IsMin(m, a, b) == m \in Int /\ m <= a /\ m <= b /\ (m = a \/ m = b)

LEMMA Extremes ==
    ASSUME NEW a \in Int, NEW b \in Int
    PROVE  IsMax(Max({a, b}), a, b) /\ IsMin(Min({a, b}), a, b)
  <1>1. \E x \in {a, b} : \A y \in {a, b} : x >= y
    OBVIOUS
  <1>2. Max({a, b}) \in {a, b} /\ \A y \in {a, b} : Max({a, b}) >= y
    BY <1>1 DEF Max
  <1>3. \E x \in {a, b} : \A y \in {a, b} : x <= y
    OBVIOUS
  <1>4. Min({a, b}) \in {a, b} /\ \A y \in {a, b} : Min({a, b}) <= y
    BY <1>3 DEF Min
  <1>5. QED
    BY <1>2, <1>4 DEF IsMax, IsMin

(* What copying a section does to the buffer's cell k                      *)
Within(off, size, sec, k) ==
    LET start == Max({off, sec.off})
        end   == Min({off + size, sec.off + sec.size})
        last  == Min({end, Max({start, sec.off + Len(sec.data)})})
    IN  start < end /\ start <= off + k /\ off + k < last

LEMMA CopyRange ==
    ASSUME NEW off \in Nat, NEW size \in Nat, NEW k \in 0..(size - 1), NEW sec,
           sec.off \in Nat, sec.size \in Nat, Len(sec.data) \in Nat
    PROVE  Within(off, size, sec, k) <=> InFile(sec, off + k)
  <1>1. PICK start, end, last :
            /\ start = Max({off, sec.off}) /\ end = Min({off + size, sec.off + sec.size})
            /\ last = Min({end, Max({start, sec.off + Len(sec.data)})})
    OBVIOUS
  <1>10. Within(off, size, sec, k) <=> (start < end /\ start <= off + k /\ off + k < last)
    BY <1>1 DEF Within
  <1>2. PICK o \in Nat, n \in Nat, d \in Nat : o = sec.off /\ n = sec.size /\ d = Len(sec.data)
    OBVIOUS
  <1>3. start \in Int /\ start >= off /\ start >= o /\ (start = off \/ start = o)
    <2>1. start = Max({off, o}) /\ off \in Int /\ o \in Int
      BY <1>1, <1>2
    <2>2. QED
      BY <2>1, Extremes, Zenon DEF IsMax
  <1>4. end \in Int /\ end <= off + size /\ end <= o + n /\ (end = off + size \/ end = o + n)
    <2>1. end = Min({off + size, o + n}) /\ off + size \in Int /\ o + n \in Int
      BY <1>1, <1>2
    <2>2. QED
      BY <2>1, Extremes, Zenon DEF IsMin
  <1>5. PICK m : /\ m = Max({start, o + d}) /\ m \in Int
                 /\ m >= start /\ m >= o + d /\ (m = start \/ m = o + d)
    <2>1. start \in Int /\ o + d \in Int
      BY <1>3
    <2>2. IsMax(Max({start, o + d}), start, o + d)
      BY <2>1, Extremes, Zenon
    <2>3. QED
      BY <2>2, Zenon DEF IsMax
  <1>6. last \in Int /\ last <= end /\ last <= m /\ (last = end \/ last = m)
    <2>1. last = Min({end, m}) /\ end \in Int /\ m \in Int
      BY <1>1, <1>2, <1>4, <1>5
    <2>2. QED
      BY <2>1, Extremes, Zenon DEF IsMin
  <1>7. InFile(sec, off + k) <=> (o <= off + k /\ off + k < o + n /\ (off + k) - o < d)
    BY <1>2 DEF InFile, Holds
  <1>8. (start < end /\ start <= off + k /\ off + k < last)
        <=> (o <= off + k /\ off + k < o + n /\ (off + k) - o < d)
    BY <1>3, <1>4, <1>5, <1>6
  <1>9. QED
    BY <1>10, <1>7, <1>8

(* The buffer after the first i sections                                   *)
Copied(buf, pe, off, size, i) ==
    /\ buf = [k \in 0..(size - 1) |-> buf[k]]
    /\ \A k \in 0..(size - 1) :
          /\ \A j \in 1..i : InFile(pe.sects[j], off + k) => buf[k] = Cell(pe.sects[j], off + k)
          /\ (\A j \in 1..i : ~InFile(pe.sects[j], off + k)) => buf[k] = 0

LEMMA CopyWalks ==
    ASSUME NEW pe, SectionsOk(pe), Disjoint(pe), NEW off \in Nat, NEW size \in Nat,
           off + size <= pe.size
    PROVE  Copied(pe_copy_mem(pe, off, size), pe, off, size, Len(pe.sects))
  <1> DEFINE N == Len(pe.sects)
             D == 0..(size - 1)
             V == {0} \cup {pe.sects[i].data[j] : i \in Nat, j \in Int}
             S == [D -> V]
             base == [k \in D |-> 0]
             Start(sec) == Max({off, sec.off})
             End(sec) == Min({off + size, sec.off + sec.size})
             Till(sec) == Min({End(sec), Max({Start(sec), sec.off + Len(sec.data)})})
             Hit(sec, k) == Start(sec) < End(sec) /\ Start(sec) <= off + k /\ off + k < Till(sec)
             Turn(b, i) == [k \in DOMAIN b |->
                              IF Hit(pe.sects[i], k) THEN pe.sects[i].data[off + k - pe.sects[i].off + 1]
                              ELSE b[k]]
             step == [i \in Nat |-> [b \in S |-> IF i + 1 \in 1..N THEN Turn(b, i + 1) ELSE b]]
             P(w) == w = [i \in 0..N |-> IF i = 0 THEN base ELSE Turn(w[i-1], i)]
             f == CHOOSE w : P(w)
  <1>1. N \in Nat
    BY DEF SectionsOk
  <1>2. pe_copy_mem(pe, off, size) = f[N]
    BY DEF pe_copy_mem
  <1>3. base \in S
    OBVIOUS
  <1>4. ASSUME NEW i \in 1..N, NEW k \in D
        PROVE  /\ Hit(pe.sects[i], k) <=> InFile(pe.sects[i], off + k)
               /\ off + k - pe.sects[i].off + 1 \in Int
    <2>1. PICK sec : sec = pe.sects[i]
      OBVIOUS
    <2>2. sec.off \in Nat /\ sec.size \in Nat /\ Len(sec.data) \in Nat
      BY <2>1 DEF SectionsOk
    <2>3. Hit(sec, k) <=> InFile(sec, off + k)
      <3>1. Hit(sec, k) <=> Within(off, size, sec, k)
        BY DEF Within
      <3> HIDE DEF Hit
      <3>2. Within(off, size, sec, k) <=> InFile(sec, off + k)
        BY <2>2, CopyRange
      <3>3. QED
        BY <3>1, <3>2
    <2>4. off + k - sec.off + 1 \in Int
      BY <2>2
    <2> HIDE DEF Hit
    <2>5. QED
      BY <2>1, <2>3, <2>4
  <1> HIDE DEF N, Hit
  <1>5. ASSUME NEW b \in S, NEW i \in 1..N
        PROVE  /\ Turn(b, i) \in S
               /\ \A k \in D : Turn(b, i)[k] = IF Hit(pe.sects[i], k)
                                               THEN pe.sects[i].data[off + k - pe.sects[i].off + 1]
                                               ELSE b[k]
    <2>1. DOMAIN b = D
      OBVIOUS
    <2>2. ASSUME NEW k \in D PROVE pe.sects[i].data[off + k - pe.sects[i].off + 1] \in V /\ b[k] \in V
      <3>1. i \in Nat /\ off + k - pe.sects[i].off + 1 \in Int
        BY <1>1, <1>4
      <3>2. QED
        BY <3>1
    <2> HIDE DEF D, V
    <2>3. QED
      BY <2>1, <2>2
  <1> HIDE DEF V
  <1> HIDE DEF S, base, Turn
  <1>6. step \in [Nat -> [S -> S]]
    <2>1. ASSUME NEW i \in Nat, NEW b \in S
          PROVE  (IF i + 1 \in 1..N THEN Turn(b, i + 1) ELSE b) \in S
      BY <1>5
    <2>2. QED
      BY <2>1
  <1>7. \E w : P(w) /\ (\A i \in 0..N : w[i] \in S)
    <2>1. PICK g : Runs(g, N, S, base, step)
      BY <1>1, <1>3, <1>6, RunsExist
    <2>2. ASSUME NEW i \in 0..N PROVE g[i] = IF i = 0 THEN base ELSE Turn(g[i-1], i)
      <3>1. CASE i = 0
        BY <2>1, <3>1 DEF Runs
      <3>2. CASE i # 0
        <4>1. i - 1 \in 0..N /\ i - 1 < N /\ (i - 1) + 1 = i /\ i - 1 \in Nat /\ i \in 1..N
          BY <3>2, <1>1
        <4>2. g[i-1] \in S /\ g[i] = step[i-1][g[i-1]]
          BY <2>1, <4>1 DEF Runs
        <4>3. QED
          BY <4>1, <4>2, <3>2
      <3>3. QED
        BY <3>1, <3>2
    <2> HIDE DEF step
    <2>3. g = [i \in 0..N |-> g[i]] /\ (\A i \in 0..N : g[i] \in S)
      BY <2>1 DEF Runs
    <2>4. P(g)
      BY <2>2, <2>3
    <2>5. QED
      BY <2>3, <2>4
  <1> HIDE DEF P
  <1>8. P(f)
    BY <1>7
  <1>9. f = [i \in 0..N |-> IF i = 0 THEN base ELSE Turn(f[i-1], i)]
    BY <1>8 DEF P
  <1> HIDE DEF f
  <1>10. ASSUME NEW i \in 0..N PROVE f[i] = IF i = 0 THEN base ELSE Turn(f[i-1], i)
    BY <1>9, Zenon
  <1> DEFINE T == {i \in 0..N : f[i] \in S /\ Copied(f[i], pe, off, size, i)}
  <1>11. 0 \in T
    <2>1. 0 \in 0..N /\ f[0] = base
      BY <1>1, <1>10
    <2>2. Copied(base, pe, off, size, 0)
      BY DEF Copied, base
    <2>3. QED
      BY <1>3, <2>1, <2>2
  <1>12. ASSUME NEW i \in 0..N, i < N, i \in T PROVE i + 1 \in T
    <2>1. i + 1 \in 0..N /\ i + 1 \in 1..N /\ i + 1 # 0 /\ (i + 1) - 1 = i /\ i \in Nat
      BY <1>1, <1>12
    <2>2. PICK b : b = f[i]
      OBVIOUS
    <2>3. b \in S /\ Copied(b, pe, off, size, i)
      BY <1>12, <2>2
    <2>4. PICK c : c = Turn(b, i + 1)
      OBVIOUS
    <2>5. f[i+1] = c
      BY <1>10, <2>1, <2>2, <2>4
    <2>6. PICK sec : sec = pe.sects[i+1]
      OBVIOUS
    <2>7. c \in S /\ \A k \in D : c[k] = IF InFile(sec, off + k) THEN Cell(sec, off + k) ELSE b[k]
      <3>1. ASSUME NEW k \in D
            PROVE c[k] = IF InFile(sec, off + k) THEN Cell(sec, off + k) ELSE b[k]
        <4>1. c[k] = IF Hit(sec, k) THEN sec.data[off + k - sec.off + 1] ELSE b[k]
          BY <1>5, <2>1, <2>3, <2>4, <2>6
        <4>2. Hit(sec, k) <=> InFile(sec, off + k)
          BY <1>4, <2>1, <2>6
        <4>3. PICK v : v = sec.data[off + k - sec.off + 1]
          OBVIOUS
        <4>4. Cell(sec, off + k) = v
          <5>1. PICK o \in Nat : o = sec.off
            BY <2>1, <2>6 DEF SectionsOk, N
          <5>2. (off + k) - o + 1 = off + k - o + 1
            OBVIOUS
          <5>3. QED
            BY <4>3, <5>1, <5>2 DEF Cell
        <4>5. c[k] = IF Hit(sec, k) THEN v ELSE b[k]
          BY <4>1, <4>3
        <4>6. QED
          BY <4>2, <4>4, <4>5
      <3>2. QED
        BY <1>5, <2>1, <2>3, <2>4, <3>1
    <2>8. ASSUME NEW k \in D
          PROVE  /\ \A j \in 1..(i+1) :
                        InFile(pe.sects[j], off + k) => c[k] = Cell(pe.sects[j], off + k)
                 /\ (\A j \in 1..(i+1) : ~InFile(pe.sects[j], off + k)) => c[k] = 0
      <3>1. \A j \in 1..(i+1) : j = i + 1 \/ j \in 1..i
        BY <2>1
      <3>2. /\ \A j \in 1..i : InFile(pe.sects[j], off + k) => b[k] = Cell(pe.sects[j], off + k)
            /\ (\A j \in 1..i : ~InFile(pe.sects[j], off + k)) => b[k] = 0
        BY <2>3 DEF Copied
      <3>3. ASSUME NEW j \in 1..i PROVE ~(InFile(pe.sects[j], off + k) /\ InFile(sec, off + k))
        <4>1. j \in 1..N /\ i + 1 \in 1..N /\ j # i + 1
          BY <1>1, <2>1
        <4>2. off + k \in 0..(pe.size - 1)
          BY DEF SectionsOk
        <4>3. DOMAIN pe.sects = 1..N
          BY DEF SectionsOk, N
        <4>4. QED
          BY <4>1, <4>2, <4>3, <2>6 DEF Disjoint, InFile
      <3>4. CASE InFile(sec, off + k)
        BY <3>1, <3>2, <3>3, <3>4, <2>1, <2>6, <2>7
      <3>5. CASE ~InFile(sec, off + k)
        <4>1. c[k] = b[k]
          BY <3>5, <2>7
        <4>2. \A j \in 1..i : j \in 1..(i+1)
          BY <2>1
        <4>3. QED
          BY <3>1, <3>2, <3>5, <4>1, <4>2, <2>6
      <3>6. QED
        BY <3>4, <3>5
    <2>9. c = [k \in D |-> c[k]]
      BY <2>7 DEF S
    <2>10. Copied(c, pe, off, size, i + 1)
      BY <2>8, <2>9 DEF Copied
    <2>11. QED
      BY <2>1, <2>5, <2>7, <2>10
  <1>13. N \in T
    <2> HIDE DEF T
    <2>1. 0..N \subseteq T
      BY <1>1, <1>11, <1>12, Counting
    <2>2. QED
      BY <1>1, <2>1
  <1>14. QED
    BY <1>2, <1>13 DEF N

LEMMA FileCellIs ==
    ASSUME NEW pe, SectionsOk(pe), Disjoint(pe), NEW a \in 0..(pe.size - 1)
    PROVE  /\ \A j \in 1..Len(pe.sects) :
                 InFile(pe.sects[j], a) => FileCell(pe, a) = Cell(pe.sects[j], a)
           /\ (\A j \in 1..Len(pe.sects) : ~InFile(pe.sects[j], a)) => FileCell(pe, a) = 0
  <1>1. DOMAIN pe.sects = 1..Len(pe.sects)
    BY DEF SectionsOk
  <1>2. ASSUME NEW j \in 1..Len(pe.sects), InFile(pe.sects[j], a)
        PROVE  FileCell(pe, a) = Cell(pe.sects[j], a)
    <2>1. PICK c : c = CHOOSE i \in DOMAIN pe.sects : Holds(pe.sects[i], a)
      OBVIOUS
    <2>2. \E i \in DOMAIN pe.sects : Holds(pe.sects[i], a)
      BY <1>1, <1>2 DEF InFile
    <2>3. c \in DOMAIN pe.sects /\ Holds(pe.sects[c], a)
      BY <2>1, <2>2
    <2>4. c = j
      BY <1>1, <1>2, <2>3 DEF Disjoint, InFile
    <2>5. \E i \in DOMAIN pe.sects : Holds(pe.sects[i], a) /\ a - pe.sects[i].off < Len(pe.sects[i].data)
      BY <1>1, <1>2 DEF InFile
    <2>6. FileCell(pe, a) = pe.sects[c].data[a - pe.sects[c].off + 1]
      BY <2>1, <2>5 DEF FileCell
    <2>7. QED
      BY <2>4, <2>6 DEF Cell
  <1>3. ASSUME \A j \in 1..Len(pe.sects) : ~InFile(pe.sects[j], a)
        PROVE  FileCell(pe, a) = 0
    BY <1>1, <1>3 DEF FileCell, InFile
  <1>4. QED
    BY <1>2, <1>3

LEMMA PeekIs ==
    ASSUME NEW pe, SectionsOk(pe), Disjoint(pe), NEW a \in 0..(pe.size - 1)
    PROVE  pe_peek_mem_i8(pe, a) = FileCell(pe, a)
  <1> DEFINE I == {i \in 1..Len(pe.sects) : pe.sects[i].off <= a /\ a < pe.sects[i].off + pe.sects[i].size}
  <1>1. PICK x : x = IF I # {} THEN Min(I) ELSE 0
    OBVIOUS
  <1>2. pe_peek_mem_i8(pe, a) = IF x = 0 \/ Len(pe.sects[x].data) <= a - pe.sects[x].off THEN 0
                                ELSE pe.sects[x].data[a - pe.sects[x].off + 1]
    BY <1>1 DEF pe_peek_mem_i8, SelectInSeq
  <1>3. Len(pe.sects) \in Nat /\ DOMAIN pe.sects = 1..Len(pe.sects)
    BY DEF SectionsOk
  <1>4. \A i \in 1..Len(pe.sects) : i \in I <=> Holds(pe.sects[i], a)
    BY DEF Holds
  <1>5. CASE I = {}
    <2>1. x = 0
      BY <1>1, <1>5
    <2>2. \A j \in 1..Len(pe.sects) : ~InFile(pe.sects[j], a)
      BY <1>4, <1>5 DEF InFile
    <2>3. FileCell(pe, a) = 0
      BY <2>2, FileCellIs
    <2>4. QED
      BY <1>2, <2>1, <2>3
  <1>6. CASE I # {}
    <2>1. I \subseteq Nat
      BY <1>3
    <2>2. \E y \in I : \A z \in I : y <= z
      BY <1>6, <2>1, LeastNumber
    <2>3. x \in I
      BY <1>1, <1>6, <2>2 DEF Min
    <2>4. x \in 1..Len(pe.sects) /\ x # 0 /\ Holds(pe.sects[x], a)
      BY <1>3, <1>4, <2>3
    <2>5. PICK sec : sec = pe.sects[x]
      OBVIOUS
    <2>6. sec.off \in Nat /\ Len(sec.data) \in Nat
      BY <2>4, <2>5 DEF SectionsOk
    <2>7. CASE a - sec.off < Len(sec.data)
      <3>1. InFile(sec, a)
        BY <2>4, <2>5, <2>7 DEF InFile
      <3>2. FileCell(pe, a) = Cell(sec, a)
        BY <2>4, <2>5, <3>1, FileCellIs
      <3>3. ~(Len(sec.data) <= a - sec.off)
        BY <2>6, <2>7
      <3>4. QED
        BY <1>2, <2>4, <2>5, <3>2, <3>3 DEF Cell
    <2>8. CASE Len(sec.data) <= a - sec.off
      <3>1. ASSUME NEW j \in 1..Len(pe.sects) PROVE ~InFile(pe.sects[j], a)
        <4>1. CASE j = x
          BY <4>1, <2>5, <2>6, <2>8 DEF InFile
        <4>2. CASE j # x
          BY <4>2, <1>3, <2>4 DEF Disjoint, InFile
        <4>3. QED
          BY <4>1, <4>2
      <3>2. FileCell(pe, a) = 0
        BY <3>1, FileCellIs
      <3>3. QED
        BY <1>2, <2>5, <2>8, <3>2
    <2>9. QED
      BY <2>6, <2>7, <2>8
  <1>7. QED
    BY <1>5, <1>6

(* Any stretch of any image, with any number of sections of any size, is   *)
(* read as its file says: at once by pe_copy_mem, whose loop clips each    *)
(* section to the stretch, to its size and to its data, and cell by cell   *)
(* by pe_peek_mem_i8.  The sections must not overlap.                      *)
THEOREM EveryCopy ==
    ASSUME NEW pe, SectionsOk(pe)
    PROVE  CopySound(pe)
  <1> SUFFICES ASSUME Disjoint(pe), NEW off \in 0..(pe.size - 1)
               PROVE  /\ pe_peek_mem_i8(pe, off) = FileCell(pe, off)
                      /\ \A n \in 0..(pe.size - off) :
                            pe_copy_mem(pe, off, n) = [k \in 0..(n - 1) |-> FileCell(pe, off + k)]
    BY DEF CopySound
  <1>1. pe_peek_mem_i8(pe, off) = FileCell(pe, off)
    BY PeekIs
  <1>2. ASSUME NEW n \in 0..(pe.size - off)
        PROVE  pe_copy_mem(pe, off, n) = [k \in 0..(n - 1) |-> FileCell(pe, off + k)]
    <2>1. pe.size \in Nat
      BY DEF SectionsOk
    <2>2. off \in Nat /\ n \in Nat /\ off + n <= pe.size
      BY <2>1
    <2>3. PICK buf : buf = pe_copy_mem(pe, off, n)
      OBVIOUS
    <2>4. Copied(buf, pe, off, n, Len(pe.sects))
      BY <2>2, <2>3, CopyWalks
    <2>5. ASSUME NEW k \in 0..(n - 1) PROVE buf[k] = FileCell(pe, off + k)
      <3>1. PICK a \in 0..(pe.size - 1) : a = off + k
        BY <2>1, <2>2
      <3>2. /\ \A j \in 1..Len(pe.sects) : InFile(pe.sects[j], a) => buf[k] = Cell(pe.sects[j], a)
            /\ (\A j \in 1..Len(pe.sects) : ~InFile(pe.sects[j], a)) => buf[k] = 0
        BY <2>4, <3>1 DEF Copied
      <3>3. buf[k] = FileCell(pe, a)
        BY <3>2, FileCellIs
      <3>4. QED
        BY <3>1, <3>3
    <2>6. buf = [k \in 0..(n - 1) |-> buf[k]]
      BY <2>4 DEF Copied
    <2>7. QED
      BY <2>3, <2>5, <2>6
  <1>3. QED
    BY <1>1, <1>2
=============================================================================
