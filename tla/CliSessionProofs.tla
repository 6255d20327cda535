-------------------------- MODULE CliSessionProofs --------------------------
(***************************************************************************)
(* Proofs about CliSession and the record store it uses, for any records,  *)
(* any number of nodes, sessions and commands.                             *)
(***************************************************************************)
EXTENDS CliSession, FiniteSetTheorems, WellFoundedInduction, TLAPS

Once(s) == \A i, j \in 1..Len(s) : s[i] = s[j] => i = j

-----------------------------------------------------------------------------
(* Induction, over a set instead of a formula.                             *)

LEMMA NatMin ==
    ASSUME NEW T, T \subseteq Nat, T # {}
    PROVE  \E x \in T : \A y \in T : x <= y
  <1> DEFINE R == {xy \in Nat \X Nat : xy[1] < xy[2]}
  <1>1. IsWellFoundedOn(R, Nat)
    BY NatLessThanWellFounded DEF OpToRel
  <1>2. \A x, y \in Nat : <<y, x>> \in R <=> y < x
    OBVIOUS
  <1> HIDE DEF R
  <1>3. PICK x \in T : \A y \in T : ~(<<y, x>> \in R)
    BY <1>1, WFMin
  <1>4. ASSUME NEW y \in T PROVE x <= y
    <2>1. x \in Nat /\ y \in Nat
      OBVIOUS
    <2>2. ~(y < x)
      BY <1>2, <1>3, <2>1
    <2>3. QED
      BY <2>1, <2>2
  <1>5. QED
    BY <1>4

(* A set of numbers with 0 and, below N, every successor has all up to N.  *)
LEMMA Upto ==
    ASSUME NEW N \in Nat, NEW T, 0 \in T,
           \A k \in 0..N : k < N /\ k \in T => k + 1 \in T
    PROVE  0..N \subseteq T
  <1> SUFFICES ASSUME NEW a \in 0..N, a \notin T PROVE FALSE
    OBVIOUS
  <1> DEFINE U == {k \in 0..N : k \notin T}
  <1>1. U \subseteq Nat /\ U # {}
    OBVIOUS
  <1>2. PICK x \in U : \A y \in U : x <= y
    BY <1>1, NatMin
  <1>3. x \in 0..N /\ x \notin T /\ x # 0
    BY <1>2
  <1>4. x - 1 \in 0..N /\ x - 1 < N /\ (x - 1) + 1 = x /\ ~(x <= x - 1)
    BY <1>3
  <1>5. x - 1 \in T
    BY <1>2, <1>4
  <1>6. QED
    BY <1>3, <1>4, <1>5

(* A function that is defined step by step exists: f[k + 1] is step[k] of  *)
(* f[k].                                                                   *)
Steps(f, N, S, base, step) ==
    /\ f \in [0..N -> S] /\ f[0] = base
    /\ \A k \in 0..N : k < N => f[k + 1] = step[k][f[k]]

LEMMA StepsExist ==
    ASSUME NEW N \in Nat, NEW S, NEW base \in S, NEW step \in [Nat -> [S -> S]]
    PROVE  \E f : Steps(f, N, S, base, step)
  <1> DEFINE T == {k \in Nat : \E f : Steps(f, k, S, base, step)}
  <1>1. 0 \in T
    <2>1. Steps([k \in 0..0 |-> base], 0, S, base, step)
      BY DEF Steps
    <2>2. QED
      BY <2>1
  <1>2. ASSUME NEW k \in 0..N, k < N, k \in T PROVE k + 1 \in T
    <2>1. PICK f : Steps(f, k, S, base, step)
      BY <1>2
    <2> DEFINE g == [j \in 0..(k + 1) |-> IF j = k + 1 THEN step[k][f[k]] ELSE f[j]]
    <2>2. k \in Nat /\ f \in [0..k -> S] /\ f[k] \in S /\ step[k][f[k]] \in S
      BY <2>1 DEF Steps
    <2>3. g \in [0..(k + 1) -> S]
      BY <2>2
    <2>4. g[0] = base
      BY <2>1, <2>2 DEF Steps
    <2>5. ASSUME NEW j \in 0..(k + 1), j < k + 1 PROVE g[j + 1] = step[j][g[j]]
      <3>1. CASE j = k
        BY <3>1, <2>2
      <3>2. CASE j < k
        <4>1. j \in 0..k /\ j + 1 \in 0..k /\ j + 1 # k + 1 /\ j # k + 1
          BY <3>2, <2>2
        <4>2. f[j + 1] = step[j][f[j]]
          BY <4>1, <3>2, <2>1 DEF Steps
        <4>3. g[j + 1] = f[j + 1] /\ g[j] = f[j]
          BY <4>1, <2>2
        <4>4. QED
          BY <4>2, <4>3
      <3>3. QED
        BY <3>1, <3>2, <2>5, <2>2
    <2> HIDE DEF g
    <2>6. Steps(g, k + 1, S, base, step)
      BY <2>3, <2>4, <2>5 DEF Steps
    <2>7. QED
      BY <2>6, <2>2
  <1> HIDE DEF T
  <1>3. 0..N \subseteq T
    BY <1>1, <1>2, Upto
  <1>4. N \in T
    BY <1>3
  <1>5. QED
    BY <1>4 DEF T

-----------------------------------------------------------------------------
(* Linked lists.  l is the list that starts at n and follows link.         *)
Elem(l, i) == IF i \in 1..Len(l) THEN l[i] ELSE Null

Chain(n, link, l) ==
    /\ l \in Seq(Nodes) /\ Once(l)
    /\ n = Elem(l, 1)
    /\ \A i \in 1..Len(l) : link[l[i]] = Elem(l, i + 1)

LEMMA CountUpto ==
    ASSUME NEW n \in Nat
    PROVE  IsFiniteSet(1..n) /\ Cardinality(1..n) = n
  <1>1. IsFiniteSet(1..n) /\ Cardinality(1..n) = IF 1 > n THEN 0 ELSE n - 1 + 1
    BY FS_Interval
  <1>2. QED
    BY <1>1

LEMMA NodeFacts == /\ Null \notin Nodes /\ MaxNodes \in Nat /\ IsFiniteSet(Nodes)
                   /\ Cardinality(Nodes) = MaxNodes
  <1>1. MaxNodes \in Nat /\ MaxNodes >= 1
    BY RecordAssumption
  <1>2. IsFiniteSet(1..MaxNodes) /\ Cardinality(1..MaxNodes) = MaxNodes
    BY <1>1, CountUpto
  <1>3. QED
    BY <1>1, <1>2 DEF Null, Nodes

(* A list without repetition has at most one place for each node ...       *)
LEMMA ListFits ==
    ASSUME NEW l \in Seq(Nodes), Once(l)
    PROVE  Len(l) \in 0..MaxNodes
  <1>1. Len(l) \in Nat
    OBVIOUS
  <1> SUFFICES ASSUME Len(l) > MaxNodes PROVE FALSE
    BY <1>1, NodeFacts
  <1>2. IsFiniteSet(1..Len(l)) /\ Cardinality(1..Len(l)) = Len(l)
    BY <1>1, CountUpto
  <1>3. l \in [1..Len(l) -> Nodes]
    OBVIOUS
  <1>4. \E i, j \in 1..Len(l) : i # j /\ l[i] = l[j]
    BY <1>2, <1>3, NodeFacts, FS_PigeonHole
  <1>5. QED
    BY <1>4 DEF Once

(* ... and a shorter one misses a node. *)
LEMMA ListMisses ==
    ASSUME NEW l \in Seq(Nodes), Len(l) < MaxNodes
    PROVE  \E n \in Nodes : \A i \in 1..Len(l) : l[i] # n
  <1> SUFFICES ASSUME \A n \in Nodes : \E i \in 1..Len(l) : l[i] = n PROVE FALSE
    OBVIOUS
  <1> DEFINE f == [n \in Nodes |-> CHOOSE i \in 1..Len(l) : l[i] = n]
  <1>1. Len(l) \in Nat
    OBVIOUS
  <1>2. IsFiniteSet(1..Len(l)) /\ Cardinality(1..Len(l)) = Len(l)
    BY <1>1, CountUpto
  <1>3. \A n \in Nodes : f[n] \in 1..Len(l) /\ l[f[n]] = n
    OBVIOUS
  <1>4. f \in [Nodes -> 1..Len(l)]
    BY <1>3
  <1> HIDE DEF f
  <1>5. \E m, n \in Nodes : m # n /\ f[m] = f[n]
    BY <1>2, <1>4, NodeFacts, FS_PigeonHole
  <1>6. QED
    BY <1>3, <1>5

(* Following the links of a list meets its nodes. *)
LEMMA PathIs ==
    ASSUME NEW n, NEW link, NEW l, Chain(n, link, l)
    PROVE  Path(n, link) = l
  <1> DEFINE P(w) == w = [k \in 0..MaxNodes |->
                             IF k = 0 THEN n ELSE IF w[k-1] = Null THEN Null ELSE link[w[k-1]]]
             at == CHOOSE w : P(w)
             v == [k \in 0..MaxNodes |-> Elem(l, k + 1)]
  <1>1. l \in Seq(Nodes) /\ Len(l) \in 0..MaxNodes /\ MaxNodes \in Nat
    BY NodeFacts, ListFits DEF Chain
  <1>2. \A i \in 1..Len(l) : l[i] # Null /\ Elem(l, i) = l[i]
    BY <1>1, NodeFacts DEF Elem
  <1>3. ASSUME NEW k \in 0..MaxNodes, k # 0
        PROVE  v[k] = IF v[k-1] = Null THEN Null ELSE link[v[k-1]]
    <2>1. k - 1 \in 0..MaxNodes /\ v[k-1] = Elem(l, k) /\ v[k] = Elem(l, k + 1)
      BY <1>1, <1>3
    <2>2. CASE k \in 1..Len(l)
      BY <2>1, <2>2, <1>2 DEF Chain
    <2>3. CASE k \notin 1..Len(l)
      <3>1. k + 1 \notin 1..Len(l)
        BY <2>3, <1>1, <1>3
      <3>2. QED
        BY <2>1, <2>3, <3>1 DEF Elem
    <2>4. QED
      BY <2>2, <2>3
  <1>4. v[0] = n
    BY <1>1 DEF Chain
  <1>5. P(v)
    <2>1. \A k \in 0..MaxNodes : v[k] =
             IF k = 0 THEN n ELSE IF v[k-1] = Null THEN Null ELSE link[v[k-1]]
      BY <1>3, <1>4
    <2>2. QED
      BY <2>1
  <1> HIDE DEF v
  <1>6. P(at)
    BY <1>5
  <1>7. at = [k \in 0..MaxNodes |-> IF k = 0 THEN n ELSE IF at[k-1] = Null THEN Null ELSE link[at[k-1]]]
    BY <1>6
  <1> DEFINE T == {k \in 0..MaxNodes : at[k] = v[k]}
  <1> HIDE DEF at
  <1>8. 0 \in T
    BY <1>1, <1>4, <1>7
  <1>9. ASSUME NEW k \in 0..MaxNodes, k < MaxNodes, k \in T PROVE k + 1 \in T
    <2>1. k + 1 \in 0..MaxNodes /\ k + 1 # 0 /\ (k + 1) - 1 = k
      BY <1>1, <1>9
    <2>2. at[k + 1] = IF at[k] = Null THEN Null ELSE link[at[k]]
      BY <2>1, <1>7
    <2>3. v[k + 1] = IF v[k] = Null THEN Null ELSE link[v[k]]
      BY <2>1, <1>3
    <2>4. QED
      BY <2>1, <2>2, <2>3, <1>9
  <1> HIDE DEF T
  <1>10. 0..MaxNodes \subseteq T
    BY <1>1, <1>8, <1>9, Upto
  <1>11. \A k \in 0..MaxNodes : at[k] = Elem(l, k + 1)
    BY <1>10 DEF T, v
  <1>12. {j \in 0..MaxNodes : at[j] # Null} = 0..(Len(l) - 1)
    <2>1. ASSUME NEW j \in 0..MaxNodes PROVE at[j] # Null <=> j \in 0..(Len(l) - 1)
      <3>1. CASE j + 1 \in 1..Len(l)
        <4>1. at[j] # Null
          BY <3>1, <1>2, <1>11
        <4>2. j \in 0..(Len(l) - 1)
          BY <3>1, <1>1
        <4>3. QED
          BY <4>1, <4>2
      <3>2. CASE j + 1 \notin 1..Len(l)
        <4>1. at[j] = Null
          BY <3>2, <1>11 DEF Elem
        <4>2. j \notin 0..(Len(l) - 1)
          BY <3>2, <1>1
        <4>3. QED
          BY <4>1, <4>2
      <3>3. QED
        BY <3>1, <3>2
    <2>2. 0..(Len(l) - 1) \subseteq 0..MaxNodes
      BY <1>1
    <2>3. QED
      BY <2>1, <2>2
  <1>13. Cardinality(0..(Len(l) - 1)) = Len(l)
    <2>1. 0 \in Int /\ Len(l) - 1 \in Int
      BY <1>1
    <2>2. Cardinality(0..(Len(l) - 1)) = IF 0 > Len(l) - 1 THEN 0 ELSE (Len(l) - 1) - 0 + 1
      BY <2>1, FS_Interval
    <2>3. QED
      BY <2>2, <1>1
  <1>14. Path(n, link) = [k \in 1..Cardinality({j \in 0..MaxNodes : at[j] # Null}) |-> at[k-1]]
    BY DEF Path, at
  <1>15. Path(n, link) = [k \in 1..Len(l) |-> at[k-1]]
    BY <1>12, <1>13, <1>14
  <1>16. ASSUME NEW k \in 1..Len(l) PROVE at[k-1] = l[k]
    <2>1. k - 1 \in 0..MaxNodes /\ (k - 1) + 1 = k
      BY <1>1
    <2>2. QED
      BY <2>1, <1>2, <1>11
  <1>17. QED
    BY <1>1, <1>15, <1>16

-----------------------------------------------------------------------------
(* The heap.  l is its list of records, m its chain of results.            *)
Listed(db0, l) ==
    /\ Chain(db0.head, db0.next, l)
    /\ \A i \in 1..Len(l) : db0.prev[l[i]] = Elem(l, i - 1)
    /\ \A n \in Nodes : db0.rec[n] # Free <=> \E i \in 1..Len(l) : l[i] = n
    /\ \A i, j \in 1..Len(l) : db0.rec[l[i]] = db0.rec[l[j]] => i = j

Found(db0, m) ==
    /\ Chain(db0.result, db0.res, m)
    /\ \A i \in 1..Len(m) : db0.rec[m[i]] # Free
    /\ IF m = <<>> THEN db0.cursor = Null ELSE \E i \in 1..Len(m) : m[i] = db0.cursor

Inside(l, d) == {d.rec[l[i]] : i \in 1..Len(l)}

LEMMA HeapFacts ==
    ASSUME NEW d \in Heap
    PROVE  /\ d.head \in Nodes \cup {Null} /\ d.result \in Nodes \cup {Null}
           /\ d.cursor \in Nodes \cup {Null}
           /\ d.next \in [Nodes -> Nodes \cup {Null}] /\ d.prev \in [Nodes -> Nodes \cup {Null}]
           /\ d.res \in [Nodes -> Nodes \cup {Null}] /\ d.rec \in [Nodes -> Record \cup {Free}]
  BY DEF Heap

LEMMA HeapIs ==
    ASSUME NEW d, NEW h \in Nodes \cup {Null}, NEW r \in Nodes \cup {Null},
           NEW c \in Nodes \cup {Null},
           NEW nx \in [Nodes -> Nodes \cup {Null}], NEW pv \in [Nodes -> Nodes \cup {Null}],
           NEW rs \in [Nodes -> Nodes \cup {Null}], NEW rc \in [Nodes -> Record \cup {Free}],
           d = [head |-> h, result |-> r, cursor |-> c, next |-> nx, prev |-> pv,
                res |-> rs, rec |-> rc]
    PROVE  d \in Heap
  BY DEF Heap

LEMMA ElemFacts ==
    ASSUME NEW l \in Seq(Nodes)
    PROVE  /\ Len(l) \in Nat
           /\ \A i \in 1..Len(l) : l[i] \in Nodes /\ Elem(l, i) = l[i] /\ l[i] # Null
           /\ \A i : i \notin 1..Len(l) => Elem(l, i) = Null
           /\ \A i : Elem(l, i) \in Nodes \cup {Null}
  BY NodeFacts DEF Elem

(* What the list of records is, and that it is sound. *)
LEMMA ListedSound ==
    ASSUME NEW d \in Heap, NEW l, Listed(d, l)
    PROVE  /\ List(d) = l /\ ListSound(d) /\ RecordsOf(d) = Inside(l, d)
           /\ l \in Seq(Nodes) /\ Len(l) \in 0..MaxNodes
           /\ Inside(l, d) \subseteq Record
  <1>1. List(d) = l
    BY PathIs DEF Listed, List
  <1>2. l \in Seq(Nodes) /\ Once(l) /\ DOMAIN l = 1..Len(l)
    BY DEF Listed, Chain
  <1>3. Len(l) \in 0..MaxNodes
    BY <1>2, ListFits
  <1>4. \A i \in 1..Len(l) : l[i] \in Nodes /\ d.rec[l[i]] # Free
    BY <1>2 DEF Listed
  <1>5. RecordsOf(d) = Inside(l, d)
    BY <1>1, <1>2 DEF RecordsOf, Inside, ToSet
  <1>6. Inside(l, d) \subseteq Record
    BY <1>4, HeapFacts DEF Inside
  <1>7. IsInjective(l)
    BY <1>2 DEF Once, IsInjective
  <1>8. ToSet(l) = {n \in Nodes : d.rec[n] # Free}
    <2>1. \A n : n \in ToSet(l) <=> \E i \in 1..Len(l) : l[i] = n
      BY <1>2 DEF ToSet
    <2>2. \A n \in Nodes : d.rec[n] # Free <=> \E i \in 1..Len(l) : l[i] = n
      BY DEF Listed
    <2>3. QED
      BY <1>4, <2>1, <2>2
  <1>9. ASSUME NEW i \in DOMAIN l PROVE d.prev[l[i]] = IF i = 1 THEN Null ELSE l[i-1]
    <2>1. i \in 1..Len(l) /\ d.prev[l[i]] = Elem(l, i - 1)
      BY <1>2 DEF Listed
    <2>2. CASE i = 1
      BY <2>1, <2>2 DEF Elem
    <2>3. CASE i # 1
      <3>1. i - 1 \in 1..Len(l)
        BY <2>1, <2>3
      <3>2. QED
        BY <3>1, <2>1, <2>3 DEF Elem
    <2>4. QED
      BY <2>2, <2>3
  <1>10. IsInjective([i \in DOMAIN l |-> d.rec[l[i]]])
    BY <1>2 DEF Listed, IsInjective
  <1>11. ListSound(d)
    BY <1>1, <1>7, <1>8, <1>9, <1>10 DEF ListSound
  <1>12. QED
    BY <1>1, <1>2, <1>3, <1>5, <1>6, <1>11

LEMMA FoundAlive ==
    ASSUME NEW d \in Heap, NEW m, Found(d, m)
    PROVE  /\ Results(d) = m /\ ResultsAlive(d)
           /\ m \in Seq(Nodes) /\ Len(m) \in 0..MaxNodes
  <1>1. Results(d) = m
    BY PathIs DEF Found, Results
  <1>2. m \in Seq(Nodes) /\ Once(m) /\ DOMAIN m = 1..Len(m) /\ Len(m) \in Nat
    BY DEF Found, Chain
  <1>3. Len(m) \in 0..MaxNodes
    BY <1>2, ListFits
  <1>4. \A i \in DOMAIN m : d.rec[m[i]] # Free
    BY <1>2 DEF Found
  <1>5. IsInjective(m)
    BY <1>2 DEF Once, IsInjective
  <1>6. d.result = Elem(m, 1)
    BY DEF Found, Chain
  <1>7. ((d.result = Null) <=> (d.cursor = Null)) /\ (d.cursor # Null => d.cursor \in ToSet(m))
    <2>1. CASE m = <<>>
      <3>1. Elem(m, 1) = Null
        BY <2>1 DEF Elem
      <3>2. QED
        BY <3>1, <2>1, <1>6 DEF Found
    <2>2. CASE m # <<>>
      <3>1. 1 \in 1..Len(m)
        BY <2>2, <1>2
      <3>2. d.result # Null
        BY <3>1, <1>2, <1>6, ElemFacts
      <3>3. PICK i \in 1..Len(m) : m[i] = d.cursor
        BY <2>2 DEF Found
      <3>4. d.cursor # Null /\ d.cursor \in ToSet(m)
        BY <3>3, <1>2, ElemFacts DEF ToSet
      <3>5. QED
        BY <3>2, <3>4
    <2>3. QED
      BY <2>1, <2>2
  <1>8. ResultsAlive(d)
    BY <1>1, <1>4, <1>5, <1>7 DEF ResultsAlive
  <1>9. QED
    BY <1>1, <1>2, <1>3, <1>8

-----------------------------------------------------------------------------
(* A record put in front of the list. *)
LEMMA ConsFacts ==
    ASSUME NEW S, NEW s \in Seq(S), NEW e \in S
    PROVE  /\ <<e>> \o s \in Seq(S) /\ Len(<<e>> \o s) = Len(s) + 1
           /\ (<<e>> \o s)[1] = e
           /\ \A k \in 1..Len(s) : (<<e>> \o s)[k + 1] = s[k]
  OBVIOUS

(* malloc finds a node when there is room. *)
NewNode(d) == CHOOSE m \in Nodes : d.rec[m] = Free /\ \A k \in 1..(m-1) : d.rec[k] # Free

LEMMA NewNodeFacts ==
    ASSUME NEW d \in Heap, HasRoom(d)
    PROVE  NewNode(d) \in Nodes /\ d.rec[NewNode(d)] = Free
  <1> DEFINE T == {m \in Nodes : d.rec[m] = Free}
  <1>1. T \subseteq Nat /\ T # {}
    BY NodeFacts DEF HasRoom, Nodes
  <1>2. PICK m \in T : \A k \in T : m <= k
    BY <1>1, NatMin
  <1>3. m \in Nodes /\ d.rec[m] = Free /\ m \in 1..MaxNodes /\ MaxNodes \in Nat
    BY <1>2, NodeFacts DEF Nodes
  <1>4. \A k \in 1..(m-1) : d.rec[k] # Free
    <2> SUFFICES ASSUME NEW k \in 1..(m-1), d.rec[k] = Free PROVE FALSE
      OBVIOUS
    <2>1. k \in Nodes /\ ~(m <= k)
      BY <1>3 DEF Nodes
    <2>2. QED
      BY <2>1, <1>2
  <1>5. QED
    BY <1>3, <1>4 DEF NewNode

LEMMA PushIs ==
    ASSUME NEW d \in Heap, NEW r \in Record, HasRoom(d), NEW n, n = NewNode(d)
    PROVE  /\ n \in Nodes /\ d.rec[n] = Free
           /\ Push(d, r) \in Heap
           /\ Push(d, r).head = n
           /\ Push(d, r).result = d.result
           /\ Push(d, r).cursor = d.cursor
           /\ Push(d, r).res = d.res
           /\ Push(d, r).rec = [d.rec EXCEPT ![n] = r]
           /\ Push(d, r).next = [d.next EXCEPT ![n] = d.head]
           /\ Push(d, r).prev = [m \in Nodes |-> CASE m = n -> Null
                                                  [] m = d.head -> n
                                                  [] OTHER -> d.prev[m]]
  <1>1. n \in Nodes /\ d.rec[n] = Free
    BY NewNodeFacts
  <1> DEFINE pv == [m \in Nodes |-> CASE m = n -> Null
                                      [] m = d.head -> n
                                      [] OTHER -> d.prev[m]]
  <1>2. Push(d, r) = [d EXCEPT !.rec[n] = r, !.next[n] = d.head, !.head = n, !.prev = pv]
    BY DEF Push, NewNode
  <1>3. pv \in [Nodes -> Nodes \cup {Null}]
    BY <1>1, HeapFacts
  <1> HIDE DEF pv
  <1>4. Push(d, r) = [head |-> n, result |-> d.result, cursor |-> d.cursor,
                      next |-> [d.next EXCEPT ![n] = d.head], prev |-> pv,
                      res |-> d.res, rec |-> [d.rec EXCEPT ![n] = r]]
    BY <1>2 DEF Heap
  <1>5. /\ [d.next EXCEPT ![n] = d.head] \in [Nodes -> Nodes \cup {Null}]
        /\ [d.rec EXCEPT ![n] = r] \in [Nodes -> Record \cup {Free}]
    BY <1>1, HeapFacts
  <1>6. Push(d, r) \in Heap
    BY <1>1, <1>3, <1>4, <1>5, HeapFacts, HeapIs
  <1>7. QED
    BY <1>1, <1>4, <1>6 DEF pv

LEMMA PushKeeps ==
    ASSUME NEW d \in Heap, NEW r \in Record, HasRoom(d), NEW n, n = NewNode(d),
           NEW e, e = Push(d, r)
    PROVE  /\ n \in Nodes /\ d.rec[n] = Free /\ e \in Heap
           /\ e.result = d.result /\ e.cursor = d.cursor /\ e.res = d.res
           /\ e.rec = [d.rec EXCEPT ![n] = r]
  <1>1. n \in Nodes /\ d.rec[n] = Free
    BY NewNodeFacts
  <1>2. Push(d, r) \in Heap
    BY PushIs
  <1>3. Push(d, r).result = d.result /\ Push(d, r).cursor = d.cursor /\ Push(d, r).res = d.res
    BY PushIs
  <1>4. /\ n \in Nodes /\ d.rec[n] = Free
        /\ Push(d, r).head = n
        /\ Push(d, r).rec = [d.rec EXCEPT ![n] = r]
        /\ Push(d, r).next = [d.next EXCEPT ![n] = d.head]
        /\ Push(d, r).prev = [m \in Nodes |-> CASE m = n -> Null
                                               [] m = d.head -> n
                                               [] OTHER -> d.prev[m]]
    BY PushIs
  <1>5. QED
    BY <1>1, <1>2, <1>3, <1>4

LEMMA PushListed ==
    ASSUME NEW d \in Heap, NEW l, Listed(d, l), NEW r \in Record, HasRoom(d),
           r \notin Inside(l, d), NEW n, n = NewNode(d)
    PROVE  /\ Listed(Push(d, r), <<n>> \o l)
           /\ Inside(<<n>> \o l, Push(d, r)) = Inside(l, d) \cup {r}
  <1> DEFINE e == Push(d, r)
             s == <<n>> \o l
  <1>1. /\ n \in Nodes /\ d.rec[n] = Free
        /\ e.head = n
        /\ e.rec = [d.rec EXCEPT ![n] = r]
        /\ e.next = [d.next EXCEPT ![n] = d.head]
        /\ \A x \in Nodes : e.prev[x] = IF x = n THEN Null ELSE IF x = d.head THEN n ELSE d.prev[x]
    <2>1. /\ n \in Nodes /\ d.rec[n] = Free
          /\ e.head = n
          /\ e.rec = [d.rec EXCEPT ![n] = r]
          /\ e.next = [d.next EXCEPT ![n] = d.head]
          /\ e.prev = [m \in Nodes |-> CASE m = n -> Null
                                         [] m = d.head -> n
                                         [] OTHER -> d.prev[m]]
      BY PushIs
    <2>2. d.head # n
      <3>1. l \in Seq(Nodes) /\ d.head = Elem(l, 1)
        BY DEF Listed, Chain
      <3>2. CASE 1 \in 1..Len(l)
        BY <3>1, <3>2, <2>1, ElemFacts DEF Listed
      <3>3. CASE 1 \notin 1..Len(l)
        BY <3>1, <3>3, <2>1, NodeFacts DEF Elem
      <3>4. QED
        BY <3>2, <3>3
    <2> HIDE DEF e
    <2>3. QED
      BY <2>1, <2>2
  <1>2. l \in Seq(Nodes) /\ Once(l) /\ d.head = Elem(l, 1) /\ Len(l) \in Nat
    BY DEF Listed, Chain
  <1>3. /\ s \in Seq(Nodes) /\ Len(s) = Len(l) + 1 /\ s[1] = n
        /\ \A k \in 1..Len(l) : s[k + 1] = l[k]
    BY <1>1, <1>2, ConsFacts
  <1>4. \A k \in 1..Len(l) : l[k] \in Nodes /\ l[k] # n /\ d.rec[l[k]] # Free
    BY <1>1, <1>2 DEF Listed
  <1> HIDE DEF e, s
  <1>5. \A k \in 1..Len(s) : k = 1 \/ (k - 1 \in 1..Len(l) /\ s[k] = l[k - 1])
    <2> TAKE k \in 1..Len(s)
    <2>1. CASE k # 1
      <3>1. k - 1 \in 1..Len(l) /\ (k - 1) + 1 = k
        BY <2>1, <1>2, <1>3
      <3>2. QED
        BY <3>1, <1>3
    <2>2. QED
      BY <2>1
  <1>6. /\ e.rec[n] = r /\ e.next[n] = d.head /\ e.prev[n] = Null
        /\ \A x \in Nodes : x # n => e.rec[x] = d.rec[x] /\ e.next[x] = d.next[x]
        /\ \A x \in Nodes : x # n /\ x # d.head => e.prev[x] = d.prev[x]
    BY <1>1, HeapFacts
  <1>7. Once(s)
    <2> SUFFICES ASSUME NEW i \in 1..Len(s), NEW j \in 1..Len(s), s[i] = s[j] PROVE i = j
      BY DEF Once
    <2>1. CASE i = 1 \/ j = 1
      BY <2>1, <1>3, <1>4, <1>5
    <2>2. CASE i # 1 /\ j # 1
      <3>1. i - 1 = j - 1
        BY <2>2, <1>2, <1>5 DEF Once
      <3>2. QED
        BY <3>1
    <2>3. QED
      BY <2>1, <2>2
  <1>8. \A k \in 0..Len(l) : Elem(s, k + 2) = Elem(l, k + 1) /\ (k >= 1 => Elem(s, k) = s[k])
    <2> TAKE k \in 0..Len(l)
    <2>1. k >= 1 => k \in 1..Len(s)
      BY <1>2, <1>3
    <2>2. CASE k + 1 \in 1..Len(l)
      <3>1. (k + 1) + 1 = k + 2 /\ k + 2 \in 1..Len(s)
        BY <2>2, <1>2, <1>3
      <3>2. QED
        BY <3>1, <2>1, <2>2, <1>3 DEF Elem
    <2>3. CASE k + 1 \notin 1..Len(l)
      <3>1. k + 2 \notin 1..Len(s)
        BY <2>3, <1>2, <1>3
      <3>2. QED
        BY <3>1, <2>1, <2>3 DEF Elem
    <2>4. QED
      BY <2>2, <2>3
  <1>9. ASSUME NEW i \in 1..Len(s) PROVE e.next[s[i]] = Elem(s, i + 1)
    <2>1. CASE i = 1
      <3>1. Elem(s, 2) = Elem(l, 1)
        BY <1>2, <1>8
      <3>2. QED
        BY <3>1, <2>1, <1>2, <1>3, <1>6
    <2>2. CASE i # 1
      <3>1. i - 1 \in 1..Len(l) /\ s[i] = l[i - 1]
        BY <2>2, <1>5
      <3>2. d.next[l[i - 1]] = Elem(l, (i - 1) + 1)
        BY <3>1 DEF Listed, Chain
      <3>3. i - 1 \in 0..Len(l) /\ (i - 1) + 2 = i + 1
        BY <3>1, <1>2
      <3>4. Elem(s, i + 1) = Elem(l, (i - 1) + 1)
        BY <3>3, <1>8
      <3>5. QED
        BY <3>1, <3>2, <3>4, <1>4, <1>6
    <2>3. QED
      BY <2>1, <2>2
  <1>10. Chain(e.head, e.next, s)
    <2>1. e.head = Elem(s, 1)
      BY <1>1, <1>2, <1>3 DEF Elem
    <2>2. QED
      BY <2>1, <1>3, <1>7, <1>9 DEF Chain
  <1>11. ASSUME NEW i \in 1..Len(s) PROVE e.prev[s[i]] = Elem(s, i - 1)
    <2>1. CASE i = 1
      BY <2>1, <1>3, <1>6 DEF Elem
    <2>2. CASE i # 1
      <3>1. i - 1 \in 1..Len(l) /\ s[i] = l[i - 1] /\ i - 1 \in 0..Len(l) /\ i - 1 >= 1
        BY <2>2, <1>2, <1>5
      <3>2. Elem(s, i - 1) = s[i - 1]
        BY <3>1, <1>8
      <3>3. CASE i = 2
        <4>1. l[1] = d.head
          BY <3>1, <3>3, <1>2 DEF Elem
        <4>2. e.prev[l[1]] = n
          BY <4>1, <3>1, <3>3, <1>1, <1>4
        <4>3. QED
          BY <4>2, <3>1, <3>2, <3>3, <1>3
      <3>4. CASE i # 2
        <4>1. i - 2 \in 1..Len(l) /\ (i - 2) + 1 = i - 1 /\ (i - 1) - 1 = i - 2 /\ 1 \in 1..Len(l) /\ i - 1 # 1
          BY <3>1, <3>4, <1>2
        <4>2. l[i - 1] # l[1]
          BY <4>1, <3>1, <1>2 DEF Once
        <4>3. d.head = l[1]
          BY <4>1, <1>2 DEF Elem
        <4>4. e.prev[l[i - 1]] = d.prev[l[i - 1]]
          BY <4>2, <4>3, <3>1, <1>4, <1>6
        <4>5. d.prev[l[i - 1]] = Elem(l, i - 2)
          BY <4>1, <3>1 DEF Listed
        <4>6. Elem(l, i - 2) = s[i - 1]
          BY <4>1, <1>3 DEF Elem
        <4>7. QED
          BY <4>4, <4>5, <4>6, <3>1, <3>2
      <3>5. QED
        BY <3>3, <3>4
    <2>3. QED
      BY <2>1, <2>2
  <1>12. ASSUME NEW x \in Nodes PROVE e.rec[x] # Free <=> \E i \in 1..Len(s) : s[i] = x
    <2>1. r # Free
      BY RecordAssumption DEF Record
    <2>2. CASE x = n
      BY <2>1, <2>2, <1>2, <1>3, <1>6
    <2>3. CASE x # n
      <3>1. e.rec[x] = d.rec[x]
        BY <2>3, <1>6
      <3>2. d.rec[x] # Free <=> \E i \in 1..Len(l) : l[i] = x
        BY DEF Listed
      <3>3. ASSUME NEW i \in 1..Len(l), l[i] = x PROVE \E j \in 1..Len(s) : s[j] = x
        <4>1. i + 1 \in 1..Len(s) /\ s[i + 1] = x
          BY <3>3, <1>2, <1>3
        <4>2. QED
          BY <4>1
      <3>4. ASSUME NEW i \in 1..Len(s), s[i] = x PROVE \E j \in 1..Len(l) : l[j] = x
        <4>1. i # 1
          BY <3>4, <2>3, <1>3
        <4>2. QED
          BY <4>1, <3>4, <1>5
      <3>5. QED
        BY <3>1, <3>2, <3>3, <3>4
    <2>4. QED
      BY <2>2, <2>3
  <1>13. \A k \in 1..Len(s) : e.rec[s[k]] = IF k = 1 THEN r ELSE d.rec[l[k - 1]]
    BY <1>3, <1>4, <1>5, <1>6
  <1>14. \A k \in 1..Len(l) : d.rec[l[k]] # r
    BY DEF Inside
  <1>15. ASSUME NEW i \in 1..Len(s), NEW j \in 1..Len(s), e.rec[s[i]] = e.rec[s[j]] PROVE i = j
    <2>1. CASE i = 1 \/ j = 1
      <3>1. /\ i # 1 => e.rec[s[i]] = d.rec[l[i - 1]] /\ i - 1 \in 1..Len(l)
            /\ j # 1 => e.rec[s[j]] = d.rec[l[j - 1]] /\ j - 1 \in 1..Len(l)
            /\ i = 1 => e.rec[s[i]] = r
            /\ j = 1 => e.rec[s[j]] = r
        BY <1>5, <1>13
      <3>2. QED
        BY <2>1, <3>1, <1>14, <1>15
    <2>2. CASE i # 1 /\ j # 1
      <3>1. i - 1 \in 1..Len(l) /\ j - 1 \in 1..Len(l)
        BY <2>2, <1>5
      <3>2. d.rec[l[i - 1]] = d.rec[l[j - 1]]
        BY <2>2, <1>13, <1>15
      <3>3. i - 1 = j - 1
        BY <3>1, <3>2 DEF Listed
      <3>4. QED
        BY <3>3
    <2>3. QED
      BY <2>1, <2>2
  <1>16. Listed(e, s)
    BY <1>10, <1>11, <1>12, <1>15 DEF Listed
  <1>17. Inside(s, e) = Inside(l, d) \cup {r}
    <2>1. ASSUME NEW x \in Inside(s, e) PROVE x \in Inside(l, d) \cup {r}
      <3>1. PICK k \in 1..Len(s) : x = e.rec[s[k]]
        BY DEF Inside
      <3>2. QED
        BY <3>1, <1>5, <1>13 DEF Inside
    <2>2. r \in Inside(s, e)
      BY <1>2, <1>3, <1>13 DEF Inside
    <2>3. ASSUME NEW x \in Inside(l, d) PROVE x \in Inside(s, e)
      <3>1. PICK k \in 1..Len(l) : x = d.rec[l[k]]
        BY DEF Inside
      <3>2. k + 1 \in 1..Len(s) /\ k + 1 # 1 /\ (k + 1) - 1 = k
        BY <1>2, <1>3
      <3>3. e.rec[s[k + 1]] = x
        BY <3>1, <3>2, <1>13
      <3>4. QED
        BY <3>2, <3>3 DEF Inside
    <2>4. QED
      BY <2>1, <2>2, <2>3
  <1>18. QED
    BY <1>16, <1>17 DEF e, s

-----------------------------------------------------------------------------
(* One record taken out of the list. *)
Skip(i, k) == IF k < i THEN k ELSE k + 1
Cut(l, i)  == [k \in 1..(Len(l) - 1) |-> l[Skip(i, k)]]

LEMMA CutFacts ==
    ASSUME NEW l \in Seq(Nodes), Once(l), NEW i \in 1..Len(l)
    PROVE  /\ Cut(l, i) \in Seq(Nodes) /\ Len(Cut(l, i)) = Len(l) - 1 /\ Once(Cut(l, i))
           /\ \A k \in 1..(Len(l) - 1) :
                 Cut(l, i)[k] = l[Skip(i, k)] /\ Skip(i, k) \in 1..Len(l) /\ Skip(i, k) # i
           /\ \A k \in 0..Len(l) : Elem(Cut(l, i), k) = Elem(l, Skip(i, k))
           /\ \A j \in 1..Len(l) : j # i => \E k \in 1..(Len(l) - 1) : Skip(i, k) = j
  <1> DEFINE s == Cut(l, i)
  <1>1. Len(l) \in Nat /\ i \in Nat /\ i >= 1 /\ i <= Len(l) /\ Len(l) - 1 \in Nat
    OBVIOUS
  <1>2. \A k \in 1..(Len(l) - 1) : Skip(i, k) \in 1..Len(l) /\ Skip(i, k) # i
    BY <1>1 DEF Skip
  <1>3. /\ s \in Seq(Nodes) /\ Len(s) = Len(l) - 1
        /\ \A k \in 1..(Len(l) - 1) : s[k] = l[Skip(i, k)]
    <2>1. \A k \in 1..(Len(l) - 1) : l[Skip(i, k)] \in Nodes
      BY <1>2
    <2>2. s \in [1..(Len(l) - 1) -> Nodes]
      BY <2>1 DEF Cut
    <2>3. QED
      BY <2>2, <1>1 DEF Cut
  <1> HIDE DEF s
  <1>4. Once(s)
    <2> SUFFICES ASSUME NEW a \in 1..(Len(l) - 1), NEW b \in 1..(Len(l) - 1), s[a] = s[b]
                 PROVE  a = b
      BY <1>3 DEF Once
    <2>1. Skip(i, a) = Skip(i, b)
      BY <1>2, <1>3 DEF Once
    <2>2. QED
      BY <2>1, <1>1 DEF Skip
  <1>5. ASSUME NEW k \in 0..Len(l) PROVE Elem(s, k) = Elem(l, Skip(i, k))
    <2>1. CASE k \in 1..(Len(l) - 1)
      BY <2>1, <1>2, <1>3 DEF Elem
    <2>2. CASE k \notin 1..(Len(l) - 1)
      <3>1. Skip(i, k) \notin 1..Len(l)
        BY <2>2, <1>1 DEF Skip
      <3>2. QED
        BY <3>1, <2>2, <1>3 DEF Elem
    <2>3. QED
      BY <2>1, <2>2
  <1>6. ASSUME NEW j \in 1..Len(l), j # i PROVE \E k \in 1..(Len(l) - 1) : Skip(i, k) = j
    <2>1. CASE j < i
      BY <2>1, <1>1 DEF Skip
    <2>2. CASE j > i
      <3>1. j - 1 \in 1..(Len(l) - 1) /\ Skip(i, j - 1) = j
        BY <2>2, <1>1 DEF Skip
      <3>2. QED
        BY <3>1
    <2>3. QED
      BY <2>1, <2>2, <1>6, <1>1
  <1>7. QED
    BY <1>2, <1>3, <1>4, <1>5, <1>6 DEF s

LEMMA UnlinkIs ==
    ASSUME NEW d \in Heap, NEW n \in Nodes
    PROVE  /\ Unlink(d, n) \in Heap
           /\ Unlink(d, n).head = IF d.prev[n] = Null THEN d.next[n] ELSE d.head
           /\ Unlink(d, n).result = Null
           /\ Unlink(d, n).cursor = Null
           /\ Unlink(d, n).res = d.res
           /\ Unlink(d, n).rec = [d.rec EXCEPT ![n] = Free]
           /\ Unlink(d, n).next = [m \in Nodes |-> IF m = d.prev[n] THEN d.next[n] ELSE d.next[m]]
           /\ Unlink(d, n).prev = [m \in Nodes |-> IF m = d.next[n] THEN d.prev[n] ELSE d.prev[m]]
  <1> DEFINE h  == IF d.prev[n] = Null THEN d.next[n] ELSE d.head
             nx == [m \in Nodes |-> IF m = d.prev[n] THEN d.next[n] ELSE d.next[m]]
             pv == [m \in Nodes |-> IF m = d.next[n] THEN d.prev[n] ELSE d.prev[m]]
             rc == [d.rec EXCEPT ![n] = Free]
  <1>1. Unlink(d, n) = [d EXCEPT !.rec[n] = Free, !.head = h, !.next = nx, !.prev = pv,
                                 !.result = Null, !.cursor = Null]
    BY DEF Unlink
  <1>2. /\ h \in Nodes \cup {Null} /\ nx \in [Nodes -> Nodes \cup {Null}]
        /\ pv \in [Nodes -> Nodes \cup {Null}] /\ rc \in [Nodes -> Record \cup {Free}]
    BY HeapFacts
  <1> HIDE DEF h, nx, pv
  <1>3. Unlink(d, n) = [head |-> h, result |-> Null, cursor |-> Null, next |-> nx,
                        prev |-> pv, res |-> d.res, rec |-> rc]
    BY <1>1 DEF Heap
  <1>4. Null \in Nodes \cup {Null} /\ d.res \in [Nodes -> Nodes \cup {Null}]
    BY HeapFacts
  <1>5. Unlink(d, n) \in Heap
    BY <1>2, <1>3, <1>4, HeapIs
  <1>6. QED
    BY <1>3, <1>5 DEF h, nx, pv

LEMMA UnlinkForgets ==
    ASSUME NEW d \in Heap, NEW n \in Nodes, NEW e, e = Unlink(d, n)
    PROVE  e \in Heap /\ e.result = Null /\ e.cursor = Null
  BY UnlinkIs

LEMMA UnlinkListed ==
    ASSUME NEW d \in Heap, NEW l, Listed(d, l), NEW i \in 1..Len(l)
    PROVE  /\ Listed(Unlink(d, l[i]), Cut(l, i))
           /\ Inside(Cut(l, i), Unlink(d, l[i])) = Inside(l, d) \ {d.rec[l[i]]}
           /\ \A x \in Nodes : x # l[i] => Unlink(d, l[i]).rec[x] = d.rec[x]
  <1> DEFINE n == l[i]
             e == Unlink(d, n)
             s == Cut(l, i)
             p == d.prev[n]
             q == d.next[n]
  <1>1. l \in Seq(Nodes) /\ Once(l) /\ d.head = Elem(l, 1) /\ Len(l) \in Nat /\ n \in Nodes
    BY DEF Listed, Chain
  <1>2. p = Elem(l, i - 1) /\ q = Elem(l, i + 1)
    BY DEF Listed, Chain
  <1>3. /\ e.head = IF p = Null THEN q ELSE d.head
        /\ e.rec = [d.rec EXCEPT ![n] = Free]
        /\ \A x \in Nodes : e.next[x] = IF x = p THEN q ELSE d.next[x]
        /\ \A x \in Nodes : e.prev[x] = IF x = q THEN p ELSE d.prev[x]
    <2>1. /\ e.head = IF d.prev[n] = Null THEN d.next[n] ELSE d.head
          /\ e.rec = [d.rec EXCEPT ![n] = Free]
          /\ e.next = [m \in Nodes |-> IF m = d.prev[n] THEN d.next[n] ELSE d.next[m]]
          /\ e.prev = [m \in Nodes |-> IF m = d.next[n] THEN d.prev[n] ELSE d.prev[m]]
      BY <1>1, UnlinkIs
    <2> HIDE DEF e
    <2>2. QED
      BY <2>1
  <1>4. /\ s \in Seq(Nodes) /\ Len(s) = Len(l) - 1 /\ Once(s)
        /\ \A k \in 1..(Len(l) - 1) :
              s[k] = l[Skip(i, k)] /\ Skip(i, k) \in 1..Len(l) /\ Skip(i, k) # i
        /\ \A k \in 0..Len(l) : Elem(s, k) = Elem(l, Skip(i, k))
        /\ \A j \in 1..Len(l) : j # i => \E k \in 1..(Len(l) - 1) : Skip(i, k) = j
    BY <1>1, CutFacts
  <1>5. i \in Nat /\ i >= 1 /\ i <= Len(l)
    BY <1>1
  <1>6. \A j \in 1..Len(l) : l[j] \in Nodes /\ (j # i => l[j] # n) /\ Elem(l, j) = l[j] /\ l[j] # Null
    BY <1>1, ElemFacts DEF Once
  <1> HIDE DEF n, e, s, p, q
  <1>7. e.head = Elem(s, 1)
    <2>1. Elem(s, 1) = Elem(l, Skip(i, 1))
      BY <1>4, <1>5
    <2>2. CASE i = 1
      <3>1. p = Null /\ Skip(i, 1) = i + 1
        BY <2>2, <1>2 DEF Elem, Skip
      <3>2. QED
        BY <3>1, <2>1, <1>2, <1>3
    <2>3. CASE i # 1
      <3>1. i - 1 \in 1..Len(l) /\ Skip(i, 1) = 1
        BY <2>3, <1>5 DEF Skip
      <3>2. p # Null
        BY <3>1, <1>2, <1>6
      <3>3. QED
        BY <3>1, <3>2, <2>1, <1>1, <1>3
    <2>4. QED
      BY <2>2, <2>3
  <1>8. ASSUME NEW k \in 1..(Len(l) - 1) PROVE e.next[s[k]] = Elem(s, k + 1)
    <2> DEFINE K == Skip(i, k)
    <2>1. s[k] = l[K] /\ K \in 1..Len(l) /\ K # i /\ l[K] \in Nodes
      BY <1>4, <1>6
    <2>2. d.next[l[K]] = Elem(l, K + 1)
      BY <2>1 DEF Listed, Chain
    <2>3. k + 1 \in 0..Len(l) /\ Elem(s, k + 1) = Elem(l, Skip(i, k + 1))
      BY <1>1, <1>4
    <2>4. CASE k = i - 1
      <3>1. K = i - 1 /\ Skip(i, k + 1) = i + 1
        BY <2>4, <1>5 DEF Skip
      <3>2. p = l[K]
        BY <3>1, <2>1, <1>2, <1>6
      <3>3. QED
        BY <3>1, <3>2, <2>1, <2>3, <1>2, <1>3
    <2>5. CASE k # i - 1
      <3>1. K # i - 1 /\ Skip(i, k + 1) = K + 1
        BY <2>5, <1>5 DEF Skip
      <3>2. p # l[K]
        <4>1. CASE i - 1 \in 1..Len(l)
          BY <4>1, <3>1, <2>1, <1>1, <1>2 DEF Once, Elem
        <4>2. CASE i - 1 \notin 1..Len(l)
          BY <4>2, <2>1, <1>2, <1>6 DEF Elem
        <4>3. QED
          BY <4>1, <4>2
      <3>3. QED
        BY <3>1, <3>2, <2>1, <2>2, <2>3, <1>3
    <2>6. QED
      BY <2>4, <2>5
  <1>9. ASSUME NEW k \in 1..(Len(l) - 1) PROVE e.prev[s[k]] = Elem(s, k - 1)
    <2> DEFINE K == Skip(i, k)
    <2>1. s[k] = l[K] /\ K \in 1..Len(l) /\ K # i /\ l[K] \in Nodes
      BY <1>4, <1>6
    <2>2. d.prev[l[K]] = Elem(l, K - 1)
      BY <2>1 DEF Listed
    <2>3. k - 1 \in 0..Len(l) /\ Elem(s, k - 1) = Elem(l, Skip(i, k - 1))
      BY <1>1, <1>4
    <2>4. CASE k = i
      <3>1. K = i + 1 /\ Skip(i, k - 1) = i - 1
        BY <2>4, <1>5 DEF Skip
      <3>2. q = l[K]
        BY <3>1, <2>1, <1>2, <1>6
      <3>3. QED
        BY <3>1, <3>2, <2>1, <2>3, <1>2, <1>3
    <2>5. CASE k # i
      <3>1. K # i + 1 /\ Skip(i, k - 1) = K - 1
        BY <2>5, <1>5 DEF Skip
      <3>2. q # l[K]
        <4>1. CASE i + 1 \in 1..Len(l)
          BY <4>1, <3>1, <2>1, <1>1, <1>2 DEF Once, Elem
        <4>2. CASE i + 1 \notin 1..Len(l)
          BY <4>2, <2>1, <1>2, <1>6 DEF Elem
        <4>3. QED
          BY <4>1, <4>2
      <3>3. QED
        BY <3>1, <3>2, <2>1, <2>2, <2>3, <1>3
    <2>6. QED
      BY <2>4, <2>5
  <1>10. e.rec[n] = Free /\ \A x \in Nodes : x # n => e.rec[x] = d.rec[x]
    BY <1>1, <1>3, HeapFacts
  <1>11. ASSUME NEW x \in Nodes
         PROVE  e.rec[x] # Free <=> \E k \in 1..(Len(l) - 1) : s[k] = x
    <2>1. CASE x = n
      BY <2>1, <1>4, <1>6, <1>10
    <2>2. CASE x # n
      <3>1. e.rec[x] # Free <=> \E j \in 1..Len(l) : l[j] = x
        BY <2>2, <1>10 DEF Listed
      <3>2. ASSUME NEW j \in 1..Len(l), l[j] = x PROVE \E k \in 1..(Len(l) - 1) : s[k] = x
        BY <3>2, <2>2, <1>4 DEF n
      <3>3. ASSUME NEW k \in 1..(Len(l) - 1), s[k] = x PROVE \E j \in 1..Len(l) : l[j] = x
        BY <3>3, <1>4
      <3>4. QED
        BY <3>1, <3>2, <3>3
    <2>3. QED
      BY <2>1, <2>2
  <1>12. \A k \in 1..(Len(l) - 1) : e.rec[s[k]] = d.rec[l[Skip(i, k)]]
    BY <1>4, <1>6, <1>10
  <1>13. ASSUME NEW a \in 1..(Len(l) - 1), NEW b \in 1..(Len(l) - 1), e.rec[s[a]] = e.rec[s[b]]
         PROVE  a = b
    <2>1. Skip(i, a) = Skip(i, b)
      <3>1. \A x, y \in 1..Len(l) : d.rec[l[x]] = d.rec[l[y]] => x = y
        BY DEF Listed
      <3>2. d.rec[l[Skip(i, a)]] = d.rec[l[Skip(i, b)]]
        BY <1>12, <1>13
      <3>3. QED
        BY <3>1, <3>2, <1>4
    <2>2. QED
      BY <2>1, <1>5 DEF Skip
  <1>14. Listed(e, s)
    <2>1. Chain(e.head, e.next, s)
      BY <1>4, <1>7, <1>8 DEF Chain
    <2>2. QED
      BY <2>1, <1>4, <1>9, <1>11, <1>13 DEF Listed
  <1>15. Inside(s, e) = Inside(l, d) \ {d.rec[n]}
    <2>1. ASSUME NEW x \in Inside(s, e) PROVE x \in Inside(l, d) /\ x # d.rec[n]
      <3>1. PICK k \in 1..(Len(l) - 1) : x = e.rec[s[k]]
        BY <1>4 DEF Inside
      <3>2. x = d.rec[l[Skip(i, k)]] /\ Skip(i, k) \in 1..Len(l) /\ Skip(i, k) # i
        BY <3>1, <1>4, <1>12
      <3>3. QED
        BY <3>2 DEF Inside, Listed, n
    <2>2. ASSUME NEW x \in Inside(l, d), x # d.rec[n] PROVE x \in Inside(s, e)
      <3>1. PICK j \in 1..Len(l) : x = d.rec[l[j]]
        BY DEF Inside
      <3>2. j # i
        BY <3>1, <2>2 DEF n
      <3>3. PICK k \in 1..(Len(l) - 1) : Skip(i, k) = j
        BY <3>2, <1>4
      <3>4. QED
        BY <3>1, <3>3, <1>4, <1>12 DEF Inside
    <2>3. QED
      BY <2>1, <2>2
  <1>16. QED
    BY <1>10, <1>14, <1>15 DEF n, e, s

-----------------------------------------------------------------------------
(* A heap that is in order. *)
Store(d) == d \in Heap /\ (\E l : Listed(d, l)) /\ (\E m : Found(d, m))

LEMMA NoneFound ==
    ASSUME NEW d, d.result = Null, d.cursor = Null
    PROVE  Found(d, <<>>)
  <1>1. <<>> \in Seq(Nodes) /\ Len(<<>>) = 0
    OBVIOUS
  <1>2. Once(<<>>) /\ Elem(<<>>, 1) = Null
    BY <1>1 DEF Once, Elem
  <1>3. Chain(d.result, d.res, <<>>)
    BY <1>1, <1>2 DEF Chain
  <1>4. QED
    BY <1>1, <1>3 DEF Found

LEMMA EmptyStore ==
    Store(EmptyDb) /\ RecordsOf(EmptyDb) = {} /\ List(EmptyDb) = <<>> /\ HasRoom(EmptyDb)
  <1> DEFINE none == [n \in Nodes |-> Null]
             free == [n \in Nodes |-> Free]
  <1>1. EmptyDb = [head |-> Null, result |-> Null, cursor |-> Null, next |-> none,
                   prev |-> none, res |-> none, rec |-> free]
    BY DEF EmptyDb
  <1>2. none \in [Nodes -> Nodes \cup {Null}] /\ free \in [Nodes -> Record \cup {Free}]
    OBVIOUS
  <1>3. Null \in Nodes \cup {Null}
    OBVIOUS
  <1>4. EmptyDb \in Heap
    BY <1>1, <1>2, <1>3, HeapIs
  <1>5. <<>> \in Seq(Nodes) /\ Len(<<>>) = 0
    OBVIOUS
  <1>6. Once(<<>>) /\ Elem(<<>>, 1) = Null
    BY <1>5 DEF Once, Elem
  <1>7. Listed(EmptyDb, <<>>)
    <2>1. EmptyDb.head = Null /\ \A n \in Nodes : EmptyDb.rec[n] = Free
      BY <1>1
    <2>2. Chain(EmptyDb.head, EmptyDb.next, <<>>)
      BY <2>1, <1>5, <1>6 DEF Chain
    <2>3. QED
      BY <2>1, <2>2, <1>5 DEF Listed
  <1>8. EmptyDb.result = Null /\ EmptyDb.cursor = Null
    BY <1>1
  <1>9. Found(EmptyDb, <<>>)
    BY <1>8, NoneFound
  <1>10. Inside(<<>>, EmptyDb) = {}
    BY <1>5 DEF Inside
  <1>11. HasRoom(EmptyDb)
    <2>1. 1 \in Nodes
      BY RecordAssumption DEF Nodes
    <2>2. QED
      BY <2>1, <1>1 DEF HasRoom
  <1>12. QED
    BY <1>4, <1>7, <1>9, <1>10, <1>11, ListedSound DEF Store

(* A list shorter than the number of nodes leaves room. *)
LEMMA RoomLeft ==
    ASSUME NEW d, Store(d), Len(List(d)) < MaxNodes
    PROVE  HasRoom(d)
  <1>1. d \in Heap
    BY DEF Store
  <1>2. PICK l : Listed(d, l)
    BY DEF Store
  <1>3. List(d) = l /\ l \in Seq(Nodes)
    BY <1>1, <1>2, ListedSound
  <1>4. PICK n \in Nodes : \A i \in 1..Len(l) : l[i] # n
    BY <1>3, ListMisses
  <1>5. d.rec[n] = Free
    BY <1>2, <1>4 DEF Listed
  <1>6. QED
    BY <1>5 DEF HasRoom

(* tudor_add_record keeps the heap in order and adds the record. *)
LEMMA AddRecord ==
    ASSUME NEW d, Store(d), NEW r \in Record, HasRoom(d)
    PROVE  /\ Store(tudor_add_record(d, r))
           /\ RecordsOf(tudor_add_record(d, r)) = RecordsOf(d) \cup {r}
           /\ Len(List(tudor_add_record(d, r))) <= Len(List(d)) + 1
           /\ tudor_add_record(d, r).result = d.result
  <1>1. d \in Heap
    BY DEF Store
  <1>2. PICK l : Listed(d, l)
    BY DEF Store
  <1>3. PICK m : Found(d, m)
    BY DEF Store
  <1>4. /\ List(d) = l /\ RecordsOf(d) = Inside(l, d) /\ l \in Seq(Nodes) /\ Len(l) \in Nat
    BY <1>1, <1>2, ListedSound
  <1>5. CASE Duplicate(d, r)
    BY <1>4, <1>5 DEF tudor_add_record, Duplicate
  <1>6. CASE ~Duplicate(d, r)
    <2>0. PICK n : n = NewNode(d)
      OBVIOUS
    <2> DEFINE e == Push(d, r)
               s == <<n>> \o l
    <2>1. tudor_add_record(d, r) = e
      BY <1>6 DEF tudor_add_record
    <2>2. r \notin Inside(l, d)
      BY <1>4, <1>6 DEF Duplicate
    <2>3. /\ n \in Nodes /\ d.rec[n] = Free /\ e \in Heap
          /\ e.result = d.result /\ e.cursor = d.cursor /\ e.res = d.res
          /\ e.rec = [d.rec EXCEPT ![n] = r]
      BY <1>1, <2>0, PushKeeps
    <2>4. Listed(e, s) /\ Inside(s, e) = Inside(l, d) \cup {r}
      BY <1>1, <1>2, <2>0, <2>2, PushListed
    <2>5. Len(s) = Len(l) + 1
      BY <2>3, <1>4, ConsFacts
    <2> HIDE DEF e, s
    <2>6. List(e) = s /\ RecordsOf(e) = Inside(s, e)
      BY <2>3, <2>4, ListedSound
    <2>7. Found(e, m)
      <3>1. \A i \in 1..Len(m) : m[i] \in Nodes /\ d.rec[m[i]] # Free
        BY <1>3 DEF Found, Chain
      <3>2. \A i \in 1..Len(m) : e.rec[m[i]] # Free
        BY <3>1, <2>3, <1>1, HeapFacts
      <3>3. QED
        BY <3>2, <2>3, <1>3 DEF Found
    <2>8. QED
      BY <2>1, <2>3, <2>4, <2>5, <2>6, <2>7, <1>4 DEF Store
  <1>7. QED
    BY <1>5, <1>6

-----------------------------------------------------------------------------
(* storage_DeleteRecord: what its loop leaves of the first k nodes of the  *)
(* list.                                                                   *)
DeleteStep(x, n, g, f) == IF Matches(x.rec[n], g, f) THEN Unlink(x, n) ELSE x

Kept(d, l, k, g, f) ==
    {d.rec[l[j]] : j \in {j \in 1..Len(l) : j > k \/ ~Matches(d.rec[l[j]], g, f)}}

Deleting(x, d, l, k, g, f) ==
    /\ x \in Heap
    /\ \E s : Listed(x, s) /\ Inside(s, x) = Kept(d, l, k, g, f)
    /\ \A j \in 1..Len(l) : j > k => x.rec[l[j]] = d.rec[l[j]]
    /\ x = d \/ (x.result = Null /\ x.cursor = Null)

LEMMA DeleteStepFacts ==
    ASSUME NEW d \in Heap, NEW l, Listed(d, l), NEW g, NEW f,
           NEW k \in 0..Len(l), k < Len(l), NEW x, Deleting(x, d, l, k, g, f)
    PROVE  Deleting(DeleteStep(x, l[k + 1], g, f), d, l, k + 1, g, f)
  <1> DEFINE n == l[k + 1]
             e == DeleteStep(x, n, g, f)
  <1>1. /\ l \in Seq(Nodes) /\ Once(l) /\ Len(l) \in Nat /\ k + 1 \in 1..Len(l) /\ n \in Nodes
        /\ \A j \in 1..Len(l) : l[j] \in Nodes
    BY DEF Listed, Chain
  <1>2. x \in Heap /\ x.rec[n] = d.rec[n] /\ d.rec[n] # Free
    BY <1>1 DEF Deleting, Listed
  <1>3. PICK s : Listed(x, s) /\ Inside(s, x) = Kept(d, l, k, g, f)
    BY DEF Deleting
  <1>4. \A j \in 1..Len(l) : j > k + 1 => j > k /\ l[j] # n
    BY <1>1 DEF Once
  <1>5. \A i, j \in 1..Len(l) : d.rec[l[i]] = d.rec[l[j]] => i = j
    BY DEF Listed
  <1>6. CASE ~Matches(d.rec[n], g, f)
    <2>1. e = x
      BY <1>2, <1>6 DEF DeleteStep
    <2>2. ASSUME NEW j \in 1..Len(l)
          PROVE  (j > k \/ ~Matches(d.rec[l[j]], g, f)) <=> (j > k + 1 \/ ~Matches(d.rec[l[j]], g, f))
      BY <1>1, <1>6
    <2>3. Kept(d, l, k, g, f) = Kept(d, l, k + 1, g, f)
      BY <2>2 DEF Kept
    <2>4. \A j \in 1..Len(l) : j > k + 1 => x.rec[l[j]] = d.rec[l[j]]
      BY <1>4 DEF Deleting
    <2>5. QED
      BY <2>1, <2>3, <2>4, <1>2, <1>3 DEF Deleting
  <1>7. CASE Matches(d.rec[n], g, f)
    <2>1. e = Unlink(x, n)
      BY <1>2, <1>7 DEF DeleteStep
    <2>2. PICK i \in 1..Len(s) : s[i] = n
      BY <1>1, <1>2, <1>3 DEF Listed
    <2>3. /\ Listed(e, Cut(s, i)) /\ Inside(Cut(s, i), e) = Inside(s, x) \ {d.rec[n]}
          /\ \A y \in Nodes : y # n => e.rec[y] = x.rec[y]
      BY <2>1, <2>2, <1>2, <1>3, UnlinkListed
    <2>4. e \in Heap /\ e.result = Null /\ e.cursor = Null
      BY <2>1, <1>1, <1>2, UnlinkForgets
    <2>5. \A j \in 1..Len(l) : j > k + 1 => e.rec[l[j]] = d.rec[l[j]]
      BY <2>3, <1>1, <1>4 DEF Deleting
    <2>6. Kept(d, l, k, g, f) \ {d.rec[n]} = Kept(d, l, k + 1, g, f)
      <3>1. ASSUME NEW y \in Kept(d, l, k, g, f), y # d.rec[n] PROVE y \in Kept(d, l, k + 1, g, f)
        <4>1. PICK j \in 1..Len(l) : y = d.rec[l[j]] /\ (j > k \/ ~Matches(d.rec[l[j]], g, f))
          BY DEF Kept
        <4>2. j # k + 1
          BY <4>1, <3>1
        <4>3. j > k + 1 \/ ~Matches(d.rec[l[j]], g, f)
          BY <4>1, <4>2, <1>1
        <4>4. QED
          BY <4>1, <4>3 DEF Kept
      <3>2. ASSUME NEW y \in Kept(d, l, k + 1, g, f) PROVE y \in Kept(d, l, k, g, f) /\ y # d.rec[n]
        <4>1. PICK j \in 1..Len(l) : y = d.rec[l[j]] /\ (j > k + 1 \/ ~Matches(d.rec[l[j]], g, f))
          BY DEF Kept
        <4>2. j # k + 1
          BY <4>1, <1>1, <1>7
        <4>3. y # d.rec[n]
          BY <4>1, <4>2, <1>1, <1>5
        <4>4. j > k \/ ~Matches(d.rec[l[j]], g, f)
          BY <4>1, <1>1
        <4>5. QED
          BY <4>1, <4>3, <4>4 DEF Kept
      <3>3. QED
        BY <3>1, <3>2
    <2> HIDE DEF e
    <2>7. \E t : Listed(e, t) /\ Inside(t, e) = Kept(d, l, k + 1, g, f)
      BY <2>3, <2>6, <1>3
    <2>8. Deleting(e, d, l, k + 1, g, f)
      BY <2>4, <2>5, <2>7 DEF Deleting
    <2>9. QED
      BY <2>8 DEF e
  <1>8. QED
    BY <1>6, <1>7

(* storage_DeleteRecord keeps the heap in order and takes the records that *)
(* match out of it.                                                        *)
LEMMA DeleteRecord ==
    ASSUME NEW d, Store(d), NEW g, NEW f
    PROVE  /\ Store(storage_DeleteRecord(d, g, f))
           /\ RecordsOf(storage_DeleteRecord(d, g, f)) = {r \in RecordsOf(d) : ~Matches(r, g, f)}
  <1>1. d \in Heap
    BY DEF Store
  <1>2. PICK l : Listed(d, l)
    BY DEF Store
  <1>3. PICK m : Found(d, m)
    BY DEF Store
  <1>4. List(d) = l /\ RecordsOf(d) = Inside(l, d) /\ l \in Seq(Nodes) /\ Len(l) \in Nat
    BY <1>1, <1>2, ListedSound
  <1> DEFINE P(w) == w = [k \in 0..Len(l) |-> IF k = 0 THEN d ELSE
                             IF Matches(w[k-1].rec[l[k]], g, f) THEN Unlink(w[k-1], l[k]) ELSE w[k-1]]
             loop == CHOOSE w : P(w)
             step == [k \in Nat |-> [x \in Heap |->
                         IF k + 1 \in 1..Len(l) THEN DeleteStep(x, l[k + 1], g, f) ELSE x]]
  <1>5. \E w : P(w)
    <2>1. ASSUME NEW k \in Nat, NEW x \in Heap
          PROVE  (IF k + 1 \in 1..Len(l) THEN DeleteStep(x, l[k + 1], g, f) ELSE x) \in Heap
      <3>1. CASE k + 1 \in 1..Len(l)
        <4>1. l[k + 1] \in Nodes
          BY <3>1, <1>4
        <4>2. Unlink(x, l[k + 1]) \in Heap
          BY <4>1, UnlinkIs, Zenon
        <4>3. QED
          BY <4>2, <3>1 DEF DeleteStep
      <3>2. QED
        BY <3>1
    <2>2. step \in [Nat -> [Heap -> Heap]]
      BY <2>1
    <2>3. \A k \in Nat, x \in Heap :
             k + 1 \in 1..Len(l) => step[k][x] = DeleteStep(x, l[k + 1], g, f)
      OBVIOUS
    <2> HIDE DEF step
    <2>4. PICK w : Steps(w, Len(l), Heap, d, step)
      BY <1>1, <1>4, <2>2, StepsExist
    <2>5. w \in [0..Len(l) -> Heap] /\ w[0] = d
      BY <2>4 DEF Steps
    <2>6. ASSUME NEW k \in 0..Len(l), k # 0 PROVE w[k] = DeleteStep(w[k-1], l[k], g, f)
      <3>1. k - 1 \in 0..Len(l) /\ k - 1 < Len(l) /\ (k - 1) + 1 = k /\ k - 1 \in Nat /\ k \in 1..Len(l)
        BY <1>4, <2>6
      <3>2. w[k - 1] \in Heap /\ w[k] = step[k - 1][w[k - 1]]
        BY <3>1, <2>4, <2>5 DEF Steps
      <3>3. QED
        BY <3>1, <3>2, <2>3
    <2>7. P(w)
      <3>1. \A k \in 0..Len(l) : w[k] = IF k = 0 THEN d ELSE
               IF Matches(w[k-1].rec[l[k]], g, f) THEN Unlink(w[k-1], l[k]) ELSE w[k-1]
        BY <2>5, <2>6 DEF DeleteStep
      <3>2. QED
        BY <3>1, <2>5
    <2>8. QED
      BY <2>7
  <1>6. P(loop)
    BY <1>5
  <1>7. storage_DeleteRecord(d, g, f) = loop[Len(l)]
    BY <1>4 DEF storage_DeleteRecord
  <1>8. loop[0] = d /\ \A k \in 0..Len(l) : k # 0 => loop[k] = DeleteStep(loop[k-1], l[k], g, f)
    <2>1. loop = [k \in 0..Len(l) |-> IF k = 0 THEN d ELSE
                     IF Matches(loop[k-1].rec[l[k]], g, f) THEN Unlink(loop[k-1], l[k]) ELSE loop[k-1]]
      BY <1>6
    <2> HIDE DEF loop
    <2>2. loop[0] = d
      BY <2>1, <1>4
    <2>3. ASSUME NEW k \in 0..Len(l), k # 0
          PROVE  loop[k] = IF Matches(loop[k-1].rec[l[k]], g, f) THEN Unlink(loop[k-1], l[k])
                           ELSE loop[k-1]
      BY <2>1, <2>3, Zenon
    <2>4. QED
      BY <2>2, <2>3 DEF DeleteStep
  <1> HIDE DEF loop
  <1> DEFINE T == {k \in 0..Len(l) : Deleting(loop[k], d, l, k, g, f)}
  <1>9. 0 \in T
    <2>1. Kept(d, l, 0, g, f) = Inside(l, d)
      <3>1. \A j \in 1..Len(l) : j > 0
        BY <1>4
      <3>2. {j \in 1..Len(l) : j > 0 \/ ~Matches(d.rec[l[j]], g, f)} = 1..Len(l)
        BY <3>1
      <3>3. QED
        BY <3>2 DEF Kept, Inside
    <2>2. QED
      BY <2>1, <1>1, <1>2, <1>4, <1>8 DEF Deleting
  <1>10. ASSUME NEW k \in 0..Len(l), k < Len(l), k \in T PROVE k + 1 \in T
    <2>1. k + 1 \in 0..Len(l) /\ k + 1 # 0 /\ (k + 1) - 1 = k
      BY <1>4, <1>10
    <2>2. loop[k + 1] = DeleteStep(loop[k], l[k + 1], g, f)
      BY <2>1, <1>8
    <2>3. Deleting(loop[k], d, l, k, g, f)
      BY <1>10
    <2>4. Deleting(loop[k + 1], d, l, k + 1, g, f)
      BY <2>2, <2>3, <1>1, <1>2, <1>10, DeleteStepFacts
    <2>5. QED
      BY <2>1, <2>4
  <1> HIDE DEF T
  <1>11. Len(l) \in T
    <2>1. 0..Len(l) \subseteq T
      BY <1>4, <1>9, <1>10, Upto
    <2>2. QED
      BY <2>1, <1>4
  <1>12. Deleting(loop[Len(l)], d, l, Len(l), g, f)
    BY <1>11 DEF T
  <1> DEFINE e == loop[Len(l)]
  <1>13. e \in Heap /\ (e = d \/ (e.result = Null /\ e.cursor = Null))
    BY <1>12 DEF Deleting
  <1>14. PICK s : Listed(e, s) /\ Inside(s, e) = Kept(d, l, Len(l), g, f)
    BY <1>12 DEF Deleting
  <1> HIDE DEF e
  <1>15. Kept(d, l, Len(l), g, f) = {r \in RecordsOf(d) : ~Matches(r, g, f)}
    <2>1. \A j \in 1..Len(l) : ~(j > Len(l))
      BY <1>4
    <2>2. QED
      BY <2>1, <1>4 DEF Kept, Inside
  <1>16. RecordsOf(e) = Inside(s, e)
    BY <1>13, <1>14, ListedSound
  <1>17. \E t : Found(e, t)
    BY <1>3, <1>13, NoneFound
  <1>18. QED
    BY <1>7, <1>13, <1>14, <1>15, <1>16, <1>17 DEF Store, e

-----------------------------------------------------------------------------
(* The nodes a query finds: those of the list that match, once each. *)
Picked(d, l, k, g, f, m) ==
    /\ m \in Seq(Nodes) /\ Once(m)
    /\ \A a \in 1..Len(m) : \E j \in 1..k : m[a] = l[j] /\ Matches(d.rec[l[j]], g, f)
    /\ \A j \in 1..k : Matches(d.rec[l[j]], g, f) => \E a \in 1..Len(m) : m[a] = l[j]

LEMMA AppendFacts ==
    ASSUME NEW S, NEW s \in Seq(S), NEW e \in S
    PROVE  /\ Append(s, e) \in Seq(S) /\ Len(Append(s, e)) = Len(s) + 1 /\ Len(s) \in Nat
           /\ Append(s, e)[Len(s) + 1] = e
           /\ \A k \in 1..Len(s) : Append(s, e)[k] = s[k]
  OBVIOUS

LEMMA PickStep ==
    ASSUME NEW d, NEW l \in Seq(Nodes), Once(l), NEW g, NEW f,
           NEW k \in 0..Len(l), k < Len(l), NEW m, Picked(d, l, k, g, f, m)
    PROVE  Picked(d, l, k + 1, g, f,
                  IF Matches(d.rec[l[k + 1]], g, f) THEN Append(m, l[k + 1]) ELSE m)
  <1> DEFINE n == l[k + 1]
             t == Append(m, n)
  <1>1. Len(l) \in Nat /\ k \in Nat /\ k + 1 \in 1..Len(l) /\ n \in Nodes
    OBVIOUS
  <1>2. m \in Seq(Nodes) /\ Once(m) /\ Len(m) \in Nat
    BY DEF Picked
  <1>3. \A j \in 1..(k + 1) : j \in 1..k \/ j = k + 1
    BY <1>1
  <1>4. \A j \in 1..k : j \in 1..(k + 1) /\ j \in 1..Len(l) /\ j # k + 1
    BY <1>1
  <1>5. CASE ~Matches(d.rec[n], g, f)
    <2>1. \A a \in 1..Len(m) : \E j \in 1..(k + 1) : m[a] = l[j] /\ Matches(d.rec[l[j]], g, f)
      BY <1>4 DEF Picked
    <2>2. \A j \in 1..(k + 1) : Matches(d.rec[l[j]], g, f) => \E a \in 1..Len(m) : m[a] = l[j]
      BY <1>3, <1>5 DEF Picked
    <2>3. Picked(d, l, k + 1, g, f, m)
      BY <2>1, <2>2, <1>2 DEF Picked
    <2>4. QED
      BY <2>3, <1>5
  <1>6. CASE Matches(d.rec[n], g, f)
    <2>1. /\ t \in Seq(Nodes) /\ Len(t) = Len(m) + 1 /\ t[Len(m) + 1] = n
          /\ \A a \in 1..Len(m) : t[a] = m[a]
      BY <1>1, <1>2, AppendFacts
    <2> HIDE DEF t
    <2>2. \A a \in 1..Len(t) : a \in 1..Len(m) \/ a = Len(m) + 1
      BY <2>1, <1>2
    <2>3. \A a \in 1..Len(m) : m[a] # n /\ a \in 1..Len(t) /\ a # Len(m) + 1
      <3> TAKE a \in 1..Len(m)
      <3>1. PICK j \in 1..k : m[a] = l[j]
        BY DEF Picked
      <3>2. QED
        BY <3>1, <2>1, <1>1, <1>2, <1>4 DEF Once
    <2>4. Once(t)
      <3> SUFFICES ASSUME NEW a \in 1..Len(t), NEW b \in 1..Len(t), t[a] = t[b] PROVE a = b
        BY DEF Once
      <3>1. CASE a = Len(m) + 1 \/ b = Len(m) + 1
        BY <3>1, <2>1, <2>2, <2>3
      <3>2. CASE a \in 1..Len(m) /\ b \in 1..Len(m)
        BY <3>2, <2>1, <1>2 DEF Once
      <3>3. QED
        BY <3>1, <3>2, <2>2
    <2>5. ASSUME NEW a \in 1..Len(t)
          PROVE  \E j \in 1..(k + 1) : t[a] = l[j] /\ Matches(d.rec[l[j]], g, f)
      <3>1. CASE a = Len(m) + 1
        BY <3>1, <2>1, <1>1, <1>6
      <3>2. CASE a \in 1..Len(m)
        <4>1. PICK j \in 1..k : m[a] = l[j] /\ Matches(d.rec[l[j]], g, f)
          BY <3>2 DEF Picked
        <4>2. QED
          BY <4>1, <3>2, <2>1, <1>4
      <3>3. QED
        BY <3>1, <3>2, <2>2
    <2>6. ASSUME NEW j \in 1..(k + 1), Matches(d.rec[l[j]], g, f)
          PROVE  \E a \in 1..Len(t) : t[a] = l[j]
      <3>1. CASE j = k + 1
        <4>1. Len(m) + 1 \in 1..Len(t)
          BY <2>1, <1>2
        <4>2. QED
          BY <4>1, <3>1, <2>1
      <3>2. CASE j \in 1..k
        <4>1. PICK a \in 1..Len(m) : m[a] = l[j]
          BY <3>2, <2>6 DEF Picked
        <4>2. QED
          BY <4>1, <2>1, <2>3
      <3>3. QED
        BY <3>1, <3>2, <1>3
    <2>7. Picked(d, l, k + 1, g, f, t)
      BY <2>1, <2>4, <2>5, <2>6 DEF Picked
    <2>8. QED
      BY <2>7, <1>6 DEF t
  <1>7. QED
    BY <1>5, <1>6

LEMMA MatchingIs ==
    ASSUME NEW d \in Heap, NEW l, Listed(d, l), NEW g, NEW f
    PROVE  Picked(d, l, Len(l), g, f, Matching(d, g, f))
  <1>1. List(d) = l /\ l \in Seq(Nodes) /\ Len(l) \in Nat /\ Once(l)
    BY ListedSound DEF Listed, Chain
  <1> DEFINE P(w) == w = [k \in 0..Len(l) |->
                             IF k = 0 THEN <<>>
                             ELSE IF Matches(d.rec[l[k]], g, f) THEN Append(w[k-1], l[k])
                             ELSE w[k-1]]
             found == CHOOSE w : P(w)
             step == [k \in Nat |-> [x \in Seq(Nodes) |->
                         IF k + 1 \in 1..Len(l) /\ Matches(d.rec[l[k + 1]], g, f)
                         THEN Append(x, l[k + 1]) ELSE x]]
  <1>2. \E w : P(w)
    <2>1. ASSUME NEW k \in Nat, NEW x \in Seq(Nodes)
          PROVE  (IF k + 1 \in 1..Len(l) /\ Matches(d.rec[l[k + 1]], g, f)
                  THEN Append(x, l[k + 1]) ELSE x) \in Seq(Nodes)
      BY <1>1
    <2>2. step \in [Nat -> [Seq(Nodes) -> Seq(Nodes)]]
      BY <2>1
    <2>3. \A k \in Nat, x \in Seq(Nodes) : k + 1 \in 1..Len(l) =>
             step[k][x] = IF Matches(d.rec[l[k + 1]], g, f) THEN Append(x, l[k + 1]) ELSE x
      OBVIOUS
    <2> HIDE DEF step
    <2>4. <<>> \in Seq(Nodes)
      OBVIOUS
    <2>5. PICK w : Steps(w, Len(l), Seq(Nodes), <<>>, step)
      BY <1>1, <2>2, <2>4, StepsExist
    <2>6. w \in [0..Len(l) -> Seq(Nodes)] /\ w[0] = <<>>
      BY <2>5 DEF Steps
    <2>7. ASSUME NEW k \in 0..Len(l), k # 0
          PROVE  w[k] = IF Matches(d.rec[l[k]], g, f) THEN Append(w[k-1], l[k]) ELSE w[k-1]
      <3>1. k - 1 \in 0..Len(l) /\ k - 1 < Len(l) /\ (k - 1) + 1 = k /\ k - 1 \in Nat /\ k \in 1..Len(l)
        BY <1>1, <2>7
      <3>2. w[k - 1] \in Seq(Nodes) /\ w[k] = step[k - 1][w[k - 1]]
        BY <3>1, <2>5, <2>6 DEF Steps
      <3>3. QED
        BY <3>1, <3>2, <2>3
    <2>8. P(w)
      <3>1. \A k \in 0..Len(l) : w[k] =
               IF k = 0 THEN <<>>
               ELSE IF Matches(d.rec[l[k]], g, f) THEN Append(w[k-1], l[k]) ELSE w[k-1]
        BY <2>6, <2>7
      <3>2. QED
        BY <3>1, <2>6
    <2>9. QED
      BY <2>8
  <1>3. P(found)
    BY <1>2
  <1>4. Matching(d, g, f) = found[Len(l)]
    BY <1>1 DEF Matching
  <1>5. found = [k \in 0..Len(l) |-> IF k = 0 THEN <<>>
                    ELSE IF Matches(d.rec[l[k]], g, f) THEN Append(found[k-1], l[k])
                    ELSE found[k-1]]
    BY <1>3
  <1> HIDE DEF found
  <1> DEFINE T == {k \in 0..Len(l) : Picked(d, l, k, g, f, found[k])}
  <1>6. 0 \in T
    <2>1. found[0] = <<>>
      BY <1>1, <1>5
    <2>2. <<>> \in Seq(Nodes) /\ Len(<<>>) = 0 /\ 1..0 = {}
      OBVIOUS
    <2>3. Picked(d, l, 0, g, f, <<>>)
      BY <2>2 DEF Picked, Once
    <2>4. QED
      BY <2>1, <2>3, <1>1
  <1>7. ASSUME NEW k \in 0..Len(l), k < Len(l), k \in T PROVE k + 1 \in T
    <2>1. k + 1 \in 0..Len(l) /\ k + 1 # 0 /\ (k + 1) - 1 = k
      BY <1>1, <1>7
    <2>2. found[k + 1] = IF Matches(d.rec[l[k + 1]], g, f) THEN Append(found[k], l[k + 1]) ELSE found[k]
      BY <2>1, <1>5
    <2>3. Picked(d, l, k, g, f, found[k])
      BY <1>7
    <2>4. Picked(d, l, k + 1, g, f, found[k + 1])
      BY <2>2, <2>3, <1>1, <1>7, PickStep
    <2>5. QED
      BY <2>1, <2>4
  <1> HIDE DEF T
  <1>8. 0..Len(l) \subseteq T
    BY <1>1, <1>6, <1>7, Upto
  <1>9. Len(l) \in T
    BY <1>1, <1>8
  <1>10. QED
    BY <1>4, <1>9 DEF T

-----------------------------------------------------------------------------
(* Queries change the results only. *)
SameList(e, d) == e.head = d.head /\ e.next = d.next /\ e.prev = d.prev /\ e.rec = d.rec

LEMMA SameListed ==
    ASSUME NEW d \in Heap, NEW e \in Heap, SameList(e, d), NEW l, Listed(d, l)
    PROVE  /\ Listed(e, l) /\ Inside(l, e) = Inside(l, d)
           /\ RecordsOf(e) = RecordsOf(d) /\ List(e) = List(d)
  <1>1. Listed(e, l)
    BY DEF Listed, SameList
  <1>2. Inside(l, e) = Inside(l, d)
    BY DEF Inside, SameList
  <1>3. QED
    BY <1>1, <1>2, ListedSound

(* storage_FirstRecord and storage_NextRecord move the cursor. *)
Cursor(d, c) == [d EXCEPT !.cursor = c]

LEMMA CursorFacts ==
    ASSUME NEW d \in Heap, NEW c \in Nodes \cup {Null}
    PROVE  /\ Cursor(d, c) \in Heap /\ Cursor(d, c).cursor = c /\ SameList(Cursor(d, c), d)
           /\ Cursor(d, c).result = d.result /\ Cursor(d, c).res = d.res
           /\ Cursor(d, d.cursor) = d
           /\ \A b : Cursor(Cursor(d, c), b) = Cursor(d, b)
  <1>1. Cursor(d, c) = [head |-> d.head, result |-> d.result, cursor |-> c, next |-> d.next,
                        prev |-> d.prev, res |-> d.res, rec |-> d.rec]
    BY DEF Cursor, Heap
  <1>2. Cursor(d, c) \in Heap
    BY <1>1, HeapFacts, HeapIs
  <1>3. Cursor(d, d.cursor) = d
    BY DEF Cursor, Heap
  <1>4. \A b : Cursor(Cursor(d, c), b) = Cursor(d, b)
    BY DEF Cursor, Heap
  <1>5. QED
    BY <1>1, <1>2, <1>3, <1>4 DEF SameList

LEMMA CursorFound ==
    ASSUME NEW d \in Heap, NEW m, Found(d, m), NEW c,
           IF m = <<>> THEN c = Null ELSE \E i \in 1..Len(m) : m[i] = c
    PROVE  c \in Nodes \cup {Null} /\ Found(Cursor(d, c), m)
  <1>1. m \in Seq(Nodes)
    BY DEF Found, Chain
  <1>2. c \in Nodes \cup {Null}
    BY <1>1
  <1>3. /\ Cursor(d, c).cursor = c /\ Cursor(d, c).rec = d.rec
        /\ Cursor(d, c).result = d.result /\ Cursor(d, c).res = d.res
    BY <1>2, CursorFacts DEF SameList
  <1>4. QED
    BY <1>2, <1>3 DEF Found

(* storage_QueryBySubject: its results are the nodes that match. *)
LEMMA QueryIs ==
    ASSUME NEW d \in Heap, NEW l, Listed(d, l), NEW g, NEW f
    PROVE  /\ storage_QueryBySubject(d, g, f) \in Heap
           /\ SameList(storage_QueryBySubject(d, g, f), d)
           /\ Found(storage_QueryBySubject(d, g, f), Matching(d, g, f))
           /\ storage_QueryBySubject(d, g, f).cursor = storage_QueryBySubject(d, g, f).result
  <1> DEFINE m     == Matching(d, g, f)
             e     == storage_QueryBySubject(d, g, f)
             first == IF m = <<>> THEN Null ELSE m[1]
             rs    == [n \in Nodes |-> IF n \notin ToSet(m) THEN d.res[n]
                                       ELSE IF n = Last(m) THEN Null
                                       ELSE m[(CHOOSE i \in DOMAIN m : m[i] = n) + 1]]
  <1>1. Picked(d, l, Len(l), g, f, m)
    BY MatchingIs
  <1>2. m \in Seq(Nodes) /\ Once(m) /\ Len(m) \in Nat /\ DOMAIN m = 1..Len(m)
    BY <1>1 DEF Picked
  <1>3. e = [d EXCEPT !.result = first, !.cursor = first, !.res = rs]
    BY DEF storage_QueryBySubject
  <1> HIDE DEF m
  <1>4. first = Elem(m, 1) /\ first \in Nodes \cup {Null}
    <2>1. CASE m = <<>>
      BY <2>1 DEF Elem
    <2>2. CASE m # <<>>
      <3>1. 1 \in 1..Len(m)
        BY <2>2, <1>2
      <3>2. QED
        BY <3>1, <2>2, <1>2 DEF Elem
    <2>3. QED
      BY <2>1, <2>2
  <1>5. ASSUME NEW i \in 1..Len(m) PROVE rs[m[i]] = Elem(m, i + 1)
    <2>1. m[i] \in Nodes /\ m[i] \in ToSet(m)
      BY <1>2 DEF ToSet
    <2>2. Last(m) = m[Len(m)] /\ Len(m) \in 1..Len(m)
      BY <1>2 DEF Last
    <2>3. (CHOOSE j \in DOMAIN m : m[j] = m[i]) = i
      BY <1>2 DEF Once
    <2>4. CASE i = Len(m)
      <3>1. i + 1 \notin 1..Len(m)
        BY <2>4, <1>2
      <3>2. QED
        BY <3>1, <2>1, <2>2, <2>4 DEF Elem
    <2>5. CASE i # Len(m)
      <3>0. Len(m) \in Nat
        BY <1>2
      <3>1. i + 1 \in 1..Len(m)
        BY <2>5, <3>0
      <3>2. m[i] # Last(m)
        BY <2>2, <2>5, <1>2 DEF Once
      <3>3. rs[m[i]] = m[(CHOOSE j \in DOMAIN m : m[j] = m[i]) + 1]
        BY <3>2, <2>1
      <3>4. QED
        <4>1. rs[m[i]] = m[i + 1]
          BY <3>3, <2>3
        <4> HIDE DEF rs
        <4>2. QED
          BY <4>1, <3>1 DEF Elem
    <2>6. QED
      BY <2>4, <2>5
  <1>6. rs \in [Nodes -> Nodes \cup {Null}]
    <2>1. ASSUME NEW n \in Nodes PROVE rs[n] \in Nodes \cup {Null}
      <3>1. CASE n \in ToSet(m)
        <4>1. PICK i \in 1..Len(m) : m[i] = n
          BY <3>1, <1>2 DEF ToSet
        <4>2. rs[n] = Elem(m, i + 1)
          BY <4>1, <1>5
        <4> HIDE DEF rs
        <4>3. QED
          BY <4>2, <1>2, ElemFacts
      <3>2. CASE n \notin ToSet(m)
        <4>1. rs[n] = d.res[n]
          BY <3>2
        <4>2. QED
          BY <4>1, HeapFacts
      <3>3. QED
        BY <3>1, <3>2
    <2>2. QED
      BY <2>1
  <1> HIDE DEF first, rs
  <1>7. e = [head |-> d.head, result |-> first, cursor |-> first, next |-> d.next,
             prev |-> d.prev, res |-> rs, rec |-> d.rec]
    BY <1>3 DEF Heap
  <1> HIDE DEF e
  <1>8. e \in Heap
    BY <1>4, <1>6, <1>7, HeapFacts, HeapIs
  <1>9. SameList(e, d) /\ e.result = first /\ e.cursor = first /\ e.res = rs
    BY <1>7 DEF SameList
  <1>10. Chain(e.result, e.res, m)
    BY <1>2, <1>4, <1>5, <1>9 DEF Chain
  <1>11. ASSUME NEW i \in 1..Len(m) PROVE e.rec[m[i]] # Free
    <2>1. PICK j \in 1..Len(l) : m[i] = l[j]
      BY <1>1 DEF Picked
    <2>2. m[i] \in Nodes
      BY <1>2
    <2>3. QED
      BY <2>1, <2>2, <1>9 DEF Listed, SameList
  <1>12. IF m = <<>> THEN e.cursor = Null ELSE \E i \in 1..Len(m) : m[i] = e.cursor
    <2>1. CASE m = <<>>
      BY <2>1, <1>9 DEF first
    <2>2. CASE m # <<>>
      <3>1. 1 \in 1..Len(m)
        BY <2>2, <1>2
      <3>2. e.cursor = m[1]
        BY <2>2, <1>9 DEF first
      <3>3. QED
        BY <3>1, <3>2, <2>2
    <2>3. QED
      BY <2>1, <2>2
  <1>13. Found(e, m)
    BY <1>10, <1>11, <1>12 DEF Found
  <1>14. QED
    BY <1>8, <1>9, <1>13 DEF e, m

(* The loop of tudor_enumerate_records after k turns, if m was found.      *)
Least(a, b) == IF a < b THEN a ELSE b

Seen(d, m, k) == [i \in 1..Least(k, Len(m)) |-> d.rec[m[i]]]

Turn(d, m, k) == [db   |-> Cursor(d, Elem(m, Least(k + 1, Len(m)))),
                  seen |-> Seen(d, m, k),
                  more |-> k < Len(m)]

Turned(s) == IF ~s.more THEN s
             ELSE [db |-> storage_NextRecord(s.db),
                   seen |-> Append(s.seen, s.db.rec[s.db.cursor]),
                   more |-> NextResult(s.db) # Null]

LEMMA SeenGrows ==
    ASSUME NEW d, NEW m \in Seq(Nodes), NEW k \in 1..Len(m)
    PROVE  Append(Seen(d, m, k - 1), d.rec[m[k]]) = Seen(d, m, k)
  <1> DEFINE a == Seen(d, m, k - 1)
             b == Seen(d, m, k)
             S == {d.rec[m[i]] : i \in 1..Len(m)}
  <1>1. Len(m) \in Nat /\ k \in Nat /\ k - 1 \in Nat /\ Least(k - 1, Len(m)) = k - 1 /\ Least(k, Len(m)) = k
    BY DEF Least
  <1>2. \A i \in 1..k : i \in 1..Len(m)
    BY <1>1
  <1>3. a = [i \in 1..(k - 1) |-> d.rec[m[i]]] /\ b = [i \in 1..k |-> d.rec[m[i]]]
    BY <1>1 DEF Seen
  <1>4. \A i \in 1..(k - 1) : d.rec[m[i]] \in S
    BY <1>1, <1>2
  <1> HIDE DEF S
  <1>5. a \in Seq(S) /\ Len(a) = k - 1 /\ d.rec[m[k]] \in S
    <2>1. a \in [1..(k - 1) -> S]
      BY <1>3, <1>4
    <2>2. d.rec[m[k]] \in S
      BY DEF S
    <2> HIDE DEF a
    <2>3. QED
      BY <2>1, <2>2, <1>1
  <1> HIDE DEF a, b
  <1>6. /\ Append(a, d.rec[m[k]]) \in Seq(S) /\ Len(Append(a, d.rec[m[k]])) = k
        /\ Append(a, d.rec[m[k]])[k] = d.rec[m[k]]
        /\ \A i \in 1..(k - 1) : Append(a, d.rec[m[k]])[i] = a[i]
    <2>1. /\ Append(a, d.rec[m[k]]) \in Seq(S) /\ Len(Append(a, d.rec[m[k]])) = Len(a) + 1
          /\ Append(a, d.rec[m[k]])[Len(a) + 1] = d.rec[m[k]]
          /\ \A i \in 1..Len(a) : Append(a, d.rec[m[k]])[i] = a[i]
      BY <1>5, AppendFacts
    <2>2. Len(a) + 1 = k
      BY <1>1, <1>5
    <2>3. QED
      BY <2>1, <2>2, <1>5
  <1>7. \A i \in 1..k : i = k \/ i \in 1..(k - 1)
    BY <1>1
  <1>8. \A i \in 1..k : Append(a, d.rec[m[k]])[i] = d.rec[m[i]]
    BY <1>3, <1>6, <1>7
  <1>9. Append(a, d.rec[m[k]]) = [i \in 1..k |-> d.rec[m[i]]]
    <2>1. Append(a, d.rec[m[k]]) = [i \in 1..k |-> Append(a, d.rec[m[k]])[i]]
      BY <1>6
    <2>2. QED
      BY <2>1, <1>8
  <1>10. QED
    BY <1>3, <1>9 DEF a, b

LEMMA TurnFacts ==
    ASSUME NEW d \in Heap, NEW m, Found(d, m), NEW k \in Nat, k # 0
    PROVE  Turned(Turn(d, m, k - 1)) = Turn(d, m, k)
  <1> DEFINE s == Turn(d, m, k - 1)
             c == Elem(m, Least(k, Len(m)))
  <1>1. m \in Seq(Nodes) /\ Len(m) \in Nat /\ k - 1 \in Nat /\ (k - 1) + 1 = k
    BY DEF Found, Chain
  <1>2. s.db = Cursor(d, c) /\ s.seen = Seen(d, m, k - 1) /\ s.more = (k - 1 < Len(m))
    BY <1>1 DEF Turn
  <1>3. CASE ~(k - 1 < Len(m))
    <2>1. Least(k, Len(m)) = Len(m) /\ Least(k + 1, Len(m)) = Len(m) /\ Least(k - 1, Len(m)) = Len(m)
      BY <1>1, <1>3 DEF Least
    <2>2. (k - 1 < Len(m)) = FALSE /\ (k < Len(m)) = FALSE
      BY <1>1, <1>3
    <2>3. Turn(d, m, k) = s
      BY <2>1, <2>2, <1>1 DEF Turn, Seen
    <2>4. Turned(s) = s
      BY <1>2, <1>3 DEF Turned
    <2>5. QED
      BY <2>3, <2>4
  <1>4. CASE k - 1 < Len(m)
    <2>1. k \in 1..Len(m) /\ Least(k, Len(m)) = k
      BY <1>1, <1>4 DEF Least
    <2>2. c = m[k] /\ c \in Nodes /\ c # Null
      BY <2>1, <1>1, ElemFacts
    <2> HIDE DEF c
    <2> DEFINE x == Cursor(d, c)
    <2>3. x \in Heap /\ x.cursor = c /\ x.result = d.result /\ x.res = d.res /\ x.rec = d.rec
      BY <2>2, CursorFacts DEF SameList
    <2>4. \A b : Cursor(x, b) = Cursor(d, b)
      BY <2>2, CursorFacts
    <2>5. Cursor(x, c) = x
      BY <2>4
    <2>6. d.result = Elem(m, 1) /\ d.res[m[k]] = Elem(m, k + 1)
      BY <2>1 DEF Found, Chain
    <2>7. d.result # Null
      <3>1. 1 \in 1..Len(m)
        BY <2>1, <1>1
      <3>2. QED
        BY <3>1, <2>6, <1>1, ElemFacts
    <2> HIDE DEF x
    <2>8. NextResult(x) = Elem(m, k + 1)
      BY <2>2, <2>3, <2>6, <2>7 DEF NextResult
    <2>9. (NextResult(x) # Null) = (k < Len(m)) /\ storage_NextRecord(x) = Cursor(d, Elem(m, Least(k + 1, Len(m))))
      <3>1. CASE k < Len(m)
        <4>1. k + 1 \in 1..Len(m) /\ Least(k + 1, Len(m)) = k + 1
          BY <3>1, <1>1 DEF Least
        <4>2. NextResult(x) # Null
          BY <4>1, <2>8, <1>1, ElemFacts
        <4>3. storage_NextRecord(x) = Cursor(x, NextResult(x))
          BY <4>2 DEF storage_NextRecord, Cursor
        <4>4. storage_NextRecord(x) = Cursor(d, Elem(m, k + 1))
          BY <4>3, <2>4, <2>8
        <4>5. QED
          BY <4>1, <4>2, <4>4, <3>1
      <3>2. CASE ~(k < Len(m))
        <4>1. k + 1 \notin 1..Len(m) /\ Least(k + 1, Len(m)) = k
          BY <3>2, <2>1, <1>1 DEF Least
        <4>2. NextResult(x) = Null
          BY <4>1, <2>8 DEF Elem
        <4>3. storage_NextRecord(x) = x
          BY <4>2 DEF storage_NextRecord
        <4>4. Elem(m, k) = c
          BY <2>1, <2>2 DEF Elem
        <4>5. QED
          BY <4>1, <4>2, <4>3, <4>4, <3>2 DEF x
      <3>3. QED
        BY <3>1, <3>2
    <2>10. Append(s.seen, x.rec[x.cursor]) = Seen(d, m, k)
      BY <2>1, <2>2, <2>3, <1>1, <1>2, SeenGrows
    <2>11. Turned(s) = [db |-> storage_NextRecord(x), seen |-> Append(s.seen, x.rec[x.cursor]),
                        more |-> NextResult(x) # Null]
      BY <1>2, <1>4 DEF Turned, x
    <2>12. QED
      BY <2>9, <2>10, <2>11 DEF Turn
  <1>5. QED
    BY <1>3, <1>4

LEMMA LeastOne ==
    ASSUME NEW n \in Nat, n >= 1
    PROVE  Least(0 + 1, n) = 1 /\ 1 \in 1..n /\ 0 < n
  <1>1. CASE n = 1
    BY <1>1 DEF Least
  <1>2. CASE 0 + 1 < n
    BY <1>2 DEF Least
  <1>3. QED
    BY <1>1, <1>2

LEMMA EnumerateIs ==
    ASSUME NEW d \in Heap, NEW l, Listed(d, l), NEW g, NEW f, NEW q, NEW m,
           q = storage_QueryBySubject(d, g, f), m = Matching(d, g, f)
    PROVE  tudor_enumerate_records(d, g, f) = Turn(q, m, MaxNodes + 1)
  <1> DEFINE start == storage_FirstRecord(storage_QueryBySubject(d, g, f))
             N == MaxNodes + 1
             P(w) == w = [k \in 0..N |->
                        IF k = 0 THEN [db |-> start, seen |-> <<>>, more |-> start.result # Null]
                        ELSE IF ~w[k-1].more THEN w[k-1]
                        ELSE [db |-> storage_NextRecord(w[k-1].db),
                              seen |-> Append(w[k-1].seen, w[k-1].db.rec[w[k-1].db.cursor]),
                              more |-> NextResult(w[k-1].db) # Null]]
             loop == CHOOSE w : P(w)
             v == [k \in 0..N |-> Turn(q, m, k)]
  <1>1. q \in Heap /\ Found(q, m) /\ q.cursor = q.result
    BY QueryIs
  <1>2. m \in Seq(Nodes) /\ Len(m) \in Nat /\ q.result = Elem(m, 1)
    BY <1>1 DEF Found, Chain
  <1>3. N \in Nat /\ MaxNodes \in Nat
    BY NodeFacts
  <1>4. start = q
    <2>1. start = Cursor(q, q.result)
      BY DEF storage_FirstRecord, Cursor
    <2>2. QED
      BY <2>1, <1>1, CursorFacts
  <1>5. Turn(q, m, 0) = [db |-> start, seen |-> <<>>, more |-> start.result # Null]
    <2>1. Elem(m, Least(0 + 1, Len(m))) = q.result /\ (0 < Len(m)) = (q.result # Null)
      <3>1. CASE Len(m) = 0
        <4>1. Least(0 + 1, Len(m)) = 0 /\ 0 \notin 1..Len(m) /\ 1 \notin 1..Len(m)
          BY <3>1 DEF Least
        <4>2. QED
          BY <4>1, <3>1, <1>2 DEF Elem
      <3>2. CASE Len(m) # 0
        <4>1. Least(0 + 1, Len(m)) = 1 /\ 1 \in 1..Len(m) /\ 0 < Len(m)
          <5>1. Len(m) \in Nat /\ Len(m) >= 1
            BY <3>2, <1>2
          <5>2. QED
            BY <5>1, LeastOne
        <4>2. q.result # Null
          BY <4>1, <1>2, ElemFacts
        <4>3. QED
          BY <4>1, <4>2, <1>2
      <3>3. QED
        BY <3>1, <3>2
    <2>2. Cursor(q, q.result) = q
      BY <1>1, CursorFacts
    <2>3. Seen(q, m, 0) = <<>>
      <3>1. Least(0, Len(m)) = 0
        BY <1>2 DEF Least
      <3>2. Seen(q, m, 0) = [i \in 1..0 |-> q.rec[m[i]]]
        BY <3>1 DEF Seen
      <3>3. QED
        BY <3>2
    <2> HIDE DEF start
    <2>4. QED
      BY <2>1, <2>2, <2>3, <1>4 DEF Turn
  <1> HIDE DEF start, N
  <1>6. \A k \in 0..N : k # 0 => k - 1 \in 0..N /\ k \in Nat
    BY <1>3
  <1>7. \A k \in 0..N : k # 0 => Turned(Turn(q, m, k - 1)) = Turn(q, m, k)
    BY <1>1, <1>6, TurnFacts
  <1>8. v[0] = [db |-> start, seen |-> <<>>, more |-> start.result # Null]
    BY <1>3, <1>5
  <1>9. \A k \in 0..N : k # 0 => v[k] = Turned(v[k-1])
    BY <1>6, <1>7
  <1> HIDE DEF v
  <1>10. P(v)
    <2>1. \A k \in 0..N : v[k] =
             IF k = 0 THEN [db |-> start, seen |-> <<>>, more |-> start.result # Null]
             ELSE IF ~v[k-1].more THEN v[k-1]
             ELSE [db |-> storage_NextRecord(v[k-1].db),
                   seen |-> Append(v[k-1].seen, v[k-1].db.rec[v[k-1].db.cursor]),
                   more |-> NextResult(v[k-1].db) # Null]
      BY <1>8, <1>9 DEF Turned
    <2>2. v = [k \in 0..N |-> v[k]]
      BY DEF v
    <2>3. QED
      BY <2>1, <2>2
  <1>11. P(loop)
    <2> HIDE DEF P
    <2>1. \E w : P(w)
      BY <1>10
    <2>2. QED
      BY <2>1
  <1>12. tudor_enumerate_records(d, g, f) = loop[N]
    BY DEF tudor_enumerate_records, start, N
  <1> HIDE DEF loop
  <1>13. loop[0] = v[0] /\ \A k \in 0..N : k # 0 => loop[k] = Turned(loop[k-1])
    <2>1. loop[0] = v[0]
      BY <1>3, <1>8, <1>11
    <2>2. ASSUME NEW k \in 0..N, k # 0
          PROVE  loop[k] = IF ~loop[k-1].more THEN loop[k-1]
             ELSE [db |-> storage_NextRecord(loop[k-1].db),
                   seen |-> Append(loop[k-1].seen, loop[k-1].db.rec[loop[k-1].db.cursor]),
                   more |-> NextResult(loop[k-1].db) # Null]
      BY <1>11, <2>2
    <2>3. QED
      BY <2>1, <2>2 DEF Turned
  <1> DEFINE T == {k \in 0..N : loop[k] = v[k]}
  <1>14. 0 \in T
    BY <1>3, <1>13
  <1>15. ASSUME NEW k \in 0..N, k < N, k \in T PROVE k + 1 \in T
    <2>1. k + 1 \in 0..N /\ k + 1 # 0 /\ (k + 1) - 1 = k
      BY <1>3, <1>15
    <2>2. loop[k + 1] = Turned(loop[k]) /\ v[k + 1] = Turned(v[k])
      BY <2>1, <1>9, <1>13
    <2>3. QED
      BY <2>1, <2>2, <1>15
  <1> HIDE DEF T
  <1>16. 0..N \subseteq T
    BY <1>3, <1>14, <1>15, Upto
  <1>17. N \in 0..N
    BY <1>3
  <1>18. loop[N] = Turn(q, m, N)
    BY <1>16, <1>17 DEF T, v
  <1>19. QED
    BY <1>12, <1>18 DEF N

(* An enumeration reports the records that match, once each, and leaves    *)
(* the heap in order.                                                      *)
LEMMA Enumerate ==
    ASSUME NEW d, Store(d), NEW g, NEW f, NEW e, e = tudor_enumerate_records(d, g, f)
    PROVE  /\ Store(e.db) /\ RecordsOf(e.db) = RecordsOf(d)
           /\ ~e.more /\ IsInjective(e.seen)
           /\ ToSet(e.seen) = {r \in RecordsOf(d) : Matches(r, g, f)}
           /\ storage_GetRecordCount(e.db) = Len(e.seen)
  <1>1. d \in Heap
    BY DEF Store
  <1>2. PICK l : Listed(d, l)
    BY DEF Store
  <1> DEFINE q == storage_QueryBySubject(d, g, f)
             m == Matching(d, g, f)
             N == MaxNodes + 1
             c == Elem(m, Least(N + 1, Len(m)))
  <1>3. e = Turn(q, m, N)
    BY <1>1, <1>2, EnumerateIs
  <1>4. q \in Heap /\ SameList(q, d) /\ Found(q, m)
    BY <1>1, <1>2, QueryIs
  <1>5. Picked(d, l, Len(l), g, f, m)
    BY <1>1, <1>2, MatchingIs
  <1> HIDE DEF q, m
  <1>6. m \in Seq(Nodes) /\ Len(m) \in 0..MaxNodes /\ Len(m) \in Nat /\ Once(m) /\ MaxNodes \in Nat
    BY <1>4, FoundAlive, NodeFacts DEF Found, Chain
  <1>7. ~(N < Len(m)) /\ Least(N, Len(m)) = Len(m) /\ Least(N + 1, Len(m)) = Len(m)
    BY <1>6 DEF Least
  <1>8. e.db = Cursor(q, c) /\ e.seen = [i \in 1..Len(m) |-> q.rec[m[i]]] /\ ~e.more
    <2>1. e.db = Cursor(q, c) /\ e.seen = Seen(q, m, N) /\ e.more = (N < Len(m))
      BY <1>3 DEF Turn
    <2>2. Seen(q, m, N) = [i \in 1..Len(m) |-> q.rec[m[i]]]
      BY <1>7 DEF Seen
    <2> HIDE DEF N, c
    <2>3. QED
      BY <2>1, <2>2, <1>7
  <1>9. IF m = <<>> THEN c = Null ELSE \E i \in 1..Len(m) : m[i] = c
    <2>1. CASE m = <<>>
      BY <2>1, <1>7 DEF Elem
    <2>2. CASE m # <<>>
      <3>1. Len(m) \in 1..Len(m)
        BY <2>2, <1>6
      <3>2. c = m[Len(m)]
        BY <3>1, <1>7 DEF Elem
      <3>3. QED
        BY <3>1, <3>2, <2>2
    <2>3. QED
      BY <2>1, <2>2
  <1> HIDE DEF c
  <1>10. c \in Nodes \cup {Null} /\ Found(e.db, m)
    BY <1>4, <1>8, <1>9, CursorFound
  <1>11. e.db \in Heap /\ SameList(e.db, d)
    <2>1. e.db \in Heap /\ SameList(e.db, q)
      BY <1>4, <1>8, <1>10, CursorFacts
    <2>2. QED
      BY <2>1, <1>4 DEF SameList
  <1>12. Listed(e.db, l) /\ RecordsOf(e.db) = RecordsOf(d)
    BY <1>1, <1>2, <1>11, SameListed
  <1>13. Store(e.db)
    BY <1>10, <1>11, <1>12 DEF Store
  <1>14. Results(e.db) = m
    BY <1>10, <1>11, FoundAlive
  <1>15. Len(e.seen) = Len(m) /\ DOMAIN e.seen = 1..Len(m) /\ \A i \in 1..Len(m) : e.seen[i] = d.rec[m[i]]
    BY <1>4, <1>6, <1>8 DEF SameList
  <1>16. storage_GetRecordCount(e.db) = Len(e.seen)
    BY <1>14, <1>15 DEF storage_GetRecordCount
  <1>17. RecordsOf(d) = Inside(l, d) /\ l \in Seq(Nodes)
    BY <1>1, <1>2, ListedSound
  <1>18. ASSUME NEW a \in 1..Len(m), NEW b \in 1..Len(m), d.rec[m[a]] = d.rec[m[b]] PROVE a = b
    <2>1. PICK i \in 1..Len(l) : m[a] = l[i]
      BY <1>5 DEF Picked
    <2>2. PICK j \in 1..Len(l) : m[b] = l[j]
      BY <1>5 DEF Picked
    <2>3. i = j
      BY <2>1, <2>2, <1>2, <1>18 DEF Listed
    <2>4. QED
      BY <2>1, <2>2, <2>3, <1>6 DEF Once
  <1>19. IsInjective(e.seen)
    BY <1>15, <1>18 DEF IsInjective
  <1>20. ToSet(e.seen) = {r \in RecordsOf(d) : Matches(r, g, f)}
    <2>1. ASSUME NEW r \in ToSet(e.seen) PROVE r \in RecordsOf(d) /\ Matches(r, g, f)
      <3>1. PICK a \in 1..Len(m) : r = d.rec[m[a]]
        BY <1>15 DEF ToSet
      <3>2. PICK j \in 1..Len(l) : m[a] = l[j] /\ Matches(d.rec[l[j]], g, f)
        BY <1>5 DEF Picked
      <3>3. QED
        BY <3>1, <3>2, <1>17 DEF Inside
    <2>2. ASSUME NEW r \in RecordsOf(d), Matches(r, g, f) PROVE r \in ToSet(e.seen)
      <3>1. PICK j \in 1..Len(l) : r = d.rec[l[j]]
        BY <1>17 DEF Inside
      <3>2. PICK a \in 1..Len(m) : m[a] = l[j]
        BY <3>1, <2>2, <1>5 DEF Picked
      <3>3. QED
        BY <3>1, <3>2, <1>15 DEF ToSet
    <2>3. QED
      BY <2>1, <2>2
  <1>21. QED
    BY <1>8, <1>12, <1>13, <1>16, <1>19, <1>20

(* What the DLL's engine does with the list. *)
LEMMA QueryKeeps ==
    ASSUME NEW d, Store(d), NEW g, NEW f
    PROVE  /\ Store(storage_QueryBySubject(d, g, f))
           /\ RecordsOf(storage_QueryBySubject(d, g, f)) = RecordsOf(d)
  <1> DEFINE q == storage_QueryBySubject(d, g, f)
  <1>1. d \in Heap
    BY DEF Store
  <1>2. PICK l : Listed(d, l)
    BY DEF Store
  <1>3. q \in Heap /\ SameList(q, d) /\ Found(q, Matching(d, g, f))
    BY <1>1, <1>2, QueryIs
  <1> HIDE DEF q
  <1>4. Listed(q, l) /\ RecordsOf(q) = RecordsOf(d)
    BY <1>1, <1>2, <1>3, SameListed
  <1>5. QED
    BY <1>3, <1>4 DEF Store, q

LEMMA CursorKeeps ==
    ASSUME NEW d, Store(d), NEW m, Found(d, m), NEW c,
           IF m = <<>> THEN c = Null ELSE \E i \in 1..Len(m) : m[i] = c
    PROVE  Store(Cursor(d, c)) /\ RecordsOf(Cursor(d, c)) = RecordsOf(d)
  <1>1. d \in Heap
    BY DEF Store
  <1>2. PICK l : Listed(d, l)
    BY DEF Store
  <1>3. c \in Nodes \cup {Null} /\ Found(Cursor(d, c), m)
    BY <1>1, CursorFound
  <1>4. Cursor(d, c) \in Heap /\ SameList(Cursor(d, c), d)
    BY <1>1, <1>3, CursorFacts
  <1>5. Listed(Cursor(d, c), l) /\ RecordsOf(Cursor(d, c)) = RecordsOf(d)
    BY <1>1, <1>2, <1>4, SameListed
  <1>6. QED
    BY <1>3, <1>4, <1>5 DEF Store

LEMMA FirstKeeps ==
    ASSUME NEW d, Store(d)
    PROVE  Store(storage_FirstRecord(d)) /\ RecordsOf(storage_FirstRecord(d)) = RecordsOf(d)
  <1>1. PICK m : Found(d, m)
    BY DEF Store
  <1>2. m \in Seq(Nodes) /\ Len(m) \in Nat /\ d.result = Elem(m, 1)
    BY <1>1 DEF Found, Chain
  <1>3. IF m = <<>> THEN d.result = Null ELSE \E i \in 1..Len(m) : m[i] = d.result
    <2>1. CASE m = <<>>
      BY <2>1, <1>2 DEF Elem
    <2>2. CASE m # <<>>
      <3>1. 1 \in 1..Len(m)
        BY <2>2, <1>2
      <3>2. d.result = m[1]
        BY <3>1, <1>2 DEF Elem
      <3>3. QED
        BY <3>1, <3>2, <2>2
    <2>3. QED
      BY <2>1, <2>2
  <1>4. storage_FirstRecord(d) = Cursor(d, d.result)
    BY DEF storage_FirstRecord, Cursor
  <1>5. QED
    BY <1>1, <1>3, <1>4, CursorKeeps

LEMMA NextKeeps ==
    ASSUME NEW d, Store(d)
    PROVE  Store(storage_NextRecord(d)) /\ RecordsOf(storage_NextRecord(d)) = RecordsOf(d)
  <1>1. PICK m : Found(d, m)
    BY DEF Store
  <1>2. m \in Seq(Nodes) /\ Len(m) \in Nat
    BY <1>1 DEF Found, Chain
  <1>3. CASE NextResult(d) = Null
    BY <1>3 DEF storage_NextRecord
  <1>4. CASE NextResult(d) # Null
    <2>1. d.cursor # Null /\ NextResult(d) = d.res[d.cursor]
      BY <1>4 DEF NextResult
    <2>2. PICK i \in 1..Len(m) : m[i] = d.cursor
      BY <2>1, <1>1 DEF Found
    <2>3. NextResult(d) = Elem(m, i + 1)
      BY <2>1, <2>2, <1>1 DEF Found, Chain
    <2>4. i + 1 \in 1..Len(m) /\ NextResult(d) = m[i + 1]
      BY <2>3, <1>4 DEF Elem
    <2>5. m # <<>>
      BY <2>2
    <2>6. storage_NextRecord(d) = Cursor(d, NextResult(d))
      BY <1>4 DEF storage_NextRecord, Cursor
    <2>7. IF m = <<>> THEN NextResult(d) = Null ELSE \E j \in 1..Len(m) : m[j] = NextResult(d)
      BY <2>4, <2>5
    <2>8. QED
      BY <2>6, <2>7, <1>1, CursorKeeps
  <1>5. QED
    BY <1>3, <1>4

(* A heap in order is what SessionSound asks of it. *)
LEMMA StoreSound ==
    ASSUME NEW d, Store(d)
    PROVE  /\ d \in Heap /\ ListSound(d) /\ ResultsAlive(d) /\ EnumerationExact(d)
           /\ RecordsOf(d) \subseteq Record
  <1>1. d \in Heap
    BY DEF Store
  <1>2. PICK l : Listed(d, l)
    BY DEF Store
  <1>3. PICK m : Found(d, m)
    BY DEF Store
  <1>4. ListSound(d) /\ RecordsOf(d) \subseteq Record
    BY <1>1, <1>2, ListedSound
  <1>5. ResultsAlive(d)
    BY <1>1, <1>3, FoundAlive
  <1>6. EnumerationExact(d)
    <2>1. ASSUME NEW g, NEW f, NEW e, e = tudor_enumerate_records(d, g, f)
          PROVE  /\ ~e.more /\ IsInjective(e.seen)
                 /\ ToSet(e.seen) = {r \in RecordsOf(d) : Matches(r, g, f)}
                 /\ storage_GetRecordCount(e.db) = Len(e.seen)
      BY <2>1, Enumerate
    <2>2. QED
      BY <2>1 DEF EnumerationExact
  <1>7. QED
    BY <1>1, <1>4, <1>5, <1>6

(* The records as save_datastore_records writes them. *)
LEMMA ListOfRecords ==
    ASSUME NEW d, Store(d)
    PROVE  /\ List(d) \in Seq(Nodes) /\ Len(List(d)) \in 0..MaxNodes
           /\ \A i \in 1..Len(List(d)) : d.rec[List(d)[i]] \in Record
           /\ \A i, j \in 1..Len(List(d)) : d.rec[List(d)[i]] = d.rec[List(d)[j]] => i = j
           /\ RecordsOf(d) = {d.rec[List(d)[i]] : i \in 1..Len(List(d))}
  <1>1. d \in Heap
    BY DEF Store
  <1>2. PICK l : Listed(d, l)
    BY DEF Store
  <1>3. /\ List(d) = l /\ l \in Seq(Nodes) /\ Len(l) \in 0..MaxNodes
        /\ RecordsOf(d) = Inside(l, d) /\ Inside(l, d) \subseteq Record
    BY <1>1, <1>2, ListedSound
  <1>4. \A i \in 1..Len(l) : d.rec[l[i]] \in Record
    BY <1>3 DEF Inside
  <1>5. \A i, j \in 1..Len(l) : d.rec[l[i]] = d.rec[l[j]] => i = j
    BY <1>2 DEF Listed
  <1>6. QED
    BY <1>3, <1>4, <1>5 DEF Inside

-----------------------------------------------------------------------------
(* Pairing data.  The list pd holds what is known, each name once.         *)
PairItem == [kind : {"pair"}, name : Names, val : Values]

NoTwins(pd) == \A i, j \in 1..Len(pd) : pd[i].name = pd[j].name => i = j

Agrees(pd, know) ==
    /\ pd \in Seq(PairItem) /\ NoTwins(pd)
    /\ \A i \in 1..Len(pd) : know[pd[i].name] = pd[i].val
    /\ \A n \in Names : (\A i \in 1..Len(pd) : pd[i].name # n) => know[n] = NoValue

LEMMA PairFacts ==
    ASSUME NEW n \in Names, NEW v \in Values
    PROVE  Pair(n, v) \in PairItem /\ Pair(n, v).name = n /\ Pair(n, v).val = v
  BY DEF Pair, PairItem

LEMMA PairItemFacts ==
    ASSUME NEW x \in PairItem
    PROVE  x.kind = "pair" /\ x.name \in Names /\ x.val \in Values /\ x.val # NoValue
  BY CliAssumption DEF PairItem

(* Where a name is; without twins there is one place. *)
LEMMA PlaceIs ==
    ASSUME NEW pd \in Seq(PairItem), NoTwins(pd), NEW i \in 1..Len(pd), NEW n, pd[i].name = n
    PROVE  (CHOOSE k \in DOMAIN pd : pd[k].name = n /\ \A j \in 1..(k-1) : pd[j].name # n) = i
  <1>1. Len(pd) \in Nat /\ DOMAIN pd = 1..Len(pd) /\ i \in Nat
    OBVIOUS
  <1>2. \A j \in 1..(i-1) : j \in 1..Len(pd) /\ j # i
    BY <1>1
  <1>3. \A j \in 1..(i-1) : pd[j].name # n
    BY <1>2 DEF NoTwins
  <1>4. \A k \in DOMAIN pd : pd[k].name = n => k = i
    BY <1>1 DEF NoTwins
  <1>5. QED
    BY <1>1, <1>3, <1>4

LEMMA GetIs ==
    ASSUME NEW pd \in Seq(PairItem), NoTwins(pd), NEW i \in 1..Len(pd)
    PROVE  get_pair_data(pd, pd[i].name) = pd[i].val
  <1>1. DOMAIN pd = 1..Len(pd)
    OBVIOUS
  <1>2. (CHOOSE k \in DOMAIN pd : pd[k].name = pd[i].name
                                  /\ \A j \in 1..(k-1) : pd[j].name # pd[i].name) = i
    BY PlaceIs
  <1>3. \E k \in DOMAIN pd : pd[k].name = pd[i].name
    BY <1>1
  <1>4. QED
    BY <1>2, <1>3 DEF get_pair_data

LEMMA GetNone ==
    ASSUME NEW pd \in Seq(PairItem), NEW n, \A i \in 1..Len(pd) : pd[i].name # n
    PROVE  get_pair_data(pd, n) = NoValue
  <1>1. DOMAIN pd = 1..Len(pd)
    OBVIOUS
  <1>2. QED
    BY <1>1 DEF get_pair_data

LEMMA AgreesGet ==
    ASSUME NEW pd, NEW know, Agrees(pd, know), NEW n \in Names
    PROVE  get_pair_data(pd, n) = know[n]
  <1>1. pd \in Seq(PairItem) /\ NoTwins(pd)
    BY DEF Agrees
  <1>2. CASE \E i \in 1..Len(pd) : pd[i].name = n
    <2>1. PICK i \in 1..Len(pd) : pd[i].name = n
      BY <1>2
    <2>2. get_pair_data(pd, pd[i].name) = pd[i].val
      BY <1>1, GetIs
    <2>3. QED
      BY <2>1, <2>2 DEF Agrees
  <1>3. CASE \A i \in 1..Len(pd) : pd[i].name # n
    BY <1>1, <1>3, GetNone DEF Agrees
  <1>4. QED
    BY <1>2, <1>3

(* set_pair_data replaces the entry or puts one in front. *)
LEMMA AgreesSet ==
    ASSUME NEW pd, NEW know, Agrees(pd, know), NEW n \in Names, NEW v \in Values,
           NEW new, \A x \in Names : new[x] = IF x = n THEN v ELSE know[x]
    PROVE  Agrees(set_pair_data(pd, n, v), new)
  <1>1. pd \in Seq(PairItem) /\ NoTwins(pd) /\ Len(pd) \in Nat
    BY DEF Agrees
  <1>2. \A i \in 1..Len(pd) : pd[i] \in PairItem /\ pd[i].name \in Names /\ pd[i].val # NoValue
    BY <1>1, PairItemFacts
  <1>3. Pair(n, v) \in PairItem /\ Pair(n, v).name = n /\ Pair(n, v).val = v
    BY PairFacts
  <1>4. CASE \E i \in 1..Len(pd) : pd[i].name = n
    <2>1. PICK i \in 1..Len(pd) : pd[i].name = n
      BY <1>4
    <2>2. get_pair_data(pd, n) # NoValue
      BY <2>1, <1>1, <1>2, GetIs
    <2>3. (CHOOSE k \in DOMAIN pd : pd[k].name = n /\ \A j \in 1..(k-1) : pd[j].name # n) = i
      BY <2>1, <1>1, PlaceIs
    <2> DEFINE s == [pd EXCEPT ![i] = Pair(n, v)]
    <2>4. set_pair_data(pd, n, v) = s
      BY <2>2, <2>3 DEF set_pair_data
    <2>5. /\ s \in Seq(PairItem) /\ Len(s) = Len(pd) /\ s[i] = Pair(n, v)
          /\ \A k \in 1..Len(pd) : k # i => s[k] = pd[k]
      BY <1>1, <1>3
    <2> HIDE DEF s
    <2>6. \A k \in 1..Len(pd) : s[k].name = pd[k].name
      BY <2>1, <2>5, <1>3
    <2>7. NoTwins(s)
      BY <2>5, <2>6, <1>1 DEF NoTwins
    <2>8. ASSUME NEW k \in 1..Len(s) PROVE new[s[k].name] = s[k].val
      <3>1. CASE k = i
        BY <3>1, <2>5, <1>3
      <3>2. CASE k # i
        <4>1. pd[k].name # n
          BY <3>2, <2>1, <2>5, <1>1 DEF NoTwins
        <4>2. new[pd[k].name] = know[pd[k].name]
          BY <4>1, <2>5, <1>2
        <4>3. QED
          BY <4>2, <3>2, <2>5 DEF Agrees
      <3>3. QED
        BY <3>1, <3>2
    <2>9. ASSUME NEW x \in Names, \A k \in 1..Len(s) : s[k].name # x PROVE new[x] = NoValue
      <3>1. x # n
        BY <2>9, <2>5, <1>3
      <3>2. \A k \in 1..Len(pd) : pd[k].name # x
        BY <2>9, <2>5, <2>6
      <3>3. QED
        BY <3>1, <3>2 DEF Agrees
    <2>10. Agrees(s, new)
      BY <2>5, <2>7, <2>8, <2>9 DEF Agrees
    <2>11. QED
      BY <2>4, <2>10
  <1>5. CASE \A i \in 1..Len(pd) : pd[i].name # n
    <2>1. get_pair_data(pd, n) = NoValue
      BY <1>1, <1>5, GetNone
    <2> DEFINE s == <<Pair(n, v)>> \o pd
    <2>2. set_pair_data(pd, n, v) = s
      BY <2>1 DEF set_pair_data
    <2>3. /\ s \in Seq(PairItem) /\ Len(s) = Len(pd) + 1 /\ s[1] = Pair(n, v)
          /\ \A k \in 1..Len(pd) : s[k + 1] = pd[k]
      BY <1>1, <1>3, ConsFacts
    <2> HIDE DEF s
    <2>4. \A k \in 1..Len(s) : k = 1 \/ (k - 1 \in 1..Len(pd) /\ s[k] = pd[k - 1])
      <3> TAKE k \in 1..Len(s)
      <3>1. CASE k # 1
        <4>1. k - 1 \in 1..Len(pd) /\ (k - 1) + 1 = k
          BY <3>1, <2>3, <1>1
        <4>2. QED
          BY <4>1, <2>3
      <3>2. QED
        BY <3>1
    <2>5. NoTwins(s)
      <3> SUFFICES ASSUME NEW i \in 1..Len(s), NEW j \in 1..Len(s), s[i].name = s[j].name
                   PROVE  i = j
        BY DEF NoTwins
      <3>1. CASE i = 1 \/ j = 1
        BY <3>1, <2>3, <2>4, <1>3, <1>5
      <3>2. CASE i # 1 /\ j # 1
        <4>1. /\ i - 1 \in 1..Len(pd) /\ s[i] = pd[i - 1]
              /\ j - 1 \in 1..Len(pd) /\ s[j] = pd[j - 1]
          BY <3>2, <2>4
        <4>2. i - 1 = j - 1
          BY <4>1, <1>1 DEF NoTwins
        <4>3. QED
          BY <4>2
      <3>3. QED
        BY <3>1, <3>2
    <2>6. ASSUME NEW k \in 1..Len(s) PROVE new[s[k].name] = s[k].val
      <3>1. CASE k = 1
        BY <3>1, <2>3, <1>3
      <3>2. CASE k # 1
        <4>1. k - 1 \in 1..Len(pd) /\ s[k] = pd[k - 1]
          BY <3>2, <2>4
        <4>2. new[pd[k - 1].name] = know[pd[k - 1].name]
          BY <4>1, <1>2, <1>5
        <4>3. QED
          BY <4>1, <4>2 DEF Agrees
      <3>3. QED
        BY <3>1, <3>2
    <2>7. ASSUME NEW x \in Names, \A k \in 1..Len(s) : s[k].name # x PROVE new[x] = NoValue
      <3>1. x # n
        BY <2>7, <2>3, <1>1, <1>3
      <3>2. ASSUME NEW k \in 1..Len(pd) PROVE pd[k].name # x
        <4>1. k + 1 \in 1..Len(s)
          BY <2>3, <1>1
        <4>2. QED
          BY <4>1, <2>3, <2>7
      <3>3. QED
        BY <3>1, <3>2 DEF Agrees
    <2>8. Agrees(s, new)
      BY <2>3, <2>5, <2>6, <2>7 DEF Agrees
    <2>9. QED
      BY <2>2, <2>8
  <1>6. QED
    BY <1>4, <1>5

(* Loading turns the list round, which changes nothing. *)
LEMMA AgreesReverse ==
    ASSUME NEW pd, NEW know, Agrees(pd, know)
    PROVE  Agrees(Reverse(pd), know)
  <1> DEFINE s == Reverse(pd)
  <1>1. pd \in Seq(PairItem) /\ NoTwins(pd) /\ Len(pd) \in Nat
    BY DEF Agrees
  <1>2. \A i \in 1..Len(pd) : (Len(pd) - i) + 1 \in 1..Len(pd)
    BY <1>1
  <1>3. \A i \in 1..Len(pd) : pd[(Len(pd) - i) + 1] \in PairItem
    BY <1>1, <1>2
  <1>4. s \in [1..Len(pd) -> PairItem]
    BY <1>3 DEF Reverse
  <1>5. /\ s \in Seq(PairItem) /\ Len(s) = Len(pd)
        /\ \A i \in 1..Len(pd) : s[i] = pd[(Len(pd) - i) + 1]
    <2>1. s \in Seq(PairItem) /\ Len(s) = Len(pd)
      <3> HIDE DEF s
      <3>1. QED
        BY <1>1, <1>4
    <2>2. QED
      BY <2>1 DEF Reverse
  <1> HIDE DEF s
  <1>6. NoTwins(s)
    <2> SUFFICES ASSUME NEW i \in 1..Len(pd), NEW j \in 1..Len(pd), s[i].name = s[j].name
                 PROVE  i = j
      BY <1>5 DEF NoTwins
    <2>1. (Len(pd) - i) + 1 = (Len(pd) - j) + 1
      BY <1>1, <1>2, <1>5 DEF NoTwins
    <2>2. QED
      BY <2>1, <1>1
  <1>7. ASSUME NEW i \in 1..Len(s) PROVE know[s[i].name] = s[i].val
    <2>1. (Len(pd) - i) + 1 \in 1..Len(pd) /\ s[i] = pd[(Len(pd) - i) + 1]
      BY <1>2, <1>5
    <2>2. QED
      BY <2>1 DEF Agrees
  <1>8. ASSUME NEW n \in Names, \A i \in 1..Len(s) : s[i].name # n PROVE know[n] = NoValue
    <2>1. ASSUME NEW j \in 1..Len(pd) PROVE pd[j].name # n
      <3>1. (Len(pd) - j) + 1 \in 1..Len(s) /\ (Len(pd) - ((Len(pd) - j) + 1)) + 1 = j
        BY <1>1, <1>5
      <3>2. s[(Len(pd) - j) + 1] = pd[j]
        BY <3>1, <1>5
      <3>3. QED
        BY <3>1, <3>2, <1>8
    <2>2. QED
      BY <2>1 DEF Agrees
  <1>9. QED
    BY <1>5, <1>6, <1>7, <1>8 DEF Agrees, s

-----------------------------------------------------------------------------
(* The data store.  Its items are pairing data, a terminator, records and  *)
(* a terminator, or a part of that from the start.                         *)
Item == PairItem \cup {Rec(r) : r \in Record} \cup {End}

FileIs(items, pd, rs) ==
    /\ pd \in Seq(PairItem) /\ rs \in Seq(Record) /\ items \in Seq(Item)
    /\ Len(items) \in {Len(pd), Len(pd) + 1 + Len(rs), Len(pd) + 2 + Len(rs)}
    /\ Len(items) = Len(pd) => rs = <<>>
    /\ \A i \in 1..Len(pd) : items[i] = pd[i]
    /\ Len(items) > Len(pd) => items[Len(pd) + 1] = End
    /\ \A i \in 1..Len(rs) : items[Len(pd) + 1 + i] = Rec(rs[i])
    /\ Len(items) = Len(pd) + 2 + Len(rs) => items[Len(pd) + 2 + Len(rs)] = End

LEMMA ItemFacts ==
    /\ End.kind = "end" /\ \A r : Rec(r).kind = "rec" /\ Rec(r).rec = r
    /\ \A x \in PairItem : x.kind = "pair"
    /\ PairItem \subseteq Item /\ End \in Item /\ \A r \in Record : Rec(r) \in Item
    /\ \A q, r : Rec(q) = Rec(r) => q = r
  <1>1. End.kind = "end" /\ \A r : Rec(r).kind = "rec" /\ Rec(r).rec = r
    BY DEF End, Rec
  <1>2. \A q, r : Rec(q) = Rec(r) => q = r
    BY <1>1
  <1>3. \A x \in PairItem : x.kind = "pair"
    BY PairItemFacts
  <1>4. PairItem \subseteq Item /\ End \in Item /\ \A r \in Record : Rec(r) \in Item
    BY DEF Item
  <1>5. QED
    BY <1>1, <1>2, <1>3, <1>4

(* What load_datastore_X reads: items of its kind up to another one.       *)
LEMMA EntriesAre ==
    ASSUME NEW items \in Seq(Item), NEW kind, NEW n \in 0..Len(items),
           \A i \in 1..n : items[i].kind = kind,
           n < Len(items) => items[n + 1].kind # kind
    PROVE  Entries(items, kind) = SubSeq(items, 1, n)
  <1> DEFINE I == {i \in 1..Len(items) : items[i].kind # kind}
  <1>1. Section(items, kind) = IF I # {} THEN Min(I) ELSE 0
    BY DEF Section, SelectInSeq
  <1>2. Len(items) \in Nat /\ n \in Nat /\ n <= Len(items)
    OBVIOUS
  <1>3. CASE n = Len(items)
    <2>1. I = {}
      BY <1>3
    <2>2. Section(items, kind) = 0
      BY <2>1, <1>1
    <2>3. Entries(items, kind) = items
      BY <2>2 DEF Entries
    <2>4. SubSeq(items, 1, Len(items)) = items
      OBVIOUS
    <2>5. QED
      BY <2>3, <2>4, <1>3
  <1>4. CASE n < Len(items)
    <2>1. n + 1 \in 1..Len(items) /\ items[n + 1].kind # kind
      BY <1>2, <1>4
    <2>2. n + 1 \in I
      BY <2>1
    <2>3. \A i \in I : n + 1 <= i
      <3> SUFFICES ASSUME NEW i \in 1..Len(items), items[i].kind # kind PROVE n + 1 <= i
        OBVIOUS
      <3>1. ~(i \in 1..n)
        OBVIOUS
      <3>2. QED
        BY <3>1, <1>2
    <2>4. I \subseteq Nat
      OBVIOUS
    <2> HIDE DEF I
    <2>5. Min(I) \in I /\ \A y \in I : Min(I) <= y
      BY <2>2, <2>3 DEF Min
    <2>6. Min(I) = n + 1
      <3>1. Min(I) \in Nat /\ Min(I) <= n + 1 /\ n + 1 <= Min(I)
        BY <2>2, <2>3, <2>4, <2>5
      <3>2. QED
        BY <3>1, <1>2
    <2>7. Section(items, kind) = n + 1 /\ n + 1 # 0 /\ (n + 1) - 1 = n
      BY <2>2, <2>6, <1>1, <1>2
    <2>8. QED
      BY <2>7 DEF Entries
  <1>5. QED
    BY <1>2, <1>3, <1>4

(* Both sections of the file are read back. *)
LEMMA PairsRead ==
    ASSUME NEW items, NEW pd, NEW rs, FileIs(items, pd, rs)
    PROVE  Entries(items, "pair") = pd
  <1>1. pd \in Seq(PairItem) /\ rs \in Seq(Record) /\ items \in Seq(Item)
    BY DEF FileIs
  <1>2. Len(pd) \in Nat /\ Len(rs) \in Nat /\ Len(items) \in Nat /\ Len(pd) \in 0..Len(items)
    BY <1>1 DEF FileIs
  <1>3. \A i \in 1..Len(pd) : items[i] = pd[i] /\ items[i].kind = "pair"
    BY <1>1, ItemFacts DEF FileIs
  <1>4. Len(pd) < Len(items) => items[Len(pd) + 1].kind # "pair"
    BY <1>2, ItemFacts DEF FileIs
  <1>5. Entries(items, "pair") = SubSeq(items, 1, Len(pd))
    BY <1>1, <1>2, <1>3, <1>4, EntriesAre
  <1>6. SubSeq(items, 1, Len(pd)) = pd
    BY <1>1, <1>2, <1>3
  <1>7. QED
    BY <1>5, <1>6

Next1(pd, items) == IF Len(pd) < Len(items) THEN Len(pd) + 1 ELSE Len(pd)

LEMMA RecordsRead ==
    ASSUME NEW items, NEW pd, NEW rs, FileIs(items, pd, rs)
    PROVE  Entries(SubSeq(items, Next1(pd, items) + 1, Len(items)), "rec")
              = [i \in 1..Len(rs) |-> Rec(rs[i])]
  <1> DEFINE p == Next1(pd, items)
             rest == SubSeq(items, p + 1, Len(items))
  <1>1. pd \in Seq(PairItem) /\ rs \in Seq(Record) /\ items \in Seq(Item)
    BY DEF FileIs
  <1>2. /\ Len(pd) \in Nat /\ Len(rs) \in Nat /\ Len(items) \in Nat /\ Len(pd) <= Len(items)
        /\ Len(items) \in {Len(pd), Len(pd) + 1 + Len(rs), Len(pd) + 2 + Len(rs)}
    BY <1>1 DEF FileIs
  <1>3. p \in Nat /\ p <= Len(items)
    BY <1>2 DEF Next1
  <1>4. /\ rest \in Seq(Item) /\ Len(rest) = Len(items) - p
        /\ \A i \in 1..(Len(items) - p) : rest[i] = items[p + i]
    <2> HIDE DEF p
    <2>1. QED
      BY <1>1, <1>2, <1>3
  <1> HIDE DEF rest
  <1>5. CASE Len(items) = Len(pd)
    <2>1. rs = <<>> /\ p = Len(items)
      BY <1>5, <1>2 DEF FileIs, Next1
    <2>2. Len(rest) = 0 /\ rest = <<>>
      BY <2>1, <1>2, <1>4
    <2>3. 0 \in 0..Len(rest) /\ ~(0 < Len(rest))
      BY <2>2
    <2>4. Entries(rest, "rec") = SubSeq(rest, 1, 0)
      BY <2>3, <1>4, EntriesAre
    <2>5. SubSeq(rest, 1, 0) = <<>> /\ [i \in 1..Len(<<>>) |-> Rec(<<>>[i])] = <<>>
      BY <2>2
    <2>6. QED
      BY <2>1, <2>4, <2>5 DEF rest
  <1>6. CASE Len(items) # Len(pd)
    <2>1. p = Len(pd) + 1
      BY <1>6, <1>2 DEF Next1
    <2> HIDE DEF p
    <2>2. Len(rs) \in 0..Len(rest) /\ Len(rest) \in {Len(rs), Len(rs) + 1}
      BY <2>1, <1>2, <1>4, <1>6
    <2>3. \A i \in 1..Len(rs) : items[Len(pd) + 1 + i] = Rec(rs[i])
      BY DEF FileIs
    <2>4. \A i \in 1..Len(rs) : i \in 1..(Len(items) - p) /\ p + i = Len(pd) + 1 + i
      BY <2>1, <2>2, <1>2, <1>4
    <2>5. \A i \in 1..Len(rs) : rest[i] = Rec(rs[i]) /\ rest[i].kind = "rec"
      BY <2>3, <2>4, <1>4, ItemFacts
    <2>6. Len(rs) < Len(rest) => rest[Len(rs) + 1].kind # "rec"
      <3> SUFFICES ASSUME Len(rs) < Len(rest) PROVE rest[Len(rs) + 1].kind # "rec"
        OBVIOUS
      <3>1. Len(rest) = Len(rs) + 1 /\ Len(items) = Len(pd) + 2 + Len(rs)
        BY <2>1, <2>2, <1>2, <1>4
      <3>2. items[Len(pd) + 2 + Len(rs)] = End
        BY <3>1 DEF FileIs
      <3>3. Len(rs) + 1 \in 1..(Len(items) - p) /\ p + (Len(rs) + 1) = Len(pd) + 2 + Len(rs)
        BY <3>1, <2>1, <1>2, <1>4
      <3>4. rest[Len(rs) + 1] = End
        BY <3>2, <3>3, <1>4
      <3>5. QED
        BY <3>4, ItemFacts
    <2>7. Entries(rest, "rec") = SubSeq(rest, 1, Len(rs))
      BY <2>2, <2>5, <2>6, <1>4, EntriesAre
    <2>8. SubSeq(rest, 1, Len(rs)) = [i \in 1..Len(rs) |-> rest[i]]
      BY <2>2, <1>2, <1>4
    <2>9. [i \in 1..Len(rs) |-> rest[i]] = [i \in 1..Len(rs) |-> Rec(rs[i])]
      BY <2>5
    <2>10. QED
      BY <2>7, <2>8, <2>9 DEF rest, p
  <1>7. QED
    BY <1>5, <1>6

(* The records of the data store put in an empty list, one after another:  *)
(* the loop of load_datastore_records.                                     *)
Loaded(new) ==
    LET load[k \in 0..Len(new)] ==
            IF k = 0 THEN EmptyDb ELSE tudor_add_record(load[k-1], new[k].rec)
    IN  load[Len(new)]

(* A heap in order with at most k records, the first k of rs. *)
Holds(x, rs, k) ==
    Store(x) /\ Len(List(x)) <= k /\ RecordsOf(x) = {rs[i] : i \in 1..k}

LEMMA HoldsMore ==
    ASSUME NEW rs \in Seq(Record), Len(rs) <= MaxNodes, NEW k \in 0..Len(rs), k < Len(rs),
           NEW x, Holds(x, rs, k)
    PROVE  HasRoom(x) /\ Holds(tudor_add_record(x, rs[k + 1]), rs, k + 1)
  <1> DEFINE e == tudor_add_record(x, rs[k + 1])
  <1>1. /\ Len(rs) \in Nat /\ k \in Nat /\ MaxNodes \in Nat /\ k < MaxNodes
        /\ k + 1 \in 1..Len(rs) /\ rs[k + 1] \in Record
    BY NodeFacts
  <1>2. Store(x) /\ Len(List(x)) <= k /\ RecordsOf(x) = {rs[i] : i \in 1..k}
    BY DEF Holds
  <1>3. Len(List(x)) \in Nat
    <2>1. Len(List(x)) \in 0..MaxNodes
      BY <1>2, ListOfRecords
    <2>2. QED
      BY <2>1
  <1>4. HasRoom(x)
    <2>1. Len(List(x)) < MaxNodes
      BY <1>1, <1>2, <1>3
    <2>2. QED
      BY <2>1, <1>2, RoomLeft
  <1>5. Store(e) /\ RecordsOf(e) = RecordsOf(x) \cup {rs[k + 1]} /\ Len(List(e)) <= Len(List(x)) + 1
    BY <1>1, <1>2, <1>4, AddRecord
  <1>6. Len(List(e)) \in Nat
    <2>1. Len(List(e)) \in 0..MaxNodes
      BY <1>5, ListOfRecords
    <2>2. QED
      BY <2>1
  <1> HIDE DEF e
  <1>7. Len(List(e)) <= k + 1
    BY <1>1, <1>2, <1>3, <1>5, <1>6
  <1>8. 1..(k + 1) = (1..k) \cup {k + 1}
    BY <1>1
  <1>9. {rs[i] : i \in 1..(k + 1)} = {rs[i] : i \in 1..k} \cup {rs[k + 1]}
    BY <1>8
  <1>10. QED
    BY <1>4, <1>5, <1>7, <1>9, <1>2 DEF Holds, e

(* Loading the records of a data store keeps the heap in order and finds   *)
(* room for all of them.                                                   *)
LEMMA LoadedIs ==
    ASSUME NEW rs \in Seq(Record), Len(rs) <= MaxNodes,
           NEW new, new = [i \in 1..Len(rs) |-> Rec(rs[i])]
    PROVE  Store(Loaded(new)) /\ RecordsOf(Loaded(new)) = {rs[i] : i \in 1..Len(rs)}
  <1> DEFINE N == Len(rs)
             P(w) == w = [k \in 0..Len(new) |->
                             IF k = 0 THEN EmptyDb ELSE tudor_add_record(w[k-1], new[k].rec)]
             load == CHOOSE w : P(w)
             S == {x \in Heap : Store(x)}
             step == [k \in Nat |-> [x \in S |->
                         IF k + 1 \in 1..Len(rs) /\ HasRoom(x)
                         THEN tudor_add_record(x, rs[k + 1]) ELSE x]]
  <1>1. Len(new) = N /\ N \in Nat /\ \A k \in 1..N : new[k].rec = rs[k] /\ rs[k] \in Record
    <2>1. N \in Nat /\ \A k \in 1..N : rs[k] \in Record
      OBVIOUS
    <2>2. \A k \in 1..N : new[k] = Rec(rs[k])
      OBVIOUS
    <2>3. Len(new) = N
      BY <2>1
    <2>4. QED
      BY <2>1, <2>2, <2>3, ItemFacts
  <1>2. Store(EmptyDb) /\ EmptyDb \in S /\ RecordsOf(EmptyDb) = {} /\ Len(List(EmptyDb)) = 0
    BY EmptyStore DEF Store
  <1> HIDE DEF N
  <1>3. PICK w : /\ w[0] = EmptyDb /\ w \in [0..N -> S]
                 /\ \A k \in 0..N : k < N /\ HasRoom(w[k]) =>
                       w[k + 1] = tudor_add_record(w[k], rs[k + 1])
    <2>1. ASSUME NEW k \in Nat, NEW x \in S
          PROVE  (IF k + 1 \in 1..Len(rs) /\ HasRoom(x)
                  THEN tudor_add_record(x, rs[k + 1]) ELSE x) \in S
      <3>1. CASE k + 1 \in 1..Len(rs) /\ HasRoom(x)
        <4>1. rs[k + 1] \in Record /\ Store(x)
          BY <3>1, <1>1 DEF N
        <4>2. Store(tudor_add_record(x, rs[k + 1]))
          BY <3>1, <4>1, AddRecord
        <4>3. tudor_add_record(x, rs[k + 1]) \in Heap
          BY <4>2 DEF Store
        <4>4. QED
          BY <4>2, <4>3, <3>1
      <3>2. QED
        BY <3>1
    <2>2. step \in [Nat -> [S -> S]]
      BY <2>1
    <2>3. \A k \in Nat, x \in S :
             k + 1 \in 1..Len(rs) /\ HasRoom(x) => step[k][x] = tudor_add_record(x, rs[k + 1])
      OBVIOUS
    <2> HIDE DEF step, S
    <2>4. PICK w : Steps(w, N, S, EmptyDb, step)
      BY <1>1, <1>2, <2>2, StepsExist
    <2>5. w \in [0..N -> S] /\ w[0] = EmptyDb
      BY <2>4 DEF Steps
    <2>6. ASSUME NEW k \in 0..N, k < N, HasRoom(w[k])
          PROVE  w[k + 1] = tudor_add_record(w[k], rs[k + 1])
      <3>1. k \in Nat /\ k + 1 \in 1..Len(rs)
        BY <1>1, <2>6 DEF N
      <3>2. w[k] \in S /\ w[k + 1] = step[k][w[k]]
        BY <2>4, <2>5, <2>6 DEF Steps
      <3>3. QED
        BY <3>1, <3>2, <2>3, <2>6
    <2>7. QED
      BY <2>5, <2>6
  <1>4. \A k \in 0..N : Holds(w[k], rs, k)
    <2> DEFINE T == {k \in 0..N : Holds(w[k], rs, k)}
    <2>1. 0 \in T
      <3>1. {rs[i] : i \in 1..0} = {}
        OBVIOUS
      <3>2. QED
        BY <3>1, <1>1, <1>2, <1>3 DEF Holds
    <2>2. ASSUME NEW k \in 0..N, k < N, k \in T PROVE k + 1 \in T
      <3>1. Holds(w[k], rs, k) /\ k \in 0..Len(rs) /\ k < Len(rs)
        BY <2>2 DEF N
      <3>2. HasRoom(w[k]) /\ Holds(tudor_add_record(w[k], rs[k + 1]), rs, k + 1)
        BY <3>1, HoldsMore
      <3>3. w[k + 1] = tudor_add_record(w[k], rs[k + 1])
        BY <3>2, <2>2, <1>3
      <3>4. k + 1 \in 0..N
        BY <2>2, <1>1
      <3>5. QED
        BY <3>2, <3>3, <3>4
    <2> HIDE DEF T
    <2>3. 0..N \subseteq T
      BY <2>1, <2>2, <1>1, Upto
    <2>4. QED
      BY <2>3 DEF T
  <1>5. \A k \in 0..N : k < N => HasRoom(w[k])
    BY <1>4, HoldsMore DEF N
  <1>6. \E v : P(v)
    <2>1. ASSUME NEW k \in 0..N, k # 0 PROVE w[k] = tudor_add_record(w[k - 1], new[k].rec)
      <3>1. k - 1 \in 0..N /\ k - 1 < N /\ (k - 1) + 1 = k /\ k \in 1..N
        BY <2>1, <1>1
      <3>2. w[k] = tudor_add_record(w[k - 1], rs[k])
        BY <3>1, <1>3, <1>5
      <3>3. QED
        BY <3>1, <3>2, <1>1
    <2>2. w = [k \in 0..Len(new) |-> w[k]]
      BY <1>1, <1>3
    <2>3. P(w)
      BY <2>1, <2>2, <1>1, <1>3
    <2>4. QED
      BY <2>3
  <1>7. load = [k \in 0..Len(new) |->
                   IF k = 0 THEN EmptyDb ELSE tudor_add_record(load[k-1], new[k].rec)]
    <2> HIDE DEF P
    <2>1. P(load)
      BY <1>6
    <2>2. QED
      BY <2>1 DEF P
  <1>8. Loaded(new) = load[Len(new)]
    BY DEF Loaded
  <1> HIDE DEF load, P
  <1>9. load[0] = EmptyDb
    BY <1>7, <1>1
  <1>10. ASSUME NEW k \in 0..N, k # 0 PROVE load[k] = tudor_add_record(load[k - 1], rs[k])
    <2>1. k \in 1..N
      BY <1>10, <1>1
    <2>2. load[k] = tudor_add_record(load[k - 1], new[k].rec)
      BY <1>7, <1>1, <1>10, Zenon
    <2>3. QED
      BY <2>1, <2>2, <1>1
  <1>11. 0..N \subseteq {k \in 0..N : load[k] = w[k]}
    <2> DEFINE T == {k \in 0..N : load[k] = w[k]}
    <2>1. 0 \in T
      BY <1>9, <1>3, <1>1
    <2>2. ASSUME NEW k \in 0..N, k < N, k \in T PROVE k + 1 \in T
      <3>1. k + 1 \in 0..N /\ k + 1 # 0 /\ (k + 1) - 1 = k
        BY <2>2, <1>1
      <3>2. load[k + 1] = tudor_add_record(load[k], rs[k + 1])
        BY <3>1, <1>10
      <3>3. w[k + 1] = tudor_add_record(w[k], rs[k + 1])
        BY <2>2, <1>3, <1>5
      <3>4. QED
        BY <3>1, <3>2, <3>3, <2>2
    <2> HIDE DEF T
    <2>3. 0..N \subseteq T
      BY <2>1, <2>2, <1>1, Upto
    <2>4. QED
      BY <2>3 DEF T
  <1>12. N \in 0..N /\ Loaded(new) = w[N]
    BY <1>1, <1>8, <1>11
  <1>13. QED
    BY <1>12, <1>4 DEF Holds, N

-----------------------------------------------------------------------------
(* A part of the data store from its start is pairing data and records     *)
(* from their starts.                                                      *)
Starts(s, t) == Len(s) <= Len(t) /\ \A i \in 1..Len(s) : s[i] = t[i]

LEMMA StartIs ==
    ASSUME NEW S, NEW t \in Seq(S), NEW n \in 0..Len(t)
    PROVE  /\ SubSeq(t, 1, n) \in Seq(S) /\ Len(SubSeq(t, 1, n)) = n
           /\ \A i \in 1..n : SubSeq(t, 1, n)[i] = t[i]
           /\ Starts(SubSeq(t, 1, n), t)
  <1>1. /\ SubSeq(t, 1, n) \in Seq(S) /\ Len(SubSeq(t, 1, n)) = n
        /\ \A i \in 1..n : SubSeq(t, 1, n)[i] = t[i]
    OBVIOUS
  <1>2. n <= Len(t)
    OBVIOUS
  <1>3. QED
    BY <1>1, <1>2 DEF Starts

LEMMA PartOfFile ==
    ASSUME NEW items, NEW pd, NEW rs, FileIs(items, pd, rs), NEW n \in 0..Len(items)
    PROVE  \E pd2, rs2 : /\ FileIs(SubSeq(items, 1, n), pd2, rs2)
                         /\ Starts(pd2, pd) /\ Starts(rs2, rs)
  <1> DEFINE part == SubSeq(items, 1, n)
             P == Len(pd)
             R == Len(rs)
  <1>1. pd \in Seq(PairItem) /\ rs \in Seq(Record) /\ items \in Seq(Item)
    BY DEF FileIs
  <1>2. P \in Nat /\ R \in Nat /\ Len(items) \in Nat /\ n \in Nat /\ n <= Len(items)
    BY <1>1
  <1>3. Len(items) \in {P, P + 1 + R, P + 2 + R} /\ (Len(items) = P => R = 0)
    BY <1>1 DEF FileIs
  <1>4. /\ \A i \in 1..P : items[i] = pd[i]
        /\ Len(items) > P => items[P + 1] = End
        /\ \A i \in 1..R : items[P + 1 + i] = Rec(rs[i])
        /\ Len(items) = P + 2 + R => items[P + 2 + R] = End
    BY DEF FileIs
  <1>5. part \in Seq(Item) /\ Len(part) = n /\ \A i \in 1..n : part[i] = items[i]
    BY <1>1, StartIs
  <1> HIDE DEF part, P, R
  <1>6. CASE n <= P
    <2> DEFINE a == SubSeq(pd, 1, n)
               b == SubSeq(rs, 1, 0)
    <2>1. n \in 0..Len(pd) /\ 0 \in 0..Len(rs)
      BY <1>2, <1>6 DEF P, R
    <2>2. a \in Seq(PairItem) /\ Len(a) = n /\ Starts(a, pd) /\ \A i \in 1..n : a[i] = pd[i]
      BY <2>1, <1>1, StartIs
    <2>3. b \in Seq(Record) /\ Len(b) = 0 /\ Starts(b, rs) /\ b = <<>>
      BY <2>1, <1>1, StartIs
    <2> HIDE DEF a, b
    <2>4. \A i \in 1..n : part[i] = a[i]
      BY <2>2, <1>2, <1>4, <1>5, <1>6
    <2>5. FileIs(part, a, b)
      BY <2>2, <2>3, <2>4, <1>2, <1>5 DEF FileIs
    <2>6. QED
      BY <2>2, <2>3, <2>5 DEF part
  <1>7. CASE n > P /\ n <= P + 1 + R
    <2> DEFINE c == n - (P + 1)
               b == SubSeq(rs, 1, c)
    <2>1. c \in 0..Len(rs) /\ c \in Nat /\ n = P + 1 + c /\ c <= R
      BY <1>2, <1>7 DEF R
    <2>2. b \in Seq(Record) /\ Len(b) = c /\ Starts(b, rs) /\ \A i \in 1..c : b[i] = rs[i]
      BY <2>1, <1>1, StartIs
    <2>3. Starts(pd, pd)
      BY <1>2 DEF Starts, P
    <2> HIDE DEF b, c
    <2>4. \A i \in 1..P : part[i] = pd[i]
      BY <1>2, <1>4, <1>5, <1>7
    <2>5. part[P + 1] = End
      BY <1>2, <1>4, <1>5, <1>7
    <2>6. \A i \in 1..c : part[P + 1 + i] = Rec(b[i])
      <3> SUFFICES ASSUME NEW i \in 1..c PROVE part[P + 1 + i] = Rec(b[i])
        OBVIOUS
      <3>1. P + 1 + i \in 1..n /\ i \in 1..R
        BY <2>1, <1>2
      <3>2. QED
        BY <3>1, <2>2, <1>4, <1>5
    <2>7. n # P /\ n # P + 2 + c
      BY <2>1, <1>2
    <2>8. FileIs(part, pd, b)
      BY <2>1, <2>2, <2>4, <2>5, <2>6, <2>7, <1>1, <1>5 DEF FileIs, P
    <2>9. QED
      BY <2>2, <2>3, <2>8 DEF part
  <1>8. CASE n > P + 1 + R
    <2>1. n = P + 2 + R /\ Len(items) = n /\ n # P
      BY <1>2, <1>3, <1>8
    <2>2. Starts(pd, pd) /\ Starts(rs, rs)
      BY <1>2 DEF Starts, P, R
    <2>3. \A i \in 1..P : part[i] = pd[i]
      BY <2>1, <1>2, <1>4, <1>5
    <2>4. part[P + 1] = End
      BY <2>1, <1>2, <1>4, <1>5
    <2>5. \A i \in 1..R : part[P + 1 + i] = Rec(rs[i])
      <3> SUFFICES ASSUME NEW i \in 1..R PROVE part[P + 1 + i] = Rec(rs[i])
        OBVIOUS
      <3>1. P + 1 + i \in 1..n
        BY <2>1, <1>2
      <3>2. QED
        BY <3>1, <1>4, <1>5
    <2>6. n \in 1..n /\ part[P + 2 + R] = End
      BY <2>1, <1>2, <1>4, <1>5
    <2>7. FileIs(part, pd, rs)
      BY <2>1, <2>3, <2>4, <2>5, <2>6, <1>1, <1>5 DEF FileIs, P, R
    <2>8. QED
      BY <2>2, <2>7 DEF part
  <1>9. QED
    BY <1>6, <1>7, <1>8, <1>2

(* What kinds of items the data store has. *)
LEMMA InFile ==
    ASSUME NEW items, NEW pd, NEW rs, FileIs(items, pd, rs), NEW x \in ToSet(items)
    PROVE  /\ x.kind = "pair" => \E i \in 1..Len(pd) : x = pd[i]
           /\ x.kind = "rec" => \E i \in 1..Len(rs) : x = Rec(rs[i])
  <1> DEFINE P == Len(pd)
             R == Len(rs)
  <1>1. pd \in Seq(PairItem) /\ rs \in Seq(Record) /\ items \in Seq(Item)
    BY DEF FileIs
  <1>2. P \in Nat /\ R \in Nat /\ Len(items) \in Nat
    BY <1>1
  <1>3. Len(items) \in {P, P + 1 + R, P + 2 + R}
    BY DEF FileIs
  <1>4. /\ \A i \in 1..P : items[i] = pd[i] /\ pd[i].kind = "pair"
        /\ Len(items) > P => items[P + 1].kind = "end"
        /\ \A i \in 1..R : items[P + 1 + i] = Rec(rs[i]) /\ Rec(rs[i]).kind = "rec"
        /\ Len(items) = P + 2 + R => items[P + 2 + R].kind = "end"
    BY <1>1, ItemFacts DEF FileIs
  <1>5. PICK j \in 1..Len(items) : x = items[j]
    BY <1>1 DEF ToSet
  <1> HIDE DEF P, R
  <1>6. CASE j <= P
    <2>1. j \in 1..P
      BY <1>2, <1>6
    <2>2. QED
      BY <2>1, <1>4, <1>5 DEF P
  <1>7. CASE j = P + 1
    <2>1. Len(items) > P
      BY <1>2, <1>7
    <2>2. QED
      BY <2>1, <1>4, <1>5, <1>7
  <1>8. CASE j > P + 1 /\ j <= P + 1 + R
    <2>1. j - (P + 1) \in 1..R /\ P + 1 + (j - (P + 1)) = j
      BY <1>2, <1>8
    <2>2. QED
      BY <2>1, <1>4, <1>5 DEF R
  <1>9. CASE j > P + 1 + R
    <2>1. j = P + 2 + R /\ Len(items) = P + 2 + R
      BY <1>2, <1>3, <1>9
    <2>2. QED
      BY <2>1, <1>4, <1>5
  <1>10. QED
    BY <1>6, <1>7, <1>8, <1>9, <1>2

(* The records are those of know, all of them if nothing has lost any. *)
Keeps(recs, know) == recs \subseteq know.recs /\ (know.exact => recs = know.recs)

(* The data store holds that pairing data, and records of know. *)
Saved(items, pd, rs, pairs, know) ==
    /\ FileIs(items, pd, rs) /\ Agrees(pd, pairs)
    /\ Once(rs) /\ Len(rs) <= MaxNodes /\ Keeps({rs[i] : i \in 1..Len(rs)}, know)

(* What a crash leaves of a save is a data store, of what Torn keeps. *)
LEMMA TornSaved ==
    ASSUME mem \in Knowledge, durable \in Knowledge, NEW saved, Agrees(saved, durable.pairs),
           NEW items, NEW pd, NEW rs, FileIs(items, pd, rs), Starts(pd, saved),
           Once(rs), Len(rs) <= MaxNodes, \A i \in 1..Len(rs) : rs[i] \in mem.recs
    PROVE  /\ Saved(items, pd, rs, Torn(items).pairs, Torn(items))
           /\ Torn(items) \in Knowledge
  <1> DEFINE has(n) == \E x \in ToSet(items) : x.kind = "pair" /\ x.name = n
             prs == [n \in Names |-> IF has(n) THEN durable.pairs[n] ELSE NoValue]
  <1>1. Torn(items) = [pairs |-> prs, recs |-> mem.recs, exact |-> FALSE]
    BY DEF Torn
  <1>2. Torn(items).pairs = prs /\ Torn(items).recs = mem.recs /\ Torn(items).exact = FALSE
    BY <1>1
  <1>3. durable.pairs \in [Names -> Values \cup {NoValue}] /\ mem.recs \in SUBSET Record
    BY DEF Knowledge
  <1>4. prs \in [Names -> Values \cup {NoValue}]
    BY <1>3
  <1>5. [pairs |-> prs, recs |-> mem.recs, exact |-> FALSE] \in Knowledge
    BY <1>3, <1>4 DEF Knowledge
  <1>6. /\ pd \in Seq(PairItem) /\ rs \in Seq(Record) /\ items \in Seq(Item)
        /\ Len(items) \in {Len(pd), Len(pd) + 1 + Len(rs), Len(pd) + 2 + Len(rs)}
        /\ Len(items) = Len(pd) => rs = <<>>
        /\ \A i \in 1..Len(pd) : items[i] = pd[i]
        /\ \A i \in 1..Len(rs) : items[Len(pd) + 1 + i] = Rec(rs[i])
    BY DEF FileIs
  <1>7. /\ Len(pd) \in Nat /\ Len(rs) \in Nat /\ Len(items) \in Nat /\ DOMAIN items = 1..Len(items)
        /\ saved \in Seq(PairItem) /\ Len(saved) \in Nat
    BY <1>6 DEF Agrees
  <1>8. \A i \in 1..Len(pd) : i \in 1..Len(items)
    <2>1. /\ Len(pd) \in Nat /\ Len(rs) \in Nat
          /\ Len(items) \in {Len(pd), Len(pd) + 1 + Len(rs), Len(pd) + 2 + Len(rs)}
          /\ Len(items) = Len(pd) => Len(rs) = 0
      BY <1>6
    <2>2. QED
      BY <2>1
  <1>9. \A i \in 1..Len(pd) : i \in 1..Len(saved) /\ pd[i] = saved[i]
    BY <1>7 DEF Starts
  <1>10. \A i \in 1..Len(pd) : pd[i].name \in Names /\ has(pd[i].name)
    <2> SUFFICES ASSUME NEW i \in 1..Len(pd) PROVE pd[i].name \in Names /\ has(pd[i].name)
      OBVIOUS
    <2>1. pd[i] \in PairItem /\ pd[i].kind = "pair" /\ pd[i].name \in Names
      BY <1>6, PairItemFacts
    <2>2. i \in 1..Len(items)
      BY <1>8
    <2>3. pd[i] \in ToSet(items)
      BY <2>2, <1>6, <1>7 DEF ToSet
    <2>4. QED
      BY <2>1, <2>3
  <1>11. \A n \in Names : (\A i \in 1..Len(pd) : pd[i].name # n) => ~has(n)
    BY InFile
  <1>12. Agrees(pd, prs)
    <2>1. NoTwins(pd)
      BY <1>9 DEF NoTwins, Agrees
    <2>2. ASSUME NEW i \in 1..Len(pd) PROVE prs[pd[i].name] = pd[i].val
      <3>1. durable.pairs[saved[i].name] = saved[i].val
        BY <1>9 DEF Agrees
      <3>2. QED
        BY <3>1, <1>9, <1>10
    <2>3. ASSUME NEW n \in Names, \A i \in 1..Len(pd) : pd[i].name # n PROVE prs[n] = NoValue
      BY <2>3, <1>11
    <2> HIDE DEF prs
    <2>4. QED
      BY <2>1, <2>2, <2>3, <1>6 DEF Agrees
  <1>13. Keeps({rs[i] : i \in 1..Len(rs)}, Torn(items))
    BY <1>2 DEF Keeps
  <1>14. QED
    BY <1>1, <1>2, <1>5, <1>12, <1>13 DEF Saved

LEMMA TornPart ==
    ASSUME mem \in Knowledge, durable \in Knowledge, NEW saved, Agrees(saved, durable.pairs),
           NEW items, NEW pd, NEW rs, FileIs(items, pd, rs), Starts(pd, saved),
           Once(rs), Len(rs) <= MaxNodes, \A k \in 1..Len(rs) : rs[k] \in mem.recs,
           NEW i \in Prefixes(items)
    PROVE  (\E a, b : Saved(i, a, b, Torn(i).pairs, Torn(i))) /\ Torn(i) \in Knowledge
  <1>1. PICK n \in 0..Len(items) : i = SubSeq(items, 1, n)
    BY DEF Prefixes
  <1>2. PICK a, b : FileIs(i, a, b) /\ Starts(a, pd) /\ Starts(b, rs)
    BY <1>1, PartOfFile
  <1>3. /\ a \in Seq(PairItem) /\ b \in Seq(Record) /\ pd \in Seq(PairItem) /\ rs \in Seq(Record)
        /\ saved \in Seq(PairItem)
    BY <1>2 DEF FileIs, Agrees
  <1>4. /\ Len(a) \in Nat /\ Len(b) \in Nat /\ Len(pd) \in Nat /\ Len(rs) \in Nat
        /\ Len(saved) \in Nat /\ MaxNodes \in Nat
    BY <1>3, NodeFacts
  <1>5. Starts(a, saved)
    <2>1. /\ Len(a) <= Len(pd) /\ Len(pd) <= Len(saved)
          /\ \A k \in 1..Len(a) : a[k] = pd[k]
          /\ \A k \in 1..Len(pd) : pd[k] = saved[k]
      BY <1>2 DEF Starts
    <2>2. Len(a) <= Len(saved) /\ \A k \in 1..Len(a) : k \in 1..Len(pd)
      BY <2>1, <1>4
    <2>3. QED
      BY <2>1, <2>2 DEF Starts
  <1>6. Once(b) /\ Len(b) <= MaxNodes /\ \A k \in 1..Len(b) : b[k] \in mem.recs
    <2>1. Len(b) <= Len(rs) /\ \A k \in 1..Len(b) : b[k] = rs[k]
      BY <1>2 DEF Starts
    <2>2. Len(b) <= MaxNodes /\ \A k \in 1..Len(b) : k \in 1..Len(rs)
      BY <2>1, <1>4
    <2>3. QED
      BY <2>1, <2>2 DEF Once
  <1>7. QED
    BY <1>2, <1>5, <1>6, TornSaved

-----------------------------------------------------------------------------
(* The inductive invariant.                                                *)
(*   - The list is in order, and once the records are loaded it holds what *)
(*     the session should know; until then that is what the disk holds.    *)
(*   - The pairing data in memory is what the session should know.         *)
(*   - Except while it is written, the file is a data store that holds     *)
(*     what is durable, and a session that reads it is at the end of the   *)
(*     pairing data.                                                       *)
(*   - While it is written, what was written is the start of a data store  *)
(*     that holds what the session knows.                                  *)
Work  == {"prompt", "enroll", "commit", "reopen", "identify"}
Fresh == {"down", "opening", "loading"}
Use   == [sessions : 0..MaxSessions, cmds : 0..MaxCmds, sets : 0..MaxSets]

Flags == dll \in BOOLEAN /\ half \in BOOLEAN /\ abort \in BOOLEAN

Plain ==
    /\ pc \in Work \cup Fresh \cup {"truncated", "pairs_out", "records_out", "closing"}
    /\ Flags /\ sensor \subseteq Record /\ enroll \in Record \cup {NoRecord}
    /\ tries \in 0..4 /\ used \in Use
    /\ pc \in {"enroll", "commit"} => enroll \in Record

Data ==
    /\ pdata \in Seq(PairItem) /\ mem \in Knowledge /\ durable \in Knowledge
    /\ file \in [items : Seq(Item), cut : BOOLEAN] /\ pos \in 0..Len(file.items)
    /\ pc = "down" => mem = durable
    /\ pc # "down" => Agrees(pdata, mem.pairs)

Records ==
    /\ Store(db)
    /\ pc \in Fresh => mem.recs = durable.recs /\ mem.exact = durable.exact
    /\ pc \notin Fresh => Keeps(RecordsOf(db), mem)

Disk ==
    pc \notin {"truncated", "pairs_out", "records_out"} =>
        \E pd, rs : /\ Saved(file.items, pd, rs, durable.pairs, durable)
                    /\ pc \in {"opening", "loading"} => pos = Next1(pd, file.items)

Writing ==
    /\ pc \in {"truncated", "pairs_out", "records_out"} => pos = 0
    /\ pc = "truncated" => out = <<>> /\ \E pd : Agrees(pd, durable.pairs)
    /\ pc = "pairs_out" => \E pd : Agrees(pd, durable.pairs) /\ out = pd \o <<End>>
    /\ pc = "records_out" => \E pd, rs : Saved(out, pd, rs, durable.pairs, mem)

SInv == Plain /\ Data /\ Records /\ Disk /\ Writing

LEMMA KnowRecs ==
    ASSUME NEW k \in Knowledge, NEW S, S \subseteq Record
    PROVE  /\ [k EXCEPT !.recs = S] \in Knowledge
           /\ [k EXCEPT !.recs = S].pairs = k.pairs /\ [k EXCEPT !.recs = S].recs = S
           /\ [k EXCEPT !.recs = S].exact = k.exact
  BY DEF Knowledge

LEMMA KnowLost ==
    ASSUME NEW k \in Knowledge
    PROVE  /\ [k EXCEPT !.exact = FALSE] \in Knowledge
           /\ [k EXCEPT !.exact = FALSE].pairs = k.pairs
           /\ [k EXCEPT !.exact = FALSE].recs = k.recs
           /\ [k EXCEPT !.exact = FALSE].exact = FALSE
  BY DEF Knowledge

LEMMA KnowAll ==
    ASSUME NEW k \in Knowledge, NEW d \in Knowledge
    PROVE  /\ [k EXCEPT !.pairs = d.pairs] \in Knowledge
           /\ [k EXCEPT !.pairs = d.pairs].pairs = d.pairs
           /\ [k EXCEPT !.pairs = d.pairs].recs = k.recs
           /\ [k EXCEPT !.pairs = d.pairs].exact = k.exact
  BY DEF Knowledge

LEMMA KnowPairs ==
    ASSUME NEW k \in Knowledge, NEW n \in Names, NEW v \in Values
    PROVE  /\ [k EXCEPT !.pairs[n] = v] \in Knowledge
           /\ [k EXCEPT !.pairs[n] = v].recs = k.recs
           /\ [k EXCEPT !.pairs[n] = v].exact = k.exact
           /\ \A x \in Names : [k EXCEPT !.pairs[n] = v].pairs[x] = IF x = n THEN v ELSE k.pairs[x]
  BY DEF Knowledge

LEMMA KnowFacts ==
    ASSUME NEW k \in Knowledge
    PROVE  k.pairs \in [Names -> Values \cup {NoValue}] /\ k.recs \subseteq Record
  BY DEF Knowledge

LEMMA FileFacts ==
    ASSUME NEW i \in Seq(Item), NEW c \in BOOLEAN
    PROVE  /\ [items |-> i, cut |-> c] \in [items : Seq(Item), cut : BOOLEAN]
           /\ [items |-> i, cut |-> c].items = i
  OBVIOUS

(* No data, no data store. *)
LEMMA NothingSaved ==
    FileIs(<<>>, <<>>, <<>>)
  <1>1. <<>> \in Seq(PairItem) /\ <<>> \in Seq(Record) /\ <<>> \in Seq(Item) /\ Len(<<>>) = 0
    OBVIOUS
  <1>2. QED
    BY <1>1 DEF FileIs

(* A session that ends leaves what is on disk. *)
LEMMA ExitKeeps ==
    ASSUME SInv, UNCHANGED <<dll, sensor>>, used' \in Use, Exit(mem'), mem' \in Knowledge,
           file' \in [items : Seq(Item), cut : BOOLEAN],
           \E pd, rs : Saved(file'.items, pd, rs, mem'.pairs, mem')
    PROVE  SInv'
  <1>1. /\ pc' = "down" /\ db' = EmptyDb /\ pdata' = <<>> /\ enroll' = NoRecord /\ half' = FALSE
        /\ abort' = FALSE /\ tries' = 0 /\ pos' = 0 /\ out' = <<>> /\ durable' = mem'
    BY DEF Exit
  <1>2. Plain'
    <2>1. Flags' /\ sensor' \subseteq Record
      BY <1>1, Zenon DEF SInv, Plain, Flags
    <2>2. tries' \in 0..4
      BY <1>1
    <2>3. pc' \in Fresh /\ pc' \notin {"enroll", "commit"} /\ enroll' \in Record \cup {NoRecord}
      BY <1>1 DEF Fresh
    <2>4. QED
      BY <2>1, <2>2, <2>3 DEF Plain
  <1>3. Data'
    <2>1. <<>> \in Seq(PairItem)
      OBVIOUS
    <2>2. Len(file'.items) \in Nat
      OBVIOUS
    <2>3. 0 \in 0..Len(file'.items)
      BY <2>2
    <2>4. QED
      BY <1>1, <2>1, <2>3 DEF Data
  <1>4. Records'
    BY <1>1, EmptyStore DEF Records, Fresh
  <1>5. Disk'
    BY <1>1 DEF Disk
  <1>6. Writing'
    BY <1>1 DEF Writing
  <1>7. QED
    BY <1>2, <1>3, <1>4, <1>5, <1>6 DEF SInv

(* A command leaves the disk and the pairing data alone. *)
LEMMA WorkKeeps ==
    ASSUME SInv, pc \in Work, pc' \in Work, Plain', Store(db'), Keeps(RecordsOf(db'), mem'),
           mem' \in Knowledge, mem'.pairs = mem.pairs,
           UNCHANGED <<pdata, durable, file, pos>>
    PROVE  SInv'
  <1>1. pc \notin Fresh /\ pc' \notin Fresh /\ pc # "down" /\ pc' # "down"
    BY DEF Work, Fresh
  <1>2. /\ pc \notin {"truncated", "pairs_out", "records_out", "opening", "loading"}
        /\ pc' \notin {"truncated", "pairs_out", "records_out", "opening", "loading"}
    BY DEF Work
  <1>3. Data'
    BY <1>1 DEF SInv, Data
  <1>4. Records'
    BY <1>1 DEF Records
  <1>5. Disk'
    BY <1>2 DEF SInv, Disk
  <1>6. Writing'
    BY <1>2 DEF Writing
  <1>7. QED
    BY <1>3, <1>4, <1>5, <1>6 DEF SInv

LEMMA UseFacts ==
    ASSUME NEW u \in Use
    PROVE  /\ u.cmds < MaxCmds => [u EXCEPT !.cmds = @ + 1] \in Use
           /\ u.sets < MaxSets => [u EXCEPT !.sets = @ + 1] \in Use
           /\ u.sessions < MaxSessions => [u EXCEPT !.sessions = @ + 1, !.sets = 0] \in Use
  <1>1. /\ MaxSessions \in Nat /\ MaxCmds \in Nat /\ MaxSets \in Nat
        /\ u.sessions \in 0..MaxSessions /\ u.cmds \in 0..MaxCmds /\ u.sets \in 0..MaxSets
    BY CliAssumption DEF Use
  <1>2. /\ u.cmds < MaxCmds => u.cmds + 1 \in 0..MaxCmds
        /\ u.sets < MaxSets => u.sets + 1 \in 0..MaxSets
        /\ u.sessions < MaxSessions => u.sessions + 1 \in 0..MaxSessions
        /\ 0 \in 0..MaxSets
    BY <1>1
  <1>3. QED
    BY <1>2 DEF Use

(* At the prompt, and in a command. *)
LEMMA Working ==
    ASSUME SInv, pc \in Work
    PROVE  /\ Store(db) /\ Keeps(RecordsOf(db), mem) /\ mem \in Knowledge
           /\ mem.recs \subseteq Record
  <1>1. pc \notin Fresh
    BY DEF Work, Fresh
  <1>2. Store(db) /\ Keeps(RecordsOf(db), mem) /\ mem \in Knowledge
    BY <1>1 DEF SInv, Records, Data
  <1>3. QED
    BY <1>2, KnowFacts

LEMMA Commanding ==
    ASSUME SInv, Command
    PROVE  pc = "prompt" /\ pc \in Work /\ used' \in Use
  <1>1. pc = "prompt" /\ used \in Use /\ used.cmds < MaxCmds
        /\ used' = [used EXCEPT !.cmds = @ + 1]
    BY DEF SInv, Plain, Command
  <1>2. QED
    BY <1>1, UseFacts DEF Work

(* What holds of the plain parts of the state when a command is done. *)
LEMMA PlainKept ==
    ASSUME SInv, pc' \in Work, Flags', sensor' \subseteq Record,
           enroll' \in Record \cup {NoRecord}, tries' \in 0..4, used' \in Use,
           pc' \in {"enroll", "commit"} => enroll' \in Record
    PROVE  Plain'
  BY DEF Plain

LEMMA KeepEnroll ==
    ASSUME SInv, NEW r \in Record, cmd_enroll(r)
    PROVE  SInv'
  <1>1. pc = "prompt" /\ pc \in Work /\ used' \in Use
    BY Commanding DEF cmd_enroll
  <1>2. UNCHANGED <<dll, db, sensor, pdata, half, abort, tries, file, pos, mem, durable>>
    BY DEF cmd_enroll, disk, ghosts
  <1>3. pc' \in Work /\ enroll' \in Record \cup {NoRecord}
        /\ (pc' \in {"enroll", "commit"} => enroll' \in Record)
    <2>1. CASE pc' = "enroll" /\ enroll' = r
      BY <2>1 DEF Work
    <2>2. CASE UNCHANGED <<pc, enroll>>
      BY <2>2, <1>1 DEF SInv, Plain
    <2>3. QED
      BY <2>1, <2>2 DEF cmd_enroll
  <1>4. Flags' /\ sensor' \subseteq Record /\ tries' \in 0..4
    BY <1>2 DEF SInv, Plain, Flags
  <1>5. Plain'
    BY <1>1, <1>3, <1>4, PlainKept
  <1>6. Store(db) /\ Keeps(RecordsOf(db), mem) /\ mem \in Knowledge
    BY <1>1, Working
  <1>7. QED
    BY <1>1, <1>2, <1>3, <1>5, <1>6, WorkKeeps

LEMMA KeepDiscard ==
    ASSUME SInv, pc \in Work, Discard
    PROVE  SInv'
  <1>1. UNCHANGED <<dll, db, sensor, pdata, half, abort, tries, file, pos, used, mem, durable>>
    BY DEF Discard, disk, ghosts
  <1>2. pc' = "prompt" /\ pc' \in Work /\ enroll' \in Record \cup {NoRecord}
    BY DEF Discard, SInv, Plain, Work
  <1>3. Flags' /\ sensor' \subseteq Record /\ tries' \in 0..4 /\ used' \in Use
    BY <1>1 DEF SInv, Plain, Flags
  <1>4. Plain'
    BY <1>2, <1>3, PlainKept
  <1>5. Store(db) /\ Keeps(RecordsOf(db), mem) /\ mem \in Knowledge
    BY Working
  <1>6. QED
    BY <1>1, <1>2, <1>4, <1>5, WorkKeeps

LEMMA KeepCapture ==
    ASSUME SInv, EnrollCapture
    PROVE  SInv'
  <1>1. pc = "enroll" /\ pc \in Work
    BY DEF EnrollCapture, Work
  <1>2. CASE pc' = "commit" /\ UNCHANGED <<dll, sensor, memory, disk, used, ghosts>>
    <2>1. /\ UNCHANGED <<dll, db, sensor, pdata, half, abort, tries, file, pos, used, mem, durable>>
          /\ UNCHANGED enroll
      BY <1>2 DEF memory, disk, ghosts
    <2>2. pc' \in Work /\ enroll' \in Record /\ enroll' \in Record \cup {NoRecord}
      BY <1>1, <1>2, <2>1 DEF SInv, Plain, Work
    <2>3. Flags' /\ sensor' \subseteq Record /\ tries' \in 0..4 /\ used' \in Use
      BY <2>1 DEF SInv, Plain, Flags
    <2>4. Plain'
      BY <2>2, <2>3, PlainKept
    <2>5. Store(db) /\ Keeps(RecordsOf(db), mem) /\ mem \in Knowledge
      BY <1>1, Working
    <2>6. QED
      BY <1>1, <2>1, <2>2, <2>4, <2>5, WorkKeeps
  <1>3. CASE Discard
    BY <1>1, <1>3, KeepDiscard
  <1>4. QED
    BY <1>2, <1>3 DEF EnrollCapture

LEMMA KeepCommit ==
    ASSUME SInv, tudor_enroll_commit
    PROVE  SInv'
  <1>1. pc = "commit" /\ pc \in Work /\ HasRoom(db)
    BY DEF tudor_enroll_commit, Work
  <1>2. Store(db) /\ Keeps(RecordsOf(db), mem) /\ mem \in Knowledge /\ mem.recs \subseteq Record
    BY <1>1, Working
  <1>3. enroll \in Record
    BY <1>1 DEF SInv, Plain
  <1>4. CASE Discard
    BY <1>1, <1>4, KeepDiscard
  <1>5. CASE /\ db' = tudor_add_record(db, enroll)
             /\ mem' = [mem EXCEPT !.recs = @ \cup {enroll}]
             /\ sensor' \in {sensor, sensor \cup {enroll}} /\ enroll' \in {NoRecord, enroll}
             /\ pc' \in {"reopen", "prompt"}
             /\ UNCHANGED <<dll, pdata, half, abort, tries, disk, used, durable>>
    <2>1. Store(db') /\ RecordsOf(db') = RecordsOf(db) \cup {enroll}
      BY <1>1, <1>2, <1>3, <1>5, AddRecord
    <2>2. mem.recs \cup {enroll} \subseteq Record
      BY <1>2, <1>3
    <2>3. mem' = [mem EXCEPT !.recs = mem.recs \cup {enroll}]
      BY <1>5
    <2>4. /\ mem' \in Knowledge /\ mem'.pairs = mem.pairs /\ mem'.recs = mem.recs \cup {enroll}
          /\ mem'.exact = mem.exact
      BY <2>2, <2>3, <1>2, KnowRecs
    <2>5. pc' \in Work /\ pc' \notin {"enroll", "commit"} /\ enroll' \in Record \cup {NoRecord}
      BY <1>3, <1>5 DEF Work
    <2>6. Flags' /\ sensor' \subseteq Record /\ tries' \in 0..4 /\ used' \in Use
      <3>1. sensor' \subseteq Record
        BY <1>3, <1>5 DEF SInv, Plain
      <3>2. QED
        BY <3>1, <1>5 DEF SInv, Plain, Flags
    <2>7. Plain'
      BY <2>5, <2>6, PlainKept
    <2>8. UNCHANGED <<pdata, durable, file, pos>>
      BY <1>5 DEF disk
    <2>9. Keeps(RecordsOf(db'), mem')
      BY <1>2, <2>1, <2>4 DEF Keeps
    <2>10. QED
      BY <1>1, <2>1, <2>4, <2>5, <2>7, <2>8, <2>9, WorkKeeps
  <1>6. QED
    <2>1. CASE /\ dll /\ db' = tudor_add_record(db, enroll)
               /\ mem' = [mem EXCEPT !.recs = @ \cup {enroll}]
               /\ \/ sensor' = sensor \cup {enroll} /\ enroll' = NoRecord /\ pc' = "reopen"
                  \/ sensor' = sensor /\ enroll' \in {NoRecord, enroll} /\ pc' = "prompt"
               /\ UNCHANGED <<dll, pdata, half, abort, tries, disk, used, durable>>
      BY <2>1, <1>5
    <2>2. CASE /\ ~dll /\ ~Duplicate(db, enroll)
               /\ db' = tudor_add_record(db, enroll)
               /\ mem' = [mem EXCEPT !.recs = @ \cup {enroll}]
               /\ enroll' = NoRecord /\ pc' = "reopen"
               /\ UNCHANGED <<dll, sensor, pdata, half, abort, tries, disk, used, durable>>
      BY <2>2, <1>5
    <2>3. QED
      BY <2>1, <2>2, <1>4, Zenon DEF tudor_enroll_commit

LEMMA KeepReopen ==
    ASSUME SInv, tudor_reopen
    PROVE  SInv'
  <1>1. pc = "reopen" /\ pc \in Work /\ pc' = "prompt" /\ pc' \in Work
    BY DEF tudor_reopen, Work
  <1>2. Store(db) /\ Keeps(RecordsOf(db), mem) /\ mem \in Knowledge /\ mem.recs \subseteq Record
    BY <1>1, Working
  <1>3. UNCHANGED <<dll, sensor, pdata, enroll, abort, tries, file, pos, used, durable>>
    BY DEF tudor_reopen, disk
  <1>4. half' \in BOOLEAN
    BY Zenon DEF tudor_reopen, SInv, Plain, Flags
  <1>5. Flags' /\ sensor' \subseteq Record /\ tries' \in 0..4 /\ used' \in Use
        /\ enroll' \in Record \cup {NoRecord}
    BY <1>3, <1>4 DEF SInv, Plain, Flags
  <1>6. Plain'
    BY <1>1, <1>5, PlainKept
  <1>7. CASE UNCHANGED <<db, mem>>
    BY <1>1, <1>2, <1>3, <1>6, <1>7, WorkKeeps
  <1>8. CASE db' = EmptyDb /\ mem' = [mem EXCEPT !.exact = FALSE]
    <2>1. mem' \in Knowledge /\ mem'.pairs = mem.pairs /\ mem'.exact = FALSE
      BY <1>2, <1>8, KnowLost
    <2>2. Store(db') /\ RecordsOf(db') = {}
      BY <1>8, EmptyStore
    <2>3. Keeps(RecordsOf(db'), mem')
      BY <2>1, <2>2 DEF Keeps
    <2>4. QED
      BY <1>1, <1>3, <1>6, <2>1, <2>2, <2>3, WorkKeeps
  <1>9. QED
    BY <1>7, <1>8 DEF tudor_reopen

LEMMA KeepIdentify ==
    ASSUME SInv, cmd_identify
    PROVE  SInv'
  <1>1. pc = "prompt" /\ pc \in Work /\ used' \in Use
    BY Commanding DEF cmd_identify
  <1>2. Store(db) /\ Keeps(RecordsOf(db), mem) /\ mem \in Knowledge
    BY <1>1, Working
  <1>3. /\ UNCHANGED <<dll, sensor, pdata, enroll, half, abort, file, pos, mem, durable>>
        /\ pc' = "identify" /\ tries' = 0
    BY DEF cmd_identify, disk, ghosts
  <1>4. Store(db') /\ RecordsOf(db') = RecordsOf(db)
    <2>1. CASE UNCHANGED db
      BY <2>1, <1>2
    <2>2. CASE \E g \in Guids : db' = tudor_enumerate_records(db, g, Wild).db
      BY <2>2, <1>2, Enumerate
    <2>3. QED
      BY <2>1, <2>2 DEF cmd_identify
  <1>5. pc' \in Work /\ pc' \notin {"enroll", "commit"} /\ tries' \in 0..4
    BY <1>3 DEF Work
  <1>6. Flags' /\ sensor' \subseteq Record /\ enroll' \in Record \cup {NoRecord}
    BY <1>3 DEF SInv, Plain, Flags
  <1>7. Plain'
    BY <1>1, <1>5, <1>6, PlainKept
  <1>8. QED
    BY <1>1, <1>2, <1>3, <1>4, <1>5, <1>7, WorkKeeps

LEMMA KeepEngine ==
    ASSUME SInv, EngineUsesStorage
    PROVE  SInv'
  <1>1. pc = "identify" /\ pc \in Work
    BY DEF EngineUsesStorage, Work
  <1>2. Store(db) /\ Keeps(RecordsOf(db), mem) /\ mem \in Knowledge
    BY <1>1, Working
  <1>3. UNCHANGED <<pc, dll, sensor, pdata, enroll, half, abort, tries, file, pos, used, mem, durable>>
    BY DEF EngineUsesStorage, disk, ghosts
  <1>4. Store(db') /\ RecordsOf(db') = RecordsOf(db)
    <2>1. CASE \E g \in Guids \cup {Wild} : db' = storage_QueryBySubject(db, g, Wild)
      BY <2>1, <1>2, QueryKeeps
    <2>2. CASE db' = storage_FirstRecord(db)
      BY <2>2, <1>2, FirstKeeps
    <2>3. CASE db' = storage_NextRecord(db)
      BY <2>3, <1>2, NextKeeps
    <2>4. QED
      BY <2>1, <2>2, <2>3 DEF EngineUsesStorage
  <1>5. /\ Flags' /\ sensor' \subseteq Record /\ enroll' \in Record \cup {NoRecord}
        /\ tries' \in 0..4 /\ used' \in Use
    BY <1>3 DEF SInv, Plain, Flags
  <1>6. Plain'
    BY <1>1, <1>3, <1>5, PlainKept
  <1>7. QED
    BY <1>1, <1>2, <1>3, <1>4, <1>6, WorkKeeps

LEMMA KeepIdentifyEnds ==
    ASSUME SInv, IdentifyEnds
    PROVE  SInv'
  <1>1. pc = "identify" /\ pc \in Work
    BY DEF IdentifyEnds, Work
  <1>2. Store(db) /\ Keeps(RecordsOf(db), mem) /\ mem \in Knowledge
    BY <1>1, Working
  <1>3. UNCHANGED <<dll, db, sensor, pdata, enroll, half, abort, file, pos, used, mem, durable>>
    BY DEF IdentifyEnds, disk, ghosts
  <1>4. pc' \in Work /\ pc' \notin {"enroll", "commit"}
    BY <1>1 DEF IdentifyEnds, Work
  <1>5. tries' \in 0..4
    <2>1. tries \in 0..4
      BY DEF SInv, Plain
    <2>2. (tries < 4 /\ tries' = tries + 1) \/ tries' = 0
      BY DEF IdentifyEnds
    <2>3. QED
      BY <2>1, <2>2
  <1>6. /\ Flags' /\ sensor' \subseteq Record /\ enroll' \in Record \cup {NoRecord}
        /\ used' \in Use
    BY <1>3 DEF SInv, Plain, Flags
  <1>7. Plain'
    BY <1>4, <1>5, <1>6, PlainKept
  <1>8. QED
    BY <1>1, <1>2, <1>3, <1>4, <1>7, WorkKeeps

LEMMA KeepQuery ==
    ASSUME SInv, NEW g, cmd_query(g)
    PROVE  SInv'
  <1>1. pc = "prompt" /\ pc \in Work /\ used' \in Use
    BY Commanding DEF cmd_query
  <1>2. Store(db) /\ Keeps(RecordsOf(db), mem) /\ mem \in Knowledge
    BY <1>1, Working
  <1>3. UNCHANGED <<pc, dll, sensor, pdata, enroll, half, abort, tries, file, pos, mem, durable>>
    BY DEF cmd_query, disk, ghosts
  <1>4. Store(db') /\ RecordsOf(db') = RecordsOf(db)
    <2>1. db' = db \/ db' = tudor_enumerate_records(db, g, Wild).db
      BY DEF cmd_query
    <2>2. QED
      BY <2>1, <1>2, Enumerate
  <1>5. /\ Flags' /\ sensor' \subseteq Record /\ enroll' \in Record \cup {NoRecord}
        /\ tries' \in 0..4
    BY <1>3 DEF SInv, Plain, Flags
  <1>6. Plain'
    BY <1>1, <1>3, <1>5, PlainKept
  <1>7. QED
    BY <1>1, <1>2, <1>3, <1>4, <1>6, WorkKeeps

LEMMA KeepWipe ==
    ASSUME SInv, NEW g, NEW f, cmd_wipe(g, f)
    PROVE  SInv'
  <1>1. pc = "prompt" /\ pc \in Work /\ used' \in Use
    BY Commanding DEF cmd_wipe
  <1>2. Store(db) /\ Keeps(RecordsOf(db), mem) /\ mem \in Knowledge /\ mem.recs \subseteq Record
    BY <1>1, Working
  <1>3. UNCHANGED <<pc, dll, pdata, enroll, half, abort, tries, file, pos, durable>>
    BY DEF cmd_wipe, disk
  <1>4. sensor' \subseteq Record
    <2>1. sensor \subseteq Record
      BY DEF SInv, Plain
    <2>2. sensor' = {r \in sensor : ~Matches(r, g, f)} \/ sensor' = sensor
      BY DEF cmd_wipe
    <2>3. QED
      BY <2>1, <2>2
  <1>5. /\ Store(db') /\ Keeps(RecordsOf(db'), mem') /\ mem' \in Knowledge
        /\ mem'.pairs = mem.pairs
    <2>1. CASE dll
      <3>1. UNCHANGED <<db, mem>>
        BY <2>1 DEF cmd_wipe
      <3>2. QED
        BY <3>1, <1>2
    <2>2. CASE ~dll
      <3> DEFINE S == {r \in mem.recs : ~Matches(r, g, f)}
      <3>1. db' = storage_DeleteRecord(db, g, f) /\ mem' = [mem EXCEPT !.recs = S]
        BY <2>2 DEF cmd_wipe
      <3>2. S \subseteq Record
        BY <1>2
      <3>3. Store(db') /\ RecordsOf(db') = {r \in RecordsOf(db) : ~Matches(r, g, f)}
        BY <3>1, <1>2, DeleteRecord
      <3>4. mem' \in Knowledge /\ mem'.pairs = mem.pairs /\ mem'.recs = S /\ mem'.exact = mem.exact
        BY <3>1, <3>2, <1>2, KnowRecs
      <3>5. Keeps(RecordsOf(db'), mem')
        BY <3>3, <3>4, <1>2 DEF Keeps
      <3>6. QED
        BY <3>3, <3>4, <3>5
    <2>3. QED
      BY <2>1, <2>2
  <1>6. Flags' /\ enroll' \in Record \cup {NoRecord} /\ tries' \in 0..4
    BY <1>3 DEF SInv, Plain, Flags
  <1>7. Plain'
    BY <1>1, <1>3, <1>4, <1>6, PlainKept
  <1>8. QED
    BY <1>1, <1>3, <1>5, <1>7, WorkKeeps

LEMMA KeepInterrupt ==
    ASSUME SInv, Interrupt
    PROVE  SInv'
  <1>1. pc \in Work
    BY DEF Interrupt, Work
  <1>2. Store(db) /\ Keeps(RecordsOf(db), mem) /\ mem \in Knowledge
    BY <1>1, Working
  <1>3. UNCHANGED <<pc, dll, db, sensor, pdata, enroll, half, tries, file, pos, used, mem, durable>>
        /\ abort' = TRUE
    BY DEF Interrupt, disk, ghosts
  <1>4. Flags' /\ sensor' \subseteq Record
    BY <1>3, Zenon DEF SInv, Plain, Flags
  <1>5. /\ enroll' \in Record \cup {NoRecord} /\ tries' \in 0..4 /\ used' \in Use
        /\ (pc' \in {"enroll", "commit"} => enroll' \in Record)
    BY <1>3 DEF SInv, Plain
  <1>6. Plain'
    BY <1>1, <1>3, <1>4, <1>5, PlainKept
  <1>7. QED
    BY <1>1, <1>2, <1>3, <1>6, WorkKeeps

(* The other steps change where main() is, and one of the other parts.     *)
LEMMA KeepWrite ==
    ASSUME SInv, NEW n \in Names, NEW v \in Values, WritePairingData(n, v)
    PROVE  SInv'
  <1>1. /\ UNCHANGED <<pc, dll, db, sensor, enroll, half, abort, tries, file, pos, out, durable>>
        /\ pdata' = set_pair_data(pdata, n, v) /\ mem' = [mem EXCEPT !.pairs[n] = v]
        /\ used' = [used EXCEPT !.sets = @ + 1] /\ used.sets < MaxSets
    BY DEF WritePairingData, disk
  <1>2. pc # "down"
    BY DEF WritePairingData, Running
  <1>3. mem \in Knowledge /\ Agrees(pdata, mem.pairs) /\ used \in Use
    BY <1>2 DEF SInv, Data, Plain
  <1>4. /\ mem' \in Knowledge /\ mem'.recs = mem.recs /\ mem'.exact = mem.exact
        /\ \A x \in Names : mem'.pairs[x] = IF x = n THEN v ELSE mem.pairs[x]
    BY <1>1, <1>3, KnowPairs
  <1>5. Agrees(pdata', mem'.pairs)
    <2>1. PICK new : new = mem'.pairs
      OBVIOUS
    <2>2. \A x \in Names : new[x] = IF x = n THEN v ELSE mem.pairs[x]
      BY <2>1, <1>4
    <2>3. Agrees(set_pair_data(pdata, n, v), new)
      BY <2>2, <1>3, AgreesSet
    <2>4. QED
      BY <2>1, <2>3, <1>1
  <1>6. used' \in Use
    BY <1>1, <1>3, UseFacts
  <1>7. Plain'
    <2>1. Flags'
      BY <1>1 DEF SInv, Plain, Flags
    <2>2. QED
      BY <2>1, <1>1, <1>6 DEF SInv, Plain
  <1>8. Data'
    <2>1. pdata' \in Seq(PairItem)
      BY <1>5 DEF Agrees
    <2>2. QED
      BY <2>1, <1>1, <1>2, <1>4, <1>5 DEF SInv, Data
  <1>9. Records'
    BY <1>1, <1>4 DEF SInv, Records, Keeps
  <1>10. Disk'
    BY <1>1 DEF SInv, Disk
  <1>11. Writing'
    <2>1. ASSUME pc = "records_out" PROVE \E pd, rs : Saved(out, pd, rs, durable.pairs, mem')
      <3>1. PICK pd, rs : Saved(out, pd, rs, durable.pairs, mem)
        BY <2>1 DEF SInv, Writing
      <3>2. Saved(out, pd, rs, durable.pairs, mem')
        BY <3>1, <1>4 DEF Saved, Keeps
      <3>3. QED
        BY <3>2
    <2>2. QED
      BY <2>1, <1>1 DEF SInv, Writing
  <1>12. QED
    BY <1>7, <1>8, <1>9, <1>10, <1>11 DEF SInv

(* A session ends with what is on disk, the file as it is. *)
LEMMA KeepExit ==
    ASSUME SInv, pc \notin {"truncated", "pairs_out", "records_out"},
           UNCHANGED <<dll, sensor, file>>, used' \in Use, Exit(durable)
    PROVE  SInv'
  <1>1. mem' = durable /\ Exit(mem')
    BY DEF Exit
  <1>2. mem' \in Knowledge /\ file' \in [items : Seq(Item), cut : BOOLEAN]
    BY <1>1 DEF SInv, Data
  <1>3. \E pd, rs : Saved(file'.items, pd, rs, mem'.pairs, mem')
    BY <1>1 DEF SInv, Disk
  <1>4. QED
    BY <1>1, <1>2, <1>3, ExitKeeps

LEMMA KeepLoadPairs ==
    ASSUME SInv, load_datastore_pair_data
    PROVE  SInv'
  <1> DEFINE new == Entries(file.items, "pair")
  <1>1. /\ pc = "down" /\ UNCHANGED <<dll, sensor, file, durable>>
        /\ used.sessions < MaxSessions /\ used \in Use
        /\ used' = [used EXCEPT !.sessions = @ + 1, !.sets = 0]
    BY DEF load_datastore_pair_data, SInv, Plain
  <1>2. used' \in Use
    BY <1>1, UseFacts
  <1>3. CASE Exit(durable)
    BY <1>1, <1>2, <1>3, KeepExit
  <1>4. CASE /\ pdata' = Reverse(new)
             /\ pos' = (IF Len(new) < Len(file.items) THEN Len(new) + 1 ELSE Len(new))
             /\ pc' = "opening"
             /\ UNCHANGED <<db, enroll, half, abort, tries, out, mem>>
    <2>1. PICK pd, rs : Saved(file.items, pd, rs, durable.pairs, durable)
      BY <1>1 DEF SInv, Disk
    <2>2. FileIs(file.items, pd, rs) /\ Agrees(pd, durable.pairs)
      BY <2>1 DEF Saved
    <2>3. new = pd
      BY <2>2, PairsRead
    <2>4. mem = durable /\ mem \in Knowledge
      BY <1>1 DEF SInv, Data
    <2>5. Agrees(pdata', mem'.pairs)
      BY <2>2, <2>3, <2>4, <1>4, AgreesReverse
    <2>6. pos' = Next1(pd, file.items)
      BY <2>3, <1>4 DEF Next1
    <2>7. pos' \in 0..Len(file.items)
      <3>1. /\ pd \in Seq(PairItem) /\ rs \in Seq(Record) /\ file.items \in Seq(Item)
            /\ Len(file.items) \in {Len(pd), Len(pd) + 1 + Len(rs), Len(pd) + 2 + Len(rs)}
        BY <2>2 DEF FileIs
      <3>2. Len(pd) \in Nat /\ Len(rs) \in Nat /\ Len(file.items) \in Nat
        BY <3>1
      <3>3. QED
        BY <2>6, <3>1, <3>2 DEF Next1
    <2> HIDE DEF new
    <2>8. Plain'
      <3>1. Flags'
        BY <1>1, <1>4 DEF SInv, Plain, Flags
      <3>2. pc' \in Fresh /\ pc' \notin {"enroll", "commit"}
        BY <1>4 DEF Fresh
      <3>3. QED
        BY <3>1, <3>2, <1>1, <1>2, <1>4 DEF SInv, Plain
    <2>9. Data'
      <3>1. pdata' \in Seq(PairItem)
        BY <2>5 DEF Agrees
      <3>2. pc' # "down" /\ mem' \in Knowledge /\ durable' \in Knowledge
        BY <1>1, <1>4, <2>4
      <3>3. QED
        BY <3>1, <3>2, <2>5, <2>7, <1>1 DEF SInv, Data
    <2>10. Records'
      BY <1>1, <1>4, <2>4 DEF SInv, Records, Fresh
    <2>11. Disk'
      BY <2>1, <2>6, <1>1 DEF Disk
    <2>12. Writing'
      BY <1>4 DEF Writing
    <2>13. QED
      BY <2>8, <2>9, <2>10, <2>11, <2>12 DEF SInv
  <1>5. QED
    BY <1>3, <1>4, Zenon DEF load_datastore_pair_data, new

LEMMA KeepOpen ==
    ASSUME SInv, tudor_open
    PROVE  SInv'
  <1>1. pc = "opening" /\ UNCHANGED <<dll, sensor, used, durable>>
    BY DEF tudor_open
  <1>2. used' \in Use
    BY <1>1 DEF SInv, Plain
  <1>3. CASE Exit(durable) /\ UNCHANGED file
    BY <1>1, <1>2, <1>3, KeepExit
  <1>4. CASE /\ pc' = "loading" /\ db' = EmptyDb /\ enroll' = NoRecord
             /\ UNCHANGED <<pdata, half, abort, tries, disk, mem>>
    <2>1. UNCHANGED <<file, pos, out>>
      BY <1>4 DEF disk
    <2>2. Plain'
      <3>1. Flags'
        BY <1>1, <1>4 DEF SInv, Plain, Flags
      <3>2. pc' \in Fresh /\ pc' \notin {"enroll", "commit"}
        BY <1>4 DEF Fresh
      <3>3. QED
        BY <3>1, <3>2, <1>1, <1>2, <1>4 DEF SInv, Plain
    <2>3. Data'
      BY <2>1, <1>1, <1>4 DEF SInv, Data
    <2>4. Records'
      BY <1>1, <1>4, EmptyStore DEF SInv, Records, Fresh
    <2>5. Disk'
      BY <2>1, <1>1, <1>4 DEF SInv, Disk
    <2>6. Writing'
      BY <1>4 DEF Writing
    <2>7. QED
      BY <2>2, <2>3, <2>4, <2>5, <2>6 DEF SInv
  <1>5. QED
    BY <1>3, <1>4 DEF tudor_open

LEMMA KeepLoadRecords ==
    ASSUME SInv, load_datastore_records
    PROVE  SInv'
  <1> DEFINE rest == SubSeq(file.items, pos + 1, Len(file.items))
             new  == Entries(rest, "rec")
  <1>1. pc = "loading" /\ UNCHANGED <<dll, sensor, used, file, durable>>
    BY DEF load_datastore_records
  <1>2. used' \in Use
    BY <1>1 DEF SInv, Plain
  <1>3. CASE Exit(durable)
    BY <1>1, <1>2, <1>3, KeepExit
  <1>4. CASE /\ db' = Loaded(new) /\ pos' = Len(file.items) /\ pc' = "prompt"
             /\ UNCHANGED <<pdata, enroll, half, abort, tries, out, mem>>
    <2>1. PICK pd, rs : /\ Saved(file.items, pd, rs, durable.pairs, durable)
                        /\ pos = Next1(pd, file.items)
      BY <1>1 DEF SInv, Disk
    <2>2. /\ FileIs(file.items, pd, rs) /\ Len(rs) <= MaxNodes
          /\ Keeps({rs[i] : i \in 1..Len(rs)}, durable)
      BY <2>1 DEF Saved
    <2>3. new = [i \in 1..Len(rs) |-> Rec(rs[i])]
      BY <2>1, <2>2, RecordsRead
    <2>4. rs \in Seq(Record)
      BY <2>2 DEF FileIs
    <2> HIDE DEF new
    <2>5. Store(db') /\ RecordsOf(db') = {rs[i] : i \in 1..Len(rs)}
      BY <2>2, <2>3, <2>4, <1>4, LoadedIs
    <2>6. pc' \in Work /\ pc' \notin Fresh \cup {"enroll", "commit"}
      BY <1>4 DEF Work, Fresh
    <2>7. Plain'
      <3>1. Flags'
        BY <1>1, <1>4 DEF SInv, Plain, Flags
      <3>2. QED
        BY <3>1, <2>6, <1>1, <1>2, <1>4 DEF SInv, Plain
    <2>8. Data'
      <3>1. file.items \in Seq(Item)
        BY DEF SInv, Data
      <3>2. Len(file.items) \in Nat
        BY <3>1
      <3>3. pos' \in 0..Len(file'.items)
        BY <3>2, <1>1, <1>4
      <3>4. QED
        BY <3>3, <1>1, <1>4 DEF SInv, Data
    <2>9. Records'
      <3>1. mem.recs = durable.recs /\ mem.exact = durable.exact
        BY <1>1 DEF SInv, Records, Fresh
      <3>2. Keeps(RecordsOf(db'), mem)
        BY <3>1, <2>2, <2>5 DEF Keeps
      <3>3. QED
        BY <3>2, <2>5, <2>6, <1>4 DEF Records
    <2>10. Disk'
      BY <2>1, <1>1, <1>4 DEF Disk
    <2>11. Writing'
      BY <1>4 DEF Writing
    <2>12. QED
      BY <2>7, <2>8, <2>9, <2>10, <2>11 DEF SInv
  <1>5. QED
    BY <1>3, <1>4 DEF load_datastore_records, Loaded

(* What is on disk while the data store is written does not matter. *)
LEMMA KeepTruncate ==
    ASSUME SInv, Truncate
    PROVE  SInv'
  <1>1. /\ pc = "prompt" /\ pc' = "truncated" /\ pos' = 0 /\ out' = <<>>
        /\ file' = [items |-> <<>>, cut |-> FALSE]
        /\ UNCHANGED <<dll, sensor, db, pdata, enroll, half, abort, tries, used, mem, durable>>
    BY DEF Truncate, memory, ghosts
  <1>2. Plain'
    <2>1. Flags'
      BY <1>1 DEF SInv, Plain, Flags
    <2>2. QED
      BY <2>1, <1>1 DEF SInv, Plain
  <1>3. Data'
    <2>1. <<>> \in Seq(Item) /\ Len(<<>>) = 0 /\ FALSE \in BOOLEAN
      OBVIOUS
    <2>2. file' \in [items : Seq(Item), cut : BOOLEAN] /\ file'.items = <<>>
      BY <2>1, <1>1, FileFacts
    <2>3. pos' \in 0..Len(file'.items)
      BY <2>1, <2>2, <1>1
    <2>4. QED
      BY <2>2, <2>3, <1>1 DEF SInv, Data
  <1>4. Records'
    BY <1>1 DEF SInv, Records, Fresh
  <1>5. Disk'
    BY <1>1 DEF Disk
  <1>6. Writing'
    <2>1. \E pd : Agrees(pd, durable.pairs)
      BY <1>1 DEF SInv, Disk, Saved
    <2>2. QED
      BY <2>1, <1>1 DEF Writing
  <1>7. QED
    BY <1>2, <1>3, <1>4, <1>5, <1>6 DEF SInv

LEMMA KeepSavePairs ==
    ASSUME SInv, save_datastore_pair_data
    PROVE  SInv'
  <1>1. /\ pc = "truncated" /\ pc' = "pairs_out" /\ out' = pdata \o <<End>>
        /\ UNCHANGED <<dll, sensor, db, pdata, enroll, half, abort, tries, file, pos, used>>
        /\ UNCHANGED mem /\ durable' = [durable EXCEPT !.pairs = mem.pairs]
    BY DEF save_datastore_pair_data, memory
  <1>0. mem \in Knowledge /\ durable \in Knowledge /\ Agrees(pdata, mem.pairs) /\ pos = 0
    BY <1>1 DEF SInv, Data, Writing
  <1>7. durable' \in Knowledge /\ durable'.pairs = mem.pairs
    BY <1>0, <1>1, KnowAll
  <1>2. Plain'
    <2>1. Flags'
      BY <1>1 DEF SInv, Plain, Flags
    <2>2. QED
      BY <2>1, <1>1 DEF SInv, Plain
  <1>3. Data'
    BY <1>1, <1>7 DEF SInv, Data
  <1>4. Records'
    BY <1>1 DEF SInv, Records, Fresh
  <1>5. Disk'
    BY <1>1 DEF Disk
  <1>6. Writing'
    BY <1>0, <1>1, <1>7 DEF Writing
  <1>8. QED
    BY <1>2, <1>3, <1>4, <1>5, <1>6 DEF SInv

(* The data store written: pairing data, and then records. *)
LEMMA PairsWritten ==
    ASSUME NEW pd \in Seq(PairItem)
    PROVE  FileIs(pd \o <<End>>, pd, <<>>)
  <1> DEFINE s == pd \o <<End>>
  <1>1. pd \in Seq(Item) /\ <<End>> \in Seq(Item)
    <2>1. PairItem \subseteq Item /\ End \in Item
      BY ItemFacts
    <2>2. QED
      BY <2>1
  <1>2. Len(pd) \in Nat /\ <<>> \in Seq(Record) /\ Len(<<>>) = 0
    OBVIOUS
  <1>3. s \in Seq(Item) /\ Len(s) = Len(pd) + 1
    BY <1>1
  <1>4. (\A i \in 1..Len(pd) : s[i] = pd[i]) /\ s[Len(pd) + 1] = End
    BY <1>1, <1>2
  <1> HIDE DEF s
  <1>5. Len(s) # Len(pd) /\ Len(s) = Len(pd) + 1 + 0 /\ Len(s) # Len(pd) + 2 + 0
    BY <1>2, <1>3
  <1>6. FileIs(s, pd, <<>>)
    BY <1>2, <1>3, <1>4, <1>5 DEF FileIs
  <1>7. QED
    BY <1>6 DEF s

LEMMA RecordsWritten ==
    ASSUME NEW pd \in Seq(PairItem), NEW rs \in Seq(Record)
    PROVE  FileIs((pd \o <<End>>) \o [i \in 1..Len(rs) |-> Rec(rs[i])] \o <<End>>, pd, rs)
  <1> DEFINE a == pd \o <<End>>
             b == [i \in 1..Len(rs) |-> Rec(rs[i])]
             s == a \o b \o <<End>>
             P == Len(pd)
             R == Len(rs)
  <1>1. FileIs(a, pd, <<>>)
    BY PairsWritten
  <1>2. P \in Nat /\ R \in Nat
    OBVIOUS
  <1>3. /\ a \in Seq(Item) /\ Len(a) = P + 1 /\ a[P + 1] = End
        /\ \A i \in 1..P : a[i] = pd[i]
    <2>1. Len(a) = P + 1
      OBVIOUS
    <2>2. Len(a) > P
      BY <2>1, <1>2
    <2> HIDE DEF a
    <2>3. QED
      BY <2>1, <2>2, <1>1 DEF FileIs
  <1>4. b \in Seq(Item) /\ Len(b) = R /\ \A i \in 1..R : b[i] = Rec(rs[i])
    <2>1. \A i \in 1..R : Rec(rs[i]) \in Item
      BY ItemFacts
    <2>2. b \in [1..R -> Item]
      BY <2>1
    <2>3. QED
      BY <2>2, <1>2
  <1>5. <<End>> \in Seq(Item) /\ Len(<<End>>) = 1 /\ <<End>>[1] = End
    BY ItemFacts
  <1> HIDE DEF a, b
  <1>6. s \in Seq(Item) /\ Len(s) = P + 2 + R
    <2>1. a \o b \in Seq(Item) /\ Len(a \o b) = Len(a) + Len(b)
      BY <1>3, <1>4
    <2>2. s \in Seq(Item) /\ Len(s) = (Len(a) + Len(b)) + 1
      BY <2>1, <1>5
    <2>3. (P + 1 + R) + 1 = P + 2 + R
      BY <1>2
    <2>4. QED
      BY <2>2, <2>3, <1>3, <1>4
  <1>7. \A i \in 1..(P + 1) : s[i] = a[i]
    BY <1>2, <1>3, <1>4, <1>5
  <1>8. \A i \in 1..R : s[P + 1 + i] = b[i]
    BY <1>2, <1>3, <1>4, <1>5
  <1>9. s[P + 2 + R] = End
    BY <1>2, <1>3, <1>4, <1>5
  <1> HIDE DEF s
  <1>10. /\ \A i \in 1..P : s[i] = pd[i]
         /\ s[P + 1] = End
         /\ \A i \in 1..R : s[P + 1 + i] = Rec(rs[i])
    <2>1. P + 1 \in 1..(P + 1) /\ \A i \in 1..P : i \in 1..(P + 1)
      BY <1>2
    <2>2. QED
      BY <2>1, <1>3, <1>4, <1>7, <1>8
  <1>11. Len(s) # P
    BY <1>2, <1>6
  <1>12. FileIs(s, pd, rs)
    BY <1>6, <1>9, <1>10, <1>11 DEF FileIs
  <1>13. QED
    BY <1>12 DEF s, a, b

LEMMA KeepSaveRecords ==
    ASSUME SInv, save_datastore_records
    PROVE  SInv'
  <1> DEFINE l == List(db)
  <1>1. /\ pc = "pairs_out" /\ pc' = "records_out"
        /\ out' = out \o [i \in DOMAIN l |-> Rec(db.rec[l[i]])] \o <<End>>
        /\ UNCHANGED <<dll, sensor, db, pdata, enroll, half, abort, tries, file, pos, used>>
        /\ UNCHANGED <<mem, durable>>
    BY DEF save_datastore_records, memory, ghosts
  <1>2. Store(db) /\ Keeps(RecordsOf(db), mem) /\ pos = 0
    BY <1>1 DEF SInv, Records, Fresh, Writing
  <1>3. PICK pd : Agrees(pd, durable.pairs) /\ out = pd \o <<End>>
    BY <1>1 DEF SInv, Writing
  <1>17. pd \in Seq(PairItem)
    BY <1>3 DEF Agrees
  <1>4. /\ l \in Seq(Nodes) /\ Len(l) \in 0..MaxNodes
        /\ \A i \in 1..Len(l) : db.rec[l[i]] \in Record
        /\ \A i, j \in 1..Len(l) : db.rec[l[i]] = db.rec[l[j]] => i = j
        /\ RecordsOf(db) = {db.rec[l[i]] : i \in 1..Len(l)}
    BY <1>2, ListOfRecords
  <1> HIDE DEF l
  <1> DEFINE rs == [i \in 1..Len(l) |-> db.rec[l[i]]]
  <1>5. Len(l) \in Nat /\ DOMAIN l = 1..Len(l) /\ Len(l) <= MaxNodes
    BY <1>4, NodeFacts
  <1>6. rs \in Seq(Record) /\ Len(rs) = Len(l) /\ \A i \in 1..Len(l) : rs[i] = db.rec[l[i]]
    <2>1. rs \in [1..Len(l) -> Record]
      BY <1>4
    <2>2. QED
      BY <2>1, <1>5
  <1> HIDE DEF rs
  <1>7. Once(rs) /\ RecordsOf(db) = {rs[i] : i \in 1..Len(rs)}
    BY <1>2, <1>4, <1>6 DEF Once
  <1>8. [i \in DOMAIN l |-> Rec(db.rec[l[i]])] = [i \in 1..Len(rs) |-> Rec(rs[i])]
    BY <1>5, <1>6
  <1>9. FileIs(out', pd, rs)
    <2>1. out' = (pd \o <<End>>) \o [i \in 1..Len(rs) |-> Rec(rs[i])] \o <<End>>
      BY <1>1, <1>3, <1>8
    <2>2. FileIs((pd \o <<End>>) \o [i \in 1..Len(rs) |-> Rec(rs[i])] \o <<End>>, pd, rs)
      BY <1>17, <1>6, RecordsWritten
    <2>3. QED
      BY <2>1, <2>2
  <1>10. Saved(out', pd, rs, durable'.pairs, mem')
    BY <1>1, <1>2, <1>3, <1>5, <1>6, <1>7, <1>9 DEF Saved
  <1>11. Plain'
    <2>1. Flags'
      BY <1>1 DEF SInv, Plain, Flags
    <2>2. QED
      BY <2>1, <1>1 DEF SInv, Plain
  <1>12. Data'
    BY <1>1 DEF SInv, Data
  <1>13. Records'
    BY <1>1 DEF SInv, Records, Fresh
  <1>14. Disk'
    BY <1>1 DEF Disk
  <1>15. Writing'
    BY <1>1, <1>2, <1>10 DEF Writing
  <1>16. QED
    BY <1>11, <1>12, <1>13, <1>14, <1>15 DEF SInv

LEMMA KeepCloseStore ==
    ASSUME SInv, CloseStore
    PROVE  SInv'
  <1>1. /\ pc = "records_out" /\ pc' = "closing"
        /\ file' = [items |-> out, cut |-> FALSE] /\ durable' = [mem EXCEPT !.pairs = durable.pairs]
        /\ UNCHANGED <<dll, sensor, db, pdata, enroll, half, abort, tries, pos, used, mem>>
    BY DEF CloseStore, memory
  <1>2. PICK pd, rs : Saved(out, pd, rs, durable.pairs, mem)
    BY <1>1 DEF SInv, Writing
  <1>11. /\ durable' \in Knowledge /\ durable'.pairs = durable.pairs
         /\ durable'.recs = mem.recs /\ durable'.exact = mem.exact
    <2>1. mem \in Knowledge /\ durable \in Knowledge
      BY DEF SInv, Data
    <2>2. QED
      BY <2>1, <1>1, KnowAll
  <1>3. out \in Seq(Item) /\ pos = 0
    BY <1>1, <1>2 DEF SInv, Writing, Saved, FileIs
  <1>4. file' \in [items : Seq(Item), cut : BOOLEAN] /\ file'.items = out
    BY <1>1, <1>3, FileFacts
  <1>5. Plain'
    <2>1. Flags'
      BY <1>1 DEF SInv, Plain, Flags
    <2>2. QED
      BY <2>1, <1>1 DEF SInv, Plain
  <1>6. Data'
    <2>1. Len(out) \in Nat
      BY <1>3
    <2>2. pos' \in 0..Len(file'.items)
      BY <2>1, <1>1, <1>3, <1>4
    <2>3. QED
      BY <2>2, <1>1, <1>4, <1>11 DEF SInv, Data
  <1>7. Records'
    BY <1>1 DEF SInv, Records, Fresh
  <1>8. Disk'
    <2>1. Saved(file'.items, pd, rs, durable'.pairs, durable')
      BY <1>2, <1>4, <1>11 DEF Saved, Keeps
    <2>2. QED
      BY <2>1, <1>1 DEF Disk
  <1>9. Writing'
    BY <1>1 DEF Writing
  <1>10. QED
    BY <1>5, <1>6, <1>7, <1>8, <1>9 DEF SInv

LEMMA KeepCloseDevice ==
    ASSUME SInv, CloseDevice
    PROVE  SInv'
  <1>1. /\ pc = "closing" /\ Exit(durable)
        /\ UNCHANGED <<dll, sensor, file, used>>
    BY DEF CloseDevice
  <1>2. used' \in Use
    BY <1>1 DEF SInv, Plain
  <1>3. QED
    BY <1>1, <1>2, KeepExit

LEMMA KeepCrash ==
    ASSUME SInv, Crash
    PROVE  SInv'
  <1>1. pc # "down" /\ UNCHANGED <<dll, sensor, used>>
    BY DEF Crash
  <1>2. used' \in Use
    BY <1>1 DEF SInv, Plain
  <1>3. CASE ~Saving
    <2>1. UNCHANGED file /\ Exit(durable)
      BY <1>3 DEF Crash
    <2>2. QED
      BY <2>1, <1>1, <1>2, <1>3, KeepExit DEF Saving
  <1>4. CASE Saving
    <2>1. PICK i \in Prefixes(out), c \in BOOLEAN :
             file' = [items |-> i, cut |-> c] /\ Exit(Torn(i))
      BY <1>4 DEF Crash
    <2>2. mem \in Knowledge /\ durable \in Knowledge
      BY DEF SInv, Data
    <2>3. \E saved, pd, rs : /\ Agrees(saved, durable.pairs)
                             /\ FileIs(out, pd, rs) /\ Starts(pd, saved)
                             /\ Once(rs) /\ Len(rs) <= MaxNodes
                             /\ \A k \in 1..Len(rs) : rs[k] \in mem.recs
      <3>1. /\ \A pd : Agrees(pd, durable.pairs) => Starts(pd, pd) /\ Starts(<<>>, pd)
            /\ Once(<<>>) /\ Len(<<>>) <= MaxNodes /\ \A k \in 1..Len(<<>>) : FALSE
        <4>1. Len(<<>>) = 0 /\ MaxNodes \in Nat
          BY NodeFacts
        <4>2. ASSUME NEW pd, Agrees(pd, durable.pairs) PROVE Len(pd) \in Nat
          <5>1. pd \in Seq(PairItem)
            BY <4>2 DEF Agrees
          <5>2. QED
            BY <5>1
        <4>3. QED
          BY <4>1, <4>2 DEF Starts, Once
      <3>2. CASE pc = "truncated"
        <4>1. PICK pd : out = <<>> /\ Agrees(pd, durable.pairs)
          BY <3>2 DEF SInv, Writing
        <4>2. QED
          BY <4>1, <3>1, NothingSaved
      <3>3. CASE pc = "pairs_out"
        <4>1. PICK pd : Agrees(pd, durable.pairs) /\ out = pd \o <<End>>
          BY <3>3 DEF SInv, Writing
        <4>2. FileIs(out, pd, <<>>)
          BY <4>1, PairsWritten DEF Agrees
        <4>3. QED
          BY <4>1, <4>2, <3>1
      <3>4. CASE pc = "records_out"
        <4>1. PICK pd, rs : Saved(out, pd, rs, durable.pairs, mem)
          BY <3>4 DEF SInv, Writing
        <4>2. QED
          BY <4>1, <3>1 DEF Saved, Keeps
      <3>5. QED
        BY <3>2, <3>3, <3>4, <1>4 DEF Saving
    <2>4. (\E a, b : Saved(i, a, b, Torn(i).pairs, Torn(i))) /\ Torn(i) \in Knowledge
      BY <2>2, <2>3, TornPart
    <2>5. mem' = Torn(i) /\ Exit(mem')
      BY <2>1 DEF Exit
    <2>6. i \in Seq(Item)
      BY <2>4 DEF Saved, FileIs
    <2>7. file' \in [items : Seq(Item), cut : BOOLEAN] /\ file'.items = i
      BY <2>1, <2>6, FileFacts
    <2>8. mem' \in Knowledge /\ \E a, b : Saved(file'.items, a, b, mem'.pairs, mem')
      BY <2>4, <2>5, <2>7
    <2>9. QED
      BY <2>5, <2>7, <2>8, <1>1, <1>2, ExitKeeps
  <1>5. QED
    BY <1>3, <1>4

LEMMA KeepStutter ==
    ASSUME SInv, UNCHANGED vars
    PROVE  SInv'
  <1>1. /\ UNCHANGED <<pc, dll, sensor, db, pdata, enroll, half, abort, tries>>
        /\ UNCHANGED <<file, pos, out, used, mem, durable>>
    BY DEF vars, memory, disk, ghosts
  <1>2. Plain'
    BY <1>1 DEF SInv, Plain, Flags
  <1>3. Data'
    BY <1>1 DEF SInv, Data
  <1>4. Records' /\ Disk' /\ Writing'
    BY <1>1 DEF SInv, Records, Disk, Writing
  <1>5. QED
    BY <1>2, <1>3, <1>4 DEF SInv

(* The records a tool starts with. *)
LEMMA SInvInit == Init => SInv
  <1> SUFFICES ASSUME Init PROVE SInv
    OBVIOUS
  <1>1. /\ pc = "down" /\ dll \in BOOLEAN /\ db = EmptyDb /\ sensor = {}
        /\ pdata = <<>> /\ enroll = NoRecord /\ half = FALSE /\ abort = FALSE /\ tries = 0
        /\ durable = mem /\ pos = 0
    BY DEF Init
  <1>2. used = [sessions |-> 0, cmds |-> 0, sets |-> 0]
    BY DEF Init
  <1>22. \E pd \in SavedPairs, recs \in SavedRecords : Left(pd, recs)
    BY DEF Init
  <1>24. PICK pd \in SavedPairs, recs \in SavedRecords : Left(pd, recs)
    BY <1>22
  <1>3. /\ IsInjective(recs)
        /\ file = [items |-> IF pd = <<>> /\ recs = <<>> THEN <<>>
                             ELSE pd \o <<End>> \o [i \in DOMAIN recs |-> Rec(recs[i])]
                                     \o <<End>>,
                   cut |-> FALSE]
        /\ mem = [pairs |-> [n \in Names |-> get_pair_data(pd, n)], recs |-> ToSet(recs),
                  exact |-> TRUE]
    BY <1>24 DEF Left, SavedRecords
  <1>21. /\ recs \in UNION {[1..k -> Record] : k \in 0..MaxNodes}
         /\ pd \in {<<>>} \cup {<<Pair(n, v)>> : n \in Names, v \in Values}
    BY DEF SavedPairs, SavedRecords
  <1>4. PICK k \in 0..MaxNodes : recs \in [1..k -> Record]
    BY <1>21
  <1>5. k \in Nat /\ k <= MaxNodes
    BY <1>4, NodeFacts
  <1>6. recs \in Seq(Record) /\ Len(recs) = k /\ DOMAIN recs = 1..Len(recs)
    BY <1>4, <1>5
  <1>23. IsInjective(recs)
    BY <1>3
  <1>7. Once(recs) /\ ToSet(recs) = {recs[i] : i \in 1..Len(recs)} /\ ToSet(recs) \subseteq Record
    BY <1>6, <1>23 DEF Once, IsInjective, ToSet
  <1> DEFINE known == [n \in Names |-> get_pair_data(pd, n)]
  <1>18. /\ pd \in Seq(PairItem) /\ NoTwins(pd)
         /\ \A i \in 1..Len(pd) : pd[i].name \in Names /\ pd[i].val \in Values
    <2>1. CASE pd = <<>>
      <3>1. <<>> \in Seq(PairItem) /\ Len(<<>>) = 0
        OBVIOUS
      <3>2. QED
        BY <2>1, <3>1 DEF NoTwins
    <2>2. CASE \E n \in Names, v \in Values : pd = <<Pair(n, v)>>
      <3>1. PICK n \in Names, v \in Values : pd = <<Pair(n, v)>>
        BY <2>2
      <3>2. Pair(n, v) \in PairItem /\ Pair(n, v).name = n /\ Pair(n, v).val = v
        BY PairFacts
      <3>3. \A x \in PairItem : <<x>> \in Seq(PairItem) /\ Len(<<x>>) = 1 /\ <<x>>[1] = x
        OBVIOUS
      <3>4. pd \in Seq(PairItem) /\ Len(pd) = 1 /\ pd[1] = Pair(n, v)
        BY <3>1, <3>2, <3>3
      <3>5. \A i \in 1..Len(pd) : i = 1
        BY <3>4
      <3>6. QED
        BY <3>2, <3>4, <3>5 DEF NoTwins
    <2>3. QED
      BY <2>1, <2>2, <1>21
  <1>19. /\ \A i \in 1..Len(pd) : known[pd[i].name] = pd[i].val
         /\ \A n \in Names : (\A i \in 1..Len(pd) : pd[i].name # n) => known[n] = NoValue
    <2>1. \A i \in 1..Len(pd) : get_pair_data(pd, pd[i].name) = pd[i].val
      BY <1>18, GetIs
    <2>2. \A n \in Names : (\A i \in 1..Len(pd) : pd[i].name # n) => get_pair_data(pd, n) = NoValue
      BY <1>18 DEF get_pair_data
    <2>3. QED
      BY <2>1, <2>2, <1>18
  <1>20. known \in [Names -> Values \cup {NoValue}]
    <2>1. ASSUME NEW n \in Names PROVE known[n] \in Values \cup {NoValue}
      <3>1. CASE \E i \in 1..Len(pd) : pd[i].name = n
        <4>1. PICK i \in 1..Len(pd) : pd[i].name = n
          BY <3>1
        <4>2. known[pd[i].name] = pd[i].val /\ pd[i].val \in Values
          BY <1>18, <1>19
        <4> HIDE DEF known
        <4>3. QED
          BY <4>1, <4>2
      <3>2. CASE \A i \in 1..Len(pd) : pd[i].name # n
        BY <3>2, <1>19
      <3>3. QED
        BY <3>1, <3>2
    <2>2. QED
      BY <2>1
  <1>8. mem \in Knowledge /\ mem.pairs = known /\ mem.recs = ToSet(recs) /\ mem.exact = TRUE
    <2> HIDE DEF known
    <2>2. mem = [pairs |-> known, recs |-> ToSet(recs), exact |-> TRUE]
      BY <1>3 DEF known
    <2>3. QED
      BY <1>20, <2>2, <1>7 DEF Knowledge
  <1> HIDE DEF known
  <1>9. Agrees(pd, mem.pairs)
    BY <1>8, <1>18, <1>19 DEF Agrees
  <1>10. FileIs(file.items, pd, recs)
    <2>1. CASE recs = <<>> /\ pd = <<>>
      <3>1. file.items = <<>>
        BY <2>1, <1>3
      <3>2. QED
        BY <2>1, <3>1, NothingSaved
    <2>2. CASE ~(recs = <<>> /\ pd = <<>>)
      <3> DEFINE b == [i \in 1..Len(recs) |-> Rec(recs[i])]
      <3>1. file.items = (pd \o <<End>>) \o b \o <<End>>
        BY <2>2, <1>3, <1>6
      <3>2. FileIs((pd \o <<End>>) \o b \o <<End>>, pd, recs)
        BY <1>18, <1>6, RecordsWritten
      <3>3. QED
        BY <3>1, <3>2
    <2>3. QED
      BY <2>1, <2>2
  <1>11. Saved(file.items, pd, recs, durable.pairs, durable)
    <2>1. Keeps({recs[i] : i \in 1..Len(recs)}, durable)
      BY <1>1, <1>7, <1>8 DEF Keeps
    <2>2. QED
      BY <2>1, <1>1, <1>5, <1>6, <1>7, <1>9, <1>10 DEF Saved
  <1>12. Plain
    <2>1. Flags
      BY <1>1, Zenon DEF Flags
    <2>2. used \in Use
      <3>1. 0 \in 0..MaxSessions /\ 0 \in 0..MaxCmds /\ 0 \in 0..MaxSets
        BY CliAssumption
      <3>2. QED
        BY <3>1, <1>2 DEF Use
    <2>3. tries \in 0..4
      BY <1>1
    <2>4. pc \in Fresh /\ pc \notin {"enroll", "commit"} /\ sensor \subseteq Record
      BY <1>1 DEF Fresh
    <2>5. QED
      BY <2>1, <2>2, <2>3, <2>4, <1>1 DEF Plain
  <1>13. Data
    <2>1. file.items \in Seq(Item)
      BY <1>10 DEF FileIs
    <2>2. file.cut = FALSE /\ file = [items |-> file.items, cut |-> FALSE]
      BY <1>3
    <2>3. file \in [items : Seq(Item), cut : BOOLEAN]
      BY <2>1, <2>2, FileFacts
    <2>4. Len(file.items) \in Nat
      BY <2>1
    <2>5. pos \in 0..Len(file.items)
      BY <2>4, <1>1
    <2>6. <<>> \in Seq(PairItem)
      OBVIOUS
    <2>7. QED
      BY <2>3, <2>5, <2>6, <1>1, <1>8 DEF Data
  <1>14. Records
    BY <1>1, EmptyStore DEF Records, Fresh
  <1>15. Disk
    BY <1>1, <1>11 DEF Disk
  <1>16. Writing
    BY <1>1 DEF Writing
  <1>17. QED
    BY <1>12, <1>13, <1>14, <1>15, <1>16 DEF SInv

LEMMA SInvNext == SInv /\ [Next]_vars => SInv'
  <1> SUFFICES ASSUME SInv, [Next]_vars PROVE SInv'
    OBVIOUS
  <1>1. CASE \E n \in Names, v \in Values : WritePairingData(n, v)
    BY <1>1, KeepWrite
  <1>2. CASE load_datastore_pair_data \/ tudor_open \/ load_datastore_records
    BY <1>2, KeepLoadPairs, KeepOpen, KeepLoadRecords
  <1>3. CASE \E r \in Record : cmd_enroll(r)
    BY <1>3, KeepEnroll
  <1>4. CASE EnrollCapture \/ tudor_enroll_commit \/ tudor_reopen
    BY <1>4, KeepCapture, KeepCommit, KeepReopen
  <1>5. CASE cmd_identify \/ EngineUsesStorage \/ IdentifyEnds
    BY <1>5, KeepIdentify, KeepEngine, KeepIdentifyEnds
  <1>6. CASE \E g \in Guids \cup {Wild} : cmd_query(g)
    BY <1>6, KeepQuery
  <1>7. CASE \E g \in Guids \cup {Wild}, f \in Fingers \cup {Wild} : cmd_wipe(g, f)
    BY <1>7, KeepWipe
  <1>8. CASE Interrupt
    BY <1>8, KeepInterrupt
  <1>9. CASE Truncate \/ save_datastore_pair_data \/ save_datastore_records
    BY <1>9, KeepTruncate, KeepSavePairs, KeepSaveRecords
  <1>10. CASE CloseStore \/ CloseDevice \/ Crash
    BY <1>10, KeepCloseStore, KeepCloseDevice, KeepCrash
  <1>11. CASE UNCHANGED vars
    BY <1>11, KeepStutter
  <1>12. QED
    BY <1>1, <1>2, <1>3, <1>4, <1>5, <1>6, <1>7, <1>8, <1>9, <1>10, <1>11 DEF Next

LEMMA SInvSound == SInv => SessionSound /\ PairingKept /\ RecordsKept
  <1> SUFFICES ASSUME SInv PROVE SessionSound /\ PairingKept /\ RecordsKept
    OBVIOUS
  <1>1. db \in Heap /\ ListSound(db) /\ ResultsAlive(db) /\ EnumerationExact(db)
    BY StoreSound DEF SInv, Records
  <1>2. TypeOK
    <2>1. dll \in BOOLEAN /\ half \in BOOLEAN /\ abort \in BOOLEAN
      BY DEF SInv, Plain, Flags
    <2>2. /\ pc \in {"down", "opening", "loading", "prompt", "enroll", "commit", "reopen",
                     "identify", "truncated", "pairs_out", "records_out", "closing"}
          /\ sensor \subseteq Record /\ enroll \in Record \cup {NoRecord} /\ tries \in 0..4
      BY DEF SInv, Plain, Work, Fresh
    <2>3. used.sessions \in 0..MaxSessions /\ used.cmds \in 0..MaxCmds /\ used.sets \in 0..MaxSets
      BY DEF SInv, Plain, Use
    <2>4. /\ file.cut \in BOOLEAN /\ pos \in 0..Len(file.items)
          /\ {mem, durable} \subseteq Knowledge
          /\ pdata \in Seq([kind : {"pair"}, name : Names, val : Values])
      <3>1. file \in [items : Seq(Item), cut : BOOLEAN]
        BY DEF SInv, Data
      <3>2. file.cut \in BOOLEAN
        BY <3>1
      <3>3. QED
        BY <3>2 DEF SInv, Data, PairItem
    <2>5. QED
      BY <2>1, <2>2, <2>3, <2>4, <1>1 DEF TypeOK
  <1>3. PairingKept
    <2>1. ASSUME pc # "down", NEW n \in Names PROVE get_pair_data(pdata, n) = mem.pairs[n]
      <3>1. Agrees(pdata, mem.pairs)
        BY <2>1 DEF SInv, Data
      <3>2. QED
        BY <3>1, AgreesGet
    <2>2. QED
      BY <2>1 DEF PairingKept
  <1>4. RecordsKept
    BY DEF SInv, Records, RecordsKept, Fresh, Keeps
  <1>5. QED
    BY <1>1, <1>2, <1>3, <1>4 DEF SessionSound

LEMMA AlwaysSInv == Spec => []SInv
  <1>1. QED
    BY SInvInit, SInvNext, PTL DEF Spec

(* Whatever sequence of commands, sessions and crashes a tool goes         *)
(* through, the list of storage.c is sound, the results the DLL may still  *)
(* walk are alive, and an enumeration reports every record once.           *)
THEOREM StorageAlwaysSound == Spec => []SessionSound
  <1>1. SInv => SessionSound
    BY SInvSound
  <1>2. QED
    BY <1>1, AlwaysSInv, PTL

(* The driver always reads the pairing data last written, or last saved    *)
(* (get_pair_data of cli/src/datastore.c), over any number of loads, saves *)
(* and crashes in the middle of a save.                                    *)
THEOREM PairingDataAlwaysKept == Spec => []PairingKept
  <1>1. SInv => PairingKept
    BY SInvSound
  <1>2. QED
    BY <1>1, AlwaysSInv, PTL

(* The list never holds a record that was wiped or never enrolled, in this *)
(* session or an earlier one, and it holds every other one until a reopen  *)
(* (cli_main_loop after an enrolment) or a crash in a save loses some.     *)
THEOREM RecordsAlwaysKept == Spec => []RecordsKept
  <1>1. SInv => RecordsKept
    BY SInvSound
  <1>2. QED
    BY <1>1, AlwaysSInv, PTL
=============================================================================
