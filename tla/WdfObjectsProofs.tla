-------------------------- MODULE WdfObjectsProofs --------------------------
(***************************************************************************)
(* Proofs about WdfObjects, for any queues and objects of the driver half, *)
(* any number of queued actions and of opens.                              *)
(***************************************************************************)
EXTENDS WdfObjects, WellFoundedInduction, TLAPS

Once(s) == \A i, j \in 1..Len(s) : s[i] = s[j] => i = j

-----------------------------------------------------------------------------
(* The stack of destructor frames.  Its frames, as a set:                  *)
FrameSet(st) == {st[i] : i \in 1..Len(st)}
Pending      == FrameSet(todo)
Doomed       == {fr.o : fr \in Pending}

(* The objects whose destructors may be the callers of that of o.          *)
Callers(o) == CASE o \in Queues \cup {"file"}    -> {"driver", "device"}
              [] o \in Extras \cup {"device"}  -> {"driver"}
              [] o = "create"                  -> {"file", "driver", "device"}
              [] OTHER                         -> {}

Step(f) == CASE f = "destroy"  -> 0
             [] f = "queues"   -> 1
             [] f = "removal"  -> 2
             [] f = "children" -> 3
             [] f = "unlink"   -> 4
             [] f = "contexts" -> 5

(* Frame b is under frame a: a later part of the same destructor, or of    *)
(* one that called it.                                                     *)
Under(a, b) == \/ a.o = b.o /\ a.f # "destroy" /\ Step(a.f) < Step(b.f)
               \/ b.o \in Callers(a.o)

StackOK(st) == /\ st \in Seq([f : Frames, o : Objects])
               /\ \A i, j \in 1..Len(st) : i < j => Under(st[i], st[j])

(* What comes after a part of a destructor. *)
Then(f) == CASE f = "queues" -> "removal" [] f = "removal" -> "children"
               [] f = "children" -> "unlink" [] f = "unlink" -> "contexts"

(* The destructor of o is past all but the parts fs. *)
Left(o, fs) == o \in Doomed /\ \A fr \in Pending : fr.o = o => fr.f \in fs

StackInv ==
    /\ StackOK(todo)
    /\ \A fr \in Pending : fr.f \notin {"destroy", "contexts"} => Frame(Then(fr.f), fr.o) \in Pending
    /\ \A fr \in Pending : fr.f \in {"queues", "removal"} => fr.o = "device"
    /\ Doomed \subseteq alive

(* Where the main thread is while it destroys what.                        *)
PlaceInv ==
    /\ "driver" \in Doomed => at = "unload"
    /\ "device" \in Doomed \/ Doomed \cap Queues # {} => at \in {"device_gone", "unload"}
    /\ "file" \in Doomed => at \in {"file_gone", "device_gone", "unload"}
    /\ "create" \in Doomed => at \in {"pipeline", "exit", "failed"}
    /\ Doomed \cap Extras # {} => flushing \/ "driver" \in Doomed
    /\ flushing => at \in {"flush_open", "flush_close"}
    /\ at \notin {"init", "entry", "unload", "gone", "exit"} => "driver" \in alive
    /\ at \in {"init", "entry", "gone"} => alive = {}
    /\ at = "unload" => alive = {} \/ "driver" \in Doomed
    /\ at \in {"query", "closed", "flush_close"} => "device" \notin alive
    /\ at = "device_gone" => "device" \notin alive \/ "device" \in Doomed
    /\ at \in {"adding", "flush_open", "create", "file_gone"} => "device" \in alive
    /\ at \in {"pipeline", "open"} => "file" \in alive

(* The tree.                                                               *)
Parents(o) == CASE o \in {"device"} \cup Queues \cup Extras -> {"driver", None}
                [] o = "file" -> {"device", None}
                [] o = "create" -> {"file", None}
                [] OTHER -> {None}

TreeInv ==
    /\ alive \subseteq Objects /\ dead \subseteq Objects
    /\ parent \in [Objects -> Objects \cup {None}]
    /\ kids \in [Objects -> Seq(Objects)]
    /\ \A o \in Objects : parent[o] \in Parents(o)
    /\ \A o \in Objects : Once(kids[o])
    /\ \A o \in alive : \A k \in Objects : Contains(kids[o], k) => k \in alive /\ parent[k] = o
    /\ \A o \in alive : parent[o] # None => parent[o] \in alive /\ Contains(kids[parent[o]], o)
    /\ \A o \in alive : parent[o] = None /\ o # "driver" => o \in Doomed
    /\ \A o \in Doomed : parent[o] \notin Doomed
    /\ dead \cap alive \subseteq Doomed
    /\ \A o \in Objects : Left(o, {"unlink", "contexts"}) => kids[o] = <<>>
    /\ \A o \in Objects : Left(o, {"contexts"}) => parent[o] = None
    /\ "create" \in alive => "create" \in Doomed

(* The queues of the device, and the other things that point to it.        *)
QueueInv ==
    /\ queues \in Seq(Queues) /\ Once(queues)
    /\ \A q \in Queues : Contains(queues, q) => q \in alive
    /\ \A q \in Queues \cap alive : Contains(queues, q) \/ q \in Doomed
    /\ \A fr \in Pending : fr.f # "destroy" \/ "driver" \notin Doomed => ~Contains(queues, fr.o)
    /\ "device" \notin alive => "file" \notin alive /\ Queues \cap alive = {}
    /\ Left("device", {"removal", "children", "unlink", "contexts"}) => queues = <<>>
    /\ {"driver", "device"} \subseteq Doomed => Queues \cap alive = {}
    /\ \A i, j \in 1..Len(kids["driver"]) :
          kids["driver"][i] \in Queues /\ kids["driver"][j] = "device" => i < j

(* The event queue.                                                        *)
Acts == [obj : Objects \cup {None}, fn : {None, "call_cbs", "destroy"}]

CellsLinked == \A c \in Cells : cell[c].obj # None =>
                  cell[c].obj \in alive /\ (Contains(acts[cell[c].obj], c) \/ linking = c)

ActsOwned == \A o \in Objects, c \in Cells : Contains(acts[o], c) => cell[c].obj = o /\ linking # c

(* The actions of an object have the same order in its list and the queue. *)
ActsOrder == \A o \in Objects : \A i, j \in 1..Len(acts[o]), k, l \in 1..Len(evtq) :
                i < j /\ evtq[k] = acts[o][i] /\ evtq[l] = acts[o][j] => k < l

EventInv ==
    /\ cell \in [Cells -> Acts] /\ evtq \in Seq(Cells) /\ acts \in [Objects -> Seq(Cells)]
    /\ Once(evtq)
    /\ \A c \in Cells : Contains(evtq, c) <=> cell[c].fn # None
    /\ \A c \in Cells : cell[c].fn = None => cell[c].obj = None
    /\ \A c \in Cells : cell[c].fn = "destroy" => cell[c].obj \in Extras \cup {None}
    /\ CellsLinked /\ ActsOwned /\ ActsOrder
    /\ \A o \in Objects : Left(o, {"contexts"}) => acts[o] = <<>>

LinkInv ==
    /\ flushing \in BOOLEAN /\ linking \in Cells \cup {0}
    /\ linking # 0 =>
          /\ cell[linking].obj \in Extras /\ cell[linking].obj \notin Doomed
          /\ \A k, l \in 1..Len(evtq) :
                evtq[k] = linking /\ cell[evtq[l]].obj = cell[linking].obj => k <= l
    /\ linking # 0 /\ "driver" \in Doomed => Pending = {Frame("destroy", "driver")}

RestInv ==
    /\ hw \in BOOLEAN /\ at \in Places /\ opens \in 0..MaxOpens
    /\ fault \in Faults \ {"freed", "dead_parent"}

WdfInv == StackInv /\ PlaceInv /\ TreeInv /\ QueueInv /\ EventInv /\ LinkInv /\ RestInv

-----------------------------------------------------------------------------
(* Sequences: an element in front, a tail, one element taken out.          *)
LEMMA ConsFacts ==
    ASSUME NEW S, NEW s \in Seq(S), NEW e \in S
    PROVE  /\ <<e>> \o s \in Seq(S) /\ Len(<<e>> \o s) = Len(s) + 1
           /\ (<<e>> \o s)[1] = e
           /\ \A k \in 1..Len(s) : (<<e>> \o s)[k + 1] = s[k]
           /\ \A k \in 2..(Len(s) + 1) : (<<e>> \o s)[k] = s[k - 1] /\ k - 1 \in 1..Len(s)
           /\ <<e>> \o s # <<>>
  OBVIOUS

LEMMA ConsContains ==
    ASSUME NEW S, NEW s \in Seq(S), NEW e \in S
    PROVE  \A x : Contains(<<e>> \o s, x) <=> x = e \/ Contains(s, x)
  <1> DEFINE t == <<e>> \o s
  <1>1. /\ Len(t) = Len(s) + 1 /\ t[1] = e /\ Len(s) \in Nat
        /\ \A k \in 1..Len(s) : t[k + 1] = s[k]
        /\ \A k \in 2..(Len(s) + 1) : t[k] = s[k - 1] /\ k - 1 \in 1..Len(s)
    BY ConsFacts
  <1> HIDE DEF t
  <1>2. ASSUME NEW x, Contains(t, x) PROVE x = e \/ Contains(s, x)
    <2>1. PICK i \in 1..Len(t) : t[i] = x
      BY <1>2 DEF Contains
    <2>2. CASE i = 1
      BY <2>1, <2>2, <1>1
    <2>3. CASE i # 1
      <3>1. i \in 2..(Len(s) + 1)
        BY <1>1, <2>3
      <3>2. QED
        BY <3>1, <1>1, <2>1 DEF Contains
    <2>4. QED
      BY <2>2, <2>3
  <1>3. ASSUME NEW x, x = e \/ Contains(s, x) PROVE Contains(t, x)
    <2>1. CASE x = e
      <3>1. 1 \in 1..Len(t)
        BY <1>1
      <3>2. QED
        BY <3>1, <2>1, <1>1 DEF Contains
    <2>2. CASE Contains(s, x)
      <3>1. PICK i \in 1..Len(s) : s[i] = x
        BY <2>2 DEF Contains
      <3>2. i + 1 \in 1..Len(t) /\ t[i + 1] = x
        BY <3>1, <1>1
      <3>3. QED
        BY <3>2 DEF Contains
    <2>3. QED
      BY <1>3, <2>1, <2>2
  <1>4. QED
    BY <1>2, <1>3 DEF t

LEMMA ConsOnce ==
    ASSUME NEW S, NEW s \in Seq(S), NEW e \in S, Once(s), ~Contains(s, e)
    PROVE  Once(<<e>> \o s)
  <1> DEFINE t == <<e>> \o s
  <1>1. /\ Len(t) = Len(s) + 1 /\ t[1] = e /\ Len(s) \in Nat
        /\ \A k \in 2..(Len(s) + 1) : t[k] = s[k - 1] /\ k - 1 \in 1..Len(s)
    BY ConsFacts
  <1> HIDE DEF t
  <1> SUFFICES ASSUME NEW i \in 1..Len(t), NEW j \in 1..Len(t), t[i] = t[j] PROVE i = j
    BY DEF Once, t
  <1>2. ASSUME NEW k \in 1..Len(t), t[k] = e PROVE k = 1
    <2> SUFFICES ASSUME k # 1 PROVE FALSE
      OBVIOUS
    <2>1. k \in 2..(Len(s) + 1)
      BY <1>1
    <2>2. QED
      BY <2>1, <1>1, <1>2 DEF Contains
  <1>3. CASE i = 1 \/ j = 1
    BY <1>1, <1>2, <1>3
  <1>4. CASE i # 1 /\ j # 1
    <2>1. i \in 2..(Len(s) + 1) /\ j \in 2..(Len(s) + 1)
      BY <1>1, <1>4
    <2>2. i - 1 = j - 1
      BY <2>1, <1>1 DEF Once
    <2>3. QED
      BY <2>1, <2>2
  <1>5. QED
    BY <1>3, <1>4

LEMMA TailFacts ==
    ASSUME NEW S, NEW s \in Seq(S), s # <<>>
    PROVE  /\ Len(s) \in Nat /\ Len(s) >= 1 /\ Head(s) = s[1] /\ s[1] \in S
           /\ Tail(s) \in Seq(S) /\ Len(Tail(s)) = Len(s) - 1
           /\ \A k \in 1..(Len(s) - 1) : k + 1 \in 1..Len(s) /\ Tail(s)[k] = s[k + 1]
  OBVIOUS

LEMMA TailContains ==
    ASSUME NEW S, NEW s \in Seq(S), s # <<>>, Once(s)
    PROVE  /\ \A x : Contains(Tail(s), x) <=> Contains(s, x) /\ x # Head(s)
           /\ Once(Tail(s)) /\ Contains(s, Head(s))
  <1> DEFINE t == Tail(s)
  <1>1. /\ Len(s) \in Nat /\ Len(s) >= 1 /\ Head(s) = s[1] /\ Len(t) = Len(s) - 1
        /\ \A k \in 1..(Len(s) - 1) : k + 1 \in 1..Len(s) /\ t[k] = s[k + 1]
    BY TailFacts
  <1> HIDE DEF t
  <1>2. ASSUME NEW x, Contains(t, x) PROVE Contains(s, x) /\ x # Head(s)
    <2>1. PICK k \in 1..(Len(s) - 1) : t[k] = x
      BY <1>1, <1>2 DEF Contains
    <2>2. k + 1 \in 1..Len(s) /\ s[k + 1] = x /\ 1 \in 1..Len(s) /\ k + 1 # 1
      BY <1>1, <2>1
    <2>3. QED
      BY <2>2, <1>1 DEF Contains, Once
  <1>3. ASSUME NEW x, Contains(s, x), x # Head(s) PROVE Contains(t, x)
    <2>1. PICK k \in 1..Len(s) : s[k] = x
      BY <1>3 DEF Contains
    <2>2. k # 1 /\ k - 1 \in 1..Len(t) /\ (k - 1) + 1 = k
      BY <1>1, <1>3, <2>1
    <2>3. t[k - 1] = x
      BY <2>1, <2>2, <1>1
    <2>4. QED
      BY <2>2, <2>3 DEF Contains
  <1>4. Once(t)
    <2> SUFFICES ASSUME NEW i \in 1..Len(t), NEW j \in 1..Len(t), t[i] = t[j] PROVE i = j
      BY DEF Once
    <2>1. i + 1 \in 1..Len(s) /\ j + 1 \in 1..Len(s) /\ s[i + 1] = s[j + 1]
      BY <1>1
    <2>2. i + 1 = j + 1
      BY <2>1 DEF Once
    <2>3. QED
      BY <2>2
  <1>5. Contains(s, Head(s))
    BY <1>1 DEF Contains
  <1>6. QED
    BY <1>2, <1>3, <1>4, <1>5 DEF t

LEMMA JoinFacts ==
    ASSUME NEW S, NEW a \in Seq(S), NEW b \in Seq(S)
    PROVE  /\ a \o b \in Seq(S) /\ Len(a \o b) = Len(a) + Len(b) /\ Len(a) \in Nat /\ Len(b) \in Nat
           /\ \A k \in 1..Len(a) : (a \o b)[k] = a[k]
           /\ \A k \in (Len(a) + 1)..(Len(a) + Len(b)) : (a \o b)[k] = b[k - Len(a)]
  OBVIOUS

(* Taking an element out keeps the order of the others. *)
LEMMA RemoveAtFacts ==
    ASSUME NEW S, NEW s \in Seq(S), Once(s), NEW i \in 1..Len(s), NEW e, e = s[i]
    PROVE  /\ RemoveFirst(s, e) \in Seq(S)
           /\ Len(RemoveFirst(s, e)) = Len(s) - 1
           /\ \A k \in 1..(Len(s) - 1) :
                 RemoveFirst(s, e)[k] = IF k < i THEN s[k] ELSE s[k + 1]
  <1> DEFINE I == {k \in 1..Len(s) : s[k] = e}
             a == SubSeq(s, 1, i - 1)
             b == SubSeq(s, i + 1, Len(s))
             r == a \o b
  <1>1. I = {i}
    BY DEF Once
  <1>2. Min(I) = i
    BY <1>1 DEF Min
  <1>3. RemoveFirst(s, e) = r
    BY <1>1, <1>2 DEF RemoveFirst, RemoveAt, SelectInSeq
  <1>4. /\ a \in Seq(S) /\ Len(a) = i - 1
        /\ \A k \in 1..(i - 1) : a[k] = s[k]
    OBVIOUS
  <1>5. /\ b \in Seq(S) /\ Len(b) = Len(s) - i
        /\ \A k \in 1..(Len(s) - i) : b[k] = s[k + i]
    OBVIOUS
  <1>0. Len(s) \in Nat /\ i \in Nat /\ i >= 1 /\ i <= Len(s)
    OBVIOUS
  <1> HIDE DEF I, a, b
  <1>6. /\ r \in Seq(S) /\ Len(r) = Len(a) + Len(b)
        /\ \A k \in 1..Len(a) : r[k] = a[k]
        /\ \A k \in (Len(a) + 1)..(Len(a) + Len(b)) : r[k] = b[k - Len(a)]
    BY <1>4, <1>5, JoinFacts
  <1> HIDE DEF r
  <1>7. ASSUME NEW k \in 1..(Len(s) - 1) PROVE r[k] = IF k < i THEN s[k] ELSE s[k + 1]
    <2>1. CASE k < i
      <3>1. k \in 1..(i - 1)
        BY <2>1, <1>0
      <3>2. QED
        BY <2>1, <3>1, <1>4, <1>6
    <2>2. CASE ~(k < i)
      <3>1. /\ k \in ((i - 1) + 1)..((i - 1) + (Len(s) - i))
            /\ k - (i - 1) \in 1..(Len(s) - i) /\ (k - (i - 1)) + i = k + 1
        BY <2>2, <1>0
      <3>2. r[k] = b[k - (i - 1)]
        BY <3>1, <1>4, <1>5, <1>6
      <3>3. b[k - (i - 1)] = s[k + 1]
        BY <3>1, <1>5
      <3>4. QED
        BY <3>2, <3>3, <2>2
    <2>3. QED
      BY <2>1, <2>2
  <1>8. Len(r) = Len(s) - 1
    BY <1>0, <1>4, <1>5, <1>6
  <1>9. QED
    BY <1>3, <1>6, <1>7, <1>8

(* r is s without e. *)
Without(r, s, e) ==
    /\ Once(r)
    /\ \A x : Contains(r, x) <=> Contains(s, x) /\ x # e
    /\ \A i, j \in 1..Len(r) : i < j =>
          \E k, l \in 1..Len(s) : k < l /\ s[k] = r[i] /\ s[l] = r[j]

LEMMA RemoveFacts ==
    ASSUME NEW S, NEW s \in Seq(S), Once(s), NEW e
    PROVE  RemoveFirst(s, e) \in Seq(S) /\ Without(RemoveFirst(s, e), s, e)
  <1>1. CASE ~Contains(s, e)
    <2>1. RemoveFirst(s, e) = s
      BY <1>1 DEF RemoveFirst, Contains
    <2>2. QED
      BY <2>1, <1>1 DEF Without
  <1>2. CASE Contains(s, e)
    <2>1. PICK i \in 1..Len(s) : s[i] = e
      BY <1>2 DEF Contains
    <2>0. /\ RemoveFirst(s, e) \in Seq(S) /\ Len(RemoveFirst(s, e)) = Len(s) - 1
          /\ \A k \in 1..(Len(s) - 1) :
                RemoveFirst(s, e)[k] = IF k < i THEN s[k] ELSE s[k + 1]
      BY <2>1, RemoveAtFacts, Zenon
    <2> DEFINE r == RemoveFirst(s, e)
               At(k) == IF k < i THEN k ELSE k + 1
    <2>2. /\ r \in Seq(S) /\ Len(r) = Len(s) - 1 /\ Len(s) \in Nat
          /\ \A k \in 1..(Len(s) - 1) : r[k] = s[At(k)] /\ At(k) \in 1..Len(s) /\ At(k) # i
      <3>1. /\ r \in Seq(S) /\ Len(r) = Len(s) - 1 /\ Len(s) \in Nat
            /\ \A k \in 1..(Len(s) - 1) : r[k] = IF k < i THEN s[k] ELSE s[k + 1]
        BY <2>0
      <3>2. \A k \in 1..(Len(s) - 1) : At(k) \in 1..Len(s) /\ At(k) # i
        BY <3>1
      <3>3. QED
        BY <3>1, <3>2
    <2>3. \A k, l \in 1..(Len(s) - 1) : k < l => At(k) < At(l)
      OBVIOUS
    <2>4. \A k \in 1..Len(s) : k # i => \E l \in 1..(Len(s) - 1) : At(l) = k
      <3> SUFFICES ASSUME NEW k \in 1..Len(s), k # i
                   PROVE  \E l \in 1..(Len(s) - 1) : At(l) = k
        OBVIOUS
      <3>1. CASE k < i
        BY <3>1
      <3>2. CASE k > i
        <4>1. k - 1 \in 1..(Len(s) - 1) /\ At(k - 1) = k
          BY <3>2
        <4>2. QED
          BY <4>1
      <3>3. QED
        BY <3>1, <3>2
    <2> HIDE DEF r, At
    <2>5. Once(r)
      <3> SUFFICES ASSUME NEW k \in 1..Len(r), NEW l \in 1..Len(r), r[k] = r[l], k < l
                   PROVE  FALSE
        BY <2>2 DEF Once
      <3>1. At(k) = At(l)
        BY <2>2 DEF Once
      <3>2. At(k) < At(l) /\ At(k) \in Nat /\ At(l) \in Nat
        BY <2>2, <2>3
      <3>3. QED
        BY <3>1, <3>2
    <2>6. ASSUME NEW x, Contains(r, x) PROVE Contains(s, x) /\ x # e
      <3>1. PICK k \in 1..(Len(s) - 1) : r[k] = x
        BY <2>2, <2>6 DEF Contains
      <3>2. QED
        BY <3>1, <2>1, <2>2 DEF Contains, Once
    <2>7. ASSUME NEW x, Contains(s, x), x # e PROVE Contains(r, x)
      <3>1. PICK k \in 1..Len(s) : s[k] = x
        BY <2>7 DEF Contains
      <3>2. PICK l \in 1..(Len(s) - 1) : At(l) = k
        BY <3>1, <2>1, <2>4, <2>7
      <3>3. QED
        BY <3>1, <3>2, <2>2 DEF Contains
    <2>8. QED
      BY <2>2, <2>3, <2>5, <2>6, <2>7 DEF Without, r
  <1>3. QED
    BY <1>1, <1>2

-----------------------------------------------------------------------------
(* Kinds of objects. *)
LEMMA KindFacts ==
    /\ Callers("driver") = {} /\ Callers("device") = {"driver"}
    /\ Callers("file") = {"driver", "device"} /\ Callers("create") = {"file", "driver", "device"}
    /\ \A q \in Queues : Callers(q) = {"driver", "device"}
    /\ \A x \in Extras : Callers(x) = {"driver"}
    /\ Parents("driver") = {None} /\ Parents("device") = {"driver", None}
    /\ Parents("file") = {"device", None} /\ Parents("create") = {"file", None}
    /\ \A q \in Queues : Parents(q) = {"driver", None}
    /\ \A x \in Extras : Parents(x) = {"driver", None}
    /\ \A q \in Queues : q \notin Extras /\ q \notin {"driver", "device", "file", "create", None}
    /\ \A x \in Extras : x \notin Queues /\ x \notin {"driver", "device", "file", "create", None}
    /\ None \notin Objects
  BY ObjectsAssumption DEF Callers, Parents, None, Objects

LEMMA CallersFacts ==
    \A o \in Objects : /\ o \notin Callers(o) /\ Callers(o) \subseteq {"driver", "device", "file"}
                       /\ \A p \in Callers(o) : Callers(p) \subseteq Callers(o)
                       /\ \A p \in Parents(o) \ {None} : p \in Callers(o) /\ Callers(p) \subseteq Callers(o)
  <1> SUFFICES ASSUME NEW o \in Objects
               PROVE  /\ o \notin Callers(o) /\ Callers(o) \subseteq {"driver", "device", "file"}
                      /\ \A p \in Callers(o) : Callers(p) \subseteq Callers(o)
                      /\ \A p \in Parents(o) \ {None} : p \in Callers(o) /\ Callers(p) \subseteq Callers(o)
    OBVIOUS
  <1>1. CASE o \in Queues
    BY <1>1, KindFacts
  <1>2. CASE o \in Extras
    BY <1>2, KindFacts
  <1>3. CASE o \in {"driver", "device", "file", "create"}
    BY <1>3, KindFacts
  <1>4. QED
    BY <1>1, <1>2, <1>3 DEF Objects

LEMMA StepFacts ==
    /\ Step("destroy") = 0 /\ Step("queues") = 1 /\ Step("removal") = 2
    /\ Step("children") = 3 /\ Step("unlink") = 4 /\ Step("contexts") = 5
    /\ Then("queues") = "removal" /\ Then("removal") = "children"
    /\ Then("children") = "unlink" /\ Then("unlink") = "contexts"
  BY DEF Step, Then

FrameRec == [f : Frames, o : Objects]

LEMMA FrameFacts ==
    /\ \A f, o : Frame(f, o).f = f /\ Frame(f, o).o = o
    /\ \A f \in Frames, o \in Objects : Frame(f, o) \in FrameRec
    /\ \A fr \in FrameRec : fr.f \in Frames /\ fr.o \in Objects /\ fr = Frame(fr.f, fr.o)
  BY DEF Frame, FrameRec

LEMMA UnderFacts ==
    ASSUME NEW a \in FrameRec, NEW b \in FrameRec, Under(a, b)
    PROVE  a # b
  BY CallersFacts, FrameFacts, StepFacts DEF Under, Frames

-----------------------------------------------------------------------------
(* Calling a destructor, and a part of one that is over. *)
LEMMA StackPush ==
    ASSUME NEW st, StackOK(st), NEW fr \in FrameRec, \A g \in FrameSet(st) : Under(fr, g)
    PROVE  /\ StackOK(<<fr>> \o st)
           /\ FrameSet(<<fr>> \o st) = FrameSet(st) \cup {fr}
  <1> DEFINE t == <<fr>> \o st
  <1>1. st \in Seq(FrameRec)
    BY DEF StackOK, FrameRec
  <1>2. /\ t \in Seq(FrameRec) /\ Len(t) = Len(st) + 1 /\ t[1] = fr /\ Len(st) \in Nat
        /\ \A k \in 1..Len(st) : t[k + 1] = st[k]
        /\ \A k \in 2..(Len(st) + 1) : t[k] = st[k - 1] /\ k - 1 \in 1..Len(st)
    BY <1>1, ConsFacts
  <1> HIDE DEF t
  <1>3. ASSUME NEW i \in 1..Len(t), NEW j \in 1..Len(t), i < j PROVE Under(t[i], t[j])
    <2>1. j \in 2..(Len(st) + 1)
      BY <1>2, <1>3
    <2>2. t[j] = st[j - 1] /\ j - 1 \in 1..Len(st)
      BY <2>1, <1>2
    <2>3. CASE i = 1
      BY <2>2, <2>3, <1>2 DEF FrameSet
    <2>4. CASE i # 1
      <3>1. t[i] = st[i - 1] /\ i - 1 \in 1..Len(st) /\ i - 1 < j - 1
        BY <2>1, <2>4, <1>2, <1>3
      <3>2. QED
        BY <3>1, <2>2 DEF StackOK
    <2>5. QED
      BY <2>3, <2>4
  <1>4. FrameSet(t) \subseteq FrameSet(st) \cup {fr}
    <2> SUFFICES ASSUME NEW i \in 1..Len(t) PROVE t[i] \in FrameSet(st) \cup {fr}
      BY DEF FrameSet
    <2>1. i = 1 \/ i \in 2..(Len(st) + 1)
      BY <1>2
    <2>2. QED
      BY <2>1, <1>2 DEF FrameSet
  <1>5. FrameSet(st) \cup {fr} \subseteq FrameSet(t)
    <2>1. fr \in FrameSet(t)
      <3>1. 1 \in 1..Len(t)
        BY <1>2
      <3>2. QED
        BY <3>1, <1>2 DEF FrameSet
    <2>2. ASSUME NEW i \in 1..Len(st) PROVE st[i] \in FrameSet(t)
      <3>1. i + 1 \in 1..Len(t) /\ t[i + 1] = st[i]
        BY <1>2
      <3>2. QED
        BY <3>1 DEF FrameSet
    <2>3. QED
      BY <2>1, <2>2 DEF FrameSet
  <1>6. QED
    BY <1>2, <1>3, <1>4, <1>5 DEF StackOK, FrameRec, t

LEMMA StackPop ==
    ASSUME NEW st, StackOK(st), st # <<>>
    PROVE  /\ StackOK(Tail(st))
           /\ Head(st) \in FrameRec
           /\ FrameSet(st) = FrameSet(Tail(st)) \cup {Head(st)}
           /\ \A g \in FrameSet(Tail(st)) : Under(Head(st), g)
           /\ Head(st) \notin FrameSet(Tail(st))
  <1> DEFINE t == Tail(st)
  <1>1. st \in Seq(FrameRec)
    BY DEF StackOK, FrameRec
  <1>2. /\ Len(st) \in Nat /\ Len(st) >= 1 /\ Head(st) = st[1] /\ st[1] \in FrameRec
        /\ t \in Seq(FrameRec) /\ Len(t) = Len(st) - 1
        /\ \A k \in 1..(Len(st) - 1) : k + 1 \in 1..Len(st) /\ t[k] = st[k + 1]
    BY <1>1, TailFacts
  <1> HIDE DEF t
  <1>3. ASSUME NEW i \in 1..Len(t), NEW j \in 1..Len(t), i < j PROVE Under(t[i], t[j])
    <2>1. i + 1 \in 1..Len(st) /\ j + 1 \in 1..Len(st) /\ i + 1 < j + 1
      BY <1>2, <1>3
    <2>2. QED
      BY <2>1, <1>2 DEF StackOK
  <1>4. ASSUME NEW j \in 1..Len(t) PROVE Under(st[1], t[j])
    <2>1. 1 \in 1..Len(st) /\ j + 1 \in 1..Len(st) /\ 1 < j + 1
      BY <1>2
    <2>2. QED
      BY <2>1, <1>2 DEF StackOK
  <1>5. FrameSet(st) = FrameSet(t) \cup {Head(st)}
    <2>1. ASSUME NEW i \in 1..Len(st) PROVE st[i] \in FrameSet(t) \cup {Head(st)}
      <3>1. CASE i = 1
        BY <3>1, <1>2
      <3>2. CASE i # 1
        <4>1. i - 1 \in 1..Len(t) /\ (i - 1) + 1 = i
          BY <3>2, <1>2
        <4>2. t[i - 1] = st[i]
          BY <4>1, <1>2
        <4>3. QED
          BY <4>1, <4>2 DEF FrameSet
      <3>3. QED
        BY <3>1, <3>2
    <2>2. ASSUME NEW i \in 1..Len(t) PROVE t[i] \in FrameSet(st)
      BY <1>2 DEF FrameSet
    <2>3. Head(st) \in FrameSet(st)
      BY <1>2 DEF FrameSet
    <2>4. QED
      BY <2>1, <2>2, <2>3 DEF FrameSet
  <1>6. \A g \in FrameSet(t) : Under(Head(st), g) /\ g \in FrameRec
    BY <1>2, <1>4 DEF FrameSet
  <1>7. Head(st) \notin FrameSet(t)
    BY <1>2, <1>6, UnderFacts
  <1>8. QED
    BY <1>2, <1>3, <1>5, <1>6, <1>7 DEF StackOK, FrameRec, t

(* The parts of the destructor of o. *)
Parts(o) == {Frame("children", o), Frame("unlink", o), Frame("contexts", o)}
            \cup (IF o = "device" THEN {Frame("queues", o), Frame("removal", o)} ELSE {})

LEMMA StackPart ==
    ASSUME NEW st, StackOK(st), NEW o \in Objects, NEW f \in Frames \ {"destroy"},
           \A g \in FrameSet(st) : g.o \in Callers(o) \/ (g.o = o /\ Step(f) < Step(g.f))
    PROVE  /\ StackOK(<<Frame(f, o)>> \o st)
           /\ FrameSet(<<Frame(f, o)>> \o st) = FrameSet(st) \cup {Frame(f, o)}
  <1>1. Frame(f, o) \in FrameRec /\ Frame(f, o).f = f /\ Frame(f, o).o = o
    BY FrameFacts
  <1>2. \A g \in FrameSet(st) : Under(Frame(f, o), g)
    BY <1>1 DEF Under
  <1>3. QED
    BY <1>1, <1>2, StackPush

LEMMA StackEnter ==
    ASSUME NEW st, StackOK(st), NEW o \in Objects, \A g \in FrameSet(st) : g.o \in Callers(o)
    PROVE  /\ StackOK(Destructor(o) \o st)
           /\ FrameSet(Destructor(o) \o st) = FrameSet(st) \cup Parts(o)
  <1> DEFINE c1 == <<Frame("contexts", o)>> \o st
             c2 == <<Frame("unlink", o)>> \o c1
             c3 == <<Frame("children", o)>> \o c2
             c4 == <<Frame("removal", o)>> \o c3
             c5 == <<Frame("queues", o)>> \o c4
  <1>0. st \in Seq(FrameRec) /\ \A f \in Frames : Frame(f, o) \in FrameRec
    BY FrameFacts DEF StackOK, FrameRec
  <1>1. StackOK(c1) /\ FrameSet(c1) = FrameSet(st) \cup {Frame("contexts", o)}
    BY StackPart, StepFacts DEF Frames
  <1>2. StackOK(c2) /\ FrameSet(c2) = FrameSet(c1) \cup {Frame("unlink", o)}
    <2> HIDE DEF c1
    <2>1. \A g \in FrameSet(c1) : g.o \in Callers(o) \/ (g.o = o /\ Step("unlink") < Step(g.f))
      BY <1>1, FrameFacts, StepFacts
    <2>2. QED
      BY <1>1, <2>1, StackPart DEF Frames
  <1>3. StackOK(c3) /\ FrameSet(c3) = FrameSet(c2) \cup {Frame("children", o)}
    <2> HIDE DEF c1, c2
    <2>1. \A g \in FrameSet(c2) : g.o \in Callers(o) \/ (g.o = o /\ Step("children") < Step(g.f))
      BY <1>1, <1>2, FrameFacts, StepFacts
    <2>2. QED
      BY <1>2, <2>1, StackPart DEF Frames
  <1>4. StackOK(c4) /\ FrameSet(c4) = FrameSet(c3) \cup {Frame("removal", o)}
    <2> HIDE DEF c1, c2, c3
    <2>1. \A g \in FrameSet(c3) : g.o \in Callers(o) \/ (g.o = o /\ Step("removal") < Step(g.f))
      BY <1>1, <1>2, <1>3, FrameFacts, StepFacts
    <2>2. QED
      BY <1>3, <2>1, StackPart DEF Frames
  <1>5. StackOK(c5) /\ FrameSet(c5) = FrameSet(c4) \cup {Frame("queues", o)}
    <2> HIDE DEF c1, c2, c3, c4
    <2>1. \A g \in FrameSet(c4) : g.o \in Callers(o) \/ (g.o = o /\ Step("queues") < Step(g.f))
      BY <1>1, <1>2, <1>3, <1>4, FrameFacts, StepFacts
    <2>2. QED
      BY <1>4, <2>1, StackPart DEF Frames
  <1>6. CASE o # "device"
    <2>1. Destructor(o) \o st = c3
      BY <1>0, <1>6 DEF Destructor, Cleanup, Frames
    <2>2. QED
      BY <2>1, <1>1, <1>2, <1>3, <1>6 DEF Parts
  <1>7. CASE o = "device"
    <2>1. Destructor(o) \o st = c5
      BY <1>0, <1>7 DEF Destructor, Cleanup, Frames
    <2>2. QED
      BY <2>1, <1>1, <1>2, <1>3, <1>4, <1>5, <1>7 DEF Parts
  <1>8. QED
    BY <1>6, <1>7

-----------------------------------------------------------------------------
(* Steps that leave the objects, the actions and the stack alone. *)
LEMMA SameObjects ==
    ASSUME WdfInv, UNCHANGED <<tree, cell, evtq, acts, linking, todo>>, flushing' \in BOOLEAN
    PROVE  /\ StackInv' /\ TreeInv' /\ QueueInv' /\ EventInv' /\ LinkInv'
           /\ Pending' = Pending /\ Doomed' = Doomed
  <1>1. Pending' = Pending
    BY DEF Pending, tree
  <1>2. Doomed' = Doomed
    BY <1>1 DEF Doomed
  <1>3. \A o, fs : Left(o, fs)' = Left(o, fs)
    BY <1>1, <1>2 DEF Left
  <1>4. StackInv'
    BY <1>1, <1>2 DEF WdfInv, StackInv, tree
  <1>5. TreeInv'
    BY <1>2, <1>3 DEF WdfInv, TreeInv, tree
  <1>6. QueueInv'
    BY <1>1, <1>2, <1>3 DEF WdfInv, QueueInv, tree
  <1>7. EventInv'
    BY <1>3 DEF WdfInv, EventInv, CellsLinked, ActsOwned, ActsOrder, tree
  <1>8. LinkInv'
    BY <1>1, <1>2 DEF WdfInv, LinkInv, tree
  <1>9. QED
    BY <1>1, <1>2, <1>4, <1>5, <1>6, <1>7, <1>8

LEMMA EmptyStack ==
    ASSUME todo = <<>>
    PROVE  Pending = {} /\ Doomed = {}
  BY DEF Pending, FrameSet, Doomed

LEMMA BrokenKeeps ==
    ASSUME WdfInv, NEW what \in Faults \ {"freed", "dead_parent"}, Broken(what)
    PROVE  WdfInv'
  <1>1. /\ UNCHANGED <<tree, cell, evtq, acts, linking, todo>> /\ flushing' \in BOOLEAN
        /\ UNCHANGED <<flushing, at, hw, opens>> /\ fault' = what
    BY DEF Broken, events, life, WdfInv, LinkInv
  <1>2. PlaceInv'
    BY <1>1, SameObjects DEF WdfInv, PlaceInv, tree
  <1>3. RestInv'
    BY <1>1 DEF WdfInv, RestInv
  <1>4. QED
    BY <1>1, <1>2, <1>3, SameObjects DEF WdfInv

(* The steps of the main thread between the calls that change objects. *)
LEMMA PlainSteps ==
    ASSUME WdfInv, fault = None,
           \/ tudor_init \/ QueryInterfaces \/ EvtDriverDeviceAdd \/ OpenPipeline
           \/ DeviceRemoved \/ DriverUnloaded \/ FlushBegins \/ FlushEnds
    PROVE  WdfInv'
  <1> DEFINE G == /\ UNCHANGED <<tree, cell, evtq, acts, linking, todo>> /\ UNCHANGED <<hw, opens, fault>>
                  /\ flushing' \in BOOLEAN /\ todo = <<>>
  <1>1. G
    <2>0. flushing \in BOOLEAN
      BY DEF WdfInv, LinkInv
    <2>1. CASE tudor_init
      BY <2>0, <2>1 DEF tudor_init, Idle, events
    <2>2. CASE QueryInterfaces
      BY <2>0, <2>2 DEF QueryInterfaces, Idle, events
    <2>3. CASE EvtDriverDeviceAdd
      BY <2>0, <2>3 DEF EvtDriverDeviceAdd, Idle, events
    <2>4. CASE OpenPipeline
      BY <2>0, <2>4 DEF OpenPipeline, Idle, events
    <2>5. CASE DeviceRemoved
      BY <2>0, <2>5 DEF DeviceRemoved, Idle, events
    <2>6. CASE DriverUnloaded
      BY <2>0, <2>6 DEF DriverUnloaded, Idle, events
    <2>7. CASE FlushBegins
      BY <2>7 DEF FlushBegins, life
    <2>8. CASE FlushEnds
      BY <2>8 DEF FlushEnds
    <2>9. QED
      BY <2>1, <2>2, <2>3, <2>4, <2>5, <2>6, <2>7, <2>8
  <1>2. Doomed' = {} /\ Doomed = {}
    BY <1>1, EmptyStack, SameObjects
  <1>3. at' \in Places
    BY DEF tudor_init, QueryInterfaces, EvtDriverDeviceAdd, OpenPipeline, DeviceRemoved,
           DriverUnloaded, FlushBegins, FlushEnds, Places, OpenFailed, life, WdfInv, RestInv
  <1>4. PlaceInv'
    <2>1. CASE tudor_init
      BY <1>1, <1>2, <2>1 DEF tudor_init, Idle, PlaceInv, WdfInv, tree, events
    <2>2. CASE QueryInterfaces
      BY <1>1, <1>2, <2>2 DEF QueryInterfaces, Idle, PlaceInv, WdfInv, tree, events
    <2>3. CASE EvtDriverDeviceAdd
      BY <1>1, <1>2, <2>3 DEF EvtDriverDeviceAdd, OpenFailed, Idle, PlaceInv, WdfInv, tree, events
    <2>4. CASE OpenPipeline
      BY <1>1, <1>2, <2>4 DEF OpenPipeline, Idle, PlaceInv, WdfInv, tree, events
    <2>5. CASE DeviceRemoved
      BY <1>1, <1>2, <2>5 DEF DeviceRemoved, Idle, PlaceInv, WdfInv, tree, events
    <2>6. CASE DriverUnloaded
      BY <1>1, <1>2, <2>6 DEF DriverUnloaded, Idle, PlaceInv, WdfInv, tree, events
    <2>7. CASE FlushBegins
      BY <1>1, <1>2, <2>7 DEF FlushBegins, PlaceInv, WdfInv, tree, life
    <2>8. CASE FlushEnds
      BY <1>1, <1>2, <2>8 DEF FlushEnds, PlaceInv, WdfInv, tree
    <2>9. QED
      BY <2>1, <2>2, <2>3, <2>4, <2>5, <2>6, <2>7, <2>8
  <1>5. RestInv'
    BY <1>1, <1>3 DEF WdfInv, RestInv
  <1>6. QED
    BY <1>1, <1>4, <1>5, SameObjects DEF WdfInv

-----------------------------------------------------------------------------
(* The main thread begins to destroy a file, the device or the driver. *)
LEMMA FirstFrame ==
    ASSUME NEW o \in Objects, todo' = <<Frame("destroy", o)>>
    PROVE  /\ StackOK(todo)'
           /\ Pending' = {Frame("destroy", o)} /\ Doomed' = {o}
           /\ \A p, fs : "destroy" \notin fs => ~Left(p, fs)'
           /\ \A fr \in Pending' : fr.f = "destroy" /\ fr.o = o
  <1>1. FrameSet(todo') = {Frame("destroy", o)} /\ todo' \in Seq(FrameRec)
    BY FrameFacts DEF FrameSet, Frames
  <1>2. Pending' = {Frame("destroy", o)} /\ Doomed' = {o}
    BY <1>1, FrameFacts DEF Pending, Doomed
  <1>3. StackOK(todo)'
    BY <1>1 DEF StackOK, FrameRec
  <1>4. \A fr \in Pending' : fr.f = "destroy" /\ fr.o = o
    BY <1>2, FrameFacts
  <1>5. \A p, fs : "destroy" \notin fs => ~Left(p, fs)'
    BY <1>2, <1>4 DEF Left
  <1>6. QED
    BY <1>2, <1>3, <1>4, <1>5

LEMMA ParentFacts ==
    ASSUME TreeInv, NEW o \in Objects
    PROVE  /\ parent[o] # None => parent[o] \in Callers(o)
           /\ parent[o] # o /\ parent[o] \in {None, "driver", "device", "file"}
  BY CallersFacts, KindFacts DEF TreeInv

LEMMA OnlyQueues ==
    ASSUME QueueInv, NEW o, Contains(queues, o)
    PROVE  o \in Queues
  <1>1. PICK i \in 1..Len(queues) : queues[i] = o
    BY DEF Contains
  <1>2. queues \in Seq(Queues)
    BY DEF QueueInv
  <1>3. QED
    BY <1>1, <1>2

LEMMA RootTree ==
    ASSUME WdfInv, todo = <<>>, NEW o \in alive, o \notin Queues, todo' = <<Frame("destroy", o)>>, UNCHANGED tree
    PROVE  /\ StackInv' /\ TreeInv' /\ QueueInv' /\ Doomed' = {o} /\ Doomed = {}
           /\ Pending' = {Frame("destroy", o)}
           /\ \A p, fs : "destroy" \notin fs => ~Left(p, fs)'
  <1>0. o \in Objects /\ Doomed = {}
    BY EmptyStack DEF WdfInv, TreeInv
  <1>1. /\ StackOK(todo)'
        /\ Pending' = {Frame("destroy", o)} /\ Doomed' = {o}
        /\ \A p, fs : "destroy" \notin fs => ~Left(p, fs)'
        /\ \A fr \in Pending' : fr.f = "destroy" /\ fr.o = o
    BY <1>0, FirstFrame
  <1>2. StackInv'
    BY <1>1 DEF StackInv, tree, WdfInv
  <1>3. TreeInv'
    BY <1>0, <1>1, ParentFacts DEF TreeInv, tree, WdfInv
  <1>4. QueueInv'
    <2>1. \A fr \in Pending' : ~Contains(queues, fr.o)
      BY <1>1, OnlyQueues DEF WdfInv
    <2>2. QED
      BY <2>1, <1>0, <1>1 DEF QueueInv, tree, WdfInv
  <1>5. QED
    BY <1>0, <1>1, <1>2, <1>3, <1>4

LEMMA RootDestroy ==
    ASSUME WdfInv, todo = <<>>, NEW o \in alive \ (Extras \cup Queues), todo' = <<Frame("destroy", o)>>,
           UNCHANGED <<tree, events>>
    PROVE  /\ StackInv' /\ TreeInv' /\ QueueInv' /\ EventInv' /\ LinkInv'
           /\ Doomed' = {o} /\ Doomed = {}
  <1>1. /\ StackInv' /\ TreeInv' /\ QueueInv' /\ Doomed' = {o} /\ Doomed = {}
        /\ Pending' = {Frame("destroy", o)} /\ \A p, fs : "destroy" \notin fs => ~Left(p, fs)'
    BY RootTree
  <1>2. EventInv'
    BY <1>1 DEF EventInv, CellsLinked, ActsOwned, ActsOrder, tree, events, WdfInv
  <1>3. LinkInv'
    BY <1>1 DEF LinkInv, events, WdfInv
  <1>4. QED
    BY <1>1, <1>2, <1>3

LEMMA RootSteps ==
    ASSUME WdfInv, fault = None,
           winwdf_close_file \/ winwdf_remove_device \/ winwdf_unload_driver
    PROVE  WdfInv'
  <1>1. CASE Idle("open") /\ at' = "file_gone" /\ todo' = <<Frame("destroy", "file")>>
             /\ UNCHANGED <<tree, events, hw, opens, fault>>
    <2>1. "file" \in alive \ (Extras \cup Queues) /\ "device" \in alive /\ "driver" \in alive
      BY <1>1, KindFacts DEF WdfInv, PlaceInv, QueueInv, Idle
    <2>2. /\ StackInv' /\ TreeInv' /\ QueueInv' /\ EventInv' /\ LinkInv'
          /\ Doomed' = {"file"}
      BY <1>1, <2>1, RootDestroy DEF Idle
    <2>3. PlaceInv'
      BY <1>1, <2>1, <2>2, KindFacts DEF WdfInv, PlaceInv, Idle, tree, events
    <2>4. RestInv'
      BY <1>1 DEF WdfInv, RestInv, Places
    <2>5. QED
      BY <2>2, <2>3, <2>4 DEF WdfInv
  <1>2. CASE Idle("file_gone") /\ at' = "device_gone" /\ todo' = <<Frame("destroy", "device")>>
             /\ UNCHANGED <<tree, events, hw, opens, fault>>
    <2>1. "device" \in alive \ (Extras \cup Queues) /\ "driver" \in alive
      BY <1>2, KindFacts DEF WdfInv, PlaceInv, Idle
    <2>2. /\ StackInv' /\ TreeInv' /\ QueueInv' /\ EventInv' /\ LinkInv'
          /\ Doomed' = {"device"}
      BY <1>2, <2>1, RootDestroy DEF Idle
    <2>3. PlaceInv'
      BY <1>2, <2>1, <2>2, KindFacts DEF WdfInv, PlaceInv, Idle, tree, events
    <2>4. RestInv'
      BY <1>2 DEF WdfInv, RestInv, Places
    <2>5. QED
      BY <2>2, <2>3, <2>4 DEF WdfInv
  <1>3. CASE at \in {"open", "closed"} /\ todo = <<>>
             /\ at' = "unload" /\ todo' = <<Frame("destroy", "driver")>>
             /\ UNCHANGED <<tree, events, hw, opens, fault>>
    <2>1. "driver" \in alive \ (Extras \cup Queues)
      BY <1>3, KindFacts DEF WdfInv, PlaceInv
    <2>2. /\ StackInv' /\ TreeInv' /\ QueueInv' /\ EventInv' /\ LinkInv'
          /\ Doomed' = {"driver"}
      BY <1>3, <2>1, RootDestroy
    <2>3. PlaceInv'
      BY <1>3, <2>1, <2>2, KindFacts DEF WdfInv, PlaceInv, tree, events
    <2>4. RestInv'
      BY <1>3 DEF WdfInv, RestInv, Places
    <2>5. QED
      BY <2>2, <2>3, <2>4 DEF WdfInv
  <1>4. QED
    BY <1>1, <1>2, <1>3 DEF winwdf_close_file, winwdf_remove_device, winwdf_unload_driver, Idle

-----------------------------------------------------------------------------
(* The event queue: the cell that an action is given. *)
LEMMA NatMin ==
    ASSUME NEW T, T \subseteq Nat, T # {}
    PROVE  \E x \in T : \A y \in T : x <= y
  <1> DEFINE R == {xy \in Nat \X Nat : xy[1] < xy[2]}
  <1>1. IsWellFoundedOn(R, Nat)
    BY NatLessThanWellFounded DEF OpToRel
  <1>2. \A x, y \in Nat : <<y, x>> \in R <=> y < x
    OBVIOUS
  <1> HIDE DEF R
  <1>3. PICK x \in T : \A y \in T : ~(<<y, x>> \in R)
    BY <1>1, WFMin
  <1>4. ASSUME NEW y \in T PROVE x <= y
    <2>1. x \in Nat /\ y \in Nat
      OBVIOUS
    <2>2. ~(y < x)
      BY <2>1, <1>2, <1>3
    <2>3. QED
      BY <2>1, <2>2
  <1>5. QED
    BY <1>4

LEMMA CellFacts ==
    ASSUME FreeCells # {}
    PROVE  Cell \in FreeCells
  <1>1. FreeCells \subseteq Nat
    BY DEF FreeCells, Cells
  <1>2. \E c \in FreeCells : \A d \in FreeCells : c <= d
    BY <1>1, NatMin
  <1>3. QED
    BY <1>2 DEF Cell

LEMMA FreeFacts ==
    ASSUME EventInv, LinkInv, NEW c \in FreeCells
    PROVE  /\ c \in Cells /\ cell[c].fn = None /\ cell[c].obj = None
           /\ ~Contains(evtq, c) /\ linking # c
           /\ \A o \in Objects : ~Contains(acts[o], c)
  <1>1. c \in Cells /\ cell[c].fn = None /\ cell[c].obj = None
    BY DEF FreeCells, Free
  <1>2. ~Contains(evtq, c)
    BY <1>1 DEF EventInv
  <1>3. c # 0
    BY <1>1 DEF Cells
  <1>4. linking # c
    BY <1>1, <1>3, KindFacts DEF LinkInv
  <1>5. \A o \in Objects : ~Contains(acts[o], c)
    BY <1>1, KindFacts DEF EventInv, ActsOwned
  <1>6. QED
    BY <1>1, <1>2, <1>4, <1>5

(* An action in front of the others. *)
LEMMA PublishFacts ==
    ASSUME EventInv, LinkInv, NEW c \in FreeCells, NEW o \in Objects,
           NEW fn \in {"call_cbs", "destroy"}, fn = "destroy" => o \in Extras, Publish(c, o, fn)
    PROVE  /\ cell' \in [Cells -> Acts] /\ evtq' \in Seq(Cells) /\ Once(evtq')
           /\ \A d \in Cells : Contains(evtq', d) <=> cell'[d].fn # None
           /\ \A d \in Cells : cell'[d].fn = None => cell'[d].obj = None
           /\ \A d \in Cells : cell'[d].fn = "destroy" => cell'[d].obj \in Extras \cup {None}
           /\ cell'[c].obj = o /\ \A d \in Cells : d # c => cell'[d] = cell[d]
           /\ Len(evtq') = Len(evtq) + 1 /\ evtq'[1] = c /\ Len(evtq) \in Nat
           /\ \A k \in 2..(Len(evtq) + 1) : evtq'[k] = evtq[k - 1] /\ k - 1 \in 1..Len(evtq)
           /\ \A k \in 1..Len(evtq) : evtq[k] \in Cells /\ evtq[k] # c
  <1>1. c \in Cells /\ ~Contains(evtq, c) /\ evtq \in Seq(Cells) /\ Once(evtq)
    BY FreeFacts DEF EventInv
  <1>2. evtq' = <<c>> \o evtq /\ cell' = [cell EXCEPT ![c] = [obj |-> o, fn |-> fn]]
    BY DEF Publish
  <1>3. /\ evtq' \in Seq(Cells) /\ Once(evtq')
        /\ \A x : Contains(evtq', x) <=> x = c \/ Contains(evtq, x)
    BY <1>1, <1>2, ConsFacts, ConsContains, ConsOnce
  <1>4. [obj |-> o, fn |-> fn] \in Acts /\ fn # None
    BY DEF Acts, None
  <1>5. /\ cell' \in [Cells -> Acts]
        /\ cell'[c] = [obj |-> o, fn |-> fn] /\ \A d \in Cells : d # c => cell'[d] = cell[d]
    BY <1>1, <1>2, <1>4 DEF EventInv
  <1>6. /\ Len(evtq') = Len(evtq) + 1 /\ evtq'[1] = c /\ Len(evtq) \in Nat
        /\ \A k \in 2..(Len(evtq) + 1) : evtq'[k] = evtq[k - 1] /\ k - 1 \in 1..Len(evtq)
    BY <1>1, <1>2, ConsFacts
  <1>7. \A k \in 1..Len(evtq) : evtq[k] \in Cells /\ evtq[k] # c
    BY <1>1 DEF Contains
  <1>8. ASSUME NEW d \in Cells
        PROVE  /\ Contains(evtq', d) <=> cell'[d].fn # None
               /\ cell'[d].fn = None => cell'[d].obj = None
               /\ cell'[d].fn = "destroy" => cell'[d].obj \in Extras \cup {None}
    <2>1. CASE d = c
      BY <2>1, <1>3, <1>4, <1>5
    <2>2. CASE d # c
      BY <2>2, <1>3, <1>5 DEF EventInv
    <2>3. QED
      BY <2>1, <2>2
  <1>9. cell'[c].obj = o /\ \A d \in Cells : d # c => cell'[d] = cell[d]
    BY <1>5
  <1>10. cell' \in [Cells -> Acts] /\ evtq' \in Seq(Cells) /\ Once(evtq')
    BY <1>3, <1>5
  <1>11. QED
    BY <1>6, <1>7, <1>8, <1>9, <1>10

(* The main thread publishes an action and links it to its object. *)
LEMMA EnqueueKeeps ==
    ASSUME WdfInv, NEW o \in Objects, NEW fn \in {"call_cbs", "destroy"}, fn = "destroy" => o \in Extras,
           EnqueueByMain(o, fn), UNCHANGED <<flushing, linking>>,
           o \in alive', \A c \in Cells : cell[c].obj # None => cell[c].obj \in alive',
           \A q \in Objects : Left(q, {"contexts"})' => acts[q] = <<>> /\ q # o,
           linking # 0 => cell[linking].obj # o /\ cell[linking].obj \notin Doomed',
           linking # 0 /\ "driver" \in Doomed' => Pending' = {Frame("destroy", "driver")}
    PROVE  EventInv' /\ LinkInv'
  <1>1. PICK c : c = Cell
    OBVIOUS
  <1>2. c \in FreeCells /\ Publish(c, o, fn) /\ acts' = [acts EXCEPT ![o] = <<c>> \o @]
    BY <1>1, CellFacts DEF EnqueueByMain
  <1>3. EventInv /\ LinkInv
    BY DEF WdfInv
  <1>0. CellsLinked /\ ActsOwned /\ ActsOrder
    BY <1>3 DEF EventInv
  <1>4. /\ cell' \in [Cells -> Acts] /\ evtq' \in Seq(Cells) /\ Once(evtq')
        /\ \A d \in Cells : Contains(evtq', d) <=> cell'[d].fn # None
        /\ \A d \in Cells : cell'[d].fn = None => cell'[d].obj = None
        /\ \A d \in Cells : cell'[d].fn = "destroy" => cell'[d].obj \in Extras \cup {None}
        /\ cell'[c].obj = o /\ \A d \in Cells : d # c => cell'[d] = cell[d]
        /\ Len(evtq') = Len(evtq) + 1 /\ evtq'[1] = c /\ Len(evtq) \in Nat
        /\ \A k \in 2..(Len(evtq) + 1) : evtq'[k] = evtq[k - 1] /\ k - 1 \in 1..Len(evtq)
        /\ \A k \in 1..Len(evtq) : evtq[k] \in Cells /\ evtq[k] # c
    BY <1>2, <1>3, PublishFacts
  <1>5. /\ c \in Cells /\ ~Contains(evtq, c) /\ linking # c
        /\ \A q \in Objects : ~Contains(acts[q], c)
    BY <1>2, <1>3, FreeFacts
  <1>6. acts \in [Objects -> Seq(Cells)] /\ acts[o] \in Seq(Cells)
    BY <1>3 DEF EventInv
  <1>7. /\ acts' \in [Objects -> Seq(Cells)] /\ acts'[o] = <<c>> \o acts[o]
        /\ \A q \in Objects : q # o => acts'[q] = acts[q]
    BY <1>2, <1>5, <1>6, ConsFacts
  <1>8. /\ \A x : Contains(acts'[o], x) <=> x = c \/ Contains(acts[o], x)
        /\ Len(acts'[o]) = Len(acts[o]) + 1 /\ acts'[o][1] = c /\ Len(acts[o]) \in Nat
        /\ \A k \in 2..(Len(acts[o]) + 1) : acts'[o][k] = acts[o][k - 1] /\ k - 1 \in 1..Len(acts[o])
    BY <1>5, <1>6, <1>7, ConsContains, ConsFacts
  <1>9. \A d \in Cells : cell'[d].obj # None =>
           cell'[d].obj \in alive' /\ (Contains(acts'[cell'[d].obj], d) \/ linking' = d)
    <2> SUFFICES ASSUME NEW d \in Cells, cell'[d].obj # None
                 PROVE  cell'[d].obj \in alive' /\ (Contains(acts'[cell'[d].obj], d) \/ linking' = d)
      OBVIOUS
    <2>1. CASE d = c
      BY <2>1, <1>4, <1>8
    <2>2. CASE d # c
      <3>1. cell'[d] = cell[d] /\ cell[d].obj \in Objects
        BY <2>2, <1>4, <1>3 DEF EventInv, Acts
      <3>2. Contains(acts[cell[d].obj], d) \/ linking = d
        BY <3>1, <1>3 DEF EventInv, CellsLinked
      <3>3. cell[d].obj \in alive'
        BY <3>1
      <3>4. Contains(acts[cell[d].obj], d) => Contains(acts'[cell[d].obj], d)
        BY <3>1, <1>7, <1>8
      <3>5. QED
        BY <3>1, <3>2, <3>3, <3>4
    <2>3. QED
      BY <2>1, <2>2
  <1>10. \A q \in Objects, d \in Cells : Contains(acts'[q], d) => cell'[d].obj = q /\ linking' # d
    <2> SUFFICES ASSUME NEW q \in Objects, NEW d \in Cells, Contains(acts'[q], d)
                 PROVE  cell'[d].obj = q /\ linking' # d
      OBVIOUS
    <2>1. CASE Contains(acts[q], d)
      <3>1. cell[d].obj = q /\ linking # d /\ d # c
        BY <2>1, <1>3, <1>5 DEF EventInv, ActsOwned
      <3>2. QED
        BY <3>1, <1>4
    <2>2. CASE ~Contains(acts[q], d)
      <3>1. q = o /\ d = c
        BY <2>2, <1>7, <1>8
      <3>2. QED
        BY <3>1, <1>4, <1>5
    <2>3. QED
      BY <2>1, <2>2
  <1>11. ASSUME NEW q \in Objects, NEW i \in 1..Len(acts'[q]), NEW j \in 1..Len(acts'[q]),
                NEW k \in 1..Len(evtq'), NEW l \in 1..Len(evtq'),
                i < j, evtq'[k] = acts'[q][i], evtq'[l] = acts'[q][j]
         PROVE  k < l
    <2>1. acts[q] \in Seq(Cells) /\ Len(acts[q]) \in Nat
      BY <1>6
    <2>2. CASE q # o
      <3>1. acts'[q] = acts[q] /\ acts[q][i] # c /\ acts[q][j] # c
        BY <2>2, <1>5, <1>7 DEF Contains
      <3>2. k \in 2..(Len(evtq) + 1) /\ l \in 2..(Len(evtq) + 1)
        BY <3>1, <1>4, <1>11
      <3>3. /\ k - 1 \in 1..Len(evtq) /\ l - 1 \in 1..Len(evtq)
            /\ evtq[k - 1] = acts[q][i] /\ evtq[l - 1] = acts[q][j]
        BY <3>1, <3>2, <1>4, <1>11
      <3>6. i \in 1..Len(acts[q]) /\ j \in 1..Len(acts[q])
        BY <3>1
      <3>7. \A a, b \in 1..Len(evtq) : evtq[a] = acts[q][i] /\ evtq[b] = acts[q][j] => a < b
        BY <3>6, <1>0, <1>11 DEF ActsOrder
      <3>4. k - 1 < l - 1
        BY <3>3, <3>7
      <3>5. QED
        BY <3>2, <3>4
    <2>3. CASE q = o
      <3>1. j \in 2..(Len(acts[o]) + 1)
        BY <2>3, <1>8, <1>11
      <3>2. acts'[q][j] = acts[o][j - 1] /\ j - 1 \in 1..Len(acts[o]) /\ acts[o][j - 1] # c
        BY <2>3, <3>1, <1>5, <1>8 DEF Contains
      <3>3. l \in 2..(Len(evtq) + 1) /\ evtq[l - 1] = acts[o][j - 1] /\ l - 1 \in 1..Len(evtq)
        BY <3>2, <1>4, <1>11
      <3>4. CASE i = 1
        <4>1. evtq'[k] = c
          BY <3>4, <2>3, <1>8, <1>11
        <4>2. k = 1
          <5>1. k = 1 \/ k \in 2..(Len(evtq) + 1)
            BY <1>4
          <5>2. QED
            BY <5>1, <4>1, <1>4
        <4>3. QED
          BY <3>3, <4>2
      <3>5. CASE i # 1
        <4>1. i \in 2..(Len(acts[o]) + 1)
          BY <3>5, <2>3, <1>8
        <4>2. acts'[q][i] = acts[o][i - 1] /\ i - 1 \in 1..Len(acts[o]) /\ acts[o][i - 1] # c
          BY <2>3, <4>1, <1>5, <1>8 DEF Contains
        <4>3. k \in 2..(Len(evtq) + 1) /\ evtq[k - 1] = acts[o][i - 1] /\ k - 1 \in 1..Len(evtq)
          BY <4>2, <1>4, <1>11
        <4>4. i - 1 < j - 1
          BY <3>1, <4>1, <1>11
        <4>7. \A a, b \in 1..Len(evtq) : evtq[a] = acts[o][i - 1] /\ evtq[b] = acts[o][j - 1] => a < b
          <5>1. \A m, n \in 1..Len(acts[o]) : m < n => \A a, b \in 1..Len(evtq) :
                   evtq[a] = acts[o][m] /\ evtq[b] = acts[o][n] => a < b
            BY <1>0 DEF ActsOrder
          <5>2. QED
            BY <5>1, <4>2, <3>2, <4>4
        <4>5. k - 1 < l - 1
          BY <4>3, <3>3, <4>7
        <4>6. QED
          BY <3>3, <4>3, <4>5
      <3>6. QED
        BY <3>4, <3>5
    <2>4. QED
      BY <2>2, <2>3
  <1>12. \A q \in Objects : Left(q, {"contexts"})' => acts'[q] = <<>>
    BY <1>7
  <1>17. ActsOrder' /\ ActsOwned' /\ CellsLinked'
    <2>1. ActsOrder'
      BY <1>11 DEF ActsOrder
    <2>2. ActsOwned'
      BY <1>10 DEF ActsOwned
    <2>3. CellsLinked'
      BY <1>9 DEF CellsLinked
    <2>4. QED
      BY <2>1, <2>2, <2>3
  <1>13. EventInv'
    BY <1>4, <1>7, <1>12, <1>17 DEF EventInv
  <1>14. ASSUME linking # 0, NEW k \in 1..Len(evtq'), NEW l \in 1..Len(evtq'),
                evtq'[k] = linking, cell'[evtq'[l]].obj = cell'[linking].obj
         PROVE  k <= l
    <2>1. linking \in Cells /\ cell'[linking] = cell[linking]
      BY <1>14, <1>3, <1>4, <1>5 DEF LinkInv
    <2>2. k \in 2..(Len(evtq) + 1) /\ evtq'[l] # c
      BY <2>1, <1>4, <1>5, <1>14
    <2>3. l \in 2..(Len(evtq) + 1)
      BY <2>2, <1>4
    <2>4. /\ k - 1 \in 1..Len(evtq) /\ l - 1 \in 1..Len(evtq) /\ evtq[k - 1] = linking
          /\ cell[evtq[l - 1]].obj = cell[linking].obj
      BY <2>1, <2>2, <2>3, <1>4, <1>14
    <2>5. k - 1 <= l - 1
      BY <2>4, <1>3, <1>14 DEF LinkInv
    <2>6. QED
      BY <2>2, <2>3, <2>5
  <1>15. LinkInv'
    <2>1. linking # 0 => cell'[linking] = cell[linking]
      BY <1>3, <1>4, <1>5 DEF LinkInv
    <2>2. QED
      BY <2>1, <1>3, <1>14 DEF LinkInv
  <1>16. QED
    BY <1>13, <1>15

-----------------------------------------------------------------------------
(* o is new, at the head of the list of its parent p. *)
Created(o, p) ==
    /\ alive' = alive \cup {o} /\ dead' = dead \ {o}
    /\ parent' \in [Objects -> Objects \cup {None}] /\ kids' \in [Objects -> Seq(Objects)]
    /\ parent'[o] = p /\ \A x \in Objects : x # o => parent'[x] = parent[x]
    /\ kids'[o] = <<>> /\ kids'[p] = <<o>> \o kids[p] /\ p # o
    /\ \A x \in Objects : x # o /\ x # p => kids'[x] = kids[x]
    /\ \A x \in Objects : Once(kids'[x])
    /\ \A x \in alive' : \A k \in Objects : Contains(kids'[x], k) => k \in alive' /\ parent'[k] = x
    /\ \A x \in alive' : parent'[x] # None => parent'[x] \in alive' /\ Contains(kids'[parent'[x]], x)
    /\ \A x \in Objects : parent'[x] \in Parents(x)

LEMMA CreateTree ==
    ASSUME WdfInv, NEW o \in Objects \ alive, NEW p \in alive, p \in Parents(o), wdf_create_obj(o, p)
    PROVE  Created(o, p) /\ o \notin Doomed
  <1>0. TreeInv /\ o \notin Doomed /\ p \in Objects /\ p # o
    BY DEF WdfInv, StackInv, TreeInv
  <1>1. /\ alive' = alive \cup {o} /\ dead' = dead \ {o}
        /\ parent' = [parent EXCEPT ![o] = p]
        /\ kids' = [x \in Objects |-> CASE x = o -> <<>> [] x = p -> <<o>> \o kids[p] [] OTHER -> kids[x]]
    BY DEF wdf_create_obj
  <1>2. /\ parent' \in [Objects -> Objects \cup {None}]
        /\ parent'[o] = p /\ \A x \in Objects : x # o => parent'[x] = parent[x]
    BY <1>0, <1>1 DEF TreeInv
  <1>3. kids \in [Objects -> Seq(Objects)] /\ kids[p] \in Seq(Objects) /\ <<o>> \o kids[p] \in Seq(Objects)
    BY <1>0, ConsFacts DEF TreeInv
  <1>4. /\ kids'[o] = <<>> /\ kids'[p] = <<o>> \o kids[p]
        /\ \A x \in Objects : x # o /\ x # p => kids'[x] = kids[x]
    BY <1>0, <1>1
  <1>5. kids' \in [Objects -> Seq(Objects)]
    BY <1>0, <1>1, <1>3
  <1>6. \A x : Contains(kids'[p], x) <=> x = o \/ Contains(kids[p], x)
    BY <1>3, <1>4, ConsContains
  <1>7. ~Contains(kids[p], o)
    BY <1>0 DEF TreeInv
  <1>8. \A x \in Objects : Once(kids'[x])
    <2>1. Once(kids'[p])
      BY <1>0, <1>3, <1>4, <1>7, ConsOnce DEF TreeInv
    <2>2. Once(kids'[o])
      BY <1>4 DEF Once
    <2>3. QED
      BY <2>1, <2>2, <1>0, <1>4 DEF TreeInv
  <1>9. \A x : ~Contains(kids'[o], x)
    BY <1>4 DEF Contains
  <1>10. ASSUME NEW x \in alive', NEW k \in Objects, Contains(kids'[x], k)
         PROVE  k \in alive' /\ parent'[k] = x
    <2>1. x # o
      BY <1>9, <1>10
    <2>2. CASE x = p /\ k = o
      BY <2>2, <1>1, <1>2
    <2>3. CASE ~(x = p /\ k = o)
      <3>1. x \in alive /\ x \in Objects /\ Contains(kids[x], k)
        BY <2>1, <2>3, <1>0, <1>1, <1>4, <1>6, <1>10 DEF TreeInv
      <3>2. k \in alive /\ parent[k] = x
        BY <3>1, <1>0 DEF TreeInv
      <3>3. QED
        BY <3>2, <1>1, <1>2
    <2>4. QED
      BY <2>2, <2>3
  <1>11. ASSUME NEW x \in alive', parent'[x] # None
         PROVE  parent'[x] \in alive' /\ Contains(kids'[parent'[x]], x)
    <2>1. CASE x = o
      BY <2>1, <1>1, <1>2, <1>6
    <2>2. CASE x # o
      <3>1. x \in alive /\ x \in Objects /\ parent'[x] = parent[x]
        BY <2>2, <1>0, <1>1, <1>2 DEF TreeInv
      <3>2. parent[x] \in alive /\ Contains(kids[parent[x]], x)
        BY <3>1, <1>0, <1>11 DEF TreeInv
      <3>3. parent[x] \in Objects /\ parent[x] # o
        BY <3>2, <1>0 DEF TreeInv
      <3>4. QED
        BY <3>1, <3>2, <3>3, <1>1, <1>4, <1>6
    <2>3. QED
      BY <2>1, <2>2
  <1>12. \A x \in Objects : parent'[x] \in Parents(x)
    BY <1>0, <1>2 DEF TreeInv
  <1>13. QED
    BY <1>0, <1>1, <1>2, <1>4, <1>5, <1>8, <1>10, <1>11, <1>12 DEF Created

LEMMA CreateKeeps ==
    ASSUME WdfInv, NEW o \in Objects \ alive, o # "create", NEW p \in alive \ Doomed, p \in Parents(o),
           wdf_create_obj(o, p), todo' = todo,
           o \in Queues => "device" \in alive \ Doomed /\ queues' = <<o>> \o queues,
           o \notin Queues => queues' = queues,
           o = "device" => Queues \cap alive = {}
    PROVE  StackInv' /\ TreeInv' /\ QueueInv' /\ Pending' = Pending /\ Doomed' = Doomed
  <1>1. /\ alive' = alive \cup {o} /\ dead' = dead \ {o}
        /\ parent' \in [Objects -> Objects \cup {None}] /\ kids' \in [Objects -> Seq(Objects)]
        /\ parent'[o] = p /\ \A x \in Objects : x # o => parent'[x] = parent[x]
        /\ kids'[o] = <<>> /\ kids'[p] = <<o>> \o kids[p] /\ p # o
        /\ \A x \in Objects : x # o /\ x # p => kids'[x] = kids[x]
        /\ \A x \in Objects : Once(kids'[x])
        /\ \A x \in alive' : \A k \in Objects : Contains(kids'[x], k) => k \in alive' /\ parent'[k] = x
        /\ \A x \in alive' : parent'[x] # None => parent'[x] \in alive' /\ Contains(kids'[parent'[x]], x)
        /\ \A x \in Objects : parent'[x] \in Parents(x)
        /\ o \notin Doomed
    BY CreateTree DEF Created
  <1>2. StackInv /\ TreeInv /\ QueueInv /\ Doomed \subseteq alive
    BY DEF WdfInv, StackInv
  <1>3. Pending' = Pending
    BY DEF Pending
  <1>4. Doomed' = Doomed
    BY <1>3 DEF Doomed
  <1>5. \A x, fs : Left(x, fs)' = Left(x, fs)
    BY <1>3, <1>4 DEF Left
  <1>6. StackInv'
    BY <1>1, <1>2, <1>3, <1>4 DEF StackInv
  <1>7. TreeInv'
    <2>1. alive' \subseteq Objects /\ dead' \subseteq Objects
      <3>1. alive \subseteq Objects /\ dead \subseteq Objects
        BY <1>2 DEF TreeInv
      <3>2. alive' = alive \cup {o} /\ dead' = dead \ {o}
        BY <1>1
      <3>3. QED
        BY <3>1, <3>2
    <2>2. \A x \in alive' : parent'[x] = None /\ x # "driver" => x \in Doomed'
      <3>1. p # None
        BY <1>2, KindFacts DEF TreeInv
      <3>2. QED
        BY <3>1, <1>1, <1>2, <1>4 DEF TreeInv
    <2>3. \A x \in Doomed' : parent'[x] \notin Doomed'
      BY <1>1, <1>2, <1>4 DEF TreeInv
    <2>4. dead' \cap alive' \subseteq Doomed'
      BY <1>1, <1>2, <1>4 DEF TreeInv
    <2>5. \A x \in Objects : Left(x, {"unlink", "contexts"})' => kids'[x] = <<>>
      <3> SUFFICES ASSUME NEW x \in Objects, Left(x, {"unlink", "contexts"}) PROVE kids'[x] = <<>>
        BY <1>5
      <3>1. x \in Doomed
        BY DEF Left
      <3>2. x # o /\ x # p
        BY <3>1, <1>1
      <3>3. QED
        BY <3>2, <1>1, <1>2 DEF TreeInv
    <2>6. \A x \in Objects : Left(x, {"contexts"})' => parent'[x] = None
      <3> SUFFICES ASSUME NEW x \in Objects, Left(x, {"contexts"}) PROVE parent'[x] = None
        BY <1>5
      <3>1. x \in Doomed
        BY DEF Left
      <3>2. x # o
        BY <3>1, <1>1
      <3>3. QED
        BY <3>2, <1>1, <1>2 DEF TreeInv
    <2>7. "create" \in alive' => "create" \in Doomed'
      BY <1>1, <1>2, <1>4 DEF TreeInv
    <2>8. QED
      BY <2>1, <2>2, <2>3, <2>4, <2>5, <2>6, <2>7, <1>1 DEF TreeInv
  <1>8. QueueInv'
    <2>0. queues \in Seq(Queues) /\ Once(queues) /\ \A q \in Queues : Contains(queues, q) => q \in alive
      BY <1>2 DEF QueueInv
    <2>1. /\ queues' \in Seq(Queues) /\ Once(queues')
          /\ \A x : Contains(queues', x) <=> Contains(queues, x) \/ (o \in Queues /\ x = o)
      <3>1. CASE o \in Queues
        <4>1. ~Contains(queues, o)
          BY <2>0, <3>1
        <4>2. queues' = <<o>> \o queues
          BY <3>1
        <4>3. queues' \in Seq(Queues) /\ Once(queues')
          BY <2>0, <3>1, <4>1, <4>2, ConsFacts, ConsOnce
        <4>4. \A x : Contains(queues', x) <=> x = o \/ Contains(queues, x)
          BY <2>0, <3>1, <4>2, ConsContains
        <4>5. QED
          BY <3>1, <4>3, <4>4
      <3>2. CASE o \notin Queues
        BY <2>0, <3>2
      <3>3. QED
        BY <3>1, <3>2
    <2>2. \A q \in Queues : Contains(queues', q) => q \in alive'
      BY <2>0, <2>1, <1>1
    <2>3. \A q \in Queues \cap alive' : Contains(queues', q) \/ q \in Doomed'
      BY <2>1, <1>1, <1>2, <1>4 DEF QueueInv
    <2>4. \A fr \in Pending' : fr.f # "destroy" \/ "driver" \notin Doomed' => ~Contains(queues', fr.o)
      <3> SUFFICES ASSUME NEW fr \in Pending, fr.f # "destroy" \/ "driver" \notin Doomed
                   PROVE  ~Contains(queues', fr.o)
        BY <1>3, <1>4
      <3>1. fr.o # o
        BY <1>1 DEF Doomed
      <3>2. ~Contains(queues, fr.o)
        BY <1>2 DEF QueueInv
      <3>3. QED
        BY <3>1, <3>2, <2>1
    <2>5. "device" \notin alive' => "file" \notin alive' /\ Queues \cap alive' = {}
      <3> SUFFICES ASSUME "device" \notin alive' PROVE "file" \notin alive' /\ Queues \cap alive' = {}
        OBVIOUS
      <3>1. "device" \notin alive /\ o \notin Queues
        BY <1>1
      <3>2. o # "file"
        BY <3>1, <1>2, KindFacts DEF TreeInv
      <3>3. QED
        BY <3>1, <3>2, <1>1, <1>2 DEF QueueInv
    <2>6. Left("device", {"removal", "children", "unlink", "contexts"})' => queues' = <<>>
      <3> SUFFICES ASSUME Left("device", {"removal", "children", "unlink", "contexts"}) PROVE queues' = <<>>
        BY <1>5
      <3>1. "device" \in Doomed
        BY DEF Left
      <3>2. o \notin Queues
        BY <3>1
      <3>3. QED
        BY <3>2, <1>2 DEF QueueInv
    <2>7. {"driver", "device"} \subseteq Doomed' => Queues \cap alive' = {}
      BY <1>1, <1>2, <1>4 DEF QueueInv
    <2>8. ASSUME NEW i \in 1..Len(kids'["driver"]), NEW j \in 1..Len(kids'["driver"]),
                 kids'["driver"][i] \in Queues, kids'["driver"][j] = "device"
          PROVE  i < j
      <3>0. "driver" \in Objects /\ kids["driver"] \in Seq(Objects)
        BY <1>2 DEF Objects, TreeInv
      <3>1. o # "driver"
        BY <1>2, KindFacts DEF TreeInv
      <3>2. CASE p # "driver"
        <4>1. kids'["driver"] = kids["driver"]
          BY <3>0, <3>1, <3>2, <1>1
        <4>2. QED
          BY <4>1, <2>8, <1>2 DEF QueueInv
      <3>3. CASE p = "driver"
        <4>1. /\ Len(kids'["driver"]) = Len(kids["driver"]) + 1 /\ kids'["driver"][1] = o
              /\ Len(kids["driver"]) \in Nat
              /\ \A k \in 2..(Len(kids["driver"]) + 1) :
                    kids'["driver"][k] = kids["driver"][k - 1] /\ k - 1 \in 1..Len(kids["driver"])
          BY <3>0, <3>3, <1>1, ConsFacts
        <4>2. CASE j = 1
          <5>1. o = "device"
            BY <4>1, <4>2, <2>8
          <5>2. "driver" \in alive /\ Queues \cap alive = {} /\ i # 1
            BY <5>1, <3>3, <4>1, <2>8, KindFacts
          <5>3. i \in 2..(Len(kids["driver"]) + 1)
            BY <4>1, <5>2
          <5>4. i - 1 \in 1..Len(kids["driver"]) /\ kids["driver"][i - 1] \in Queues
            BY <4>1, <5>3, <2>8
          <5>5. Contains(kids["driver"], kids'["driver"][i]) /\ kids'["driver"][i] \in Objects
            BY <4>1, <5>3, <5>4, <2>8 DEF Contains, Objects
          <5>6. QED
            BY <5>2, <5>5, <2>8, <1>2 DEF TreeInv
        <4>3. CASE i = 1 /\ j # 1
          BY <4>1, <4>3
        <4>4. CASE i # 1 /\ j # 1
          <5>1. i \in 2..(Len(kids["driver"]) + 1) /\ j \in 2..(Len(kids["driver"]) + 1)
            BY <4>1, <4>4
          <5>2. \A a, b \in 1..Len(kids["driver"]) :
                   kids["driver"][a] \in Queues /\ kids["driver"][b] = "device" => a < b
            BY <1>2 DEF QueueInv
          <5>3. i - 1 < j - 1
            BY <4>1, <5>1, <5>2, <2>8
          <5>4. QED
            BY <5>1, <5>3
        <4>5. QED
          BY <4>2, <4>3, <4>4
      <3>4. QED
        BY <3>2, <3>3
    <2>9. QED
      BY <2>1, <2>2, <2>3, <2>4, <2>5, <2>6, <2>7, <2>8 DEF QueueInv
  <1>9. QED
    BY <1>3, <1>4, <1>6, <1>7, <1>8

(* What a new object leaves of the event queue. *)
LEMMA EventsKept ==
    ASSUME WdfInv, UNCHANGED events, alive \subseteq alive',
           \A x, fs : Left(x, fs)' => Left(x, fs), Pending' = Pending, Doomed' = Doomed
    PROVE  EventInv' /\ LinkInv'
  <1>1. EventInv /\ LinkInv /\ UNCHANGED <<cell, evtq, acts, flushing, linking>>
    BY DEF WdfInv, events
  <1>2. CellsLinked' /\ ActsOwned' /\ ActsOrder'
    BY <1>1 DEF EventInv, CellsLinked, ActsOwned, ActsOrder
  <1>3. EventInv'
    BY <1>1, <1>2 DEF EventInv
  <1>4. LinkInv'
    BY <1>1 DEF LinkInv
  <1>5. QED
    BY <1>3, <1>4

LEMMA SameStack ==
    ASSUME todo' = todo
    PROVE  Pending' = Pending /\ Doomed' = Doomed /\ \A x, fs : Left(x, fs)' = Left(x, fs)
  <1>1. Pending' = Pending
    BY DEF Pending
  <1>2. Doomed' = Doomed
    BY <1>1 DEF Doomed
  <1>3. QED
    BY <1>1, <1>2 DEF Left

LEMMA QueueCreated ==
    ASSUME WdfInv, fault = None, NEW q \in Queues, WdfIoQueueCreate(q)
    PROVE  WdfInv'
  <1>1. /\ todo = <<>> /\ at = "adding" /\ q \notin alive /\ wdf_create_obj(q, "driver")
        /\ queues' = <<q>> \o queues /\ UNCHANGED <<events, life, todo, fault>>
    BY DEF WdfIoQueueCreate, Idle, wdf_add_device_queue
  <1>2. Doomed = {} /\ "driver" \in alive /\ "device" \in alive
    BY <1>1, EmptyStack DEF WdfInv, PlaceInv
  <1>3. q \in Objects \ alive /\ q \notin {"create", "device", "driver", "file"} /\ "driver" \in Parents(q)
    BY <1>1, KindFacts DEF Objects
  <1>4. StackInv' /\ TreeInv' /\ QueueInv' /\ Pending' = Pending /\ Doomed' = Doomed
    BY <1>1, <1>2, <1>3, CreateKeeps
  <1>5. alive' = alive \cup {q}
    BY <1>1 DEF wdf_create_obj
  <1>6. EventInv' /\ LinkInv'
    BY <1>1, <1>4, <1>5, SameStack, EventsKept
  <1>7. PlaceInv'
    BY <1>1, <1>2, <1>3, <1>4, <1>5 DEF WdfInv, PlaceInv, events, life
  <1>8. RestInv'
    BY <1>1 DEF WdfInv, RestInv, life
  <1>9. QED
    BY <1>4, <1>6, <1>7, <1>8 DEF WdfInv

LEMMA ExtraCreated ==
    ASSUME WdfInv, fault = None, NEW x \in Extras, CreateObject(x)
    PROVE  WdfInv'
  <1>1. DllRuns /\ x \notin alive
    BY DEF CreateObject
  <1>2. "driver" \in alive /\ "driver" \notin Doomed
    BY <1>1 DEF DllRuns, WdfInv, PlaceInv
  <1>3. "driver" \notin dead
    BY <1>2 DEF WdfInv, TreeInv
  <1>4. wdf_create_obj(x, "driver") /\ UNCHANGED <<queues, events, life, todo, fault>>
    BY <1>3 DEF CreateObject
  <1>5. /\ x \in Objects \ alive /\ x \notin {"create", "device", "driver", "file"}
        /\ "driver" \in Parents(x) /\ x \notin Queues
    BY <1>1, KindFacts DEF Objects
  <1>6. StackInv' /\ TreeInv' /\ QueueInv' /\ Pending' = Pending /\ Doomed' = Doomed
    BY <1>2, <1>4, <1>5, CreateKeeps
  <1>7. alive' = alive \cup {x}
    BY <1>4 DEF wdf_create_obj
  <1>8. EventInv' /\ LinkInv'
    BY <1>4, <1>6, <1>7, SameStack, EventsKept
  <1>9. at \notin {"init", "entry", "unload", "gone", "exit"}
    BY <1>1 DEF DllRuns
  <1>10. PlaceInv'
    BY <1>4, <1>5, <1>6, <1>7, <1>9 DEF WdfInv, PlaceInv, events, life
  <1>11. RestInv'
    BY <1>4 DEF WdfInv, RestInv, life
  <1>12. QED
    BY <1>6, <1>8, <1>10, <1>11 DEF WdfInv

LEMMA DeviceCreated ==
    ASSUME WdfInv, fault = None, WdfDeviceCreate
    PROVE  WdfInv'
  <1>1. /\ todo = <<>> /\ at = "closed" /\ opens < MaxOpens /\ wdf_create_obj("device", "driver")
        /\ queues' = <<>> /\ EnqueueByMain("device", "call_cbs") /\ at' = "adding" /\ opens' = opens + 1
        /\ UNCHANGED <<flushing, linking, hw, todo, fault>>
    BY DEF WdfDeviceCreate, Idle
  <1>2. Doomed = {} /\ Pending = {} /\ "driver" \in alive /\ "device" \notin alive
    BY <1>1, EmptyStack DEF WdfInv, PlaceInv
  <1>3. Queues \cap alive = {} /\ "file" \notin alive
    BY <1>2 DEF WdfInv, QueueInv
  <1>4. queues = <<>>
    <2>1. queues \in Seq(Queues) /\ \A q \in Queues : Contains(queues, q) => q \in alive
      BY DEF WdfInv, QueueInv
    <2> SUFFICES ASSUME queues # <<>> PROVE FALSE
      OBVIOUS
    <2>2. 1 \in 1..Len(queues) /\ queues[1] \in Queues
      BY <2>1
    <2>3. QED
      BY <2>1, <2>2, <1>3 DEF Contains
  <1>5. "device" \in Objects \ alive /\ "device" \notin Queues /\ "driver" \in Parents("device")
    BY <1>2, KindFacts DEF Objects
  <1>6. StackInv' /\ TreeInv' /\ QueueInv' /\ Pending' = Pending /\ Doomed' = Doomed
    BY <1>1, <1>2, <1>3, <1>4, <1>5, CreateKeeps
  <1>7. alive' = alive \cup {"device"}
    BY <1>1 DEF wdf_create_obj
  <1>8. EventInv' /\ LinkInv'
    <2>1. \A c \in Cells : cell[c].obj # None => cell[c].obj \in alive'
      BY <1>7 DEF WdfInv, EventInv, CellsLinked
    <2>2. \A x : ~Left(x, {"contexts"})'
      BY <1>2, <1>6 DEF Left
    <2>3. linking # 0 => cell[linking].obj # "device"
      BY KindFacts DEF WdfInv, LinkInv
    <2>4. "device" \in Objects /\ "device" \in alive' /\ "call_cbs" # "destroy"
      BY <1>5, <1>7
    <2>5. QED
      BY <2>1, <2>2, <2>3, <2>4, <1>1, <1>2, <1>6, EnqueueKeeps
  <1>9. PlaceInv'
    <2>1. ~flushing
      BY <1>1 DEF WdfInv, PlaceInv
    <2>2. QED
      BY <2>1, <1>1, <1>2, <1>6, <1>7 DEF PlaceInv
  <1>10. RestInv'
    <2>1. opens' \in 0..MaxOpens
      BY <1>1, ObjectsAssumption DEF WdfInv, RestInv
    <2>2. QED
      BY <2>1, <1>1 DEF WdfInv, RestInv, Places
  <1>11. QED
    BY <1>6, <1>8, <1>9, <1>10 DEF WdfInv

LEMMA FileCreated ==
    ASSUME WdfInv, fault = None, winwdf_open_device, "file" \notin alive
    PROVE  WdfInv'
  <1>1. /\ todo = <<>> /\ at = "create" /\ wdf_create_obj("file", "device")
        /\ UNCHANGED <<at, todo, queues, events, hw, opens, fault>>
    BY DEF winwdf_open_device, Idle
  <1>2. Doomed = {} /\ "device" \in alive /\ "driver" \in alive
    BY <1>1, EmptyStack DEF WdfInv, PlaceInv
  <1>3. "file" \in Objects \ alive /\ "file" \notin Queues /\ "device" \in Parents("file")
    BY KindFacts DEF Objects
  <1>4. StackInv' /\ TreeInv' /\ QueueInv' /\ Pending' = Pending /\ Doomed' = Doomed
    BY <1>1, <1>2, <1>3, CreateKeeps
  <1>5. alive' = alive \cup {"file"}
    BY <1>1 DEF wdf_create_obj
  <1>6. EventInv' /\ LinkInv'
    BY <1>1, <1>4, <1>5, SameStack, EventsKept
  <1>7. PlaceInv'
    BY <1>1, <1>2, <1>4, <1>5 DEF WdfInv, PlaceInv, events
  <1>8. RestInv'
    BY <1>1 DEF WdfInv, RestInv
  <1>9. QED
    BY <1>4, <1>6, <1>7, <1>8 DEF WdfInv

(* The create request, destroyed at once. *)
LEMMA RequestCreated ==
    ASSUME WdfInv, fault = None, winwdf_open_device, "file" \in alive
    PROVE  WdfInv'
  <1>1. /\ todo = <<>> /\ at = "create" /\ wdf_create_obj("create", "file")
        /\ at' \in {"pipeline", "exit", "failed"} /\ todo' = <<Frame("destroy", "create")>>
        /\ UNCHANGED <<queues, events, hw, opens, fault>>
    BY DEF winwdf_open_device, Idle, OpenFailed
  <1>2. Doomed = {} /\ Pending = {} /\ "device" \in alive /\ "driver" \in alive /\ "create" \notin alive
    BY <1>1, EmptyStack DEF WdfInv, PlaceInv, TreeInv
  <1>3. "create" \in Objects \ alive /\ "create" \notin Queues \cup Extras /\ "file" \in Parents("create")
    BY <1>2, KindFacts DEF Objects
  <1>4. /\ alive' = alive \cup {"create"} /\ dead' = dead \ {"create"}
        /\ parent' \in [Objects -> Objects \cup {None}] /\ kids' \in [Objects -> Seq(Objects)]
        /\ parent'["create"] = "file" /\ \A x \in Objects : x # "create" => parent'[x] = parent[x]
        /\ \A x \in Objects : x # "create" /\ x # "file" => kids'[x] = kids[x]
        /\ \A x \in Objects : Once(kids'[x])
        /\ \A x \in alive' : \A k \in Objects : Contains(kids'[x], k) => k \in alive' /\ parent'[k] = x
        /\ \A x \in alive' : parent'[x] # None => parent'[x] \in alive' /\ Contains(kids'[parent'[x]], x)
        /\ \A x \in Objects : parent'[x] \in Parents(x)
    <2>1. Created("create", "file")
      BY <1>1, <1>3, CreateTree
    <2>2. QED
      BY <2>1 DEF Created
  <1>5. /\ StackOK(todo)'
        /\ Pending' = {Frame("destroy", "create")} /\ Doomed' = {"create"}
        /\ \A p, fs : "destroy" \notin fs => ~Left(p, fs)'
        /\ \A fr \in Pending' : fr.f = "destroy" /\ fr.o = "create"
    BY <1>1, <1>3, FirstFrame
  <1>6. StackInv'
    BY <1>4, <1>5 DEF StackInv
  <1>7. TreeInv'
    <2>1. alive' \subseteq Objects /\ dead' \subseteq Objects
      <3>1. alive \subseteq Objects /\ dead \subseteq Objects
        BY DEF WdfInv, TreeInv
      <3>2. QED
        BY <3>1, <1>3, <1>4
    <2>2. \A x \in alive' : parent'[x] = None /\ x # "driver" => x \in Doomed'
      BY <2>1, <1>2, <1>4, <1>5 DEF WdfInv, TreeInv
    <2>3. dead' \cap alive' \subseteq Doomed'
      BY <1>2, <1>4, <1>5 DEF WdfInv, TreeInv
    <2>4. \A x \in Doomed' : parent'[x] \notin Doomed'
      BY <1>4, <1>5
    <2>5. QED
      BY <2>1, <2>2, <2>3, <2>4, <1>4, <1>5 DEF TreeInv
  <1>8. QueueInv'
    <2>1. kids'["driver"] = kids["driver"]
      BY <1>4 DEF Objects
    <2>2. UNCHANGED queues /\ Queues \cap alive' = Queues \cap alive
      BY <1>1, <1>3, <1>4
    <2>3. \A q \in Queues \cap alive : Contains(queues, q)
      BY <1>2 DEF WdfInv, QueueInv
    <2>4. ~Left("device", {"removal", "children", "unlink", "contexts"})'
      BY <1>5
    <2>5. \A fr \in Pending' : ~Contains(queues, fr.o)
      BY <1>3, <1>5, OnlyQueues DEF WdfInv
    <2>6. "device" \in alive' /\ "device" \notin Doomed'
      BY <1>2, <1>4, <1>5
    <2>7. \A q \in Queues : Contains(queues', q) => q \in alive'
      BY <2>2, <1>4 DEF WdfInv, QueueInv
    <2>8. QED
      BY <2>1, <2>2, <2>3, <2>4, <2>5, <2>6, <2>7 DEF WdfInv, QueueInv
  <1>9. EventInv'
    <2>1. UNCHANGED <<cell, evtq, acts, flushing, linking>>
      BY <1>1 DEF events
    <2>2. CellsLinked' /\ ActsOwned' /\ ActsOrder'
      BY <2>1, <1>4 DEF WdfInv, EventInv, CellsLinked, ActsOwned, ActsOrder
    <2>3. QED
      BY <2>1, <2>2, <1>5 DEF WdfInv, EventInv
  <1>10. LinkInv'
    BY <1>1, <1>3, <1>5 DEF WdfInv, LinkInv, events
  <1>11. PlaceInv'
    <2>1. ~flushing'
      BY <1>1 DEF WdfInv, PlaceInv, events
    <2>2. QED
      BY <2>1, <1>1, <1>2, <1>3, <1>4, <1>5, KindFacts DEF PlaceInv
  <1>12. RestInv'
    BY <1>1 DEF WdfInv, RestInv, Places
  <1>13. QED
    BY <1>6, <1>7, <1>8, <1>9, <1>10, <1>11, <1>12 DEF WdfInv

LEMMA DriverCreated ==
    ASSUME WdfInv, fault = None, WdfDriverCreate
    PROVE  WdfInv'
  <1>1. todo = <<>> /\ at = "entry" /\ UNCHANGED <<queues, events, hw, opens, todo, fault>>
    BY DEF WdfDriverCreate, Idle
  <1>2. Doomed = {} /\ Pending = {} /\ alive = {} /\ ~flushing
    BY <1>1, EmptyStack DEF WdfInv, PlaceInv
  <1>3. CASE at' = "exit" /\ UNCHANGED <<alive, parent, kids, dead>>
    <2>1. UNCHANGED <<tree, cell, evtq, acts, linking, todo>> /\ flushing' \in BOOLEAN /\ ~flushing'
      BY <1>1, <1>2, <1>3 DEF tree, events, WdfInv, LinkInv
    <2>2. /\ StackInv' /\ TreeInv' /\ QueueInv' /\ EventInv' /\ LinkInv' /\ Doomed' = {}
      BY <2>1, <1>2, SameObjects
    <2>3. PlaceInv'
      BY <2>1, <2>2, <1>3 DEF PlaceInv
    <2>4. RestInv'
      BY <1>1, <1>3 DEF WdfInv, RestInv, Places
    <2>5. QED
      BY <2>2, <2>3, <2>4 DEF WdfInv
  <1>4. CASE wdf_create_obj("driver", None) /\ at' \in {"query", "exit"}
    <2>0. Pending' = {} /\ Doomed' = {} /\ \A x, fs : ~Left(x, fs)'
      BY <1>1, <1>2, SameStack DEF Left
    <2>1. "driver" \in Objects /\ "driver" \notin Queues /\ Parents("driver") = {None} /\ None \notin Objects
      BY KindFacts DEF Objects
    <2>2. /\ alive' = {"driver"} /\ dead' = dead \ {"driver"} /\ parent' = [parent EXCEPT !["driver"] = None]
          /\ kids'["driver"] = <<>> /\ \A x \in Objects : x # "driver" => kids'[x] = kids[x]
          /\ kids' = [x \in Objects |-> IF x = "driver" THEN <<>> ELSE kids[x]]
      BY <1>2, <1>4, <2>1 DEF wdf_create_obj
    <2>3. TreeInv'
      <3>1. /\ alive' \subseteq Objects /\ dead' \subseteq Objects
            /\ parent' \in [Objects -> Objects \cup {None}]
            /\ kids' \in [Objects -> Seq(Objects)]
        BY <2>1, <2>2 DEF WdfInv, TreeInv
      <3>2. \A o \in Objects : parent'[o] \in Parents(o)
        BY <2>1, <2>2 DEF WdfInv, TreeInv
      <3>3. \A o \in Objects : Once(kids'[o])
        BY <2>2 DEF WdfInv, TreeInv, Once
      <3>4. parent'["driver"] = None /\ \A k : ~Contains(kids'["driver"], k)
        BY <2>1, <2>2 DEF WdfInv, TreeInv, Contains
      <3>5. dead' \cap alive' = {}
        BY <2>2
      <3>6. QED
        BY <3>1, <3>2, <3>3, <3>4, <3>5, <2>0, <2>2 DEF TreeInv
    <2>4. queues = <<>>
      <3>1. queues \in Seq(Queues) /\ \A q \in Queues : Contains(queues, q) => q \in alive
        BY DEF WdfInv, QueueInv
      <3> SUFFICES ASSUME queues # <<>> PROVE FALSE
        OBVIOUS
      <3>2. 1 \in 1..Len(queues) /\ queues[1] \in Queues
        BY <3>1
      <3>3. QED
        BY <3>1, <3>2, <1>2 DEF Contains
    <2>5. QueueInv'
      <3>1. queues' = <<>> /\ \A x : ~Contains(queues', x)
        BY <2>4, <1>1 DEF Contains
      <3>2. queues' \in Seq(Queues) /\ Once(queues')
        BY <3>1 DEF Once
      <3>3. Queues \cap alive' = {} /\ "file" \notin alive'
        BY <2>1, <2>2
      <3>4. Len(kids'["driver"]) = 0
        BY <2>2
      <3>5. QED
        BY <3>1, <3>2, <3>3, <3>4, <2>0 DEF QueueInv
    <2>6. StackInv'
      BY <2>0, <1>1 DEF WdfInv, StackInv
    <2>7. EventInv' /\ LinkInv'
      BY <2>0, <1>1, <1>2, EventsKept
    <2>8. PlaceInv'
      BY <2>0, <2>1, <2>2, <1>1, <1>2, <1>4 DEF PlaceInv, events
    <2>9. RestInv'
      BY <1>1, <1>4 DEF WdfInv, RestInv, Places
    <2>10. QED
      BY <2>3, <2>5, <2>6, <2>7, <2>8, <2>9 DEF WdfInv
  <1>5. QED
    BY <1>3, <1>4 DEF WdfDriverCreate

-----------------------------------------------------------------------------
(* The driver half's thread deletes an object: the action is in the queue  *)
(* first, on the object's list later.                                      *)
LEMMA ExtraDeleted ==
    ASSUME WdfInv, fault = None, NEW x \in Extras, WdfObjectDelete(x)
    PROVE  WdfInv'
  <1>1. PICK c : c = Cell
    OBVIOUS
  <1>2. /\ DllRuns /\ x \in alive /\ ~flushing /\ c \in FreeCells /\ Publish(c, x, "destroy")
        /\ linking' = c /\ UNCHANGED <<tree, acts, flushing, life, todo, fault>>
    BY <1>1, CellFacts DEF WdfObjectDelete
  <1>3. EventInv /\ LinkInv /\ x \in Objects /\ x # None
    BY KindFacts DEF WdfInv, Objects
  <1>4. /\ cell' \in [Cells -> Acts] /\ evtq' \in Seq(Cells) /\ Once(evtq')
        /\ \A d \in Cells : Contains(evtq', d) <=> cell'[d].fn # None
        /\ \A d \in Cells : cell'[d].fn = None => cell'[d].obj = None
        /\ \A d \in Cells : cell'[d].fn = "destroy" => cell'[d].obj \in Extras \cup {None}
        /\ cell'[c].obj = x /\ \A d \in Cells : d # c => cell'[d] = cell[d]
        /\ Len(evtq') = Len(evtq) + 1 /\ evtq'[1] = c /\ Len(evtq) \in Nat
        /\ \A k \in 2..(Len(evtq) + 1) : evtq'[k] = evtq[k - 1] /\ k - 1 \in 1..Len(evtq)
        /\ \A k \in 1..Len(evtq) : evtq[k] \in Cells /\ evtq[k] # c
    BY <1>2, <1>3, PublishFacts
  <1>5. /\ c \in Cells /\ ~Contains(evtq, c) /\ linking = 0
        /\ \A q \in Objects : ~Contains(acts[q], c)
    BY <1>2, <1>3, FreeFacts DEF DllRuns
  <1>6. 0 \notin Cells
    BY DEF Cells
  <1>7. "driver" \notin Doomed /\ x \notin Doomed
    BY <1>2 DEF WdfInv, PlaceInv, DllRuns
  <1>8. Pending' = Pending /\ Doomed' = Doomed /\ \A y, fs : Left(y, fs)' = Left(y, fs)
    BY <1>2, SameStack
  <1>9. CellsLinked'
    <2> SUFFICES ASSUME NEW d \in Cells, cell'[d].obj # None
                 PROVE  cell'[d].obj \in alive' /\ (Contains(acts'[cell'[d].obj], d) \/ linking' = d)
      BY DEF CellsLinked
    <2>0. alive' = alive /\ acts' = acts
      BY <1>2 DEF tree
    <2>1. CASE d = c
      BY <2>0, <2>1, <1>2, <1>4
    <2>2. CASE d # c
      <3>1. cell'[d] = cell[d] /\ linking # d
        BY <2>2, <1>4, <1>5, <1>6
      <3>2. QED
        BY <2>0, <3>1, <1>3 DEF EventInv, CellsLinked
    <2>3. QED
      BY <2>1, <2>2
  <1>10. ActsOwned'
    <2> SUFFICES ASSUME NEW q \in Objects, NEW d \in Cells, Contains(acts[q], d)
                 PROVE  cell'[d].obj = q /\ linking' # d
      BY <1>2 DEF ActsOwned
    <2>1. d # c /\ cell[d].obj = q
      BY <1>3, <1>5 DEF EventInv, ActsOwned
    <2>2. QED
      BY <2>1, <1>2, <1>4
  <1>11. ActsOrder'
    <2> SUFFICES ASSUME NEW q \in Objects, NEW i \in 1..Len(acts[q]), NEW j \in 1..Len(acts[q]),
                        NEW k \in 1..Len(evtq'), NEW l \in 1..Len(evtq'),
                        i < j, evtq'[k] = acts[q][i], evtq'[l] = acts[q][j]
                 PROVE  k < l
      BY <1>2 DEF ActsOrder
    <2>1. acts[q][i] # c /\ acts[q][j] # c
      BY <1>5 DEF Contains
    <2>2. k \in 2..(Len(evtq) + 1) /\ l \in 2..(Len(evtq) + 1)
      BY <2>1, <1>4
    <2>3. /\ k - 1 \in 1..Len(evtq) /\ l - 1 \in 1..Len(evtq)
          /\ evtq[k - 1] = acts[q][i] /\ evtq[l - 1] = acts[q][j]
      BY <2>2, <1>4
    <2>4. \A a, b \in 1..Len(evtq) : evtq[a] = acts[q][i] /\ evtq[b] = acts[q][j] => a < b
      BY <1>3 DEF EventInv, ActsOrder
    <2>5. k - 1 < l - 1
      BY <2>3, <2>4
    <2>6. QED
      BY <2>2, <2>5
  <1>12. EventInv'
    BY <1>2, <1>3, <1>4, <1>8, <1>9, <1>10, <1>11 DEF EventInv
  <1>13. LinkInv'
    <2>1. \A k, l \in 1..Len(evtq') :
             evtq'[k] = c /\ cell'[evtq'[l]].obj = cell'[c].obj => k <= l
      <3>1. \A k \in 1..Len(evtq') : evtq'[k] = c => k = 1
        <4>1. 1 \in 1..Len(evtq')
          BY <1>4
        <4>2. QED
          BY <4>1, <1>4 DEF Once
      <3>2. QED
        BY <3>1, <1>4
    <2>2. QED
      BY <2>1, <1>2, <1>3, <1>4, <1>5, <1>7, <1>8 DEF LinkInv
  <1>14. StackInv' /\ TreeInv' /\ QueueInv'
    <2>1. StackInv'
      BY <1>2, <1>8 DEF WdfInv, StackInv, tree
    <2>2. TreeInv'
      BY <1>2, <1>8 DEF WdfInv, TreeInv, tree
    <2>3. QueueInv'
      BY <1>2, <1>8 DEF WdfInv, QueueInv, tree
    <2>4. QED
      BY <2>1, <2>2, <2>3
  <1>15. PlaceInv'
    BY <1>2, <1>8 DEF WdfInv, PlaceInv, tree, life
  <1>16. RestInv'
    BY <1>2 DEF WdfInv, RestInv, life
  <1>17. QED
    BY <1>12, <1>13, <1>14, <1>15, <1>16 DEF WdfInv

LEMMA ActionLinked ==
    ASSUME WdfInv, fault = None, LinkAction
    PROVE  WdfInv'
  <1>1. PICK o : o = cell[linking].obj
    OBVIOUS
  <1>2. linking # 0 /\ linking \in Cells /\ o \in Extras /\ o \notin Doomed
    BY <1>1 DEF LinkAction, WdfInv, LinkInv
  <1>3. o \in Objects /\ o # None /\ 0 \notin Cells
    BY <1>2, KindFacts DEF Objects, Cells
  <1>4. EventInv /\ LinkInv /\ CellsLinked /\ ActsOwned /\ ActsOrder
    BY DEF WdfInv, EventInv
  <1>5. o \in alive
    BY <1>1, <1>2, <1>3, <1>4 DEF CellsLinked
  <1>6. /\ acts' = [acts EXCEPT ![o] = <<linking>> \o @] /\ linking' = 0
        /\ UNCHANGED <<tree, cell, evtq, flushing, life, todo, fault>>
    BY <1>1, <1>5 DEF LinkAction
  <1>7. acts \in [Objects -> Seq(Cells)] /\ acts[o] \in Seq(Cells)
    BY <1>3, <1>4 DEF EventInv
  <1>8. /\ acts' \in [Objects -> Seq(Cells)] /\ acts'[o] = <<linking>> \o acts[o]
        /\ \A q \in Objects : q # o => acts'[q] = acts[q]
    BY <1>2, <1>3, <1>6, <1>7, ConsFacts
  <1>9. /\ \A x : Contains(acts'[o], x) <=> x = linking \/ Contains(acts[o], x)
        /\ Len(acts'[o]) = Len(acts[o]) + 1 /\ acts'[o][1] = linking /\ Len(acts[o]) \in Nat
        /\ \A k \in 2..(Len(acts[o]) + 1) : acts'[o][k] = acts[o][k - 1] /\ k - 1 \in 1..Len(acts[o])
    BY <1>2, <1>7, <1>8, ConsContains, ConsFacts
  <1>10. Pending' = Pending /\ Doomed' = Doomed /\ \A y, fs : Left(y, fs)' = Left(y, fs)
    BY <1>6, SameStack
  <1>11. CellsLinked'
    <2> SUFFICES ASSUME NEW d \in Cells, cell[d].obj # None
                 PROVE  cell[d].obj \in alive /\ Contains(acts'[cell[d].obj], d)
      BY <1>6 DEF CellsLinked, tree
    <2>1. cell[d].obj \in alive /\ (Contains(acts[cell[d].obj], d) \/ linking = d)
      BY <1>4 DEF CellsLinked
    <2>2. cell[d].obj \in Objects
      BY <2>1 DEF WdfInv, TreeInv
    <2>3. QED
      BY <2>1, <2>2, <1>1, <1>8, <1>9
  <1>12. ActsOwned'
    <2> SUFFICES ASSUME NEW q \in Objects, NEW d \in Cells, Contains(acts'[q], d)
                 PROVE  cell[d].obj = q
      BY <1>3, <1>6 DEF ActsOwned
    <2>1. CASE Contains(acts[q], d)
      BY <2>1, <1>4 DEF ActsOwned
    <2>2. CASE ~Contains(acts[q], d)
      BY <2>2, <1>1, <1>8, <1>9
    <2>3. QED
      BY <2>1, <2>2
  <1>13. ActsOrder'
    <2> SUFFICES ASSUME NEW q \in Objects, NEW i \in 1..Len(acts'[q]), NEW j \in 1..Len(acts'[q]),
                        NEW k \in 1..Len(evtq), NEW l \in 1..Len(evtq),
                        i < j, evtq[k] = acts'[q][i], evtq[l] = acts'[q][j]
                 PROVE  k < l
      BY <1>6 DEF ActsOrder
    <2>0. \A m, n \in 1..Len(acts[q]) : m < n => \A a, b \in 1..Len(evtq) :
             evtq[a] = acts[q][m] /\ evtq[b] = acts[q][n] => a < b
      BY <1>4 DEF ActsOrder
    <2>1. CASE q # o
      BY <2>0, <2>1, <1>8
    <2>2. CASE q = o
      <3>1. j \in 2..(Len(acts[o]) + 1)
        BY <2>2, <1>9
      <3>2. acts'[q][j] = acts[o][j - 1] /\ j - 1 \in 1..Len(acts[o])
        BY <2>2, <3>1, <1>9
      <3>3. CASE i = 1
        <4>1. evtq[k] = linking
          BY <3>3, <2>2, <1>9
        <4>2. Contains(acts[o], evtq[l]) /\ evtq[l] \in Cells
          BY <3>2, <1>4 DEF Contains, EventInv
        <4>3. cell[evtq[l]].obj = o /\ evtq[l] # linking
          BY <4>2, <1>3, <1>4 DEF ActsOwned
        <4>4. k <= l
          BY <4>1, <4>3, <1>1, <1>2, <1>4 DEF LinkInv
        <4>5. k # l
          BY <4>1, <4>3
        <4>6. QED
          BY <4>4, <4>5
      <3>4. CASE i # 1
        <4>1. i \in 2..(Len(acts[o]) + 1)
          BY <3>4, <2>2, <1>9
        <4>2. acts'[q][i] = acts[o][i - 1] /\ i - 1 \in 1..Len(acts[o]) /\ i - 1 < j - 1
          BY <2>2, <3>1, <4>1, <1>9
        <4>3. QED
          BY <2>0, <2>2, <3>2, <4>2
      <3>5. QED
        BY <3>3, <3>4
    <2>3. QED
      BY <2>1, <2>2
  <1>14. EventInv'
    <2>1. \A q \in Objects : Left(q, {"contexts"})' => acts'[q] = <<>>
      <3> SUFFICES ASSUME NEW q \in Objects, Left(q, {"contexts"}) PROVE acts'[q] = <<>>
        BY <1>10
      <3>1. q # o
        BY <1>2 DEF Left
      <3>2. QED
        BY <3>1, <1>4, <1>8 DEF EventInv
    <2>2. QED
      BY <2>1, <1>4, <1>6, <1>8, <1>11, <1>12, <1>13 DEF EventInv
  <1>15. LinkInv'
    BY <1>4, <1>6 DEF LinkInv
  <1>16. StackInv' /\ TreeInv' /\ QueueInv'
    <2>1. StackInv'
      BY <1>6, <1>10 DEF WdfInv, StackInv, tree
    <2>2. TreeInv'
      BY <1>6, <1>10 DEF WdfInv, TreeInv, tree
    <2>3. QueueInv'
      BY <1>6, <1>10 DEF WdfInv, QueueInv, tree
    <2>4. QED
      BY <2>1, <2>2, <2>3
  <1>17. PlaceInv'
    BY <1>6, <1>10 DEF WdfInv, PlaceInv, tree, life
  <1>18. RestInv'
    BY <1>6 DEF WdfInv, RestInv, life
  <1>19. QED
    BY <1>14, <1>15, <1>16, <1>17, <1>18 DEF WdfInv

-----------------------------------------------------------------------------
(* The flush takes the first action of the queue: it is the first of its   *)
(* object's list too, so that no action is skipped.                        *)
LEMMA ActsOnce ==
    ASSUME EventInv, NEW o \in Objects
    PROVE  /\ Once(acts[o]) /\ acts[o] \in Seq(Cells)
           /\ \A i \in 1..Len(acts[o]) : \E k \in 1..Len(evtq) : evtq[k] = acts[o][i]
  <1>1. acts[o] \in Seq(Cells) /\ evtq \in Seq(Cells)
    BY DEF EventInv
  <1>2. ASSUME NEW i \in 1..Len(acts[o]) PROVE \E k \in 1..Len(evtq) : evtq[k] = acts[o][i]
    <2>1. acts[o][i] \in Cells /\ Contains(acts[o], acts[o][i])
      BY <1>1 DEF Contains
    <2>2. cell[acts[o][i]].obj # None
      BY <2>1, KindFacts DEF EventInv, ActsOwned
    <2>3. Contains(evtq, acts[o][i])
      BY <2>1, <2>2 DEF EventInv
    <2>4. QED
      BY <2>3 DEF Contains
  <1>3. ASSUME NEW i \in 1..Len(acts[o]), NEW j \in 1..Len(acts[o]), acts[o][i] = acts[o][j], i < j
        PROVE  FALSE
    <2>1. PICK k \in 1..Len(evtq) : evtq[k] = acts[o][i]
      BY <1>2
    <2>2. k < k
      BY <2>1, <1>3 DEF EventInv, ActsOrder
    <2>3. QED
      BY <2>2
  <1>4. Once(acts[o])
    <2> SUFFICES ASSUME NEW i \in 1..Len(acts[o]), NEW j \in 1..Len(acts[o]), acts[o][i] = acts[o][j]
                 PROVE  i = j
      BY DEF Once
    <2>1. ~(i < j) /\ ~(j < i)
      BY <1>3
    <2>2. QED
      BY <2>1
  <1>5. QED
    BY <1>1, <1>2, <1>4

LEMMA FirstAction ==
    ASSUME EventInv, NEW o \in Objects, evtq # <<>>, Contains(acts[o], Head(evtq))
    PROVE  /\ acts[o] # <<>> /\ Head(acts[o]) = Head(evtq)
           /\ After(acts[o], Head(evtq)) = Tail(acts[o])
  <1>1. acts[o] \in Seq(Cells) /\ evtq \in Seq(Cells) /\ Once(acts[o])
    BY ActsOnce DEF EventInv
  <1>2. /\ Len(evtq) \in Nat /\ 1 \in 1..Len(evtq) /\ Head(evtq) = evtq[1]
    BY <1>1
  <1>3. PICK i \in 1..Len(acts[o]) : acts[o][i] = evtq[1]
    BY <1>2 DEF Contains
  <1>4. i = 1
    <2> SUFFICES ASSUME i # 1 PROVE FALSE
      OBVIOUS
    <2>1. 1 \in 1..Len(acts[o]) /\ 1 < i
      BY <1>1, <1>3
    <2>2. PICK k \in 1..Len(evtq) : evtq[k] = acts[o][1]
      BY <2>1, ActsOnce
    <2>3. k < 1
      BY <2>1, <2>2, <1>2, <1>3 DEF EventInv, ActsOrder
    <2>4. QED
      BY <2>3
  <1>5. {k \in 1..Len(acts[o]) : acts[o][k] = evtq[1]} = {1}
    BY <1>1, <1>3, <1>4 DEF Once
  <1>6. (CHOOSE k \in 1..Len(acts[o]) : acts[o][k] = evtq[1]) = 1
    BY <1>5
  <1>7. acts[o] # <<>> /\ Head(acts[o]) = acts[o][1]
    BY <1>1, <1>3
  <1>8. SubSeq(acts[o], 1 + 1, Len(acts[o])) = Tail(acts[o])
    BY <1>1, <1>7
  <1>9. QED
    BY <1>2, <1>3, <1>4, <1>6, <1>7, <1>8 DEF After

LEMMA ActionTaken ==
    ASSUME WdfInv, fault = None, FlushTakes
    PROVE  WdfInv'
  <1> DEFINE c == Head(evtq)
             o == cell[c].obj
  <1>1. flushing /\ todo = <<>> /\ evtq # <<>>
    BY DEF FlushTakes
  <1>2. EventInv /\ LinkInv /\ CellsLinked /\ ActsOwned /\ ActsOrder /\ Doomed = {} /\ Pending = {}
    BY <1>1, EmptyStack DEF WdfInv, EventInv
  <1>3. /\ evtq \in Seq(Cells) /\ Once(evtq) /\ cell \in [Cells -> Acts]
        /\ Len(evtq) \in Nat /\ Len(evtq) >= 1 /\ c = evtq[1] /\ c \in Cells
        /\ Tail(evtq) \in Seq(Cells) /\ Len(Tail(evtq)) = Len(evtq) - 1
        /\ \A k \in 1..(Len(evtq) - 1) : k + 1 \in 1..Len(evtq) /\ Tail(evtq)[k] = evtq[k + 1]
        /\ \A x : Contains(Tail(evtq), x) <=> Contains(evtq, x) /\ x # c
        /\ Once(Tail(evtq))
    BY <1>1, <1>2, TailFacts, TailContains DEF EventInv
  <1>4. o \in Objects \cup {None} /\ None \notin Objects /\ o = cell[c].obj
    BY <1>3, KindFacts DEF Acts
  <1>5. CASE o # None /\ linking = c
    <2>1. Broken(Race)
      BY <1>5 DEF FlushTakes
    <2>2. Race \in Faults \ {"freed", "dead_parent"}
      BY DEF Race, Faults
    <2>3. QED
      BY <2>1, <2>2, BrokenKeeps
  <1>6. CASE ~(o # None /\ linking = c)
    <2>1. o # None => o \in alive /\ Contains(acts[o], c)
      BY <1>2, <1>3, <1>6 DEF CellsLinked
    <2>2. /\ evtq' = Tail(evtq)
          /\ cell' = [cell EXCEPT ![c] = Free]
          /\ acts' = IF o = None THEN acts ELSE [acts EXCEPT ![o] = After(@, c)]
          /\ todo' = IF cell[c].fn = "destroy" /\ o # None THEN <<Frame("destroy", o)>> ELSE <<>>
          /\ IF o # None /\ cell[c].fn = "call_cbs" THEN device_call_cbs ELSE UNCHANGED <<hw, fault>>
          /\ UNCHANGED <<tree, flushing, linking, at, opens>>
      BY <1>6, <2>1 DEF FlushTakes
    <2>3. o # None => /\ acts[o] # <<>> /\ Head(acts[o]) = c
                      /\ After(acts[o], c) = Tail(acts[o])
      BY <2>1, <1>1, <1>2, <1>4, FirstAction
    <2>4. acts \in [Objects -> Seq(Cells)]
      BY <1>2 DEF EventInv
    <2>5. o # None => /\ Len(acts[o]) \in Nat /\ Len(acts[o]) >= 1 /\ Tail(acts[o]) \in Seq(Cells)
                      /\ Len(Tail(acts[o])) = Len(acts[o]) - 1
                      /\ \A k \in 1..(Len(acts[o]) - 1) :
                            k + 1 \in 1..Len(acts[o]) /\ Tail(acts[o])[k] = acts[o][k + 1]
                      /\ \A x : Contains(Tail(acts[o]), x) <=> Contains(acts[o], x) /\ x # c
      <3> HAVE o # None
      <3>1. o \in Objects
        BY <1>4
      <3>2. acts[o] \in Seq(Cells) /\ Once(acts[o]) /\ acts[o] # <<>> /\ Head(acts[o]) = c
        BY <3>1, <1>2, <2>3, ActsOnce
      <3>3. QED
        BY <3>2, TailFacts, TailContains
    <2>6. /\ acts' \in [Objects -> Seq(Cells)] /\ (o # None => acts'[o] = Tail(acts[o]))
          /\ \A q \in Objects : q # o => acts'[q] = acts[q]
      <3>1. CASE o = None
        BY <3>1, <1>4, <2>2, <2>4
      <3>2. CASE o # None
        <4>1. acts' = [acts EXCEPT ![o] = Tail(acts[o])] /\ o \in Objects
          BY <3>2, <1>4, <2>2, <2>3
        <4>2. QED
          BY <4>1, <2>4, <2>5, <3>2
      <3>3. QED
        BY <3>1, <3>2
    <2> HIDE DEF c, o
    <2>7. Free \in Acts /\ Free.obj = None /\ Free.fn = None
      BY DEF Free, Acts
    <2>8. /\ cell' \in [Cells -> Acts] /\ cell'[c] = Free
          /\ \A d \in Cells : d # c => cell'[d] = cell[d]
      BY <2>2, <2>7, <1>3
    <2>9. \A d \in Cells : /\ Contains(evtq', d) <=> cell'[d].fn # None
                           /\ cell'[d].fn = None => cell'[d].obj = None
                           /\ cell'[d].fn = "destroy" => cell'[d].obj \in Extras \cup {None}
      <3> TAKE d \in Cells
      <3>1. CASE d = c
        BY <3>1, <2>2, <2>7, <2>8, <1>3
      <3>2. CASE d # c
        BY <3>2, <2>2, <2>8, <1>2, <1>3 DEF EventInv
      <3>3. QED
        BY <3>1, <3>2
    <2>10. CellsLinked'
      <3> SUFFICES ASSUME NEW d \in Cells, cell'[d].obj # None
                   PROVE  cell'[d].obj \in alive /\ (Contains(acts'[cell'[d].obj], d) \/ linking = d)
        BY <2>2 DEF CellsLinked, tree
      <3>1. d # c /\ cell'[d] = cell[d]
        BY <2>7, <2>8
      <3>2. cell[d].obj \in alive /\ (Contains(acts[cell[d].obj], d) \/ linking = d)
        BY <3>1, <1>2 DEF CellsLinked
      <3>3. cell[d].obj \in Objects /\ cell[d].obj # None
        BY <3>1, <3>2 DEF WdfInv, TreeInv
      <3>4. CASE cell[d].obj = o
        BY <3>1, <3>2, <3>3, <3>4, <2>5, <2>6
      <3>5. CASE cell[d].obj # o
        BY <3>1, <3>2, <3>3, <3>5, <2>6
      <3>6. QED
        BY <3>4, <3>5
    <2>11. ActsOwned'
      <3> SUFFICES ASSUME NEW q \in Objects, NEW d \in Cells, Contains(acts'[q], d)
                   PROVE  cell'[d].obj = q /\ linking # d
        BY <2>2 DEF ActsOwned
      <3>1. Contains(acts[q], d) /\ (q = o => d # c)
        BY <1>4, <2>5, <2>6
      <3>2. cell[d].obj = q /\ linking # d
        BY <3>1, <1>2 DEF ActsOwned
      <3>3. d # c
        BY <3>1, <3>2, <1>4
      <3>4. QED
        BY <3>2, <3>3, <2>8
    <2>12. ActsOrder'
      <3> SUFFICES ASSUME NEW q \in Objects, NEW i \in 1..Len(acts'[q]), NEW j \in 1..Len(acts'[q]),
                          NEW k \in 1..Len(evtq'), NEW l \in 1..Len(evtq'),
                          i < j, evtq'[k] = acts'[q][i], evtq'[l] = acts'[q][j]
                   PROVE  k < l
        BY DEF ActsOrder
      <3>1. /\ k + 1 \in 1..Len(evtq) /\ evtq'[k] = evtq[k + 1] /\ k \in Nat
            /\ l + 1 \in 1..Len(evtq) /\ evtq'[l] = evtq[l + 1] /\ l \in Nat
        BY <2>2, <1>3
      <3>2. \A m, n \in 1..Len(acts[q]) : m < n => \A a, b \in 1..Len(evtq) :
               evtq[a] = acts[q][m] /\ evtq[b] = acts[q][n] => a < b
        BY <1>2 DEF ActsOrder
      <3>3. CASE q # o
        <4>1. k + 1 < l + 1
          BY <3>1, <3>2, <3>3, <2>6
        <4>2. QED
          BY <4>1, <3>1
      <3>4. CASE q = o
        <4>1. o # None /\ acts'[q] = Tail(acts[q])
          BY <3>4, <1>4, <2>6
        <4>2. /\ i + 1 \in 1..Len(acts[q]) /\ acts'[q][i] = acts[q][i + 1]
              /\ j + 1 \in 1..Len(acts[q]) /\ acts'[q][j] = acts[q][j + 1] /\ i + 1 < j + 1
          BY <3>4, <4>1, <2>5
        <4>3. k + 1 < l + 1
          BY <3>1, <3>2, <4>2
        <4>4. QED
          BY <4>3, <3>1
      <3>5. QED
        BY <3>3, <3>4
    <2>13. /\ StackInv' /\ TreeInv' /\ QueueInv' /\ \A x, fs : "destroy" \notin fs => ~Left(x, fs)'
           /\ Doomed' = {} \/ (Doomed' = {o} /\ o \in Extras)
      <3>1. CASE ~(cell[c].fn = "destroy" /\ o # None)
        <4>1. todo' = todo /\ UNCHANGED tree
          BY <2>2, <3>1, <1>1
        <4>2. Pending' = {} /\ Doomed' = {} /\ \A x, fs : Left(x, fs)' = Left(x, fs)
          BY <4>1, <1>2, SameStack
        <4>3. StackInv' /\ TreeInv' /\ QueueInv'
          <5>1. StackInv'
            BY <4>1, <4>2, <1>2 DEF WdfInv, StackInv, tree
          <5>2. TreeInv'
            BY <4>1, <4>2, <1>2 DEF WdfInv, TreeInv, tree
          <5>3. QueueInv'
            BY <4>1, <4>2, <1>2 DEF WdfInv, QueueInv, tree
          <5>4. QED
            BY <5>1, <5>2, <5>3
        <4>4. \A x, fs : "destroy" \notin fs => ~Left(x, fs)'
          BY <4>2 DEF Left
        <4>5. QED
          BY <4>2, <4>3, <4>4
      <3>2. CASE cell[c].fn = "destroy" /\ o # None
        <4>1. todo' = <<Frame("destroy", o)>> /\ o \in alive /\ UNCHANGED tree
          BY <2>1, <2>2, <3>2
        <4>2. o \in Extras
          BY <3>2, <1>2, <1>3, <1>4 DEF EventInv
        <4>3. QED
          BY <4>1, <4>2, <1>1, KindFacts, RootTree
      <3>3. QED
        BY <3>1, <3>2
    <2>14. EventInv'
      <3>1. \A q \in Objects : ~Left(q, {"contexts"})'
        BY <2>13
      <3>2. evtq' \in Seq(Cells) /\ Once(evtq')
        BY <2>2, <1>3
      <3>3. QED
        BY <3>1, <3>2, <2>6, <2>8, <2>9, <2>10, <2>11, <2>12 DEF EventInv
    <2>15. LinkInv'
      <3>1. ASSUME linking # 0
            PROVE  /\ linking \in Cells /\ linking # c /\ cell'[linking] = cell[linking]
                   /\ cell[linking].obj \in Extras /\ cell[linking].obj # o
        <4>1. linking \in Cells /\ cell[linking].obj \in Extras /\ cell[linking].obj # None
          BY <3>1, <1>2, KindFacts DEF LinkInv
        <4>2. linking # c
          BY <4>1, <1>4, <1>6
        <4>3. Contains(evtq, linking)
          BY <4>1, <1>2 DEF EventInv
        <4>4. PICK k \in 1..Len(evtq) : evtq[k] = linking
          BY <4>3 DEF Contains
        <4>5. cell[linking].obj # o
          <5> SUFFICES ASSUME cell[linking].obj = o PROVE FALSE
            OBVIOUS
          <5>1. 1 \in 1..Len(evtq) /\ cell[evtq[1]].obj = cell[linking].obj
            BY <1>3, <1>4
          <5>2. k <= 1
            BY <5>1, <4>4, <3>1, <1>2 DEF LinkInv
          <5>3. k = 1
            BY <5>2
          <5>4. QED
            BY <5>3, <4>2, <4>4, <1>3
        <4>6. QED
          BY <4>1, <4>2, <4>5, <2>8
      <3>2. ASSUME linking # 0, NEW k \in 1..Len(evtq'), NEW l \in 1..Len(evtq'),
                   evtq'[k] = linking, cell'[evtq'[l]].obj = cell'[linking].obj
            PROVE  k <= l
        <4>1. /\ k + 1 \in 1..Len(evtq) /\ evtq'[k] = evtq[k + 1] /\ k \in Nat
              /\ l + 1 \in 1..Len(evtq) /\ evtq'[l] = evtq[l + 1] /\ l \in Nat
          BY <2>2, <1>3
        <4>2. evtq[l + 1] \in Cells
          BY <4>1, <1>3
        <4>3. evtq[l + 1] # c
          BY <4>1, <3>1, <3>2, <2>7, <2>8, KindFacts
        <4>4. cell[evtq[l + 1]].obj = cell[linking].obj
          BY <4>1, <4>2, <4>3, <3>1, <3>2, <2>8
        <4>5. \A a, b \in 1..Len(evtq) : evtq[a] = linking /\ cell[evtq[b]].obj = cell[linking].obj => a <= b
          BY <3>2, <1>2 DEF LinkInv
        <4>6. k + 1 <= l + 1
          BY <4>1, <4>4, <4>5, <3>2
        <4>7. QED
          BY <4>1, <4>6
      <3>3. "driver" \notin Doomed' /\ (linking # 0 => cell'[linking].obj \notin Doomed')
        BY <3>1, <2>13, KindFacts
      <3>4. QED
        BY <3>1, <3>2, <3>3, <2>2, <1>2 DEF LinkInv
    <2>16. PlaceInv'
      <3>1. \A x \in Doomed' : x \in Extras
        BY <2>13
      <3>2. "driver" \notin Doomed' /\ "device" \notin Doomed' /\ "file" \notin Doomed' /\ "create" \notin Doomed'
            /\ Doomed' \cap Queues = {}
        BY <3>1, KindFacts
      <3>3. at \in {"flush_open", "flush_close"} /\ UNCHANGED <<at, alive, flushing>>
        BY <2>2, <1>1 DEF WdfInv, PlaceInv, tree
      <3>4. QED
        BY <3>2, <3>3, <1>1 DEF WdfInv, PlaceInv
    <2>17. RestInv'
      <3>1. hw' \in BOOLEAN /\ fault' \in {None, "abort"}
        BY <2>2 DEF WdfInv, RestInv, device_call_cbs
      <3>2. QED
        BY <3>1, <2>2 DEF WdfInv, RestInv, Faults, None
    <2>18. QED
      BY <2>13, <2>14, <2>15, <2>16, <2>17 DEF WdfInv
  <1>7. QED
    BY <1>5, <1>6

-----------------------------------------------------------------------------
(* The destructor that runs is the head of the stack; the others wait.      *)
Rest == FrameSet(Tail(todo))

LEMMA TopFrame ==
    ASSUME StackInv, NEW f \in Frames, Running(f), NEW o, o = Head(todo).o
    PROVE  /\ Head(todo) = Frame(f, o) /\ o \in Objects /\ o \in alive /\ o \in Doomed
           /\ Pending = Rest \cup {Frame(f, o)} /\ Frame(f, o) \notin Rest /\ Frame(f, o) \in Pending
           /\ StackOK(Tail(todo)) /\ Rest \subseteq FrameRec
           /\ \A g \in Rest : g.o \in Callers(o) \/ (g.o = o /\ f # "destroy" /\ Step(f) < Step(g.f))
           /\ \A x \in Doomed : x = o \/ x \in Callers(o)
  <1>1. StackOK(todo) /\ todo # <<>> /\ Head(todo).f = f /\ Doomed \subseteq alive
    BY DEF StackInv, Running
  <1>2. /\ StackOK(Tail(todo)) /\ Head(todo) \in FrameRec /\ Pending = Rest \cup {Head(todo)}
        /\ \A g \in Rest : Under(Head(todo), g)
        /\ Head(todo) \notin Rest
    BY <1>1, StackPop DEF Rest, Pending
  <1>3. Head(todo) = Frame(f, o) /\ o \in Objects
    BY <1>1, <1>2, FrameFacts
  <1>4. o \in Doomed
    BY <1>2 DEF Doomed
  <1>5. Rest \subseteq FrameRec
    <2>1. PICK t : t = Tail(todo)
      OBVIOUS
    <2>2. t \in Seq(FrameRec)
      BY <2>1, <1>2 DEF StackOK, FrameRec
    <2>3. \A i \in 1..Len(t) : t[i] \in FrameRec
      BY <2>2
    <2>4. QED
      BY <2>1, <2>3 DEF Rest, FrameSet
  <1>6. \A g \in Rest : g.o \in Callers(o) \/ (g.o = o /\ f # "destroy" /\ Step(f) < Step(g.f))
    BY <1>1, <1>2 DEF Under
  <1>7. \A x \in Doomed : x = o \/ x \in Callers(o)
    BY <1>2, <1>6 DEF Doomed
  <1>8. QED
    BY <1>1, <1>2, <1>3, <1>4, <1>5, <1>6, <1>7

(* The parts that are left when part f runs. *)
LEMMA TopLeft ==
    ASSUME StackInv, NEW f \in Frames \ {"destroy"}, Running(f), NEW o, o = Head(todo).o,
           NEW fs, \A g \in Frames : Step(f) <= Step(g) => g \in fs
    PROVE  Left(o, fs)
  <1>1. /\ o \in Doomed /\ Pending = Rest \cup {Frame(f, o)} /\ Rest \subseteq FrameRec /\ o \in Objects
        /\ \A g \in Rest : g.o \in Callers(o) \/ (g.o = o /\ f # "destroy" /\ Step(f) < Step(g.f))
    BY TopFrame
  <1>2. ASSUME NEW fr \in Pending, fr.o = o PROVE fr.f \in fs
    <2>1. CASE fr = Frame(f, o)
      <3>1. fr.f = f /\ Step(f) <= Step(f)
        BY <2>1, FrameFacts, StepFacts DEF Frames
      <3>2. QED
        BY <3>1
    <2>2. CASE fr \in Rest
      <3>1. fr.f \in Frames /\ Step(f) < Step(fr.f)
        BY <2>2, <1>1, <1>2, FrameFacts, CallersFacts
      <3>2. Step(f) <= Step(fr.f)
        BY <3>1, StepFacts DEF Frames
      <3>3. QED
        BY <3>1, <3>2
    <2>3. QED
      BY <2>1, <2>2, <1>1
  <1>3. QED
    BY <1>1, <1>2 DEF Left

(* A part of the destructor of o is over, and it is not the last. *)
LEMMA Popped ==
    ASSUME StackInv, NEW f \in Frames \ {"destroy", "contexts"}, Running(f), NEW o, o = Head(todo).o,
           todo' = Tail(todo)
    PROVE  /\ Pending' = Pending \ {Frame(f, o)} /\ Doomed' = Doomed
           /\ StackOK(todo)'
           /\ \A fr \in Pending' : fr.f \notin {"destroy", "contexts"} => Frame(Then(fr.f), fr.o) \in Pending'
           /\ \A fr \in Pending' : fr.f \in {"queues", "removal"} => fr.o = "device"
           /\ \A x, fs : x # o => Left(x, fs)' = Left(x, fs)
           /\ \A fs : Left(o, fs)' => Then(f) \in fs
  <1>1. /\ Head(todo) = Frame(f, o) /\ o \in Objects /\ o \in Doomed
        /\ Pending = Rest \cup {Frame(f, o)} /\ Frame(f, o) \notin Rest /\ Frame(f, o) \in Pending
        /\ StackOK(Tail(todo)) /\ Rest \subseteq FrameRec
        /\ \A g \in Rest : g.o \in Callers(o) \/ (g.o = o /\ f # "destroy" /\ Step(f) < Step(g.f))
    BY TopFrame
  <1>2. Pending' = Rest
    BY DEF Pending, Rest
  <1>3. Pending' = Pending \ {Frame(f, o)}
    BY <1>1, <1>2
  <1>4. Frame(Then(f), o) \in Pending' /\ Then(f) # f
    <2>1. Frame(f, o).f = f /\ Frame(f, o).o = o
      BY FrameFacts
    <2>2. Frame(Then(f), o) \in Pending
      BY <1>1, <2>1 DEF StackInv
    <2>3. Then(f) # f
      BY StepFacts DEF Frames
    <2>4. Frame(Then(f), o) # Frame(f, o)
      BY <2>3, FrameFacts
    <2>5. QED
      BY <2>2, <2>3, <2>4, <1>3
  <1>5. Doomed' = Doomed
    <2>1. o \in Doomed'
      BY <1>4, FrameFacts DEF Doomed
    <2>2. \A fr \in Pending : fr.o \in Doomed'
      BY <2>1, <1>1, <1>2, FrameFacts DEF Doomed
    <2>3. Doomed' \subseteq Doomed
      BY <1>3 DEF Doomed
    <2>4. QED
      BY <2>2, <2>3 DEF Doomed
  <1>6. ASSUME NEW fr \in Pending', fr.f \notin {"destroy", "contexts"}
        PROVE  Frame(Then(fr.f), fr.o) \in Pending'
    <2>1. fr \in Pending /\ fr \in Rest /\ fr.f \in Frames
      BY <1>1, <1>2, <1>3, FrameFacts
    <2>2. Frame(Then(fr.f), fr.o) \in Pending
      BY <2>1, <1>6 DEF StackInv
    <2>3. Frame(Then(fr.f), fr.o) # Frame(f, o)
      <3> SUFFICES ASSUME Frame(Then(fr.f), fr.o) = Frame(f, o) PROVE FALSE
        OBVIOUS
      <3>1. Then(fr.f) = f /\ fr.o = o
        BY FrameFacts
      <3>2. Step(Then(fr.f)) < Step(fr.f)
        BY <3>1, <2>1, <1>1, CallersFacts
      <3>3. QED
        BY <3>2, <2>1, <1>6, StepFacts DEF Frames
    <2>4. QED
      BY <2>2, <2>3, <1>3
  <1>7. \A fr \in Pending' : fr.f \in {"queues", "removal"} => fr.o = "device"
    BY <1>3 DEF StackInv
  <1>8. \A x, fs : x # o => Left(x, fs)' = Left(x, fs)
    <2>1. \A x : x # o => \A fr : fr.o = x => (fr \in Pending' <=> fr \in Pending)
      BY <1>3, FrameFacts
    <2>2. QED
      BY <2>1, <1>5 DEF Left
  <1>9. \A fs : Left(o, fs)' => Then(f) \in fs
    BY <1>4, FrameFacts DEF Left
  <1>10. StackOK(todo)'
    BY <1>1
  <1>11. QED
    BY <1>3, <1>5, <1>6, <1>7, <1>8, <1>9, <1>10

(* The last part is over. *)
LEMMA PoppedLast ==
    ASSUME StackInv, Running("contexts"), NEW o, o = Head(todo).o, todo' = Tail(todo)
    PROVE  /\ Pending' \subseteq Pending /\ Doomed' = Doomed \ {o}
           /\ StackOK(todo)'
           /\ \A fr \in Pending' : fr.f \notin {"destroy", "contexts"} => Frame(Then(fr.f), fr.o) \in Pending'
           /\ \A fr \in Pending' : fr.f \in {"queues", "removal"} => fr.o = "device"
           /\ \A x, fs : Left(x, fs)' => Left(x, fs)
           /\ \A x \in Doomed' : x \in Callers(o)
  <1>1. /\ Head(todo) = Frame("contexts", o) /\ o \in Objects /\ o \in Doomed
        /\ Pending = Rest \cup {Frame("contexts", o)}
        /\ StackOK(Tail(todo)) /\ Rest \subseteq FrameRec
        /\ \A g \in Rest : g.o \in Callers(o) \/ (g.o = o /\ Step("contexts") < Step(g.f))
    BY TopFrame DEF Frames
  <1>2. Pending' = Rest
    BY DEF Pending, Rest
  <1>3. ASSUME NEW g \in Rest PROVE g.o \in Callers(o) /\ g.o # o
    <2>1. g.f \in Frames
      BY <1>1, FrameFacts
    <2>2. ~(Step("contexts") < Step(g.f))
      BY <2>1, StepFacts DEF Frames
    <2>3. QED
      BY <2>2, <1>1, CallersFacts
  <1>4. Doomed' = Doomed \ {o}
    <2>1. \A x : x \in Doomed' <=> \E g \in Rest : x = g.o
      BY <1>2 DEF Doomed
    <2>2. \A x : x \in Doomed <=> x = o \/ \E g \in Rest : x = g.o
      BY <1>1, FrameFacts DEF Doomed
    <2>3. QED
      BY <2>1, <2>2, <1>3
  <1>5. \A x \in Doomed' : x \in Callers(o)
    BY <1>2, <1>3 DEF Doomed
  <1>6. \A fr \in Pending' : fr.f \notin {"destroy", "contexts"} => Frame(Then(fr.f), fr.o) \in Pending'
    <2> SUFFICES ASSUME NEW fr \in Rest, fr.f \notin {"destroy", "contexts"}
                 PROVE  Frame(Then(fr.f), fr.o) \in Rest
      BY <1>2
    <2>1. Frame(Then(fr.f), fr.o) \in Pending
      BY <1>1 DEF StackInv
    <2>2. Frame(Then(fr.f), fr.o) # Frame("contexts", o)
      BY <1>3, FrameFacts
    <2>3. QED
      BY <2>1, <2>2, <1>1
  <1>7. \A fr \in Pending' : fr.f \in {"queues", "removal"} => fr.o = "device"
    BY <1>1, <1>2 DEF StackInv
  <1>8. ASSUME NEW x, NEW fs, Left(x, fs)' PROVE Left(x, fs)
    <2>1. x \in Doomed' /\ \A fr \in Pending' : fr.o = x => fr.f \in fs
      BY <1>8 DEF Left
    <2>2. x # o /\ x \in Doomed
      BY <2>1, <1>4
    <2>3. QED
      BY <2>1, <2>2, <1>1, <1>2, FrameFacts DEF Left
  <1>9. Pending' \subseteq Pending
    BY <1>1, <1>2
  <1>10. StackOK(todo)'
    BY <1>1
  <1>11. QED
    BY <1>4, <1>5, <1>6, <1>7, <1>8, <1>9, <1>10

(* The destructor that runs calls that of k. *)
LEMMA Called ==
    ASSUME StackInv, NEW k \in alive \ Doomed, k \in Objects, \A x \in Doomed : x \in Callers(k),
           todo' = <<Frame("destroy", k)>> \o todo
    PROVE  /\ Pending' = Pending \cup {Frame("destroy", k)} /\ Doomed' = Doomed \cup {k}
           /\ StackOK(todo)'
           /\ \A fr \in Pending' : fr.f \notin {"destroy", "contexts"} => Frame(Then(fr.f), fr.o) \in Pending'
           /\ \A fr \in Pending' : fr.f \in {"queues", "removal"} => fr.o = "device"
           /\ \A x, fs : x # k => Left(x, fs)' = Left(x, fs)
           /\ \A fs : Left(k, fs)' => "destroy" \in fs
  <1>1. StackOK(todo) /\ Frame("destroy", k) \in FrameRec
    BY FrameFacts DEF StackInv, Frames
  <1>2. \A g \in FrameSet(todo) : Under(Frame("destroy", k), g)
    BY FrameFacts DEF Under, Doomed, Pending
  <1>3. StackOK(todo)' /\ Pending' = Pending \cup {Frame("destroy", k)}
    BY <1>1, <1>2, StackPush DEF Pending
  <1>4. Doomed' = Doomed \cup {k}
    BY <1>3, FrameFacts DEF Doomed
  <1>5. \A fr \in Pending' : fr.f \notin {"destroy", "contexts"} => Frame(Then(fr.f), fr.o) \in Pending'
    BY <1>3, FrameFacts DEF StackInv
  <1>6. \A fr \in Pending' : fr.f \in {"queues", "removal"} => fr.o = "device"
    BY <1>3, FrameFacts DEF StackInv
  <1>7. \A x, fs : x # k => Left(x, fs)' = Left(x, fs)
    <2>1. \A x : x # k => \A fr : fr.o = x => (fr \in Pending' <=> fr \in Pending)
      BY <1>3, FrameFacts
    <2>2. QED
      BY <2>1, <1>4 DEF Left
  <1>8. \A fs : Left(k, fs)' => "destroy" \in fs
    BY <1>3, FrameFacts DEF Left
  <1>9. QED
    BY <1>3, <1>4, <1>5, <1>6, <1>7, <1>8

-----------------------------------------------------------------------------
(* winwdf_destroy_object enters the destructor of an object. *)
LEMMA Entered ==
    ASSUME StackInv, Running("destroy"), NEW o, o = Head(todo).o, todo' = Destructor(o) \o Tail(todo)
    PROVE  /\ Pending' = Rest \cup Parts(o) /\ Doomed' = Doomed
           /\ StackOK(todo)'
           /\ \A fr \in Pending' : fr.f \notin {"destroy", "contexts"} => Frame(Then(fr.f), fr.o) \in Pending'
           /\ \A fr \in Pending' : fr.f \in {"queues", "removal"} => fr.o = "device"
           /\ \A x, fs : x # o => Left(x, fs)' = Left(x, fs)
           /\ \A fs : Left(o, fs)' => "children" \in fs /\ (o = "device" => "queues" \in fs)
  <1>1. /\ Head(todo) = Frame("destroy", o) /\ o \in Objects /\ o \in Doomed
        /\ Pending = Rest \cup {Frame("destroy", o)}
        /\ StackOK(Tail(todo)) /\ Rest \subseteq FrameRec
        /\ \A g \in Rest : g.o \in Callers(o)
    BY TopFrame DEF Frames
  <1>2. StackOK(todo)' /\ Pending' = Rest \cup Parts(o)
    BY <1>1, StackEnter DEF Pending, Rest
  <1>3. \A fr \in Parts(o) : /\ fr.o = o /\ fr.f \in Frames \ {"destroy"}
                             /\ fr.f \in {"queues", "removal"} => o = "device"
                             /\ fr.f # "contexts" => Frame(Then(fr.f), o) \in Parts(o)
    BY FrameFacts, StepFacts DEF Parts, Frames
  <1>4. /\ Frame("children", o) \in Parts(o) /\ Frame("children", o).o = o
        /\ Frame("children", o).f = "children"
        /\ o = "device" => Frame("queues", o) \in Parts(o)
        /\ Frame("queues", o).o = o /\ Frame("queues", o).f = "queues"
    BY FrameFacts DEF Parts
  <1>5. Doomed' = Doomed
    <2>1. \A x : x \in Doomed' <=> x = o \/ \E g \in Rest : x = g.o
      BY <1>2, <1>3, <1>4 DEF Doomed
    <2>2. \A x : x \in Doomed <=> x = o \/ \E g \in Rest : x = g.o
      BY <1>1, FrameFacts DEF Doomed
    <2>3. QED
      BY <2>1, <2>2
  <1>6. ASSUME NEW fr \in Pending', fr.f \notin {"destroy", "contexts"}
        PROVE  Frame(Then(fr.f), fr.o) \in Pending'
    <2>1. CASE fr \in Parts(o)
      BY <2>1, <1>2, <1>3, <1>6
    <2>2. CASE fr \in Rest
      <3>1. Frame(Then(fr.f), fr.o) \in Pending
        BY <2>2, <1>1, <1>6 DEF StackInv
      <3>2. Frame(Then(fr.f), fr.o) # Frame("destroy", o)
        BY <2>2, <1>1, FrameFacts, CallersFacts
      <3>3. QED
        BY <3>1, <3>2, <1>1, <1>2
    <2>3. QED
      BY <2>1, <2>2, <1>2
  <1>7. \A fr \in Pending' : fr.f \in {"queues", "removal"} => fr.o = "device"
    BY <1>1, <1>2, <1>3 DEF StackInv
  <1>8. \A x, fs : x # o => Left(x, fs)' = Left(x, fs)
    <2>1. \A x : x # o => \A fr : fr.o = x => (fr \in Pending' <=> fr \in Pending)
      BY <1>1, <1>2, <1>3, FrameFacts
    <2>2. QED
      BY <2>1, <1>5 DEF Left
  <1>9. \A fs : Left(o, fs)' => "children" \in fs /\ (o = "device" => "queues" \in fs)
    BY <1>2, <1>4 DEF Left
  <1>10. QED
    BY <1>2, <1>5, <1>6, <1>7, <1>8, <1>9

LEMMA NoElements ==
    ASSUME NEW S, NEW s \in Seq(S), \A x \in S : ~Contains(s, x)
    PROVE  s = <<>>
  <1>1. Len(s) = 0
    <2> SUFFICES ASSUME Len(s) # 0 PROVE FALSE
      OBVIOUS
    <2>1. 1 \in 1..Len(s) /\ s[1] \in S
      OBVIOUS
    <2>2. QED
      BY <2>1 DEF Contains
  <1>2. QED
    BY <1>1

LEMMA NoneIn == \A x : ~Contains(<<>>, x)
  BY DEF Contains

LEMMA DestructorEntered ==
    ASSUME WdfInv, fault = None, winwdf_destroy_object
    PROVE  WdfInv'
  <1>1. PICK o : o = Head(todo).o
    OBVIOUS
  <1>2. Running("destroy") /\ (o = "driver" => linking = 0)
    BY <1>1 DEF winwdf_destroy_object
  <1>3. StackInv /\ TreeInv /\ QueueInv /\ EventInv /\ LinkInv
    BY DEF WdfInv
  <1>4. o \in Objects /\ o \in alive /\ o \in Doomed /\ Frame("destroy", o) \in Pending
    BY <1>1, <1>2, <1>3, TopFrame DEF Frames
  <1>5. UsesDevice(o) => "device" \in alive
    BY <1>3, <1>4 DEF UsesDevice, QueueInv
  <1>0. CASE Broken("queue_node")
    BY <1>0, BrokenKeeps DEF Faults
  <1> SUFFICES ASSUME ~Broken("queue_node") PROVE WdfInv'
    BY <1>0
  <1>6. /\ queues' = RemoveFirst(queues, o)
        /\ todo' = Destructor(o) \o Tail(todo)
        /\ UNCHANGED <<alive, parent, kids, dead, events, life, fault>>
    BY <1>1, <1>4, <1>5 DEF winwdf_destroy_object, wdf_remove_device_queue
  <1>7. /\ Pending' = Rest \cup Parts(o) /\ Doomed' = Doomed
        /\ StackOK(todo)'
        /\ \A fr \in Pending' : fr.f \notin {"destroy", "contexts"} => Frame(Then(fr.f), fr.o) \in Pending'
        /\ \A fr \in Pending' : fr.f \in {"queues", "removal"} => fr.o = "device"
        /\ \A x, fs : x # o => Left(x, fs)' = Left(x, fs)
        /\ \A fs : Left(o, fs)' => "children" \in fs /\ (o = "device" => "queues" \in fs)
    BY <1>1, <1>2, <1>3, <1>6, Entered
  <1>8. \A x, fs : "children" \notin fs => (Left(x, fs)' => Left(x, fs))
    BY <1>7
  <1>9. StackInv'
    BY <1>3, <1>6, <1>7 DEF StackInv
  <1>10. TreeInv'
    BY <1>3, <1>6, <1>7, <1>8 DEF TreeInv
  <1>11. QueueInv'
    <2>1. queues \in Seq(Queues) /\ Once(queues)
      BY <1>3 DEF QueueInv
    <2>2. queues' \in Seq(Queues) /\ Without(queues', queues, o)
      BY <2>1, <1>6, RemoveFacts
    <2>3. Once(queues') /\ \A x : Contains(queues', x) <=> Contains(queues, x) /\ x # o
      BY <2>2 DEF Without
    <2>4. \A q \in Queues : Contains(queues', q) => q \in alive'
      BY <2>3, <1>3, <1>6 DEF QueueInv
    <2>5. \A q \in Queues \cap alive' : Contains(queues', q) \/ q \in Doomed'
      BY <2>3, <1>3, <1>4, <1>6, <1>7 DEF QueueInv
    <2>6. \A fr \in Pending' : fr.f # "destroy" \/ "driver" \notin Doomed' => ~Contains(queues', fr.o)
      <3>1. \A fr \in Parts(o) : fr.o = o
        BY FrameFacts DEF Parts
      <3>2. Rest \subseteq Pending
        BY <1>1, <1>2, <1>3, TopFrame DEF Frames
      <3>3. QED
        BY <3>1, <3>2, <2>3, <1>3, <1>7 DEF QueueInv
    <2>7. Left("device", {"removal", "children", "unlink", "contexts"})' => queues' = <<>>
      <3> SUFFICES ASSUME Left("device", {"removal", "children", "unlink", "contexts"})'
                   PROVE  queues' = <<>>
        OBVIOUS
      <3>1. o # "device"
        BY <1>7
      <3>2. Left("device", {"removal", "children", "unlink", "contexts"})
        BY <3>1, <1>7
      <3>3. queues = <<>>
        BY <3>2, <1>3 DEF QueueInv
      <3>4. \A x \in Queues : ~Contains(queues', x)
        BY <3>3, <2>3, NoneIn
      <3>5. QED
        BY <3>4, <2>2, NoElements
    <2>8. UNCHANGED <<alive, kids, Doomed>>
      BY <1>6, <1>7
    <2>9. QED
      BY <2>2, <2>3, <2>4, <2>5, <2>6, <2>7, <2>8, <1>3 DEF QueueInv
  <1>12. EventInv'
    <2>1. UNCHANGED <<cell, evtq, acts, linking, alive>>
      BY <1>6 DEF events
    <2>2. CellsLinked' /\ ActsOwned' /\ ActsOrder'
      BY <2>1, <1>3 DEF EventInv, CellsLinked, ActsOwned, ActsOrder
    <2>3. QED
      BY <2>1, <2>2, <1>3, <1>8 DEF EventInv
  <1>13. LinkInv'
    <2>1. UNCHANGED <<cell, evtq, flushing, linking>>
      BY <1>6 DEF events
    <2>2. ~(linking # 0 /\ "driver" \in Doomed)
      <3> SUFFICES ASSUME linking # 0, "driver" \in Doomed PROVE FALSE
        OBVIOUS
      <3>1. Pending = {Frame("destroy", "driver")}
        BY <1>3 DEF LinkInv
      <3>2. o = "driver"
        BY <3>1, <1>4, FrameFacts
      <3>3. QED
        BY <3>2, <1>2
    <2>3. QED
      BY <2>1, <2>2, <1>3, <1>7 DEF LinkInv
  <1>14. PlaceInv'
    BY <1>6, <1>7 DEF WdfInv, PlaceInv, events, life
  <1>15. RestInv'
    BY <1>6 DEF WdfInv, RestInv, life
  <1>16. QED
    BY <1>9, <1>10, <1>11, <1>12, <1>13, <1>14, <1>15 DEF WdfInv

(* What a part of a destructor that leaves the tree and the events alone    *)
(* keeps.                                                                   *)
LEMMA EventsStay ==
    ASSUME WdfInv, UNCHANGED <<events, alive>>,
           \A x \in Objects : Left(x, {"contexts"})' => Left(x, {"contexts"}),
           linking # 0 => cell[linking].obj \notin Doomed' /\ "driver" \notin Doomed'
    PROVE  EventInv' /\ LinkInv'
  <1>1. EventInv /\ LinkInv /\ UNCHANGED <<cell, evtq, acts, flushing, linking, alive>>
    BY DEF WdfInv, events
  <1>2. CellsLinked' /\ ActsOwned' /\ ActsOrder'
    BY <1>1 DEF EventInv, CellsLinked, ActsOwned, ActsOrder
  <1>3. EventInv'
    BY <1>1, <1>2 DEF EventInv
  <1>4. LinkInv'
    BY <1>1 DEF LinkInv
  <1>5. QED
    BY <1>3, <1>4

(* While a destructor runs no action is being linked below the driver.      *)
LEMMA NotLinking ==
    ASSUME WdfInv, NEW f \in Frames \ {"destroy"}, Running(f), linking # 0
    PROVE  "driver" \notin Doomed
  <1> SUFFICES ASSUME "driver" \in Doomed PROVE FALSE
    OBVIOUS
  <1>1. Pending = {Frame("destroy", "driver")}
    BY DEF WdfInv, LinkInv
  <1>2. PICK o : o = Head(todo).o
    OBVIOUS
  <1>3. Frame(f, o) \in Pending
    BY <1>2, TopFrame DEF WdfInv
  <1>4. QED
    BY <1>1, <1>3, FrameFacts

-----------------------------------------------------------------------------
(* The parts of a destructor: the queues of the device, and its removal.   *)
LEMMA QueuesDone ==
    ASSUME WdfInv, fault = None, DestroyQueues, queues = <<>>
    PROVE  WdfInv'
  <1>1. PICK o : o = Head(todo).o
    OBVIOUS
  <1>2. /\ Running("queues") /\ todo' = Tail(todo)
        /\ UNCHANGED <<queues, alive, parent, kids, dead, events, life, fault>>
    BY DEF DestroyQueues
  <1>3. StackInv /\ TreeInv /\ QueueInv
    BY DEF WdfInv
  <1>4. /\ Pending' = Pending \ {Frame("queues", o)} /\ Doomed' = Doomed
        /\ StackOK(todo)'
        /\ \A fr \in Pending' : fr.f \notin {"destroy", "contexts"} => Frame(Then(fr.f), fr.o) \in Pending'
        /\ \A fr \in Pending' : fr.f \in {"queues", "removal"} => fr.o = "device"
        /\ \A x, fs : x # o => Left(x, fs)' = Left(x, fs)
        /\ \A fs : Left(o, fs)' => Then("queues") \in fs
    BY <1>1, <1>2, <1>3, Popped DEF Frames
  <1>5. \A x, fs : "removal" \notin fs => (Left(x, fs)' => Left(x, fs))
    BY <1>4, StepFacts
  <1>6. StackInv'
    BY <1>2, <1>3, <1>4 DEF StackInv
  <1>7. TreeInv'
    BY <1>2, <1>3, <1>4, <1>5 DEF TreeInv
  <1>8. QueueInv'
    BY <1>2, <1>3, <1>4 DEF QueueInv
  <1>9. linking # 0 => cell[linking].obj \notin Doomed' /\ "driver" \notin Doomed'
    BY <1>2, <1>4, NotLinking DEF WdfInv, LinkInv, Frames
  <1>10. EventInv' /\ LinkInv'
    BY <1>2, <1>5, <1>9, EventsStay
  <1>11. PlaceInv'
    BY <1>2, <1>4 DEF WdfInv, PlaceInv, events, life
  <1>12. RestInv'
    BY <1>2 DEF WdfInv, RestInv, life
  <1>13. QED
    BY <1>6, <1>7, <1>8, <1>10, <1>11, <1>12 DEF WdfInv

LEMMA QueueCalled ==
    ASSUME WdfInv, fault = None, DestroyQueues, queues # <<>>
    PROVE  WdfInv'
  <1>1. PICK q : q = Head(queues)
    OBVIOUS
  <1>2. /\ Running("queues") /\ queues' = Tail(queues) /\ todo' = <<Frame("destroy", q)>> \o todo
        /\ UNCHANGED <<alive, parent, kids, dead, events, life, fault>>
    BY <1>1 DEF DestroyQueues
  <1>3. StackInv /\ TreeInv /\ QueueInv /\ Doomed \subseteq alive
    BY DEF WdfInv, StackInv
  <1>4. PICK o : o = Head(todo).o
    OBVIOUS
  <1>5. /\ o \in Doomed /\ Frame("queues", o) \in Pending /\ \A x \in Doomed : x = o \/ x \in Callers(o)
    BY <1>2, <1>3, <1>4, TopFrame DEF Frames
  <1>6. o = "device"
    BY <1>3, <1>5, FrameFacts DEF StackInv
  <1>7. \A x \in Doomed : x \in {"device", "driver"}
    BY <1>5, <1>6, KindFacts
  <1>8. /\ q \in Queues /\ queues' \in Seq(Queues) /\ Once(queues') /\ Contains(queues, q)
        /\ \A x : Contains(queues', x) <=> Contains(queues, x) /\ x # q
    BY <1>1, <1>2, <1>3, TailFacts, TailContains DEF QueueInv
  <1>9. q \in alive /\ q \in Objects /\ q \notin Doomed /\ q \notin Extras \cup {"driver", "device", "file", "create"}
    BY <1>3, <1>7, <1>8, KindFacts DEF QueueInv, Objects
  <1>10. "driver" \notin Doomed
    BY <1>3, <1>5, <1>6, <1>8, <1>9 DEF QueueInv
  <1>11. \A x \in Doomed : x \in Callers(q)
    BY <1>7, <1>8, KindFacts
  <1>12. /\ Pending' = Pending \cup {Frame("destroy", q)} /\ Doomed' = Doomed \cup {q}
         /\ StackOK(todo)'
         /\ \A fr \in Pending' : fr.f \notin {"destroy", "contexts"} => Frame(Then(fr.f), fr.o) \in Pending'
         /\ \A fr \in Pending' : fr.f \in {"queues", "removal"} => fr.o = "device"
         /\ \A x, fs : x # q => Left(x, fs)' = Left(x, fs)
         /\ \A fs : Left(q, fs)' => "destroy" \in fs
    BY <1>2, <1>3, <1>9, <1>11, Called
  <1>13. \A x, fs : "destroy" \notin fs => (Left(x, fs)' => Left(x, fs))
    BY <1>12
  <1>14. StackInv'
    BY <1>2, <1>3, <1>9, <1>12 DEF StackInv
  <1>15. TreeInv'
    <2>1. \A x \in Doomed' : parent'[x] \notin Doomed'
      <3>1. \A x \in Doomed : parent[x] # q
        <4> SUFFICES ASSUME NEW x \in Doomed PROVE parent[x] # q
          OBVIOUS
        <4>1. x \in Objects
          BY <1>3 DEF TreeInv
        <4>2. QED
          BY <4>1, <1>3, <1>9, KindFacts, ParentFacts
      <3>2. parent[q] \in {"driver", None}
        BY <1>3, <1>8, <1>9, KindFacts DEF TreeInv
      <3>3. None \notin Doomed'
        BY <1>7, <1>9, <1>12, KindFacts DEF None
      <3>4. parent[q] \notin Doomed'
        BY <3>2, <3>3, <1>9, <1>10, <1>12
      <3>5. QED
        BY <3>1, <3>4, <1>2, <1>3, <1>12 DEF TreeInv
    <2>2. QED
      BY <2>1, <1>2, <1>3, <1>12, <1>13 DEF TreeInv
  <1>16. QueueInv'
    <2>1. \A y \in Queues : Contains(queues', y) => y \in alive'
      BY <1>2, <1>3, <1>8 DEF QueueInv
    <2>2. \A y \in Queues \cap alive' : Contains(queues', y) \/ y \in Doomed'
      BY <1>2, <1>3, <1>8, <1>12 DEF QueueInv
    <2>3. \A fr \in Pending' : fr.f # "destroy" \/ "driver" \notin Doomed' => ~Contains(queues', fr.o)
      BY <1>3, <1>8, <1>12, FrameFacts DEF QueueInv
    <2>4. ~Left("device", {"removal", "children", "unlink", "contexts"})'
      BY <1>5, <1>6, <1>12, FrameFacts DEF Left
    <2>5. "driver" \notin Doomed'
      BY <1>9, <1>10, <1>12
    <2>6. UNCHANGED <<alive, kids>>
      BY <1>2
    <2>7. QED
      BY <2>1, <2>2, <2>3, <2>4, <2>5, <2>6, <1>3, <1>8 DEF QueueInv
  <1>17. linking # 0 => cell[linking].obj \notin Doomed' /\ "driver" \notin Doomed'
    BY <1>9, <1>10, <1>12 DEF WdfInv, LinkInv
  <1>18. EventInv' /\ LinkInv'
    BY <1>2, <1>13, <1>17, EventsStay
  <1>19. PlaceInv'
    BY <1>2, <1>5, <1>6, <1>9, <1>12 DEF WdfInv, PlaceInv, events, life
  <1>20. RestInv'
    BY <1>2 DEF WdfInv, RestInv, life
  <1>21. QED
    BY <1>14, <1>15, <1>16, <1>18, <1>19, <1>20 DEF WdfInv

LEMMA RemovalDone ==
    ASSUME WdfInv, fault = None, RemovalCallbacks
    PROVE  WdfInv' /\ queues = <<>> /\ alive \cap Queues = {}
  <1>1. PICK o : o = Head(todo).o
    OBVIOUS
  <1>2. /\ Running("removal") /\ todo' = Tail(todo) /\ hw' = FALSE /\ fault' \in {None, "abort"}
        /\ UNCHANGED <<tree, events, at, opens>>
    BY DEF RemovalCallbacks
  <1>3. StackInv /\ TreeInv /\ QueueInv
    BY DEF WdfInv
  <1>4. /\ Pending' = Pending \ {Frame("removal", o)} /\ Doomed' = Doomed
        /\ StackOK(todo)'
        /\ \A fr \in Pending' : fr.f \notin {"destroy", "contexts"} => Frame(Then(fr.f), fr.o) \in Pending'
        /\ \A fr \in Pending' : fr.f \in {"queues", "removal"} => fr.o = "device"
        /\ \A x, fs : x # o => Left(x, fs)' = Left(x, fs)
        /\ \A fs : Left(o, fs)' => Then("removal") \in fs
    BY <1>1, <1>2, <1>3, Popped DEF Frames
  <1>5. \A x, fs : "children" \notin fs => (Left(x, fs)' => Left(x, fs))
    BY <1>4, StepFacts
  <1>6. /\ Frame("removal", o) \in Pending /\ \A x \in Doomed : x = o \/ x \in Callers(o)
    BY <1>1, <1>2, <1>3, TopFrame DEF Frames
  <1>7. o = "device"
    BY <1>3, <1>6, FrameFacts DEF StackInv
  <1>8. Left("device", {"removal", "children", "unlink", "contexts"})
    BY <1>1, <1>2, <1>3, <1>7, TopLeft, StepFacts DEF Frames
  <1>9. queues = <<>>
    BY <1>3, <1>8 DEF QueueInv
  <1>10. alive \cap Queues = {}
    <2>1. \A q \in Queues : q \notin Doomed
      BY <1>6, <1>7, KindFacts
    <2>2. QED
      BY <2>1, <1>3, <1>9, NoneIn DEF QueueInv
  <1>11. StackInv'
    BY <1>2, <1>3, <1>4 DEF StackInv, tree
  <1>12. TreeInv'
    BY <1>2, <1>3, <1>4, <1>5 DEF TreeInv, tree
  <1>13. QueueInv'
    BY <1>2, <1>3, <1>4, <1>9 DEF QueueInv, tree
  <1>14. linking # 0 => cell[linking].obj \notin Doomed' /\ "driver" \notin Doomed'
    BY <1>2, <1>4, NotLinking DEF WdfInv, LinkInv, Frames
  <1>15. EventInv' /\ LinkInv'
    BY <1>2, <1>5, <1>14, EventsStay DEF tree
  <1>16. PlaceInv'
    BY <1>2, <1>4 DEF WdfInv, PlaceInv, events, tree
  <1>17. RestInv'
    BY <1>2 DEF WdfInv, RestInv, Faults, None
  <1>18. QED
    BY <1>9, <1>10, <1>11, <1>12, <1>13, <1>15, <1>16, <1>17 DEF WdfInv

-----------------------------------------------------------------------------
(* The children of the object. *)
LEMMA ChildrenDone ==
    ASSUME WdfInv, fault = None, DestroyChildren, NEW o, o = Head(todo).o, kids[o] = <<>>
    PROVE  WdfInv'
  <1>2. /\ Running("children") /\ todo' = Tail(todo) /\ dead' = dead \cup {o}
        /\ UNCHANGED <<queues, alive, parent, kids, events, life, fault>>
    BY DEF DestroyChildren
  <1>3. StackInv /\ TreeInv /\ QueueInv
    BY DEF WdfInv
  <1>4. /\ Pending' = Pending \ {Frame("children", o)} /\ Doomed' = Doomed
        /\ StackOK(todo)'
        /\ \A fr \in Pending' : fr.f \notin {"destroy", "contexts"} => Frame(Then(fr.f), fr.o) \in Pending'
        /\ \A fr \in Pending' : fr.f \in {"queues", "removal"} => fr.o = "device"
        /\ \A x, fs : x # o => Left(x, fs)' = Left(x, fs)
        /\ \A fs : Left(o, fs)' => Then("children") \in fs
    BY <1>2, <1>3, Popped DEF Frames
  <1>5. \A x, fs : "unlink" \notin fs => (Left(x, fs)' => Left(x, fs))
    BY <1>4, StepFacts
  <1>6. o \in Objects /\ o \in Doomed
    BY <1>2, <1>3, TopFrame DEF Frames
  <1>7. StackInv'
    BY <1>2, <1>3, <1>4 DEF StackInv
  <1>8. TreeInv'
    <2>1. \A x \in Objects : Left(x, {"unlink", "contexts"})' => kids'[x] = <<>>
      <3>1. \A x \in Objects : Left(x, {"unlink", "contexts"}) => kids[x] = <<>>
        BY <1>3 DEF TreeInv
      <3>2. QED
        BY <3>1, <1>2, <1>4
    <2>2. dead' \subseteq Objects /\ dead' \cap alive' \subseteq Doomed'
      <3>1. dead \subseteq Objects /\ dead \cap alive \subseteq Doomed
        BY <1>3 DEF TreeInv
      <3>2. QED
        BY <3>1, <1>2, <1>4, <1>6
    <2>3. \A x \in Objects : Left(x, {"contexts"})' => parent'[x] = None
      BY <1>2, <1>3, <1>5 DEF TreeInv
    <2>4. QED
      BY <2>1, <2>2, <2>3, <1>2, <1>3, <1>4 DEF TreeInv
  <1>9. QueueInv'
    <2>1. Left("device", {"removal", "children", "unlink", "contexts"})' => queues' = <<>>
      <3>1. CASE o = "device"
        <4>1. Left("device", {"removal", "children", "unlink", "contexts"})
          BY <3>1, <1>2, <1>3, TopLeft, StepFacts DEF Frames
        <4>2. QED
          BY <4>1, <1>2, <1>3 DEF QueueInv
      <3>2. CASE o # "device"
        BY <3>2, <1>2, <1>3, <1>4 DEF QueueInv
      <3>3. QED
        BY <3>1, <3>2
    <2>2. QED
      BY <2>1, <1>2, <1>3, <1>4 DEF QueueInv
  <1>10. linking # 0 => cell[linking].obj \notin Doomed' /\ "driver" \notin Doomed'
    BY <1>2, <1>4, NotLinking DEF WdfInv, LinkInv, Frames
  <1>11. EventInv' /\ LinkInv'
    BY <1>2, <1>5, <1>10, EventsStay
  <1>12. PlaceInv'
    BY <1>2, <1>4 DEF WdfInv, PlaceInv, events, life
  <1>13. RestInv'
    BY <1>2 DEF WdfInv, RestInv, life
  <1>14. QED
    BY <1>7, <1>8, <1>9, <1>11, <1>12, <1>13 DEF WdfInv

(* A child is called: it is no longer on the list, and was not doomed.      *)
LEMMA ChildCalled ==
    ASSUME WdfInv, fault = None, DestroyChildren, NEW o, o = Head(todo).o, kids[o] # <<>>
    PROVE  WdfInv'
  <1>1. PICK k : k = Head(kids[o])
    OBVIOUS
  <1>2. /\ Running("children") /\ todo' = <<Frame("destroy", k)>> \o todo /\ dead' = dead \cup {o}
        /\ kids' = [kids EXCEPT ![o] = Tail(@)] /\ parent' = [parent EXCEPT ![k] = None]
        /\ UNCHANGED <<queues, alive, events, life, fault>>
    BY <1>1 DEF DestroyChildren
  <1>3. StackInv /\ TreeInv /\ QueueInv /\ Doomed \subseteq alive
    BY DEF WdfInv, StackInv
  <1>4. /\ o \in Objects /\ o \in alive /\ o \in Doomed /\ Frame("children", o) \in Pending
        /\ \A x \in Doomed : x = o \/ x \in Callers(o)
    BY <1>2, <1>3, TopFrame DEF Frames
  <1>5. kids \in [Objects -> Seq(Objects)] /\ kids[o] \in Seq(Objects) /\ Once(kids[o])
    BY <1>3, <1>4 DEF TreeInv
  <1>6. /\ k \in Objects /\ Tail(kids[o]) \in Seq(Objects) /\ Contains(kids[o], k) /\ Once(Tail(kids[o]))
        /\ \A x : Contains(Tail(kids[o]), x) <=> Contains(kids[o], x) /\ x # k
    BY <1>1, <1>5, TailFacts, TailContains
  <1>7. k \in alive /\ parent[k] = o /\ o # None
    BY <1>3, <1>4, <1>6, KindFacts DEF TreeInv
  <1>8. o \in Callers(k) /\ Callers(o) \subseteq Callers(k) /\ o \in Parents(k)
    BY <1>3, <1>6, <1>7, ParentFacts, CallersFacts DEF TreeInv
  <1>9. \A x \in Doomed : x \in Callers(k)
    BY <1>4, <1>8
  <1>10. k \notin Doomed
    BY <1>6, <1>9, CallersFacts
  <1>11. /\ Pending' = Pending \cup {Frame("destroy", k)} /\ Doomed' = Doomed \cup {k}
         /\ StackOK(todo)'
         /\ \A fr \in Pending' : fr.f \notin {"destroy", "contexts"} => Frame(Then(fr.f), fr.o) \in Pending'
         /\ \A fr \in Pending' : fr.f \in {"queues", "removal"} => fr.o = "device"
         /\ \A x, fs : x # k => Left(x, fs)' = Left(x, fs)
         /\ \A fs : Left(k, fs)' => "destroy" \in fs
    BY <1>2, <1>3, <1>6, <1>7, <1>9, <1>10, Called
  <1>12. \A x, fs : "destroy" \notin fs => (Left(x, fs)' => x # k /\ Left(x, fs))
    BY <1>11
  <1>13. /\ kids' \in [Objects -> Seq(Objects)] /\ kids'[o] = Tail(kids[o])
         /\ \A x \in Objects : x # o => kids'[x] = kids[x]
    BY <1>2, <1>4, <1>5, <1>6
  <1>14. /\ parent' \in [Objects -> Objects \cup {None}] /\ parent'[k] = None
         /\ \A x \in Objects : x # k => parent'[x] = parent[x]
    BY <1>2, <1>3, <1>6 DEF TreeInv
  <1>15. StackInv'
    BY <1>2, <1>3, <1>7, <1>11 DEF StackInv
  <1>16. TreeInv'
    <2>1. alive' \subseteq Objects /\ dead' \subseteq Objects /\ dead' \cap alive' \subseteq Doomed'
      <3>1. alive \subseteq Objects /\ dead \subseteq Objects /\ dead \cap alive \subseteq Doomed
        BY <1>3 DEF TreeInv
      <3>2. QED
        BY <3>1, <1>2, <1>4, <1>11
    <2>2. \A x \in Objects : parent'[x] \in Parents(x)
      <3>1. None \in Parents(k)
        BY DEF Parents
      <3>2. QED
        BY <3>1, <1>3, <1>14 DEF TreeInv
    <2>3. \A x \in Objects : Once(kids'[x])
      <3>1. \A x \in Objects : Once(kids[x])
        BY <1>3 DEF TreeInv
      <3>2. Once(kids'[o])
        BY <1>6, <1>13
      <3>3. QED
        BY <3>1, <3>2, <1>13
    <2>4. ASSUME NEW x \in alive', NEW y \in Objects, Contains(kids'[x], y)
          PROVE  y \in alive' /\ parent'[y] = x
      <3>0. x \in alive /\ x \in Objects
        BY <1>2, <1>3 DEF TreeInv
      <3>1. Contains(kids[x], y) /\ (x = o => y # k)
        BY <3>0, <2>4, <1>6, <1>13
      <3>2. y \in alive /\ parent[y] = x
        BY <3>0, <3>1, <1>3 DEF TreeInv
      <3>3. y # k
        BY <3>1, <3>2, <1>7
      <3>4. QED
        BY <3>2, <3>3, <1>2, <1>14
    <2>5. ASSUME NEW x \in alive', parent'[x] # None
          PROVE  parent'[x] \in alive' /\ Contains(kids'[parent'[x]], x)
      <3>1. x \in alive /\ x \in Objects /\ x # k
        BY <2>5, <1>2, <1>3, <1>14 DEF TreeInv
      <3>2. parent'[x] = parent[x] /\ parent[x] \in alive /\ Contains(kids[parent[x]], x)
        BY <3>1, <2>5, <1>3, <1>14 DEF TreeInv
      <3>3. parent[x] \in Objects
        BY <3>2, <1>3 DEF TreeInv
      <3>4. QED
        BY <3>1, <3>2, <3>3, <1>2, <1>6, <1>13
    <2>6. \A x \in alive' : parent'[x] = None /\ x # "driver" => x \in Doomed'
      <3> SUFFICES ASSUME NEW x \in alive, parent'[x] = None, x # "driver" PROVE x \in Doomed'
        BY <1>2
      <3>1. x \in Objects
        BY <1>3 DEF TreeInv
      <3>2. x = k \/ parent[x] = None
        BY <3>1, <1>14
      <3>3. QED
        BY <3>2, <1>3, <1>11 DEF TreeInv
    <2>7. \A x \in Doomed' : parent'[x] \notin Doomed'
      <3> SUFFICES ASSUME NEW x \in Doomed' PROVE parent'[x] \notin Doomed'
        OBVIOUS
      <3>1. None \notin Doomed'
        BY <1>3, <1>6, <1>11, KindFacts DEF TreeInv
      <3>2. CASE x = k
        BY <3>1, <3>2, <1>14
      <3>3. CASE x # k
        <4>1. x \in Doomed /\ x \in Objects
          BY <3>3, <1>3, <1>11 DEF TreeInv
        <4>2. parent'[x] = parent[x] /\ parent[x] \notin Doomed
          BY <3>3, <4>1, <1>3, <1>14 DEF TreeInv
        <4>3. parent[x] # k
          <5> SUFFICES ASSUME parent[x] = k PROVE FALSE
            OBVIOUS
          <5>1. k \in Callers(x)
            BY <4>1, <1>3, <1>6, ParentFacts, KindFacts
          <5>2. x \in Callers(k)
            BY <4>1, <1>9
          <5>3. QED
            BY <5>1, <5>2, <1>6, CallersFacts
        <4>4. QED
          BY <4>2, <4>3, <1>11
      <3>4. QED
        BY <3>2, <3>3
    <2>8. \A x \in Objects : Left(x, {"unlink", "contexts"})' => kids'[x] = <<>>
      <3> SUFFICES ASSUME NEW x \in Objects, Left(x, {"unlink", "contexts"})' PROVE kids'[x] = <<>>
        OBVIOUS
      <3>1. Left(x, {"unlink", "contexts"})
        BY <1>12
      <3>2. x # o
        BY <3>1, <1>4, FrameFacts DEF Left
      <3>3. QED
        BY <3>1, <3>2, <1>3, <1>13 DEF TreeInv
    <2>9. \A x \in Objects : Left(x, {"contexts"})' => parent'[x] = None
      BY <1>3, <1>12, <1>14 DEF TreeInv
    <2>10. "create" \in alive' => "create" \in Doomed'
      BY <1>2, <1>3, <1>11 DEF TreeInv
    <2>11. QED
      BY <2>1, <2>2, <2>3, <2>4, <2>5, <2>6, <2>7, <2>8, <2>9, <2>10, <1>13, <1>14 DEF TreeInv
  <1>17. QueueInv'
    <2>1. /\ \A q \in Queues : Contains(queues', q) => q \in alive'
          /\ \A q \in Queues \cap alive' : Contains(queues', q) \/ q \in Doomed'
      BY <1>2, <1>3, <1>11 DEF QueueInv
    <2>6. \A fr \in Pending' : fr.f # "destroy" \/ "driver" \notin Doomed' => ~Contains(queues', fr.o)
      <3> SUFFICES ASSUME NEW fr \in Pending', fr.f # "destroy" \/ "driver" \notin Doomed'
                   PROVE  ~Contains(queues, fr.o)
        BY <1>2
      <3>1. CASE fr \in Pending
        BY <3>1, <1>3, <1>11 DEF QueueInv
      <3>2. CASE fr = Frame("destroy", k)
        <4>1. fr.f = "destroy" /\ fr.o = k
          BY <3>2, FrameFacts
        <4> SUFFICES ASSUME Contains(queues, k) PROVE FALSE
          BY <4>1
        <4>2. k \in Queues
          BY <1>3, OnlyQueues
        <4>3. o = "driver"
          BY <4>2, <1>7, <1>8, KindFacts
        <4>4. QED
          BY <4>1, <4>3, <1>4, <1>11
      <3>3. QED
        BY <3>1, <3>2, <1>11
    <2>2. Left("device", {"removal", "children", "unlink", "contexts"})' => queues' = <<>>
      BY <1>2, <1>3, <1>12 DEF QueueInv
    <2>0. \A i, j \in 1..Len(kids["driver"]) :
             kids["driver"][i] \in Queues /\ kids["driver"][j] = "device" => i < j
      BY <1>3 DEF QueueInv
    <2>3. {"driver", "device"} \subseteq Doomed' => Queues \cap alive' = {}
      <3> SUFFICES ASSUME "driver" \in Doomed', "device" \in Doomed', NEW q \in Queues, q \in alive
                   PROVE  FALSE
        BY <1>2
      <3>1. k # "driver"
        BY <1>8, KindFacts
      <3>2. "driver" \in Doomed
        BY <3>1, <1>11
      <3>3. k = "device"
        BY <3>2, <1>3, <1>11 DEF QueueInv
      <3>4. o = "driver" /\ \A x \in Doomed : x = "driver"
        BY <3>3, <1>7, <1>8, <1>9, KindFacts
      <3>5. q \notin Doomed /\ q # "driver" /\ q \in Objects
        BY <3>4, KindFacts DEF Objects
      <3>6. parent[q] = "driver"
        BY <3>5, <1>3, KindFacts DEF TreeInv
      <3>7. Contains(kids["driver"], q)
        <4>1. "driver" # None /\ \A x \in alive : parent[x] # None => Contains(kids[parent[x]], x)
          BY <1>3 DEF TreeInv, None
        <4>2. Contains(kids[parent[q]], q)
          BY <4>1, <3>6
        <4>3. QED
          BY <4>2, <3>6
      <3>8. PICK i \in 1..Len(kids["driver"]) : kids["driver"][i] = q
        BY <3>7 DEF Contains
      <3>9. 1 \in 1..Len(kids["driver"]) /\ kids["driver"][1] = "device"
        BY <3>3, <3>4, <3>8, <1>1, <1>5
      <3>10. i < 1
        BY <3>8, <3>9, <2>0
      <3>11. QED
        BY <3>10
    <2>4. ASSUME NEW i \in 1..Len(kids'["driver"]), NEW j \in 1..Len(kids'["driver"]),
                 kids'["driver"][i] \in Queues, kids'["driver"][j] = "device"
          PROVE  i < j
      <3>1. CASE o # "driver"
        <4>1. kids'["driver"] = kids["driver"]
          BY <3>1, <1>13 DEF Objects
        <4>2. QED
          BY <4>1, <2>0, <2>4
      <3>2. CASE o = "driver"
        <4>1. /\ Len(kids'["driver"]) = Len(kids["driver"]) - 1 /\ Len(kids["driver"]) \in Nat
              /\ \A m \in 1..(Len(kids["driver"]) - 1) :
                    m + 1 \in 1..Len(kids["driver"]) /\ kids'["driver"][m] = kids["driver"][m + 1]
          BY <3>2, <1>5, <1>13, TailFacts
        <4>2. /\ i + 1 \in 1..Len(kids["driver"]) /\ kids["driver"][i + 1] \in Queues
              /\ j + 1 \in 1..Len(kids["driver"]) /\ kids["driver"][j + 1] = "device"
          BY <4>1, <2>4
        <4>3. i + 1 < j + 1
          BY <4>2, <2>0
        <4>4. QED
          BY <4>1, <4>3
      <3>3. QED
        BY <3>1, <3>2
    <2>5. UNCHANGED <<alive, queues>>
      BY <1>2
    <2>7. QED
      BY <2>1, <2>2, <2>3, <2>4, <2>5, <2>6, <1>3 DEF QueueInv
  <1>18. /\ k \in Extras \cup Queues \cup {"device"} => o = "driver"
         /\ k = "file" => o = "device"
         /\ k # "create" /\ k # "driver"
    <2>1. k # "create"
      BY <1>3, <1>7, <1>10 DEF TreeInv
    <2>2. QED
      BY <2>1, <1>4, <1>7, <1>8, KindFacts
  <1>19. linking # 0 => cell[linking].obj \notin Doomed' /\ "driver" \notin Doomed'
    <2> SUFFICES ASSUME linking # 0 PROVE cell[linking].obj \notin Doomed' /\ "driver" \notin Doomed'
      OBVIOUS
    <2>1. "driver" \notin Doomed
      BY <1>2, NotLinking DEF Frames
    <2>2. cell[linking].obj \in Extras /\ cell[linking].obj \notin Doomed
      BY DEF WdfInv, LinkInv
    <2>3. k \notin Extras
      BY <2>1, <1>4, <1>18
    <2>4. QED
      BY <2>1, <2>2, <2>3, <1>11, <1>18
  <1>20. EventInv' /\ LinkInv'
    BY <1>2, <1>12, <1>19, EventsStay
  <1>21. PlaceInv'
    <2>1. o = "driver" => at = "unload"
      BY <1>4 DEF WdfInv, PlaceInv
    <2>2. o = "device" => at \in {"device_gone", "unload"}
      BY <1>4 DEF WdfInv, PlaceInv
    <2>3. UNCHANGED <<at, alive, flushing>>
      BY <1>2 DEF events, life
    <2>4. QED
      BY <2>1, <2>2, <2>3, <1>4, <1>11, <1>18 DEF WdfInv, PlaceInv
  <1>22. RestInv'
    BY <1>2 DEF WdfInv, RestInv, life
  <1>23. QED
    BY <1>15, <1>16, <1>17, <1>20, <1>21, <1>22 DEF WdfInv

-----------------------------------------------------------------------------
(* The object leaves its parent's list, and its actions are orphaned.       *)
LEMMA ObjectUnlinked ==
    ASSUME WdfInv, fault = None, Unlink
    PROVE  WdfInv'
  <1>1. PICK o : o = Head(todo).o
    OBVIOUS
  <1>2. PICK p : p = parent[o]
    OBVIOUS
  <1>3. StackInv /\ TreeInv /\ QueueInv /\ EventInv /\ LinkInv /\ Running("unlink")
    BY DEF WdfInv, Unlink
  <1>4. o \in Objects /\ o \in alive /\ o \in Doomed
    BY <1>1, <1>3, TopFrame DEF Frames
  <1>5. p # None => p \in alive /\ p \notin Doomed /\ p \notin dead /\ p \in Objects
    <2> SUFFICES ASSUME p # None PROVE p \in alive /\ p \notin Doomed /\ p \notin dead /\ p \in Objects
      OBVIOUS
    <2>1. p \in alive /\ p \notin Doomed
      BY <1>2, <1>3, <1>4 DEF TreeInv
    <2>2. QED
      BY <2>1, <1>3 DEF TreeInv
  <1>6. /\ kids' = IF p # None THEN [kids EXCEPT ![p] = RemoveFirst(@, o)] ELSE kids
        /\ parent' = [parent EXCEPT ![o] = None]
        /\ cell' = [c \in Cells |-> IF Contains(acts[o], c) THEN [cell[c] EXCEPT !.obj = None] ELSE cell[c]]
        /\ acts' = [acts EXCEPT ![o] = <<>>]
        /\ todo' = Tail(todo)
        /\ UNCHANGED <<alive, dead, queues, evtq, flushing, linking, life, fault>>
    BY <1>1, <1>2, <1>5 DEF Unlink, wdf_evtqueue_clear_obj
  <1>7. /\ Pending' = Pending \ {Frame("unlink", o)} /\ Doomed' = Doomed
        /\ StackOK(todo)'
        /\ \A fr \in Pending' : fr.f \notin {"destroy", "contexts"} => Frame(Then(fr.f), fr.o) \in Pending'
        /\ \A fr \in Pending' : fr.f \in {"queues", "removal"} => fr.o = "device"
        /\ \A x, fs : x # o => Left(x, fs)' = Left(x, fs)
    BY <1>1, <1>3, <1>6, Popped DEF Frames
  <1>8. Left(o, {"unlink", "contexts"}) /\ Left(o, {"removal", "children", "unlink", "contexts"})
    BY <1>1, <1>3, TopLeft, StepFacts DEF Frames
  <1>9. kids \in [Objects -> Seq(Objects)] /\ \A x \in Objects : Once(kids[x])
    BY <1>3 DEF TreeInv
  <1>10. p # None => /\ kids'[p] = RemoveFirst(kids[p], o) /\ kids'[p] \in Seq(Objects)
                     /\ Without(kids'[p], kids[p], o)
    BY <1>5, <1>6, <1>9, RemoveFacts
  <1>11. \A x \in Objects : x # p => kids'[x] = kids[x]
    BY <1>5, <1>6, <1>9
  <1>12. kids' \in [Objects -> Seq(Objects)]
    <2>1. CASE p = None
      BY <2>1, <1>6, <1>9
    <2>2. CASE p # None
      <3>1. kids' = [kids EXCEPT ![p] = RemoveFirst(kids[p], o)] /\ RemoveFirst(kids[p], o) \in Seq(Objects)
        BY <2>2, <1>5, <1>6, <1>10
      <3>2. QED
        BY <3>1, <1>5, <1>9, <2>2
    <2>3. QED
      BY <2>1, <2>2
  <1>13. /\ parent' \in [Objects -> Objects \cup {None}] /\ parent'[o] = None
         /\ \A x \in Objects : x # o => parent'[x] = parent[x]
    BY <1>3, <1>4, <1>6 DEF TreeInv
  <1>14. \A x \in Objects : \A y : Contains(kids'[x], y) <=> Contains(kids[x], y) /\ ~(x = p /\ y = o)
    <2> TAKE x \in Objects
    <2>1. CASE x = p
      <3>1. p # None
        BY <2>1, KindFacts
      <3>2. \A y : Contains(kids'[p], y) <=> Contains(kids[p], y) /\ y # o
        BY <3>1, <1>10 DEF Without
      <3>3. QED
        BY <3>2, <2>1
    <2>2. CASE x # p
      BY <2>2, <1>11
    <2>3. QED
      BY <2>1, <2>2
  <1>15. StackInv'
    BY <1>3, <1>6, <1>7 DEF StackInv
  <1>16. TreeInv'
    <2>1. \A x \in Objects : parent'[x] \in Parents(x)
      <3>1. None \in Parents(o)
        BY DEF Parents
      <3>2. QED
        BY <3>1, <1>3, <1>13 DEF TreeInv
    <2>2. \A x \in Objects : Once(kids'[x])
      <3> TAKE x \in Objects
      <3>1. CASE x = p
        <4>1. p # None
          BY <3>1, KindFacts
        <4>2. QED
          BY <3>1, <4>1, <1>10 DEF Without
      <3>2. CASE x # p
        BY <3>2, <1>9, <1>11
      <3>3. QED
        BY <3>1, <3>2
    <2>3. ASSUME NEW x \in alive', NEW y \in Objects, Contains(kids'[x], y)
          PROVE  y \in alive' /\ parent'[y] = x
      <3>0. x \in alive /\ x \in Objects
        BY <1>3, <1>6 DEF TreeInv
      <3>1. Contains(kids[x], y) /\ ~(x = p /\ y = o)
        BY <3>0, <2>3, <1>14
      <3>2. y \in alive /\ parent[y] = x
        BY <3>0, <3>1, <1>3 DEF TreeInv
      <3>3. y # o
        BY <3>1, <3>2, <1>2
      <3>4. QED
        BY <3>2, <3>3, <1>6, <1>13
    <2>4. ASSUME NEW x \in alive', parent'[x] # None
          PROVE  parent'[x] \in alive' /\ Contains(kids'[parent'[x]], x)
      <3>1. x \in alive /\ x \in Objects /\ x # o
        BY <2>4, <1>3, <1>6, <1>13 DEF TreeInv
      <3>2. parent'[x] = parent[x] /\ parent[x] \in alive /\ Contains(kids[parent[x]], x)
        BY <3>1, <2>4, <1>3, <1>13 DEF TreeInv
      <3>3. parent[x] \in Objects
        BY <3>2, <1>3 DEF TreeInv
      <3>4. QED
        BY <3>1, <3>2, <3>3, <1>6, <1>14
    <2>5. \A x \in alive' : parent'[x] = None /\ x # "driver" => x \in Doomed'
      <3> SUFFICES ASSUME NEW x \in alive, parent'[x] = None, x # "driver" PROVE x \in Doomed
        BY <1>6, <1>7
      <3>1. x \in Objects
        BY <1>3 DEF TreeInv
      <3>2. x = o \/ parent[x] = None
        BY <3>1, <1>13
      <3>3. QED
        BY <3>2, <1>3, <1>4 DEF TreeInv
    <2>6. \A x \in Doomed' : parent'[x] \notin Doomed'
      <3> SUFFICES ASSUME NEW x \in Doomed PROVE parent'[x] \notin Doomed
        BY <1>7
      <3>0. Doomed \subseteq Objects
        <4>1. alive \subseteq Objects /\ Doomed \subseteq alive
          BY <1>3 DEF TreeInv, StackInv
        <4>2. QED
          BY <4>1
      <3>1. None \notin Doomed /\ x \in Objects
        BY <3>0, KindFacts
      <3>2. QED
        BY <3>1, <1>3, <1>13 DEF TreeInv
    <2>7. \A x \in Objects : Left(x, {"unlink", "contexts"})' => kids'[x] = <<>>
      <3> SUFFICES ASSUME NEW x \in Objects, Left(x, {"unlink", "contexts"})' PROVE kids'[x] = <<>>
        OBVIOUS
      <3>1. Left(x, {"unlink", "contexts"})
        BY <1>7, <1>8
      <3>2. x \in Doomed /\ kids[x] = <<>>
        BY <3>1, <1>3 DEF TreeInv, Left
      <3>3. x # p
        BY <3>2, <1>5, KindFacts
      <3>4. QED
        BY <3>2, <3>3, <1>11
    <2>8. \A x \in Objects : Left(x, {"contexts"})' => parent'[x] = None
      <3>1. \A x \in Objects : Left(x, {"contexts"}) => parent[x] = None
        BY <1>3 DEF TreeInv
      <3>2. QED
        BY <3>1, <1>7, <1>13
    <2>9. QED
      BY <2>1, <2>2, <2>3, <2>4, <2>5, <2>6, <2>7, <2>8, <1>3, <1>6, <1>7, <1>12, <1>13 DEF TreeInv
  <1>17. QueueInv'
    <2>1. Left("device", {"removal", "children", "unlink", "contexts"})' => queues' = <<>>
      <3>1. Left("device", {"removal", "children", "unlink", "contexts"}) => queues = <<>>
        BY <1>3 DEF QueueInv
      <3>2. QED
        BY <3>1, <1>6, <1>7, <1>8
    <2>2. ASSUME NEW i \in 1..Len(kids'["driver"]), NEW j \in 1..Len(kids'["driver"]),
                 kids'["driver"][i] \in Queues, kids'["driver"][j] = "device"
          PROVE  i < j
      <3>0. "driver" \in Objects /\ \A a, b \in 1..Len(kids["driver"]) :
               kids["driver"][a] \in Queues /\ kids["driver"][b] = "device" => a < b
        BY <1>3 DEF QueueInv, Objects
      <3>1. CASE p # "driver"
        BY <3>0, <3>1, <2>2, <1>11
      <3>2. CASE p = "driver"
        <4>1. Without(kids'["driver"], kids["driver"], o)
          BY <3>2, <1>10 DEF None
        <4>2. i # j
          BY <2>2, KindFacts
        <4>3. ASSUME j < i PROVE FALSE
          <5>1. PICK a, b \in 1..Len(kids["driver"]) :
                   a < b /\ kids["driver"][a] = kids'["driver"][j] /\ kids["driver"][b] = kids'["driver"][i]
            BY <4>1, <4>3 DEF Without
          <5>2. b < a
            BY <5>1, <3>0, <2>2
          <5>3. QED
            BY <5>1, <5>2
        <4>4. kids'["driver"] \in Seq(Objects)
          BY <3>0, <1>12
        <4>5. QED
          BY <4>2, <4>3, <4>4
      <3>3. QED
        BY <3>1, <3>2
    <2>3. QED
      BY <2>1, <2>2, <1>3, <1>6, <1>7 DEF QueueInv
  <1>18. cell \in [Cells -> Acts] /\ acts \in [Objects -> Seq(Cells)]
    BY <1>3 DEF EventInv
  <1>19. /\ acts' \in [Objects -> Seq(Cells)] /\ acts'[o] = <<>>
         /\ \A x \in Objects : x # o => acts'[x] = acts[x]
    BY <1>4, <1>6, <1>18
  <1>20. /\ cell' \in [Cells -> Acts]
         /\ \A c \in Cells : /\ cell'[c].fn = cell[c].fn
                             /\ Contains(acts[o], c) => cell'[c].obj = None
                             /\ ~Contains(acts[o], c) => cell'[c] = cell[c]
    <2>1. \A c \in Cells : [cell[c] EXCEPT !.obj = None] \in Acts
      BY <1>18 DEF Acts
    <2>2. \A c \in Cells : /\ [cell[c] EXCEPT !.obj = None].fn = cell[c].fn
                           /\ [cell[c] EXCEPT !.obj = None].obj = None
      BY <1>18 DEF Acts
    <2>3. QED
      BY <2>1, <2>2, <1>6, <1>18
  <1>21. \A c \in Cells : cell[c].obj = o => Contains(acts[o], c)
    <2> SUFFICES ASSUME NEW c \in Cells, cell[c].obj = o, linking = c PROVE FALSE
      BY <1>3, <1>4, KindFacts DEF EventInv, CellsLinked
    <2>1. linking # 0
      BY DEF Cells
    <2>2. QED
      BY <2>1, <1>3, <1>4 DEF LinkInv
  <1>22. linking # 0 => linking \in Cells /\ ~Contains(acts[o], linking) /\ cell'[linking] = cell[linking]
    BY <1>3, <1>4, <1>20 DEF LinkInv, EventInv, ActsOwned
  <1>23. CellsLinked'
    <2> SUFFICES ASSUME NEW c \in Cells, cell'[c].obj # None
                 PROVE  cell'[c].obj \in alive' /\ (Contains(acts'[cell'[c].obj], c) \/ linking' = c)
      BY DEF CellsLinked
    <2>1. ~Contains(acts[o], c) /\ cell'[c] = cell[c] /\ cell[c].obj # o
      BY <1>20, <1>21
    <2>2. cell[c].obj \in alive /\ (Contains(acts[cell[c].obj], c) \/ linking = c)
      BY <2>1, <1>3 DEF EventInv, CellsLinked
    <2>3. cell[c].obj \in Objects
      BY <2>2, <1>3 DEF TreeInv
    <2>4. QED
      BY <2>1, <2>2, <2>3, <1>6, <1>19
  <1>24. ActsOwned'
    <2> SUFFICES ASSUME NEW x \in Objects, NEW c \in Cells, Contains(acts'[x], c)
                 PROVE  cell'[c].obj = x /\ linking' # c
      BY DEF ActsOwned
    <2>1. x # o
      BY <1>19, NoneIn
    <2>2. Contains(acts[x], c)
      BY <2>1, <1>19
    <2>3. cell[c].obj = x /\ linking # c
      BY <2>2, <1>3 DEF EventInv, ActsOwned
    <2>4. ~Contains(acts[o], c)
      BY <2>1, <2>3, <1>3, <1>4 DEF EventInv, ActsOwned
    <2>5. QED
      BY <2>3, <2>4, <1>6, <1>20
  <1>25. ActsOrder'
    <2> SUFFICES ASSUME NEW x \in Objects, NEW i \in 1..Len(acts'[x]), NEW j \in 1..Len(acts'[x]),
                        NEW k \in 1..Len(evtq), NEW l \in 1..Len(evtq),
                        i < j, evtq[k] = acts'[x][i], evtq[l] = acts'[x][j]
                 PROVE  k < l
      BY <1>6 DEF ActsOrder
    <2>1. x # o
      BY <1>19
    <2>2. acts'[x] = acts[x] /\ i \in 1..Len(acts[x]) /\ j \in 1..Len(acts[x])
      BY <2>1, <1>19
    <2>3. ActsOrder
      BY <1>3 DEF EventInv
    <2>4. QED
      BY <2>2, <2>3 DEF ActsOrder
  <1>26. EventInv'
    <2>1. \A x \in Objects : Left(x, {"contexts"})' => acts'[x] = <<>>
      <3>1. \A x \in Objects : Left(x, {"contexts"}) => acts[x] = <<>>
        BY <1>3 DEF EventInv
      <3>2. QED
        BY <3>1, <1>7, <1>19
    <2>2. \A c \in Cells : /\ Contains(evtq', c) <=> cell'[c].fn # None
                           /\ cell'[c].fn = None => cell'[c].obj = None
                           /\ cell'[c].fn = "destroy" => cell'[c].obj \in Extras \cup {None}
      <3> TAKE c \in Cells
      <3>1. CASE Contains(acts[o], c)
        BY <3>1, <1>3, <1>6, <1>20 DEF EventInv
      <3>2. CASE ~Contains(acts[o], c)
        BY <3>2, <1>3, <1>6, <1>20 DEF EventInv
      <3>3. QED
        BY <3>1, <3>2
    <2>3. evtq' \in Seq(Cells) /\ Once(evtq')
      BY <1>3, <1>6 DEF EventInv
    <2>4. QED
      BY <2>1, <2>2, <2>3, <1>19, <1>20, <1>23, <1>24, <1>25 DEF EventInv
  <1>27. LinkInv'
    <2>1. linking # 0 => "driver" \notin Doomed
      BY <1>3, NotLinking DEF Frames
    <2>2. ASSUME linking # 0, NEW k \in 1..Len(evtq), NEW l \in 1..Len(evtq),
                 evtq[k] = linking, cell'[evtq[l]].obj = cell'[linking].obj
          PROVE  k <= l
      <3>1. cell'[linking] = cell[linking] /\ cell[linking].obj \in Extras /\ cell[linking].obj # None
        BY <2>2, <1>3, <1>22, KindFacts DEF LinkInv
      <3>2. evtq[l] \in Cells
        BY <1>3 DEF EventInv
      <3>3. cell'[evtq[l]] = cell[evtq[l]]
        BY <3>1, <3>2, <2>2, <1>20
      <3>4. QED
        BY <3>1, <3>3, <2>2, <1>3 DEF LinkInv
    <2>3. QED
      BY <2>1, <2>2, <1>3, <1>6, <1>7, <1>22 DEF LinkInv
  <1>28. PlaceInv'
    BY <1>6, <1>7 DEF WdfInv, PlaceInv, life
  <1>29. RestInv'
    BY <1>6 DEF WdfInv, RestInv, life
  <1>30. QED
    BY <1>15, <1>16, <1>17, <1>26, <1>27, <1>28, <1>29 DEF WdfInv

-----------------------------------------------------------------------------
(* The object is freed: nothing points to it any more.                      *)
LEMMA ObjectFreed ==
    ASSUME WdfInv, fault = None, FreeObject
    PROVE  WdfInv'
  <1>1. PICK o : o = Head(todo).o
    OBVIOUS
  <1>2. /\ Running("contexts") /\ alive' = alive \ {o} /\ todo' = Tail(todo)
        /\ UNCHANGED <<parent, kids, dead, queues, flushing, linking, life, fault>>
        /\ \/ UNCHANGED <<cell, evtq, acts>>
           \/ o = "device" /\ \E x \in Extras : NotDeleted(x) /\ EnqueueByMain(x, "destroy")
    BY <1>1 DEF FreeObject
  <1>3. StackInv /\ TreeInv /\ QueueInv /\ EventInv /\ LinkInv
    BY DEF WdfInv
  <1>4. /\ o \in Objects /\ o \in alive /\ o \in Doomed /\ Frame("contexts", o) \in Pending
        /\ \A x \in Doomed : x = o \/ x \in Callers(o)
    BY <1>1, <1>2, <1>3, TopFrame DEF Frames
  <1>5. /\ Pending' \subseteq Pending /\ Doomed' = Doomed \ {o}
        /\ StackOK(todo)'
        /\ \A fr \in Pending' : fr.f \notin {"destroy", "contexts"} => Frame(Then(fr.f), fr.o) \in Pending'
        /\ \A fr \in Pending' : fr.f \in {"queues", "removal"} => fr.o = "device"
        /\ \A x, fs : Left(x, fs)' => Left(x, fs)
    BY <1>1, <1>2, <1>3, PoppedLast
  <1>6. /\ Left(o, {"contexts"}) /\ Left(o, {"unlink", "contexts"})
        /\ Left(o, {"removal", "children", "unlink", "contexts"})
    BY <1>1, <1>2, <1>3, TopLeft, StepFacts DEF Frames
  <1>7. kids[o] = <<>> /\ parent[o] = None /\ acts[o] = <<>>
    BY <1>3, <1>4, <1>6 DEF TreeInv, EventInv
  <1>8. \A x \in alive : parent[x] # o
    <2> SUFFICES ASSUME NEW x \in alive, parent[x] = o PROVE FALSE
      OBVIOUS
    <2>1. parent[x] # None
      BY <1>4, KindFacts
    <2>2. Contains(kids[o], x)
      BY <2>1, <1>3 DEF TreeInv
    <2>3. QED
      BY <2>2, <1>7, NoneIn
  <1>9. StackInv'
    BY <1>2, <1>3, <1>5 DEF StackInv
  <1>10. TreeInv'
    <2>1. alive' \subseteq Objects /\ dead' \cap alive' \subseteq Doomed'
      <3>1. alive \subseteq Objects /\ dead \cap alive \subseteq Doomed
        BY <1>3 DEF TreeInv
      <3>2. QED
        BY <3>1, <1>2, <1>5
    <2>2. ASSUME NEW x \in alive', NEW y \in Objects, Contains(kids'[x], y)
          PROVE  y \in alive' /\ parent'[y] = x
      <3>1. x \in alive /\ x \in Objects /\ Contains(kids[x], y)
        BY <2>1, <2>2, <1>2
      <3>2. y \in alive /\ parent[y] = x
        BY <3>1, <1>3 DEF TreeInv
      <3>3. y # o
        BY <3>1, <3>2, <1>7, KindFacts
      <3>4. QED
        BY <3>2, <3>3, <1>2
    <2>3. ASSUME NEW x \in alive', parent'[x] # None
          PROVE  parent'[x] \in alive' /\ Contains(kids'[parent'[x]], x)
      <3>1. x \in alive /\ parent[x] # None
        BY <2>3, <1>2
      <3>2. parent[x] \in alive /\ Contains(kids[parent[x]], x) /\ parent[x] # o
        BY <3>1, <1>3, <1>8 DEF TreeInv
      <3>3. QED
        BY <3>2, <1>2
    <2>4. \A x \in alive' : parent'[x] = None /\ x # "driver" => x \in Doomed'
      BY <1>2, <1>3, <1>5 DEF TreeInv
    <2>5. \A x \in Doomed' : parent'[x] \notin Doomed'
      BY <1>2, <1>3, <1>5 DEF TreeInv
    <2>6. "create" \in alive' => "create" \in Doomed'
      BY <1>2, <1>3, <1>5 DEF TreeInv
    <2>7. /\ \A x \in Objects : Left(x, {"unlink", "contexts"})' => kids'[x] = <<>>
          /\ \A x \in Objects : Left(x, {"contexts"})' => parent'[x] = None
      BY <1>2, <1>3, <1>5 DEF TreeInv
    <2>8. QED
      BY <2>1, <2>2, <2>3, <2>4, <2>5, <2>6, <2>7, <1>2, <1>3 DEF TreeInv
  <1>11. o = "device" => "file" \notin alive /\ Queues \cap alive = {} /\ Doomed \subseteq {"device", "driver"}
    <2> SUFFICES ASSUME o = "device"
                 PROVE  "file" \notin alive /\ Queues \cap alive = {} /\ Doomed \subseteq {"device", "driver"}
      OBVIOUS
    <2>1. Doomed \subseteq {"device", "driver"}
      BY <1>4, KindFacts
    <2>2. queues = <<>>
      BY <1>3, <1>6 DEF QueueInv
    <2>3. Queues \cap alive = {}
      <3>1. \A q \in Queues : q \notin Doomed
        BY <2>1, KindFacts
      <3>2. QED
        BY <3>1, <2>2, <1>3, NoneIn DEF QueueInv
    <2>4. "file" \notin alive
      <3> SUFFICES ASSUME "file" \in alive PROVE FALSE
        OBVIOUS
      <3>1. parent["file"] \in {"device", None}
        BY <1>3, KindFacts DEF TreeInv
      <3>2. parent["file"] = None
        BY <3>1, <1>8
      <3>3. QED
        BY <3>2, <2>1, <1>3 DEF TreeInv
    <2>5. QED
      BY <2>1, <2>3, <2>4
  <1>12. QueueInv'
    <2>1. \A q \in Queues : Contains(queues', q) => q \in alive'
      <3>1. ~Contains(queues, o)
        BY <1>3, <1>4, FrameFacts DEF QueueInv
      <3>2. QED
        BY <3>1, <1>2, <1>3 DEF QueueInv
    <2>2. \A q \in Queues \cap alive' : Contains(queues', q) \/ q \in Doomed'
      BY <1>2, <1>3, <1>5 DEF QueueInv
    <2>3. \A fr \in Pending' : fr.f # "destroy" \/ "driver" \notin Doomed' => ~Contains(queues', fr.o)
      <3>1. CASE o = "driver"
        <4>1. Doomed' = {}
          BY <3>1, <1>4, <1>5, KindFacts
        <4>2. \A fr \in Pending' : fr.o \in Doomed'
          BY DEF Doomed
        <4>3. QED
          BY <4>1, <4>2
      <3>2. CASE o # "driver"
        BY <3>2, <1>2, <1>3, <1>5 DEF QueueInv
      <3>3. QED
        BY <3>1, <3>2
    <2>4. "device" \notin alive' => "file" \notin alive' /\ Queues \cap alive' = {}
      BY <1>2, <1>3, <1>11 DEF QueueInv
    <2>5. Left("device", {"removal", "children", "unlink", "contexts"})' => queues' = <<>>
      BY <1>2, <1>3, <1>5 DEF QueueInv
    <2>6. {"driver", "device"} \subseteq Doomed' => Queues \cap alive' = {}
      BY <1>2, <1>3, <1>5 DEF QueueInv
    <2>7. QED
      BY <2>1, <2>2, <2>3, <2>4, <2>5, <2>6, <1>2, <1>3 DEF QueueInv
  <1>13. \A c \in Cells : cell[c].obj # None => cell[c].obj \in alive'
    <2> SUFFICES ASSUME NEW c \in Cells, cell[c].obj # None PROVE cell[c].obj \in alive'
      OBVIOUS
    <2>1. cell[c].obj \in alive /\ (Contains(acts[cell[c].obj], c) \/ linking = c)
      BY <1>3 DEF EventInv, CellsLinked
    <2>2. linking = c => cell[c].obj \notin Doomed
      <3>1. c # 0
        BY DEF Cells
      <3>2. QED
        BY <3>1, <1>3 DEF LinkInv
    <2>3. cell[c].obj # o
      BY <2>1, <2>2, <1>4, <1>7, NoneIn
    <2>4. QED
      BY <2>1, <2>3, <1>2
  <1>14. linking # 0 => "driver" \notin Doomed'
    BY <1>2, <1>5, NotLinking DEF Frames
  <1>15. EventInv' /\ LinkInv'
    <2>1. CASE UNCHANGED <<cell, evtq, acts>>
      <3>1. CellsLinked' /\ ActsOwned' /\ ActsOrder'
        BY <2>1, <1>2, <1>3, <1>13 DEF EventInv, CellsLinked, ActsOwned, ActsOrder
      <3>2. EventInv'
        BY <3>1, <2>1, <1>3, <1>5 DEF EventInv
      <3>3. LinkInv'
        BY <2>1, <1>2, <1>3, <1>5, <1>14 DEF LinkInv
      <3>4. QED
        BY <3>2, <3>3
    <2>2. CASE o = "device" /\ \E x \in Extras : NotDeleted(x) /\ EnqueueByMain(x, "destroy")
      <3>1. PICK x \in Extras : NotDeleted(x) /\ EnqueueByMain(x, "destroy")
        BY <2>2
      <3>2. x \in Objects /\ x \notin {"device", "driver"} /\ x \in alive'
        BY <3>1, <2>2, <1>2, KindFacts DEF NotDeleted, Objects
      <3>3. x \notin Doomed
        BY <3>2, <2>2, <1>11
      <3>4. \A q \in Objects : Left(q, {"contexts"})' => acts[q] = <<>> /\ q # x
        <4>1. \A q \in Objects : Left(q, {"contexts"}) => acts[q] = <<>> /\ q # x
          BY <3>3, <1>3 DEF EventInv, Left
        <4>2. QED
          BY <4>1, <1>5
      <3>5. linking # 0 => cell[linking].obj # x /\ cell[linking].obj \notin Doomed'
        BY <3>1, <1>3, <1>5 DEF NotDeleted, LinkInv
      <3>6. "destroy" \in {"call_cbs", "destroy"}
        OBVIOUS
      <3>7. QED
        BY <3>1, <3>2, <3>4, <3>5, <3>6, <1>2, <1>13, <1>14, EnqueueKeeps
    <2>3. QED
      BY <2>1, <2>2, <1>2
  <1>16. o = "driver" => alive' = {}
    <2> SUFFICES ASSUME o = "driver", NEW x \in alive, x # "driver" PROVE FALSE
      BY <1>2
    <2>1. Doomed \subseteq {"driver"}
      BY <1>4, KindFacts
    <2>2. \A y \in alive : y # "driver" => parent[y] \in alive /\ parent[y] \notin {None, "driver"}
      BY <2>1, <1>3, <1>8 DEF TreeInv
    <2>3. \A y \in alive : y \in Objects
      BY <1>3 DEF TreeInv
    <2>4. \A y \in alive : y # "driver" => y \in {"file", "create"}
      <3>1. \A y \in Objects : parent[y] \in Parents(y)
        BY <1>3 DEF TreeInv
      <3>2. \A y \in Queues \cup Extras \cup {"device"} : Parents(y) = {"driver", None}
        BY KindFacts
      <3>3. QED
        BY <3>1, <3>2, <2>2, <2>3 DEF Objects
    <2>5. parent["file"] \in {"device", None} /\ parent["create"] \in {"file", None}
      BY <1>3, KindFacts DEF TreeInv, Objects
    <2>6. "file" \notin alive
      BY <2>2, <2>4, <2>5
    <2>7. QED
      BY <2>2, <2>4, <2>5, <2>6
  <1>17. PlaceInv'
    <2>1. PlaceInv
      BY DEF WdfInv
    <2>2. UNCHANGED <<at, flushing>>
      BY <1>2 DEF life
    <2>3. Doomed' \subseteq Doomed /\ alive' \subseteq alive
      BY <1>2, <1>5
    <2>4. Doomed' \cap Extras # {} => flushing \/ "driver" \in Doomed'
      <3> SUFFICES ASSUME Doomed' \cap Extras # {}, o = "driver" PROVE FALSE
        BY <2>1, <2>3, <1>5 DEF PlaceInv
      <3>1. Doomed' = {}
        BY <1>4, <1>5, KindFacts
      <3>2. QED
        BY <3>1
    <2>5. at = "unload" => alive' = {} \/ "driver" \in Doomed'
      BY <2>1, <1>4, <1>5, <1>16 DEF PlaceInv
    <2>6. at \notin {"init", "entry", "unload", "gone", "exit"} => "driver" \in alive'
      BY <2>1, <1>2, <1>4 DEF PlaceInv
    <2>7. /\ at \in {"adding", "flush_open", "create", "file_gone"} => "device" \in alive'
          /\ at \in {"pipeline", "open"} => "file" \in alive'
          /\ at = "device_gone" => "device" \notin alive' \/ "device" \in Doomed'
      BY <2>1, <1>2, <1>4, <1>5 DEF PlaceInv
    <2>8. at \in {"init", "entry", "gone"} => alive' = {}
      BY <2>1, <1>4 DEF PlaceInv
    <2>9. /\ "driver" \in Doomed' => at = "unload"
          /\ "device" \in Doomed' \/ Doomed' \cap Queues # {} => at \in {"device_gone", "unload"}
          /\ "file" \in Doomed' => at \in {"file_gone", "device_gone", "unload"}
          /\ "create" \in Doomed' => at \in {"pipeline", "exit", "failed"}
          /\ at \in {"query", "closed", "flush_close"} => "device" \notin alive'
      BY <2>1, <2>3 DEF PlaceInv
    <2>10. QED
      BY <2>1, <2>2, <2>4, <2>5, <2>6, <2>7, <2>8, <2>9 DEF PlaceInv
  <1>18. RestInv'
    BY <1>2 DEF WdfInv, RestInv, life
  <1>19. QED
    BY <1>9, <1>10, <1>12, <1>15, <1>17, <1>18 DEF WdfInv

-----------------------------------------------------------------------------
LEMMA InitWdf == Init => WdfInv
  <1> SUFFICES ASSUME Init PROVE WdfInv
    OBVIOUS
  <1>1. Pending = {} /\ Doomed = {} /\ todo = <<>>
    BY EmptyStack DEF Init
  <1>2. \A x, fs : ~Left(x, fs)
    BY <1>1 DEF Left
  <1>3. StackInv
    BY <1>1 DEF StackInv, StackOK, Init
  <1>4. PlaceInv
    BY <1>1 DEF PlaceInv, Init
  <1>5. TreeInv
    <2>1. \A o \in Objects : parent[o] \in Parents(o)
      BY DEF Init, Parents
    <2>2. \A o \in Objects : Once(kids[o])
      BY DEF Init, Once
    <2>3. QED
      BY <2>1, <2>2, <1>1, <1>2 DEF Init, TreeInv
  <1>6. QueueInv
    <2>1. kids["driver"] = <<>>
      BY DEF Init, Objects
    <2>2. \A x : ~Contains(queues, x)
      BY NoneIn DEF Init
    <2>3. Once(queues) /\ queues \in Seq(Queues)
      BY DEF Once, Init
    <2>4. QED
      BY <2>1, <2>2, <2>3, <1>1, <1>2 DEF Init, QueueInv
  <1>7. EventInv
    <2>1. \A x : ~Contains(evtq, x)
      BY NoneIn DEF Init
    <2>2. \A o \in Objects : acts[o] = <<>> /\ Len(acts[o]) = 0
      BY DEF Init
    <2>3. \A c \in Cells : cell[c].fn = None /\ cell[c].obj = None
      BY DEF Init, Free
    <2>4. cell \in [Cells -> Acts] /\ evtq \in Seq(Cells) /\ acts \in [Objects -> Seq(Cells)] /\ Once(evtq)
      BY DEF Init, Free, Acts, Once
    <2>5. CellsLinked
      BY <2>3 DEF CellsLinked
    <2>6. ActsOwned
      BY <2>2, NoneIn DEF ActsOwned
    <2>7. ActsOrder
      BY <2>2 DEF ActsOrder
    <2>8. \A c \in Cells : cell[c].fn # "destroy"
      BY <2>3 DEF None
    <2>9. QED
      BY <2>1, <2>3, <2>4, <2>5, <2>6, <2>7, <2>8, <1>2 DEF EventInv
  <1>8. LinkInv
    BY DEF Init, LinkInv
  <1>9. RestInv
    <2>1. hw \in BOOLEAN /\ at \in Places
      BY DEF Init, Places
    <2>2. opens \in 0..MaxOpens
      BY ObjectsAssumption DEF Init
    <2>3. fault \in Faults \ {"freed", "dead_parent"}
      BY DEF Init, Faults, None
    <2>4. QED
      BY <2>1, <2>2, <2>3 DEF RestInv
  <1>10. QED
    BY <1>3, <1>4, <1>5, <1>6, <1>7, <1>8, <1>9 DEF WdfInv

LEMMA DestroyingKeeps ==
    ASSUME WdfInv, fault = None, Destroying
    PROVE  WdfInv'
  <1>1. CASE winwdf_destroy_object
    BY <1>1, DestructorEntered
  <1>2. CASE DestroyQueues
    BY <1>2, QueuesDone, QueueCalled
  <1>3. CASE RemovalCallbacks
    BY <1>3, RemovalDone
  <1>4. CASE DestroyChildren
    <2>1. PICK o : o = Head(todo).o
      OBVIOUS
    <2>2. QED
      BY <2>1, <1>4, ChildrenDone, ChildCalled
  <1>5. CASE Unlink
    BY <1>5, ObjectUnlinked
  <1>6. CASE FreeObject
    BY <1>6, ObjectFreed
  <1>7. QED
    BY <1>1, <1>2, <1>3, <1>4, <1>5, <1>6 DEF Destroying

LEMMA NextWdf == WdfInv /\ [Next]_vars => WdfInv'
  <1> SUFFICES ASSUME WdfInv, [Next]_vars PROVE WdfInv'
    OBVIOUS
  <1>1. CASE UNCHANGED vars
    <2>1. /\ UNCHANGED <<tree, cell, evtq, acts, linking, todo>> /\ flushing' \in BOOLEAN
          /\ UNCHANGED <<flushing, at, hw, opens, fault>>
      BY <1>1 DEF vars, events, life, WdfInv, LinkInv
    <2>2. PlaceInv'
      BY <2>1, SameObjects DEF WdfInv, PlaceInv, tree
    <2>3. RestInv'
      BY <2>1 DEF WdfInv, RestInv
    <2>4. QED
      BY <2>1, <2>2, <2>3, SameObjects DEF WdfInv
  <1>2. CASE Next
    <2>1. fault = None
      BY <1>2 DEF Next
    <2>2. CASE tudor_init \/ QueryInterfaces \/ EvtDriverDeviceAdd \/ OpenPipeline
      BY <2>1, <2>2, PlainSteps
    <2>3. CASE WdfDriverCreate
      BY <2>1, <2>3, DriverCreated
    <2>4. CASE WdfDeviceCreate
      BY <2>1, <2>4, DeviceCreated
    <2>5. CASE \E q \in Queues : WdfIoQueueCreate(q)
      BY <2>1, <2>5, QueueCreated
    <2>6. CASE winwdf_open_device
      BY <2>1, <2>6, FileCreated, RequestCreated
    <2>7. CASE winwdf_close_file \/ winwdf_unload_driver
      BY <2>1, <2>7, RootSteps
    <2>8. CASE CloseFailedReopen
      <3>1. Broken("reopen") /\ "reopen" \in Faults \ {"freed", "dead_parent"}
        BY <2>8 DEF CloseFailedReopen, Faults
      <3>2. QED
        BY <3>1, BrokenKeeps
    <2>9. CASE Closing
      BY <2>1, <2>9, RootSteps, PlainSteps DEF Closing
    <2>10. CASE Flushing
      BY <2>1, <2>10, PlainSteps, ActionTaken DEF Flushing
    <2>11. CASE Destroying
      BY <2>1, <2>11, DestroyingKeeps
    <2>12. CASE \E x \in Extras : CreateObject(x) \/ WdfObjectDelete(x)
      BY <2>1, <2>12, ExtraCreated, ExtraDeleted
    <2>13. CASE LinkAction
      BY <2>1, <2>13, ActionLinked
    <2>14. QED
      BY <1>2, <2>2, <2>3, <2>4, <2>5, <2>6, <2>7, <2>8, <2>9, <2>10, <2>11, <2>12, <2>13 DEF Next
  <1>3. QED
    BY <1>1, <1>2

(* A queue's node is freed in its list's loop only below the driver's       *)
(* destructor: the destructor of the device takes the queue off first.      *)
LEMMA NodeBelowDriver ==
    ASSUME WdfInv, fault = None, winwdf_destroy_object, Broken("queue_node")
    PROVE  at = "unload"
  <1>0. fault # "queue_node"
    BY DEF None
  <1>1. PICK o : o = Head(todo).o
    OBVIOUS
  <1>2. Running("destroy")
    BY DEF winwdf_destroy_object
  <1>3. Frame("destroy", o) \in Pending
    BY <1>1, <1>2, TopFrame DEF Frames, WdfInv
  <1>4. Contains(queues, o)
    <2>1. CASE Broken("freed")
      BY <2>1 DEF Broken
    <2>2. CASE todo' = Destructor(o) \o Tail(todo) /\ UNCHANGED fault
      BY <2>2, <1>0 DEF Broken, None
    <2>3. QED
      BY <1>1, <2>1, <2>2 DEF winwdf_destroy_object
  <1>5. "driver" \in Doomed
    BY <1>3, <1>4, FrameFacts DEF WdfInv, QueueInv
  <1>6. QED
    BY <1>5 DEF WdfInv, PlaceInv

(* Freed memory is used in no other place than KnownUses names. *)
LEMMA OnlyKnownUses ==
    ASSUME WdfInv, Next
    PROVE  KnownUses'
  <1> USE DEF KnownUses, None, Race
  <1>0. fault = None
    BY DEF Next
  <1>1. CASE tudor_init \/ QueryInterfaces \/ EvtDriverDeviceAdd \/ OpenPipeline \/ WdfDriverCreate
    BY <1>0, <1>1 DEF tudor_init, QueryInterfaces, EvtDriverDeviceAdd, OpenPipeline, WdfDriverCreate
  <1>2. CASE WdfDeviceCreate \/ \E q \in Queues : WdfIoQueueCreate(q)
    BY <1>0, <1>2 DEF WdfDeviceCreate, WdfIoQueueCreate
  <1>3. CASE winwdf_open_device \/ winwdf_close_file \/ winwdf_unload_driver
    BY <1>0, <1>3 DEF winwdf_open_device, winwdf_close_file, winwdf_unload_driver
  <1>4. CASE CloseFailedReopen
    BY <1>0, <1>4 DEF CloseFailedReopen, Idle, Broken, life
  <1>5. CASE Closing
    BY <1>0, <1>5 DEF Closing, winwdf_remove_device, DeviceRemoved, DriverUnloaded
  <1>6. CASE FlushBegins \/ FlushEnds
    BY <1>0, <1>6 DEF FlushBegins, FlushEnds
  <1>7. CASE FlushTakes
    <2>1. CASE Broken(Race)
      <3>1. evtq # <<>> /\ evtq \in Seq(Cells)
        BY <1>7 DEF FlushTakes, WdfInv, EventInv
      <3>2. Head(evtq) \in Cells
        BY <3>1
      <3>5. 0 \notin Cells
        BY ObjectsAssumption DEF Cells
      <3>3. linking = Head(evtq)
        BY <1>7, <2>1, <1>0 DEF FlushTakes, Broken, device_call_cbs
      <3>4. QED
        BY <2>1, <3>2, <3>3, <3>5 DEF Broken, events
    <2>2. QED
      BY <1>0, <1>7, <2>1 DEF FlushTakes, device_call_cbs, Broken
  <1>8. CASE winwdf_destroy_object
    <2>1. CASE Broken("queue_node")
      BY <1>0, <1>8, <2>1, NodeBelowDriver DEF Broken, life
    <2>2. QED
      BY <1>0, <1>8, <2>1 DEF winwdf_destroy_object, Broken
  <1>9. CASE DestroyQueues \/ DestroyChildren \/ RemovalCallbacks
    BY <1>0, <1>9 DEF DestroyQueues, DestroyChildren, RemovalCallbacks
  <1>10. CASE Unlink \/ FreeObject
    BY <1>0, <1>10 DEF Unlink, FreeObject, Broken
  <1>11. CASE \E x \in Extras : CreateObject(x) \/ WdfObjectDelete(x)
    BY <1>0, <1>11 DEF CreateObject, WdfObjectDelete, Broken
  <1>12. CASE LinkAction
    BY <1>0, <1>12 DEF LinkAction, Broken, events
  <1>13. QED
    BY <1>1, <1>2, <1>3, <1>4, <1>5, <1>6, <1>7, <1>8, <1>9, <1>10, <1>11, <1>12
       DEF Next, Flushing, Destroying

(* WdfInv implies what the runs check. *)
LEMMA WdfSound == WdfInv /\ KnownUses => ObjectsSound
  <1> SUFFICES ASSUME WdfInv, KnownUses PROVE ObjectsSound
    OBVIOUS
  <1>1. TypeOK
    <2>1. \A o \in Objects : kids[o] \in Seq(Objects) /\ acts[o] \in Seq(Cells)
      BY DEF WdfInv, TreeInv, EventInv
    <2>2. \A i \in 1..Len(todo) : todo[i] \in [f : Frames, o : Objects]
      <3>1. todo \in Seq(FrameRec)
        BY DEF WdfInv, StackInv, StackOK, FrameRec
      <3>2. \A i \in 1..Len(todo) : todo[i] \in FrameRec
        BY <3>1
      <3>3. QED
        BY <3>2 DEF FrameRec
    <2>3. alive \subseteq Objects /\ dead \subseteq Objects /\ parent \in [Objects -> Objects \cup {None}]
      BY DEF WdfInv, TreeInv
    <2>4. cell \in [Cells -> Acts] /\ evtq \in Seq(Cells)
      BY DEF WdfInv, EventInv
    <2>5. queues \in Seq(Queues)
      BY DEF WdfInv, QueueInv
    <2>6. flushing \in BOOLEAN /\ linking \in Cells \cup {0}
      BY DEF WdfInv, LinkInv
    <2>7. hw \in BOOLEAN /\ at \in Places /\ opens \in 0..MaxOpens /\ fault \in Faults
      BY DEF WdfInv, RestInv
    <2>8. QED
      BY <2>1, <2>2, <2>3, <2>4, <2>5, <2>6, <2>7 DEF TypeOK, Acts
  <1>2. NoUseAfterFree
    BY DEF WdfInv, RestInv, NoUseAfterFree
  <1>3. TreeSound
    <2> SUFFICES ASSUME NEW o \in Objects
                 PROVE  /\ \A i, j \in 1..Len(kids[o]) : kids[o][i] = kids[o][j] => i = j
                        /\ o \in alive => \A i \in 1..Len(kids[o]) : kids[o][i] \in alive /\ parent[kids[o][i]] = o
                        /\ (o \in alive /\ parent[o] # None) => parent[o] \in alive /\ Contains(kids[parent[o]], o)
      BY DEF TreeSound
    <2>0. TreeInv
      BY DEF WdfInv
    <2>1. \A i, j \in 1..Len(kids[o]) : kids[o][i] = kids[o][j] => i = j
      BY <2>0 DEF TreeInv, Once
    <2>2. ASSUME o \in alive, NEW i \in 1..Len(kids[o])
          PROVE  kids[o][i] \in alive /\ parent[kids[o][i]] = o
      <3>1. kids[o][i] \in Objects /\ Contains(kids[o], kids[o][i])
        BY <2>0 DEF TreeInv, Contains
      <3>2. QED
        BY <3>1, <2>0, <2>2 DEF TreeInv
    <2>3. (o \in alive /\ parent[o] # None) => parent[o] \in alive /\ Contains(kids[parent[o]], o)
      BY <2>0 DEF TreeInv
    <2>4. QED
      BY <2>1, <2>2, <2>3
  <1>4. ActionsSound
    <2> SUFFICES ASSUME NEW i \in 1..Len(evtq), cell[evtq[i]].obj # None
                 PROVE  /\ cell[evtq[i]].obj \in alive
                        /\ Contains(acts[cell[evtq[i]].obj], evtq[i]) \/ linking = evtq[i]
      BY DEF ActionsSound
    <2>1. evtq[i] \in Cells
      BY DEF WdfInv, EventInv
    <2>2. QED
      BY <2>1 DEF WdfInv, EventInv, CellsLinked
  <1>5. NothingLeft
    BY DEF WdfInv, PlaceInv, NothingLeft
  <1>6. QED
    BY <1>1, <1>2, <1>3, <1>4, <1>5 DEF ObjectsSound

(* In every state, in the middle of any destructor and between the two     *)
(* halves of wdf_evtqueue_enqueue, the tree, the queues and the queued      *)
(* actions agree, and nothing is left when the driver is gone               *)
(* (object.c:45-120, device.c:140-180, evtqueue.c:14-77), for any objects   *)
(* of the driver half.  Freed memory is used in the three situations of     *)
(* KnownUses and in no other: the node of a queue only if the driver goes   *)
(* before its device was closed.                                            *)
THEOREM ObjectsAlwaysSound == Spec => []ObjectsSound
  <1>1. Init => WdfInv /\ KnownUses
    BY InitWdf DEF Init, KnownUses, None, Race
  <1>2. WdfInv /\ KnownUses /\ [Next]_vars => (WdfInv /\ KnownUses)'
    <2> SUFFICES ASSUME WdfInv, KnownUses, [Next]_vars PROVE WdfInv' /\ KnownUses'
      OBVIOUS
    <2>1. CASE Next
      BY <2>1, NextWdf, OnlyKnownUses
    <2>2. CASE UNCHANGED vars
      BY <2>2, NextWdf DEF KnownUses, vars, events, life
    <2>3. QED
      BY <2>1, <2>2
  <1>3. WdfInv /\ KnownUses => ObjectsSound
    BY WdfSound
  <1>4. QED
    BY <1>1, <1>2, <1>3, PTL DEF Spec

LEMMA OnlyRemovalStops ==
    ASSUME WdfInv, Next, hw, ~hw'
    PROVE  RemovalCallbacks
  <1> SUFFICES ASSUME ~RemovalCallbacks PROVE FALSE
    OBVIOUS
  <1>0. hw # hw'
    OBVIOUS
  <1>1. CASE tudor_init \/ QueryInterfaces \/ EvtDriverDeviceAdd \/ OpenPipeline \/ WdfDriverCreate
    BY <1>0, <1>1 DEF tudor_init, QueryInterfaces, EvtDriverDeviceAdd, OpenPipeline, WdfDriverCreate
  <1>2. CASE WdfDeviceCreate \/ \E q \in Queues : WdfIoQueueCreate(q)
    BY <1>0, <1>2 DEF WdfDeviceCreate, WdfIoQueueCreate, life
  <1>3. CASE winwdf_open_device \/ winwdf_close_file \/ winwdf_unload_driver
    BY <1>0, <1>3 DEF winwdf_open_device, winwdf_close_file, winwdf_unload_driver
  <1>4. CASE CloseFailedReopen
    BY <1>0, <1>4 DEF CloseFailedReopen, Broken, life
  <1>5. CASE Closing
    BY <1>0, <1>5 DEF Closing, winwdf_remove_device, DeviceRemoved, DriverUnloaded
  <1>6. CASE FlushBegins \/ FlushEnds
    BY <1>0, <1>6 DEF FlushBegins, FlushEnds, life
  <1>7. CASE FlushTakes
    BY <1>0, <1>7 DEF FlushTakes, device_call_cbs, Broken, life
  <1>8. CASE winwdf_destroy_object
    BY <1>0, <1>8 DEF winwdf_destroy_object, Broken, life
  <1>9. CASE DestroyQueues \/ DestroyChildren
    BY <1>0, <1>9 DEF DestroyQueues, DestroyChildren, life
  <1>10. CASE Unlink \/ FreeObject
    BY <1>0, <1>10 DEF Unlink, FreeObject, Broken, life
  <1>11. CASE \E x \in Extras : CreateObject(x) \/ WdfObjectDelete(x)
    BY <1>0, <1>11 DEF CreateObject, WdfObjectDelete, Broken, life
  <1>12. CASE LinkAction
    BY <1>0, <1>12 DEF LinkAction, Broken, life
  <1>13. QED
    BY <1>1, <1>2, <1>3, <1>4, <1>5, <1>6, <1>7, <1>8, <1>9, <1>10, <1>11, <1>12
       DEF Next, Flushing, Destroying

(* The device leaves D0 only when its queues are destroyed, freed and off   *)
(* its list (device.c:140-180), whether the device is removed alone or with *)
(* the driver.                                                              *)
THEOREM QueuesAlwaysStopFirst == Spec => QueuesStopFirst
  <1>1. Init => WdfInv
    BY InitWdf
  <1>2. WdfInv /\ [Next]_vars => WdfInv'
    BY NextWdf
  <1>3. WdfInv /\ [Next]_vars => [hw /\ ~hw' => queues = <<>> /\ alive \cap Queues = {}]_vars
    <2> SUFFICES ASSUME WdfInv, [Next]_vars, ~UNCHANGED vars, hw, ~hw'
                 PROVE  queues = <<>> /\ alive \cap Queues = {}
      OBVIOUS
    <2>1. Next /\ fault = None
      BY DEF Next
    <2>2. QED
      BY <2>1, OnlyRemovalStops, RemovalDone
  <1>4. QED
    BY <1>1, <1>2, <1>3, PTL DEF Spec, QueuesStopFirst
=============================================================================
