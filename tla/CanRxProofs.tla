---------------------------- MODULE CanRxProofs ----------------------------
(***************************************************************************)
(* Proofs about the receiving half of the CAN driver: no message node is lost  *)
(* or shared, the reader gets the frames in order and once, is not left asleep  *)
(* on one, and the driver implements the queue of RxQueue, for every number of  *)
(* nodes and every depth of the controller's FIFO.                              *)
(***************************************************************************)
EXTENDS CanRx, SequenceTheorems, FiniteSetTheorems, TLAPS

-----------------------------------------------------------------------------
(* Sequences. *)

NoRepeat(s) == \A i, j \in 1 .. Len(s) : s[i] = s[j] => i = j

LEMMA SetOfAppend ==
  ASSUME NEW S, NEW s \in Seq(S), NEW e \in S
  PROVE  /\ ToSet(Append(s, e)) = ToSet(s) \union {e}
         /\ NoRepeat(s) /\ e \notin ToSet(s) => NoRepeat(Append(s, e))
  <1> DEFINE t == Append(s, e)
  <1>1. /\ t \in Seq(S) /\ Len(t) = Len(s) + 1 /\ Len(s) \in Nat /\ t[Len(s) + 1] = e
        /\ \A i \in 1 .. Len(s) : t[i] = s[i]
    BY AppendProperties, LenProperties
  <1>2. DOMAIN t = 1 .. Len(s) + 1 /\ DOMAIN s = 1 .. Len(s)
    BY <1>1, LenProperties
  <1> HIDE DEF t
  <1>3. ToSet(t) = ToSet(s) \union {e}
    <2>1. \A i \in DOMAIN t : t[i] \in ToSet(s) \union {e}
      BY <1>1, <1>2 DEF ToSet
    <2>2. \A i \in DOMAIN s : s[i] \in ToSet(t)
      BY <1>1, <1>2 DEF ToSet
    <2>3. e \in ToSet(t)
      BY <1>1, <1>2 DEF ToSet
    <2> QED
      BY <2>1, <2>2, <2>3 DEF ToSet
  <1>4. ASSUME NoRepeat(s), e \notin ToSet(s), NEW i \in 1 .. Len(t), NEW j \in 1 .. Len(t),
               t[i] = t[j]
        PROVE  i = j
    <2>1. \A k \in 1 .. Len(s) : t[k] # e
      BY <1>1, <1>2, <1>4 DEF ToSet
    <2> QED
      BY <1>1, <1>4, <2>1 DEF NoRepeat
  <1> QED
    BY <1>3, <1>4 DEF NoRepeat, t

LEMMA SetOfTail ==
  ASSUME NEW S, NEW s \in Seq(S), s # <<>>
  PROVE  /\ Head(s) \in S /\ Head(s) = s[1] /\ Tail(s) \in Seq(S)
         /\ Len(s) \in Nat /\ Len(s) > 0 /\ Len(Tail(s)) = Len(s) - 1
         /\ \A i \in 1 .. Len(s) - 1 : Tail(s)[i] = s[i + 1]
         /\ ToSet(s) = {Head(s)} \union ToSet(Tail(s))
         /\ NoRepeat(s) => NoRepeat(Tail(s)) /\ Head(s) \notin ToSet(Tail(s))
  <1> DEFINE t == Tail(s)
             h == Head(s)
  <1>1. /\ t \in Seq(S) /\ Len(t) = Len(s) - 1 /\ Len(s) \in Nat /\ Len(s) > 0
        /\ h \in S /\ h = s[1] /\ \A i \in 1 .. Len(t) : t[i] = s[i + 1]
    BY HeadTailProperties, EmptySeq, LenProperties
  <1>2. DOMAIN t = 1 .. Len(s) - 1 /\ DOMAIN s = 1 .. Len(s)
    BY <1>1, LenProperties
  <1> HIDE DEF t, h
  <1>3. ToSet(s) = {h} \union ToSet(t)
    <2>1. ASSUME NEW i \in DOMAIN s PROVE s[i] \in {h} \union ToSet(t)
      <3>1. CASE i = 1
        BY <1>1, <3>1
      <3>2. CASE i # 1
        <4>1. i - 1 \in DOMAIN t /\ t[i - 1] = s[i]
          BY <1>1, <1>2, <3>2
        <4> QED
          BY <4>1 DEF ToSet
      <3> QED
        BY <3>1, <3>2
    <2>2. \A i \in DOMAIN t : t[i] \in ToSet(s)
      BY <1>1, <1>2 DEF ToSet
    <2>3. h \in ToSet(s)
      BY <1>1, <1>2 DEF ToSet
    <2> QED
      BY <2>1, <2>2, <2>3 DEF ToSet
  <1>4. NoRepeat(s) => NoRepeat(t) /\ h \notin ToSet(t)
    <2> SUFFICES ASSUME NoRepeat(s) PROVE NoRepeat(t) /\ h \notin ToSet(t)
      OBVIOUS
    <2>1. NoRepeat(t)
      BY <1>1 DEF NoRepeat
    <2>2. \A i \in DOMAIN t : t[i] # h
      BY <1>1, <1>2 DEF NoRepeat
    <2> QED
      BY <2>1, <2>2 DEF ToSet
  <1> QED
    BY <1>1, <1>3, <1>4 DEF t, h

\* The frames in the nodes of u.
Frames(u, d) == [i \in 1 .. Len(u) |-> d[u[i]]]

LEMMA FramesType ==
  ASSUME NEW u \in Seq(Nodes), NEW d \in [Nodes -> 0 .. MaxFrames]
  PROVE  /\ Frames(u, d) \in Seq(Nat) /\ Len(Frames(u, d)) = Len(u)
         /\ \A i \in 1 .. Len(u) : Frames(u, d)[i] = d[u[i]]
  <1>1. Len(u) \in Nat
    BY LenProperties
  <1>2. \A i \in 1 .. Len(u) : d[u[i]] \in Nat
    BY ElementOfSeq, DepthAssumption
  <1> QED
    BY <1>1, <1>2 DEF Frames

\* A frame is moved from the front of the FIFO to the end of the list.
LEMMA MoveOne ==
  ASSUME NEW c \in Seq(Nat), NEW f \in Seq(Nat), f # <<>>
  PROVE  Append(c, Head(f)) \o Tail(f) = c \o f
  OBVIOUS

LEMMA TailOfConcat ==
  ASSUME NEW c \in Seq(Nat), NEW f \in Seq(Nat), c # <<>>
  PROVE  Tail(c \o f) = Tail(c) \o f /\ Head(c \o f) = Head(c)
  OBVIOUS

LEMMA ConcatAppend ==
  ASSUME NEW c \in Seq(Nat), NEW f \in Seq(Nat), NEW e \in Nat
  PROVE  c \o Append(f, e) = Append(c \o f, e)
  OBVIOUS

SetLast(s, e) == [s EXCEPT ![Len(s)] = e]

LEMMA ConcatLast ==
  ASSUME NEW c \in Seq(Nat), NEW f \in Seq(Nat), NEW e \in Nat, f # <<>>
  PROVE  c \o SetLast(f, e) = SetLast(c \o f, e)
  <1> DEFINE g == [f EXCEPT ![Len(f)] = e]
             s == c \o f
             t == [s EXCEPT ![Len(s)] = e]
  <1>1. Len(f) \in 1 .. Len(f) /\ Len(f) \in Nat /\ Len(c) \in Nat
    BY EmptySeq, LenProperties
  <1>2. /\ g \in Seq(Nat) /\ Len(g) = Len(f)
        /\ \A j \in 1 .. Len(f) : g[j] = IF j = Len(f) THEN e ELSE f[j]
    BY <1>1, ExceptSeq
  <1>3. /\ s \in Seq(Nat) /\ Len(s) = Len(c) + Len(f)
        /\ \A i \in 1 .. Len(c) + Len(f) : s[i] = IF i <= Len(c) THEN c[i] ELSE f[i - Len(c)]
    BY ConcatProperties
  <1>4. Len(s) \in 1 .. Len(s)
    BY <1>1, <1>3
  <1> HIDE DEF g, s
  <1>5. /\ t \in Seq(Nat) /\ Len(t) = Len(s)
        /\ \A j \in 1 .. Len(s) : t[j] = IF j = Len(s) THEN e ELSE s[j]
    BY <1>3, <1>4, ExceptSeq
  <1> HIDE DEF t
  <1>6. /\ c \o g \in Seq(Nat) /\ Len(c \o g) = Len(c) + Len(g)
        /\ \A i \in 1 .. Len(c) + Len(g) : (c \o g)[i] = IF i <= Len(c) THEN c[i] ELSE g[i - Len(c)]
    BY <1>2, ConcatProperties
  <1>7. ASSUME NEW i \in 1 .. Len(c \o g)
        PROVE  (c \o g)[i] = t[i]
    <2>1. i \in 1 .. Len(c) + Len(f)
      BY <1>2, <1>6
    <2>a. /\ (c \o g)[i] = IF i <= Len(c) THEN c[i] ELSE g[i - Len(c)]
          /\ s[i] = IF i <= Len(c) THEN c[i] ELSE f[i - Len(c)]
          /\ t[i] = IF i = Len(c) + Len(f) THEN e ELSE s[i]
      BY <1>2, <1>3, <1>5, <1>6, <2>1
    <2>2. CASE i <= Len(c)
      BY <1>1, <2>1, <2>2, <2>a
    <2>3. CASE ~(i <= Len(c))
      <3>1. i - Len(c) \in 1 .. Len(f)
        BY <1>1, <2>1, <2>3
      <3>2. g[i - Len(c)] = IF i - Len(c) = Len(f) THEN e ELSE f[i - Len(c)]
        BY <1>2, <3>1
      <3>3. i - Len(c) = Len(f) <=> i = Len(c) + Len(f)
        BY <1>1, <2>1
      <3> QED
        BY <2>3, <2>a, <3>2, <3>3
    <2> QED
      BY <2>2, <2>3
  <1>8. c \o g = t
    BY <1>2, <1>3, <1>5, <1>6, <1>7, SeqEqual
  <1> QED
    BY <1>8 DEF g, s, t, SetLast

\* A list is at least as long as the set of its elements.
LEMMA LengthCounts ==
  ASSUME NEW S, NEW s \in Seq(S)
  PROVE  /\ IsFiniteSet(ToSet(s)) /\ Cardinality(ToSet(s)) \in Nat
         /\ Cardinality(ToSet(s)) <= Len(s)
  <1>1. Len(s) \in Nat /\ s \in [1 .. Len(s) -> S] /\ DOMAIN s = 1 .. Len(s)
    BY LenProperties
  <1>2. s \in Surjection(1 .. Len(s), ToSet(s))
    BY <1>1 DEF Surjection, ToSet
  <1>3. IsFiniteSet(1 .. Len(s)) /\ Cardinality(1 .. Len(s)) = Len(s)
    BY <1>1, FS_Interval
  <1> QED
    BY <1>2, <1>3, FS_Surjection, FS_CardinalityType

-----------------------------------------------------------------------------
(* The order of the queue. *)

Ordered(m, q, c) ==
    /\ m <= c
    /\ \A i \in 1 .. Len(q) : m < q[i] /\ q[i] <= c
    /\ \A i, j \in 1 .. Len(q) : i < j => q[i] < q[j]

LEMMA OrderedAppend ==
  ASSUME NEW m \in Nat, NEW c \in Nat, NEW q \in Seq(Nat), Ordered(m, q, c)
  PROVE  Ordered(m, Append(q, c + 1), c + 1)
  <1> DEFINE t == Append(q, c + 1)
  <1>1. /\ Len(t) = Len(q) + 1 /\ Len(q) \in Nat /\ t[Len(q) + 1] = c + 1
        /\ \A i \in 1 .. Len(q) : t[i] = q[i] /\ q[i] \in Nat
    BY AppendProperties, LenProperties, ElementOfSeq
  <1> HIDE DEF t
  <1>2. m <= c + 1
    BY DEF Ordered
  <1>3. \A i \in 1 .. Len(t) : m < t[i] /\ t[i] <= c + 1
    BY <1>1 DEF Ordered
  <1>4. ASSUME NEW i \in 1 .. Len(t), NEW j \in 1 .. Len(t), i < j
        PROVE  t[i] < t[j]
    <2>1. i \in 1 .. Len(q) /\ t[i] = q[i] /\ q[i] \in Nat /\ q[i] <= c
      BY <1>1, <1>4 DEF Ordered
    <2>2. CASE j = Len(q) + 1
      BY <1>1, <2>1, <2>2
    <2>3. CASE j # Len(q) + 1
      <3>1. j \in 1 .. Len(q)
        BY <1>1, <2>3
      <3> QED
        BY <1>1, <1>4, <2>1, <3>1 DEF Ordered
    <2> QED
      BY <2>2, <2>3
  <1> QED
    BY <1>2, <1>3, <1>4 DEF Ordered, t

LEMMA OrderedOverwrite ==
  ASSUME NEW m \in Nat, NEW c \in Nat, NEW q \in Seq(Nat), Ordered(m, q, c), q # <<>>
  PROVE  Ordered(m, [q EXCEPT ![Len(q)] = c + 1], c + 1)
  <1> DEFINE t == [q EXCEPT ![Len(q)] = c + 1]
  <1>0. Len(q) \in 1 .. Len(q)
    BY EmptySeq, LenProperties
  <1>1. /\ Len(t) = Len(q) /\ Len(q) \in Nat
        /\ \A i \in 1 .. Len(q) : t[i] = IF i = Len(q) THEN c + 1 ELSE q[i]
    BY <1>0, ExceptSeq, LenProperties
  <1>5. \A i \in 1 .. Len(q) : q[i] \in Nat
    BY ElementOfSeq
  <1> HIDE DEF t
  <1>2. m <= c + 1
    BY DEF Ordered
  <1>3. \A i \in 1 .. Len(t) : m < t[i] /\ t[i] <= c + 1
    BY <1>1 DEF Ordered
  <1>4. ASSUME NEW i \in 1 .. Len(t), NEW j \in 1 .. Len(t), i < j
        PROVE  t[i] < t[j]
    <2>1. i \in 1 .. Len(q) /\ j \in 1 .. Len(q) /\ t[i] = q[i] /\ q[i] <= c
      BY <1>1, <1>4 DEF Ordered
    <2>2. q[i] < q[j]
      BY <1>4, <2>1 DEF Ordered
    <2> QED
      BY <1>1, <1>5, <2>1, <2>2
  <1> QED
    BY <1>2, <1>3, <1>4 DEF Ordered, t

LEMMA OrderedTail ==
  ASSUME NEW m \in Nat, NEW c \in Nat, NEW q \in Seq(Nat), Ordered(m, q, c), q # <<>>
  PROVE  /\ Ordered(m, Tail(q), c) /\ Ordered(Head(q), Tail(q), c)
         /\ m < Head(q)
  <1>1. /\ Len(q) \in Nat /\ Len(q) > 0 /\ Len(Tail(q)) = Len(q) - 1
        /\ Head(q) = q[1] /\ \A i \in 1 .. Len(q) - 1 : Tail(q)[i] = q[i + 1]
    BY SetOfTail
  <1>2. \A i \in 1 .. Len(q) : q[i] \in Nat
    BY ElementOfSeq
  <1> QED
    BY <1>1, <1>2 DEF Ordered

-----------------------------------------------------------------------------
(* The nodes. *)

\* Without a free node the list and the reader have them all.
LEMMA NoneFree ==
  ASSUME TypeOK, NodesConserved, free = {}
  PROVE  Len(use) + 1 >= Cardinality(Nodes)
  <1>1. use \in Seq(Nodes) /\ Len(use) \in Nat
    BY LenProperties DEF TypeOK
  <1>2. /\ IsFiniteSet(ToSet(use)) /\ Cardinality(ToSet(use)) \in Nat
        /\ Cardinality(ToSet(use)) <= Len(use)
    BY <1>1, LengthCounts
  <1>3. CASE Holding
    <2>1. Nodes = ToSet(use) \union {held}
      BY <1>3 DEF NodesConserved
    <2>2. \/ Cardinality(Nodes) = Cardinality(ToSet(use))
          \/ Cardinality(Nodes) = Cardinality(ToSet(use)) + 1
      BY <1>2, <2>1, FS_AddElement
    <2> QED
      BY <1>1, <1>2, <2>2
  <1>4. CASE ~Holding
    <2>1. Nodes = ToSet(use)
      BY <1>4 DEF NodesConserved
    <2> QED
      BY <1>1, <1>2, <2>1
  <1> QED
    BY <1>3, <1>4

\* What rt_hw_can_isr does to the nodes and to the frames in them.
LEMMA EnqueueKeeps ==
  ASSUME TypeOK, NodesConserved, NEW frame \in 0 .. MaxFrames, Enqueue(frame),
         UNCHANGED <<pc, held>>
  PROVE  /\ free' \subseteq Nodes /\ use' \in Seq(Nodes)
         /\ data' \in [Nodes -> 0 .. MaxFrames] /\ freenumbers' \in 0 .. Cardinality(Nodes)
         /\ NodesConserved'
         /\ Holding => data'[held] = data[held]
         /\ \/ Frames(use', data') = Append(Frames(use, data), frame)
            \/ /\ free = {} /\ use # <<>>
               /\ Frames(use', data') = Append(Tail(Frames(use, data)), frame)
            \/ free = {} /\ use = <<>> /\ use' = <<>>
  <1>1. /\ use \in Seq(Nodes) /\ Len(use) \in Nat /\ free \subseteq Nodes
        /\ data \in [Nodes -> 0 .. MaxFrames] /\ freenumbers = Cardinality(free)
        /\ IsFiniteSet(free) /\ Cardinality(free) \in Nat /\ held \in Nodes
        /\ Cardinality(Nodes) \in Nat /\ MaxFrames \in Nat
    BY LenProperties, NodesAssumption, DepthAssumption, FS_Subset, FS_CardinalityType
    DEF TypeOK, NodesConserved
  <1>2. NoRepeat(use)
    BY DEF NodesConserved, NoRepeat
  <1>3. Holding' <=> Holding
    BY DEF Holding
  <1>4. CASE free # {}
    <2>1. PICK n \in free : /\ free' = free \ {n}
                            /\ freenumbers' = freenumbers - 1
                            /\ data' = [data EXCEPT ![n] = frame]
                            /\ use' = Append(use, n)
      BY <1>4 DEF Enqueue
    <2>2. n \in Nodes /\ n \notin ToSet(use) /\ (Holding => n # held)
      BY <1>1 DEF NodesConserved
    <2>3. use' \in Seq(Nodes) /\ ToSet(use') = ToSet(use) \union {n} /\ NoRepeat(use')
      BY <1>1, <1>2, <2>1, <2>2, SetOfAppend
    <2>4. IsFiniteSet(free') /\ Cardinality(free') = Cardinality(free) - 1
      BY <1>1, <2>1, FS_RemoveElement
    <2>5. Cardinality(free') \in Nat /\ Cardinality(free') <= Cardinality(Nodes)
      BY <1>1, <2>1, <2>4, NodesAssumption, FS_Subset, FS_CardinalityType
    <2>6. freenumbers' = Cardinality(free') /\ freenumbers' \in 0 .. Cardinality(Nodes)
      BY <1>1, <2>1, <2>4, <2>5
    <2>7. data' \in [Nodes -> 0 .. MaxFrames] /\ (Holding => data'[held] = data[held])
      BY <1>1, <2>1, <2>2
    <2>8. NodesConserved'
      <3>1. /\ free' \union ToSet(use') \union (IF Holding' THEN {held'} ELSE {}) = Nodes
            /\ free' \intersect ToSet(use') = {}
            /\ Holding' => held' \notin free' \union ToSet(use')
        BY <1>3, <2>1, <2>2, <2>3 DEF NodesConserved
      <3> QED
        BY <2>3, <2>6, <3>1 DEF NodesConserved, NoRepeat
    <2>9. Frames(use', data') = Append(Frames(use, data), frame)
      <3>1. /\ Frames(use, data) \in Seq(Nat) /\ Len(Frames(use, data)) = Len(use)
            /\ \A i \in 1 .. Len(use) : Frames(use, data)[i] = data[use[i]]
        BY <1>1, FramesType
      <3>2. /\ Frames(use', data') \in Seq(Nat) /\ Len(Frames(use', data')) = Len(use')
            /\ \A i \in 1 .. Len(use') : Frames(use', data')[i] = data'[use'[i]]
        BY <1>1, <2>3, <2>7, FramesType
      <3>3. /\ Len(use') = Len(use) + 1 /\ use'[Len(use) + 1] = n
            /\ \A i \in 1 .. Len(use) : use'[i] = use[i]
        BY <1>1, <2>1, <2>2, AppendProperties
      <3>4. ASSUME NEW i \in 1 .. Len(use)
            PROVE  data'[use'[i]] = data[use[i]]
        <4>1. use[i] \in Nodes /\ use[i] # n
          BY <1>1, <2>2, ElementOfSeq, LenProperties DEF ToSet
        <4> QED
          BY <1>1, <2>1, <3>3, <4>1
      <3>5. data'[n] = frame
        BY <1>1, <2>1, <2>2
      <3> DEFINE a == Append(Frames(use, data), frame)
      <3>6. /\ a \in Seq(Nat) /\ Len(a) = Len(use) + 1 /\ a[Len(use) + 1] = frame
            /\ \A i \in 1 .. Len(use) : a[i] = data[use[i]]
        BY <1>1, <3>1, AppendProperties
      <3> HIDE DEF a
      <3>7. ASSUME NEW i \in 1 .. Len(use')
            PROVE  Frames(use', data')[i] = a[i]
        <4>1. Frames(use', data')[i] = data'[use'[i]]
          BY <3>2
        <4>2. CASE i = Len(use) + 1
          BY <3>3, <3>5, <3>6, <4>1, <4>2
        <4>3. CASE i # Len(use) + 1
          <5>1. i \in 1 .. Len(use)
            BY <1>1, <3>3, <4>3
          <5> QED
            BY <3>4, <3>6, <4>1, <5>1
        <4> QED
          BY <4>2, <4>3
      <3>8. Frames(use', data') = a
        BY <3>2, <3>3, <3>6, <3>7, SeqEqual
      <3> QED
        BY <3>8 DEF a
    <2> QED
      BY <1>1, <2>1, <2>3, <2>6, <2>7, <2>8, <2>9
  <1>5. CASE free = {} /\ use = <<>>
    <2>1. UNCHANGED <<free, freenumbers, data, use>>
      BY <1>5 DEF Enqueue
    <2>2. NodesConserved'
      BY <1>3, <2>1 DEF NodesConserved
    <2> QED
      BY <1>5, <2>1, <2>2 DEF TypeOK
  <1>6. CASE free = {} /\ use # <<>>
    <2>1. /\ UNCHANGED <<free, freenumbers>> /\ data' = [data EXCEPT ![Head(use)] = frame]
          /\ use' = Append(Tail(use), Head(use))
      BY <1>6 DEF Enqueue
    <2>2. /\ Head(use) \in Nodes /\ Head(use) = use[1] /\ Tail(use) \in Seq(Nodes)
          /\ Len(use) > 0 /\ Len(Tail(use)) = Len(use) - 1
          /\ \A i \in 1 .. Len(use) - 1 : Tail(use)[i] = use[i + 1]
          /\ ToSet(use) = {Head(use)} \union ToSet(Tail(use))
          /\ NoRepeat(Tail(use)) /\ Head(use) \notin ToSet(Tail(use))
      BY <1>1, <1>2, <1>6, SetOfTail
    <2>3. use' \in Seq(Nodes) /\ ToSet(use') = ToSet(use) /\ NoRepeat(use')
      <3> DEFINE h == Head(use)
                 t == Tail(use)
      <3>0. h \in Nodes /\ t \in Seq(Nodes) /\ NoRepeat(t) /\ h \notin ToSet(t)
        BY <2>2
      <3> HIDE DEF h, t
      <3>a. ToSet(Append(t, h)) = ToSet(t) \union {h} /\ NoRepeat(Append(t, h))
        BY <3>0, SetOfAppend
      <3>1. ToSet(use') = ToSet(Tail(use)) \union {Head(use)} /\ NoRepeat(use')
        BY <2>1, <3>a DEF h, t
      <3>2. use' \in Seq(Nodes)
        BY <2>1, <2>2, AppendProperties
      <3> QED
        BY <2>2, <3>1, <3>2
    <2>4. Holding => held # Head(use)
      BY <2>2 DEF NodesConserved
    <2>5. data' \in [Nodes -> 0 .. MaxFrames] /\ (Holding => data'[held] = data[held])
      BY <1>1, <2>1, <2>2, <2>4
    <2>6. NodesConserved'
      <3>1. /\ freenumbers' = Cardinality(free')
            /\ free' \union ToSet(use') \union (IF Holding' THEN {held'} ELSE {}) = Nodes
            /\ free' \intersect ToSet(use') = {}
            /\ Holding' => held' \notin free' \union ToSet(use')
        BY <1>3, <2>1, <2>3 DEF NodesConserved
      <3> QED
        BY <2>3, <3>1 DEF NodesConserved, NoRepeat
    <2>7. Frames(use', data') = Append(Tail(Frames(use, data)), frame)
      <3> DEFINE f == Frames(use, data)
                 a == Append(Tail(f), frame)
      <3>1. f \in Seq(Nat) /\ Len(f) = Len(use) /\ f # <<>>
            /\ \A i \in 1 .. Len(use) : f[i] = data[use[i]]
        BY <1>1, <2>2, FramesType, EmptySeq
      <3> HIDE DEF f
      <3>2. /\ Frames(use', data') \in Seq(Nat) /\ Len(Frames(use', data')) = Len(use')
            /\ \A i \in 1 .. Len(use') : Frames(use', data')[i] = data'[use'[i]]
        BY <1>1, <2>3, <2>5, FramesType
      <3>3. /\ Len(use') = Len(use) /\ use'[Len(use)] = Head(use)
            /\ \A i \in 1 .. Len(use) - 1 : use'[i] = use[i + 1]
        BY <1>1, <2>1, <2>2, AppendProperties
      <3>4. ASSUME NEW i \in 1 .. Len(use) - 1
            PROVE  data'[use'[i]] = data[use[i + 1]]
        <4>1. i + 1 \in 1 .. Len(use) /\ i \in 1 .. Len(Tail(use))
          BY <1>1, <2>2
        <4>2. use[i + 1] \in Nodes
          BY <1>1, <4>1, ElementOfSeq
        <4>3. use[i + 1] # Head(use)
          <5>1. Tail(use)[i] = use[i + 1] /\ i \in DOMAIN Tail(use)
            BY <2>2, <4>1, LenProperties
          <5> QED
            BY <2>2, <5>1 DEF ToSet
        <4> QED
          BY <1>1, <2>1, <3>3, <4>2, <4>3
      <3>5. data'[Head(use)] = frame
        BY <1>1, <2>1, <2>2
      <3>6. /\ Tail(f) \in Seq(Nat) /\ Len(Tail(f)) = Len(use) - 1
            /\ \A i \in 1 .. Len(use) - 1 : Tail(f)[i] = f[i + 1]
        BY <3>1, SetOfTail
      <3>7. /\ a \in Seq(Nat) /\ Len(a) = Len(use) /\ a[Len(use)] = frame
            /\ \A i \in 1 .. Len(use) - 1 : a[i] = Tail(f)[i]
        BY <1>1, <2>2, <3>6, AppendProperties
      <3> HIDE DEF a
      <3>8. ASSUME NEW i \in 1 .. Len(use')
            PROVE  Frames(use', data')[i] = a[i]
        <4>1. Frames(use', data')[i] = data'[use'[i]]
          BY <3>2
        <4>2. CASE i = Len(use)
          BY <3>3, <3>5, <3>7, <4>1, <4>2
        <4>3. CASE i # Len(use)
          <5>1. i \in 1 .. Len(use) - 1 /\ i + 1 \in 1 .. Len(use)
            BY <1>1, <3>3, <4>3
          <5> QED
            BY <3>1, <3>4, <3>6, <3>7, <4>1, <5>1
        <4> QED
          BY <4>2, <4>3
      <3>9. Frames(use', data') = a
        BY <3>2, <3>3, <3>7, <3>8, SeqEqual
      <3> QED
        BY <3>9 DEF a, f
    <2> QED
      BY <1>1, <1>6, <2>1, <2>3, <2>5, <2>6, <2>7 DEF TypeOK
  <1> QED
    BY <1>4, <1>5, <1>6

-----------------------------------------------------------------------------
(* Every step is one of the queue. *)

LEMMA PendingType ==
  ASSUME TypeOK
  PROVE  /\ Frames(use, data) \in Seq(Nat) /\ hw \in Seq(Nat)
         /\ Len(Frames(use, data)) = Len(use) /\ Len(use) \in Nat /\ Len(hw) \in Nat
         /\ Pending = Frames(use, data) \o hw /\ Pending \in Seq(Nat)
         /\ Len(Pending) = Len(use) + Len(hw)
         /\ Delivered \in Nat /\ arrived \in Nat
  <1>1. use \in Seq(Nodes) /\ data \in [Nodes -> 0 .. MaxFrames] /\ MaxFrames \in Nat
    BY DepthAssumption DEF TypeOK
  <1>2. hw \in Seq(Nat)
    <2>1. 1 .. MaxFrames \subseteq Nat /\ hw \in Seq(1 .. MaxFrames)
      BY <1>1 DEF TypeOK
    <2> QED
      BY <2>1, SeqMonotonic
  <1>3. /\ Frames(use, data) \in Seq(Nat) /\ Len(Frames(use, data)) = Len(use)
        /\ Len(use) \in Nat /\ Len(hw) \in Nat
    <2>1. Frames(use, data) \in Seq(Nat) /\ Len(Frames(use, data)) = Len(use)
      BY <1>1, FramesType
    <2>2. Len(use) \in Nat /\ Len(hw) \in Nat
      BY <1>1, <1>2, LenProperties
    <2> QED
      BY <2>1, <2>2
  <1>4. Pending = Frames(use, data) \o hw
    BY DEF Pending, Frames
  <1>5. Pending \in Seq(Nat) /\ Len(Pending) = Len(use) + Len(hw)
    <2> DEFINE f == Frames(use, data)
    <2>1. f \in Seq(Nat) /\ Len(f) = Len(use)
      BY <1>3
    <2> HIDE DEF f
    <2>2. f \o hw \in Seq(Nat) /\ Len(f \o hw) = Len(f) + Len(hw)
      BY <1>2, <2>1, ConcatProperties
    <2> QED
      BY <1>4, <2>1, <2>2 DEF f
  <1>6. Delivered \in Nat /\ arrived \in Nat
    BY <1>1 DEF TypeOK, Delivered
  <1> QED
    BY <1>2, <1>3, <1>4, <1>5, <1>6

\* The backlog below which the queue loses nothing.
Backlog == IF FifoDepth < Cardinality(Nodes) THEN FifoDepth ELSE Cardinality(Nodes)

QueueArrive ==
    /\ arrived' = arrived + 1 /\ Pending' = Append(Pending, arrived') /\ Delivered' = Delivered

QueueOverwrite ==
    /\ Len(Pending) >= Backlog /\ Pending # <<>>
    /\ arrived' = arrived + 1 /\ Pending' = [Pending EXCEPT ![Len(Pending)] = arrived']
    /\ Delivered' = Delivered

QueueLose ==
    /\ Len(Pending) >= Backlog /\ Pending # <<>>
    /\ Pending' = Tail(Pending) /\ arrived' = arrived /\ Delivered' = Delivered

QueueDeliver ==
    /\ Pending # <<>>
    /\ Delivered' = Head(Pending) /\ Pending' = Tail(Pending) /\ arrived' = arrived

QueueStutter == Pending' = Pending /\ arrived' = arrived /\ Delivered' = Delivered

QueueStep == QueueArrive \/ QueueOverwrite \/ QueueLose \/ QueueDeliver \/ QueueStutter

LEMMA QueueStepIsNext == QueueStep => [Queue!Next]_(Queue!vars)
  BY DEF QueueStep, QueueArrive, QueueOverwrite, QueueLose, QueueDeliver, QueueStutter, Backlog,
     Queue!Next, Queue!Arrive, Queue!Overwrite, Queue!Lose, Queue!Deliver, Queue!vars

LEMMA OrderKept ==
  ASSUME TypeOK, Queue!InOrder, QueueStep
  PROVE  Queue!InOrder'
  <1>1. /\ Pending \in Seq(Nat) /\ Delivered \in Nat /\ arrived \in Nat
    BY PendingType
  <1>2. Ordered(Delivered, Pending, arrived)
    BY DEF Queue!InOrder, Ordered
  <1>3. Ordered(Delivered', Pending', arrived')
    <2>1. CASE QueueArrive
      BY <1>1, <1>2, <2>1, OrderedAppend DEF QueueArrive
    <2>2. CASE QueueOverwrite
      BY <1>1, <1>2, <2>2, OrderedOverwrite DEF QueueOverwrite
    <2>3. CASE QueueLose
      BY <1>1, <1>2, <2>3, OrderedTail DEF QueueLose
    <2>4. CASE QueueDeliver
      BY <1>1, <1>2, <2>4, OrderedTail DEF QueueDeliver
    <2>5. CASE QueueStutter
      BY <1>2, <2>5 DEF QueueStutter
    <2> QED
      BY <2>1, <2>2, <2>3, <2>4, <2>5 DEF QueueStep
  <1> QED
    BY <1>3 DEF Queue!InOrder, Ordered

\* A frame arrives.
LEMMA ArriveStep ==
  ASSUME Inv, Arrive
  PROVE  TypeOK' /\ NodesConserved' /\ OverrunIsFull' /\ QueueStep
  <1> DEFINE f == Frames(use, data)
  <1>0. TypeOK /\ NodesConserved /\ OverrunIsFull
    BY DEF Inv
  <1>1. /\ f \in Seq(Nat) /\ hw \in Seq(Nat) /\ Len(use) \in Nat /\ Len(hw) \in Nat
        /\ Len(f) = Len(use) /\ Pending = f \o hw /\ Pending \in Seq(Nat)
        /\ Len(Pending) = Len(use) + Len(hw) /\ arrived \in Nat
    BY <1>0, PendingType
  <1>2. /\ arrived' = arrived + 1 /\ arrived < MaxFrames
        /\ UNCHANGED <<isr, RxMessage, free, use, data, freenumbers, event>>
        /\ UNCHANGED <<indicate, early, pc, held, g_RxMessage>>
    BY DEF Arrive, fifo, reader
  <1>3. /\ FifoDepth \in Nat /\ FifoDepth > 0 /\ MaxFrames \in Nat
        /\ hw \in Seq(1 .. MaxFrames) /\ Len(hw) <= FifoDepth
        /\ arrived' \in 1 .. MaxFrames /\ arrived' \in Nat
    BY <1>0, <1>1, <1>2, DepthAssumption DEF TypeOK
  <1>4. Delivered' = Delivered /\ Pending' = f \o hw'
    BY <1>2 DEF Delivered, Pending, Frames
  <1>5. NodesConserved'
    BY <1>0, <1>2 DEF NodesConserved, Holding
  <1> HIDE DEF f
  <1>6. CASE Len(hw) < FifoDepth
    <2>1. hw' = Append(hw, arrived') /\ fovr' = fovr
      BY <1>6 DEF Arrive
    <2>2. hw' \in Seq(1 .. MaxFrames) /\ Len(hw') = Len(hw) + 1
      BY <1>3, <2>1, AppendProperties
    <2>3. ~fovr'
      BY <1>0, <1>1, <1>6, <2>1 DEF OverrunIsFull
    <2>4. TypeOK' /\ OverrunIsFull'
      <3>1. Len(hw') <= FifoDepth
        BY <1>1, <1>3, <1>6, <2>2
      <3>2. arrived' \in 0 .. MaxFrames
        BY <1>3
      <3> QED
        BY <1>0, <1>2, <2>1, <2>2, <2>3, <3>1, <3>2 DEF TypeOK, OverrunIsFull
    <2>5. Pending' = Append(Pending, arrived')
      BY <1>1, <1>3, <1>4, <2>1, ConcatAppend
    <2> QED
      BY <1>2, <1>4, <1>5, <2>4, <2>5 DEF QueueStep, QueueArrive
  <1>7. CASE ~(Len(hw) < FifoDepth)
    <2>1. hw' = [hw EXCEPT ![FifoDepth] = arrived'] /\ fovr' = TRUE
      BY <1>7 DEF Arrive
    <2>2. Len(hw) = FifoDepth /\ Len(hw) \in 1 .. Len(hw) /\ hw # <<>>
      <3>1. Len(hw) = FifoDepth /\ Len(hw) > 0
        BY <1>1, <1>3, <1>7
      <3> QED
        BY <1>1, <3>1
    <2>3. hw' \in Seq(1 .. MaxFrames) /\ Len(hw') = FifoDepth
      BY <1>3, <2>1, <2>2, ExceptSeq
    <2>4. TypeOK' /\ OverrunIsFull'
      <3>1. arrived' \in 0 .. MaxFrames /\ Len(hw') <= FifoDepth /\ fovr' \in BOOLEAN
        BY <1>3, <2>1, <2>3
      <3> QED
        BY <1>0, <1>2, <2>3, <3>1 DEF TypeOK, OverrunIsFull
    <2>5. Pending' = [Pending EXCEPT ![Len(Pending)] = arrived']
      <3>1. Pending' = f \o SetLast(hw, arrived')
        BY <1>4, <2>1, <2>2 DEF SetLast
      <3>2. f \o SetLast(hw, arrived') = SetLast(f \o hw, arrived')
        BY <1>1, <1>3, <2>2, ConcatLast
      <3> QED
        BY <1>1, <3>1, <3>2 DEF SetLast
    <2>6. Len(Pending) >= Backlog /\ Pending # <<>>
      <3>1. Cardinality(Nodes) \in Nat
        BY NodesAssumption, FS_CardinalityType
      <3>2. Len(Pending) >= FifoDepth
        BY <1>1, <1>3, <2>2
      <3>3. Len(Pending) >= Backlog
        BY <1>1, <1>3, <3>1, <3>2 DEF Backlog
      <3> QED
        BY <1>1, <1>3, <3>2, <3>3, EmptySeq
    <2> QED
      BY <1>2, <1>4, <1>5, <2>4, <2>5, <2>6 DEF QueueStep, QueueOverwrite
  <1> QED
    BY <1>6, <1>7

\* The handler takes in a frame: a move within the queue, or the loss of its oldest one.
LEMMA IsrFrameStep ==
  ASSUME Inv, IsrFrame
  PROVE  /\ TypeOK' /\ NodesConserved' /\ OverrunIsFull' /\ QueueStep
         /\ LastTakenIn' /\ CopiesNext'
  <1> DEFINE f == Frames(use, data)
             h == Head(hw)
             g == Frames(use', data')
  <1>0. /\ TypeOK /\ NodesConserved /\ OverrunIsFull /\ Queue!InOrder /\ CopiesNext
    BY DEF Inv
  <1>1. /\ f \in Seq(Nat) /\ hw \in Seq(Nat) /\ Len(use) \in Nat /\ Len(hw) \in Nat
        /\ Len(f) = Len(use) /\ Pending = f \o hw /\ Pending \in Seq(Nat)
        /\ Len(Pending) = Len(use) + Len(hw)
    BY <1>0, PendingType
  <1>2. /\ hw # <<>> /\ RxMessage' = h /\ hw' = Tail(hw) /\ ~fovr' /\ fovr' \in BOOLEAN
        /\ Enqueue(h)
        /\ UNCHANGED <<arrived, isr, indicate, early, pc, held, g_RxMessage>>
    BY DEF IsrFrame, reader
  <1>3. hw \in Seq(1 .. MaxFrames) /\ MaxFrames \in Nat /\ Len(hw) <= FifoDepth
        /\ FifoDepth \in Nat
    BY <1>0, DepthAssumption DEF TypeOK
  <1>4. /\ h \in 1 .. MaxFrames /\ h = hw[1] /\ Tail(hw) \in Seq(1 .. MaxFrames)
        /\ Len(hw) > 0 /\ Len(Tail(hw)) = Len(hw) - 1
    BY <1>2, <1>3, SetOfTail
  <1>5. h \in 0 .. MaxFrames /\ h \in Nat
    BY <1>3, <1>4
  <1>6. /\ free' \subseteq Nodes /\ use' \in Seq(Nodes)
        /\ data' \in [Nodes -> 0 .. MaxFrames] /\ freenumbers' \in 0 .. Cardinality(Nodes)
        /\ NodesConserved'
        /\ Holding => data'[held] = data[held]
        /\ \/ g = Append(f, h)
           \/ free = {} /\ use # <<>> /\ g = Append(Tail(f), h)
           \/ free = {} /\ use = <<>> /\ use' = <<>>
    BY <1>0, <1>2, <1>5, EnqueueKeeps
  <1> HIDE DEF h
  <1>7. TypeOK' /\ OverrunIsFull'
    <2>1. hw' \in Seq(1 .. MaxFrames) /\ Len(hw') <= FifoDepth
      BY <1>1, <1>2, <1>3, <1>4
    <2>2. event' \in BOOLEAN
      BY <1>2 DEF Enqueue, Indicate
    <2>3. RxMessage' \in 0 .. MaxFrames
      BY <1>2, <1>5
    <2> QED
      BY <1>0, <1>2, <1>6, <2>1, <2>2, <2>3 DEF TypeOK, OverrunIsFull
  <1>8. /\ g \in Seq(Nat) /\ Len(g) = Len(use')
        /\ \A i \in 1 .. Len(use') : g[i] = data'[use'[i]]
    BY <1>6, FramesType
  <1>9. /\ Delivered' = Delivered /\ arrived' = arrived /\ Pending' = g \o Tail(hw)
        /\ CopiesNext'
    BY <1>0, <1>2, <1>6 DEF Delivered, Pending, Frames, Holding, CopiesNext
  <1>10. free = {} => Len(Pending) >= Backlog /\ Pending # <<>>
    <2> SUFFICES ASSUME free = {} PROVE Len(Pending) >= Backlog /\ Pending # <<>>
      OBVIOUS
    <2>1. Len(use) + 1 >= Cardinality(Nodes)
      BY <1>0, NoneFree
    <2>2. Cardinality(Nodes) \in Nat
      BY NodesAssumption, FS_CardinalityType
    <2>3. Len(Pending) >= Cardinality(Nodes) /\ Len(Pending) > 0
      BY <1>1, <1>4, <2>1, <2>2
    <2>4. Len(Pending) >= Backlog
      BY <1>1, <1>3, <2>2, <2>3 DEF Backlog
    <2> QED
      BY <1>1, <2>3, <2>4, EmptySeq
  <1>11. \A i \in 1 .. Len(use) : f[i] < h
    <2>1. Pending[Len(use) + 1] = h
      BY <1>1, <1>4
    <2>2. Len(use) + 1 \in 1 .. Len(Pending)
      BY <1>1, <1>4
    <2>3. ASSUME NEW i \in 1 .. Len(use) PROVE f[i] < h
      <3>1. Pending[i] = f[i]
        BY <1>1
      <3>2. i \in 1 .. Len(Pending) /\ i < Len(use) + 1
        BY <1>1
      <3> QED
        BY <1>0, <2>1, <2>2, <3>1, <3>2 DEF Queue!InOrder
    <2> QED
      BY <2>3
  <1> HIDE DEF f, g
  <1>13. CASE g = Append(f, h)
    <2>1. Pending' = Pending
      BY <1>1, <1>2, <1>9, <1>13, MoveOne DEF h
    <2>2. ASSUME NEW i \in 1 .. Len(use') PROVE g[i] <= h
      <3>1. /\ Len(use') = Len(use) + 1 /\ g[Len(use) + 1] = h
            /\ \A k \in 1 .. Len(use) : g[k] = f[k]
        BY <1>1, <1>5, <1>8, <1>13, AppendProperties
      <3>2. CASE i = Len(use) + 1
        BY <1>5, <3>1, <3>2
      <3>3. CASE i # Len(use) + 1
        <4>1. i \in 1 .. Len(use)
          BY <1>1, <3>1, <3>3
        <4>2. g[i] = f[i] /\ f[i] < h /\ f[i] \in Nat
          BY <1>1, <1>11, <3>1, <4>1, ElementOfSeq
        <4> QED
          BY <1>5, <4>2
      <3> QED
        BY <3>2, <3>3
    <2>3. LastTakenIn'
      BY <1>2, <1>8, <2>2 DEF LastTakenIn
    <2> QED
      BY <1>6, <1>7, <1>9, <2>1, <2>3 DEF QueueStep, QueueStutter
  <1>14. CASE free = {} /\ use # <<>> /\ g = Append(Tail(f), h)
    <2>1. f # <<>>
      BY <1>0, <1>1, <1>14, EmptySeq DEF TypeOK
    <2>2. /\ Tail(f) \in Seq(Nat) /\ Len(Tail(f)) = Len(use) - 1 /\ Len(use) > 0
          /\ \A i \in 1 .. Len(use) - 1 : Tail(f)[i] = f[i + 1]
      BY <1>1, <2>1, SetOfTail
    <2>3. Pending' = Tail(Pending)
      <3>1. Append(Tail(f), h) \o Tail(hw) = Tail(f) \o hw
        BY <1>1, <1>2, <2>2, MoveOne DEF h
      <3>2. Tail(f \o hw) = Tail(f) \o hw
        BY <1>1, <2>1, TailOfConcat
      <3> QED
        BY <1>1, <1>9, <1>14, <3>1, <3>2
    <2>4. ASSUME NEW i \in 1 .. Len(use') PROVE g[i] <= h
      <3>1. /\ Len(use') = Len(use) /\ g[Len(use)] = h
            /\ \A k \in 1 .. Len(use) - 1 : g[k] = Tail(f)[k]
        BY <1>1, <1>5, <1>8, <1>14, <2>2, AppendProperties
      <3>2. CASE i = Len(use)
        BY <1>5, <3>1, <3>2
      <3>3. CASE i # Len(use)
        <4>1. i \in 1 .. Len(use) - 1 /\ i + 1 \in 1 .. Len(use)
          BY <1>1, <3>1, <3>3
        <4>2. g[i] = f[i + 1] /\ f[i + 1] < h /\ f[i + 1] \in Nat
          BY <1>1, <1>11, <2>2, <3>1, <4>1, ElementOfSeq
        <4> QED
          BY <1>5, <4>2
      <3> QED
        BY <3>2, <3>3
    <2>5. LastTakenIn'
      BY <1>2, <1>8, <2>4 DEF LastTakenIn
    <2> QED
      BY <1>6, <1>7, <1>9, <1>10, <1>14, <2>3, <2>5 DEF QueueStep, QueueLose
  <1>15. CASE free = {} /\ use = <<>> /\ use' = <<>>
    <2>1. f = <<>> /\ g = <<>>
      BY <1>1, <1>8, <1>15, EmptySeq
    <2>2. Pending' = Tail(Pending)
      <3>1. Tail(hw) \in Seq(Nat)
        BY <1>1, <1>2, SetOfTail
      <3> QED
        BY <1>1, <1>9, <2>1, <3>1, ConcatEmptySeq
    <2>3. LastTakenIn'
      BY <1>15 DEF LastTakenIn
    <2> QED
      BY <1>6, <1>7, <1>9, <1>10, <1>15, <2>2, <2>3 DEF QueueStep, QueueLose
  <1> QED
    BY <1>6, <1>13, <1>14, <1>15

\* The handler is entered or left; a FIFO that is drained has no overrun left to report,
\* so the fall-through of RXOF_IND takes in nothing.
LEMMA IsrEdgeStep ==
  ASSUME Inv, IsrEnter \/ IsrLeave
  PROVE  /\ TypeOK' /\ OverrunIsFull'
         /\ UNCHANGED <<arrived, hw, RxMessage, free, use, data, freenumbers, event>>
         /\ UNCHANGED <<indicate, early, pc, held, g_RxMessage>>
  <1>0. TypeOK /\ OverrunIsFull
    BY DEF Inv
  <1>1. CASE IsrEnter
    BY <1>0, <1>1 DEF IsrEnter, fifo, reader, TypeOK, OverrunIsFull
  <1>2. CASE IsrLeave
    <2>1. ~fovr
      BY <1>0, <1>2, DepthAssumption, EmptySeq DEF OverrunIsFull, IsrLeave
    <2>2. /\ UNCHANGED <<fifo, event, arrived, hw, RxMessage, reader>>
          /\ fovr' = FALSE /\ isr' = FALSE
      BY <1>2, <2>1 DEF IsrLeave
    <2> QED
      BY <1>0, <2>2 DEF fifo, reader, TypeOK, OverrunIsFull
  <1> QED
    BY <1>1, <1>2

\* The reader takes the oldest node: a delivery.
LEMMA TakeStep ==
  ASSUME Inv, Take
  PROVE  /\ TypeOK' /\ NodesConserved' /\ OverrunIsFull' /\ QueueStep
         /\ LastTakenIn' /\ CopiesNext'
  <1> DEFINE f == Frames(use, data)
             g == Frames(use', data')
  <1>0. /\ TypeOK /\ NodesConserved /\ OverrunIsFull /\ Queue!InOrder /\ LastTakenIn
        /\ pc = "read"
    BY DEF Inv, Take, Thread
  <1>1. /\ f \in Seq(Nat) /\ hw \in Seq(Nat) /\ Len(use) \in Nat /\ Len(hw) \in Nat
        /\ Len(f) = Len(use) /\ Pending = f \o hw /\ Pending \in Seq(Nat)
        /\ Len(Pending) = Len(use) + Len(hw)
    BY <1>0, PendingType
  <1>2. /\ UNCHANGED <<arrived, hw, fovr, isr, RxMessage, free, data, freenumbers, event>>
        /\ UNCHANGED <<indicate, early, g_RxMessage>>
    BY DEF Take, controller
  <1>3. use \in Seq(Nodes) /\ NoRepeat(use) /\ data \in [Nodes -> 0 .. MaxFrames]
    BY <1>0 DEF TypeOK, NodesConserved, NoRepeat
  <1>4. CASE use = <<>>
    <2>1. pc' = "sleep" /\ UNCHANGED <<use, held>>
      BY <1>4 DEF Take
    <2>2. TypeOK' /\ OverrunIsFull' /\ LastTakenIn' /\ CopiesNext'
      BY <1>0, <1>2, <2>1 DEF TypeOK, OverrunIsFull, LastTakenIn, CopiesNext, PCs
    <2>3. NodesConserved'
      BY <1>0, <1>2, <2>1 DEF NodesConserved, Holding
    <2>4. QueueStutter
      BY <1>0, <1>2, <2>1 DEF QueueStutter, Pending, Delivered
    <2> QED
      BY <2>2, <2>3, <2>4 DEF QueueStep
  <1>5. CASE use # <<>>
    <2>1. pc' = "copy" /\ held' = Head(use) /\ use' = Tail(use)
      BY <1>5 DEF Take
    <2>2. /\ held' \in Nodes /\ held' = use[1] /\ use' \in Seq(Nodes)
          /\ Len(use) > 0 /\ Len(use') = Len(use) - 1
          /\ \A i \in 1 .. Len(use) - 1 : use'[i] = use[i + 1]
          /\ ToSet(use) = {held'} \union ToSet(use')
          /\ NoRepeat(use') /\ held' \notin ToSet(use')
      BY <1>3, <1>5, <2>1, SetOfTail
    <2>3. TypeOK' /\ OverrunIsFull'
      BY <1>0, <1>2, <2>1, <2>2 DEF TypeOK, OverrunIsFull, PCs
    <2>4. NodesConserved'
      <3>1. ~Holding /\ Holding'
        BY <1>0, <2>1 DEF Holding
      <3>2. /\ freenumbers' = Cardinality(free')
            /\ free' \union ToSet(use') \union {held'} = Nodes
            /\ free' \intersect ToSet(use') = {}
            /\ held' \notin free' \union ToSet(use')
        BY <1>0, <1>2, <2>2, <3>1 DEF NodesConserved
      <3> QED
        BY <2>2, <3>1, <3>2 DEF NodesConserved, NoRepeat
    <2>5. LastTakenIn'
      <3>1. ASSUME NEW i \in 1 .. Len(use') PROVE data'[use'[i]] <= RxMessage'
        <4>1. i + 1 \in 1 .. Len(use) /\ use'[i] = use[i + 1]
          BY <1>1, <2>2
        <4> QED
          BY <1>0, <1>2, <4>1 DEF LastTakenIn
      <3> QED
        BY <3>1 DEF LastTakenIn
    <2>6. f # <<>> /\ Head(f) = data[held']
      <3>1. f # <<>> /\ 1 \in 1 .. Len(use)
        BY <1>1, <2>2, EmptySeq
      <3>2. f[1] = data[use[1]]
        BY <1>3, <3>1, FramesType
      <3> QED
        BY <1>1, <2>2, <3>1, <3>2, SetOfTail
    <2>7. g = Tail(f)
      <3>1. /\ g \in Seq(Nat) /\ Len(g) = Len(use')
            /\ \A i \in 1 .. Len(use') : g[i] = data[use'[i]]
        BY <1>2, <1>3, <2>2, FramesType
      <3>2. /\ Tail(f) \in Seq(Nat) /\ Len(Tail(f)) = Len(use) - 1
            /\ \A i \in 1 .. Len(use) - 1 : Tail(f)[i] = f[i + 1]
        BY <1>1, <2>6, SetOfTail
      <3>3. \A i \in 1 .. Len(use) : f[i] = data[use[i]]
        BY <1>3, FramesType
      <3> HIDE DEF f, g
      <3>4. ASSUME NEW i \in 1 .. Len(g) PROVE g[i] = Tail(f)[i]
        <4>1. i \in 1 .. Len(use) - 1 /\ i + 1 \in 1 .. Len(use)
          BY <1>1, <2>2, <3>1
        <4>2. g[i] = data[use'[i]] /\ use'[i] = use[i + 1]
          BY <2>2, <3>1, <4>1
        <4>3. Tail(f)[i] = f[i + 1] /\ f[i + 1] = data[use[i + 1]]
          BY <3>2, <3>3, <4>1
        <4> QED
          BY <4>2, <4>3
      <3> QED
        BY <2>2, <3>1, <3>2, <3>4, SeqEqual
    <2>8. Pending' = g \o hw
      BY <1>2 DEF Pending, Frames
    <2> HIDE DEF f, g
    <2>9. Pending' = Tail(Pending) /\ Head(Pending) = data[held']
      BY <1>1, <2>6, <2>7, <2>8, TailOfConcat
    <2>10. Pending # <<>>
      BY <1>1, <2>2, EmptySeq
    <2>11. Delivered' = Head(Pending) /\ Delivered = g_RxMessage
      BY <1>0, <1>2, <2>1, <2>9 DEF Delivered
    <2>12. CopiesNext'
      <3>1. 1 \in 1 .. Len(Pending) /\ Pending[1] = Head(Pending)
        BY <1>1, <2>2, <2>10, SetOfTail
      <3> QED
        BY <1>0, <1>2, <2>9, <2>11, <3>1 DEF CopiesNext, Queue!InOrder
    <2> QED
      BY <1>2, <2>3, <2>4, <2>5, <2>9, <2>10, <2>11, <2>12 DEF QueueStep, QueueDeliver
  <1> QED
    BY <1>4, <1>5

\* The reader's other steps leave the queue as it is.
LEMMA ReaderStep ==
  ASSUME Inv, Install \/ Poll \/ Delay \/ Copy \/ PutNode
  PROVE  /\ TypeOK' /\ NodesConserved' /\ OverrunIsFull' /\ QueueStep
         /\ LastTakenIn' /\ CopiesNext' /\ Installed'
  <1>0. /\ TypeOK /\ NodesConserved /\ OverrunIsFull /\ LastTakenIn /\ CopiesNext
        /\ Installed
    BY DEF Inv
  <1>1. UNCHANGED <<arrived, hw, fovr, isr, RxMessage, use, data, held>>
    BY DEF Install, Poll, Delay, Copy, PutNode, controller, fifo
  <1>2. OverrunIsFull' /\ LastTakenIn' /\ Pending' = Pending
    BY <1>0, <1>1 DEF OverrunIsFull, LastTakenIn, Pending
  <1>3. CopiesNext' /\ Installed' /\ Delivered' = Delivered
    <2>1. pc' # "copy" /\ (pc = "boot" => indicate')
      BY DEF Install, Poll, Delay, Copy, PutNode, Thread
    <2>2. Installed'
      BY <1>0 DEF Install, Poll, Delay, Copy, PutNode, Thread, Installed
    <2>3. Delivered' = Delivered
      BY <1>1 DEF Install, Poll, Delay, Copy, PutNode, Thread, Delivered
    <2> QED
      BY <2>1, <2>2, <2>3 DEF CopiesNext
  <1>4. QueueStep
    BY <1>1, <1>2, <1>3 DEF QueueStep, QueueStutter
  <1>5. CASE Install \/ Poll \/ Delay
    <2>1. UNCHANGED <<free, freenumbers, g_RxMessage>> /\ ~Holding /\ ~Holding'
      BY <1>5 DEF Install, Poll, Delay, Thread, Holding, fifo
    <2>2. NodesConserved'
      BY <1>0, <1>1, <2>1 DEF NodesConserved
    <2>3. indicate' \in BOOLEAN /\ event' \in BOOLEAN
      BY <1>0, <1>5 DEF Install, Poll, Delay, TypeOK
    <2>4. early' \in 0 .. MaxFrames /\ pc' \in PCs
      BY <1>0, <1>5 DEF Install, Poll, Delay, TypeOK, PCs
    <2>5. TypeOK'
      BY <1>0, <1>1, <2>1, <2>3, <2>4 DEF TypeOK
    <2> QED
      BY <1>2, <1>3, <1>4, <2>2, <2>5
  <1>6. CASE Copy
    <2>1. UNCHANGED <<free, freenumbers, indicate, early, event>> /\ Holding /\ Holding'
          /\ g_RxMessage' = data[held] /\ pc' = "put"
      BY <1>6 DEF Copy, Thread, Holding, fifo
    <2>2. NodesConserved'
      BY <1>0, <1>1, <2>1 DEF NodesConserved
    <2>3. TypeOK'
      BY <1>0, <1>1, <2>1 DEF TypeOK, PCs
    <2> QED
      BY <1>2, <1>3, <1>4, <2>2, <2>3
  <1>7. CASE PutNode
    <2>1. /\ UNCHANGED <<indicate, early, event, g_RxMessage>> /\ Holding /\ ~Holding'
          /\ free' = free \union {held} /\ freenumbers' = freenumbers + 1 /\ pc' = "read"
      BY <1>7 DEF PutNode, Thread, Holding
    <2>2. free \subseteq Nodes /\ held \in Nodes /\ held \notin free
      BY <1>0, <2>1 DEF TypeOK, NodesConserved
    <2>3. IsFiniteSet(free) /\ freenumbers = Cardinality(free) /\ Cardinality(free) \in Nat
      BY <1>0, <2>2, NodesAssumption, FS_Subset, FS_CardinalityType DEF NodesConserved
    <2>4. freenumbers' = Cardinality(free')
      BY <2>1, <2>2, <2>3, FS_AddElement
    <2>5. free' \subseteq Nodes /\ Cardinality(Nodes) \in Nat
      BY <2>1, <2>2, NodesAssumption, FS_CardinalityType
    <2>6. Cardinality(free') <= Cardinality(Nodes)
      BY <2>5, NodesAssumption, FS_Subset
    <2>7. freenumbers' \in 0 .. Cardinality(Nodes)
      BY <2>1, <2>3, <2>4, <2>5, <2>6
    <2>8. /\ free' \union ToSet(use') \union (IF Holding' THEN {held'} ELSE {}) = Nodes
          /\ free' \intersect ToSet(use') = {}
      BY <1>0, <1>1, <2>1 DEF NodesConserved
    <2>9. NodesConserved'
      BY <1>0, <1>1, <2>1, <2>4, <2>8 DEF NodesConserved
    <2>10. TypeOK'
      BY <1>0, <1>1, <2>1, <2>5, <2>7 DEF TypeOK, PCs
    <2> QED
      BY <1>2, <1>3, <1>4, <2>9, <2>10
  <1> QED
    BY <1>5, <1>6, <1>7

\* The reader does not fall asleep on a frame.
LEMMA WakeupKept ==
  ASSUME Inv, Next
  PROVE  WakeupNotLost'
  <1>0. TypeOK /\ WakeupNotLost /\ Installed /\ LastTakenIn
    BY DEF Inv
  <1>1. CASE Arrive \/ IsrEnter \/ Copy \/ PutNode \/ Delay
    BY <1>0, <1>1
    DEF Arrive, IsrEnter, Copy, PutNode, Delay, Thread, WakeupNotLost, fifo, reader
  <1>2. CASE IsrLeave
    BY <1>0, <1>2, IsrEdgeStep DEF WakeupNotLost
  <1>3. CASE IsrFrame
    <2>1. event' = (event \/ indicate) /\ pc' = pc
      BY <1>3 DEF IsrFrame, Enqueue, Indicate, reader
    <2> QED
      BY <1>0, <2>1 DEF WakeupNotLost, Installed
  <1>4. CASE Install
    <2>1. UNCHANGED <<use, data>> /\ early' = RxMessage
      BY <1>4 DEF Install, fifo
    <2>2. \A n \in ToSet(use) : ~(data[n] > RxMessage)
      <3>1. use \in Seq(Nodes) /\ DOMAIN use = 1 .. Len(use)
        BY <1>0, LenProperties DEF TypeOK
      <3>2. ASSUME NEW i \in 1 .. Len(use) PROVE ~(data[use[i]] > RxMessage)
        <4>1. use[i] \in Nodes /\ MaxFrames \in Nat
          BY <3>1, ElementOfSeq, DepthAssumption
        <4>2. data[use[i]] \in Nat /\ RxMessage \in Nat
          BY <1>0, <4>1 DEF TypeOK
        <4> QED
          BY <1>0, <4>2 DEF LastTakenIn
      <3> QED
        BY <3>1, <3>2 DEF ToSet
    <2> QED
      BY <2>1, <2>2 DEF WakeupNotLost
  <1>5. CASE Poll
    BY <1>0, <1>5 DEF Poll, Thread, WakeupNotLost, fifo
  <1>6. CASE Take
    <2>1. CASE use = <<>>
      <3>1. use' = <<>>
        BY <1>6, <2>1 DEF Take
      <3> QED
        BY <3>1 DEF WakeupNotLost, ToSet
    <2>2. CASE use # <<>>
      BY <1>6, <2>2 DEF Take, WakeupNotLost
    <2> QED
      BY <2>1, <2>2
  <1> QED
    BY <1>1, <1>2, <1>3, <1>4, <1>5, <1>6 DEF Next, Reader

LEMMA StepKeeps ==
  ASSUME Inv, Next
  PROVE  Inv' /\ QueueStep
  <1>0. /\ TypeOK /\ NodesConserved /\ LastTakenIn /\ CopiesNext /\ Installed
        /\ Queue!InOrder
    BY DEF Inv
  <1>1. /\ TypeOK' /\ NodesConserved' /\ OverrunIsFull' /\ QueueStep
        /\ LastTakenIn' /\ CopiesNext' /\ Installed'
    <2>1. CASE Arrive
      <3>1. UNCHANGED <<use, data, RxMessage, pc, g_RxMessage, held, indicate>>
        BY <2>1 DEF Arrive, fifo, reader
      <3>2. LastTakenIn' /\ CopiesNext' /\ Installed'
        BY <1>0, <3>1 DEF LastTakenIn, CopiesNext, Installed
      <3> QED
        BY <2>1, <3>2, ArriveStep
    <2>2. CASE IsrEnter \/ IsrLeave
      <3>1. /\ TypeOK' /\ OverrunIsFull'
            /\ UNCHANGED <<arrived, hw, RxMessage, free, use, data, freenumbers, event>>
            /\ UNCHANGED <<indicate, early, pc, held, g_RxMessage>>
        BY <2>2, IsrEdgeStep
      <3>2. LastTakenIn' /\ CopiesNext' /\ Installed'
        BY <1>0, <3>1 DEF LastTakenIn, CopiesNext, Installed
      <3>3. NodesConserved'
        BY <1>0, <3>1 DEF NodesConserved, Holding
      <3>4. QueueStutter
        BY <3>1 DEF QueueStutter, Pending, Delivered
      <3> QED
        BY <3>1, <3>2, <3>3, <3>4 DEF QueueStep
    <2>3. CASE IsrFrame
      <3>1. Installed'
        BY <1>0, <2>3 DEF IsrFrame, reader, Installed
      <3> QED
        BY <2>3, <3>1, IsrFrameStep
    <2>4. CASE Take
      <3>1. Installed'
        BY <1>0, <2>4 DEF Take, Thread, Installed
      <3> QED
        BY <2>4, <3>1, TakeStep
    <2>5. CASE Install \/ Poll \/ Delay \/ Copy \/ PutNode
      BY <2>5, ReaderStep
    <2> QED
      BY <2>1, <2>2, <2>3, <2>4, <2>5 DEF Next, Reader
  <1>2. Queue!InOrder'
    BY <1>0, <1>1, OrderKept
  <1>3. WakeupNotLost'
    BY WakeupKept
  <1> QED
    BY <1>1, <1>2, <1>3 DEF Inv

LEMMA StartInv == Init => Inv
  <1> SUFFICES ASSUME Init PROVE Inv
    OBVIOUS
  <1>1. IsFiniteSet(Nodes) /\ Cardinality(Nodes) \in Nat /\ MaxFrames \in Nat
        /\ FifoDepth \in Nat
    BY NodesAssumption, DepthAssumption, FS_CardinalityType
  <1>2. TypeOK
    <2>1. fovr \in BOOLEAN /\ isr \in BOOLEAN /\ indicate \in BOOLEAN /\ event \in BOOLEAN
      BY DEF Init
    <2>2. hw \in Seq(1 .. MaxFrames) /\ Len(hw) <= FifoDepth /\ use \in Seq(Nodes)
      BY <1>1 DEF Init
    <2>3. /\ arrived \in 0 .. MaxFrames /\ RxMessage \in 0 .. MaxFrames
          /\ g_RxMessage \in 0 .. MaxFrames /\ early \in 0 .. MaxFrames
          /\ data \in [Nodes -> 0 .. MaxFrames] /\ freenumbers \in 0 .. Cardinality(Nodes)
      BY <1>1 DEF Init, NoFrame
    <2> QED
      BY <2>1, <2>2, <2>3 DEF Init, TypeOK, PCs
  <1>3. ToSet(use) = {} /\ Len(use) = 0 /\ Len(hw) = 0
    BY DEF Init, ToSet
  <1>4. NodesConserved
    BY <1>3 DEF Init, NodesConserved, Holding
  <1>5. OverrunIsFull /\ Installed /\ LastTakenIn /\ CopiesNext
    BY <1>3 DEF Init, OverrunIsFull, Installed, LastTakenIn, CopiesNext
  <1>6. Len(Pending) = 0
    BY <1>2, <1>3, PendingType
  <1>7. Queue!InOrder
    BY <1>6 DEF Init, NoFrame, Queue!InOrder, Delivered
  <1>8. WakeupNotLost
    BY DEF Init, WakeupNotLost
  <1> QED
    BY <1>2, <1>4, <1>5, <1>7, <1>8 DEF Inv

\* The inductive invariant holds: every state is well-formed, whatever arrives while the
\* reader is between the short sections of _can_int_rx.
THEOREM InvAlways == Spec => []Inv
  <1>1. Inv /\ [Next]_vars => Inv'
    <2> SUFFICES ASSUME Inv, [Next]_vars PROVE Inv'
      OBVIOUS
    <2>1. CASE UNCHANGED vars
      <3>1. TypeOK' /\ NodesConserved' /\ OverrunIsFull' /\ Installed' /\ LastTakenIn'
            /\ CopiesNext' /\ WakeupNotLost'
        BY <2>1 DEF Inv, vars, controller, fifo, reader, TypeOK, NodesConserved, Holding,
          OverrunIsFull, Installed, LastTakenIn, CopiesNext, WakeupNotLost
      <3>2. QueueStutter
        BY <2>1 DEF vars, controller, fifo, reader, QueueStutter, Pending, Delivered
      <3>3. Queue!InOrder'
        BY <3>2, OrderKept DEF QueueStep, Inv
      <3> QED
        BY <3>1, <3>3 DEF Inv
    <2> QED
      BY <2>1, StepKeeps
  <1> QED
    BY <1>1, StartInv, PTL DEF Spec

\* No message node is lost or shared, and freenumbers counts the free ones, for every
\* number of nodes (rt_hw_can_isr, _can_int_rx).
THEOREM NodesConservedAlways == Spec => []NodesConserved
  <1>1. Inv => NodesConserved
    BY DEF Inv
  <1> QED
    BY <1>1, InvAlways, PTL

LEMMA PrependOrdered ==
  ASSUME NEW m \in Nat, NEW c \in Nat, NEW q \in Seq(Nat), Ordered(m, q, c),
         NEW a \in Seq(Nat), \A i \in 1 .. Len(a) : a[i] <= m,
         \A i, j \in 1 .. Len(a) : i < j => a[i] < a[j]
  PROVE  \A i, j \in 1 .. Len(a \o q) : i < j => (a \o q)[i] < (a \o q)[j]
  <1> DEFINE s == a \o q
  <1>1. /\ Len(a) \in Nat /\ Len(q) \in Nat /\ Len(s) = Len(a) + Len(q)
        /\ \A i \in 1 .. Len(a) + Len(q) : s[i] = IF i <= Len(a) THEN a[i] ELSE q[i - Len(a)]
    BY ConcatProperties, LenProperties
  <1> HIDE DEF s
  <1>2. ASSUME NEW i \in 1 .. Len(s), NEW j \in 1 .. Len(s), i < j
        PROVE  s[i] < s[j]
    <2>1. CASE j <= Len(a)
      <3>1. i \in 1 .. Len(a) /\ j \in 1 .. Len(a) /\ s[i] = a[i] /\ s[j] = a[j]
        BY <1>1, <1>2, <2>1
      <3> QED
        BY <1>2, <3>1
    <2>2. CASE i <= Len(a) /\ ~(j <= Len(a))
      <3>1. /\ i \in 1 .. Len(a) /\ j - Len(a) \in 1 .. Len(q)
            /\ s[i] = a[i] /\ s[j] = q[j - Len(a)]
        BY <1>1, <1>2, <2>2
      <3>2. a[i] \in Nat /\ q[j - Len(a)] \in Nat /\ a[i] <= m
        BY <3>1, ElementOfSeq
      <3>3. m < q[j - Len(a)]
        BY <3>1 DEF Ordered
      <3> QED
        BY <3>1, <3>2, <3>3
    <2>3. CASE ~(i <= Len(a))
      <3>1. /\ i - Len(a) \in 1 .. Len(q) /\ j - Len(a) \in 1 .. Len(q)
            /\ i - Len(a) < j - Len(a)
        BY <1>1, <1>2, <2>3
      <3>2. s[i] = q[i - Len(a)] /\ s[j] = q[j - Len(a)]
        BY <1>1, <1>2, <2>3
      <3> QED
        BY <3>1, <3>2 DEF Ordered
    <2> QED
      BY <1>1, <2>1, <2>2, <2>3
  <1> QED
    BY <1>2 DEF s

\* The reader gets the frames in the order they arrived and none twice, also when the
\* FIFO or the nodes overflow, for every depth of the one and number of the others.
THEOREM InOrderOnceAlways == Spec => []InOrderOnce
  <1>1. ASSUME Inv PROVE InOrderOnce
    <2>1. /\ Pending \in Seq(Nat) /\ Delivered \in Nat /\ arrived \in Nat
      BY <1>1, PendingType DEF Inv
    <2>2. Ordered(Delivered, Pending, arrived)
      BY <1>1 DEF Inv, Queue!InOrder, Ordered
    <2>3. g_RxMessage \in Nat
      BY <1>1, DepthAssumption DEF Inv, TypeOK
    <2> DEFINE d == data[held]
               a == <<g_RxMessage>> \o (IF pc = "copy" THEN <<d>> ELSE <<>>)
    <2>4. /\ a \in Seq(Nat) /\ \A i \in 1 .. Len(a) : a[i] <= Delivered
          /\ \A i, j \in 1 .. Len(a) : i < j => a[i] < a[j]
      <3>1. CASE pc = "copy"
        <4>1. d \in Nat /\ Delivered = d /\ g_RxMessage < d
          BY <1>1, <2>1, <3>1 DEF Inv, CopiesNext, Delivered
        <4>2. a = <<g_RxMessage>> \o <<d>>
          BY <3>1
        <4> HIDE DEF d
        <4> HIDE DEF a
        <4>3. <<g_RxMessage>> \in Seq(Nat) /\ <<d>> \in Seq(Nat)
          BY <2>3, <4>1
        <4>4. a \in Seq(Nat) /\ Len(a) = 2 /\ a[1] = g_RxMessage /\ a[2] = d
          BY <4>2, <4>3
        <4> QED
          BY <2>3, <4>1, <4>4
      <3>2. CASE pc # "copy"
        <4>1. Delivered = g_RxMessage /\ a = <<g_RxMessage>> \o <<>>
          BY <3>2 DEF Delivered
        <4> HIDE DEF a
        <4>2. <<g_RxMessage>> \in Seq(Nat)
          BY <2>3
        <4>3. a = <<g_RxMessage>>
          BY <4>1, <4>2, ConcatEmptySeq
        <4>4. a \in Seq(Nat) /\ Len(a) = 1 /\ a[1] = g_RxMessage
          BY <2>3, <4>3
        <4> QED
          BY <2>3, <4>1, <4>4
      <3> QED
        BY <3>1, <3>2
    <2>5. Stream = a \o Pending
      BY DEF Stream
    <2> HIDE DEF a
    <2> QED
      BY <2>1, <2>2, <2>4, <2>5, PrependOrdered DEF InOrderOnce
  <1> QED
    BY <1>1, InvAlways, PTL

\* The reader does not go to sleep on a frame that came in after the callback was
\* installed (can_rx_ind, chargepileRev_thread_entry).
THEOREM WakeupNotLostAlways == Spec => []WakeupNotLost
  <1>1. Inv => WakeupNotLost
    BY DEF Inv
  <1> QED
    BY <1>1, InvAlways, PTL

\* The driver implements the queue: whatever the interleaving of the controller, its
\* handler and the reader, frames are lost only out of a full FIFO or a full list.
THEOREM ImplementsRxQueue == Spec => IsRxQueue
  <1>1. Init => Queue!Init
    <2> SUFFICES ASSUME Init PROVE Queue!Init
      OBVIOUS
    <2>1. Pending \in Seq(Nat) /\ Len(Pending) = 0
      <3>1. Len(use) = 0 /\ Len(hw) = 0
        BY DEF Init
      <3> QED
        BY <3>1, StartInv, PendingType DEF Inv
    <2>2. Pending = <<>>
      BY <2>1, EmptySeq
    <2> QED
      BY <2>2 DEF Init, NoFrame, Queue!Init, Delivered
  <1>2. Inv /\ [Next]_vars => [Queue!Next]_(Queue!vars)
    <2> SUFFICES ASSUME Inv, [Next]_vars PROVE [Queue!Next]_(Queue!vars)
      OBVIOUS
    <2>1. CASE UNCHANGED vars
      <3>1. QueueStutter
        BY <2>1 DEF vars, controller, fifo, reader, QueueStutter, Pending, Delivered
      <3> QED
        BY <3>1, QueueStepIsNext DEF QueueStep
    <2>2. CASE Next
      BY <2>2, StepKeeps, QueueStepIsNext
    <2> QED
      BY <2>1, <2>2
  <1> QED
    BY <1>1, <1>2, InvAlways, PTL DEF Spec, IsRxQueue, Queue!Spec

=============================================================================
