--------------------------- MODULE RtMutexProofs ---------------------------
(***************************************************************************)
(* The mutexes stay coherent and lent priorities are given back, for any     *)
(* threads, any priorities and any mutexes whose callers nest them.          *)
(***************************************************************************)
EXTENDS RtMutex, TLAPS

\* The inductive invariant: restoring is part of it, since a release hands out the
\* priority that the take before it found.
IInv == MutexInv /\ PriorityRestored

\* The values a mutex can have.
Records == [value : {0, 1}, owner : Threads \cup {NoThread}, hold : Nat,
            original_priority : Priorities \cup {255}, suspend_thread : Seq(Threads)]

USE DEF Owns, Waiting, IsFirst, IsLast, Priorities

-----------------------------------------------------------------------------
(* Queues. *)

\* What rt_ipc_list_suspend does to a queue: the thread is added, at the end.
LEMMA RangeAppend ==
    ASSUME NEW S, NEW s \in Seq(S), NEW e \in S
    PROVE  /\ Append(s, e) \in Seq(S)
           /\ Range(Append(s, e)) = Range(s) \cup {e}
<1>1. Append(s, e) \in Seq(S) /\ Len(Append(s, e)) = Len(s) + 1
  OBVIOUS
<1>2. \A i \in 1..Len(s) : Append(s, e)[i] = s[i]
  OBVIOUS
<1>3. Append(s, e)[Len(s) + 1] = e
  OBVIOUS
<1>4. DOMAIN s = 1..Len(s) /\ DOMAIN Append(s, e) = 1..(Len(s) + 1) /\ Len(s) \in Nat
  BY <1>1
<1>. QED BY <1>1, <1>2, <1>3, <1>4 DEF Range

\* What rt_ipc_list_resume does to a queue in which nobody is twice: the first
\* thread leaves it, the others stay.
LEMMA RangeTail ==
    ASSUME NEW S, NEW s \in Seq(S), s # <<>>,
           \A i, j \in DOMAIN s : s[i] = s[j] => i = j
    PROVE  /\ Head(s) \in S /\ Head(s) \in Range(s)
           /\ Tail(s) \in Seq(S)
           /\ Range(Tail(s)) = Range(s) \ {Head(s)}
           /\ \A i, j \in DOMAIN Tail(s) : Tail(s)[i] = Tail(s)[j] => i = j
<1>1. Len(s) \in Nat \ {0} /\ DOMAIN s = 1..Len(s)
  OBVIOUS
<1>2. Head(s) = s[1] /\ Head(s) \in S
  BY <1>1
<1>3. Tail(s) \in Seq(S) /\ Len(Tail(s)) = Len(s) - 1 /\ DOMAIN Tail(s) = 1..(Len(s) - 1)
  BY <1>1
<1>4. \A i \in 1..(Len(s) - 1) : Tail(s)[i] = s[i + 1]
  BY <1>1
<1>5. Range(Tail(s)) = Range(s) \ {Head(s)}
  <2>1. ASSUME NEW x \in Range(Tail(s)) PROVE x \in Range(s) \ {Head(s)}
    BY <1>1, <1>2, <1>3, <1>4, <2>1 DEF Range
  <2>2. ASSUME NEW x \in Range(s) \ {Head(s)} PROVE x \in Range(Tail(s))
    <3>1. PICK i \in 1..Len(s) : x = s[i]
      BY <1>1 DEF Range
    <3>2. i # 1
      BY <3>1, <1>2
    <3>3. i - 1 \in DOMAIN Tail(s) /\ Tail(s)[i - 1] = x
      BY <3>1, <3>2, <1>1, <1>3, <1>4
    <3>. QED BY <3>3 DEF Range
  <2>. QED BY <2>1, <2>2
<1>6. \A i, j \in DOMAIN Tail(s) : Tail(s)[i] = Tail(s)[j] => i = j
  BY <1>1, <1>3, <1>4
<1>7. Head(s) \in Range(s)
  BY <1>1, <1>2 DEF Range
<1>. QED BY <1>2, <1>3, <1>5, <1>6, <1>7

-----------------------------------------------------------------------------
(* The invariant. *)

\* After rt_mutex_init nobody holds or waits.
LEMMA InitIInv == MutexInit => IInv
<1>. SUFFICES ASSUME MutexInit PROVE IInv
  OBVIOUS
<1>. USE MutexAssumption DEF MutexInit, Unowned
<1>1. MutexTypeOK
  BY DEF MutexTypeOK
<1>2. FreeIsUnowned
  BY DEF FreeIsUnowned
<1>3. HeldIsOwned
  BY DEF HeldIsOwned, Range
<1>4. QueuedOnce
  BY DEF QueuedOnce
<1>5. FirstKeepsPriority /\ PriorityRestored
  BY DEF FirstKeepsPriority, PriorityRestored
<1>. QED BY <1>1, <1>2, <1>3, <1>4, <1>5 DEF IInv, MutexInv

\* A thread that may take a mutex it does not own has no part in it yet, and owns
\* all it holds.
LEMMA TakerIsClear ==
    ASSUME IInv, NEW t \in Threads, NEW m \in Mutexes,
           ~Waiting(t), MayTake(t, m), ~Owns(t, m)
    PROVE  /\ m \notin held[t]
           /\ \A n \in held[t] : Owns(t, n) /\ Rank[n] < Rank[m]
<1>1. \A n \in held[t] : Rank[n] < Rank[m]
  BY DEF MayTake
<1>2. held[t] \subseteq Mutexes /\ Rank \in [Mutexes -> Nat]
  BY MutexAssumption DEF IInv, MutexInv, MutexTypeOK
<1>3. ASSUME NEW n \in held[t] PROVE Owns(t, n)
  <2>1. n \in Mutexes
    BY <1>2
  <2>2. t \notin Range(mutex[n].suspend_thread)
    BY <2>1
  <2>3. HeldIsOwned
    BY DEF IInv, MutexInv
  <2>. QED BY <2>1, <2>2, <2>3 DEF HeldIsOwned
<1>. QED BY <1>1, <1>2, <1>3

\* A mutex stays a mutex under the assignments of rt_mutex_take and rt_mutex_release.
LEMMA RecordUpdates ==
    ASSUME NEW r \in Records
    PROVE  /\ \A h \in Nat : [r EXCEPT !.hold = h] \in Records
           /\ \A q \in Seq(Threads) : [r EXCEPT !.suspend_thread = q] \in Records
           /\ \A v \in {0, 1}, o \in Threads, h \in Nat, p \in Priorities :
                 [r EXCEPT !.value = v, !.owner = o, !.hold = h,
                           !.original_priority = p] \in Records
           /\ \A o \in Threads, p \in Priorities, q \in Seq(Threads) :
                 [r EXCEPT !.owner = o, !.original_priority = p,
                           !.suspend_thread = q] \in Records
           /\ Unowned \in Records
<1>1. ASSUME NEW h \in Nat PROVE [r EXCEPT !.hold = h] \in Records
  BY DEF Records
<1>2. ASSUME NEW q \in Seq(Threads) PROVE [r EXCEPT !.suspend_thread = q] \in Records
  BY DEF Records
<1>3. ASSUME NEW v \in {0, 1}, NEW o \in Threads, NEW h \in Nat, NEW p \in Priorities
      PROVE  [r EXCEPT !.value = v, !.owner = o, !.hold = h, !.original_priority = p]
                \in Records
  BY DEF Records
<1>4. ASSUME NEW o \in Threads, NEW p \in Priorities, NEW q \in Seq(Threads)
      PROVE  [r EXCEPT !.owner = o, !.original_priority = p, !.suspend_thread = q]
                \in Records
  BY DEF Records
<1>5. Unowned \in Records
  BY DEF Records, Unowned
<1>. QED BY <1>1, <1>2, <1>3, <1>4, <1>5

\* What the type invariant says, in the form the proofs use.
LEMMA Typed ==
    ASSUME MutexTypeOK
    PROVE  /\ mutex \in [Mutexes -> Records]
           /\ \A m \in Mutexes :
                 /\ mutex[m] \in Records
                 /\ mutex[m].value \in {0, 1} /\ mutex[m].owner \in Threads \cup {NoThread}
                 /\ mutex[m].hold \in Nat
                 /\ mutex[m].original_priority \in Priorities \cup {255}
                 /\ mutex[m].suspend_thread \in Seq(Threads)
           /\ current_priority \in [Threads -> Priorities]
           /\ held \in [Threads -> SUBSET Mutexes]
BY DEF MutexTypeOK, Records

\* A step that changes one mutex to another record.
LEMMA OneChanged ==
    ASSUME MutexTypeOK, NEW m \in Mutexes, NEW r \in Records,
           mutex' = [mutex EXCEPT ![m] = r],
           current_priority' \in [Threads -> Priorities],
           held' \in [Threads -> SUBSET Mutexes]
    PROVE  /\ MutexTypeOK'
           /\ mutex'[m] = r
           /\ \A n \in Mutexes \ {m} : mutex'[n] = mutex[n]
<1>1. mutex \in [Mutexes -> Records]
  BY Typed
<1>2. mutex' \in [Mutexes -> Records]
  BY <1>1
<1>3. mutex'[m] = r /\ \A n \in Mutexes \ {m} : mutex'[n] = mutex[n]
  BY <1>1
<1>4. MutexTypeOK'
  BY <1>2 DEF MutexTypeOK, Records
<1>. QED BY <1>3, <1>4

\* rt_mutex_take by the owner, and any but its last rt_mutex_release.
LEMMA HoldChanges ==
    ASSUME IInv, NEW t \in Threads, NEW m \in Mutexes, Owns(t, m),
           NEW h \in Nat \ {0},
           mutex' = [mutex EXCEPT ![m].hold = h], UNCHANGED <<current_priority, held>>
    PROVE  IInv'
<1>. USE DEF IInv, MutexInv
<1>1. MutexTypeOK' /\ mutex'[m] = [mutex[m] EXCEPT !.hold = h]
      /\ \A n \in Mutexes \ {m} : mutex'[n] = mutex[n]
  <2>1. mutex[m] \in Records
    BY Typed
  <2>2. [mutex[m] EXCEPT !.hold = h] \in Records
    BY <2>1, RecordUpdates
  <2>3. mutex' = [mutex EXCEPT ![m] = [mutex[m] EXCEPT !.hold = h]]
    OBVIOUS
  <2>4. /\ current_priority' \in [Threads -> Priorities]
        /\ held' \in [Threads -> SUBSET Mutexes]
    BY Typed
  <2>. QED BY <2>2, <2>3, <2>4, OneChanged
<1>2. /\ mutex'[m].value = mutex[m].value /\ mutex'[m].owner = mutex[m].owner
      /\ mutex'[m].original_priority = mutex[m].original_priority
      /\ mutex'[m].suspend_thread = mutex[m].suspend_thread
      /\ mutex'[m].hold = h
  BY <1>1, Typed DEF Records
<1>3. \A n \in Mutexes : /\ mutex'[n].owner = mutex[n].owner
                          /\ mutex'[n].suspend_thread = mutex[n].suspend_thread
                          /\ mutex'[n].original_priority = mutex[n].original_priority
  BY <1>1, <1>2
<1>4. FreeIsUnowned'
  BY <1>1, <1>2, MutexAssumption DEF FreeIsUnowned, Unowned
<1>5. HeldIsOwned'
  BY <1>3 DEF HeldIsOwned
<1>6. QueuedOnce'
  BY <1>3 DEF QueuedOnce
<1>7. FirstKeepsPriority' /\ PriorityRestored'
  BY <1>3 DEF FirstKeepsPriority, PriorityRestored
<1>. QED BY <1>1, <1>4, <1>5, <1>6, <1>7

\* rt_mutex_take of a free mutex.
LEMMA TakesFree ==
    ASSUME IInv, NEW t \in Threads, NEW m \in Mutexes,
           ~Waiting(t), MayTake(t, m), ~Owns(t, m), TakeFree(t, m)
    PROVE  IInv'
<1>. USE DEF IInv, MutexInv
<1>. DEFINE r == [mutex[m] EXCEPT !.value = mutex[m].value - 1, !.owner = t,
                                  !.hold = mutex[m].hold + 1,
                                  !.original_priority = current_priority[t]]
<1>1. /\ m \notin held[t]
      /\ \A n \in held[t] : Owns(t, n) /\ Rank[n] < Rank[m]
  BY TakerIsClear
<1>2. mutex[m] = Unowned /\ mutex[m].value = 1 /\ mutex[m].hold = 0
      /\ mutex[m].suspend_thread = <<>>
  BY Typed DEF TakeFree, FreeIsUnowned, Unowned
<1>3. MutexTypeOK' /\ mutex'[m] = r /\ \A n \in Mutexes \ {m} : mutex'[n] = mutex[n]
  <2>1. mutex' = [mutex EXCEPT ![m] = r]
    BY DEF TakeFree
  <2>2. r \in Records
    <3>1. mutex[m] \in Records /\ current_priority[t] \in Priorities
      BY Typed
    <3>2. mutex[m].value - 1 \in {0, 1} /\ mutex[m].hold + 1 \in Nat
      BY <1>2
    <3>. QED BY <3>1, <3>2, RecordUpdates
  <2>3. /\ current_priority' \in [Threads -> Priorities]
        /\ held' \in [Threads -> SUBSET Mutexes]
    BY Typed DEF TakeFree
  <2>. QED BY <2>1, <2>2, <2>3, OneChanged
<1>4. /\ mutex'[m].value = 0 /\ mutex'[m].owner = t /\ mutex'[m].hold = 1
      /\ mutex'[m].original_priority = current_priority[t]
      /\ mutex'[m].suspend_thread = <<>>
  BY <1>2, <1>3, Typed DEF Records
<1>5. /\ held'[t] = held[t] \cup {m}
      /\ \A u \in Threads \ {t} : held'[u] = held[u]
      /\ current_priority' = current_priority
      /\ \A u \in Threads : held[u] \subseteq Mutexes
      /\ \A n \in Mutexes : Rank[n] \in Nat
  BY Typed, MutexAssumption DEF TakeFree
<1>6. FreeIsUnowned'
  <2>1. mutex'[m].owner # NoThread /\ mutex'[m].original_priority # 255
    <3>1. current_priority[t] \in 0..31
      BY Typed
    <3>2. mutex'[m].original_priority # 255
      <4>1. \A p \in 0..31 : p # 255
        OBVIOUS
      <4>. QED BY <3>1, <4>1, <1>4, Zenon
    <3>3. mutex'[m].owner # NoThread
      BY <1>4, MutexAssumption
    <3>. QED BY <3>2, <3>3
  <2>. SUFFICES ASSUME NEW n \in Mutexes
       PROVE  IF mutex'[n].owner = NoThread THEN mutex'[n] = Unowned
              ELSE mutex'[n].value = 0 /\ mutex'[n].hold > 0
                      /\ mutex'[n].original_priority # 255
    BY DEF FreeIsUnowned, Unowned
  <2>2. CASE n = m
    BY <2>1, <2>2, <1>4
  <2>3. CASE n # m
    BY <2>3, <1>3 DEF FreeIsUnowned
  <2>. QED BY <2>2, <2>3
<1>7. HeldIsOwned'
  <2>. SUFFICES ASSUME NEW u \in Threads, NEW n \in Mutexes
       PROVE  /\ Owns(u, n)' => n \in held'[u] /\ u \notin Range(mutex'[n].suspend_thread)
              /\ n \in held'[u] /\ ~Owns(u, n)' =>
                    IsLast(u, n)' /\ u \in Range(mutex'[n].suspend_thread)
              /\ u \in Range(mutex'[n].suspend_thread) => n \in held'[u]
    BY DEF HeldIsOwned
  <2>1. Range(<<>>) = {}
    BY DEF Range
  <2>2. u \notin Range(mutex[m].suspend_thread)
    BY <2>1, <1>2
  <2>3. CASE n = m
    <3>1. u # t => m \notin held[u]
      BY <1>2, <2>2, MutexAssumption DEF HeldIsOwned, Unowned
    <3>. QED BY <2>1, <2>3, <3>1, <1>4, <1>5
  <2>4. CASE n # m
    <3>1. mutex'[n] = mutex[n]
      BY <1>3, <2>4
    <3>2. CASE u = t
      BY <3>1, <3>2, <2>4, <1>1, <1>5 DEF HeldIsOwned
    <3>3. CASE u # t
      BY <3>1, <3>3, <1>5 DEF HeldIsOwned
    <3>. QED BY <3>2, <3>3
  <2>. QED BY <2>3, <2>4
<1>8. QueuedOnce'
  <2>1. DOMAIN mutex'[m].suspend_thread = {}
    BY <1>4
  <2>. QED BY <2>1, <1>3 DEF QueuedOnce
<1>9. PriorityRestored'
  BY <1>5 DEF PriorityRestored
<1>10. FirstKeepsPriority'
  <2>. SUFFICES ASSUME NEW u \in Threads, NEW n \in Mutexes, IsFirst(u, n)'
       PROVE  IF Owns(u, n)' THEN mutex'[n].original_priority = Prio[u]
              ELSE current_priority'[u] = Prio[u]
    BY DEF FirstKeepsPriority
  <2>1. CASE u # t
    <3>1. n # m
      <4>1. m \notin held[u]
        BY <2>1, <1>2, MutexAssumption DEF HeldIsOwned, Unowned, Range
      <4>. QED BY <4>1, <2>1, <1>5
    <3>. QED BY <2>1, <3>1, <1>3, <1>5 DEF FirstKeepsPriority
  <2>2. CASE u = t /\ n = m
    <3>1. held[t] = {}
      BY <2>2, <1>1, <1>5
    <3>. QED BY <3>1, <2>2, <1>4 DEF PriorityRestored
  <2>3. CASE u = t /\ n # m
    BY <2>3, <1>3, <1>5 DEF FirstKeepsPriority
  <2>. QED BY <2>1, <2>2, <2>3
<1>. QED BY <1>3, <1>6, <1>7, <1>8, <1>9, <1>10

\* rt_mutex_take of a mutex that another thread owns: the caller joins the queue, the
\* owner may run at its priority.
LEMMA Waits ==
    ASSUME IInv, NEW t \in Threads, NEW m \in Mutexes,
           ~Waiting(t), MayTake(t, m), ~Owns(t, m), Wait(t, m)
    PROVE  IInv'
<1>. USE DEF IInv, MutexInv
<1>. DEFINE o == mutex[m].owner
            q == mutex[m].suspend_thread
            r == [mutex[m] EXCEPT !.suspend_thread = Append(q, t)]
<1>1. /\ m \notin held[t]
      /\ \A n \in held[t] : Owns(t, n) /\ Rank[n] < Rank[m]
  BY TakerIsClear
<1>2. o \in Threads /\ o # t /\ o # NoThread
  BY Typed, MutexAssumption DEF Wait, FreeIsUnowned, Unowned
<1>3. q \in Seq(Threads) /\ t \notin Range(q)
  BY Typed
<1>4. Append(q, t) \in Seq(Threads) /\ Range(Append(q, t)) = Range(q) \cup {t}
  BY <1>3, RangeAppend
<1>5. /\ current_priority' \in [Threads -> Priorities]
      /\ \A u \in Threads \ {o} : current_priority'[u] = current_priority[u]
  BY <1>2, Typed DEF Wait
<1>6. MutexTypeOK' /\ mutex'[m] = r /\ \A n \in Mutexes \ {m} : mutex'[n] = mutex[n]
  <2>1. mutex' = [mutex EXCEPT ![m] = r]
    BY DEF Wait
  <2>2. mutex[m] \in Records
    BY Typed
  <2>3. r \in Records
    BY <2>2, <1>4, RecordUpdates
  <2>4. held' \in [Threads -> SUBSET Mutexes]
    BY Typed DEF Wait
  <2>. QED BY <2>1, <2>3, <2>4, <1>5, OneChanged
<1>7. /\ mutex'[m].value = mutex[m].value /\ mutex'[m].owner = o
      /\ mutex'[m].hold = mutex[m].hold
      /\ mutex'[m].original_priority = mutex[m].original_priority
      /\ mutex'[m].suspend_thread = Append(q, t)
  BY <1>6, Typed DEF Records
<1>8. /\ held'[t] = held[t] \cup {m}
      /\ \A u \in Threads \ {t} : held'[u] = held[u]
      /\ \A u \in Threads : held[u] \subseteq Mutexes
      /\ \A n \in Mutexes : Rank[n] \in Nat
  BY Typed, MutexAssumption DEF Wait
<1>9. m \in held[o]
  BY <1>2 DEF HeldIsOwned
<1>10. \A n \in Mutexes : /\ mutex'[n].owner = mutex[n].owner
                           /\ mutex'[n].original_priority = mutex[n].original_priority
  BY <1>6, <1>7
<1>11. FreeIsUnowned'
  <2>. SUFFICES ASSUME NEW n \in Mutexes
       PROVE  IF mutex'[n].owner = NoThread THEN mutex'[n] = Unowned
              ELSE mutex'[n].value = 0 /\ mutex'[n].hold > 0
                      /\ mutex'[n].original_priority # 255
    BY DEF FreeIsUnowned, Unowned
  <2>1. CASE n = m
    BY <2>1, <1>2, <1>7 DEF FreeIsUnowned
  <2>2. CASE n # m
    BY <2>2, <1>6 DEF FreeIsUnowned
  <2>. QED BY <2>1, <2>2
<1>12. HeldIsOwned'
  <2>. SUFFICES ASSUME NEW u \in Threads, NEW n \in Mutexes
       PROVE  /\ Owns(u, n)' => n \in held'[u] /\ u \notin Range(mutex'[n].suspend_thread)
              /\ n \in held'[u] /\ ~Owns(u, n)' =>
                    IsLast(u, n)' /\ u \in Range(mutex'[n].suspend_thread)
              /\ u \in Range(mutex'[n].suspend_thread) => n \in held'[u]
    BY DEF HeldIsOwned
  <2>1. CASE n = m /\ u = t
    <3>1. IsLast(t, m)'
      BY <1>1, <1>8
    <3>. QED BY <2>1, <3>1, <1>2, <1>4, <1>7, <1>8
  <2>2. CASE n = m /\ u # t
    <3>1. u \in Range(mutex'[m].suspend_thread) <=> u \in Range(q)
      BY <2>2, <1>4, <1>7
    <3>2. held'[u] = held[u]
      BY <2>2, <1>8
    <3>. QED BY <2>2, <3>1, <3>2, <1>7 DEF HeldIsOwned
  <2>3. CASE n # m
    <3>1. mutex'[n] = mutex[n]
      BY <1>6, <2>3
    <3>2. CASE u = t
      BY <3>1, <3>2, <2>3, <1>1, <1>8 DEF HeldIsOwned
    <3>3. CASE u # t
      BY <3>1, <3>3, <1>8 DEF HeldIsOwned
    <3>. QED BY <3>2, <3>3
  <2>. QED BY <2>1, <2>2, <2>3
<1>13. QueuedOnce'
  <2>1. \A i, j \in DOMAIN Append(q, t) : Append(q, t)[i] = Append(q, t)[j] => i = j
    <3>1. \A i, j \in DOMAIN q : q[i] = q[j] => i = j
      BY DEF QueuedOnce
    <3>. HIDE DEF q
    <3>2. \A i \in DOMAIN q : q[i] # t
      BY <1>3 DEF Range
    <3>. QED BY <3>1, <3>2, <1>3
  <2>. QED BY <2>1, <1>6, <1>7 DEF QueuedOnce
<1>14. PriorityRestored'
  BY <1>2, <1>5, <1>8, <1>9 DEF PriorityRestored
<1>15. FirstKeepsPriority'
  <2>. SUFFICES ASSUME NEW u \in Threads, NEW n \in Mutexes, IsFirst(u, n)'
       PROVE  IF Owns(u, n)' THEN mutex'[n].original_priority = Prio[u]
              ELSE current_priority'[u] = Prio[u]
    BY DEF FirstKeepsPriority
  <2>1. CASE u = t /\ n = m
    <3>1. held[t] = {}
      BY <2>1, <1>1, <1>8
    <3>2. current_priority'[t] = Prio[t]
      BY <3>1, <1>2, <1>5 DEF PriorityRestored
    <3>. QED BY <2>1, <3>2, <1>2, <1>10
  <2>2. CASE u = t /\ n # m
    <3>1. IsFirst(t, n) /\ Owns(t, n)
      BY <2>2, <1>1, <1>8
    <3>. QED BY <3>1, <2>2, <1>10 DEF FirstKeepsPriority
  <2>3. CASE u # t
    <3>1. IsFirst(u, n)
      BY <2>3, <1>8
    <3>2. CASE Owns(u, n)
      BY <3>1, <3>2, <1>10 DEF FirstKeepsPriority
    <3>3. CASE ~Owns(u, n)
      <4>1. IsLast(u, n)
        BY <3>1, <3>3 DEF HeldIsOwned
      <4>2. u # o
        <5>1. SUFFICES ASSUME u = o PROVE FALSE
          OBVIOUS
        <5>2. Rank[m] = Rank[n]
          BY <5>1, <4>1, <3>1, <1>9, <1>8
        <5>3. m = n
          BY <5>2, MutexAssumption
        <5>. QED BY <5>1, <5>3, <3>3
      <4>. QED BY <4>2, <3>1, <3>3, <1>5, <1>10 DEF FirstKeepsPriority
    <3>. QED BY <3>2, <3>3
  <2>. QED BY <2>1, <2>2, <2>3
<1>. QED BY <1>6, <1>11, <1>12, <1>13, <1>14, <1>15

\* The last rt_mutex_release of a mutex: it is free, or its queue's first thread owns it.
LEMMA Releases ==
    ASSUME IInv, NEW t \in Threads, NEW m \in Mutexes,
           ~Waiting(t), MayRelease(t, m), mutex[m].hold = 1, ReleaseLast(t, m)
    PROVE  IInv'
<1>. USE DEF IInv, MutexInv
<1>. DEFINE q == mutex[m].suspend_thread
            p == mutex[m].original_priority
<1>1. Owns(t, m) /\ IsLast(t, m)
  BY DEF MayRelease
<1>2. p \in Priorities /\ t # NoThread
  BY <1>1, Typed, MutexAssumption DEF FreeIsUnowned
<1>3. /\ current_priority'[t] = p
      /\ \A u \in Threads \ {t} : current_priority'[u] = current_priority[u]
      /\ current_priority' \in [Threads -> Priorities]
  BY <1>2, Typed DEF ReleaseLast
<1>4. /\ held'[t] = held[t] \ {m}
      /\ \A u \in Threads \ {t} : held'[u] = held[u]
      /\ held' \in [Threads -> SUBSET Mutexes]
      /\ \A u \in Threads : held[u] \subseteq Mutexes
      /\ \A n \in Mutexes : Rank[n] \in Nat
  BY Typed, MutexAssumption DEF ReleaseLast
<1>5. /\ q \in Seq(Threads) /\ t \notin Range(q)
      /\ \A i, j \in DOMAIN q : q[i] = q[j] => i = j
  BY Typed DEF QueuedOnce
<1>6. \A u \in Threads : u # t => (m \in held[u] <=> u \in Range(q)) /\ ~Owns(u, m)
  BY <1>1 DEF HeldIsOwned
<1>7. \A n \in held[t] : Owns(t, n)
  <2>. SUFFICES ASSUME NEW n \in held[t] PROVE Owns(t, n)
    OBVIOUS
  <2>1. n \in Mutexes /\ HeldIsOwned
    BY <1>4
  <2>2. t \notin Range(mutex[n].suspend_thread)
    BY <2>1
  <2>. QED BY <2>1, <2>2 DEF HeldIsOwned
\* The parts about the thread that releases.
<1>8. held'[t] = {} => current_priority'[t] = Prio[t]
  <2>. SUFFICES ASSUME held'[t] = {} PROVE p = Prio[t]
    BY <1>3
  <2>1. IsFirst(t, m)
    BY <1>1, <1>4
  <2>. QED BY <2>1, <1>1 DEF FirstKeepsPriority
<1>9. PriorityRestored'
  BY <1>3, <1>4, <1>8 DEF PriorityRestored
<1>10. ASSUME NEW n \in Mutexes, n # m, IsFirst(t, n)'
       PROVE  Owns(t, n) /\ mutex[n].original_priority = Prio[t]
  <2>1. n \in held[t] /\ Owns(t, n)
    BY <1>4, <1>7, <1>10
  <2>2. IsFirst(t, n)
    BY <2>1, <1>1, <1>4, <1>10
  <2>. QED BY <2>1, <2>2 DEF FirstKeepsPriority
<1>11. CASE q = <<>>
  <2>1. HandOver(m) = Unowned
    BY <1>11 DEF HandOver
  <2>2. MutexTypeOK' /\ mutex'[m] = Unowned
        /\ \A n \in Mutexes \ {m} : mutex'[n] = mutex[n]
    <3>1. mutex' = [mutex EXCEPT ![m] = Unowned]
      BY <2>1 DEF ReleaseLast
    <3>2. mutex[m] \in Records
      BY Typed
    <3>3. Unowned \in Records
      BY <3>2, RecordUpdates
    <3>. QED BY <3>1, <3>3, <1>3, <1>4, OneChanged
  <2>3. Range(q) = {}
    BY <1>11 DEF Range
  <2>4. mutex'[m].owner = NoThread /\ mutex'[m].suspend_thread = <<>>
    BY <2>2 DEF Unowned
  <2>5. FreeIsUnowned'
    <3>. SUFFICES ASSUME NEW n \in Mutexes
         PROVE  IF mutex'[n].owner = NoThread THEN mutex'[n] = Unowned
                ELSE mutex'[n].value = 0 /\ mutex'[n].hold > 0
                        /\ mutex'[n].original_priority # 255
      BY DEF FreeIsUnowned, Unowned
    <3>1. CASE n = m
      BY <3>1, <2>2, <2>4
    <3>2. CASE n # m
      BY <3>2, <2>2 DEF FreeIsUnowned
    <3>. QED BY <3>1, <3>2
  <2>6. \A u \in Threads : m \notin held'[u]
    BY <1>4, <1>6, <2>3
  <2>7. HeldIsOwned'
    <3>. SUFFICES ASSUME NEW u \in Threads, NEW n \in Mutexes
         PROVE  /\ Owns(u, n)' => n \in held'[u] /\ u \notin Range(mutex'[n].suspend_thread)
                /\ n \in held'[u] /\ ~Owns(u, n)' =>
                      IsLast(u, n)' /\ u \in Range(mutex'[n].suspend_thread)
                /\ u \in Range(mutex'[n].suspend_thread) => n \in held'[u]
      BY DEF HeldIsOwned
    <3>1. CASE n = m
      <4>1. u \notin Range(mutex'[m].suspend_thread)
        BY <2>4 DEF Range
      <4>. QED BY <3>1, <4>1, <2>4, <2>6, MutexAssumption
    <3>2. CASE n # m /\ u = t
      <4>1. mutex'[n] = mutex[n]
        BY <2>2, <3>2
      <4>. QED BY <3>2, <4>1, <1>4, <1>7 DEF HeldIsOwned
    <3>3. CASE n # m /\ u # t
      <4>1. mutex'[n] = mutex[n] /\ held'[u] = held[u]
        BY <2>2, <3>3, <1>4
      <4>. QED BY <3>3, <4>1 DEF HeldIsOwned
    <3>. QED BY <3>1, <3>2, <3>3
  <2>8. QueuedOnce'
    <3>1. DOMAIN mutex'[m].suspend_thread = {}
      BY <2>4
    <3>. QED BY <3>1, <2>2 DEF QueuedOnce
  <2>9. FirstKeepsPriority'
    <3>. SUFFICES ASSUME NEW u \in Threads, NEW n \in Mutexes, IsFirst(u, n)'
         PROVE  IF Owns(u, n)' THEN mutex'[n].original_priority = Prio[u]
                ELSE current_priority'[u] = Prio[u]
      BY DEF FirstKeepsPriority
    <3>1. n # m /\ mutex'[n] = mutex[n]
      BY <2>2, <2>6
    <3>2. CASE u = t
      BY <3>1, <3>2, <1>10
    <3>3. CASE u # t
      BY <3>1, <3>3, <1>3, <1>4 DEF FirstKeepsPriority
    <3>. QED BY <3>2, <3>3
  <2>. QED BY <2>2, <2>5, <2>7, <2>8, <2>9, <1>9
<1>12. CASE q # <<>>
  <2>. DEFINE h == Head(q)
              r == [mutex[m] EXCEPT !.owner = h, !.original_priority = current_priority[h],
                                    !.suspend_thread = Tail(q)]
  <2>1. /\ h \in Threads /\ h \in Range(q) /\ Tail(q) \in Seq(Threads)
        /\ Range(Tail(q)) = Range(q) \ {h}
        /\ \A i, j \in DOMAIN Tail(q) : Tail(q)[i] = Tail(q)[j] => i = j
    <3>. HIDE DEF q
    <3>. QED BY <1>5, <1>12, RangeTail
  <2>0. current_priority[h] \in 0..31 /\ current_priority[h] \in Priorities
    <3>1. \A u \in Threads : current_priority[u] \in 0..31 /\ current_priority[u] \in Priorities
      BY Typed
    <3>. QED
      <4>. HIDE DEF h
      <4>. QED BY <2>1, <3>1
  <2>2. h # t /\ h # NoThread /\ m \in held[h] /\ ~Owns(h, m) /\ IsLast(h, m)
    <3>1. h # t /\ h # NoThread
      BY <2>1, <1>5, MutexAssumption
    <3>2. m \in held[h] /\ ~Owns(h, m)
      BY <2>1, <3>1, <1>6
    <3>. QED BY <2>1, <3>1, <3>2 DEF HeldIsOwned
  <2>3. MutexTypeOK' /\ mutex'[m] = r
        /\ \A n \in Mutexes \ {m} : mutex'[n] = mutex[n]
    <3>1. mutex' = [mutex EXCEPT ![m] = r]
      BY <1>12 DEF ReleaseLast, HandOver
    <3>2. mutex[m] \in Records /\ current_priority[h] \in Priorities
      BY <2>0, Typed
    <3>3. r \in Records
      BY <2>1, <3>2, RecordUpdates
    <3>. QED BY <3>1, <3>3, <1>3, <1>4, OneChanged
  <2>4. /\ mutex'[m].value = mutex[m].value /\ mutex'[m].owner = h
        /\ mutex'[m].hold = mutex[m].hold
        /\ mutex'[m].original_priority = current_priority[h]
        /\ mutex'[m].suspend_thread = Tail(q)
    BY <2>3, Typed DEF Records
  <2>5. FreeIsUnowned'
    <3>. SUFFICES ASSUME NEW n \in Mutexes
         PROVE  IF mutex'[n].owner = NoThread THEN mutex'[n] = Unowned
                ELSE mutex'[n].value = 0 /\ mutex'[n].hold > 0
                        /\ mutex'[n].original_priority # 255
      BY DEF FreeIsUnowned, Unowned
    <3>1. CASE n = m
      <4>1. mutex[m].value = 0 /\ mutex[m].hold > 0
        BY <1>1, <1>2 DEF FreeIsUnowned
      <4>2. current_priority[h] \in 0..31
        BY <2>0
      <4>3. \A x \in 0..31 : x # 255
        OBVIOUS
      <4>4. mutex'[m].original_priority # 255
        BY <4>2, <4>3, <2>4, Zenon
      <4>. QED BY <3>1, <4>1, <4>4, <2>2, <2>4
    <3>2. CASE n # m
      BY <3>2, <2>3 DEF FreeIsUnowned
    <3>. QED BY <3>1, <3>2
  <2>6. HeldIsOwned'
    <3>. SUFFICES ASSUME NEW u \in Threads, NEW n \in Mutexes
         PROVE  /\ Owns(u, n)' => n \in held'[u] /\ u \notin Range(mutex'[n].suspend_thread)
                /\ n \in held'[u] /\ ~Owns(u, n)' =>
                      IsLast(u, n)' /\ u \in Range(mutex'[n].suspend_thread)
                /\ u \in Range(mutex'[n].suspend_thread) => n \in held'[u]
      BY DEF HeldIsOwned
    <3>1. CASE n = m /\ u = t
      BY <3>1, <2>1, <2>2, <2>4, <1>4, <1>5
    <3>2. CASE n = m /\ u # t
      <4>1. held'[u] = held[u] /\ (m \in held[u] <=> u \in Range(q)) /\ ~Owns(u, m)
        BY <3>2, <1>4, <1>6
      <4>2. u \in Range(mutex'[m].suspend_thread) <=> u \in Range(q) /\ u # h
        BY <2>1, <2>4
      <4>3. m \in held[u] => IsLast(u, m)
        BY <4>1 DEF HeldIsOwned
      <4>4. m \in held'[u] => IsLast(u, m)'
        BY <4>1, <4>3
      <4>. QED BY <3>2, <4>1, <4>2, <4>4, <2>1, <2>4
    <3>3. CASE n # m /\ u = t
      <4>1. mutex'[n] = mutex[n]
        BY <2>3, <3>3
      <4>. QED BY <3>3, <4>1, <1>4, <1>7 DEF HeldIsOwned
    <3>4. CASE n # m /\ u # t
      <4>1. mutex'[n] = mutex[n] /\ held'[u] = held[u]
        BY <2>3, <3>4, <1>4
      <4>. QED BY <3>4, <4>1 DEF HeldIsOwned
    <3>. QED BY <3>1, <3>2, <3>3, <3>4
  <2>7. QueuedOnce'
    BY <2>1, <2>3, <2>4 DEF QueuedOnce
  <2>8. FirstKeepsPriority'
    <3>. SUFFICES ASSUME NEW u \in Threads, NEW n \in Mutexes, IsFirst(u, n)'
         PROVE  IF Owns(u, n)' THEN mutex'[n].original_priority = Prio[u]
                ELSE current_priority'[u] = Prio[u]
      BY DEF FirstKeepsPriority
    <3>1. CASE u = t
      <4>1. n # m
        BY <3>1, <1>4
      <4>. QED BY <3>1, <4>1, <2>3, <1>10
    <3>2. CASE u = h /\ n = m
      <4>1. IsFirst(h, m)
        BY <3>2, <2>2, <1>4
      <4>2. current_priority[h] = Prio[h]
        BY <4>1, <2>1, <2>2 DEF FirstKeepsPriority
      <4>. QED BY <3>2, <4>2, <2>4
    <3>3. CASE u # t /\ u # h /\ n = m
      <4>1. IsFirst(u, m) /\ ~Owns(u, m)
        BY <3>3, <1>4, <1>6
      <4>. QED BY <3>3, <4>1, <1>3, <2>4 DEF FirstKeepsPriority
    <3>4. CASE u # t /\ n # m
      <4>1. IsFirst(u, n) /\ mutex'[n] = mutex[n]
        BY <3>4, <1>4, <2>3
      <4>. QED BY <3>4, <4>1, <1>3 DEF FirstKeepsPriority
    <3>. QED BY <3>1, <3>2, <3>3, <3>4
  <2>. QED BY <2>3, <2>5, <2>6, <2>7, <2>8, <1>9
<1>. QED BY <1>11, <1>12

-----------------------------------------------------------------------------

\* Every call of rt_mutex_take and rt_mutex_release keeps the invariant.
LEMMA NextIInv == IInv /\ [MutexNext]_mutexVars => IInv'
<1>. SUFFICES ASSUME IInv, [MutexNext]_mutexVars PROVE IInv'
  OBVIOUS
<1>1. CASE UNCHANGED mutexVars
  BY <1>1 DEF mutexVars, IInv, MutexInv, MutexTypeOK, FreeIsUnowned, Unowned, HeldIsOwned,
              QueuedOnce, FirstKeepsPriority, PriorityRestored
<1>2. ASSUME NEW t \in Threads, NEW m \in Mutexes, ~Waiting(t), MayTake(t, m),
             rt_mutex_take(t, m)
      PROVE  IInv'
  <2>1. CASE Owns(t, m)
    <3>1. mutex[m].hold + 1 \in Nat \ {0}
      BY Typed DEF IInv, MutexInv
    <3>. QED BY <3>1, <2>1, <1>2, HoldChanges DEF rt_mutex_take
  <2>2. CASE ~Owns(t, m)
    BY <2>2, <1>2, TakesFree, Waits DEF rt_mutex_take
  <2>. QED BY <2>1, <2>2
<1>3. ASSUME NEW t \in Threads, NEW m \in Mutexes, ~Waiting(t), MayRelease(t, m),
             rt_mutex_release(t, m)
      PROVE  IInv'
  <2>1. Owns(t, m) /\ mutex[m].hold \in Nat /\ mutex[m].hold > 0
    BY <1>3, Typed, MutexAssumption DEF MayRelease, IInv, MutexInv, FreeIsUnowned
  <2>2. CASE mutex[m].hold > 1
    <3>1. mutex[m].hold - 1 \in Nat \ {0}
      BY <2>1, <2>2
    <3>. QED BY <3>1, <2>1, <2>2, <1>3, HoldChanges DEF rt_mutex_release
  <2>3. CASE mutex[m].hold = 1
    BY <2>1, <2>3, <1>3, Releases DEF rt_mutex_release
  <2>. QED BY <2>1, <2>2, <2>3
<1>. QED BY <1>1, <1>2, <1>3 DEF MutexNext

\* For any threads, priorities and mutexes: as long as the callers nest their mutexes in
\* one order, value, owner, hold and queue of every mutex agree, nobody waits for a free
\* mutex, for two or for its own (rt_mutex_take, rt_mutex_release).
THEOREM MutexInvAlways == MutexSpec => []MutexInv
<1>1. MutexSpec => []IInv
  BY InitIInv, NextIInv, PTL DEF MutexSpec
<1>2. IInv => MutexInv
  BY DEF IInv
<1>. QED BY <1>1, <1>2, PTL

\* And a thread that holds no mutex and waits for none runs at its own priority again,
\* whatever was lent to it through however many mutexes (original_priority).
THEOREM PriorityRestoredAlways == MutexSpec => []PriorityRestored
<1>1. MutexSpec => []IInv
  BY InitIInv, NextIInv, PTL DEF MutexSpec
<1>2. IInv => PriorityRestored
  BY DEF IInv
<1>. QED BY <1>1, <1>2, PTL
=============================================================================
