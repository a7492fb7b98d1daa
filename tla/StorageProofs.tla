--------------------------- MODULE StorageProofs ---------------------------
(***************************************************************************)
(* The storage functions keep to the discipline RtMutex is specified for, and *)
(* never work in a freed buffer, for any callers, users and heap.              *)
(***************************************************************************)
EXTENDS Storage, RtMutexProofs

S == "storage_ReWr_mutex"

\* The three locks and their order.
LEMMA ThreeLocks ==
    /\ Mutexes = {S, "uffs", "nand"}
    /\ Rank[S] < Rank["uffs"] /\ Rank["uffs"] < Rank["nand"] /\ Rank[S] < Rank["nand"]
    /\ Rank[S] \in Nat /\ Rank["uffs"] \in Nat /\ Rank["nand"] \in Nat
<1>1. Locks = <<S, "uffs", "nand">> /\ DOMAIN Locks = 1..3
  BY DEF Locks, S
<1>2. Locks[1] = S /\ Locks[2] = "uffs" /\ Locks[3] = "nand"
  BY <1>1
<1>3. Mutexes = {S, "uffs", "nand"}
  BY <1>1, <1>2, StorageAssumption DEF Range
<1>4. \A i, j \in 1..3 : i < j => Rank[Locks[i]] < Rank[Locks[j]]
  BY <1>1, StorageAssumption
<1>5. Rank[S] < Rank["uffs"] /\ Rank["uffs"] < Rank["nand"] /\ Rank[S] < Rank["nand"]
  BY <1>2, <1>4
<1> QED BY <1>3, <1>5, MutexAssumption

\* A thread that holds a lock and does not wait owns it.
LEMMA HeldOwned ==
    ASSUME MutexInv, NEW t \in Threads, ~Waiting(t), NEW m \in held[t], m \in Mutexes
    PROVE  Owns(t, m)
  BY DEF MutexInv, HeldIsOwned, Waiting

\* The running thread takes and releases its locks as MutexSpec wants it.
LEMMA DisciplineStep ==
    ASSUME Inv, Next
    PROVE  [MutexNext]_mutexVars
<1>0. /\ S \in Mutexes /\ "uffs" \in Mutexes /\ "nand" \in Mutexes
      /\ Mutexes = {S, "uffs", "nand"}
  BY ThreeLocks
<1>1. ASSUME NEW t \in Threads, pc[t] # "idle", current = t PROVE ~Waiting(t) /\ held[t] \subseteq Mutexes
  BY <1>1 DEF Inv, WaitsBehindTake, MutexInv, MutexTypeOK
<1>2. ASSUME NEW t \in Threads, NEW m \in Mutexes, ~Waiting(t), MayTake(t, m), rt_mutex_take(t, m)
      PROVE  MutexNext
  BY <1>2 DEF MutexNext
<1>3. ASSUME NEW t \in Threads, NEW m \in Mutexes, ~Waiting(t), MayRelease(t, m), rt_mutex_release(t, m)
      PROVE  MutexNext
  BY <1>3 DEF MutexNext
<1>4. ASSUME NEW t \in Callers, TakeReWr(t) PROVE MutexNext
  <2>1. t \in Threads /\ current = t /\ pc[t] = "take" /\ rt_mutex_take(t, S)
    BY <1>4, StorageAssumption DEF TakeReWr, Take, At, S
  <2>2. held[t] = {}
    BY <2>1, <1>0, <1>1 DEF Inv, LocksByPlace, LocksFit, S
  <2> QED BY <2>1, <2>2, <1>0, <1>1, <1>2 DEF MayTake
<1>5. ASSUME NEW t \in Threads, TakeFs(t) PROVE MutexNext
  <2>1. current = t /\ pc[t] = "fs" /\ rt_mutex_take(t, "uffs")
    BY <1>5 DEF TakeFs, Take, At
  <2>2. held[t] \subseteq {S}
    BY <2>1, <1>0, <1>1 DEF Inv, LocksByPlace, LocksFit, S
  <2> QED BY <2>1, <2>2, <1>0, <1>1, <1>2, ThreeLocks DEF MayTake
<1>6. ASSUME NEW t \in Threads, TakeNand(t) PROVE MutexNext
  <2>1. current = t /\ pc[t] = "io" /\ rt_mutex_take(t, "nand")
    BY <1>6 DEF TakeNand, Take, At
  <2>2. held[t] \subseteq {S, "uffs"}
    BY <2>1, <1>0, <1>1 DEF Inv, LocksByPlace, LocksFit, S
  <2> QED BY <2>1, <2>2, <1>0, <1>1, <1>2, ThreeLocks DEF MayTake
<1>7. ASSUME NEW t \in Callers, ReleaseReWr(t) PROVE MutexNext
  <2>1. t \in Threads /\ current = t /\ pc[t] = "release" /\ rt_mutex_release(t, S)
    BY <1>7, StorageAssumption DEF ReleaseReWr, Release, At, S
  <2>2. held[t] = {S}
    BY <2>1, <1>0, <1>1 DEF Inv, LocksByPlace, LocksFit, S
  <2>3. Owns(t, S) /\ ~Waiting(t)
    BY <2>1, <2>2, <1>0, <1>1, HeldOwned DEF Inv
  <2> QED BY <2>1, <2>2, <2>3, <1>0, <1>3, ThreeLocks DEF MayRelease, IsLast
<1>8. ASSUME NEW t \in Threads, Page(t) PROVE MutexNext
  <2>1. current = t /\ pc[t] = "page" /\ rt_mutex_release(t, "nand")
    BY <1>8 DEF Page, Release, At
  <2>2. "nand" \in held[t]
    BY <2>1, <1>0, <1>1 DEF Inv, LocksByPlace, LocksFit
  <2>3. Owns(t, "nand") /\ ~Waiting(t)
    BY <2>1, <2>2, <1>0, <1>1, HeldOwned DEF Inv
  <2>4. IsLast(t, "nand")
    BY <2>1, <2>2, <1>0, <1>1, ThreeLocks DEF IsLast
  <2> QED BY <2>1, <2>3, <2>4, <1>0, <1>3 DEF MayRelease
<1>9. ASSUME NEW t \in Threads, FsEnd(t) PROVE MutexNext
  <2>1. current = t /\ pc[t] = "fsend" /\ rt_mutex_release(t, "uffs")
    BY <1>9 DEF FsEnd, Release, At
  <2>2. "uffs" \in held[t] /\ "nand" \notin held[t]
    BY <2>1, <1>0, <1>1 DEF Inv, LocksByPlace, LocksFit
  <2>3. Owns(t, "uffs") /\ ~Waiting(t)
    BY <2>1, <2>2, <1>0, <1>1, HeldOwned DEF Inv
  <2>4. IsLast(t, "uffs")
    BY <2>1, <2>2, <1>0, <1>1, ThreeLocks DEF IsLast
  <2> QED BY <2>1, <2>3, <2>4, <1>0, <1>3 DEF MayRelease
<1>10. ASSUME NEW t \in Threads,
              \/ Tick \/ Call(t) \/ Check(t) \/ Malloc(t) \/ Assign(t) \/ Recheck(t)
              \/ Use(t) \/ Free(t) \/ SetNull(t) \/ More(t) \/ Return(t)
       PROVE  UNCHANGED mutexVars
  BY <1>10 DEF Tick, Call, Check, Malloc, Assign, Recheck, Use, Free, SetNull, More, Return, Step
<1>11. CASE Tick
  BY <1>11 DEF Tick
<1> QED
  BY <1>4, <1>5, <1>6, <1>7, <1>8, <1>9, <1>10, <1>11 DEF Next, Run

-----------------------------------------------------------------------------
(* What the calls of the kernel do to the locks held and to the queues. *)

\* rt_mutex_take of a lock the caller does not hold.
LEMMA TakeEffect ==
    ASSUME MutexInv, NoneTwice, NEW t \in Threads, NEW m \in Mutexes, m \notin held[t],
           rt_mutex_take(t, m)
    PROVE  /\ NoneTwice'
           /\ held' = [held EXCEPT ![t] = @ \cup {m}]
           /\ \A n \in Mutexes, u \in Threads :
                 u \in Range(mutex'[n].suspend_thread) =>
                    u \in Range(mutex[n].suspend_thread) \/ (u = t /\ n = m)
<1>1. MutexTypeOK /\ FreeIsUnowned
  BY DEF MutexInv
<1>2. ~Owns(t, m)
  BY DEF MutexInv, HeldIsOwned
<1>3. TakeFree(t, m) \/ Wait(t, m)
  BY <1>2 DEF rt_mutex_take
<1>4. CASE TakeFree(t, m)
  <2>1. mutex[m] = Unowned
    BY <1>1, <1>4, Typed DEF FreeIsUnowned, TakeFree
  <2>2. mutex'[m].hold = 1 /\ mutex'[m].suspend_thread = mutex[m].suspend_thread
    BY <1>1, <1>4, <2>1 DEF TakeFree, MutexTypeOK, Unowned
  <2>3. \A n \in Mutexes \ {m} : mutex'[n] = mutex[n]
    BY <1>1, <1>4 DEF TakeFree, MutexTypeOK
  <2> QED BY <1>4, <2>2, <2>3 DEF TakeFree, NoneTwice
<1>5. CASE Wait(t, m)
  <2>1. /\ mutex'[m].hold = mutex[m].hold
        /\ mutex'[m].suspend_thread = Append(mutex[m].suspend_thread, t)
    BY <1>1, <1>5 DEF Wait, MutexTypeOK
  <2>2. \A n \in Mutexes \ {m} : mutex'[n] = mutex[n]
    BY <1>1, <1>5 DEF Wait, MutexTypeOK
  <2>3. Range(mutex'[m].suspend_thread) = Range(mutex[m].suspend_thread) \cup {t}
    BY <1>1, <2>1, Typed, RangeAppend
  <2> QED BY <1>5, <2>1, <2>2, <2>3 DEF Wait, NoneTwice
<1> QED BY <1>3, <1>4, <1>5

\* rt_mutex_release of a lock the caller owns.
LEMMA ReleaseEffect ==
    ASSUME MutexInv, NoneTwice, NEW t \in Threads, NEW m \in Mutexes, Owns(t, m),
           rt_mutex_release(t, m)
    PROVE  /\ NoneTwice'
           /\ held' = [held EXCEPT ![t] = @ \ {m}]
           /\ \A n \in Mutexes, u \in Threads :
                 u \in Range(mutex'[n].suspend_thread) => u \in Range(mutex[n].suspend_thread)
<1>1. MutexTypeOK
  BY DEF MutexInv
<1>2. mutex[m].hold = 1 \/ mutex[m].hold = 0
  BY <1>1, Typed DEF NoneTwice
<1>3. ReleaseLast(t, m)
  BY <1>2 DEF rt_mutex_release
<1>4. mutex'[m] = HandOver(m) /\ \A n \in Mutexes \ {m} : mutex'[n] = mutex[n]
  BY <1>1, <1>3 DEF ReleaseLast, MutexTypeOK
<1>5. CASE mutex[m].suspend_thread = <<>>
  <2>1. mutex'[m].hold = 0 /\ mutex'[m].suspend_thread = <<>>
    BY <1>4, <1>5 DEF HandOver, Unowned
  <2> QED BY <1>3, <1>4, <1>5, <2>1 DEF ReleaseLast, NoneTwice
<1>6. CASE mutex[m].suspend_thread # <<>>
  <2>1. /\ mutex'[m].hold = mutex[m].hold
        /\ mutex'[m].suspend_thread = Tail(mutex[m].suspend_thread)
    BY <1>1, <1>4, <1>6 DEF HandOver, MutexTypeOK
  <2>2. Range(mutex'[m].suspend_thread) \subseteq Range(mutex[m].suspend_thread)
    BY <1>1, <1>6, <2>1, Typed, RangeTail DEF MutexInv, QueuedOnce
  <2> QED BY <1>3, <1>4, <2>1, <2>2 DEF ReleaseLast, NoneTwice
<1> QED BY <1>5, <1>6

\* rt_schedule picks a thread that can run.
LEMMA Scheduled ==
    ASSUME rt_schedule
    PROVE  /\ current' \in Threads \cup {NoThread}
           /\ current' \in Threads =>
                 ~(\E m \in Mutexes : current' \in Range(mutex'[m].suspend_thread))
                 /\ pc'[current'] # "idle"
           /\ IdleIsLast'
<1>1. CASE Ready' = {}
  BY <1>1, MutexAssumption DEF rt_schedule, IdleIsLast
<1>2. CASE Ready' # {}
  <2>1. current' \in MostUrgent'
    BY <1>2 DEF rt_schedule
  <2>2. current' \in Ready'
    BY <2>1 DEF MostUrgent
  <2>3. current' \in Threads
    BY <2>2 DEF Ready
  <2> QED BY <2>2, <2>3, MutexAssumption DEF Ready, Waiting, IdleIsLast
<1> QED BY <1>1, <1>2

\* A step leaves the processor with the thread that has it, or schedules.
LEMMA IdleStep ==
    ASSUME Next
    PROVE  IdleIsLast'
<1>1. CASE rt_schedule
  BY <1>1, Scheduled
<1>2. CASE current' \in Threads
  BY <1>2, MutexAssumption DEF IdleIsLast
<1>3. rt_schedule \/ current' \in Threads
  BY StorageAssumption
     DEF Next, Run, Tick, Call, Check, Malloc, Assign, Recheck, TakeReWr, Use, Free, SetNull,
         ReleaseReWr, TakeFs, TakeNand, Page, More, FsEnd, Return, Step, Take, Release, At
<1> QED BY <1>1, <1>2, <1>3

-----------------------------------------------------------------------------
(* Locks and places. *)

Places == NoneTwice /\ LocksByPlace /\ WaitsBehindTake

\* Two places at which a thread holds the same locks.
SameLocks(t, from, to) ==
    \/ /\ t \in Callers
       /\ {from, to} \subseteq {"idle", "check", "malloc", "assign", "recheck", "take", "return"}
    \/ t \in Callers /\ {from, to} \subseteq {"use", "fs", "free", "null", "release"}
    \/ t \in Users /\ {from, to} \subseteq {"idle", "fs", "io", "more", "return"} /\ "uffs" \notin held[t]
    \/ "uffs" \in held[t] /\ {from, to} \subseteq {"io", "more", "fsend"}

\* A step that leaves the mutexes alone leads to a place with the same locks.
LEMMA StepPlaces ==
    ASSUME Inv, NEW t \in Threads, NEW to \in PCs,
           Goto(t, to), UNCHANGED mutexVars, SameLocks(t, pc[t], to),
           ~Waiting(t),
           \/ rt_schedule
           \/ current = t /\ UNCHANGED current /\ to # "idle"
    PROVE  Places'
<1>0. pc \in [Threads -> PCs] /\ mutex' = mutex /\ held' = held
  BY DEF Inv, TypeOK, mutexVars
<1>1. pc'[t] = to /\ \A u \in Threads \ {t} : pc'[u] = pc[u]
  BY <1>0 DEF Goto
<1>2. NoneTwice'
  BY <1>0 DEF Inv, NoneTwice
<1>3. LocksByPlace'
  <2> SUFFICES ASSUME NEW u \in Threads PROVE LocksFit(u)'
    BY DEF LocksByPlace
  <2>1. CASE u # t
    BY <1>0, <1>1, <2>1 DEF Inv, LocksByPlace, LocksFit, S
  <2>2. CASE u = t
    BY <1>0, <1>1, <2>2, StorageAssumption DEF Inv, LocksByPlace, LocksFit, S, SameLocks
  <2> QED BY <2>1, <2>2
<1>4. WaitsBehindTake'
  <2>1. \A u \in Threads, m \in Mutexes :
           u \in Range(mutex'[m].suspend_thread) => pc'[u] = AfterTake(m)
    BY <1>0, <1>1 DEF Inv, WaitsBehindTake, Waiting
  <2>2. current' \in Threads => ~Waiting(current)' /\ pc'[current'] # "idle"
    BY <1>0, <1>1, Scheduled DEF Waiting
  <2> QED BY <2>1, <2>2 DEF WaitsBehindTake, AfterTake
<1> QED BY <1>2, <1>3, <1>4 DEF Places

\* A step that takes a lock.
LEMMA TakePlaces ==
    ASSUME Inv, NEW t \in Threads, NEW m \in Mutexes, m \notin held[t],
           Take(t, pc[t], m, AfterTake(m)),
           \/ m = S /\ t \in Callers /\ pc[t] = "take"
           \/ m = "uffs" /\ pc[t] = "fs"
           \/ m = "nand" /\ pc[t] = "io"
    PROVE  Places'
<1>0. pc \in [Threads -> PCs] /\ MutexInv /\ NoneTwice /\ held \in [Threads -> SUBSET Mutexes]
  BY DEF Inv, TypeOK, MutexInv, MutexTypeOK
<1>1. pc'[t] = AfterTake(m) /\ \A u \in Threads \ {t} : pc'[u] = pc[u]
  BY <1>0 DEF Take, Goto
<1>2. /\ NoneTwice'
      /\ held'[t] = held[t] \cup {m} /\ \A u \in Threads \ {t} : held'[u] = held[u]
      /\ \A n \in Mutexes, u \in Threads :
            u \in Range(mutex'[n].suspend_thread) =>
               u \in Range(mutex[n].suspend_thread) \/ (u = t /\ n = m)
  BY <1>0, TakeEffect DEF Take
<1>3. LocksByPlace'
  <2> SUFFICES ASSUME NEW u \in Threads PROVE LocksFit(u)'
    BY DEF LocksByPlace
  <2>1. CASE u # t
    BY <1>1, <1>2, <2>1 DEF Inv, LocksByPlace, LocksFit, S
  <2>2. CASE u = t
    BY <1>1, <1>2, <2>2, StorageAssumption DEF Inv, LocksByPlace, LocksFit, S, AfterTake
  <2> QED BY <2>1, <2>2
<1>4. WaitsBehindTake'
  <2>0. current = t /\ ~Waiting(t)
    BY DEF Inv, WaitsBehindTake, Take, At
  <2>1. \A u \in Threads, n \in Mutexes :
           u \in Range(mutex'[n].suspend_thread) => pc'[u] = AfterTake(n)
    BY <1>1, <1>2, <2>0 DEF Inv, WaitsBehindTake, Waiting
  <2>2. current' \in Threads => ~Waiting(current)' /\ pc'[current'] # "idle"
    <3>1. CASE Waiting(t)'
      BY <3>1, Scheduled DEF Take, Waiting
    <3>2. CASE ~Waiting(t)'
      BY <3>2, <2>0, <1>1 DEF Take, Waiting, AfterTake
    <3> QED BY <3>1, <3>2
  <2> QED BY <2>1, <2>2 DEF WaitsBehindTake, AfterTake
<1> QED BY <1>2, <1>3, <1>4 DEF Places

\* A step that releases one.
LEMMA ReleasePlaces ==
    ASSUME Inv, NEW t \in Threads, NEW m \in Mutexes, NEW to \in PCs,
           Release(t, pc[t], m, to),
           \/ m = S /\ t \in Callers /\ pc[t] = "release" /\ to = "return"
           \/ m = "uffs" /\ pc[t] = "fsend" /\ to = IF t \in Callers THEN "use" ELSE "return"
           \/ m = "nand" /\ pc[t] = "page" /\ to = "more"
    PROVE  Places'
<1>0. pc \in [Threads -> PCs] /\ MutexInv /\ NoneTwice /\ held \in [Threads -> SUBSET Mutexes]
  BY DEF Inv, TypeOK, MutexInv, MutexTypeOK
<1>1. pc'[t] = to /\ \A u \in Threads \ {t} : pc'[u] = pc[u]
  BY <1>0 DEF Release, Goto
<1>2. current = t /\ ~Waiting(t)
  BY DEF Inv, WaitsBehindTake, Release, At
<1>3. Owns(t, m)
  BY <1>0, <1>2, HeldOwned DEF Inv, LocksByPlace, LocksFit, S
<1>4. /\ NoneTwice'
      /\ held'[t] = held[t] \ {m} /\ \A u \in Threads \ {t} : held'[u] = held[u]
      /\ \A n \in Mutexes, u \in Threads :
            u \in Range(mutex'[n].suspend_thread) => u \in Range(mutex[n].suspend_thread)
  BY <1>0, <1>3, ReleaseEffect DEF Release
<1>5. LocksByPlace'
  <2> SUFFICES ASSUME NEW u \in Threads PROVE LocksFit(u)'
    BY DEF LocksByPlace
  <2>1. CASE u # t
    BY <1>1, <1>4, <2>1 DEF Inv, LocksByPlace, LocksFit, S
  <2>2. CASE u = t
    BY <1>1, <1>4, <2>2, StorageAssumption DEF Inv, LocksByPlace, LocksFit, S
  <2> QED BY <2>1, <2>2
<1>6. WaitsBehindTake'
  <2>1. \A u \in Threads, n \in Mutexes :
           u \in Range(mutex'[n].suspend_thread) => pc'[u] = AfterTake(n)
    BY <1>1, <1>2, <1>4 DEF Inv, WaitsBehindTake, Waiting
  <2>2. current' \in Threads => ~Waiting(current)' /\ pc'[current'] # "idle"
    <3>1. ~Waiting(t)'
      BY <1>2, <1>4 DEF Waiting
    <3> QED BY <3>1, <1>1, <1>2, Scheduled DEF Release, Waiting
  <2> QED BY <2>1, <2>2 DEF WaitsBehindTake, AfterTake
<1> QED BY <1>4, <1>5, <1>6 DEF Places

\* Every step keeps locks and places together.
LEMMA PlaceStep ==
    ASSUME Inv, Next
    PROVE  Places'
<1>0. pc \in [Threads -> PCs] /\ Callers \subseteq Threads /\ Threads = Callers \cup Users
      /\ S \in Mutexes /\ "uffs" \in Mutexes /\ "nand" \in Mutexes
  BY StorageAssumption, ThreeLocks DEF Inv, TypeOK
<1>1. ASSUME NEW t \in Threads, current = t PROVE ~Waiting(t) /\ LocksFit(t)
  BY <1>1 DEF Inv, WaitsBehindTake, LocksByPlace
<1>2. CASE Tick
  <2>1. UNCHANGED <<mutexVars, pc>> /\ rt_schedule
    BY <1>2 DEF Tick
  <2>2. current' \in Threads => ~Waiting(current)' /\ pc'[current'] # "idle"
    BY <2>1, Scheduled DEF Waiting
  <2>3. WaitsBehindTake'
    BY <2>1, <2>2 DEF Inv, WaitsBehindTake, mutexVars, AfterTake
  <2> QED BY <2>1, <2>3 DEF Inv, Places, NoneTwice, LocksByPlace, LocksFit, mutexVars
<1>3. ASSUME NEW t \in Threads, Call(t) PROVE Places'
  <2>1. PICK to \in {"check", "fs", "io"} :
           /\ Goto(t, to)
           /\ \/ t \in Callers /\ to = "check"
              \/ t \in Users /\ to \in {"fs", "io"}
    BY <1>3 DEF Call
  <2>2. pc[t] = "idle" /\ UNCHANGED mutexVars /\ rt_schedule
    BY <1>3 DEF Call
  <2>3. ~Waiting(t) /\ "uffs" \notin held[t]
    BY <2>2 DEF Inv, WaitsBehindTake, Waiting, AfterTake, LocksByPlace, LocksFit
  <2>4. SameLocks(t, pc[t], to)
    BY <2>1, <2>2, <2>3 DEF SameLocks
  <2>5. to \in PCs
    BY DEF PCs
  <2> QED BY <2>1, <2>2, <2>3, <2>4, <2>5, StepPlaces
<1>4. ASSUME NEW t \in Threads, Return(t) PROVE Places'
  <2>1. current = t /\ pc[t] = "return" /\ Goto(t, "idle") /\ UNCHANGED mutexVars /\ rt_schedule
    BY <1>4 DEF Return, At
  <2>2. ~Waiting(t) /\ "uffs" \notin held[t]
    BY <1>1, <2>1 DEF LocksFit
  <2>3. SameLocks(t, pc[t], "idle") /\ "idle" \in PCs
    BY <1>0, <2>1, <2>2 DEF SameLocks, PCs
  <2> QED BY <2>1, <2>2, <2>3, StepPlaces
<1>5. ASSUME NEW t \in Threads, NEW to \in PCs, Step(t, pc[t], to), to # "idle",
             SameLocks(t, pc[t], to)
      PROVE  Places'
  BY <1>1, <1>5, StepPlaces DEF Step, At
<1>6. ASSUME NEW t \in Callers, Check(t) \/ Malloc(t) \/ Assign(t) \/ Recheck(t)
      PROVE  Places'
  <2>1. PICK to \in {"malloc", "assign", "recheck", "take", "return"} :
           Step(t, pc[t], to) /\ pc[t] \in {"check", "malloc", "assign", "recheck"}
    BY <1>6 DEF Check, Malloc, Assign, Recheck, Step, At
  <2>2. SameLocks(t, pc[t], to) /\ to \in PCs /\ t \in Threads
    BY <1>0, <2>1 DEF SameLocks, PCs
  <2> QED BY <1>5, <2>1, <2>2
<1>7. ASSUME NEW t \in Callers, Use(t) \/ Free(t) \/ SetNull(t)
      PROVE  Places'
  <2>1. PICK to \in {"fs", "free", "null", "release"} :
           Step(t, pc[t], to) /\ pc[t] \in {"use", "free", "null"}
    BY <1>7 DEF Use, Free, SetNull, Step, At
  <2>2. SameLocks(t, pc[t], to) /\ to \in PCs /\ t \in Threads
    BY <1>0, <2>1 DEF SameLocks, PCs
  <2> QED BY <1>5, <2>1, <2>2
<1>8. ASSUME NEW t \in Threads, More(t)
      PROVE  Places'
  <2>1. current = t /\ pc[t] = "more" /\ ~Waiting(t) /\ LocksFit(t)
    BY <1>1, <1>8 DEF More, Step, At
  <2>2. Owns(t, "uffs") <=> "uffs" \in held[t]
    BY <2>1, <1>0, HeldOwned DEF Inv, MutexInv, HeldIsOwned
  <2>3. PICK to \in {"io", "fsend", "return"} :
           Step(t, "more", to) /\ (IF Owns(t, "uffs") THEN to # "return" ELSE to = "return")
    BY <1>8 DEF More
  <2>4. SameLocks(t, pc[t], to) /\ to \in PCs
    BY <1>0, <2>1, <2>2, <2>3 DEF SameLocks, PCs, LocksFit
  <2> QED BY <1>5, <2>1, <2>3, <2>4
<1>9. ASSUME NEW t \in Callers, TakeReWr(t) PROVE Places'
  <2>1. current = t /\ pc[t] = "take" /\ Take(t, "take", S, AfterTake(S)) /\ t \in Threads
    BY <1>0, <1>9 DEF TakeReWr, Take, At, S, AfterTake
  <2>2. S \notin held[t]
    BY <1>1, <2>1 DEF LocksFit, S
  <2> QED BY <1>0, <2>1, <2>2, TakePlaces
<1>10. ASSUME NEW t \in Threads, TakeFs(t) PROVE Places'
  <2>1. current = t /\ pc[t] = "fs" /\ Take(t, "fs", "uffs", AfterTake("uffs"))
    BY <1>10 DEF TakeFs, Take, At, AfterTake
  <2>2. "uffs" \notin held[t]
    BY <1>1, <2>1 DEF LocksFit
  <2> QED BY <1>0, <2>1, <2>2, TakePlaces
<1>11. ASSUME NEW t \in Threads, TakeNand(t) PROVE Places'
  <2>1. current = t /\ pc[t] = "io" /\ Take(t, "io", "nand", AfterTake("nand"))
    BY <1>11 DEF TakeNand, Take, At, AfterTake
  <2>2. "nand" \notin held[t]
    BY <1>1, <2>1 DEF LocksFit
  <2> QED BY <1>0, <2>1, <2>2, TakePlaces
<1>12. ASSUME NEW t \in Callers, ReleaseReWr(t) PROVE Places'
  <2>1. pc[t] = "release" /\ Release(t, "release", S, "return") /\ t \in Threads /\ "return" \in PCs
    BY <1>0, <1>12 DEF ReleaseReWr, Release, At, S, PCs
  <2> QED BY <1>0, <2>1, ReleasePlaces
<1>13. ASSUME NEW t \in Threads, Page(t) PROVE Places'
  <2>1. pc[t] = "page" /\ Release(t, "page", "nand", "more") /\ "more" \in PCs
    BY <1>13 DEF Page, Release, At, PCs
  <2> QED BY <1>0, <2>1, ReleasePlaces
<1>14. ASSUME NEW t \in Threads, FsEnd(t) PROVE Places'
  <2>. DEFINE to == IF t \in Callers THEN "use" ELSE "return"
  <2>1. pc[t] = "fsend" /\ Release(t, "fsend", "uffs", to) /\ to \in PCs
    BY <1>14 DEF FsEnd, Release, At, PCs
  <2> QED BY <1>0, <2>1, ReleasePlaces
<1> QED
  BY <1>2, <1>3, <1>4, <1>6, <1>7, <1>8, <1>9, <1>10, <1>11, <1>12, <1>13, <1>14
     DEF Next, Run

-----------------------------------------------------------------------------
(* The buffer. *)

\* Everything but the mutexes' own state has its type, and page operations are bounded.
LEMMA TypeStep ==
    ASSUME Inv, Next
    PROVE  TypeOK' /\ OpsLeft'
<1>0. TypeOK /\ OpsLeft /\ Callers \subseteq Threads /\ MaxOps \in Nat \ {0}
  BY StorageAssumption DEF Inv
<1> USE DEF TypeOK, OpsLeft
<1>1. current' \in Threads \cup {NoThread}
  BY <1>0, Scheduled
     DEF Next, Run, Tick, Call, Check, Malloc, Assign, Recheck, TakeReWr, Use, Free, SetNull,
         ReleaseReWr, TakeFs, TakeNand, Page, More, FsEnd, Return, Step, Take, Release
<1>2. CASE Tick
  BY <1>0, <1>1, <1>2 DEF Tick, callVars
<1>3. ASSUME NEW t \in Threads, Call(t) PROVE TypeOK' /\ OpsLeft'
  BY <1>0, <1>1, <1>3 DEF Call, Goto, PCs
<1>4. ASSUME NEW t \in Callers, Check(t) \/ Recheck(t) \/ TakeReWr(t) \/ ReleaseReWr(t)
      PROVE  TypeOK' /\ OpsLeft'
  BY <1>0, <1>1, <1>4 DEF Check, Recheck, TakeReWr, ReleaseReWr, Step, Take, Release,
                          Goto, PCs, callVars
<1>5. ASSUME NEW t \in Callers, Malloc(t) PROVE TypeOK' /\ OpsLeft'
  BY <1>0, <1>1, <1>5 DEF Malloc, Step, Goto, PCs
<1>6. ASSUME NEW t \in Callers, Assign(t) PROVE TypeOK' /\ OpsLeft'
  BY <1>0, <1>1, <1>6 DEF Assign, Step, Goto, PCs
<1>7. ASSUME NEW t \in Callers, Use(t) \/ Free(t) \/ SetNull(t) PROVE TypeOK' /\ OpsLeft'
  BY <1>0, <1>1, <1>7 DEF Use, Free, SetNull, Step, Goto, PCs, callVars
<1>8. ASSUME NEW t \in Threads, TakeFs(t) PROVE TypeOK' /\ OpsLeft'
  BY <1>0, <1>1, <1>8 DEF TakeFs, Take, At, Goto, PCs, callVars
<1>9. ASSUME NEW t \in Threads, TakeNand(t) PROVE TypeOK' /\ OpsLeft'
  <2>1. ops[t] \in 0..MaxOps /\ ops[t] < MaxOps
    BY <1>0, <1>9 DEF TakeNand, Take, At
  <2>2. ops[t] + 1 \in 0..MaxOps
    BY <1>0, <2>1
  <2>3. ops' \in [Threads -> 0..MaxOps]
    BY <1>0, <1>9, <2>2 DEF TakeNand
  <2>4. pc'[t] = "page" /\ pc' \in [Threads -> PCs]
    BY <1>0, <1>9 DEF TakeNand, Take, Goto, PCs
  <2>5. \A u \in Threads \ {t} : pc'[u] = pc[u] /\ ops'[u] = ops[u]
    BY <1>0, <1>9 DEF TakeNand, Take, Goto
  <2> QED BY <1>0, <1>1, <1>9, <2>3, <2>4, <2>5 DEF TakeNand
<1>10. ASSUME NEW t \in Threads, Page(t) \/ FsEnd(t) PROVE TypeOK' /\ OpsLeft'
  BY <1>0, <1>1, <1>10 DEF Page, FsEnd, Release, Goto, PCs, callVars
<1>11. ASSUME NEW t \in Threads, More(t) PROVE TypeOK' /\ OpsLeft'
  BY <1>0, <1>1, <1>11 DEF More, Step, Goto, PCs, callVars
<1>12. ASSUME NEW t \in Threads, Return(t) PROVE TypeOK' /\ OpsLeft'
  BY <1>0, <1>1, <1>12 DEF Return, Goto, PCs, callVars
<1> QED
  BY <1>2, <1>3, <1>4, <1>5, <1>6, <1>7, <1>8, <1>9, <1>10, <1>11, <1>12 DEF Next, Run

\* Who is at one of the statements around rt_free has the mutex, alone.
LEMMA FreesAlone ==
    ASSUME Inv, NEW t \in Callers, pc[t] \in {"free", "null"},
           NEW u \in Callers, Owns(u, S) \/ pc[u] \in {"free", "null"}
    PROVE  t = u
<1>0. S \in Mutexes /\ t \in Threads /\ u \in Threads
  BY ThreeLocks, StorageAssumption
<1>1. ASSUME NEW v \in Callers, pc[v] \in {"free", "null"} PROVE Owns(v, S)
  <2>1. v \in Threads /\ S \in held[v]
    BY <1>1, StorageAssumption DEF Inv, LocksByPlace, LocksFit, S
  <2>2. ~Waiting(v)
    BY <1>1, <2>1 DEF Inv, WaitsBehindTake, Waiting, AfterTake
  <2> QED BY <2>1, <2>2, <1>0, HeldOwned DEF Inv
<1> QED BY <1>1 DEF Owns

\* The blocks stay apart.
LEMMA BlockStep ==
    ASSUME Inv, Next
    PROVE  BlocksApart'
<1>0. TypeOK /\ BlocksApart /\ Callers \subseteq Threads /\ NULL \notin Blocks
  BY StorageAssumption DEF Inv
<1>1. ASSUME UNCHANGED <<Para_Buff, heap, reg>>,
             \A u \in Callers : pc[u] = "null" => pc'[u] = "null"
      PROVE  BlocksApart'
  BY <1>0, <1>1 DEF BlocksApart, Freed
<1>2. CASE Tick
  BY <1>1, <1>2 DEF Tick, callVars
<1>3. ASSUME NEW t \in Threads,
             \/ Call(t) \/ TakeFs(t) \/ TakeNand(t) \/ Page(t) \/ More(t) \/ FsEnd(t)
             \/ Return(t) \/ Check(t) \/ Recheck(t) \/ TakeReWr(t) \/ Use(t) \/ ReleaseReWr(t)
      PROVE  BlocksApart'
  <2>1. UNCHANGED <<Para_Buff, heap, reg>>
    BY <1>3 DEF Call, TakeFs, TakeNand, Page, More, FsEnd, Return, Check, Recheck, TakeReWr,
                Use, ReleaseReWr, callVars
  <2>2. pc[t] # "null" /\ \E to \in PCs : Goto(t, to)
    BY <1>3 DEF Call, TakeFs, TakeNand, Page, More, FsEnd, Return, Check, Recheck, TakeReWr,
                Use, ReleaseReWr, Step, Take, Release, At, PCs
  <2>3. \A u \in Callers : pc[u] = "null" => pc'[u] = "null"
    BY <1>0, <2>2 DEF Goto, TypeOK
  <2> QED BY <1>1, <2>1, <2>3
<1>4. ASSUME NEW t \in Callers, Malloc(t) PROVE BlocksApart'
  <2>1. \A u \in Callers : pc[u] = "null" => pc'[u] = "null"
    BY <1>0, <1>4 DEF Malloc, Step, At, Goto, TypeOK
  <2>2. CASE reg' = [reg EXCEPT ![t] = NULL] /\ UNCHANGED heap
    BY <1>0, <1>4, <2>1, <2>2 DEF Malloc, BlocksApart, Freed, TypeOK
  <2>3. ASSUME NEW b \in Blocks \ heap, reg' = [reg EXCEPT ![t] = b], heap' = heap \cup {b}
        PROVE  BlocksApart'
    BY <1>0, <1>4, <2>1, <2>3 DEF Malloc, BlocksApart, Freed, TypeOK
  <2> QED BY <1>4, <2>2, <2>3 DEF Malloc
<1>5. ASSUME NEW t \in Callers, Assign(t) PROVE BlocksApart'
  <2>1. \A u \in Callers : pc[u] = "null" => pc'[u] = "null"
    BY <1>0, <1>5 DEF Assign, Step, At, Goto, TypeOK
  <2> QED BY <1>0, <1>5, <2>1 DEF Assign, BlocksApart, Freed, TypeOK
<1>6. ASSUME NEW t \in Callers, Free(t) PROVE BlocksApart'
  <2>1. pc[t] = "free" /\ pc'[t] = "null"
    BY <1>0, <1>6 DEF Free, Step, At, Goto, TypeOK
  <2>2. ~Freed /\ Freed'
    BY <2>1, FreesAlone DEF Freed
  <2> QED BY <1>0, <1>6, <2>2 DEF Free, BlocksApart, TypeOK
<1>7. ASSUME NEW t \in Callers, SetNull(t) PROVE BlocksApart'
  BY <1>0, <1>7 DEF SetNull, BlocksApart, TypeOK
<1> QED BY <1>0, <1>2, <1>3, <1>4, <1>5, <1>6, <1>7 DEF Next, Run

-----------------------------------------------------------------------------

\* Before the first call nobody holds a lock and no block is in use.
LEMMA InitInv == Init => Inv
<1> SUFFICES ASSUME Init PROVE Inv
  OBVIOUS
<1>1. MutexInv /\ PriorityRestored
  BY InitIInv DEF Init, IInv
<1>2. TypeOK /\ OpsLeft /\ BlocksApart
  BY StorageAssumption, MutexAssumption
     DEF Init, TypeOK, OpsLeft, BlocksApart, PCs
<1>3. \A t \in Threads : held[t] = {} /\ pc[t] = "idle"
  BY DEF Init, MutexInit
<1>4. LocksByPlace
  BY <1>3 DEF LocksByPlace, LocksFit
<1>5. NoneTwice /\ \A m \in Mutexes : mutex[m].suspend_thread = <<>>
  BY DEF Init, MutexInit, Unowned, NoneTwice
<1>6. WaitsBehindTake
  BY <1>5, MutexAssumption DEF Init, WaitsBehindTake, Range
<1>7. IdleIsLast
  BY <1>3 DEF IdleIsLast, Ready
<1> QED BY <1>1, <1>2, <1>4, <1>5, <1>6, <1>7 DEF Inv

\* Every step keeps the invariant.
LEMMA NextInv == Inv /\ [Next]_vars => Inv'
<1> SUFFICES ASSUME Inv, [Next]_vars PROVE Inv'
  OBVIOUS
<1>1. CASE Next
  <2>1. MutexInv' /\ PriorityRestored'
    BY <1>1, DisciplineStep, NextIInv DEF Inv, IInv
  <2> QED BY <1>1, <2>1, PlaceStep, IdleStep, TypeStep, BlockStep DEF Inv, Places
<1>2. CASE UNCHANGED vars
  <2>1. MutexInv' /\ PriorityRestored'
    BY <1>2, NextIInv DEF Inv, IInv, vars
  <2> QED
    BY <1>2, <2>1 DEF Inv, TypeOK, NoneTwice, LocksByPlace, LocksFit, WaitsBehindTake, Waiting,
                      AfterTake, IdleIsLast, Ready, OpsLeft, BlocksApart, Freed, vars, mutexVars, callVars
<1> QED BY <1>1, <1>2

\* The inductive invariant, for any callers, users, priorities and heap: the mutexes are
\* coherent, a thread holds the locks its place calls for, no block has two owners.
THEOREM InvAlways == Spec => []Inv
  BY InitInv, NextInv, PTL DEF Spec

\* The callers of storage.c, of the file system and of the NAND driver keep to one order of
\* locks and release the last one first: they implement the specification of the kernel's
\* mutexes, and its theorems hold for them.
THEOREM ImplementsMutexSpec == Spec => MutexSpec
<1>1. Init => MutexInit
  BY DEF Init
<1>2. Inv /\ [Next]_vars => [MutexNext]_mutexVars
  BY DisciplineStep DEF vars
<1> QED BY <1>1, <1>2, InvAlways, PTL DEF Spec, MutexSpec

\* The one that has storage_ReWr_mutex never works in, or frees, a freed block, although
\* Para_Buff is allocated and tested outside the mutex.
THEOREM NoUseAfterFreeAlways == Spec => []NoUseAfterFree
<1>1. Inv => NoUseAfterFree
  <2> SUFFICES ASSUME Inv, NEW t \in Callers, Inside(t) PROVE Para_Buff \in heap \cup {NULL}
    BY DEF NoUseAfterFree
  <2>1. ~Freed
    BY FreesAlone DEF Freed, Inside, S
  <2> QED BY <2>1 DEF Inv, BlocksApart
<1> QED BY <1>1, InvAlways, PTL

\* A thread in a call that cannot run waits for a lock whose owner, in a call too, waits
\* for a later one, if it cannot run either.
LEMMA WaitsForLater ==
    ASSUME Inv, NEW m \in Mutexes, NEW t \in Threads, t \in Range(mutex[m].suspend_thread),
           Ready = {}
    PROVE  \E n \in Mutexes, o \in Threads :
              Rank[m] < Rank[n] /\ o \in Range(mutex[n].suspend_thread)
<1> DEFINE o == mutex[m].owner
<1>1. mutex[m].suspend_thread # <<>>
  BY DEF Range
<1>2. o # NoThread
  BY <1>1 DEF Inv, MutexInv, FreeIsUnowned, Unowned
<1>3. o \in Threads /\ Owns(o, m)
  BY <1>2 DEF Inv, MutexInv, MutexTypeOK, Owns
<1>4. m \in held[o] /\ o \notin Range(mutex[m].suspend_thread)
  BY <1>3 DEF Inv, MutexInv, HeldIsOwned
<1>5. pc[o] # "idle"
  <2>1. LocksFit(o)
    BY <1>3 DEF Inv, LocksByPlace
  <2> QED BY <1>4, <2>1, ThreeLocks DEF LocksFit, S
<1>6. PICK n \in Mutexes : o \in Range(mutex[n].suspend_thread)
  BY <1>3, <1>5 DEF Ready, Waiting
<1>7. n \in held[o] /\ ~Owns(o, n)
  BY <1>3, <1>6 DEF Inv, MutexInv, HeldIsOwned
<1>8. Rank[m] <= Rank[n]
  BY <1>3, <1>4, <1>7 DEF Inv, MutexInv, HeldIsOwned, IsLast
<1>9. m # n
  BY <1>4, <1>6
<1>10. Rank[m] < Rank[n]
  BY <1>8, <1>9, MutexAssumption
<1> QED BY <1>3, <1>6, <1>10

\* The idle thread runs only between calls: the locks of the storage functions, of the file
\* system and of the NAND driver never block all threads that are in a call.
THEOREM NoDeadlockAlways == Spec => []NoDeadlock
<1>1. Inv => NoDeadlock
  <2> SUFFICES ASSUME Inv, current = NoThread, NEW t \in Threads, pc[t] # "idle" PROVE FALSE
    BY DEF NoDeadlock
  <2> DEFINE Queued(m) == \E u \in Threads : u \in Range(mutex[m].suspend_thread)
  <2>1. Ready = {}
    BY DEF Inv, IdleIsLast
  <2>2. \A m \in Mutexes : Queued(m) => \E n \in Mutexes : Rank[m] < Rank[n] /\ Queued(n)
    BY <2>1, WaitsForLater
  <2>3. \E m \in Mutexes : Queued(m)
    BY <2>1 DEF Ready, Waiting
  <2> HIDE DEF Queued
  <2>4. ~Queued("nand")
    BY <2>2, ThreeLocks
  <2>5. ~Queued("uffs")
    BY <2>2, <2>4, ThreeLocks
  <2>6. ~Queued(S)
    BY <2>2, <2>4, <2>5, ThreeLocks
  <2> QED BY <2>3, <2>4, <2>5, <2>6, ThreeLocks
<1> QED BY <1>1, InvAlways, PTL
=============================================================================
