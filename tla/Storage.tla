------------------------------ MODULE Storage ------------------------------
(***************************************************************************)
(* GetStorageData and SetStorageData of storage.c, and the locks below them:  *)
(* storage_ReWr_mutex, then in every file operation the global lock of the     *)
(* uffs file system, then in every page operation that of the NAND driver.     *)
(* The meter and the bluetooth thread call the two functions; the shell's      *)
(* file commands take the lower two locks, its NAND commands the lowest.        *)
(*                                                                         *)
(* The data go through one buffer, Para_Buff, that a call allocates before it  *)
(* takes the mutex and frees before it releases it.                            *)
(***************************************************************************)
EXTENDS RtMutex

CONSTANTS Callers,   \* the threads that call the two functions
          Users,     \* the threads that use the file system directly
          Blocks,    \* what rt_malloc can return; their number bounds the heap
          NULL,
          MaxOps     \* bound: page operations in one call

Locks == <<"storage_ReWr_mutex", "uffs", "nand">>

ASSUME StorageAssumption ==
    /\ Threads = Callers \cup Users
    /\ Callers \cap Users = {}
    /\ Mutexes = Range(Locks)
    /\ \A i, j \in DOMAIN Locks : i < j => Rank[Locks[i]] < Rank[Locks[j]]
    /\ NULL \notin Blocks
    /\ MaxOps \in Nat \ {0}

VARIABLES Para_Buff,
          heap,      \* the blocks in use
          reg,       \* what rt_malloc has just returned to a thread
          pc,        \* where each thread is; "idle" between two calls
          ops,       \* page operations of the current call
          current    \* rt_current_thread, NoThread for the idle thread

callVars == <<Para_Buff, heap, reg, ops>>
vars == <<mutexVars, callVars, pc, current>>

PCs == {"idle", "check", "malloc", "assign", "recheck", "take", "use", "free", "null",
        "release", "fs", "io", "page", "more", "fsend", "return"}

\* Between take and release, up to rt_free.
Inside(t) ==
    /\ Owns(t, "storage_ReWr_mutex")
    /\ pc[t] \in {"use", "fs", "io", "page", "more", "fsend", "free"}

-----------------------------------------------------------------------------
(* The scheduler: rt_schedule runs one of the most urgent ready threads.  It   *)
(* is called where a thread is suspended or resumed and in the tick, not where  *)
(* a release lowers its caller's own priority.                                 *)

Ready == {t \in Threads : pc[t] # "idle" /\ ~Waiting(t)}

MostUrgent ==
    {t \in Ready : \A u \in Ready : current_priority[t] <= current_priority[u]}

rt_schedule ==
    current' \in IF Ready' = {} THEN {NoThread} ELSE MostUrgent'

Goto(t, label) == pc' = [pc EXCEPT ![t] = label]

At(t, label) == current = t /\ pc[t] = label

Step(t, from, to) ==
    /\ At(t, from)
    /\ Goto(t, to)
    /\ UNCHANGED <<mutexVars, current>>

Tick ==
    /\ UNCHANGED <<mutexVars, callVars, pc>>
    /\ rt_schedule

\* The call is over and the thread waits for its next event.
Return(t) ==
    /\ At(t, "return")
    /\ Goto(t, "idle")
    /\ UNCHANGED <<mutexVars, callVars>>
    /\ rt_schedule

\* A statement of t that takes or releases m; both schedule if a thread is
\* suspended or resumed.
Take(t, from, m, to) ==
    /\ At(t, from)
    /\ Goto(t, to)
    /\ rt_mutex_take(t, m)
    /\ IF Waiting(t)' THEN rt_schedule ELSE UNCHANGED current

Release(t, from, m, to) ==
    /\ At(t, from)
    /\ Goto(t, to)
    /\ rt_mutex_release(t, m)
    /\ IF mutex[m].suspend_thread # <<>> THEN rt_schedule ELSE UNCHANGED current

-----------------------------------------------------------------------------

Init ==
    /\ MutexInit
    /\ Para_Buff = NULL
    /\ heap = {}
    /\ reg = [t \in Callers |-> NULL]
    /\ pc = [t \in Threads |-> "idle"]
    /\ ops = [t \in Threads |-> 0]
    /\ current = NoThread

\* A meter frame, a bluetooth request or a shell command wakes the thread.
Call(t) ==
    /\ pc[t] = "idle"
    /\ \/ t \in Callers /\ Goto(t, "check")
       \/ t \in Users /\ \E label \in {"fs", "io"} : Goto(t, label)
    /\ ops' = [ops EXCEPT ![t] = 0]
    /\ UNCHANGED <<mutexVars, Para_Buff, heap, reg>>
    /\ rt_schedule

\* if (Para_Buff == NULL)
Check(t) ==
    /\ Step(t, "check", IF Para_Buff = NULL THEN "malloc" ELSE "take")
    /\ UNCHANGED callVars

\* rt_malloc fails, or returns a block that is not in use.
Malloc(t) ==
    /\ Step(t, "malloc", "assign")
    /\ \/ reg' = [reg EXCEPT ![t] = NULL] /\ UNCHANGED heap
       \/ \E b \in Blocks \ heap : reg' = [reg EXCEPT ![t] = b] /\ heap' = heap \cup {b}
    /\ UNCHANGED <<Para_Buff, ops>>

Assign(t) ==
    /\ Step(t, "assign", "recheck")
    /\ Para_Buff' = reg[t]
    /\ reg' = [reg EXCEPT ![t] = NULL]
    /\ UNCHANGED <<heap, ops>>

\* The test for a failed allocation reads Para_Buff again.
Recheck(t) ==
    /\ Step(t, "recheck", IF Para_Buff = NULL THEN "return" ELSE "take")
    /\ UNCHANGED callVars

TakeReWr(t) ==
    /\ Take(t, "take", "storage_ReWr_mutex", "use")
    /\ UNCHANGED callVars

\* The command's function fills, parses or prints Para_Buff around its file
\* operations; an error ends it early.
Use(t) ==
    /\ \/ ops[t] < MaxOps /\ Step(t, "use", "fs")
       \/ Step(t, "use", "free")
    /\ UNCHANGED callVars

\* rt_free(NULL) does nothing.
Free(t) ==
    /\ Step(t, "free", "null")
    /\ heap' = heap \ {Para_Buff}
    /\ UNCHANGED <<Para_Buff, reg, ops>>

\* Faulty: leaves the pointer to the freed block.
SetNullForgotten(t) ==
    /\ Step(t, "null", "release")
    /\ UNCHANGED callVars

SetNull(t) ==
    /\ Step(t, "null", "release")
    /\ Para_Buff' = NULL
    /\ UNCHANGED <<heap, reg, ops>>

ReleaseReWr(t) ==
    /\ Release(t, "release", "storage_ReWr_mutex", "return")
    /\ UNCHANGED callVars

-----------------------------------------------------------------------------
(* The file system and the NAND driver. *)

\* uffs_GlobalFsLockLock
TakeFs(t) ==
    /\ Take(t, "fs", "uffs", "io")
    /\ UNCHANGED callVars

\* A page is read or written, or a block erased.
TakeNand(t) ==
    /\ Take(t, "io", "nand", "page")
    /\ ops' = [ops EXCEPT ![t] = @ + 1]
    /\ UNCHANGED <<Para_Buff, heap, reg>>

\* Faulty: gives up the file system before the device.
PageSwapped(t) ==
    /\ Release(t, "page", IF Owns(t, "uffs") THEN "uffs" ELSE "nand", "more")
    /\ UNCHANGED callVars

Page(t) ==
    /\ Release(t, "page", "nand", "more")
    /\ UNCHANGED callVars

\* Another page of the same operation, or its end; a NAND command has just one.
More(t) ==
    /\ \/ Owns(t, "uffs") /\ ops[t] < MaxOps /\ Step(t, "more", "io")
       \/ Step(t, "more", IF Owns(t, "uffs") THEN "fsend" ELSE "return")
    /\ UNCHANGED callVars

\* uffs_GlobalFsLockUnlock
FsEnd(t) ==
    /\ Release(t, "fsend", "uffs", IF t \in Callers THEN "use" ELSE "return")
    /\ UNCHANGED callVars

-----------------------------------------------------------------------------

Run(t) ==
    \/ t \in Callers /\ (\/ Check(t) \/ Malloc(t) \/ Assign(t) \/ Recheck(t) \/ TakeReWr(t)
                         \/ Use(t) \/ Free(t) \/ SetNull(t) \/ ReleaseReWr(t))
    \/ TakeFs(t) \/ TakeNand(t) \/ Page(t) \/ More(t) \/ FsEnd(t) \/ Return(t)

Next == Tick \/ \E t \in Threads : Call(t) \/ Run(t)

Spec == Init /\ [][Next]_vars

(***************************************************************************)
(* Fairness: a thread that gets the processor again and again makes           *)
(* progress.  The callers wait for a frame or a request between two calls, so  *)
(* the less urgent one does get it.                                            *)
(***************************************************************************)
FairSpec == Spec /\ \A t \in Threads : SF_vars(Run(t))

-----------------------------------------------------------------------------

TypeOK ==
    /\ Para_Buff \in Blocks \cup {NULL}
    /\ heap \subseteq Blocks
    /\ reg \in [Callers -> Blocks \cup {NULL}]
    /\ pc \in [Threads -> PCs]
    /\ ops \in [Threads -> 0..MaxOps]
    /\ current \in Threads \cup {NoThread}

\* No call takes a lock that it has.
NoneTwice == \A m \in Mutexes : mutex[m].hold <= 1

\* Which locks a thread holds, or waits for, tells where it is: only the NAND commands
\* of the shell skip the file system's.
LocksFit(t) ==
    /\ "storage_ReWr_mutex" \in held[t] <=>
          /\ t \in Callers
          /\ pc[t] \in {"use", "fs", "io", "page", "more", "fsend", "free", "null", "release"}
    /\ "uffs" \in held[t] => pc[t] \in {"io", "page", "more", "fsend"}
    /\ pc[t] = "fsend" => "uffs" \in held[t]
    /\ t \in Callers /\ pc[t] \in {"io", "page", "more"} => "uffs" \in held[t]
    /\ "nand" \in held[t] <=> pc[t] = "page"
    /\ t \in Users => pc[t] \in {"idle", "fs", "io", "page", "more", "fsend", "return"}

LocksByPlace == \A t \in Threads : LocksFit(t)

\* The statement behind rt_mutex_take.
AfterTake(m) ==
    IF m = "storage_ReWr_mutex" THEN "use" ELSE IF m = "uffs" THEN "io" ELSE "page"

\* A thread that waits is right behind its rt_mutex_take, and another one runs.
WaitsBehindTake ==
    /\ \A t \in Threads, m \in Mutexes :
          t \in Range(mutex[m].suspend_thread) => pc[t] = AfterTake(m)
    /\ current \in Threads => ~Waiting(current) /\ pc[current] # "idle"

\* The idle thread runs only when nobody else can.
IdleIsLast == current = NoThread => Ready = {}

OpsLeft == \A t \in Threads : pc[t] \in {"fs", "io"} => ops[t] < MaxOps

\* Between rt_free and Para_Buff = NULL.
Freed == \E t \in Callers : pc[t] = "null"

\* A block is known to one call only, and Para_Buff outlives its block only until the
\* call that freed it has set it to NULL.
BlocksApart ==
    /\ Freed \/ Para_Buff \in heap \cup {NULL}
    /\ \A t \in Callers :
          /\ reg[t] \in heap \cup {NULL}
          /\ reg[t] = Para_Buff => Freed \/ reg[t] = NULL
          /\ \A u \in Callers : reg[t] = reg[u] => t = u \/ reg[t] = NULL

\* The mutexes are coherent, each thread holds the locks its place in the code calls for,
\* and each block of the heap has one owner (GetStorageData, SetStorageData).
Inv ==
    /\ TypeOK
    /\ MutexInv
    /\ PriorityRestored
    /\ NoneTwice
    /\ LocksByPlace
    /\ WaitsBehindTake
    /\ IdleIsLast
    /\ OpsLeft
    /\ BlocksApart

\* The one that has the mutex never works in, or frees, a block that another
\* call has freed, although Para_Buff is allocated and tested outside the mutex
\* (Para_Buff = NULL after rt_free).
NoUseAfterFree ==
    \A t \in Callers : Inside(t) => Para_Buff \in heap \cup {NULL}

\* The three locks and the scheduler do not deadlock: the idle thread runs only between
\* calls, since the threads that wait never wait for each other in a circle and every
\* release wakes the next one (rt_mutex_take, rt_mutex_release, rt_schedule).
NoDeadlock == current = NoThread => \A t \in Threads : pc[t] = "idle"

\* What the comments promise ("allocate memory", "buffer of the persisted
\* parameters"): the one that has the mutex has a buffer to work in.
BufferWhenInside ==
    \A t \in Callers : Inside(t) => Para_Buff # NULL

\* Every call returns: nobody waits for ever for a mutex, and the three locks
\* do not deadlock (storage_ReWr_mutex, uffs, nand).
CallReturns ==
    \A t \in Threads : pc[t] # "idle" ~> pc[t] = "idle"
=============================================================================
