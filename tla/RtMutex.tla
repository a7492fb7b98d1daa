------------------------------ MODULE RtMutex ------------------------------
(***************************************************************************)
(* The kernel's mutexes: rt_mutex_take and rt_mutex_release of src/ipc.c,   *)
(* with the priority they lend to an owner (rt_thread_control of             *)
(* src/thread.c).  Each call runs with interrupts disabled up to the point    *)
(* where its thread is suspended, so it is one step.  The mutexes of this     *)
(* firmware are first in, first out, and every caller waits for ever, so      *)
(* there is neither a timeout nor a queue in order of priority here.          *)
(*                                                                         *)
(* The specification is that of callers that nest their mutexes: taken in    *)
(* one common order, released in the reverse one.  Storage.tla shows that    *)
(* the callers of the file system are such.                                  *)
(***************************************************************************)
EXTENDS Integers, Sequences, Functions

CONSTANTS Threads,   \* the threads that share the mutexes
          Prio,      \* init_priority of each: the smaller, the more urgent
          Mutexes,
          Rank,      \* the order in which nested mutexes are taken
          NoThread   \* RT_NULL as an owner

ASSUME MutexAssumption ==
    /\ Prio \in [Threads -> 0..31]
    /\ Rank \in [Mutexes -> Nat]
    /\ \A m, n \in Mutexes : Rank[m] = Rank[n] => m = n
    /\ NoThread \notin Threads

VARIABLES mutex,             \* struct rt_mutex of each
          current_priority,  \* of each thread
          held               \* the mutexes each thread owns or waits for

mutexVars == <<mutex, current_priority, held>>

Owns(t, m) == mutex[m].owner = t

Waiting(t) == \E m \in Mutexes : t \in Range(mutex[m].suspend_thread)

-----------------------------------------------------------------------------
(* rt_mutex_init, rt_mutex_create. *)

Unowned == [value |-> 1, owner |-> NoThread, hold |-> 0,
            original_priority |-> 255, suspend_thread |-> <<>>]

MutexInit ==
    /\ mutex = [m \in Mutexes |-> Unowned]
    /\ current_priority = Prio
    /\ held = [t \in Threads |-> {}]

-----------------------------------------------------------------------------
(* rt_mutex_take. *)

TakeFree(t, m) ==
    LET taken == [mutex[m] EXCEPT !.value = @ - 1, !.owner = t, !.hold = @ + 1,
                                  !.original_priority = current_priority[t]] IN
    /\ mutex[m].value > 0
    /\ mutex' = [mutex EXCEPT ![m] = taken]
    /\ held' = [held EXCEPT ![t] = @ \cup {m}]
    /\ UNCHANGED current_priority

\* The caller lends its priority to the owner, and to nobody the owner waits
\* for, and joins the queue.
Wait(t, m) ==
    LET o == mutex[m].owner IN
    /\ mutex[m].value = 0
    /\ current_priority' = IF current_priority[t] < current_priority[o]
                           THEN [current_priority EXCEPT ![o] = current_priority[t]]
                           ELSE current_priority
    /\ mutex' = [mutex EXCEPT ![m].suspend_thread = Append(@, t)]
    /\ held' = [held EXCEPT ![t] = @ \cup {m}]

rt_mutex_take(t, m) ==
    IF Owns(t, m)
    THEN mutex' = [mutex EXCEPT ![m].hold = @ + 1] /\ UNCHANGED <<current_priority, held>>
    ELSE TakeFree(t, m) \/ Wait(t, m)

-----------------------------------------------------------------------------
(* rt_mutex_release. *)

\* Faulty: the new owner inherits the priority of the old one to return to.
HandOverStale(m) ==
    LET q == mutex[m].suspend_thread IN
    IF q = <<>> THEN Unowned
    ELSE [mutex[m] EXCEPT !.owner = Head(q), !.suspend_thread = Tail(q)]

\* The last release: the owner gets its priority back; the first thread of the
\* queue becomes the owner at its own priority, however urgent those behind it
\* are; with no queue the mutex is free again.
HandOver(m) ==
    LET q == mutex[m].suspend_thread IN
    IF q = <<>> THEN Unowned
    ELSE [mutex[m] EXCEPT !.owner = Head(q),
                          !.original_priority = current_priority[Head(q)],
                          !.suspend_thread = Tail(q)]

\* Faulty: frees the mutex although threads wait for it.
ReleaseUnheard(t, m) ==
    /\ current_priority' = [current_priority EXCEPT ![t] = mutex[m].original_priority]
    /\ mutex' = [mutex EXCEPT ![m] =
                    [Unowned EXCEPT !.suspend_thread = mutex[m].suspend_thread]]
    /\ held' = [held EXCEPT ![t] = @ \ {m}]

ReleaseLast(t, m) ==
    /\ current_priority' = [current_priority EXCEPT ![t] = mutex[m].original_priority]
    /\ mutex' = [mutex EXCEPT ![m] = HandOver(m)]
    /\ held' = [held EXCEPT ![t] = @ \ {m}]

\* A caller that is not the owner gets -RT_ERROR.
rt_mutex_release(t, m) ==
    IF ~Owns(t, m) THEN UNCHANGED mutexVars
    ELSE IF mutex[m].hold > 1
         THEN mutex' = [mutex EXCEPT ![m].hold = @ - 1] /\ UNCHANGED <<current_priority, held>>
         ELSE ReleaseLast(t, m)

-----------------------------------------------------------------------------
(* Callers that nest their mutexes. *)

IsFirst(t, m) == m \in held[t] /\ \A n \in held[t] : Rank[m] <= Rank[n]

IsLast(t, m) == m \in held[t] /\ \A n \in held[t] : Rank[n] <= Rank[m]

MayTake(t, m) == Owns(t, m) \/ \A n \in held[t] : Rank[n] < Rank[m]

MayRelease(t, m) == Owns(t, m) /\ (mutex[m].hold = 1 => IsLast(t, m))

MutexNext ==
    \E t \in Threads, m \in Mutexes :
        /\ ~Waiting(t)
        /\ \/ MayTake(t, m) /\ rt_mutex_take(t, m)
           \/ MayRelease(t, m) /\ rt_mutex_release(t, m)

\* Every thread takes its mutexes in the common order and releases the last
\* one first, and touches none while it waits (the pairs of rt_mutex_take and
\* rt_mutex_release in storage.c, the uffs file system and drv_nand.c).
MutexSpec == MutexInit /\ [][MutexNext]_mutexVars

-----------------------------------------------------------------------------

Priorities == 0..31

MutexTypeOK ==
    /\ mutex \in [Mutexes -> [value : {0, 1}, owner : Threads \cup {NoThread}, hold : Nat,
                              original_priority : Priorities \cup {255},
                              suspend_thread : Seq(Threads)]]
    /\ current_priority \in [Threads -> Priorities]
    /\ held \in [Threads -> SUBSET Mutexes]

\* value, owner, hold and the queue tell one story.
FreeIsUnowned ==
    \A m \in Mutexes :
        IF mutex[m].owner = NoThread THEN mutex[m] = Unowned
        ELSE mutex[m].value = 0 /\ mutex[m].hold > 0 /\ mutex[m].original_priority # 255

\* What a thread holds it owns, except the last one if it waits for it.  So
\* nobody waits for two mutexes, or for one it owns.
HeldIsOwned ==
    \A t \in Threads, m \in Mutexes :
        /\ Owns(t, m) => m \in held[t] /\ t \notin Range(mutex[m].suspend_thread)
        /\ m \in held[t] /\ ~Owns(t, m) =>
              IsLast(t, m) /\ t \in Range(mutex[m].suspend_thread)
        /\ t \in Range(mutex[m].suspend_thread) => m \in held[t]

QueuedOnce ==
    \A m \in Mutexes : \A i, j \in DOMAIN mutex[m].suspend_thread :
        mutex[m].suspend_thread[i] = mutex[m].suspend_thread[j] => i = j

\* The first mutex a thread took remembers its own priority.
FirstKeepsPriority ==
    \A t \in Threads, m \in Mutexes :
        IsFirst(t, m) =>
           IF Owns(t, m) THEN mutex[m].original_priority = Prio[t]
           ELSE current_priority[t] = Prio[t]

\* A lent priority is given back: a thread that neither owns a mutex nor waits
\* for one runs at its initial priority, however its mutexes were nested and
\* whoever waited for them meanwhile (original_priority in rt_mutex_take and
\* rt_mutex_release).
PriorityRestored ==
    \A t \in Threads : held[t] = {} => current_priority[t] = Prio[t]

\* A mutex has one owner and its queue holds just the threads that wait for it:
\* no thread waits for a free mutex, for two, or for its own (the bookkeeping of
\* value, owner, hold and suspend_thread).
MutexInv ==
    /\ MutexTypeOK
    /\ FreeIsUnowned
    /\ HeldIsOwned
    /\ QueuedOnce
    /\ FirstKeepsPriority
=============================================================================
