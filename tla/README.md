# TLA+ models of the LEM-4361A energy router

LEM-4361A is a router between a power utility and an electric-vehicle charging
pile: firmware for an STM32F407 on RT-Thread 4.0. The utility's master station
talks to it over HPLC (power-line carrier, protocol DL/T 698.45) or Bluetooth, the
pile over CAN. The repository is a fork of RT-Thread with the product in
`bsp/stm32f407-lem-4361a`; its own code is in `applications/`.

These modules model the parts in which threads, interrupt handlers and the two
peers interleave, check them with TLC on small instances, and prove their
main invariants with TLAPS for every instance.

## 1. The system

One thread per concern, one core, strict priorities (a smaller number preempts):

| Thread (priority) | Source | State it keeps | Works with |
|---|---|---|---|
| esam (7) | `esam.c` | security chip on SPI | called by hplc |
| strategy (8) | `strategy.c` | charging plan, execution state | event word, `CtrlUnit_RecResp` |
| screen (14) | `screen.c` | display | reads everybody's data |
| hplc (15) | `698.c` | frame receiver, stored command frames, `strategy_event`, `hplc_event` | energycon, strategy |
| monitor (17) | `monitor.c` | - | console |
| energycon (18) | `energycon.c` | pending start/stop flags, response timers, time slots | event word, chargepile |
| storage (19) | `storage.c` | files on NAND, one mutex | called by all |
| chargepileRev (20) | `chargepile.c` | - | reads CAN, handles the pile's frames |
| chargepile (21) | `chargepile.c` | `ChgState`, the received flags, `ChargePileEvent` | sends to the pile |
| analog (22), bluetooth (23), meter (25) | same names | samples; a second 698 receiver; meter data | - |

Below them: the CAN framework (`components/drivers/can/can.c`), the controller
driver (`HAL_Drivers/drv_can.c`), completions, the serial framework and its driver
(`serial.c`, `drv_usart.c`), the uffs file system on NAND, and the RT-Thread kernel.

A charging command travels

    master station -> hplc: strategy_event_send -> energycon: strategy_event_get
      -> ChargepileDataGetSet -> ChgState -> chargepile: start frame -> CAN -> pile
    pile: state frame -> CAN -> chargepileRev -> ChgState, ChargePileEvent
      -> energycon -> CtrlUnit_RecResp -> hplc_event -> hplc -> master station

What is hard in it:

- **Concurrency without locks.** `ChgState` and the received flags are shared by
  four actors. The event word and `hplc_event` are guarded by a hand-made lock whose
  test and set are separate statements. The CAN driver mixes threads, semaphores,
  completions and interrupt handlers, with interrupts disabled only in short sections.
- **Locks that do not cover what they are for.** The buffer of the storage functions
  is allocated and tested outside their mutex. The file system adds two mutexes below
  it, and priorities are lent through all three.
- **Hardware.** Flags that are cleared by writing 1 are handled by
  read-modify-write. The serial DMA writes on while handlers compute positions from
  its counter and threads read.
- **Unreliable peers.** Frames are lost, repeated, late, cut; the pile repeats its
  state frames; anything may come in any state; a frame can reset the router.
- **Waiting.** A CAN write waits without a timeout; receivers poll; a response timer
  races the pile's report.

`PROJECT.json` lists the hazards at their lines, with the properties about each.

What makes each part correct: the event word loses no command; a CAN box is never
lost or shared and every write returns; frames are delivered in order and once, and
no wakeup is lost; no start or stop frame without a command, each result reported
once, the handshake ends; a command that energycon took is answered from its own
frame, and not more often than it should be; a frame on the power line that meets a
free receiver is handled; lent priorities are given back, and every call of the
storage functions returns.

## 2. Modules

| Module | Models | State and actions |
|---|---|---|
| `FlagLock` | the two-flag lock of `698.c`, the scheduler's choice | `lock1`, `lock2`, a program counter per thread; one action per statement |
| `StrategyEvent` | `strategy_event_send`, `strategy_event_get`, `my_strategy_event_get` | the word, the value each thread has read; load and store are separate |
| `EventWord` | abstract: what the callers rely on | send, get and peek, one step each |
| `CanTx` | `_can_int_tx`, `drv_sendmsg`, `rt_completion_*`, the transmit and error handlers | semaphore, free list, results, completions, header buffer, mailboxes, `RQCPx`, `TXOKx`, what each write returned |
| `TxService` | abstract: what a writer relies on | write, transmit, return with the outcome |
| `CanRx` | `CAN1_RX0_IRQHandler`, `rt_hw_can_isr`, `_can_int_rx`, `can_rx_ind`, `chargepileRev_thread_entry` | controller FIFO, node lists, event, reader |
| `RxQueue` | abstract: what the reader relies on | arrive, overwrite, lose, deliver |
| `ChargePile` | `chargepile_thread_entry`, `CAN_V110_RecProtocal`, `ChargepileDataGetSet`, `Inform_Communicate_Can`, the heart timer | `ChgState`, received flags, events, `RunTime`, timers, error counter |
| `ChargeControl` | the start and stop handlers of `698.c`, `check_afair_from_botom`, `CtrlUnit_RecResp`; `CtrlData_RecProcess`, `PileData_RecProcess` and the response timers of `energycon.c` | `strategy_event`, `hplc_event`, stored frames, `ChargePileEvent`, pending flags, timers, over a second `FlagLock` |
| `SerialRx` | reception by circular DMA: `uart_isr`, `HAL_UART_RxCpltCallback`, `rt_dma_recv_update_put_index`, `_serial_dma_rx` | ring, DMA position, `last_index`, `put_index`, `get_index`, `is_full`, pending interrupts |
| `FrameReceiver` | `get_single_frame_frome_hplc`, on `SerialRx` | receiver state, collected bytes, lengths, empty polls |
| `RtMutex` | `rt_mutex_take`, `rt_mutex_release` and the priority they lend | value, owner, hold, original priority and queue of each mutex, current priorities |
| `Storage` | `GetStorageData`, `SetStorageData`, the locks of uffs and of `drv_nand.c`, on `RtMutex` | `Para_Buff`, the heap, a program counter per thread, the running thread |
| `MC...` | instances for TLC | |
| `...Proofs` | theorems | |

How they compose. `ChargeControl` uses the event word as one step per function, which
`StrategyEvent` is shown (and proved) to allow by refining `EventWord`. It sees of
`ChargePile` only the events the pile's successes post, in any state, which is more
than `ChargePile` allows. `FrameReceiver` extends `SerialRx`, `Storage` extends
`RtMutex`. `RtMutex` has a specification of its own, `MutexSpec`: callers that nest
their mutexes in one order. `Storage` is shown to implement it, so what is proved of
`MutexSpec` holds for the storage functions.

Names follow the code. `PROJECT.json` maps each definition to its lines.

**What is one step.** In `FlagLock`, `StrategyEvent`, `ChargeControl` (inside its
lock), `CanTx` and `Storage` an action is a statement that touches shared state, or a
section with interrupts disabled. In `ChargePile` an action of chargepile is one
access to shared state; a handler of chargepileRev is one step up to the point where
it waits in `rt_device_write`, and one step after it. That is sound because chargepile
cannot run in between, and energycon, which can, neither writes what the handler has
tested nor depends on the order of its assignments. In `SerialRx` `uart_isr` is three
steps, because the DMA and its end-of-ring interrupt can come between them. One case
is excluded by timing, with the guard `~tc` of `IdleCount`: the last byte of the ring
landing between `rt_hw_interrupt_disable` (`drv_usart.c:258`) and the read of the
counter in the next line, where `recv_len` would underflow. The interrupt comes when
the line falls idle, and the next byte is complete a whole character (about 1 ms)
after its start. In `ChargeControl` `check_afair_from_botom` looks at each bit once per
call, start before stop; a bit set behind the look waits for the next call. In
`FrameReceiver` reading and filing a byte is one step; nobody else touches the
receiver.

**Scheduler.** In `FlagLock`, `ChargeControl` and `CanTx` a thread steps only if no
more urgent one is ready, since the code leans on it. `Storage` goes further:
`rt_schedule` is called where the kernel calls it, so a release that lowers its
caller's priority does not give up the processor by itself. `ChargePile` allows more
interleavings than the priorities do, except inside handlers.

**Data.** A frame in `CanRx` is its number in the order of arrival; in `CanTx` it
is the thread whose header it carries; in `ChargePile` it is its code together with
what the handler tests of its contents; in `ChargeControl` it is the command it
carries. `FrameReceiver` keeps byte values, since its control depends on lengths and
marks; whether a check sequence is right is part of the burst. Which of several free
boxes, nodes or blocks comes first is left open. Measurement frames, encoding and
printing are left out.

**External.** The CAN controller: a mailbox that sends or gives up, a FIFO that
overwrites its newest frame when it is full (`ReceiveFifoLocked = DISABLE`), flags
cleared by writing 1, `TXOKx` falling with `RQCPx`. The serial line, the ESAM (it answers after a while), and the
heap (`rt_malloc` fails or returns a block not in use).

Three things the models take from the code that a reader may not expect:

- `ChargeControl`: `CtrlUnit_RecResp` fills nothing in for `Cmd_StartChg` and
  `Cmd_StopChg`. energycon compares the empty asset number with the router's, which
  `storage_thread_init` always sets, so at this commit it refuses every start
  (`Accepted`), while the answer the station gets says success.
- `ChargeControl`: the response timers call `ChargepileDataGetSet` with a null
  pointer. Whether the write through it faults depends on the memory map, so
  `Timeout` may halt the router or do nothing. The liveness properties say "or halted".
- `RtMutex`: releasing an inner mutex restores the priority its owner had when it took
  it, so a priority lent through the outer mutex meanwhile is given back too early.
  The code does this, and the model with it. `PriorityRestored` says only that nothing
  is kept in the end.

Operators whose comment starts with "Faulty" are not part of the models. Each is a
plausible mistake in the code; put in place of the operator after it, it makes TLC
report the property that `PROJECT.json` names under `mutants`.

## 3. Runs

| Run | Configuration | Result |
|---|---|---|
| `strategy_event` | strategy, hplc, energycon; two events | the lock excludes; the word refines `EventWord`; the lock is always released |
| `can_tx` | 3 senders, 2 boxes, bus errors | boxes conserved, list never empty, nothing left over, woken with a result; a write returns the outcome of its own frame (refines `TxService`) |
| `can_tx_pair` | chargepile and chargepileRev, 3 boxes | **violated**: a write may never return |
| `can_tx_header` | same | **violated**: a frame may carry the other thread's identifier |
| `can_rx` | 2 nodes, FIFO of 2, 6 frames | nodes, FIFO and reader in step, nodes conserved, in order and once, no lost wakeup, refines `RxQueue`, the newest frame is handled |
| `charge_pile` | handshake, start and stop, failures, services, update, reset; a command every 1 and 2 seconds | commanded frames only, one report, charging is marked, the retry budget is kept, an awaited answer is not dropped, the handshake completes |
| `dropped_frames` | start and stop only | **violated**: a dropped frame need not be a repeat |
| `charge_control` | 2 command frames, 2 reports | answers come from stored frames, a report confirms one command, answers are not repeated, a command is taken once, nobody polls a flag left set; commands, reports and answers get through |
| `control_lock` | same | **violated**: both threads may be inside the lock of `hplc_event` |
| `hplc_receive` | 2 bursts of 7 kinds, ring of 7 bytes, buffer of 14 | positions and counters agree, the ring offers the newest bytes, consecutive bytes are collected, no byte is handled twice or out of order; a frame is handled, and the receiver does not stick |
| `storage` | meter, bluetooth, shell; 3 mutexes, 3 blocks, 2 page operations per call | mutexes coherent, priorities restored, no use after free, no deadlock; `Storage` implements `MutexSpec`; every call returns |
| `storage_buffer` | same, 2 blocks, 1 page operation | **violated**: a call may work without a buffer |

The five violations are findings:

1. `drv_can.c:107` clears `RQCP0` with `SET_BIT`, a read-modify-write of a register
   whose flags are cleared by writing 1. If two mailboxes have completed, both flags
   go and only one sender is woken. The other waits forever (`can.c:163`).
2. `drv_can.c:934-978` fills one header buffer per controller and loads the mailbox
   from it, without a lock.
3. `chargepile.c:2202` and `2228` mark a state frame as received when it reports a
   failure, too. The success that follows is dropped as "Double".
4. `698.c:5133`: the flags that guard `hplc_event` exclude only as long as nobody
   sleeps inside, and `check_afair_from_botom` waits for the ESAM there. energycon,
   overtaken between its test and its assignment of `lock1`, goes in as well. An answer
   may then be sent twice; `AnswersAccounted` shows that nothing else repeats one.
5. `storage.c:4620` tests `Para_Buff` before it takes the mutex. A call that finds the
   buffer of another one waits until that one has freed it, and then works through a
   null pointer. `NoUseAfterFree` shows that it never works in a freed block.

**Bounds.**
- Three threads contend for the event word's lock: one inside, one overtaken between
  test and set, one waiting.
- Three senders and two boxes exhaust the semaphore. Six frames overflow a FIFO of two
  and two nodes, and go on after it.
- `charge_pile`: the command periods 1 and 2 keep the ratio of the code's 5 and 10;
  `RunTime` counts modulo their product, which no test of it can tell apart. Each group
  of frames that is handled alike has one or two members.
- `MaxFrames = 2`, `MaxReports = 2`: two commands meet in the word, or one overtakes the
  answer to another; a report comes before its command, twice, or for the wrong one.
  The safety properties also hold with three frames (1.7 million states).
- `bufsz = 7` is shorter than every whole frame, so each one wraps the ring and the DMA
  can run over unread bytes; `HPLC_DATA_MAX_SIZE = 14` puts a frame on either side of
  the limit. `MaxPolls = 2` stands for 30: what counts is that an empty poll need not be
  the last one. `MaxOverrun = 2` unread bytes may be written over before hplc is free
  again. Two bursts: the second meets what the first left.
- `Blocks`: with two callers, three blocks cover both their allocations and one lost
  block; then `rt_malloc` fails, as it may at any time. `MaxOps = 2` page operations
  let a call be overtaken between two of them.

No state constraint is used; every bound is in a guard.

**Deadlock** is checked except in the CAN sending runs, where all senders may come to
wait forever (finding 1).

**Fairness.**
- `StrategyEvent`: strong fairness of each thread's steps. Pollers sleep 20 ms, so
  the others get the core again and again. Nobody is obliged to call.
- `CanTx`: threads inside the driver go on, handlers are served, the bus carries
  every requested frame (`AutoRetransmission = ENABLE`). Bus errors are not fair.
- `CanRx`: a pending interrupt is served, the reader goes on in the end.
- `ChargePile`: both threads go on; a pile that is asked again and again for its
  version and its parameters answers in the end. Commands and all other frames may
  never come.
- `ChargeControl`: weak for hplc, the more urgent of the two, which polls for ever and
  whose ESAM answers; strong for energycon, which runs once a second but only while
  hplc sleeps. Station, pile and timers are not obliged to anything.
- `FrameReceiver`: weak for the line (a burst runs to its end), the handlers and hplc.
- `Storage`: strong for each thread; between two calls the more urgent ones wait for a
  frame or a request, so the least urgent one gets the core again and again.

## 4. Proofs

Every theorem is about the modules TLC runs, with their constants left open.

| Module | Theorems | For any |
|---|---|---|
| `StrategyEventProofs` | `InvAlways`, `ExclusionAlways`, `WaitsForWorkerAlways`, `ImplementsEventWord` | threads with pairwise different priorities |
| `CanTxProofs` | `InvAlways`, `BoxesConservedAlways`, `ListNotEmptyAlways`, `BoxIsFreshAlways`, `WokenWithResultAlways`, `ImplementsTxService` | finite set of senders, priorities, number of boxes |
| `CanRxProofs` | `InvAlways`, `NodesConservedAlways`, `InOrderOnceAlways`, `WakeupNotLostAlways`, `ImplementsRxQueue` | finite set of nodes, depth of the FIFO, number of frames |
| `ChargePileProofs` | `InvAlways`, `CommandedFramesOnlyAlways`, `AtMostOnePostAlways`, `ChargingIsMarkedAlways`, `AwaitedNotDroppedAlways` | set of frames, command periods |
| `ChargeControlProofs` | `InvAlways`, `ReportUsedOnceAlways`, `AnswersAccountedAlways`, `CommandTakenOnceAlways`, `WaitsForWorkerAlways` | number of commands and reports |
| `FrameReceiverProofs` | `InvAlways`, `RingHoldsNewestAlways`, `BufferIsLineAlways`, `HandledOnceAlways` | ring of two bytes or more, buffer of more than 12, bursts |
| `RtMutexProofs` | `MutexInvAlways`, `PriorityRestoredAlways` | threads, priorities, mutexes nested in one order |
| `StorageProofs` | `InvAlways`, `ImplementsMutexSpec`, `NoUseAfterFreeAlways`, `NoDeadlockAlways` | callers, other users, priorities, heap, page operations per call |

*The lock* is proved for any set of threads with pairwise different priorities
(`PrioAssumption`). Exclusion is not inductive: a thread between test and set may
find the lock taken when it runs again. `StaleTestIsOutranked` says why that is
harmless: only a more urgent thread can have taken it, and that thread cannot have
left the processor with the lock held, because inside the lock nobody sleeps
(`NobodySleepsInside`: the second flag is never found set). So it has released the
lock before the overtaken thread runs. With two threads of one priority, time slices
would break this; a sleep inside breaks it in finding 4. Atomicity follows: what the
thread inside has read is still in the word when it writes (`ReadIsCurrent`), so its
store is the abstract step and all other steps are stutters. `WaitsForWorker` is the
safety half of `LockReleased`: a flag that is polled has somebody inside (`FlagsAgree`)
who is not asleep in a polling loop himself.

*The sending driver* is proved for any finite set of senders, any priorities and any
positive number of boxes. `SemAccounts` ties semaphore and list together: they
differ by the senders between the two (`InTransit`), so a sender past the semaphore
finds a box. `OneStage` and `FreeBoxesQuiet` carry a box through mailbox, flag and
completion and show that nothing is left when it is free again. `ResultWritten` says
that the handler writes the result of a frame before it wakes the sender, and that
nothing takes it back before the sender reads it. For the refinement of `TxService` that
is too weak: the result must be that of this frame. `outcome` records how the last request
of each mailbox ended, and `OutcomeReported` follows it from the flags of the controller
through the handler into the box. A write maps to "pending" until its mailbox is empty, to
the outcome after that, and to "idle" once the box is back in the list; by
`BoxesConserved` a request that ends has exactly one waiting sender, and by `OneStage` and
`FreeBoxesQuiet` nobody starts to wait on an outcome that is already there. The flags that
finding 1 loses only keep a write from returning, so the refinement holds in spite of it.

*The receiving driver.* `RXOF_IND` falls through into `RX_IND` and would take the last
frame in twice. `OverrunIsFull` says why it never does: the overrun flag is set only
while the FIFO is full, and releasing a frame clears it before the FIFO is drained. The
order of the frames is then proved of the abstract queue (`Queue!InOrder`), and every
step of the driver is shown to be a step of that queue or a stutter, so that order,
once-only delivery and the refinement come from one case analysis. It uses
`NodesConserved`: when no node is free they are all in the list, except the one the
reader is copying, so a frame is lost only out of a full list. For the wakeup,
`LastTakenIn` says that the frame taken in last is the newest in the list, so the event
that `can_rx_ind` raises for it covers all before it.

*The charging protocol* is proved for any set of frames and any periods.
`CommandIsOwed`: a state that asks for a frame was set by a command that has not been
sent, except while chargepile is about to overwrite it. `PostedIsMarked` and
`AnsweredIsNew`: a report sets the flag it tested; clearing the flags clears the
history with them. `AwaitedNotDropped` is the safety half of `HandshakeCompletes`; it
needs `NoVersionBeforeBoot`, since the pile may answer before chargepile has asked.

*The command path.* That no answer is repeated is not inductive: between taking a
command and the answer there are up to four places an answer may come from. `Outstanding`
adds them up - the bit in `hplc_event`, the answer hplc is packing, the one energycon is
about to store, and the pending flag that still allows one - and `AnswersBudgeted` says
that they and the answers already given stay within what the commands taken allow: two
for a start, whose refusal leaves the flag set, one for a stop. What energycon has read of
`hplc_event` must be current when it writes it back (`ReadIsCurrent`), which is where the
lock comes in. The lock does not always exclude (finding 4), so these parts are stated for
behaviours in which it has, up to now (`overlap` is FALSE). `FramesStored`,
`CalledForCommand`, `ReportUsedOnce` and `CommandTakenOnce` hold in all; the last counts the
frame hplc is handling and the bit in the word, so that neither is taken twice. So does
`WaitsForWorker`: exclusion is lost, and with it the agreement of flags and holders, but
one half of the agreement is left (`FlagsHaveHolders`). Whoever leaves clears the flags,
also those of the other thread, so a set flag always has somebody inside, and the threads
never wait for each other.

*The serial ring and the receiver on it.* `IndexesAgree` relates DMA, `last_index` and
`put_index` through both handlers, with `DmaAhead` for the lap: `last_index` is behind
the DMA unless the end-of-ring interrupt is pending. `RingHoldsNewest` looks at the ring
from the reader's side, and what the reader is offered changes in every report. The
inductive fact looks at it from the DMA's side: read back from there the ring is the line
(`RingIsLine`), so a byte moves by one place and the handlers and readers disturb nothing.
A report of n bytes then offers the smaller of the ring's size and what was offered plus n
(`is_full` and the corrected `get_index`). In the receiver, `CountersAgree` needs
`CollectedByState` (how far a frame has got before its length and the place of its header
check are known), and `BufferIsLine` needs `NextFollows`: the byte to be read next is the
one after the last one collected. `HandledOnce` rests on `HandledIsRead`: everything
collected or handled lies before the byte to be read next, and what is collected lies behind
what was handled. It holds for any bursts, also when one burst holds several requests or
frames, and when a frame carries marks that look like the beginning of another.

*The mutex* is proved for any threads, initial priorities and mutexes, as long as the
callers nest them in one order (`MutexAssumption`, `MutexSpec`). `PriorityRestored` is
not inductive: what a release gives back is what the take found, and with nesting that
may itself be a lent priority. `FirstKeepsPriority` is the strengthening: the mutex a
thread took first remembers its initial priority, and since it is released last, that
is the priority the thread ends with. It needs `HeldIsOwned`: a thread waits for the
last of its mutexes only, so nobody lends to it through one it does not own yet.

*The storage functions.* `LocksByPlace` says which locks a thread holds at each place of
the code and `WaitsBehindTake` that one that waits stands right behind its take. With them
every step is seen to take locks in one order and to release the last one first, which is
`MutexSpec`; the invariants of the mutex follow for the storage functions from the lemmas
of `RtMutexProofs`, without being proved again. `NoUseAfterFree` needs `BlocksApart`: a
block just allocated is known to its caller only, and `Para_Buff` points to a freed block
only between `rt_free` and the assignment of NULL, when the caller still has the mutex.
`NoDeadlock` follows from the same invariant: if nobody in a call could run, the owner of
a lock somebody waits for would wait for a later lock (`WaitsForLater`), and there are
three. `IdleIsLast` adds that the scheduler leaves nobody waiting who can run. The
assumption `MaxOps > 0` is there because a command of the shell begins with a file or page
operation.

The invariant of each proof is also checked by TLC in a run: `Inv` of each component, and
`MutexInv` as part of `Inv` of `Storage`. `WokenWithResult` and `CommandTakenOnce` are
conjuncts of `Inv`; `WaitsForWorker` is checked where the lock does not always exclude, in
`charge_control`.

Out of the prover's reach, and only model-checked: liveness under fairness
(`LockReleased`, `SendReturns`, `NewestIsHandled`, `HandshakeCompletes`,
`AloneIsTaken`, `ReportIsRelayed`, `AnswerIsPacked`, `FrameHandled`, `StartsAnew`,
`CallReturns`), results that need induction over data, anything with `ENABLED`. Of
`LockReleased`, `HandshakeCompletes`, `AnswerIsPacked` and `CallReturns` the safety half is
proved (`WaitsForWorker`, `AwaitedNotDropped`, `NoDeadlock`). All invariants and action
properties and the four refinements that the passing runs check are proved.

## 5. Not modelled

- Frame encoding and parsing of 698.45 and the security layer: tables of layouts.
- In `698.c`: reports of plans, states and faults, login and heart beat, and handlers
  that only read attributes. The bits of the plan answers are never cleared; nobody
  sets them at this commit. The default branch of `CtrlUnit_RecResp` returns with both
  flags set; no command sent at this commit reaches it.
- In `energycon.c`: power adjustment, whose event has no sender, and the time slots of
  a charging plan, whose variable nobody fills.
- In `chargepile.c`: measurements, the assembly of update packages (only the outcome
  "bad sum" matters to the states; the write to flash is commented out), and the
  shared print buffers.
- Strategy: the function with its state is not called at this commit.
- Meter, ESAM, Bluetooth, screen, analog and monitor: dialogues with chips and modules
  the repository does not describe, or pure output. See `components` in `PROJECT.json`.
- The kernel below the contracts of scheduler, semaphore, event and completion; of the
  mutex, waiting with a timeout, queues in order of priority and `rt_mutex_detach`,
  which nobody uses here. The recursive take and the release by a thread that is not
  the owner are in `RtMutex`, and in its proofs where `MutexSpec` allows them, but no
  caller of the storage functions does either.
- In the file system: DFS's `fslock` (`dfs.c:96`; `chdir` holds it across `opendir`,
  `dfs_posix.c:832`) and the pool semaphores of uffs (`uffs_pool.c`). `fslock` is taken
  outside uffs's mutexes and the pool semaphores innermost, so they follow the order of
  `Storage` and add no cycle; `NoDeadlock` and `CallReturns` do not speak of them.
- Serial: interrupt and polled mode, sending. CAN: `_can_int_tx_priv` (`privmode` is 0),
  FIFO1, `RT_CAN_USING_HDR`.
- energycon runs only if it is started from the console (`RT_ENERGYCON_AUTORUN` is
  not defined); the models include it.

The repository is a copy of RT-Thread with every board, package and vendor library, so
the modelled code is a small share of its lines. Most of the product's own code that is
not modelled is sequential packing, parsing and printing.

## 6. State of the plan

Done: event word and lock, CAN sending and receiving, charging protocol, the command path
and its answers, the frame receiver on its serial driver, the mutex and the storage
functions. Proved: every invariant and action property of the runs, and the refinements of
`EventWord`, `TxService`, `RxQueue` and `MutexSpec`.

Left: the liveness properties, which stay with TLC, and the parts of section 5.
