# A verification development for P42

P42 is a hobby kernel for x86_64 multiprocessors, written in C. This directory
holds TLA+ modules translated from its source, TLC configurations that check
them on small instances, and proofs that TLAPS checks for every instance.

The modules are translations of the code, including what looks odd in it. A
comment over a definition names the function it stands for; `PROJECT.json`
("map") gives the lines. A definition that begins with the name of another one
and an underscore (`Relock_TimeoutFirst`) is that definition with a plausible
bug in it. It belongs to no specification; it is there to confirm that the
property named for it would notice.

## 1. The system

Paths are relative to `src/`. The kernel has no documentation and no tests; the
comments in the code are the only statements of intent.

### Components

| Component | Code | State | Operations |
|---|---|---|---|
| Linked lists | `utils/linked_list.c` | head, tail, count; `next`, `prev` in each node | add_head/tail/after/before, remove, concat, get_first/last, traversal |
| Spinlocks | `kernel/spinlock.c` | one word; the interrupt flag of the CPU; a flag saved by each caller | lock, try_lock, unlock, and the `_int` variants that mask interrupts |
| Reader/writer spinlocks | `kernel/spinlock.c` | one word: `UINT32_MAX` free, 0 written, less by one per reader | read/write lock and unlock, with and without masking |
| Scheduler | `kernel/sched/*.c`, `kernel/thread.c` | units, one run queue per unit and policy, per thread flags, quantum, unit; preemption counter | unit init, start, sleep, wake, yield, tick, schedule, exit, (un)pin |
| Semaphores | `kernel/semaphore.c` | count, pend queue | acquire with timeout, release |
| Mutexes | `kernel/mutex.c` | owner, recursion level, pend queue | acquire with timeout, release (hand-over) |
| Interrupts | `kernel/isr.c`, `arch/x86_64/asm/interrupts.asm` | per vector list of service routines | install, uninstall, dispatch (reschedules at its end) |
| Timers | `kernel/timer.c` | active and pending queue, expiry times | enqueue, dequeue, callback, rearm |
| CPUs and IPIs | `kernel/cpu.c`, `arch/x86_64/src/cpu.c` | CPU list, call list with a pool of 64 nodes; start-up handshake | start of the application processors with a timeout, IPI calls |
| I/O entries | `kernel/io.c` | list of entries, reference counts | register, open, close, read, write, ioctl |
| Device manager | `kernel/devmgr.c` | tree of devices, list of drivers | add, remove, probe, init |
| Owners | `kernel/owner.c` | threads of an owner | register, remove |
| Page frames | `mm/pfmgr.c` | a bitmap per range of memory | alloc, free, with a fast path |
| Virtual memory | `mm/vm*.c` | free and allocated extents in pages of slots | alloc, map, change attributes, unmap, free; insert, extract, split, join |
| Page tables | `arch/x86_64/src/pgmgr.c` | four levels of tables | map, unmap, attributes, invalidate |
| Red-black tree | `utils/rb_tree.c` | a tree (no user yet) | insert, delete, find |
| Drivers, console, descriptor tables, ACPI | `arch/x86_64/src`, `acpica-unix2-20200326` | the hardware's | register access; vendored library |

### Interaction

Interrupts arrive on every CPU while its interrupt flag is set. The stub in
`interrupts.asm` calls `isr_dispatcher`, which runs the service routines of the
vector and then calls `schedule()` if the running thread is marked. The APIC
timer's routine runs `sched_tick` on every unit, and the system timer's routine
runs the timer queue, from which `sched_timer_wake_thread` wakes sleepers. A
thread that waits for a semaphore or a mutex puts itself on the pend queue,
unlocks, and calls `sched_sleep`, which clears `THREAD_READY`, arms a timer,
unlocks, and calls `schedule()`; releases call `sched_wake_thread`, which sets
`THREAD_READY` and puts the thread on the run queue of its unit, from whichever
CPU. Everything above is protected by spinlocks with masked interrupts, one per
object, and lists are intrusive: nothing checks that a node is on the list it
is removed from, or not yet on the one it is added to.

Processors talk to one another through `cpu_enqueue_call`: a node of the
target's pool goes on the target's list, and an inter-processor interrupt of the
scheduler's vector makes `cpu_process_call_list` run there, one routine of a
chain that drivers add to and remove from.

Memory comes in three layers. `vm.c` answers for ranges of pages: it takes an
extent out of the free list, with its split pieces and the slots the lists need
for them (`vm_space.c`, `vm_extent.c`), then has the page tables built and
filled (`pgmgr.c`). A walk over the tables is a callback of the page frame
manager (`pfmgr.c`), which looks frames up, hands the walk a run of them, marks
what was used, and comes back with more until the walk says that it is done. The
lists of extents lie in pages of the space they describe. All of `vm.c` runs
under the lock of the context, all of `pfmgr.c` under `pfmgr_lock`.

### What is hard here

Between the sections of one call come the steps of other CPUs and interrupts on
the same one. `PROJECT.json` ("hazards") lists each such place with its line. In
short:

- the window between *unlock* and *off the CPU* in `sched_sleep`,
  `sem_acquire` and `mtx_acquire`: wakes come too early;
- timeouts that race with releases; hand-over to a thread that is giving up;
- spinlocks shared with service routines: the order of saving, masking, taking;
- locks that are taken in opposite orders, and released the outer one first;
- the reader/writer lock's test and subtraction, which are two accesses;
- stale links of removed nodes, queues that are tangled by a second insertion;
- fairness of a round robin implemented with a head, a tail and re-insertion;
- timers that live in the stack frame of a sleeper that may leave first;
- a processor that answers after its start has been given up, and the boot
  processor's own signal in the word where answers are left;
- calls whose node is free again before it has been read;
- loops over bit maps and tables that skip by words and levels, are left in the
  middle and entered again, and are undone half way when memory runs out.

## 2. Modules

| Module | Models | State and actions |
|---|---|---|
| `LinkedList` | `linked_list.c` as operators on a heap of nodes and heads | pure; every access by pointer, stale links kept |
| `LinkedListOps` | the calls as steps | `heap`; `DoAddHead` ... `DoConcat` under the callers' obligations |
| `ListQueue` | what a list promises: sequences of nodes | abstract; `LinkedListOps` implements it |
| `Contexts` | threads and the service routines that interrupt them | `ifl` (interrupt flag), `inIsr`, and per context `pc`; extended by the two lock modules |
| `Spinlock` | plain spinlocks, single accesses, any order of taking and releasing | `word`, and per context `want`, `held`, `flag`; `Lock`, `TryLock`, `LockInt`, `TryLockInt`, `Mask`, `Acquire`, `TryFail`, `Unlock`, `Unmask` |
| `Sections` | the locked sections of scheduler, semaphores, mutexes and timers, on `Spinlock` | the functions are rows of a `Program`; per context `at`, `th`, `ob`, `own`; `phase` of a thread; `Take`, `Release`, `Check`, `MaskIfOwn`, `Restore`... |
| `RwSpinlock` | the reader/writer spinlock, single accesses | one counting word, `rwlock`, and the flags that threads saved, `saved` |
| `Sched` | units, run queues, starts, sleeps, ticks, timers, exits | the queues are `LinkedList` heaps |
| `Semaphore` | `semaphore.c` on top of `Sched` | `count`, `pendq`, and the waiter's way through `pc` |
| `Mutex` | `mutex.c` on top of `Sched` | `owner`, `rlevel`, `pend` (pointer level), likewise |
| `Timer` | `timer.c`, and the owners of timers | `active`, `pending`, the callback `isr`, `owner`; `TickBegin` ... `TickEnd`, `TimerEnqueue`, `Dequeue`... |
| `Isr` | `isr.c`: the service routines of a vector and those every vector ends with, with the words of their locks | `list`, `stale`, `word`, `disp` (each CPU's place), `irr`; `Install`, `Uninstall`, `WriteTake`, `WriteDrop`; `Interrupt`, `ReadSeen`, `ReadTake`, `Call`, `Return`, `ReadLeave`, `ReadDrop` |
| `Ipi` | `kernel/cpu.c`: calls between CPUs, on `Isr` | `api`, `avail`, `slots`, `content`; `Enqueue`, `Send`, `Get`, `Read`, `Make` |
| `ApStart` | start of the application processors | `issuer`, `cpu_on`, `ap`, `bspIdle`; `Begin`, `StartUp`, `Seen`, `TimeOut`, `Finish`, `EnterAp`, `SignalOn`, `BspSignalOn` |
| `Cpu` | `ApStart`, then `Ipi` among the processors that came up | composition of the two |
| `Frames` | what memory management promises: things given to one holder at a time | abstract; `Pfmgr` and `Vm` implement it |
| `Pfmgr` | `pfmgr.c`: bit maps, hint, counters, the passes of its loops | `bmp`, `avail`, `next`, `call`; `Search`, `LookFast` ... `MarkDone`, `FreeCall` ... `ClearDone` |
| `VmExtent` | extents and lists of them: places, splitting, joining | pure operators |
| `VmSpace` | `vm_space.c` and the growth of lists by slots, with its undo | pure operators on a space |
| `Vm` | `vm.c`: allocate, map, change, unmap, free | `space`, `grants`, `halted` |
| `Pgmgr` | `pgmgr.c`: the walk, its callbacks, and the walks a call of `vm.c` makes | `mem`, `busy`, `walk`, `call`; one action per pass of the loop |
| `...Proofs` | theorems about the module they are named after, `SpinlockProofs` also about `RwSpinlock`, `CpuProofs` also about `Timer` | |
| `MC...` | instances for TLC | |

*Contexts.* In the lock modules a CPU has two contexts, its thread and a service
routine that interrupts it, and each access to memory or to the interrupt flag
is a step. The callers of `Spinlock` are free: they take locks in any order, also
one that they hold, and release those that they hold in any order. That is enough
for exclusion and for nothing else; what depends on the callers is in `Sections`.
There each lock, release and look at the interrupt flag of the kernel's functions
is a row, with its line's order: `sched_start_thread` takes `th->lock` and then
`unit->lock`, `sched_wake_thread` takes `unit->lock`, then `th->lock`, and
releases the first one first, the callback of the timers wakes under
`active_lock` and goes into the other queue under it, and `sem_release` and
`mtx_release` wake under the lock of their object. A thread is woken only once it
has been put on a run queue, which is why the two orders of `th->lock` and
`unit->lock` do not meet. Left out are the locks of memory management, which
service routines do not take, the leaf locks `ipi_cb_lock` and `th_lst_lock`,
under which nothing is locked, and what `sched_main` leaves to the next thread
(`unit->lock` is released on the same CPU behind the switch; it is one section
here). The modules below take a section under a lock as one action. What
`sched_sleep` does between its sections stays visible: `SleepPrep`,
`SleepSchedule`, `SleepReturn`.

*Scheduler.* `Switch(u)` is `sched_main`: the thread that leaves is removed from
its queue and, if ready, added again at the head; the next one is taken from the
tail. Because `sched_wake_thread` and `put_prev` work on raw links, the queues
are kept at pointer level. The history variable `clean` says whether every wake
so far has found its thread off its run queue. When one has not, the thread is
linked twice and the lists are what the pointers make of them: nodes may then be
lost, and the only statements that can hold are those not qualified by `clean`.
An interrupt is two steps (`Tick` or `TimerIsr`, then `IsrEnd`, the end of
`isr_dispatcher`), so that the other CPUs run in between.

*Semaphore and mutex* `EXTEND` `Sched` and replace its sleeping thread by one
whose sleeps are the ones of `sem_acquire` and `mtx_acquire`, through the same
operators (`SleepPrep`, `Calls`, `SleepEnd`, `Wakes`). Their MC modules start
in `Booted`, the state after all units and threads have been started, which
`Sched` reaches in the instances used when `Main` sleeps once before it starts
the other threads (checked by asking TLC for the contrary).

*Timers.* `Sched` only says that a sleeper's timer expires later. `Timer` is the
other half: the two queues, the callback that walks one and then moves the other
into it, and the owners, whose stack frames the timers lie in. A queue is a set
here, as the order among the timers of one tick is left open. `missed` notes the
timers that the callback has moved while `timer_dequeue` was between the queues.

*Processors.* `Cpu` runs `ApStart` to its end and then the calls, as the kernel
does. In `Isr` the word of a list's lock is read and written as in `RwSpinlock`:
`isr_dispatcher` comes in by a load and a subtraction, and `isr_install` and
`isr_uninstall`, masked, by an exchange. A dispatcher reads the next routine
after the call has returned, through the link of a routine that may have been
removed meanwhile (`Follows`, `stale`); then it goes through the list of `eoi`.
`gone` are the routines whose memory is the caller's again. `api` says whether
the operations of the CPU driver have a `send_ipi`, without which
`cpu_enqueue_call` accepts a call and interrupts nobody (the driver in the tree
is registered without operations, `arch/x86_64/src/cpu.c:884`). The word
`cpu_on` is stored by every idle thread (`sched.c:860`), the boot processor's as
well (`BspSignalOn`). `Zero` is the number 0, which stands for nobody: a
processor with that number would be counted as soon as it is polled for, and the
properties of `ApStart` are about systems in which only the boot processor can
have it. Numbers are below 256, so that the one byte which `__atomic_clear`
stores clears the word. Nothing in the kernel calls `cpu_init_generic`, which
fills the pools, nor `cpu_enqueue_call`: the model takes the pools as filled.

*Memory.* Addresses and lengths are in frames or pages. In `Pfmgr` a call is
taken apart into the passes of its loops, because what one pass leaves the next
must be able to rely on; a mask of the fast path selects the positions that the
code's arithmetic selects, which is not shifted by the index in the word.
`avail_pf` is an unsigned word; only the early allocator subtracts from it
without a test, and is modelled with the wrap (`Wrap` is 2 to its width). In
`Vm` a call is one step and every page and frame it asks for may be refused.
`Pgmgr` takes such a call apart again, into walks and passes: the page frame
manager is there the choice of a free frame at each entry of a walk, from which
all free frames that follow it are handed over (`RunFrom`). Frames that are
handed out are `Dirty`, so that a table that is used before it is cleared shows;
the entry of a new table and its clearing are one step, as they are under the
lock of the context. A walk that releases and ends with nothing collected makes
`_pfmgr_free` look up the address 0 (`pfmgr.c:1236`): the model takes it that a
free range begins there, as it does on a PC. Left out are the branches on
`VM_LAZY`, those of the allocation for flags that no caller passes (contiguous,
highest, a preferred address), and in `Pfmgr` the errors of a callback
(`pfmgr.c:1083`, `pfmgr.c:502`): the callbacks that can fail are the walks, and
`Pgmgr` has what then happens to the frames (`Back`).

*History.* Several modules note with a Boolean that the code has done something
that its own later steps cannot bear: `clean` (an early wake), `missed`, `late`
(a start has timed out), `hit` (the boot processor's signal overwrote another),
`torn` (a writer between the two accesses of a dispatcher), `reused` and
`hidden` (calls), `astray` (`Pfmgr`: `avail_pf` has wrapped, or a lookup has
stepped too far), `mishap` (`VmSpace`), `unfit` (`Pgmgr`). Properties that are
lost with it name it; section 4 says what it is in the code.

Abstractions: priorities only as the quantum (`basic_select_thread` gives
`prio` ticks) and in the mutex's priority queue; the allocation of threads and
stacks, policies (there are two and their order is fixed), tracking lists and the
register switch are left out. `sched_wake_thread` under `sem->lock` is part of
the release that calls it. Attributes of pages are one bit, "writable".

## 3. Runs

Every run is exhaustive within its bounds.

| Run | Instance | Shows |
|---|---|---|
| `linked_list` | 2 lists, 3 nodes | any legal sequence of calls implements the sequences of `ListQueue`, read both ways |
| `spinlock` | `Sections`: 2 CPUs, a thread of each, 1 semaphore or mutex | nobody waits in a circle; no routine spins on a lock of the thread it interrupted; nothing runs unmasked under a lock, and interrupts come back as the thread had set them |
| `rw_spinlock` | 2 CPUs, 4 contexts | exclusion and an exact count until a reader subtracts from 0; a waiting reader sees the word leave 0 |
| `sched` | 2 units, 2 threads, 1 level of preemption lock | exact queues, a thread only on its unit, no sleeper without a timer |
| `semaphore` | 2 units, 3 threads, binary | conservation (hence exclusion), exact pend queue, no stranded waiter |
| `semaphore_live` | 1 unit, 2 threads, count up to 2, signalled, early wakes included | waiters are served; no started thread starves |
| `mutex` | 2 units, 3 threads, recursive, FIFO, without nesting | exclusion; the owner knows that it is, and wakes; exact pend queue, and nobody pends on a free mutex |
| `timer` | 2 sleepers, a poller on another CPU, a periodic timer; a second of 5, a tick of 3 | timers ring when they are due, once, and are in no queue when their owner has left, but for two races |
| `cpu` | a boot processor that wants 2 of 3 others, 2 start-up IPIs each; then a chain of 2 routines, one of them installed and removed, 1 `eoi` routine, 2 nodes, 3 calls | starts that do not time out are exact, and nobody is counted for another; accepted calls are made once, and in the end if their interrupt could be sent; a removed routine does not run until a list is torn |
| `pfmgr` | 3 ranges of 2, 11 and 3 frames, words of 4 | the bit map is exact, a failure means that nothing is left, what is found is free and no check of the code stops the processor, `Frames` is implemented |
| `vm` | 6 high pages, 3 low ones, slots for 2 extents, 2 grants | the lists tile the space and track themselves; pages present are those allocated; what is held can be given back; `Frames` |
| `pgmgr` | 4 levels of 2 entries, 6 frames, ranges within a table, across two, across all levels | no frame is lost or referred to twice, pages are backed, no empty table stays, releases work, calls end |

*Bounds.* Three nodes give a list a middle, two lists a place to move a node to.
Two CPUs with a thread and a routine each give every pair of contexts that can
meet, on one CPU and across. With two units every cross-CPU wake and start
occurs; with three threads two wait at once while a third releases.
`MaxPreempt`, `MaxNest`, `MaxCount` and `MAXV` bound counters; `CountMod` is the
width of a list's counter, larger than any list. A tick of 3 in a second of 5
never meets a second exactly, and the needs lie on both sides of one and include
one shorter than a tick. Two nodes for three calls empty the pool; `Senders` and
`Receivers` name the CPUs that call and change lists, and that are called (one
of each, so that a list is changed on one CPU while another walks it). Of three
processors in the table two are wanted, so that the search ends early or goes on
behind one that does not answer. The tree has `PLATFORM_AP_RETRIES` as 1; with 2
the second start-up IPI meets a processor that is on its way. `MAXV` exceeds the
number of CPUs. The ranges of `pfmgr` are one of low memory, which is passed
over, one that begins below the end of the ISA memory, holds the kernel's image
in the middle of a word and has its tracking data in the last word of its
frames, and a short one; `MaxNeed` of 3 is less than a word and more than some
ranges have left. `Wrap` of 32 exceeds every range. A slot that holds two
extents makes every second insertion grow its list, with the list that grows
described in itself. Two entries per table are the fewest with a first and a
last; the ranges make the walk go up one level, two, and all, and six frames run
out in every stage of a build. `MaxGrants` and `MaxLen` bound what is held;
three low pages can be mapped from the middle, which is where a list grows while
its left part waits.

`CONSTRAINT UpToEarlyWake` (runs `sched`, `semaphore`, `mutex`) does not go on
from a state after an early wake, as the number of tangled heaps is large and
the conclusions there are qualified by `clean`; the first such states are still
checked, and `semaphore_live` goes all the way. `CallsAfterStarts` (`cpu`)
follows calls where every start has succeeded, as `up` is all of the starts that
matters to them. `NotAstray` (`pfmgr`) and `NoMishap` (`vm`) do the same for
what `astray` and `mishap` note; in `pgmgr` no call begins once `unfit` is set.
`VIEW` (`SchedView`) leaves out links of threads that are on no queue: those are
written before they are read, so that states which differ in them behave alike;
no liveness run uses it.

*Deadlock* is checked except in four runs. In `rw_spinlock`, once the word has
wrapped, all contexts can indeed spin for ever. In `cpu` all calls are made in
the end and drivers need not act. In `vm` and `pgmgr` the code stops the
processor for good when an undo fails (`halted`, `UndoFails`).

*Fairness.* Timers tick and expire, handlers end, and a thread that is inside a
call makes its next step if it has the CPU again and again (strong fairness:
ticks come at a finite rate, and the code between two of them runs). A thread is
not obliged to call anything. No fairness is assumed for taking a test-and-set
lock, which goes to whoever's exchange comes first; for the reader/writer lock a
holder leaves and a routine returns. In `Timer` the device ticks and its service
routine goes on (weak fairness of `Callback`: it runs with the interrupts off).
In `Cpu` a sender, each processor's service routine and what runs with the
interrupts masked under the lock of a list go on; `CallsMade` supposes that
drivers do not change a list for ever, as writers would then keep a dispatcher
out. In `Pgmgr` a call goes on to its end, which it does under the lock of the
context, whoever waits for it.

*Mutants.* Each property of a run is paired with a mutated definition under
which TLC finds it violated in the same instance.

## 4. Where the code departs from what it says

The models contain the following behaviour, and the properties exclude it by
name: they hold up to it.

Threads and locks:

- `spinlock_read_lock`: the load and the subtraction are two accesses; a writer
  that comes between them is joined by the reader, and the word wraps
  (`ExclusionUnlessWrapped`). It can end at 0 with nobody inside.
- `spinlock_try_lock_int` enables the interrupts when it fails, whatever it found
  them to be (`TryFail`); it has no caller.
- `sem_acquire` and `mtx_acquire` unlock before they sleep: a release in between
  wakes a thread that is awake. The semaphore's wake is lost
  (`WokenWhenFree` is qualified by `clean`); the mutex's is found when the sleep
  ends. The same window queues a thread twice in `sched_sleep` itself.
- `mtx_release` gives a recursive mutex up before it looks at its level, so that
  the first release of a mutex acquired twice lets another thread in. That is
  why the mutex is checked and proved with `MaxNest = 0`.
- A thread marked `THREAD_DEAD` stays ready and is switched to again.
  `NEED_RESCHEDULE` is never cleared, so that after its first expiry the quantum
  has no effect. `linked_list_add_before` compares the wrong node and links only
  half of the pointers, so that a waiter inserted by priority cannot be reached
  from the head of the pend queue; the mutex run is FIFO. A thread that sleeps
  with preemption disabled comes back not ready and is lost at the next switch;
  `NoStarvation` therefore requires preemption to be enabled.

Timers and processors:

- `timer_dequeue` looks through the active queue, unlocks, and looks through the
  pending one. A tick in between moves the timer behind its back: the sleeper
  returns, and the timer in its stack frame stays queued (`missed`).
- `apic_timer_init` leaves as soon as its flag is set. On a CPU other than the
  one that runs the callback, its timer is still in the queue then (`Remote`).
- `timer_enqeue` has no caller; `sched_sleep`'s conversion from milliseconds
  (`sched.c:739`, nanoseconds as `delay % 1000000`) is not modelled: `Need` is
  what `timer_enqeue_static` is given. A timer armed for 0 is called a tick late.
- A processor that answers after its start has timed out runs on a stack and a
  trampoline that are being wiped for the next one, and is told apart from that
  only by its number (`late`).
- `cpu_process_call_list` returns a node to the pool before it reads it: a call
  that comes in between overwrites the one to make (`reused`). A routine ahead of
  it in the chain that returns 0 ends the walk, and the calls wait (`hidden`).
- A call is accepted whether or not the driver has a `send_ipi`, and the caller
  is told the same (`silent`): it then waits for another interrupt on the vector.
- The boot processor's idle thread stores over the answer of a processor that has
  not been polled yet (`hit`): the start then times out, though it came up.
- The lists of `isr.c` are under the reader/writer lock above: a writer that
  comes in between a dispatcher's two accesses changes the list beside it, and a
  routine may run after its removal has returned (`torn`).
- `isr_install` sets the flag `allocated` and then clears the whole structure, so
  that `isr_uninstall` never frees one. (The one caller of `isr_uninstall` is the
  probe of the keyboard controller, `i8042.c:105`.)

Memory:

- `pfmgr_lkup_bmp_for_free_pf` passes over a full item by a whole item's length
  from wherever it is in it, and with frames found before: what it returns may
  be busy, although the comment over it says that it "looks for free pages"
  (`pfmgr.c:551`), and marking it halts (`astray`). The masks of all three
  loops are not shifted by the index of the frame in its word; a marked head of
  the word saves them, which the proof makes exact.
- `avail_pf` counts the frames of the tracking data twice (`BitmapExact` states
  by how much it is short), and the last ones of a range are not handed out. The
  early allocator, which goes by the bits and not by the count (`pfmgr.c:509`),
  does hand them out, and `avail_pf` wraps; what it has handed out of that range
  does not come back, as `pfmgr_clear_bmp` finds nothing to be missing
  (`astray`).
  The early allocator ends as if satisfied when the first usable range is full.
- `vm_space_alloc` puts back the wrong extent when a list has grown between
  (`vm_space.c:224`); the undo refuses to join a split without a left part; and
  `vm_space_free` returns the undo's status, which is a success, though nothing
  was freed (`mishap`).
- `vm_alloc` halts, with the lock, when not a single page could be had;
  `vm_change_attr` tests the wrong way round (`vm.c:787`) and on some paths
  returns with the lock; `vm_unmap` of a range that cannot be freed does not end
  (`vm.c:872`); `vm_extent_merge` never reports success.
- A walk that releases tables and finds frames that do not adjoin is left and
  entered again. If that happens two levels up, it finds the table below already
  dropped and fails: the upper table stays, `vm_free` reports an error and an
  undo would halt (`unfit`). When an entry is absent while frames have been
  collected (`pgmgr.c:363`), the walk neither stops nor fails and goes on in
  the first frame of memory (`astray`), which the undo of a table build that
  did not begin at a table's first page does.

## 5. Proofs

TLAPS checks, for any values of the constants that satisfy the named `ASSUME`s
of the modules:

- `SpinlockProofs`: `TypeCorrect` and `Exclusion` (`MutualExclusion`) of
  `Spinlock`, for callers that do what they like, tries included: the exclusion
  is inductive beside the types, and `Sections` implements `Spinlock`
  (`SectionsKept`). No run checks it.

  Of `Sections`, `SelfDeadlockFree` (`NoSelfDeadlock`), `InterruptsKept`
  (`InterruptsRestored`) and `DeadlockFree` (`NoDeadlock`), for any number of
  CPUs, threads and objects. The invariant is `IInv`. It says what a context holds
  before each line (`In`, `Last`: the lock that was taken last), and which lock's
  flag keeps the interrupts of the section (`Class`): it is one only, it was taken
  first and is released last, and so all other releases leave the interrupts
  alone, in whatever order they come (`ThreadFlags`, `ServiceFlags`). `Rows`
  checks each line of the `Program` against these three; the steps are then proved
  of any row that passes. From it, who holds or spins is masked (`Masked`). For
  the circles, each lock has a `Level`, and what is spun on is of a higher level
  than all that is held (`SpinsUpwards`): the lock of a thread is below the locks
  of units until the thread is on a queue and above them from then on, and
  nobody spins across that moment, as it comes under both of them and a thread
  has one starter (`OneStarter`).

  For the reader/writer lock: `RwTypeCorrect`, `RwExclusion`
  (`ExclusionUnlessWrapped`), `RwCountsExactly` (`WordCounts`). Exclusion and count are inductive only
  together (`Counted`): a writer gets in where the word is `MAXV`, which says
  that nobody is inside, as long as no reader has subtracted from 0. The word
  stays in range because `MAXV` exceeds the number of contexts.
- `SchedProofs`: `TypeCorrect`, `RunsAtHome` (`OwnUnit`), `SleepersWake`
  (`SleepersHaveTimers`) and `QueuesExact` (`QueueExact`). That a thread runs
  on one unit only is not inductive: it follows from where *nodes* are. The
  invariant `HomeInv` says that every pointer that starts at the queue of `u`,
  or at a thread pinned to `u`, is `NULL` or leads to a thread pinned to `u`
  (`AtHome`); besides, handlers only run on units that schedule, and timers only
  belong to threads that are pinned. It holds whatever early wakes have done to
  the order and the multiplicity of nodes, as every operation of
  `linked_list.c` only copies pointers among nodes of the same queue. `LeastNat`
  (a nonempty set of naturals has a least element) is proved from the library's
  theorem on well-founded orderings, and gives that the least used unit exists.

  `QueuesExact` needs a theory of pointer lists, which the semaphore and the
  mutex use too. `Holds(h, l, q)` says that the list `l` of the heap is the
  sequence `q`: the first and the last node, each link to the next and back, the
  ends, the count. Adding a node at the head or the tail, and removing one that
  is on the list, take one such sequence to another and leave the other lists
  alone. `Forward`, with which the property reads the list, is a recursive
  function; that it returns `q` comes from its unrolling along `q` by the
  induction that `LeastNat` gives. `QueueInv` adds to the exact queues that
  a thread has its unit and can only be asleep after its start, and that it has
  one starter. The number of threads has to be below the width of the counter
  (`Cardinality(Threads) < CountMod`), or a full list would count as empty.
- `SemaphoreProofs`: `CountCorrect` (the count within its bounds),
  `WaitersPended` (`PendqExact`), `UnitsConserved` (`Conservation`) and
  `FirstWaiterWakes` (`WokenWhenFree`). `PendInv` adds that a thread that is
  being started is in no wait, and is started by one unit only: otherwise the
  end of its start would take a waiter out of its wait. `AppendNew` and
  `WithoutOne` say what appending and removing do to a sequence without
  repetition. Conservation counts the set of the units that threads have,
  `Taken`: an acquire adds one element to it and a release takes one away, so
  that no sum is needed.

  That nobody is stranded is not inductive, and what is says more than one would
  look for (`HeadAwake`): while every wake finds its thread asleep, *a free
  semaphore with waiters has exactly one free unit, and its first waiter is
  ready*. A second unit would have come from a release that wakes the same first
  waiter again, which is then awake: an early wake. It also takes that who has
  passed its `schedule()` and runs is ready (`AwakeInv`), that nobody disables
  preemption in these modules, and the exact run queues of `QueueInv`, as a
  thread that is not on its queue when it is woken is the one that sleeps.
- `MutexProofs`: `ExclusionHolds` (`Exclusion`), `PendqIsExact` (`PendqExact`)
  and `OwnersKnow` (`OwnerKnows`), for `MaxNest = 0`. `HeldInv`
  adds that a waiter holds nothing, and nobody more than one acquire. The proof
  of exclusion does not depend on whom a release hands the mutex to, and so
  covers mutexes by priority and tangled queues. The other two are about the
  queue: `Pended` (a well formed list of exactly the waiters, none of a free
  mutex), `Level` (the recursion level counts the owner's acquires) and `Handed`
  (who was handed the mutex is in its wait, and ready while wakes find threads
  asleep). They assume `ComesLast`, that waiters are queued as they come: the
  mutex is FIFO or no thread has priority over another. Without it the code's
  `linked_list_add_before` loses waiters (section 4), and the theorems would be
  false; likewise with `MaxNest > 0`, where a release half gives up.
- `CpuProofs`: `OneStarts` (`StackToItself`) and `Counts` (`CountedExact`), of
  `ApStart` by itself, which `Cpu` implements (`CpuStarts`); `RemovedIsOut`
  (`RunsOnlyInstalled`) and `CallsAreKept` (`CallsKept`). The first two follow
  from what `cpu_on` says of the boot processor's place (`ApInv`): what is in it
  is 0, the boot processor, or one whose idle thread runs. For the third,
  `IsrInv` says that as long as no list is torn the word of its lock is `MAXV`
  less the dispatchers that are inside, or 0 under one writer and with none of
  them (`CountOK`); so a list changes only while nobody walks it, all that a
  dispatcher has before it is in the list (`InList`), and what is gone is in none
  (`ListedInv`). For the last one, the free and the filled nodes of a
  processor are one sequence without repetition that has all nodes (`Pool`):
  each operation moves one node from one part to the other. `Kept` then says
  where a call is: in one node of the target's list, or in one that is off the
  list and not read yet, or in the hands of `cpu_process_call_list`, or made;
  and that no other processor has it. It is lost when a node is filled again
  before it was read (`reused`), and so are all statements about calls.

  For the timers: `TimersTypeCorrect` (the nanoseconds stay below a second),
  `OwnedQueues` (`QueuedTimersOwned`) and `Punctual` (`OnTime`). The first
  invariant says where the timer of each owner can be at each place of
  `timer_dequeue`, and that what the callback has yet to visit is in the active
  queue. The second one relates a timer's cursor to the ticks it has seen:
  cursor = age times tick, one more for the timers the callback has visited. It
  needs that no timer is armed for nothing (`NeedsTime`).
- `PfmgrProofs`: `BitsAreExact` (`BitmapExact`), `FailsWhenEmpty`
  (`FailsOnlyWhenEmpty`), `LooksUpFree` (`MarksWhatItHandsOut`) and
  `HandsOutOnce` (`ImplementsFrames`), for every layout of ranges and size of
  item. The core is
  an argument about the masks that are not shifted: *behind busy frames the
  first frame of the word is busy* (`HeadBusy`, `BehindMarked`), as no frame
  below the hint is free and the ISA memory ends where a word begins; an
  unshifted mask then always hits a marked frame and sends the code to its slow
  path, which is right, and a mask is trusted only at the beginning of a word,
  where it needs no shift. `PInv` carries this through lookup (nothing free
  before the run found: `LookInv`), marking (`MarkInv`), clearing (`ClearInv`) and
  the hint (`HintInv`). With `MarkedInv`, what callers hold is marked, every step
  is then a step of `Frames` or none.

  `EInv` makes the bit map exact. Outside of the run that a call is marking or
  clearing, a bit is set exactly for the image, the tracking data and what
  callers hold (`SetInv`); `avail_pf` and the tracking data together count the
  clear bits, each pass moving both by the same number of frames (`CountInv`,
  with `FreeSize` and `RunSize` on the sizes of the sets); the ranges a search
  has left behind have nothing that may be handed out (`SearchInv`); and hints
  are in range (`HintInRange`), which holds because the first frame behind a
  range's frames is marked and no run goes over a marked frame. It holds for as
  long as `astray` is false.
- `PgmgrProofs`: `FramesAreExact` (`FramesExact`), `PagesAreBacked` (`Backed`),
  `NoTableIsEmpty` (`NoEmptyTable`) and `ReleasesWork` (`ReleaseWorks`): all that
  the run checks of `Pgmgr` but `Ends`, for any number of levels, of entries per
  table and of frames, and for any ranges.

  The walk reads and writes single entries, at the place that the windows of its
  levels show it; the properties speak of all entries at once. Between them is
  `Found`, which says of each level and page what a processor finds there. It is
  a recursive function of the memory, which has a value for every memory and
  only one (`FoundExists`, `FoundOnce`, by `LeastNat` downward from the root).
  `Tree(Found)` says that pages of one block have what is above them in common
  and that no frame is found at two places. Because of it a change of one entry
  changes `Found` at the pages of one block and nowhere else (`Changed`,
  `SetEntry`): no other table is in the frame that is written to. There are
  three such changes: a table is added, which is clear; a page is; an entry of a
  page or of an empty table is cleared (`TableAdded`, `PageAdded`,
  `EntryCleared`), and `TreeChanged` and `RefChanged` say what they do to the
  tree and to the frames that are referred to.

  The invariant, `IInv`, then has for the walk: which one of its call it is
  (`Phased`), that it is on a boundary of its range (`Bounds`), and that its
  windows show what is found above the next page, from its level up (`Placed`);
  for the frames, that those it has been given are not marked (`Supplied`) and
  that marked and referred to are the same but for those it has used or
  collected (`Owned`). For the ranges: they have no page in common (`Apart`),
  what is held is there with its attributes and nothing is elsewhere (`Held`,
  `ReadOnly`), and in the range of the call the pages behind the walk are done
  and those before it are not (`Changing`). The last three are about tables, and
  none of them would be inductive by itself. `Covered`: the tables that a later
  walk of the call needs are there, as the walk that built them passed them all,
  and as a walk that drops tables only drops behind it. `Tidy`: a table has an
  entry unless it is above pages that the call has yet to fill, or the walk has
  still to come by (`Excused`); when it leaves a table upward, or at its end,
  the table is either empty, and dropped, or has an entry that stays. `Sound`: so
  no release misses a table. The arithmetic under it is that of blocks
  (`Coarser`, `NextIndex`, `InBlock`): where the index of the next address in a
  table is larger, the address is still in the block of that table, and in the
  lowest table only there, which is what the code's comparisons of indices rely
  on (`pgmgr.c:817`, `pgmgr.c:874`).

  For `FramesExact`, `OneEntry` turns the count of the entries that refer to a
  frame into 0 or 1: the tables that entries lead to from the root are those
  that are found above some page (`TablesAreFound`), and an entry is told by the
  block of the pages behind it.

- `VmProofs`: `PagesTile` (`Tiling`), `TrackersAreTracked` (`TrackersTracked`),
  `PagesAgree` (`PagesExact`), `GrantsInOne` (`HeldInOne`) and
  `SpaceImplementsFrames` (`ImplementsFrames`): all that the run checks of `Vm`,
  for regions, headers and requests of any size. One invariant, `IInv`, holds
  between operations and has them all as consequences:

  - `State`: no two places of a list share a page, every extent is sound (not
    empty, of one region, within it), no header is over its size (`Listed`); the
    pages of the free and of the allocated list are apart and together all
    pages, and free extents carry their region and nothing else (`Tiled`);
  - `Tidy`: every page that is noted as locked is present and writable
    (`Pinned`), and the headers of both lists are among them;
  - `Exact`: the page table has the attributes of the allocated extents, and
    nothing elsewhere;
  - `Grants`, `Holding`: no two grants have a page in common (`Sep`), their pages
    are noted and not locked, and a grant that nobody changed lies in one
    extent; what `vm_map` gave is never changed, so `vm_unmap` never stops.

  Where a caller has halted with the lock (`halted`), `Exact` and the last part
  of `Holding` are given up, as the code leaves them; the rest stays in force.

  The code leaves none of this in force while it works, so what the lemmas about
  the lists say is `Tiled(f, a, M)`, the same with the pages of `M` missing from
  both: `ExtractList` adds the pages of an extent to `M`, `InsertList` with
  `MergeList` takes them from it, and an operation is a path from `M = {}` back
  to it. Beside the path, three relations between the spaces before and after a
  step carry all that it must not disturb. `Keeps`: every allocated extent is
  within one that is like it (so joining is harmless only between extents that
  are alike, which is where the mutant `CanJoin_AnyFlags` breaks `HeldInOne`).
  `Carried`: the same for every interval of it outside of what is freed, as a
  free may split an extent. `Grown`: there is no new noted page, header or entry
  of the page table except those that were asked for and those of slots, which
  are pinned from the moment they exist. They compose (`KeepsTrans`,
  `GrownTrans`), and `MovesTidy`, `MovesExact` and `MovesHolding` draw the parts
  of `IInv` from them; an operation then only has to account for the range it
  was asked for (`Given`, `Denied`, `Taken`, `Spared`).

  Two things stand in the way of that. A list that is full takes a page for a
  new header out of the very free list that the operation is in the middle of
  changing (`Tracking`, `Slotting`), and the lemma has to say that this takes
  one page of the high region only, that it is noted and present, and that every
  other extent is still there, perhaps as part of a larger one. And an undo
  looks for the parts it inserted, which may have been joined with their
  neighbours since: `UndoBack` shows that it finds them, that what it puts
  together covers them exactly, and that the list it goes back to has the room.
  The allocation that `vm_change_attr` makes of a range it has just freed can be
  refused as well, and that is undone where the allocated list has room or
  something beside the range is in use (`Safe`), which `FreeState` shows of
  every range it gives back. An operation that hits one of the errors of
  section 4 raises `mishap`, and the theorems say nothing beyond it. A slot has
  room for two entries (`SlotAssumption`), as a page has for many: the two
  regions in the first free one, a slot's own page and another entry in an
  allocated one.

  For the refinement, `HeldOnce` turns the count of a page's holders into 0 or 1
  because of `Sep`, `CallChanges` says that a call adds one grant, takes one
  back, or leaves the pages that are held, and `CallPromised` that these are
  `Take`, `Give` and a stutter of `Frames`.

The assumptions are the named `ASSUME`s of the modules: finite sets; units,
threads and `NULL` distinct; `None` neither a call nor a processor; fewer
threads than a list can count; ranges that do not overlap, have tracking data
and more frames than it (`RangeAssumption`), hold the image besides it
(`RoomAssumption`; otherwise `pfmgr_early_mark_bitmap` runs out of `avail_pf`),
and are smaller than what their counters can express (`WrapAssumption`); ISA
memory that ends on a word; three levels of tables or more, of two entries or
more, with a root that is not one of the frames handed out, and ranges within
the pages of the tables (`PgmgrAssumption`; the code has four levels of 512); a
high and a low region that are intervals and do not meet (`PageAssumption`), and
slots for at least two entries. TLC evaluates them in the runs. The proofs start
from `SchedInit`, `Init`, not from `Booted`. `TypeCorrect` is proved where the
run does not check the types.

Only model-checked:

- liveness under fairness (`NoStarvation`, `WaitersServed`, `WritersLeave`,
  `Rings`, `CallsMade`, `Ends`), which is out of the prover's reach, as is
  `ENABLED`;
- the refinement of `ListQueue` by `LinkedListOps`: what a walk along the links
  of a list computes (`Walk`) takes an induction for every operation.

## 6. What is left

Further work, in order of importance:

1. *`Vm` over `Pgmgr`.* The extents of `vm.c` and the entries of the tables are
   each exact by themselves (`PagesExact`, `FramesExact`); a composition of the
   two would show that the pages `Vm` notes as present are those that `Backed`
   finds.
2. *`Devmgr`.* `dev_drv_add` and `dev_add` look for each other's entries and
   insert their own in separate sections, so that a device and its driver added
   at once may miss each other. All of it happens at boot, or from a processor
   as it starts; nothing is removed.
3. *The invalidation of translations* between `Pgmgr` and `Ipi`: `vm_free` gives
   frames back before the other processors have dropped their translations, and
   `pgmgr_invalidate` does not wait for them.

Not modelled: the I/O entries (a list that is filled at boot and looked up;
`close`, which nothing calls, adds the descriptor to the list it should leave),
owners (lists that are only appended to), the red-black tree (no user),
register-level drivers (APIC, PIC, PIT, VGA, serial, keyboard, PCI), descriptor
tables, the third-party heap allocator, and ACPICA with its glue, which are
input and output or somebody else's code, and which are 96 % of the lines of the
repository; `kmain.c`, a demonstration that shows how semaphores are used.
