# A TLA+ development of ossim

ossim simulates an operating system: a few CPU threads run small programs
under a multi-level priority scheduler, with paged memory shared between the
processes and a clock that keeps all threads in step. The modules here model
the simulator's own logic: the clock (`timer.c`), the ready queue (`sched.c`,
`queue.c`), the threads (`os.c`, `cpu.c`), the address space of a process
(`libmem.c`, `mm-vm.c`), the frames the processes share (`mm.c`,
`mm-memphy.c`, `libmem.c`) and killall (`sys_killall.c`). Paths are relative to
the repository; the program's sources are in `src/` of the repository, e.g.
`src/os.c`.

## 1. Inventory

| component | state | operations | talks to |
|---|---|---|---|
| Timer (`timer.c`) | `_time`, `timer_stop`, `timer_started`; per device `done`, `fsh`, two mutexes, two condition variables | `attach_event`, `start_timer`, `next_slot`, `detach_event`, `current_time`, `stop_timer`; thread `timer_routine` | every CPU and the loader is a device |
| Ready queue (`sched.c`, `queue.c`) | `mlq_ready_queue[]`, `slot[]`, `running_list`, mutex `queue_lock` | `add_proc`, `put_proc`, `get_proc`, `get_slot`, `update_slot`; `enqueue`, `dequeue` | CPUs, loader, killall |
| CPU threads (`os.c`, `cpu.c`) | `proc`, `time_left`, `use_time`, `remaining_slot` of each CPU; `pc` of each process | `cpu_routine`, `run` | timer, ready queue, memory, system calls |
| Loader and main (`os.c`) | `i`, `done` | `ld_routine`, `main`: start, join, `stop_timer` | timer, ready queue |
| Region allocator (`libmem.c`, `mm-vm.c`) | per process `symrgtbl[]`, `vm_freerg_list`, `sbrk`, `vm_end`; global `mmvm_lock` | `__alloc`, `__free`, `get_free_vmrg_area`, `inc_vma_limit`, `validate_overlap_vm_area` | paging, through system call 17 |
| Paging (`mm.c`, `libmem.c`) | per process `pgd[]`, `fifo_pgn` | `vm_map_ram`, `alloc_pages_range`, `vmap_page_range`, `pg_getpage`, `pg_getval`, `pg_setval`, `find_victim_page` | physical memory |
| Physical memory (`mm-memphy.c`) | per device `storage`, `free_fp_list` | `MEMPHY_get_freefp`, `MEMPHY_read/write`, `__swap_cp_page` | shared by all processes |
| System calls (`syscall.c`, `libstd.c`, `sys_mem.c`) | none | dispatch on a number; 17 is memory, 101 is killall, 0 lists | CPUs, memory |
| killall (`sys_killall.c`) | the scheduler's; its locals `proc`, `tmp_queue` | empties and refills each ready queue, then `running_list`; frees processes | ready queue, without its lock |
| Program loader (`loader.c`), configuration (`read_config`) | a fresh pcb; globals | parsing, before anything is shared | loader |

What makes the program hard to test is that almost everything happens between
threads. Every device thread and the timer meet twice per slot over two
condition variables whose flag `done` is written under two different mutexes.
The CPUs share the ready queue under a lock, but the slot budgets `slot[]` are
read and written outside of it (`update_slot`, `get_slot`), and a CPU keeps
using a process after it has put it back. Memory operations take `mmvm_lock`
except `__read`, whose page fault changes the same lists. An allocation may
fail after it has taken frames and evicted pages. killall, which a process
calls, takes the ready queues apart without their lock and frees processes that
are still listed elsewhere. `PROJECT.json` lists these hazards, each at its line
and with the properties that guard it.

What makes each component correct:

- Timer: no lost wake-up, one slot for everyone, the timer outlives its
  devices, everyone terminates. In short: it is a barrier.
- Ready queue and threads: a process is in one place at a time, none is lost,
  none is used after `free`, `get_proc` returns NULL only when nothing is
  ready, everything that was loaded runs to its end, all threads stop.
- Slot policy: a priority gets `MAX_PRIO - prio` slots a round, a dispatch gets
  no more than that, higher priorities go first, nobody gets a second round
  before the others had theirs.
- Region allocator: live regions and free regions never overlap, and no byte is
  handed out twice (the second is not quite so, section 5).
- Paging: a frame has one owner or is free, in RAM and in swap; the FIFO lists
  what can be evicted; a page that was written can be read back. In short: a
  process has private memory.
- killall: the processes of a name are gone, no other process is lost or
  reordered, and nothing is freed twice (the last is not so, section 5).

## 2. Modules

| module | models | state | proofs |
|---|---|---|---|
| `SlotClock` | what timer.c promises: an abstract barrier | `time`, `arrived`, `left` | - |
| `Timer` | timer.c, threads and condition variables | `time`, `done`, `fsh`, `dev`, `tm`, `cur`, `nfsh`, `nevent`, `timerStop` | `Timer_proofs` |
| `Mlq` | sched.c and queue.c | `queue`, `slot`, `runningList`, `scan` | `Os_proofs` |
| `Os` | os.c and cpu.c over `Mlq` and `SlotClock` | per CPU `pc`, `proc`, `timeLeft`, `useTime`, `remaining`, `loaded`; `insn`, `freed`, `loading`, `ldpc`, `done` | `Os_proofs`, `OsSlot_proofs` |
| `Region` | regions of one process | `freeList`, `sym`, `sbrk`, `asked` | `Region_proofs` |
| `PageStore` | what paging promises programs: private pages | `mem`, `answer` | - |
| `Paging` | frames, page tables, faults of all processes | `ramFree`, `swpFree`, `ram`, `swp`, `pgd`, `fifo`, `vmEnd`; `allocating`, `job`, `grab` (locals) and the history `want`, `seen` | `Paging_proofs`, `PagingFault_proofs` |
| `KillAll` | sys_killall.c over `Os` | that of `Os`, `kill` (locals), `crashed` | `KillAll_proofs` |

`MCTimer`, `MCOs`, `MCRegion`, `MCPaging` and `MCKillAll` give the constants
values. `OsSlot_proofs` continues `Os_proofs` for a single CPU, `KillAll_proofs`
continues both for a killall, and `PagingFault_proofs` continues `Paging_proofs`
for faults.
A definition whose comment begins with `mutant` is a plausible wrong version
of the definition after it. It is used by no specification: put in the place of
the right one, it makes one of the properties fail, which shows that the
property can fail. `PROJECT.json` pairs them.

### Timer and SlotClock

Each action of `Timer` is one critical section, or one wake-up, of
`timer_routine`, `next_slot`, `detach_event` or `stop_timer`. `dev[d]` is where
a device thread is: `work` between two calls, `posted` after it has set `done`
and signalled, `asleep` inside `pthread_cond_wait`, `gone` after
`detach_event`. `tm` and `cur` are the position of the timer in its two loops
over the device list, `nfsh` and `nevent` its counters. A signal moves a
sleeping thread to before its test; `SpuriousTimer` and `SpuriousDevice` let
`pthread_cond_wait` return without one. `Post` sets `done` under `event_lock`,
`Release` clears it under `timer_lock`, as the code does. `MaxSlots` bounds the
clock: in the last slot a device can only detach.

`SlotClock` has three actions. `Arrive` is `next_slot` up to its wait, `Leave`
is `detach_event`, `Tick` is the increment of `_time` by which every device is
released at once. `Timer!Clock` maps the one to the other: a device has arrived
as long as its `done` is set and the timer has not yet come to it in its second
loop.

### Mlq and Os

`Mlq` holds the data structures and the action fragments, `Os` the threads
that perform them. `pc[c]` names the points at which another thread can
interfere with `cpu_routine`: between `put_proc`'s two critical sections
(`put`), after it (`charge`), between the load and the store of
`slot[prio] -= used` (`fin`, `store`), between two iterations of
`get_mlq_proc`'s loop (`locked`, which holds the lock: `LockFreeFor`), before
and after `get_slot` (`got`, `run`). The rest of a turn is thread-local and
belongs to the action next to it. The slot clock is `SlotClock`, which
`Timer` implements. An instruction is one step of its process's program
counter; what it does to memory is in the next two modules. The loader is
`LoaderWait` (the process's start time has not come), `LoaderEnlist` and
`LoaderAdd` (`add_proc`'s two critical sections), `LoaderDone`. `proc[c]` is
kept after `put_proc` and `free`, as the C pointer is.

### Region

One process, byte addresses. `AllocFree` is `__alloc` when
`get_free_vmrg_area` succeeds, `AllocBrk` when it does not, `Free` is
`__free`. `rg_end` is the last byte in regions cut from the free list and the
byte after the last one in regions made at the break; both are computed as the
code does, so nothing is repaired on the way. `Overlaps` is
`validate_overlap_vm_area` with its cast to `int` (`ToInt`); `IntHalf` stands
for 2^31. `asked` is history: what the program asked for.

### Paging and PageStore

A page holds one value. `__alloc` holds `mmvm_lock` from `AllocStart`
(`inc_vma_limit` moves the break and the end of the area) to `AllocMap`
(`vmap_page_range`, which gets the frames in the opposite order) or
`AllocFail`. In between each iteration of `alloc_pages_range` is a step:
`AllocFree` takes a free frame, `AllocEvict` moves the oldest page of the same
process to a swap device and takes its frame. `allocating` is who holds the
lock (a set of at most one), `job` the locals. Writes take the lock, reads do
not, so reads of other processes happen between these steps. A page table
entry is its PRESENT and SWAPPED flags and the bits that the frame number and
the swap type and offset share. `Write` and `Read` are accesses to a page that
counts as present, `WriteFault` is the fault path under `mmvm_lock`, and
`ReadGrab`/`ReadSwap` the same path taken without it. `want` and `seen` are
history: what was last written to a page, and what the last read returned.

Neither `__read` nor `__write` checks a bound, so a program may touch any page
at any time, as `write 1 2 1000` in `input/proc/m0s` does beyond its area.
`Workload` states what programs make of that:

- `online`: only pages that are in RAM;
- `valid`: any page of the area, also when it was swapped out;
- `apart`: any page at all, once the process has a page to replace, but no
  allocation grows over a page that was touched beyond the area (`Overlays`);
- `stray`: the same without that restriction;
- `any`: any page at any time.

`Overlays` is a guard that the code does not have. Programs that stay `online`
never meet it, those `apart` are assumed to respect it; `stray` and `any` drop
it, and finding 6 is what happens then.

`PageStore` is what a program may rely on: pages of its own and reads that
return what it wrote. `Paging!Store` maps the one to the other: the value of a
page is what its entry points to, in RAM or in swap, if it was ever written.
Allocation, eviction and failure are then steps that change nothing.

### KillAll

The threads of `Os`, and a process that makes system call 101 at a given
instruction, once. `KillBegin` is the turn up to the call, `KillEnd` the rest
of it; in between each access of `sys_killall.c` to a ready queue or to
`running_list` is an action, because it holds no lock: test for emptiness
(`KillSkip`, `KillLeave`), the load of the head (`KillFetch`), the shift with
the decision to keep or to free (`KillTake`), the store of the local queue over
the shared one (`KillStore`). `kill.prio` counts the queues, `MaxPrio` standing
for `running_list`. The name of a freed process is whatever the memory now
holds (`Matches`); a second `free` of a process, or a `dequeue` that shifts an
empty queue, ends in `crashed`, after which nothing is said. Names are
sequences of parts so that `Loaded` can cut them as `load()` does, whose
`snprintf` is told twice the size of a pointer.

## 3. What is checked

All runs use `tlc -config X.cfg M`.

| run | configuration | what it shows |
|---|---|---|
| `timer` | 3 devices, clock to 2 | No wake-up is lost, the slot number never moves under a working device, the timer ends last, everything terminates, and timer.c implements `SlotClock` |
| `os_two_cpus` | 2 CPUs, the loader, 3 processes on 2 priorities, time slice 2 | No process is lost, doubled, used after free or left unfinished; `get_proc` never returns NULL while something is ready; all threads stop |
| `os_one_cpu` | `MCKillAll`: 1 CPU, 6 processes on 3 priorities with 3, 2 and 1 slots, one of which calls killall | The slot policy: budgets are kept, higher priorities go first, a refill waits for every waiting priority to have used its share; and killall frees the waiting processes of its name, keeps all others in their order, and the system still ends |
| `slice_two_cpus` | 2 CPUs on one slot of one priority | Violation of `WithinSlice`, finding 1 |
| `region` | 2 symbols, sizes 1, 3, 5, pages of 4 bytes, two pages | Regions and free regions are disjoint when read as `start .. end - 1`; the bytes programs asked for overlap at most in the last byte of a region cut from the free list |
| `region_wrap` | sizes 2 and 8, `int` of 6 bits | Violation of `Disjoint`, finding 2 |
| `paging_swap` | 2 processes of up to 4 pages, 3 frames of RAM, two swap devices of 1 frame, `online` | Eviction, also to the second device and also when an allocation fails half-way, never shares a frame or loses data; frames suffice while the areas fit in RAM; and `Paging` implements `PageStore` |
| `paging_stray` | 1 process, 4 pages of which its area may cover 3, 2 frames of RAM, a swap frame for each page, `apart` | A page fault, in the area or beyond it, keeps the owners of frames and swap frames and the FIFO consistent, and allocations after it do |
| `paging_race` | 2 processes that fault, `apart` | Violation of `SwapExclusive`, finding 3 |
| `paging_lost` | 2 processes, 2 frames of RAM, `valid` | Violation of `ReadYourWrites`, finding 4 |
| `paging_overlay` | 1 process, `stray` | Violation of `VictimOnline`, finding 6 |
| `kill_race` | `MCKillAll`: 1 CPU and the loader, killall while processes are still loaded | Violation of `SurvivorsKept`, finding 5 |

Bounds, and why they suffice:

- Timer: with three devices one is before, one at and one after any position of
  the timer in its list, and any subset can have detached. After slot 2 a
  device has met the barrier from both a fresh and a reused state. The proofs
  cover every number of devices and slots.
- Os: two CPUs are what the races on `slot[]` and on a process after
  `put_proc` take; three processes on two priorities give a queue with two
  waiting processes, a queue that runs empty, an arrival and a slot in which
  the loader has nothing to load. `QueueCap` is the most processes of one
  priority, so a queue gets full and never overflows (see section 6). The
  run with one CPU has six processes, one of them short, and a high priority
  that arrives while a lower one has slots left.
- Region: the sizes are below, just below and above one page, so that regions
  are cut from a free region, used up exactly and made at the break.
- Paging: three frames and up to eight pages make every allocation path happen:
  free frame, eviction to either device, no victim, no swap frame, each also
  after some frames were already obtained. Areas of three pages in all fit in
  RAM exactly, which is the boundary of `NoPhantom`. The faults in swapped pages
  break reads and writes so thoroughly (finding 4) that the other properties
  are only meaningful on the smaller workloads; each run's configuration says
  which. In `paging_stray` an absent page of the area (its allocation failed)
  and a page beyond it are both touched, and the area can still grow up to them.
- KillAll: six processes give a queue with three waiting processes, of which
  one goes and two stay, one that finished before the call and has the name,
  and a queue of each priority below and above the caller's. The call is made
  when all processes are loaded, so that with one CPU nothing else runs
  meanwhile; `kill_race` drops just that. `NameKept` = 3 cuts one of the
  names, as 16 cuts paths in the code, to one that still differs from what
  killall looks for; where it does not, `SurvivorsKept` fails (section 6).

`CHECK_DEADLOCK FALSE` is used in `region` and `paging_swap` only: there a
program may be left with no operation inside the bounds. The runs of `MCPaging`
use symmetry over processes; they check no liveness.

Fairness: `Timer` assumes weak fairness of the timer, of main and of each device
thread, and none for spurious wake-ups; `Os` and `KillAll` of the timer, the
loader and each CPU thread. This is what the host's scheduler gives to threads
that can run. A thread that waits for a mutex is not enabled in the model; the
mutex is held across other steps only in `get_mlq_proc`'s loop, which ends, so
weak fairness is enough as long as a blocked thread gets the mutex when it stays
free; in `os_two_cpus` each slot ends with every CPU at the barrier, so it does
stay free.

## 4. What is proved

`Timer_proofs` proves, for every number of devices `N >= 1` and every
`MaxSlots` (`TimerAssumption` is the only assumption):

- `TypeCorrect`, `WakeupsKept` and `TimerLast`: `[]TypeOK`, `[]NoLostWakeup`,
  `[]ExitsLast`;
- `SlotStable`: `LockStep`;
- `Implements`: `Spec => ClockSafety`, every step of the threads is a step of
  the barrier or changes nothing the barrier has.

`NoLostWakeup` is not inductive. The invariant `IInv` adds what the timer's
position means: while it collects, every device before `cur` has posted or
detached and stays so, `nevent` is their number and `nfsh` equals it only if
all of them have detached (`Counted`); while it releases, the devices from
`cur` on still have `done` or `fsh` set (`Pending`), which is what makes the
whole pass look like one tick; a device's place determines its flags (`Flags`);
a device that has posted has a slot left to come (`SlotsLeft`); after
`stop_timer` all devices are gone (`Stopped`). The four lemmas before
`Implements` take each kind of step to its abstract image.

`Os_proofs` proves, for any CPUs, processes, priorities, start times, program
sizes, time slice and queue size (`MlqAssumption`, `OsAssumption`):

- `TypeCorrect`: `[]TypeOK`.
- `ProcessExclusive`: `[]Exclusive`, from `PlaceInv`, which adds that only
  loaded processes are with a CPU or freed.
- `NoUseAfterFree`: `[]NoDangling`. `cpu_routine` calls `update_slot(proc)`
  after `put_proc(proc)`, when another CPU may already have the process. `Busy`
  says that a CPU between two slots' ends holds up the clock; `Calm` says that
  whoever took the process has not run it yet or is already waiting for the
  next slot, and so cannot reach `free` before the pointer was used.
- `ProcessKept`: `[]NotLost`, under `RoomForAll`: every queue has room for the
  processes of its priority. The lemma `RoomLeft` counts: a queue without
  duplicates that lacks one process of its priority has room for it. Without
  the assumption the property is false, `enqueue` drops what does not fit.
- `NullMeansEmpty`: `NoFalseNull`. `ScanInv` says what `count_empty` means while
  `slot[]` changes under the search: it never exceeds the number of priorities
  passed since the last wrap-around and equals it only if all of them were
  empty. `LockInv` says that nobody else touches the queues meanwhile.
- `WorkFinished`: `[]AllFinished`, with at least one CPU and `RoomForAll`. A CPU
  leaves when it found nothing and `done` is set; `Served` says that a process
  which waits always has a CPU that will search again, or was added by the
  loader in the current slot, before `done` is set.

`Region_proofs` proves, for any symbols, sizes and page size
(`RegionAssumption`), `TypeCorrect`, `RegionsDisjoint` and `EdgeOnlyAlways`:
`[]TypeOK`, `[]Disjoint`, `[]EdgeOnly`, all under `NoWrap`: no product of two
parts of the area exceeds what an `int` holds. Without it the overlap test goes
wrong and regions overlap, as run `region_wrap` shows; with it `NoOverlap` says
that the area an allocation asks for is never refused, so the break always
moves. `TypeOK`, `Disjoint` and `BelowBrk` (no `rg_end` is above the break) are
inductive together. `EndsMatch` says that `rg_end` is the last byte asked for or
the byte after it; with the invariant it gives `EdgeOnly` (`EdgeMeaning`). That
no byte is shared at all is false (section 5). The lemmas take the free list one
change at a time: `TidyListAfter` for a region cut out of it (a node shrunk or
unlinked), `TidyEnlist` for one put in front.

`OsSlot_proofs` proves the slot policy for a single CPU (`OneCpu`), any
priorities, slots and time slice, about `Os!Spec`: `SlotBoundsOneCpu`,
`WithinBudgetOneCpu`, `WithinSliceOneCpu`, `HighestFirstOneCpu` and
`FairRefillOneCpu`. `Budget` says that what `get_slot` read stays true until the
process leaves the CPU, because nobody else charges the priority; the turns used
and the turns left add up to no more than that. `Ranked` says that a queue holds
processes of its priority only. `PassedInv` says that a priority which the
search has passed stays ineligible until the search wraps around. With two CPUs
the first three are false (finding 1, section 5), which is why the assumption is
needed.

`KillAll_proofs` proves the same and more of `KSpec`, where a process calls
killall at any of its instructions, with any name. Its steps are those of `Os`,
for which the lemmas of the two modules before hold as they are, and those of
the call (`KStepCases`).

- Whoever interferes with the call: `KillTypeCorrect`, `[](TypeOK /\ KillType)`.
  With one CPU, whatever the loader does meanwhile: `SlotBoundsKill`,
  `WithinBudgetKill`, `WithinSliceKill`, `HighestFirstKill`, `FairRefillKill`.
  `SweepRanked` is what they need of the sweep: the local queue holds processes
  of the priority that is being swept, so the store puts each back where it
  belongs.
- If nobody interferes: `ExclusiveKill` (`[]Exclusive`), `KilledStopsAlone`
  (`KilledStops`), `NamedGoneAlone` (`NamedGone`), `SurvivorsKeptAlone`
  (`[]SurvivorsKept`) and `OrderKeptAlone` (`OrderKept`). `Alone` says what that
  means: while a CPU is in killall every other CPU is at the barrier or gone,
  nothing is loaded in this slot, and no CPU holds a process of the name. It is
  assumed of the behaviour (`[]Alone`) because the code does nothing to ensure
  it: finding 5 is what happens without it. The invariant `SweepInv` treats the
  local queue as one more place where a process can be. A process in it is
  nowhere else, matches nothing and is not freed (`HeldInv`); the head that was
  read is still the head when it is taken, and the queue is empty when the local
  one is stored over it (`Sweeping`); the queues behind the sweep hold no match
  (`SweptClean`); `running_list` holds loaded processes only (`ListedFirst`).
  `HereInv` says that every loaded process is somewhere, the local queue
  included, at every moment of the sweep.
- `SurvivorsKeptAlone` and `OrderKeptAlone` need `RoomForAll`, since `enqueue`
  drops what does not fit. `SurvivorsKeptAlone` and `NamedGoneAlone` need
  `NamesTold`: a process matches if and only if it is named. `load()` cuts
  names, so that two programs whose names differ at the end are the same to
  killall.
- `WorkFinishedKill`: when all threads have stopped, every process has been
  freed and those that do not match have run to their last instruction
  (`SurvivorsDone`), under `Alone` and `RoomForAll` and with at least one CPU.
  It is `WorkFinished` with a call in it: a CPU in killall is one that will
  search again, and no search is under way during the call (`KillScan`).
- `AloneOneCpu`: with one CPU `Alone` always holds if the call comes after the
  last process was loaded and does not name its caller. That is the
  configuration of `os_one_cpu`.

`Paging_proofs` proves, for any processes, frames, swap devices and bounds
(`PagingAssumption`: a page table entry has 13 bits for a frame number, 5 for
the swap device and 21 for the swap frame, so up to 8192 frames of RAM, 32
devices and 2^21 frames on each; the configurations in `input/` have 65536
swap frames):

- `TypeCorrect`: `[]TypeOK`; `NoPhantomAlways`: `[]NoPhantom`, for every
  workload. `PhantomInv` counts: while the areas fit in RAM, the free frames
  and the pages of all areas add up to the frames of RAM plus what the current
  allocation still lacks, so that it neither evicts nor fails.
- `FrameExclusiveAlways`, `FifoIsOnlineAlways`: for the workloads `online` and
  `apart`; programs touch pages anywhere, but no allocation grows over one that
  was touched beyond the area. With `stray` both fail (finding 6). `OwnInv` says
  that the free list, the frames of the allocation in progress and the frames of
  online pages are disjoint; `FifoInv`, that the FIFO lists online pages once,
  which an eviction relies on; `AbsentInv`, that no page which an allocation in
  progress will map is mapped or enlisted, which `Overlays` gives it at its
  start; `GrabInv`, that the locals of a read in progress still describe its
  victim.
- `SwapExclusiveAlways`, `DataIntactAlways`, `ReadYourWritesAlways`,
  `AllReplaceableAlways`: when programs stay with online pages. `CleanInv` adds
  that no fault happens, the same accounting for swap frames, and that each
  page's place holds what was last written to it.
- `ImplementsStore`: `Spec => StoreSpec`, under the same condition: every step
  is a step of `PageStore` or changes nothing that programs see.

`PagingFault_proofs` proves two of these properties for programs that fault as
well (`apart`), for any number of processes: `SwapExclusiveFaults` and
`AllReplaceableFaults`. Both assume of the behaviour that it is `Undisturbed`:
the free list of the active device does not change between the two halves in
which a read that faults takes its head. `RestInv` and `HeadInv` say that what
the read has fetched is then still what the list says. `SwapExclusiveFaults`
needs also that the active device has a frame for every page (`EveryPageFits`),
because a fault that finds none goes on with a local that was never set;
`RoomInv` counts the frames, and `RoomForFault` concludes that a fault finds
one. `UndisturbedAlone` proves, for every workload, that a process which is
alone does not disturb itself, which gives what `paging_stray` checks for any
bounds. With two processes finding 3 remains.

The conditions on the workload are what the findings leave: a page that was
swapped out cannot be read back (finding 4), faults without a lock share
swap frames (finding 3), and an allocation over a mapped page lists it twice
(finding 6).

Only model-checked: everything about liveness (`Terminates`, `KTerminates`,
the fairness part of `ClockSpec`), which is out of the prover's reach. Every
other property of a passing run is stated by a theorem. That the steps of
`Timer` are those of `SlotClock` is proved, so the theorems of `Os` hold over
the real timer as far as safety goes; TLC checks the fairness of the tick
(`ClockSpec`).

## 5. Findings

1. `slice_two_cpus`: between `get_proc` and `get_slot` another CPU can charge
   the same priority. `remaining_slot` is then 0 or less, `time_left` starts at
   or below 0, is decremented before it is tested and never equals 0 again: the
   process keeps its CPU until it ends.
2. `region_wrap`: `validate_overlap_vm_area` compares the only area with itself
   (its `vm_id` is 1 and it is asked about as 0) and cuts a product of two sizes
   to `int`. Two allocations of 65536 bytes make it wrap: the break stays,
   `__sys_memmap` drops the error, `__alloc` commits, and the next allocation
   gets the same addresses. The run uses a smaller `int` and smaller sizes.
3. `paging_race`: `__read` takes no lock. Two reads that fault can take the same
   swap frame.
4. `paging_lost`: `pte_set_swap` leaves PRESENT set, so a page that was evicted
   is never brought back; its swap type and offset are used as the number of a
   RAM frame, which belongs to another page.
5. `kill_race`: killall stores its local queue over the shared one without the
   scheduler's lock. A process that the loader (or a CPU) enqueues between the
   last `dequeue` and that store is lost, even when killall names nobody.
6. `paging_overlay`: no access is checked against the area. A page touched just
   beyond it is mapped and enlisted by its fault; an allocation that then grows
   over it maps it to another frame and enlists it again. It is evicted, and is
   the next victim once more, when its entry holds a place in swap:
   `alloc_pages_range` hands that out as a frame number. `FifoIsOnline` and
   `FrameExclusive` fail in the same configuration.

Seen while modelling, and not among the runs (TLC shows the ones for which a
property and a configuration are named):

- Nothing takes a process out of `running_list` when it ends or is killed.
  killall reads the names of freed processes there, and frees those that match a
  second time; `crashed` becomes true in `os_one_cpu`.
- `put_proc` makes a process available before `update_slot` charges its turns.
  Another CPU takes it on the slot that is already used, is charged in full as
  well, and `slot[]` goes below 0: with the configuration of `slice_two_cpus`,
  `SlotBounds` and `WithinBudget` fail too.
- `enqueue` drops a process when its queue holds `MAX_QUEUE_SIZE` = 10, on load
  and at every preemption: with queues of 2 for three processes of one priority
  `NotLost` fails on a single CPU. With queues of 10 it takes eleven processes.
- `get_free_vmrg_area` counts `rg_end` as part of a free region while `__alloc`
  enlists regions whose `rg_end` is the byte after them, and `init_mm` enlists
  byte 0 of an empty area. The first allocation of one byte gets byte 0, and the
  next one, at the break, gets it again. `Disjoint` therefore reads regions as
  `start .. end - 1`, and `EdgeOnly` says how little else can be shared.
- The two copies of a page fault both go from RAM to swap. The second one
  overwrites a swap frame whose number is that of the victim's RAM frame, where
  another page may be stored (`SwapCopies`).
- An allocation that finds no frame fails up to `inc_vma_limit`, but
  `__sys_memmap` returns 0 all the same and `__alloc` reports success for pages
  that are not mapped: `Backed` fails with two processes and one frame of RAM.
  `NoPhantom` is what remains. Frames obtained before the failure are not given
  back.
- When swap is full an allocation fails with its victim already out of the FIFO.
  The page keeps its frame for good: with one frame of RAM `Replaceable` fails.
- A fault does not test whether `find_victim_page` and `MEMPHY_get_freefp` found
  anything. With the swap device full `swpfpn` is whatever the stack holds, for
  instance the frame of the fault before (`any`, `SwapExclusive` fails).
- A process that ends is freed without returning its frames
  (`free_pcb_memph` and `MEMPHY_put_freefp` are never called).
- `load()` cuts the name of a program after 16 characters, so two programs whose
  names agree that far are the same to killall.

## 6. What the models assume and leave out

- Memory accesses of the threads are sequentially consistent; `slot[]`, `done`
  and the like are plain variables in the code. A load or a store of an `int`
  is one step.
- `Os`: queues with room for their processes, in the passing runs. The timer's
  devices are all attached before any thread starts, as in `main`. Instructions
  always succeed: `run`'s return value is not used by `cpu_routine`.
- `Region`: a program frees a symbol at most once per allocation (a second
  `free` would enlist the region twice), and uses valid indices.
- `Paging`: fresh heap reads as zeros, which `init_mm` relies on for the FIFO
  and the page table. A local that a failed call leaves unset is an arbitrary
  page or swap frame (`Victims`, `SwapSlots`).
- `KillAll`: the stored names tell the programs that killall names from the
  others; two names that agree as far as `load()` keeps them do not. The name
  that killall reads from the caller's memory is a constant (`Target`), and one
  process makes one call. What a double free or a `dequeue` that shifts an empty
  queue leads to is not followed beyond `crashed`; the properties hold up to
  there.

Not modelled:

- the dispatch of system calls, a switch without state; its numbers 17 and 101
  are part of `Region`, `Paging` and `KillAll`, and 0 prints;
- parsing of programs and of the configuration, before anything is shared: the
  models take its results as constants;
- diagnostics, which print;
- returning frames: `free_pcb_memph` and `MEMPHY_put_freefp` are never called,
  so the end of a process changes nothing in `Paging`;
- bytes of a symbol over frames (`Region` and `Paging` in one module): a
  region's last byte may belong to the next region as well (section 5), so that
  "a program reads what it wrote" is not true of bytes, only of pages;
- what a second `free` of a symbol does: no document promises anything;
- `mem.c` and `paging.c`, used only without `MM_PAGING`; the single-queue
  scheduler used only without `MLQ_SCHED`; sequential-access devices, which
  `main` never creates; `finish_scheduler`, never called.

## 7. Plan

Done: all modules of section 2 with their runs, and the proof modules named
there. What is left to prove:

1. `Alone` for several CPUs: a killall in a slot in which every other CPU has
   left or waits, from the start times and program sizes alone.
2. `Undisturbed` for several processes of which one at a time reads, which is
   what the slots of a single CPU give.
