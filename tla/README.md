# A TLA+ model of the neoSYCL runtime

neoSYCL is a SYCL implementation for CPUs and the NEC SX-Aurora TSUBASA: a
header-only runtime (`include/neoSYCL`), a kernel outliner built on Clang
(`src/Kout*.cpp`) and a compiler driver (`src/nsc++.in`). This directory holds
TLA+ modules that model the runtime, TLC configurations that check them on
small instances, and TLAPS proofs of the main results. Paths below are relative
to `src/`, and `sycl/` stands for `include/neoSYCL/sycl/`.

## The system

| part | state | operations | interacts through |
|---|---|---|---|
| command-group counter (`sycl/detail/task_counter.hpp`, `sycl/queue.hpp`) | an atomic counter, a mutex, a condition variable, the detached threads and their closures | `submit`, `wait`, `~queue`, `incr`, `decr` | the `shared_ptr` to the counter that queues and closures share |
| command-group execution (`sycl/handler.hpp`) | `acc_`, the buffers a handler has locked | `alloc_mem_`, `get_ptr_`, `run`, `copy`, `fill`, `update_host`, `require`, `~handler` | locks of containers, their maps, the `program_data` of the device |
| buffers, accessors, containers (`sycl/buffer.hpp`, `sycl/accessor.hpp`, `sycl/detail/container/`) | host pointer, readers-writer lock, map from `program_data` to device memory and mode | constructors, `get_access`, `operator[]`, `~BufferContainer` | `shared_ptr`s from buffers, accessors and `acc_` |
| programs, kernels, device memory (`sycl/detail/program.hpp`, `sycl/detail/cpu/program.hpp`, `extensions/nec/`) | loaded `kernel.so`, VEO process and context, kernel caches, per-kernel capture and range variables | `open`, `get_kernel`, `set_range`, `set_capture`, `run`, `alloc_mem`, `read_mem`, `write_mem`, `copy_mem` | globals of `kernel.so` shared by every launch |
| index space (`sycl/detail/handler.hpp`, `sycl/detail/runtime/acc.hpp`, `id`, `item`, `range`) | none: pure functions | work-item loops, linear index of an accessor, of a container, of device code | the layout of a buffer |
| platforms, devices, selectors (`sycl/platform.hpp`, `sycl/device*.hpp`) | list of platforms, type of device | `get_platforms`, `get_devices`, `select_device`, `create_program` | availability of `kernel.so`, `NEOSYCL_KERNEL` |
| kernel outliner and `nsc++` (`src/`) | the lists of captured variables, generated text, temporary files | visiting kernels, printing device code, compiling host and device parts | the generated `kernel.so` and host program |
| built-in functions, vocabulary types | none | arithmetic | |

What is hard in it: command groups run in detached threads, one each, and meet
in the containers of buffers; a counter and a condition variable replace
joining; the map of device memory and the kernel caches are read and written
without a lock; locks are upgraded by releasing and retaking them; the last
`shared_ptr` to a container, wherever it is, copies the buffer back; captures
and ranges of a kernel are globals; three different linearisations of an index
have to agree; a kernel is printed as a second program that is compiled apart
and found again by its name; a library that was opened stays open while the
files change. `PROJECT.json` lists each hazard at its line with the properties
that cover it.

What makes each part correct:

- counter: `wait` returns only when nothing is outstanding, always wakes up,
  and the counter outlives the threads that use it;
- command groups: locks are owned by the handlers that say so, no two commands
  conflict on a buffer, every command group acts as one atomic step, none waits
  for ever;
- containers: one chunk of device memory per buffer and device, no use after
  free, no leak, results in host memory when a buffer is gone;
- kernels: a launch finds its own kernel and runs it once, with the captures
  and range that it was given;
- index space: every work-item once, one address per element, inside the
  buffer, the same on host and device;
- outliner and driver: a kernel does on a device what its source does on the
  host, and a build that succeeds leaves nothing of an earlier one in place;
- devices and programs: a queue is on the device it was built for, and a VE
  process lives as long as somebody may use it and no longer;
- functions and operators: the mathematical result where it exists, in every
  lane, no operand changed but by an assignment, and no call that traps or
  never ends.

## Modules

| module | what it is |
|---|---|
| `TaskBarrier` | abstract: command groups begin and end, a wait returns when none is outstanding |
| `TaskCounter` | the counter, its mutex and condition variable, host threads and detached threads, step by step |
| `TaskCounterProofs` | theorems about `TaskCounter` |
| `Accesses` | accessors, modes, and what a command does to the contents of memory |
| `AtomicGroups` | abstract: every command group is one atomic step on the buffers, and a buffer given back holds what they left |
| `CommandGroup` | handler, containers, locks, device memory, reference counts, for any host program |
| `CommandGroupProofs` | theorems about `CommandGroup`: locks, device memory, holders, types |
| `WaitingProgram` | `CommandGroup` driven by a host program that waits where the runtime needs it to, with the properties that hold then and the mapping to `AtomicGroups` |
| `WaitingProgramProofs` | theorems about command groups of a program that waits (`WaitingProgram`) |
| `KernelLaunch` | from `handler::run` to the kernel: caches, globals of the device library, the three devices |
| `KernelLaunchProofs` | theorems about `KernelLaunch` |
| `IndexSpace` | ranges, ids, items and where an element is: operators only |
| `WorkItems` | the loops of one `parallel_for`, on the host and in device code with a team of OpenMP threads |
| `WorkItemsProofs` | theorems about positions (`IndexSpace`) and about `WorkItems` |
| `KernelOutliner` | what kout makes of a kernel, what two compilers say to it and what it then means: operators only |
| `KernelOutlinerProofs` | the translation of a kernel is right, for every kernel |
| `BuildAndRun` | the steps of `nsc++`, the files it leaves, processes, queues, devices and the holders of a `program_data` |
| `BuildAndRunProofs` | theorems about `BuildAndRun` |
| `ScalarFunctions` | the built-in functions of integers and what they should return: operators only |
| `Builtins` | calls of functions and operators, lane after lane |
| `BuiltinsProofs` | theorems about `ScalarFunctions` and `Builtins`, for every width |
| `MC*` | instances for TLC |

`TaskCounter` abstracts the body of a command group to one step and
`CommandGroup` abstracts the counter to the step `Decr`: after it `wait` no
longer waits for the command group, which is what `TaskBarrier!End` says. The
barrier that `TaskCounter` is shown to implement is the one a host program of
`WaitingProgram` relies on. `KernelLaunch` takes from `WaitingProgram` what
`KernelExclusion` says, that launches which conflict on a buffer are not in
progress together, and opens up the one step that a kernel is there.
`WorkItems` opens up the run of a kernel in turn. `BuildAndRun` extends
`KernelOutliner` with what surrounds it: where the library comes from that a
program opens.

### TaskCounter

`counter`, `lock` are the members of `task_counter`; `upc`, `tpc` are program
counters of host threads and of command-group threads; `owners` is the set of
holders of a `shared_ptr` to the counter; `closing` marks the `wait` of
`~queue`; `by` records who submitted what; `aborted` is `std::terminate`.
`incr` is one step outside the mutex. `decr` takes the mutex and decrements in
one step (nothing that other threads do between the two can be told apart),
then unlocks, then notifies. `wait` locks, tests the predicate, and sleeps
(releasing the mutex) or returns, each a step. `SpawnFails` and `Throw` are the
two error paths of `submit`. A host thread stands for a thread with a copy of
the queue; copies share the counter.

### CommandGroup

One program counter per command group follows its thread: `access` (accessor
constructed, map looked up), `alloc` (chunk allocated and inserted), `copyin`
(host to device), `lock` (search of `acc_`, lock, upgrade or nothing),
`command`, `running`, `returning` (accessors destroyed), `unlock` (`~handler`),
`decr`, `exit`, `done`. `acc`, `readers`, `writer`, `map`, `mem`, `chunks`,
`refs` are `handler::acc_`, the `shared_mutex` of each container,
`BufferContainer::map`, memory, the live allocations and the holders of each
container. Losing the last holder performs `~BufferContainer` within the step
that loses it. A kernel is two steps, so that others may come between its reads
and its writes; fill, copy and update_host are one call each. Contents are sets
of command groups whose effects flowed in, which is enough to tell a serial
execution from any other. Command groups throwing, allocation failure and the
single-threaded build (`DISABLE_MULTI_THREAD_SUPPORT`, in which `submit` runs
the command group in place) are left out. Host accessors take no lock and do
nothing but keep the container alive; they are left out too. `std::map` is
treated as if its operations were atomic; in the code, concurrent ones are
undefined behaviour, of which the model keeps the mildest outcome.

### KernelLaunch

`pc` follows a launch through `program_impl::get_kernel` (search by hash,
search by name, creation, the two insertions), `set_range`, `set_capture`, `run`
and the loop of `handler::parallel_for`, which does nothing off the host. `hash`
and `names` are the two caches of each program, `rnge` and `capt` say which
launch wrote the variables `__K_range__` and `__K_obj__` of a library last,
`fifo` is the order in which a VEO context serves calls. A CPU library is opened
once by a process, so programs may share its variables; `Library` says which do.
`met` records the launches that were in progress together.

The two caches are `std::map`s that no lock guards, so an operation on them
lasts for as long as the launch is in its phase, and is not atomic. Operations
of two launches on one map of a program at the same time, one of them an
insertion, are a data race (`Overlaps`), and put the program into `raced`. That
is undefined behaviour, and the model takes it for what a red-black tree does
that is read or changed while it is rebalanced: from then on, next to the
ordinary outcome, an operation on a map of that program may miss an entry
(`Search`), drop entries (`Lost`), crash or throw from `at` (`Crash`), or never
return (`Hang`). An entry that is found has the key that was searched for,
because libstdc++ compares keys of nodes that are complete when they are linked.
Searches alone do not race. `CachesSound` and `LaunchesEnd` therefore promise
nothing of a program in `raced`; `RacesAreFirst` says when a program can get
there: only while it makes a kernel for the first time and another launch of it
is in progress. It would say the same of a reading of the standard by which any
insertion during another launch of the program is a race.

An exception ends the process (`Die`, `aborted`): a symbol that the library
lacks when the kernel is created, a range that it lacks or a write that VEO
refuses (`SetRangeThrows`, `SetCaptureThrows`), a kernel that throws on a CPU. A
kernel that fails on a VE is swallowed by `program_data_ve::run`.

### IndexSpace and WorkItems

A range, an id and an item have three axes, the unused ones 1 and 0. `r_` is
the array `__K_range__`, `left` the values of the outermost counter that OpenMP
has not dealt out, `i0_` the private outermost counter of each thread, `inner`
the counters `i1_` and `i2_`, which `printLoop` declares before the pragma, so
that the team shares them. `Take`, `Descend`, `Ascend`, `Body` and `Step` are
the parts of nested `for` loops. `written` collects the position that the
accessor gives an id: `id2index` on the host, `acc_` in device code,
`subscripts` for chained `operator[]`. `set_range_offset` reads an id beyond
its axes; what it finds there is any element of `Wild`.

### KernelOutliner and BuildAndRun

A kernel is a record of its captures and of the nodes of its body: a
declaration, a name, a constant subscript, `this->field` or a `return`.
`finder` is the walk of `VarDeclFinder`; `members` and `initialisers` are the
two lists that `printVarDecls` and `writeHostCode` print, each in its own order
(the point of the model is that they have to be the same). `HostMeaning` and
`DeviceMeaning` say what a node evaluates to, symbolically: a variable's value,
as it is or as its declaration made it, or a coordinate of the work-item.
`FitsHost` and `FitsDevice` say what the two compilers accept: a captured array
only if the capture clause lists it and its declaration has an initialiser,
which is printed as its braced list; in device code no class of the source
(type "own") and no function of a header but those that `CL/sycl.hpp` includes.
The bodies of the functions that a kernel calls are taken to compile there.

`printLoop` returns before it prints a loop or the body if the parameter of the
lambda has no name (`sycl::id<1>` alone), so `run()` of the device is empty
(`IsEmpty`, `printed`; `src/KoutVisitor.cpp:99-101`). Such a kernel does nothing
on a device, without a message. A kernel is `Faithful` if it is not one of those
(or has nothing to do) and its body has none of what the outliner changes the
meaning of: the name of an `id` of one axis, or a constant subscript of an id,
that is not the kernel's own index; a `return` inside a loop, which becomes a
`continue` of that loop; and the use of an explicit capture whose initialiser
has another value by now, as kout prints that expression for the variable. Two
kernels of one source with the same name are one function in device code, which
the second compiler rejects (`NamesApart`); `KernelsAre` says what a body is
made of.

`BuildAndRun` has one action per command of `nsc++`; a command that fails ends
it and leaves the files of the earlier ones. kout writes device code if the
source has kernels or global type aliases (`HasDevCode`), which are taken to be
of types that device code knows. `exe` and `lib` say which source
is in `a.out` and in the kernel library of each device. A process is `up` with
the image of `a.out` as it was; `loaded` is what `dlopen` has given it, which
stays when the file changes. A queue goes through the constructor step by step
(`NewQueue`, then `OpenCpu`, or `ProcCreate`, `LoadLibrary` and `ContextOpen`),
and its `program_data` has up to three kinds of holders: the queue's program,
closures of command groups, and maps of buffers. The last one to let go closes
it.

### ScalarFunctions and Builtins

A type is a width, signed or not, and whether its arithmetic is that of an
`int` which holds every value computed from it (`promoted`), which decides if
an intermediate result wraps, is undefined or is exact. A product of two
unsigned shorts may overflow an int, and is not covered by either. A result is
a set: undefined behaviour is every value of the type. A division without a
quotient, by zero or of the lowest value of a signed type by -1 where the type
is not narrower than `int` (`HasQuotient`), has no value: `/` and `%` are the
same instruction on x86-64, and it traps. Bitwise operators are those of the
sets of bits that are one (`Bits`, and back, `Of`). `Apply` computes one lane
of a function; the loops of `clz` and `popcount` and the recursion of `fmax`
are steps of their own, and their counter stops at `MaxCount`. `Operate`
computes one lane of an operator and assigns it at once if the operator writes
to its operand. `Exists` says which statements compile; those of one axis are
more, because `id(size_t)` and its like convert a number to the class, and then
`n - i` of a const `i` means what it says (`Converts`), where a number on the
left of any other operand is its right operand (`Swapped`). `Mistyped` is the
operator `+` of a size_t on `id`, `range` and `ArrayND`, which assigns to its
left operand and stands where the comments over it say `+=`; `OperatorsMean`
says nothing of it, and the run `mistyped` shows the disagreement. `Late` lanes
are those after the lane to which the scalar of an assignment refers: they read
what was written there. `Reference`, `Right` and `Defined` belong to the
properties: the mathematical result, and where the functions return it. The
assumptions say what any use of the constants has: two bits or more
(`TypesAre`), arguments of the type and one lane at least (`ArgumentsAre`),
operands of equal length, and a scalar that is a lane of the left operand with
that lane's value (`OperandsAre`).

## Runs

| run | instance | shows |
|---|---|---|
| `task_counter` | 2 host threads, 2 command groups | all of TaskCounter's properties, refinement of `TaskBarrier`, liveness |
| `warm_device` | 3 command groups of 8 kinds, 3 buffers, 2 devices | all safety properties and refinement of `AtomicGroups` for a waiting program |
| `queues` | 3 command groups of a program either on 1 buffer of 2 host devices (3 kinds) or on 2 buffers of 1 device (2 kinds) | exclusion, atomicity and termination: on host devices for any program, on a device for one that waits after first uses and opens buffers in one order |
| `skipped_lock` | 2 command groups with two buffers, host device | violation: the second buffer is not locked |
| `read_first` | a reader and a writer of 1 buffer, 1 device | violation: written data is not copied back |
| `double_chunk` | 2 writers of 1 buffer, 1 device | violation: two chunks for one buffer |
| `kernel_launch` | 3 launches, 2 CPU queues on one library, a VE queue, a host queue, 3 kernels | the unlocked caches are raced on only while a kernel is new, and are sound otherwise; arguments are a launch's own unless it has rivals it does not conflict with; kernels run once; launches end |
| `work_items` | all ranges up to 4, 3 x 3, 2 x 2 x 2; offsets; host and device; ids and subscripts; up to 2 threads | items once, writes inside the buffer, exactly when read-back and chained subscripts agree, loops end |
| `shared_counter` | ranges up to 3 x 3, device, 2 threads | violation: items run twice or never |
| `build_and_run` | 21 sources, one of them with 13 kernels, 2 builds, 1 queue at a time | success means fresh files, kernels mean what their source says exactly if they are faithful, queues are on target, VE processes live long enough and not longer |
| `builtins` | all values of 4 bits (one and two arguments; `mul_sat` also of 5) or 3 bits (three); 16 operators, 5 forms, 4 classes, one and two lanes | functions and operators right where stated, and the former nowhere else; calls end |
| `mistyped` | the same | violation: `i + 1` changes `i` |

Bounds. Two command groups are enough for the counter: one that is the last and
one that is not, and a submission after the counter has been zero; two host
threads are needed for a waiter next to a submitter and for a destroyed copy of
the queue. In `warm_device` the first use of a buffer runs alone, so a third
command group is what makes two run at once afterwards; the six kinds on one
device cover the two orders of two buffers, reading, writing and discarding
modes, an upgrade, a ranged accessor (which calls `alloc_mem_` twice),
placeholders, and each kind of command. The two kinds on the other device use a
third buffer: a buffer that stays on one device is all that atomicity and the
return of its data ask for, while other buffers are elsewhere. In `queues` the
two host queues have devices, and so `program_data`, of their own and share a
buffer. Host and device queues share nothing but the shape of their command
groups, so a behaviour uses one or the other. Command groups are
interchangeable: `warm_device` uses symmetry, and `queues`, which checks
liveness, numbers them in the order in which they are submitted. Three launches
let two share a library while the third conflicts with one of them. In
`work_items` three is the first extent at which rows, squares and their
transposes differ in every way that the three linearisations do, and a second
thread is enough to disturb a counter. Two builds are what it takes to leave a
file of the first one in the second; one queue suffices because a queue can be
made again in the same process, with the library that is loaded by then, and
queues share nothing else (the proofs are for any number of both). Widths of
three and four bits have all the boundaries (zero, one, both ends, half the
width) that the expressions distinguish, but for `mul_sat`, whose products
first wrap around to the upper bound at five bits; that is where the run looks
for it, and the proofs are for every width. Two lanes are a lane before and a
lane after the one that a scalar refers to, and one lane is one axis, where
conversions make more statements compile; the operands are both ends, zero,
one, two and -1. `CHECK_DEADLOCK` is off because a host program may stop
submitting; `GroupsEnd` and `WaitReturns` say that nothing stops earlier.

Fairness. Every thread keeps being scheduled (weak fairness of its steps) and a
command returns. A thread that asks for the counter's mutex gets it if it
becomes free again and again (strong fairness of `Lock` and `Decr`): other
waiters may pass through the mutex any number of times. Locks of containers
need weak fairness only, because finitely many command groups hold them and
each is submitted once. Host threads are never forced to submit, wait or
destroy, and wake-ups are never forced to be spurious.

`kernel_launch` assumes that threads keep being scheduled and a kernel returns
or fails; `work_items` the same of the loops and of every thread of a team;
`builtins` that the one thread there is goes on. `build_and_run` states no
liveness and no fairness.

Findings. Five runs refute what comments and documents say; see `findings` in
`PROJECT.json`. `shared_counter` is about device code: the counters of the
inner loops are shared by the OpenMP team, so a kernel of two or three axes may
skip and repeat work-items. `mistyped` is about the operator `+` described
above. The other three are about handlers. They are also
the reason for `WaitingProgram`: a host program
that waits between the first use of a buffer on a device and the next, whose
first use writes, and that waits before it destroys a buffer, meets none of
them.

## Proofs

`TaskCounterProofs` proves, for any finite set of command groups and any set of
host threads (assumptions `TasksFinite` and `Identities`), that `Spec` implies
every safety property of the run and the refinement of `TaskBarrier`. The
inductive invariant `IInv` adds to the properties that the mutex is held by
exactly the thread between its lock and its unlock (`MutexHeld`), that a host
thread about to sleep still has something to wait for (`BlockedOnWork`: only a
thread with the mutex can discount the last command group), and that a thread
keeps its `shared_ptr` while it may use the counter (`OwnersHold`). Four lemmas
say what a step does to the set of outstanding command groups; `LastOne` links
a counter at one to the last outstanding command group by the cardinality of
finite sets. There is one lemma per conjunct, one case per action.

`CommandGroupProofs` proves, for any sets of command groups, buffers and
devices and any host program (assumptions `GroupsAre`, `HostDevicesAre`,
`NamesDiffer`), that locks are owned by the handlers whose `acc_` says so
(`LockOwnership`) and that each is a readers-writer lock (`LockExclusion`).
`LockOwnership` is not inductive as it stands: an upgrade changes the mode of an
entry and takes the lock that goes with the new mode, which is right only if the
entry was a reader's and the accessor writes. `LockInv` adds that for a thread
between `unlock_read` and `lock_write`. `LockTypes`, proved first, says that the
accessor being made is one of the command group's. `OthersKeep` and `PhaseKeeps`
frame the steps that leave a handler's locks alone; there is one lemma for each
step that does not, on top of lemmas about `Append` and `Tail`.

The same module proves in the same generality that no command runs on a chunk
that was freed (`ChunksLive`). Its invariant `LifeInv` names, for every
accessor of a command group in progress, the `shared_ptr` that keeps the
container (`Holder`): the copy of a placeholder in the closure, the accessor
once it is made, and before that the host program's buffer, which the guard of
`DestroyBuffer` keeps (a reference to a destroyed buffer would be an error of
the program, not of the runtime). It adds that `device_ptr` is null or a chunk
still allocated, that a map has an entry as soon as `alloc_mem_` is past its
insert, and that the entries of a container that somebody holds are allocated
(`Mapped`). `ReleaseEffect` is the lemma about `~BufferContainer`.
From it follows the type invariant (`TypesHold`), which is not obvious where a
command group looks up the map of a container: that the map is there needs
somebody holding the container (`InUse`), and that a handler's pointer stays
the same after its chunk is found is `PointersKept`.

`WaitingProgramProofs` is about command groups that meet on buffers. It proves
`KernelExclusion`, `ChunksMapped` and `BackAfterWait` for any command groups,
buffers and devices and every program that waits where the runtime needs it,
under `CarefulSpec`, which `WaitingSpec` implies: buffers may be destroyed at
any time the language allows. The locks alone do not exclude kernels, since an
accessor whose buffer has a chunk locks, and one whose buffer has none makes
the chunk first. `WaitInv` says what the waits add: a command group that is to
make a chunk is the only one in progress on that buffer (`Alone`), one that is
not alone finds the chunk in the map (`Served`) and locks it (`Guarded`), and
an entry of the map is the chunk its handlers point to (`AllMapped`,
`Pointed`). Two command groups between `get_access` and their release that
conflict would then hold locks that exclude each other, against
`LockExclusion`. On a host device this needs a hypothesis, `OneEach`: the
command groups have at most one accessor. `alloc_mem_` on a host device returns
after the first buffer, so others are not locked and the statement is false,
as the run `skipped_lock` shows. `BackAfterWait` needs no hypothesis.

The same module proves that `WaitingProgram` implements `AtomicGroups`
(`GroupsAtomic`), and the abstract effect of each step is: `Submit` maps to
`Submit`, the return of a command to `Execute`, the release of the last
`shared_ptr` of a container to `GiveBack`, and every other step to a stutter.
The mapping shows a buffer's data in its chunk, or in host memory while no
chunk has been filled, so the proof is about what chunks hold. `CommandWrites`,
`Released` and `StepKinds` say who writes to memory and where: a command, to
what it was opened for; `~BufferContainer`, to host memory; `copyin`, to the
chunk of its own command group. `DataInv` adds that the command group that made
a chunk finds the host program's data in it, unless it discards them (`Copied`;
by `MakerAlone` nobody else is near the buffer then), that memory holds nothing
before it is a chunk (`Blank`), and that what a running kernel has read is still
there when it writes (`Snapped`, which is where the exclusion of commands comes
in). `BackInv`, from which `DataComesBack` follows, adds that the entry of a map
is opened for writing, so that the chunk is copied back (`WrittenBack`).

The hypotheses say where the code keeps the promise. `OneHome`: a buffer is used
on one device, or on host devices, which all work in the host program's memory;
one that is used on two devices has two chunks that nobody reconciles. It
gives the invariant `OneChunk`, one entry in each map: the command group that
made the entry was on that device, and so is everybody who uses the buffer.
Different buffers may be on different devices. `CommandsWrite`:
what `fill` and `copy` write was opened for writing, which SYCL demands and the
code does not check. `HostKernels`: the bodies of fill, copy and update_host in
`program_data_host` are empty, so that on a host device they do not do what
`AtomicGroups` says. `OneEach` as above. `HostGroupsAtomic` needs no waits: on
a host device there are no chunks to be made. The instances of `warm_device`
and `queues` satisfy all of the hypotheses that their program needs.

`KernelLaunchProofs` proves all safety properties of `KernelLaunch` for any
launches, programs, libraries, kernels and jobs. `CachesAreSound` is about
programs whose maps were not raced on: cache entries carry the program and name
they were made for, the steps of the lookup keep what they are about to insert,
and a kernel is in the map of names before it is in that of hashes.
`RacesComeFirst` says what a race takes: a launch that made a kernel, in
progress together with another one of the same program, so a host program that
waits after the first launch of each kernel never meets one. For
`ArgumentsAreOwn` the invariant follows a launch from its `set_range` on: the
variables of its slot are its own, or the launch that overwrote them is among
its rivals. The type invariant (`LaunchTypes`) rests on `Queueing`: what is in
a context's queue is a job somebody submitted, and its answer is not there yet.

`WorkItemsProofs` begins with operators: each linearisation is inside the
buffer and one-to-one for every range, and host and device agree exactly on the
ranges with at most one extent above one. The invariant says where every
counter of the nested loops is and that the items run so far are exactly those
before it, in the order of the loops; together with the values not yet dealt
out they are all of the range. `ReadsBack` adds what the items wrote: every
item run so far has left its mark at its position (`Traced`), so that when the
loops are over each id of the range is written once, at the position of the
kernel's accessor (`AllWritten`), which is the host accessor's exactly on the
ranges where both agree. `SubscriptsCover` does the same for `acc[i][j]`: the
rows of a range of a by b are a apart, and cover the buffer exactly when it is
square or one row (`RowsCover`).

`BuildAndRunProofs` proves the four invariants of `BuildAndRun` that are about
the driver and the queues, for any sources, targets, queues and number of
builds. `Building` is what holds between the commands of a build; `Fits` says
how far a queue is, what it holds and what it has opened, and `Selected` which
device it chose.

`RunsTheirSource` proves `RunsItsSource` on top of these. Its invariant relates
the process to the directory: as long as the image is the one of the last build,
which succeeded, no build is under way and every library that the process or a
queue has opened is the one on the disk, of the image's source (`Opened`); what
a file holds has passed the tool that wrote it (`Passed`). The process that
keeps an old library because `dlopen` gives it the same one again is then one
whose image is not current. What kout makes of one kernel is the subject of
`KernelOutlinerProofs`.

`TranslationRight` says of every kernel, of any length and with any captures:
if the host compiler takes the class that kout makes of it, the class means on
a device what the lambda means on the host exactly if the kernel is `Faithful`.
The members are found by a fold over the body. Induction is over sets of
natural numbers (`Induct`, from the least element that a well-founded order
gives), so no operator is a parameter of a theorem that is cited: a fold of the
community modules is a function that exists for every set of positions
(`FoldExists`), and follows its sequence element by element (`AmongRuns`,
`FinderRuns`). `Aligned` is the heart: members and initialisers are two lists
written in different orders, and where the host compiler accepts them each
initialiser stands at its own member. `RunsItsSource` then has no hypothesis
but the assumptions on the constants.

`BuiltinsProofs` proves every invariant of `Builtins` for integers of every
width from two bits and vectors of every length, where the run has three, four
and five bits and two lanes. It has four parts.

- Powers and division. `2 ^ n` is the number of subsets of `1..n` (the
  library's theorem about finite sets), from which `PowStep` and `PowPlus`
  follow; `DivUnique` and `DivDiv` are what is needed of `\div` and `%`;
  `Wraps`, `WrapsOnce` and `Near` say what a conversion does to a number that is
  out of range by one turn or by any number of them.
- One lemma for each function (`AbsIs`, `MulSatIs`, `RotateIs`, ...): where its
  result is defined it is the mathematical one if `Right` holds and, but for
  `mul_hi`, `mad_hi` and `mad_sat`, only then. Those on bits rest on `SameBits`
  and `SomeBits` (a number below `2 ^ m` is its first m bits, and every set of
  bits is a number), proved by induction on m.
- The loops: `clz` has shifted its argument by as many places as it has counted
  and lost no bit (`ClzInv`); `popcount` has counted the bits it has shifted
  out, unless its argument is negative, which never becomes zero
  (`PopcountInv`).
- The state machine. `Inv` says that the lanes done have their answers
  (`Answered`, `Operated`), and of an operator that writes in place, which lanes
  of the left operand are already results (`Written`) and hence what a scalar
  that refers to one of them has been for each lane (`Used`). Every lane that is
  done has had a quotient (`HasDivided`): after lane i, `v /= v[i]` divides by
  one, and `v %= v[i]` by zero, so that it never returns if it has such a lane.

Preparing these proofs found an error in the model: `Right` said that `mul_sat`
of a negative number saturates only if the product is the upper bound. It also
does if the product wraps around to the upper bound, which no product of four
bits does; the run has five bits for it now.

What no property catches, and what is excepted or ruled out by an instance for
it: deadlock of handlers that open buffers in opposite orders, a buffer used on
two devices, arguments overwritten by a launch of the same kernel that shares
no buffer, a failure on a VE that is swallowed, the offset of `set_range` that
reads beyond an id, the calls of `clz`, `popcount`, `fmax` that do not return,
late lanes and swapped scalars. The code does these things; no comment or
document says that it does not. The notes of the hazards in `PROJECT.json` say
so at each line.

Model-checked only: liveness (`WaitReturns`, `GroupsEnd`, `LaunchesEnd`,
`LoopEnds`, `CallEnds`), which needs fairness and `ENABLED`. Every other
property of a passing run is proved.

## Plan

What was planned first is done: the counter, command groups, kernels, index
space, the outliner with its driver, devices and programs, and built-in
functions. What could be added, in order of value:

1. Programs that discard: `GroupsAtomic` without the wait before the first use,
   for buffers that only one command group uses.
2. What becomes of a buffer used on two devices: which of its chunks comes back.
3. Unsigned types narrower than `int` whose products overflow it.
4. Several devices of one kind and the queries of platforms.

## Not modelled

Floating-point built-ins, geometric and relational functions, conversions,
swizzles (declared, not defined), increments and comparisons of `vec` (which
do not compile when used); exceptions' text, logging, property lists, `event`
(its `wait` is not connected to anything), `nd_item` and `group`, sub-buffers,
allocators and iterators of buffers, declared but undefined members, and the
OpenCL interoperability stubs: nothing there changes state that a property
could be about. Of the outliner, spelling of types, namespaces, templates and
attributes; of the driver, options that are passed on. A crash of the process
loses everything and nothing is restored, so there is no recovery to model; what
a failed build leaves on the disk is.
