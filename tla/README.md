# Formal models of Hyperlight

Hyperlight runs functions of a guest binary inside a micro virtual machine.  A
host program creates an `UninitializedSandbox`, registers host functions and
evolves it into a `MultiUseSandbox` or a `SingleUseSandbox`.  A thread per
sandbox, the hypervisor handler, owns the virtual CPU and executes what the
caller sends over a channel.  Host and guest exchange calls and results through
two stacks of messages in shared memory, and the guest reaches the host with
`OUT` instructions.

The modules here model these parts in TLA+.  TLC checks them on small
instances; TLAPS proves the main results for every value of the constants.
Source paths below are relative to `src/hyperlight_host/src/` unless they begin
with another crate.

## The parts and how they interact

| part | state | operations | what is hard about it |
|---|---|---|---|
| hypervisor handler (`hypervisor/hypervisor_handler.rs`) | two channels, `running`, `run_cancelled`, thread and join handles, timeouts | initialise, dispatch, terminate, time out and cancel, re-initialise, kill, join | two threads, a signal, five kinds of wait with a timeout, replies that arrive late |
| virtual CPU drivers (`hypervisor/mod.rs`, `kvm.rs`, `hyperv_linux.rs`, `hyperv_windows.rs`) | registers, exits, the guest's memory (on Windows a copy of it) | dispatch, enter, decode an exit, complete an OUT, retry, cancel | three drivers with different conventions for one machine |
| shared memory (`mem/shared_mem.rs`, `mem/shared_mem_snapshot.rs`) | a mapping with guard pages, its handles, bytes, an `RwLock`, snapshots | allocate, clone, drop, read, write, copy, fill, snapshot, restore | byte by byte copies under a lock that is only tried; unchecked sums; who unmaps |
| I/O buffers (`mem/shared_mem.rs`, `hyperlight_guest/src/shared_*_data.rs`) | a stack of messages per direction | push, pop | bounds, back pointers, leftovers of failed calls |
| executables (`mem/exe.rs`, `mem/elf.rs`, `mem/pe/`, `mem/ptr*.rs`) | a payload, sections or segments, relocations | accept, extend, relocate, copy, find the entry point | two formats, addresses that are taken for offsets |
| memory layout and page tables (`mem/layout.rs`, `mem/mgr.rs`) | offsets, regions, PEB, page tables | compute, write, map | arithmetic that several places must agree on |
| sandbox life cycle (`sandbox/*`, `func/call_ctx.rs`) | the kind of handle, the stack of snapshots | evolve, devolve, call, context, finish, drop | error paths between two steps |
| guest calls (`func/guest_dispatch.rs`, `sandbox/outb.rs`, `hyperlight_guest/src/*`) | both stacks, the guest error, the stack pointer | call, host call, log, abort, result | nested calls over two stacks, errors on both sides |
| host and guest functions (`sandbox/host_funcs.rs`, `func/host_functions.rs`, `hyperlight_guest/src/host_functions.rs`, `guest_function_*.rs`, `hyperlight_guest_capi`) | a map and a list in the host, definitions in the guest's memory, a mutex per closure, the guest's own register | register, validate, look up, lock, run, fail, panic | three copies of one registry; closures shared by sandboxes; checks on either side that are not the same |
| flatbuffer messages (`hyperlight_common/src/flatbuffer_wrappers/`, `flatbuffers/`) | none | conversions of types, values, calls, results, errors, log records, definitions, both ways | tables that have to be inverse to each other; fields that are not written and read as a default |
| configuration (`sandbox/config.rs`) | sizes and times | constructors, setters, getters | minimum sizes, and 0 for "take it from the executable" |
| metrics (`metrics/`, `sandbox/metrics.rs`, `hypervisor/metrics.rs`) | the registry, a map of metrics per group | choose the registry, initialise a group at its first use, count | two `OnceCell`s and a `Once` that threads race for; a registration that fails half way |
| surrogate processes (`hypervisor/surrogate_process_manager.rs`, `surrogate_process.rs`, `hyperv_windows.rs`) | a pool of processes, memory in them, partitions that map it | create a driver step by step, fail, drop | many threads, a blocking pool, the order of drops |

The parts that are left out are listed at the end, and in `PROJECT.json`.

How they fit together: a guest call on a sandbox pushes a message on the input
stack (`SandboxCalls`, bytes in `IoStack`), sends `DispatchCallFromHost` to the
handler thread (`HypervisorHandler`), which runs the virtual CPU until the guest
halts (`VirtualCpu`); each `OUT` of the guest is handled by `outb.rs`, which
pops the output stack and runs a host function (`FunctionCalls`) or logs a record
(`GuestLogs`).  The memory
all of this happens in (`SharedMemory`) is laid out, filled with the guest's
executable and mapped once (`MemoryLayout`, `GuestBinary`); on Windows it is the
memory of a surrogate process (`SurrogatePool`).  Each module keeps
the control of its part and abstracts the others to what its properties can
tell apart: a timeout is many steps of two threads in `HypervisorHandler` and
one step in `SandboxCalls`; a message is bytes in `IoStack` and a record in
`SandboxCalls`.

## Modules

### HypervisorHandler

The caller (`cpc`) and the handler thread (`hpc`), each an action per statement
that the other can observe: sending, receiving or timing out, loads and stores
of `running` and `run_cancelled`, taking and releasing the memory lock, the
entry of the vCPU and its exits, the signal and its loss when the thread is not
inside the run call.  `SignalCheck`/`SignalSend`/`SignalDone` are the loop of
`terminate_execution`, `CheckRunning`, `Slept`, `CancelReplied`,
`RestoreBegins`/`RestoreEnds`, `Reinitialised` the rest of
`terminate_hypervisor_handler_execution_and_reinitialise`, `Drop`, `KillReplied`
and `Join` the end.  Messages carry no number in the code; the model gives
actions and replies one as history, to say which reply answers which action.
The Linux build is modelled.  A result is the number of the call that pushed it,
or 0 when the host cannot decode it.  The guest's push may fail, after which it
halts all the same (`GuestPushes`), and a cancellation may come between the push
and the halt.

Results: queues, lock and cancellation work together as long as the caller has
received the reply of every action (`~abandoned`).  It gives one up when a
timeout finds the execution already finished, or the guest hung in a host
function; from then on it is out of step for ever (`OutOfStepForever`).
`OwnResult` has a second premise, `Uncut`: a single-use sandbox has no snapshot,
so that a call cancelled after its push leaves its result in memory, and a later
call of the same callback that pushes none returns that one.

### IoStack and Lifo

`Lifo` is what an I/O buffer promises: a bounded stack of typed messages whose
failing operations change nothing.  `IoStack` is the buffer itself: bytes, the
stack pointer in the first of them, a back pointer after each message, with the
pushes and pops of the host and those of the guest, which are different code.
`IsLifo` states that the second implements the first.

### VirtualCpu and GuestMachine

`GuestMachine` is a sequential machine that runs a routine of stores, OUTs and
a final halt on one memory.  `VirtualCpu` is the loop of `VirtualCPU::run` over
one of the three drivers.  They differ in how an OUT is completed (mshv and WHP
leave `rip` at the instruction and their driver moves it after the handler;
KVM completes it on the next entry), in how refused accesses are reported, in the
permissions they map regions with, and in where the memory is (WHP: a copy in
the surrogate process, copied in before and back after each run).
Interruptions, retries, failed handlers and failed copies happen at every
point.  `ImplementsGuestMachine` states that each driver runs the guest as that
machine: no OUT is repeated or skipped and no store is lost.

### MemoryLayout

The creation of a sandbox's memory, one action per step: the offsets of
`SandboxMemoryLayout::new`, what `write` and the loaders put where, the PEB, the
host function definitions, the regions and the page tables with their entries.
Sizes are real bytes.  A page walk (`Entries`) goes through the page directory,
all of whose 512 entries are present: where one leads to memory that was not
filled in as a table, the walk may find anything.  `PagesMapped` therefore says
that every page of every region is reached through a table that was filled in,
and that nothing else is present as far as these tables reach and from 1 GB on;
it promises nothing of the addresses in between.

### Executables and GuestBinary

`Executables` is `ExeInfo` as functions on files.  A file is a sequence of cells,
one for everything that has an offset: a word of code or data, a header or an
entry of the relocation table.  A PE file is checked, the zeroes its `.data`
section has in memory only are inserted, the sections behind it are moved, and
the words its relocation table names are patched by a difference that wraps
around; an ELF file is copied segment by segment and patched by its `RELATIVE`
relocations.  What goblin decodes from the headers is an input.

`GuestBinary` composes it with `MemoryLayout` and `SandboxConfiguration`, from a
file to a virtual machine: parse, lay out for the size, stack and heap of this
file, load and relocate at the address the layout has for the code, fill and map
the memory, and compute the entry point and the other registers through the
conversions of `mem/ptr.rs`.  `LoadedAsLinked` compares the memory with what the
linker of the file meant (`file.flat`); `VmStartsInPlace` says that the virtual
CPU starts at the entry point of the file, on the stack and the page tables of
the layout.

A file has a `flat` image only where the loader can be right.  It is not for a PE
file whose `.data` has no raw data at all, whose sections behind `.data` are not
aligned to the zeroes inserted before them, or for an ELF file linked at another
address than 0; files with two short `.data` sections, without optional header or
with a truncated relocation table end in a panic, which the model has as an
outcome of its own.

### SharedMemory

One mapping, from `ExclusiveSharedMemory::new` on: how many bytes it has and
where its guard pages are, with every sum and product as wide as a `usize`; the
handles that keep it (`Arc`), cloned and dropped by any thread at any time; the
reads, writes, copies and fills of `HostSharedMemory`, each a check, a lock that
is tried, one step per byte and an unlock; the guest that runs meanwhile; and
snapshots and restores, which try the lock for writing.  The guest may run
without the lock (`"loose"`), as `hypervisor_handler.rs` does when its own try
fails; what it then writes into a snapshot is recorded in `torn`, and
`SnapshotIsOneInstant` is stated for the snapshots without it.
`GuardsCatchWrappedBounds` says that an access which passes `bounds_check!` only
because its sum wraps around ends at a guard page before it reaches anything
else.

### SandboxCalls

One sandbox from `evolve` to the drop of its last handle: contexts, calls, the
guest's dispatcher, host calls, logs, aborts, faults, cancellation, snapshots,
evolve and devolve, for both kinds of sandbox.  `mem` has both stacks, the guest
error, the stack cookie and the guest's own data, and is saved and restored as
a whole.  A guest function returns bytes of its own making, so that a result may
be `"garbled"`: the host fails to decode it and leaves it where it is.

A timeout is one step: `Cancel` stops the guest anywhere up to the exit of its
halt, `Hung` and `FinishedWhileCancelling` return to the owner without the reply
of the handler thread.  A sandbox whose owner gave up a reply is `"adrift"`: its
guest goes on and may still push, the owner may read a result meanwhile, and no
further calls are followed here (they are in `HypervisorHandler`).
`OutputDrained` is about the others, and `AnswerOfThisCall` has, for values, the
premise `Intact`: no call of a single-use sandbox was interrupted, as the memory
of such a call is not put right.  Between the push of a result and the halt
nothing the guest executes can fault, so that `Fault` is before the push.

### FunctionCalls and Messages

`Flatbuffers` is what the generated code decides about a table: the slot of each
field, the default of a field that was not written, the fields that must be
there, the numbers of the enumerations.  `Messages` has the conversions of the
wrappers on top of it, for values, calls, results, errors, log records and
definitions, in both directions.  A value is its type and whether it is the
default of its type (which is not written), another one, or a string with a NUL
in it.

`FunctionCalls` has several sandboxes that share closures: registrations before
`evolve`, what the guest sees of them, calls whose names and arguments are
arbitrary, in both directions, and what comes back.  A guest is written in Rust
or in C: the C API keeps a register of its own, passes a list of parameters
always, has readers for four return types only, and drops the error of a refused
call, so that the guest panics when it reads the result.  Calls after which a
guest in C reads nothing are left out.  The size of the
serialised definitions is a weight that grows with every definition and
parameter.  The default Linux build is modelled, where a worker thread catches
the panics of host functions.

### GuestLogs

The log records of guests, from a log macro, `hl_log` or a call of `log_message`
to the host's logger.  The host's level is state that may change at any time
(`SetMaxLevel`); a guest keeps the one it was initialised with, as a number that
it makes a filter of.  Levels pass through three enumerations with different
orders.  `outb_log` builds a new record: level, message, file, line and module
are the guest's, the target is fixed and the caller is dropped.
`LogsArriveAsSent` compares those fields, and states what the filter does against
the host's level of the moment where it has not changed since.

### SandboxConfiguration

The minimum and default sizes, the setters that enforce them, and the getters
that fall back on the executable.  `MCMemoryLayout` builds the configurations
it lays out with these operators, so that only sizes a program can set occur.

### Metrics

The registry that an application may set once, if no metric was used before; the
groups of metrics, each initialised by the first thread that uses one; the
operations of the six types.  An initialisation is several steps (fetch the
registry, register each metric, publish the map), with other threads waiting at
the `Once`.  The registry itself is external: it refuses a name it has.

### SurrogatePool

The construction of a Windows driver with a failure at every step, and its drop,
on more sandboxes than there are processes.  Failures of the Windows API are
bounded by `MaxFaults`.

## What TLC checks

| run | instance | shows |
|---|---|---|
| `handler` | 2 signals, 2 input slots, 2 calls, fair; 580,000 states | queue order, lock, handshake and results over every interleaving, including a call after a given-up reply and a call after a re-initialisation; every operation of the caller ends; the thread ends once told to |
| `handler_reply` | 1 signal, 2 input slots, 2 calls | violation: a reply answers an earlier request (finding) |
| `io_stack` | 15-byte buffer, 2-byte pointers, messages of 1 to 3 bytes | well-formedness and refinement of `Lifo`, with buffers that fill exactly, by one byte too few, and with leftovers |
| `virtual_cpu` | a routine with two stores and two OUTs, two calls, three drivers | refinement of `GuestMachine`, stack overflows, write protection |
| `memory_layout` | sizes around page, page-table and 1 GB boundaries; PE and ELF files at, above and below their preferred address, with zeroes to insert, refused and broken ones | regions, writes, pointers and the pages mapped through the directory agree; the program is in memory as linked; the virtual CPU starts at its entry point |
| `shared_memory` | 2 threads and a guest, pages of 2 bytes, a `usize` below 16, requests of 0 to 14 bytes of which one is accepted, 2 snapshots | snapshots are of one moment, wrapped bounds end at a guard page, memory is mapped while it is used |
| `layout_tables` | an 8 MB kernel stack | violation: page tables overrun their space (finding) |
| `sandbox_calls` | 4 calls and 2 exits in a behaviour, stacks of 2 messages, 2 stack frames, 2 snapshots; 1,450,000 states | readers find their message, answers belong to their call, nothing but undecodable results is left in the output buffer, sandboxes are clean between calls |
| `calls_rsp` | the same | violation: a failed call keeps the guest's stack pointer (finding) |
| `function_calls` | 2 sandboxes, one with 3 registrations, one with a guest in either language; 3 shared closures; beside them guests that log at the six levels of the host; 240,000 states | guest and host agree on what is registered; validated calls are accepted; guests run only calls that fit their declaration; results, errors and log records arrive as sent; one run per closure |
| `metrics` | 2 threads with 2 operations each, 2 registries, 3 groups two of which clash, fair | one registry per process, no operation lost to a race, a name has one owner, operations end |
| `surrogate_pool` | 3 sandboxes, 2 processes, 2 failures, fair | every process is in one place, memory is private, nothing is left behind, waiters are served |

Why these bounds reach the interesting cases: two calls after the initialisation
let one be given up and the next be wrong because of it, or be cancelled and the
next follow the re-initialisation (any number of calls is left to the proofs);
two signals let the loop end with and without a delivery, and retry; two input slots let a leftover stay under a new call, and a third push
fail.  In `io_stack` the sizes are such that a message can fit exactly or
miss by a byte.  Four calls of `sandbox_calls` cover a failed call, a call on
what it left, a snapshot restored and a call after it.  Three sandboxes on two
processes make one wait while either of the others fails or drops.  In
`function_calls` the room for definitions is exactly that of `HostPrint` and a
function of two parameters, so that one more overflows it; a name is registered twice with
different signatures; and the arguments are right, too few, too many and of the
wrong type.  In `metrics` one thread can be anywhere in an initialisation while
the other sets the registry or uses the same or a clashing group.  In
`shared_memory` two bytes between guard pages of the same size are enough for an
access to wrap around over the guard, to end in it and to end behind it, and one
thread can be in the middle of a copy while the other takes or restores a
snapshot, clones or drops a handle.

`CHECK_DEADLOCK FALSE` is set where the system really may stop: all handles
dropped, the memory laid out, the bound on calls reached, or every surrogate
process lost.

### Fairness

`HypervisorHandler!FairSpec` has weak fairness of the caller's steps and of the
handler thread's steps: both are operating system threads, every `recv` of the
caller has a timeout (so the timeout step is always enabled), and the signal loop
is bounded by the configured number of retries.  Nothing is assumed of the guest
or of host functions for `OperationsEnd`: a guest may run and a host function may
block for ever.  `ThreadEnds` needs `GuestEnds`, its explicit premise: without it
a guest that never leaves the virtual CPU keeps the thread.

`SurrogatePool!FairSpec` has weak fairness of the steps of a thread that creates
or drops a driver, and strong fairness of the blocking receive: crossbeam serves
blocked receivers, so that one of them cannot be passed over for ever.
Sandboxes are dropped eventually; a host that keeps all its sandboxes starves
the others by design.

`Metrics!FairSpec` has weak fairness of each thread's steps: threads are
scheduled, and a thread that waits at a `Once` goes on when the initialisation,
which takes a bounded number of steps, is over.

## What TLAPS proves

The constants are arbitrary under the assumptions named in the modules (natural
bounds; `PtrSize > 0`, `BufferSize >= PtrSize`, message sizes above 0; programs
that end with a halt).

- **HypervisorHandler** (`HypervisorHandlerQueues`, `HypervisorHandlerProofs`).
  The invariant `HandlerInv` is inductive.
  `OneReplyPerAction` says that the numbers in both channels and in the hands of
  the two threads are consecutive.  It needs `StepInv` (which replies the caller
  owes at each place); the others need it too, and `LockInv`
  (who holds the lock), `CancelInv` (what a signal seen or a cancelled vCPU
  implies about both threads: `SignalInv`, `ReinitInv`, `HandshakeInv`) and
  `CallInv` (whose parameters and results are in memory: `AskedInv`, `ResultInv`,
  and, for single-use sandboxes, what a cancellation leaves: `CutInv`).  From these: `QueuesInOrder`,
  `NeverCatchesUp`, `GuestLocked`, `ResultOfThisCall`, `HandshakeCorrect`,
  `ReinitialisedFirst`.
- **IoStack** (`IoStackProofs`).  `WellFormed` relates the bytes to the history
  of messages; every push and pop preserves it, and with it each step is a step
  of `Lifo` (`ImplementsLifo`).
- **VirtualCpu** (`VirtualCpuProofs`).  `LoopOK` says which instruction a pending
  OUT or an exit belongs to and how far the Windows copy is ahead of the host's
  memory.  It makes each step of a driver a step of `GuestMachine` or a stutter
  (`Refinement`).  `StackOverflowReported` and `WriteProtection` follow for every
  set of regions.
- **MemoryLayout** (`MemoryLayoutProofs`).  `RegionsAlwaysAgree`: the sums of
  `new` and of `get_memory_regions` are equal for every configuration, by a chain
  of lemmas on rounding.  `PageTablesFit`: with a kernel stack of at most 2 MB
  less 24 KB the estimate suffices; this is the exact premise the finding of
  `layout_tables` lacks.
- **SandboxCalls** (`SandboxCallsProofs`).  `CallsInv` adds to the properties which
  handle exists at each place (`HandlesOK`), where errors and results come from
  (`ErrorsOK`, `ResultsOK`) and what one party has handed to the next
  (`HandOver`, from which `OutputDrained` follows).  A sandbox that is not
  `Intact` never becomes so again (`IntactStep`), which carries the premise of
  `AnswerOfThisCall` through the steps.
- **SharedMemory** (`SharedMemoryProofs`).  `MemoryInvariance`: readers and the
  writer of the lock are those whose accesses are under way, a thread with an
  access has a handle, and what a snapshot or a restore has copied so far agrees
  with the memory.  From it, for any number of threads and any size,
  `SnapshotsAreInstants` and `UsedMemoryIsMapped`.
- **SurrogatePool** (`SurrogatePoolProofs`).  `PoolInv` adds to
  `EveryProcessAccounted` what a driver holds and maps at each place (`PlaceOK`)
  and that without failures memory is only in the process its driver holds
  (`NothingElsewhere`).  The pool is a sequence: that taking its head and
  appending to it move one process are lemmas, and that it starts with every
  process once follows from the cardinality theorems.

Types are proved, and not among the properties of the runs, wherever a module has
a `TypeOK`.  The inductive invariants (`HandlerInv`, `LoopOK`, `CallsInv`,
`PoolInv` and that of `SharedMemory`) are proved only, too; the rest of what is
proved is checked by a run as well, except `PageTablesFit`, whose premise the runs
do not need.

Model-checked only: everything in `FunctionCalls`, `GuestLogs`, `Messages` and `Metrics`;
`NothingOverwritten`, `PointersAgree` and `PagesMapped` of `MemoryLayout`,
`LoadedAsLinked` and `VmStartsInPlace` of `GuestBinary` (what a recursive walk
over a relocation table computes is not provable here for every table);
`GuardsCatchWrappedBounds`, which holds for accesses that start near the memory
(`Span`); and the liveness properties, which need fairness and `ENABLED` and are
out of the prover's reach.

## Disagreements with the documentation

1. `handler_reply` (`hypervisor/hypervisor_handler.rs:621`): when the execution
   has finished by the time its timeout is handled, the reply stays in the
   channel, and every later receive reads the reply of an earlier action.
2. `layout_tables` (`mem/layout.rs:721`): the page-table estimate leaves out the
   kernel stack, whose size is configurable.
3. `calls_rsp` (`hypervisor/kvm.rs:233`): the stack pointer is not put back when
   a run fails.

A call that fails also returns before the state of a multi-use sandbox is
restored (`sandbox/initialized_multi_use.rs:166`); `CleanBetweenCalls` is
therefore stated for sandboxes whose last call did not fail.

`PROJECT.json` quotes the lines that say otherwise.

Also met while modelling, without a run of their own: the answer of
`check_stack_guard` is dropped (`func/guest_dispatch.rs:83`), so that an overwritten
cookie (`OverwriteCookie` in `SandboxCalls`) changes nothing about how a call
ends; the wrapper of a host function without parameters ignores whatever it is
given (`func/host_functions.rs:95`); an `mprotect` that fails leaks the mapping
(`"leaked"` in `SharedMemory`); a sandbox whose evolution fails after its handler
thread was started leaves the thread waiting (`EvolveFailsLate`).

## What is not modelled

- Windows: cancellation of the handler (`WHvCancelRunVirtualProcessor`), the
  allocation of shared memory and the processes themselves; the driver's run loop
  and the pool are modelled.  The Windows code differs from the Linux code in the
  call that is made, not in the steps around it.
- The time limits of `SandboxConfiguration`: no module measures time, a timeout
  is a step that may be taken whenever its wait is under way.
- Seccomp filters, the in-process mode, the chaining of signal handlers, the
  guest's allocator and its C library: lists, libraries or I/O without a protocol
  that a state machine would show.
- The bytes of flatbuffers, ELF and PE headers, which libraries write and read
  (`flatbuffers`, `goblin`); the bytes of a guest error and how `write_error`
  truncates them; the ownership of what the structures of the C API point to.
- The binaries, examples, benchmarks and tests of the repository.

What would come next is a composition of `HypervisorHandler` with the stacks of
`SandboxCalls`, so that a given-up reply and leftovers in the buffers meet in one
model, and theorems for `FunctionCalls` (`OneRunPerClosure`) and `Metrics`
(`OneRegistry`).
