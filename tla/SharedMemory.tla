---------------------------- MODULE SharedMemory ----------------------------
(***************************************************************************)
(* The memory that the host shares with a guest: how it is allocated, how  *)
(* host threads copy bytes to and from it while the guest runs, and how    *)
(* snapshots of it are taken and restored.                                 *)
(*                                                                         *)
(* A HostSharedMemory may be cloned to several threads.  An access checks  *)
(* its bounds, takes the lock for reading and copies byte by byte; so any  *)
(* number of accesses and the guest may be under way at once.  A snapshot  *)
(* or its restoration takes the lock for writing.  All of them try: a lock *)
(* that is taken is an error, never a wait.  Only the guest does not heed  *)
(* that error (HypervisorHandler says when that can happen).               *)
(*                                                                         *)
(* The build is the one of Linux.  A usize is one of 0..UsizeEnd-1; a byte *)
(* is one of Bytes.                                                        *)
(***************************************************************************)
EXTENDS Integers, Sequences

CONSTANTS
    Threads,            \* those that hold a HostSharedMemory
    NoThread,
    Guest,              \* the virtual processor, a holder of the lock
    Bytes, ZeroByte,
    PageSize,           \* PAGE_SIZE_USIZE
    UsizeEnd,           \* a usize is less than it
    Raw,                \* the address that mmap returns
    Requests,           \* sizes asked for
    Offsets, Lengths,   \* of accesses
    MaxSnapshots        \* bounds the stack of snapshots

ASSUME NamesAssumption == NoThread \notin Threads /\ Guest \notin Threads \cup {NoThread}
ASSUME BytesAssumption == ZeroByte \in Bytes
ASSUME SizesAssumption ==
    /\ PageSize \in Nat \ {0}
    /\ UsizeEnd \in Nat \ {0} /\ Raw \in Nat
    /\ Requests \subseteq Nat
    /\ Offsets \subseteq 0..(UsizeEnd - 1) /\ Lengths \subseteq 0..(UsizeEnd - 1)
    /\ MaxSnapshots \in Nat

VARIABLES
    mapping,            \* "none", "mapped", "unmapped" or "leaked"
    guards,             \* the protection of the two guard pages
    holders,            \* of the Arc<HostMapping>
    mem,                \* the usable bytes
    readers, writer,    \* the RwLock
    guest,              \* "out", "locked" or "loose": whether it runs, and under the lock
    access,             \* what each thread is doing
    snapshots, snaplock,    \* the Vec of snapshots and its Mutex
    crashed,            \* the process has received SIGSEGV
    torn                \* history: a guest that runs without the lock wrote
                        \* while the present holder had it for writing

vars == <<mapping, guards, holders, mem, readers, writer, guest, access,
          snapshots, snaplock, crashed, torn>>

-----------------------------------------------------------------------------
(* Sizes and addresses                                                     *)

IsizeMax == UsizeEnd \div 2 - 1

\* What an addition of two usize leaves without overflow checks.
Wrapping(n) == n % UsizeEnd
Overflows(n) == n >= UsizeEnd

total_size(n) == n + 2 * PageSize

mem_size == Len(mem)
base_addr == Raw + PageSize

\* Where a byte of an access falls.
Address(offset, i) == Wrapping(base_addr + offset + i)

Usable(a) == base_addr <= a /\ a < base_addr + mem_size
GuardPage(a) ==
    \/ Raw <= a /\ a < base_addr
    \/ base_addr + mem_size <= a /\ a < base_addr + mem_size + PageSize
Protection(a) == IF a < base_addr THEN guards[1] ELSE guards[2]

\* Mutant: the sum may exceed the size by one.
BoundsOffByOne(offset, len) == Wrapping(offset + len) <= mem_size + 1

\* bounds_check!
WithinBounds(offset, len) == Wrapping(offset + len) <= mem_size

-----------------------------------------------------------------------------
(* Allocation.  A thread has an ExclusiveSharedMemory until it is built.   *)

Idle == [op |-> "idle", offset |-> 0, len |-> 0, i |-> 0, bytes |-> <<>>]

Creating == mapping = "none" /\ holders = {}

Zeroes(n) == [i \in 1..n |-> ZeroByte]

\* The checks before mmap, in their order: size 0, an overflow, a size that is
\* no multiple of the page (an assertion), and one that is too big.
RefusesSize(n) ==
    \/ n = 0
    \/ Overflows(total_size(n))
    \/ total_size(n) % PageSize # 0
    \/ total_size(n) > IsizeMax

Mapped(t, n, g) ==
    /\ mapping' = "mapped" /\ guards' = g /\ holders' = {t}
    /\ mem' = Zeroes(n)
    /\ access' = [access EXCEPT ![t].op = "exclusive"]

New(t, n) ==
    /\ Creating
    /\ ~RefusesSize(n)
    /\ Mapped(t, n, <<"none", "none">>)
    /\ UNCHANGED <<readers, writer, guest, snapshots, snaplock, crashed, torn>>

\* A size that is refused, or an mmap that fails, changes nothing; after an
\* mprotect that fails the pages stay mapped, and nobody holds them.
NewFails(t, n) ==
    /\ Creating
    /\ \/ RefusesSize(n) /\ mapping' = "none"
       \/ ~RefusesSize(n) /\ mapping' \in {"none", "leaked"}
    /\ UNCHANGED <<guards, holders, mem, readers, writer, guest, access,
                   snapshots, snaplock, crashed, torn>>

\* make_memory_executable, for a guest in the process: of the whole region,
\* the guard pages included.
MakeExecutable(t) ==
    /\ access[t].op = "exclusive"
    /\ guards' = <<"rwx", "rwx">>
    /\ UNCHANGED <<mapping, holders, mem, readers, writer, guest, access,
                   snapshots, snaplock, crashed, torn>>

\* The typed writers and copy_from_slice of an ExclusiveSharedMemory: they
\* slice, so that what wraps around panics, like an overflow that is checked.
ExclusiveWrite(t, offset, len, b) ==
    /\ access[t].op = "exclusive"
    /\ ~Overflows(offset + len) /\ WithinBounds(offset, len)
    /\ mem' = [a \in DOMAIN mem |-> IF offset < a /\ a <= offset + len THEN b ELSE mem[a]]
    /\ UNCHANGED <<mapping, guards, holders, readers, writer, guest, access,
                   snapshots, snaplock, crashed, torn>>

\* build: the thread that set the memory up keeps a HostSharedMemory, the
\* GuestSharedMemory goes to the virtual processor.
Build(t) ==
    /\ access[t].op = "exclusive"
    /\ access' = [access EXCEPT ![t] = Idle]
    /\ holders' = {t, Guest}
    /\ UNCHANGED <<mapping, guards, mem, readers, writer, guest, snapshots,
                   snaplock, crashed, torn>>

Clone(t, u) ==
    /\ t \in holders /\ access[t].op = "idle"
    /\ u \notin holders
    /\ holders' = holders \cup {u}
    /\ UNCHANGED <<mapping, guards, mem, readers, writer, guest, access,
                   snapshots, snaplock, crashed, torn>>

\* Mutant: the first handle that is dropped unmaps the memory.
FirstDropUnmaps(left) == TRUE

\* Drop of HostMapping, when the last Arc goes.
LastDropUnmaps(left) == left = {}

\* A holder drops its handle: a thread between two accesses, the processor
\* outside the guest.
DropHandle(h) ==
    /\ h \in holders
    /\ IF h = Guest THEN guest = "out" ELSE access[h].op = "idle"
    /\ holders' = holders \ {h}
    /\ mapping' = IF LastDropUnmaps(holders') THEN "unmapped" ELSE mapping
    /\ UNCHANGED <<guards, mem, readers, writer, guest, access, snapshots,
                   snaplock, crashed, torn>>

-----------------------------------------------------------------------------
(* Accesses of a HostSharedMemory: read, write, copy_to_slice,             *)
(* copy_from_slice, fill.  What is written is one byte, repeated.          *)

Holder(t) == t \in holders /\ access[t].op = "idle"

\* An addition that overflows in the check of the bounds panics in a build that
\* checks arithmetic, and wraps around in one that does not.
MayPanic(offset, len) == Overflows(offset + len)

TryRead == writer = NoThread
TryWrite == writer = NoThread /\ readers = {}

AccessBegins(t, op, offset, len, b) ==
    /\ Holder(t)
    /\ WithinBounds(offset, len)
    /\ TryRead
    /\ readers' = readers \cup {t}
    /\ access' = [access EXCEPT ![t] = [op |-> op, offset |-> offset, len |-> len, i |-> 0,
                                       bytes |-> <<b>>]]
    /\ UNCHANGED <<mapping, guards, holders, mem, writer, guest, snapshots,
                   snaplock, crashed, torn>>

\* A panic, a bounds error and a lock error leave the memory alone.
AccessFails(t, offset, len) ==
    /\ Holder(t)
    /\ MayPanic(offset, len) \/ ~WithinBounds(offset, len) \/ ~TryRead
    /\ UNCHANGED vars

\* One byte.  An access to a page without permissions ends the process.
AccessByte(t) ==
    LET a == Address(access[t].offset, access[t].i)
    IN  /\ access[t].op \in {"read", "write"} /\ access[t].i < access[t].len
        /\ access' = [access EXCEPT ![t].i = @ + 1]
        /\ mem' = IF access[t].op = "write" /\ Usable(a)
                  THEN [mem EXCEPT ![a - base_addr + 1] = access[t].bytes[1]] ELSE mem
        /\ crashed' = (GuardPage(a) /\ Protection(a) = "none")
        /\ UNCHANGED <<mapping, guards, holders, readers, writer, guest, snapshots,
                       snaplock, torn>>

AccessEnds(t) ==
    /\ access[t].op \in {"read", "write"} /\ access[t].i = access[t].len
    /\ access' = [access EXCEPT ![t] = Idle]
    /\ readers' = readers \ {t}
    /\ UNCHANGED <<mapping, guards, holders, mem, writer, guest, snapshots,
                   snaplock, crashed, torn>>

-----------------------------------------------------------------------------
(* The guest: the handler's thread tries the lock, and enters whatever     *)
(* comes of it.                                                            *)

GuestEnters ==
    /\ Guest \in holders /\ guest = "out"
    /\ guest' = IF TryRead THEN "locked" ELSE "loose"
    /\ readers' = IF TryRead THEN readers \cup {Guest} ELSE readers
    /\ UNCHANGED <<mapping, guards, holders, mem, writer, access, snapshots,
                   snaplock, crashed, torn>>

GuestWrites(a, b) ==
    /\ guest # "out"
    /\ mem' = [mem EXCEPT ![a] = b]
    /\ torn' = (torn \/ writer # NoThread)
    /\ UNCHANGED <<mapping, guards, holders, readers, writer, guest, access,
                   snapshots, snaplock, crashed>>

GuestExits ==
    /\ guest # "out"
    /\ guest' = "out"
    /\ readers' = readers \ {Guest}
    /\ UNCHANGED <<mapping, guards, holders, mem, writer, access, snapshots,
                   snaplock, crashed, torn>>

-----------------------------------------------------------------------------
(* Snapshots: push_state, restore_state_from_last_snapshot and             *)
(* pop_and_restore_state_from_snapshot of a SandboxMemoryManager, with     *)
(* with_exclusivity of its HostSharedMemory.                               *)

\* Mutant: with_exclusivity shares the lock.
SharesLock(t, op, bytes) ==
    /\ writer = NoThread
    /\ readers' = readers \cup {t} /\ writer' = writer
    /\ torn' = FALSE
    /\ access' = [access EXCEPT ![t] = [Idle EXCEPT !.op = op, !.bytes = bytes]]

\* with_exclusivity, up to the closure.
BeginExclusive(t, op, bytes) ==
    /\ TryWrite
    /\ writer' = t /\ readers' = readers
    /\ torn' = FALSE
    /\ access' = [access EXCEPT ![t] = [Idle EXCEPT !.op = op, !.bytes = bytes]]

\* And after it.
EndExclusive(t) ==
    /\ writer' = NoThread
    /\ access' = [access EXCEPT ![t] = Idle]

PushStateBegins(t) ==
    /\ Holder(t)
    /\ Len(snapshots) < MaxSnapshots
    /\ BeginExclusive(t, "snapshot", <<>>)
    /\ UNCHANGED <<mapping, guards, holders, mem, guest, snapshots, snaplock, crashed>>

\* copy_all_to_vec
SnapshotByte(t) ==
    /\ access[t].op = "snapshot" /\ Len(access[t].bytes) < mem_size
    /\ access' = [access EXCEPT ![t].bytes = Append(@, mem[Len(@) + 1])]
    /\ UNCHANGED <<mapping, guards, holders, mem, readers, writer, guest, snapshots,
                   snaplock, crashed, torn>>

\* The snapshot is dropped when another thread has the Vec.
PushStateEnds(t) ==
    /\ access[t].op = "snapshot" /\ Len(access[t].bytes) = mem_size
    /\ EndExclusive(t)
    /\ snapshots' = IF snaplock = NoThread THEN Append(snapshots, access[t].bytes) ELSE snapshots
    /\ UNCHANGED <<mapping, guards, holders, mem, readers, guest, snaplock, crashed, torn>>

\* The Vec is locked for the pop alone, and again for the restoration.
PopState(t) ==
    /\ Holder(t)
    /\ snaplock = NoThread /\ snapshots # <<>>
    /\ snapshots' = SubSeq(snapshots, 1, Len(snapshots) - 1)
    /\ access' = [access EXCEPT ![t].op = "popped"]
    /\ UNCHANGED <<mapping, guards, holders, mem, readers, writer, guest, snaplock,
                   crashed, torn>>

MayRestore(t) == t \in holders /\ access[t].op \in {"idle", "popped"}

RestoreBegins(t) ==
    /\ MayRestore(t)
    /\ snaplock = NoThread /\ snapshots # <<>>
    /\ BeginExclusive(t, "restore", snapshots[Len(snapshots)])
    /\ snaplock' = t
    /\ UNCHANGED <<mapping, guards, holders, mem, guest, snapshots, crashed>>

\* The Vec is locked, there is no snapshot, or the memory is in use.
RestoreFails(t) ==
    /\ MayRestore(t)
    /\ snaplock # NoThread \/ snapshots = <<>> \/ ~TryWrite
    /\ access' = [access EXCEPT ![t] = Idle]
    /\ UNCHANGED <<mapping, guards, holders, mem, readers, writer, guest, snapshots,
                   snaplock, crashed, torn>>

\* copy_from_slice(snapshot, 0) of the ExclusiveSharedMemory.
RestoreByte(t) ==
    /\ access[t].op = "restore" /\ access[t].i < mem_size
    /\ mem' = [mem EXCEPT ![access[t].i + 1] = access[t].bytes[access[t].i + 1]]
    /\ access' = [access EXCEPT ![t].i = @ + 1]
    /\ UNCHANGED <<mapping, guards, holders, readers, writer, guest, snapshots,
                   snaplock, crashed, torn>>

RestoreEnds(t) ==
    /\ access[t].op = "restore" /\ access[t].i = mem_size
    /\ EndExclusive(t)
    /\ snaplock' = NoThread
    /\ UNCHANGED <<mapping, guards, holders, mem, readers, guest, snapshots, crashed, torn>>

-----------------------------------------------------------------------------
Init ==
    /\ mapping = "none" /\ guards = <<"rw", "rw">> /\ holders = {}
    /\ mem = <<>>
    /\ readers = {} /\ writer = NoThread
    /\ guest = "out"
    /\ access = [t \in Threads |-> Idle]
    /\ snapshots = <<>> /\ snaplock = NoThread
    /\ crashed = FALSE /\ torn = FALSE

\* The accesses the host makes: from an offset of the layout for any length,
\* or of a value of a fixed size, smaller than a page, at any offset (that of a
\* message is read from the memory of the guest).
Span(offset, len) == offset <= mem_size \/ len <= PageSize

ThreadNext(t) ==
    \/ \E n \in Requests : New(t, n) \/ NewFails(t, n)
    \/ MakeExecutable(t) \/ Build(t)
    \/ \E u \in Threads : Clone(t, u)
    \/ \E offset \in Offsets, len \in Lengths :
          /\ Span(offset, len)
          /\ \/ AccessBegins(t, "read", offset, len, ZeroByte)
             \/ AccessFails(t, offset, len)
             \/ \E b \in Bytes : \/ ExclusiveWrite(t, offset, len, b)
                                \/ AccessBegins(t, "write", offset, len, b)
    \/ AccessByte(t) \/ AccessEnds(t)
    \/ PushStateBegins(t) \/ SnapshotByte(t) \/ PushStateEnds(t)
    \/ PopState(t) \/ RestoreBegins(t) \/ RestoreFails(t) \/ RestoreByte(t) \/ RestoreEnds(t)

GuestNext ==
    \/ GuestEnters \/ GuestExits
    \/ \E a \in DOMAIN mem, b \in Bytes : GuestWrites(a, b)

Next ==
    /\ ~crashed
    /\ \/ \E t \in Threads : ThreadNext(t)
       \/ GuestNext
       \/ \E h \in Threads \cup {Guest} : DropHandle(h)

Spec == Init /\ [][Next]_vars

-----------------------------------------------------------------------------
(* Properties                                                              *)

\* The types of the variables.
TypeOK ==
    /\ mapping \in {"none", "mapped", "unmapped", "leaked"}
    /\ guards \in {<<p, p>> : p \in {"none", "rw", "rwx"}}
    /\ holders \subseteq Threads \cup {Guest}
    /\ mem \in Seq(Bytes)
    /\ readers \subseteq Threads \cup {Guest}
    /\ writer \in Threads \cup {NoThread}
    /\ guest \in {"out", "locked", "loose"}
    /\ access \in
          [Threads -> [op : {"idle", "exclusive", "read", "write", "snapshot", "popped", "restore"},
                       offset : Nat, len : Nat, i : Nat, bytes : Seq(Bytes)]]
    /\ snapshots \in Seq(Seq(Bytes))
    /\ snaplock \in Threads \cup {NoThread}
    /\ crashed \in BOOLEAN /\ torn \in BOOLEAN

\* A snapshot holds the memory of one instant, and a restoration leaves just the
\* snapshot: what is copied so far still agrees with the memory, however long
\* the copy takes and whatever the other threads do meanwhile.  Only a guest
\* that runs without the lock can spoil it (SharedMemorySnapshot,
\* with_exclusivity).
SnapshotIsOneInstant ==
    torn \/
    \A t \in Threads :
        /\ access[t].op = "snapshot" =>
              \A a \in DOMAIN access[t].bytes : access[t].bytes[a] = mem[a]
        /\ access[t].op = "restore" =>
              \A a \in 1..access[t].i : access[t].bytes[a] = mem[a]

\* An access that has passed bounds_check! touches usable memory, except when
\* the sum it checked has wrapped around: then it meets a guard page before
\* anything else (HostSharedMemory::copy_to_slice, copy_from_slice, fill).
GuardsCatchWrappedBounds ==
    \A t \in Threads :
        (/\ ~crashed
         /\ access[t].op \in {"read", "write"} /\ access[t].i < access[t].len
         /\ guards = <<"none", "none">>) =>
            LET a == Address(access[t].offset, access[t].i)
            IN  \/ Usable(a)
                \/ GuardPage(a) /\ Overflows(access[t].offset + access[t].len)

\* The memory stays mapped as long as an access, a snapshot or the guest is
\* using it, and the mapping goes with the last handle (Drop for HostMapping).
MappedWhileUsed ==
    /\ (guest # "out" \/ \E t \in Threads : access[t].op # "idle") => mapping = "mapped"
    /\ mapping = "mapped" <=> holders # {}
=============================================================================
