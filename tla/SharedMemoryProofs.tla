------------------------- MODULE SharedMemoryProofs -------------------------
(***************************************************************************)
(* Whatever the number of threads, the size of the memory and of a page:   *)
(* a snapshot is the memory of one instant, and memory in use is mapped.   *)
(***************************************************************************)
EXTENDS SharedMemory, SequenceTheorems, TLAPS

\* Who is inside the memory, and by which hold on the lock.
LockOK ==
    /\ writer # NoThread => readers = {}
    /\ guest = "locked" => Guest \in readers
    /\ \A t \in Threads :
          /\ access[t].op \in {"read", "write"} => t \in readers
          /\ access[t].op \in {"snapshot", "restore"} => writer = t

\* Who has a handle: whoever uses the memory, and alone while setting it up.
HandlesOK ==
    /\ mapping = "mapped" <=> holders # {}
    /\ guest # "out" => Guest \in holders
    /\ \A t \in Threads :
          /\ access[t].op # "idle" => t \in holders
          /\ access[t].op = "exclusive" => holders = {t}

\* Copies and snapshots have the size of the memory.
SizesOK ==
    /\ mapping = "none" => snapshots = <<>>
    /\ \A n \in 1..Len(snapshots) : Len(snapshots[n]) = Len(mem)
    /\ \A t \in Threads :
          /\ access[t].op = "write" => Len(access[t].bytes) = 1
          /\ access[t].op = "snapshot" => Len(access[t].bytes) <= Len(mem)
          /\ access[t].op = "restore" =>
                access[t].i <= Len(mem) /\ Len(access[t].bytes) = Len(mem)

\* The inductive invariant.
MemoryInv == TypeOK /\ LockOK /\ HandlesOK /\ SizesOK /\ SnapshotIsOneInstant

\* A function on 1..n is a sequence of length n.
LEMMA FunctionIsSeq ==
    ASSUME NEW S, NEW n \in Nat, NEW f \in [1..n -> S]
    PROVE  f \in Seq(S) /\ Len(f) = n
  OBVIOUS

\* Fresh memory, zeroed, has one holder and no snapshots (ExclusiveSharedMemory::new).
LEMMA NewStep ==
    ASSUME MemoryInv, NEW t \in Threads, NEW n \in Requests, New(t, n)
    PROVE  MemoryInv'
<1> USE NamesAssumption, BytesAssumption, SizesAssumption DEF MemoryInv
<1>1. TypeOK'
  <2>1. Zeroes(n) \in [1..n -> Bytes]
    BY DEF Zeroes
  <2>2. Zeroes(n) \in Seq(Bytes)
    BY <2>1, FunctionIsSeq
  <2> QED
    BY <2>2, ZenonT(40) DEF TypeOK, New, Mapped
<1>2. LockOK'
  BY DEF TypeOK, LockOK, HandlesOK, New, Creating, Mapped, Zeroes
<1>3. HandlesOK'
  BY DEF TypeOK, HandlesOK, New, Creating, Mapped, Zeroes
<1>4. SizesOK'
  <2>1. snapshots = <<>> /\ mapping' = "mapped" /\ UNCHANGED snapshots
    BY DEF SizesOK, New, Creating, Mapped
  <2>2. \A u \in Threads : access'[u].op \in {"idle", "exclusive"}
    BY DEF TypeOK, HandlesOK, New, Creating, Mapped
  <2> QED
    BY <2>1, <2>2, EmptySeq DEF SizesOK
<1>5. SnapshotIsOneInstant'
  BY DEF TypeOK, LockOK, HandlesOK, SizesOK, SnapshotIsOneInstant, New, Creating, Mapped, Zeroes
<1> QED
  BY <1>1, <1>2, <1>3, <1>4, <1>5

\* A failed allocation leaves no holder.
LEMMA NewFailsStep ==
    ASSUME MemoryInv, NEW t \in Threads, NEW n \in Requests, NewFails(t, n)
    PROVE  MemoryInv'
<1> USE NamesAssumption, BytesAssumption, SizesAssumption DEF MemoryInv
<1>1. TypeOK'
  BY DEF TypeOK, LockOK, HandlesOK, SizesOK, NewFails, Creating
<1>2. LockOK'
  BY DEF TypeOK, LockOK, HandlesOK, NewFails, Creating
<1>3. HandlesOK'
  BY DEF TypeOK, HandlesOK, NewFails, Creating
<1>4. SizesOK'
  BY <1>1 DEF TypeOK, HandlesOK, SizesOK, NewFails, Creating
<1>5. SnapshotIsOneInstant'
  BY DEF TypeOK, LockOK, HandlesOK, SizesOK, SnapshotIsOneInstant, NewFails, Creating
<1> QED
  BY <1>1, <1>2, <1>3, <1>4, <1>5

\* make_memory_executable only changes the guard pages.
LEMMA MakeExecutableStep ==
    ASSUME MemoryInv, NEW t \in Threads, MakeExecutable(t)
    PROVE  MemoryInv'
<1> USE NamesAssumption, BytesAssumption, SizesAssumption DEF MemoryInv
<1>1. TypeOK'
  BY DEF TypeOK, LockOK, HandlesOK, SizesOK, MakeExecutable
<1>2. LockOK'
  BY DEF TypeOK, LockOK, HandlesOK, MakeExecutable
<1>3. HandlesOK'
  BY DEF TypeOK, HandlesOK, MakeExecutable
<1>4. SizesOK'
  BY <1>1 DEF TypeOK, HandlesOK, SizesOK, MakeExecutable
<1>5. SnapshotIsOneInstant'
  BY DEF TypeOK, LockOK, HandlesOK, SizesOK, SnapshotIsOneInstant, MakeExecutable
<1> QED
  BY <1>1, <1>2, <1>3, <1>4, <1>5

\* The writes of the set-up happen while there is a single holder.
LEMMA ExclusiveWriteStep ==
    ASSUME MemoryInv, NEW t \in Threads,
           NEW offset \in Offsets, NEW len \in Lengths, NEW b \in Bytes,
           ExclusiveWrite(t, offset, len, b)
    PROVE  MemoryInv'
<1> USE NamesAssumption, BytesAssumption, SizesAssumption DEF MemoryInv
<1>1. TypeOK'
  <2>1. mem' \in [1..Len(mem) -> Bytes]
    BY LenProperties DEF TypeOK, ExclusiveWrite
  <2>2. mem' \in Seq(Bytes)
    BY <2>1, FunctionIsSeq, LenProperties DEF TypeOK
  <2> QED
    BY <2>2 DEF TypeOK, ExclusiveWrite
<1>2. LockOK'
  BY DEF TypeOK, LockOK, HandlesOK, ExclusiveWrite
<1>3. HandlesOK'
  BY DEF TypeOK, HandlesOK, ExclusiveWrite
<1>4. SizesOK'
  <2>1. Len(mem') = Len(mem)
    <3>1. mem' \in [1..Len(mem) -> Bytes]
      BY LenProperties DEF TypeOK, ExclusiveWrite
    <3> QED
      BY <3>1, FunctionIsSeq, LenProperties DEF TypeOK
  <2> QED
    BY <2>1 DEF SizesOK, ExclusiveWrite
<1>5. SnapshotIsOneInstant'
  BY DEF TypeOK, LockOK, HandlesOK, SizesOK, SnapshotIsOneInstant, ExclusiveWrite
<1> QED
  BY <1>1, <1>2, <1>3, <1>4, <1>5

\* build hands the memory to one thread and to the guest.
LEMMA BuildStep ==
    ASSUME MemoryInv, NEW t \in Threads, Build(t)
    PROVE  MemoryInv'
<1> USE NamesAssumption, BytesAssumption, SizesAssumption DEF MemoryInv
<1>1. TypeOK'
  BY DEF TypeOK, LockOK, HandlesOK, SizesOK, Build, Idle
<1>2. LockOK'
  BY DEF TypeOK, LockOK, HandlesOK, Build, Idle
<1>3. HandlesOK'
  BY DEF TypeOK, HandlesOK, Build, Idle
<1>4. SizesOK'
  BY <1>1 DEF TypeOK, HandlesOK, SizesOK, Build, Idle
<1>5. SnapshotIsOneInstant'
  BY SMTT(40) DEF TypeOK, LockOK, HandlesOK, SizesOK, SnapshotIsOneInstant, Build, Idle
<1> QED
  BY <1>1, <1>2, <1>3, <1>4, <1>5

\* A clone adds a holder, when the memory is no longer exclusive.
LEMMA CloneStep ==
    ASSUME MemoryInv, NEW t \in Threads, NEW u \in Threads, Clone(t, u)
    PROVE  MemoryInv'
<1> USE NamesAssumption, BytesAssumption, SizesAssumption DEF MemoryInv
<1>1. TypeOK'
  BY DEF TypeOK, LockOK, HandlesOK, SizesOK, Clone
<1>2. LockOK'
  BY DEF TypeOK, LockOK, HandlesOK, Clone
<1>3. HandlesOK'
  <2>1. \A v \in Threads : access[v].op # "exclusive"
    BY DEF HandlesOK, Clone
  <2> QED
    BY <2>1 DEF TypeOK, HandlesOK, Clone
<1>4. SizesOK'
  BY <1>1 DEF TypeOK, HandlesOK, SizesOK, Clone
<1>5. SnapshotIsOneInstant'
  BY DEF SnapshotIsOneInstant, Clone
<1> QED
  BY <1>1, <1>2, <1>3, <1>4, <1>5

\* A handle is dropped by a holder that is not using it (Drop for HostMapping).
LEMMA DropHandleStep ==
    ASSUME MemoryInv, NEW h \in Threads \cup {Guest}, DropHandle(h)
    PROVE  MemoryInv'
<1> USE NamesAssumption, BytesAssumption, SizesAssumption DEF MemoryInv
<1>1. TypeOK'
  BY DEF TypeOK, LockOK, HandlesOK, SizesOK, DropHandle, LastDropUnmaps
<1>2. LockOK'
  BY DEF TypeOK, LockOK, HandlesOK, DropHandle, LastDropUnmaps
<1>3. HandlesOK'
  BY SMTT(40) DEF TypeOK, HandlesOK, DropHandle, LastDropUnmaps
<1>4. SizesOK'
  BY <1>1 DEF TypeOK, HandlesOK, SizesOK, DropHandle, LastDropUnmaps
<1>5. SnapshotIsOneInstant'
  BY DEF TypeOK, LockOK, HandlesOK, SizesOK, SnapshotIsOneInstant, DropHandle, LastDropUnmaps
<1> QED
  BY <1>1, <1>2, <1>3, <1>4, <1>5

\* An access begins with the lock taken for reading.
LEMMA AccessBeginsStep ==
    ASSUME MemoryInv, NEW t \in Threads, NEW op \in {"read", "write"},
           NEW offset \in Offsets, NEW len \in Lengths, NEW b \in Bytes,
           AccessBegins(t, op, offset, len, b)
    PROVE  MemoryInv'
<1> USE NamesAssumption, BytesAssumption, SizesAssumption DEF MemoryInv
<1>1. TypeOK'
  BY SMTT(40) DEF TypeOK, LockOK, HandlesOK, SizesOK, AccessBegins, Holder, TryRead
<1>2. LockOK'
  BY DEF TypeOK, LockOK, HandlesOK, AccessBegins, Holder, TryRead
<1>3. HandlesOK'
  BY DEF TypeOK, HandlesOK, AccessBegins, Holder, TryRead
<1>4. SizesOK'
  BY <1>1 DEF TypeOK, HandlesOK, SizesOK, AccessBegins, Holder, TryRead
<1>5. SnapshotIsOneInstant'
  BY DEF TypeOK, LockOK, HandlesOK, SizesOK, SnapshotIsOneInstant, AccessBegins, Holder, TryRead
<1> QED
  BY <1>1, <1>2, <1>3, <1>4, <1>5

\* A byte written by an access changes no size.
LEMMA AccessByteMem ==
    ASSUME MemoryInv, NEW t \in Threads, AccessByte(t)
    PROVE  mem' \in Seq(Bytes) /\ Len(mem') = Len(mem)
<1> USE NamesAssumption, BytesAssumption, SizesAssumption DEF MemoryInv
<1> DEFINE a == Address(access[t].offset, access[t].i)
<1>1. CASE mem' = mem
  BY <1>1 DEF TypeOK
<1>2. CASE mem' # mem
  <2>1. /\ Usable(a) /\ access[t].op = "write"
        /\ mem' = [mem EXCEPT ![a - base_addr + 1] = access[t].bytes[1]]
    BY <1>2 DEF AccessByte
  <2>2. Len(mem) \in Nat /\ a \in Int /\ base_addr \in Int
    BY LenProperties, SMTT(40) DEF TypeOK, Address, Wrapping, base_addr
  <2>3. a - base_addr + 1 \in 1..Len(mem)
    BY <2>1, <2>2 DEF Usable, mem_size
  <2>4. access[t].bytes[1] \in Bytes
    BY <2>1, ElementOfSeq DEF TypeOK, SizesOK
  <2> QED
    BY <2>1, <2>3, <2>4, ExceptSeq DEF TypeOK
<1> QED
  BY <1>1, <1>2

\* A byte of an access is written under the lock, so during no snapshot.
LEMMA AccessByteStep ==
    ASSUME MemoryInv, NEW t \in Threads, AccessByte(t)
    PROVE  MemoryInv'
<1> USE NamesAssumption, BytesAssumption, SizesAssumption DEF MemoryInv
<1>1. TypeOK'
  <2>1. mem' \in Seq(Bytes)
    BY AccessByteMem
  <2>2. access' \in [Threads -> [op : {"idle", "exclusive", "read", "write", "snapshot", "popped", "restore"},
                                 offset : Nat, len : Nat, i : Nat, bytes : Seq(Bytes)]]
    <3>1. access' = [access EXCEPT ![t].i = @ + 1]
      BY DEF AccessByte
    <3>2. access[t].i + 1 \in Nat
      BY DEF TypeOK
    <3> QED
      BY <3>1, <3>2, Zenon DEF TypeOK
  <2>3. crashed' \in BOOLEAN
    BY Zenon DEF AccessByte
  <2>4. UNCHANGED <<mapping, guards, holders, readers, writer, guest, snapshots, snaplock, torn>>
    BY DEF AccessByte
  <2> QED
    BY <2>1, <2>2, <2>3, <2>4 DEF TypeOK
<1>2. LockOK'
  <2>1. \A u \in Threads : access'[u].op = access[u].op
    BY DEF TypeOK, AccessByte
  <2> QED
    BY <2>1 DEF LockOK, AccessByte
<1>3. HandlesOK'
  BY DEF TypeOK, HandlesOK, AccessByte
<1>4. SizesOK'
  <2>1. Len(mem') = Len(mem)
    BY AccessByteMem
  <2>2. \A u \in Threads :
          /\ access'[u].op = access[u].op /\ access'[u].bytes = access[u].bytes
          /\ access[u].op = "restore" => access'[u].i = access[u].i
    BY DEF TypeOK, AccessByte
  <2> QED
    BY <2>1, <2>2 DEF SizesOK, AccessByte
<1>5. SnapshotIsOneInstant'
  <2>1. writer = NoThread
    BY DEF LockOK, AccessByte
  <2>2. \A u \in Threads : access[u].op \notin {"snapshot", "restore"}
    BY <2>1 DEF LockOK
  <2>3. \A u \in Threads : access'[u].op = access[u].op
    BY DEF TypeOK, AccessByte
  <2> QED
    BY <2>2, <2>3 DEF SnapshotIsOneInstant
<1> QED
  BY <1>1, <1>2, <1>3, <1>4, <1>5

\* An access ends by giving its hold on the lock back.
LEMMA AccessEndsStep ==
    ASSUME MemoryInv, NEW t \in Threads, AccessEnds(t)
    PROVE  MemoryInv'
<1> USE NamesAssumption, BytesAssumption, SizesAssumption DEF MemoryInv
<1>1. TypeOK'
  BY DEF TypeOK, LockOK, HandlesOK, SizesOK, AccessEnds, Idle
<1>2. LockOK'
  BY DEF TypeOK, LockOK, HandlesOK, AccessEnds, Idle
<1>3. HandlesOK'
  BY DEF TypeOK, HandlesOK, AccessEnds, Idle
<1>4. SizesOK'
  BY <1>1 DEF TypeOK, HandlesOK, SizesOK, AccessEnds, Idle
<1>5. SnapshotIsOneInstant'
  BY SMTT(40) DEF TypeOK, LockOK, HandlesOK, SizesOK, SnapshotIsOneInstant, AccessEnds, Idle
<1> QED
  BY <1>1, <1>2, <1>3, <1>4, <1>5

\* The guest enters, with the lock or without it.
LEMMA GuestEntersStep ==
    ASSUME MemoryInv, GuestEnters
    PROVE  MemoryInv'
<1> USE NamesAssumption, BytesAssumption, SizesAssumption DEF MemoryInv
<1>1. TypeOK'
  BY DEF TypeOK, LockOK, HandlesOK, SizesOK, GuestEnters, TryRead
<1>2. LockOK'
  BY DEF TypeOK, LockOK, HandlesOK, GuestEnters, TryRead
<1>3. HandlesOK'
  BY DEF TypeOK, HandlesOK, GuestEnters, TryRead
<1>4. SizesOK'
  BY <1>1 DEF TypeOK, HandlesOK, SizesOK, GuestEnters, TryRead
<1>5. SnapshotIsOneInstant'
  BY DEF TypeOK, LockOK, HandlesOK, SizesOK, SnapshotIsOneInstant, GuestEnters, TryRead
<1> QED
  BY <1>1, <1>2, <1>3, <1>4, <1>5

\* The guest writes during a snapshot only when it runs without the lock.
LEMMA GuestWritesStep ==
    ASSUME MemoryInv, NEW a \in DOMAIN mem, NEW b \in Bytes, GuestWrites(a, b)
    PROVE  MemoryInv'
<1> USE NamesAssumption, BytesAssumption, SizesAssumption DEF MemoryInv
<1>1. TypeOK'
  <2>1. torn' \in BOOLEAN
    BY Zenon DEF GuestWrites
  <2>2. mem' \in Seq(Bytes)
    BY ExceptSeq, LenProperties DEF TypeOK, GuestWrites
  <2> QED
    BY <2>1, <2>2 DEF TypeOK, GuestWrites
<1>2. LockOK'
  BY DEF TypeOK, LockOK, HandlesOK, GuestWrites
<1>3. HandlesOK'
  BY DEF TypeOK, HandlesOK, GuestWrites
<1>4. SizesOK'
  BY <1>1 DEF TypeOK, HandlesOK, SizesOK, GuestWrites
<1>5. SnapshotIsOneInstant'
  BY ZenonT(40) DEF TypeOK, LockOK, HandlesOK, SizesOK, SnapshotIsOneInstant, GuestWrites
<1> QED
  BY <1>1, <1>2, <1>3, <1>4, <1>5

\* The guest leaves and gives the lock back.
LEMMA GuestExitsStep ==
    ASSUME MemoryInv, GuestExits
    PROVE  MemoryInv'
<1> USE NamesAssumption, BytesAssumption, SizesAssumption DEF MemoryInv
<1>1. TypeOK'
  BY DEF TypeOK, LockOK, HandlesOK, SizesOK, GuestExits
<1>2. LockOK'
  BY DEF TypeOK, LockOK, HandlesOK, GuestExits
<1>3. HandlesOK'
  BY DEF TypeOK, HandlesOK, GuestExits
<1>4. SizesOK'
  BY <1>1 DEF TypeOK, HandlesOK, SizesOK, GuestExits
<1>5. SnapshotIsOneInstant'
  BY DEF TypeOK, LockOK, HandlesOK, SizesOK, SnapshotIsOneInstant, GuestExits
<1> QED
  BY <1>1, <1>2, <1>3, <1>4, <1>5

\* A snapshot begins with the lock taken for writing (push_state).
LEMMA PushStateBeginsStep ==
    ASSUME MemoryInv, NEW t \in Threads, PushStateBegins(t)
    PROVE  MemoryInv'
<1> USE NamesAssumption, BytesAssumption, SizesAssumption DEF MemoryInv
<1>1. TypeOK'
  <2>1. [Idle EXCEPT !.op = "snapshot", !.bytes = <<>>] \in
          [op : {"snapshot"}, offset : Nat, len : Nat, i : Nat, bytes : Seq(Bytes)]
    BY EmptySeq DEF Idle
  <2> QED
    BY <2>1 DEF TypeOK, PushStateBegins, BeginExclusive
<1>2. LockOK'
  BY DEF TypeOK, LockOK, HandlesOK, PushStateBegins, Holder, BeginExclusive, TryWrite, Idle
<1>3. HandlesOK'
  BY DEF TypeOK, HandlesOK, PushStateBegins, Holder, BeginExclusive, TryWrite, Idle
<1>4. SizesOK'
  BY <1>1 DEF TypeOK, HandlesOK, SizesOK, PushStateBegins, Holder, BeginExclusive, TryWrite, Idle
<1>5. SnapshotIsOneInstant'
  <2>1. \A u \in Threads \ {t} : access'[u] = access[u]
    BY DEF TypeOK, PushStateBegins, BeginExclusive
  <2>2. \A u \in Threads : access[u].op \notin {"snapshot", "restore"}
    BY DEF LockOK, PushStateBegins, BeginExclusive, TryWrite
  <2>3. access'[t].bytes = <<>> /\ access'[t].op = "snapshot"
    BY DEF TypeOK, PushStateBegins, BeginExclusive, Idle
  <2>4. \A a \in DOMAIN access'[t].bytes : FALSE
    BY <2>3
  <2> QED
    BY <2>1, <2>2, <2>3, <2>4 DEF SnapshotIsOneInstant
<1> QED
  BY <1>1, <1>2, <1>3, <1>4, <1>5

\* One more byte of the snapshot agrees with the memory (copy_all_to_vec).
LEMMA SnapshotByteStep ==
    ASSUME MemoryInv, NEW t \in Threads, SnapshotByte(t)
    PROVE  MemoryInv'
<1> USE NamesAssumption, BytesAssumption, SizesAssumption DEF MemoryInv
<1>1. TypeOK'
  <2>1. Append(access[t].bytes, mem[Len(access[t].bytes) + 1]) \in Seq(Bytes)
    BY LenProperties, ElementOfSeq, AppendProperties DEF TypeOK, SnapshotByte, mem_size
  <2> QED
    BY <2>1, ZenonT(40) DEF TypeOK, SnapshotByte
<1>2. LockOK'
  BY DEF TypeOK, LockOK, HandlesOK, SnapshotByte, mem_size
<1>3. HandlesOK'
  BY DEF TypeOK, HandlesOK, SnapshotByte, mem_size
<1>4. SizesOK'
  <2> DEFINE old == access[t].bytes
             new == Append(old, mem[Len(old) + 1])
  <2>1. mem[Len(old) + 1] \in Bytes /\ old \in Seq(Bytes) /\ Len(old) < Len(mem)
    BY LenProperties, ElementOfSeq DEF TypeOK, SnapshotByte, mem_size
  <2>2. Len(new) <= Len(mem)
    BY <2>1, AppendProperties, LenProperties DEF TypeOK
  <2>3. access'[t].bytes = new /\ access'[t].op = "snapshot"
    BY DEF TypeOK, SnapshotByte
  <2>4. \A u \in Threads \ {t} : access'[u] = access[u]
    BY DEF TypeOK, SnapshotByte
  <2> HIDE DEF old, new
  <2> QED
    BY <2>2, <2>3, <2>4 DEF SizesOK, SnapshotByte
<1>5. SnapshotIsOneInstant'
  <2> DEFINE old == access[t].bytes
             new == Append(old, mem[Len(old) + 1])
  <2>1. mem[Len(old) + 1] \in Bytes /\ old \in Seq(Bytes)
    BY LenProperties, ElementOfSeq DEF TypeOK, SnapshotByte, mem_size
  <2>2. /\ DOMAIN new = 1..(Len(old) + 1) /\ DOMAIN old = 1..Len(old)
        /\ \A k \in 1..Len(old) : new[k] = old[k]
        /\ new[Len(old) + 1] = mem[Len(old) + 1]
        /\ Len(old) \in Nat
    BY <2>1, AppendProperties, LenProperties
  <2>3. access'[t].bytes = new /\ access'[t].op = "snapshot" /\ access[t].op = "snapshot"
    BY DEF TypeOK, SnapshotByte
  <2>4. \A u \in Threads \ {t} : access'[u] = access[u]
    BY DEF TypeOK, SnapshotByte
  <2> HIDE DEF old, new
  <2>5. torn \/ \A k \in 1..(Len(old) + 1) : new[k] = mem[k]
    BY <2>2, <2>3 DEF SnapshotIsOneInstant, old
  <2> QED
    BY <2>2, <2>3, <2>4, <2>5 DEF SnapshotIsOneInstant, SnapshotByte
<1> QED
  BY <1>1, <1>2, <1>3, <1>4, <1>5

\* A finished snapshot has the size of the memory (push_state).
LEMMA PushStateEndsStep ==
    ASSUME MemoryInv, NEW t \in Threads, PushStateEnds(t)
    PROVE  MemoryInv'
<1> USE NamesAssumption, BytesAssumption, SizesAssumption DEF MemoryInv
<1>1. TypeOK'
  BY DEF TypeOK, LockOK, HandlesOK, SizesOK, PushStateEnds, EndExclusive, Idle, mem_size
<1>2. LockOK'
  BY DEF TypeOK, LockOK, HandlesOK, PushStateEnds, EndExclusive, Idle, mem_size
<1>3. HandlesOK'
  BY DEF TypeOK, HandlesOK, PushStateEnds, EndExclusive, Idle, mem_size
<1>4. SizesOK'
  <2>1. access[t].bytes \in Seq(Bytes) /\ Len(access[t].bytes) = Len(mem)
    BY DEF TypeOK, PushStateEnds, mem_size
  <2>2. \A n \in 1..Len(snapshots') : Len(snapshots'[n]) = Len(mem)
    <3>1. CASE snaplock # NoThread
      BY <3>1 DEF SizesOK, PushStateEnds
    <3>2. CASE snaplock = NoThread
      <4>1. snapshots' = Append(snapshots, access[t].bytes)
        BY <3>2 DEF PushStateEnds
      <4>2. /\ Len(snapshots') = Len(snapshots) + 1 /\ Len(snapshots) \in Nat
            /\ \A n \in 1..Len(snapshots) : snapshots'[n] = snapshots[n]
            /\ snapshots'[Len(snapshots) + 1] = access[t].bytes
        BY <2>1, <4>1, AppendProperties, LenProperties DEF TypeOK
      <4> QED
        BY <2>1, <4>2 DEF SizesOK
    <3> QED
      BY <3>1, <3>2
  <2>3. mapping # "none"
    BY DEF HandlesOK, PushStateEnds
  <2> QED
    BY <2>2, <2>3 DEF TypeOK, SizesOK, PushStateEnds, EndExclusive, Idle
<1>5. SnapshotIsOneInstant'
  BY DEF TypeOK, LockOK, HandlesOK, SizesOK, SnapshotIsOneInstant, PushStateEnds, EndExclusive, Idle, mem_size
<1> QED
  BY <1>1, <1>2, <1>3, <1>4, <1>5

\* A sequence without its last element.
LEMMA WithoutLast ==
    ASSUME NEW S, NEW s \in Seq(S), s # <<>>
    PROVE  /\ SubSeq(s, 1, Len(s) - 1) \in Seq(S)
           /\ Len(SubSeq(s, 1, Len(s) - 1)) = Len(s) - 1
           /\ \A n \in 1..(Len(s) - 1) : SubSeq(s, 1, Len(s) - 1)[n] = s[n]
<1>1. Len(s) \in Nat \ {0}
  BY EmptySeq
<1>2. \A i \in 1..(Len(s) - 1) : s[i] \in S
  BY <1>1, ElementOfSeq
<1>3. \A n \in 1..(Len(s) - 1) : SubSeq(s, 1, Len(s) - 1)[n] = s[n]
  BY <1>1
<1>4. SubSeq(s, 1, Len(s) - 1) \in Seq(S)
  BY <1>1, <1>2
<1>5. Len(SubSeq(s, 1, Len(s) - 1)) = Len(s) - 1
  <2> DEFINE k == Len(SubSeq(s, 1, Len(s) - 1))
             m == Len(s)
  <2>1. k = IF 1 <= m - 1 THEN (m - 1) - 1 + 1 ELSE 0
    BY <1>1, <1>2, SubSeqProperties
  <2>2. m \in Nat \ {0}
    BY <1>1
  <2> HIDE DEF k, m
  <2>3. k = m - 1
    BY <2>1, <2>2
  <2> QED
    BY <2>3 DEF k, m
<1> QED
  BY <1>3, <1>4, <1>5

\* The snapshots that a pop leaves.
LEMMA PopSnapshots ==
    ASSUME MemoryInv, NEW t \in Threads, PopState(t)
    PROVE  /\ snapshots' \in Seq(Seq(Bytes))
           /\ \A n \in 1..Len(snapshots') : Len(snapshots'[n]) = Len(mem)
<1> USE DEF MemoryInv
<1>1. Len(snapshots) \in Nat \ {0} /\ \A n \in 1..Len(snapshots) : snapshots[n] \in Seq(Bytes)
  BY EmptySeq, ElementOfSeq DEF TypeOK, PopState
<1>2. /\ snapshots' \in Seq(Seq(Bytes))
      /\ Len(snapshots') = Len(snapshots) - 1
      /\ \A n \in 1..(Len(snapshots) - 1) : snapshots'[n] = snapshots[n]
  BY <1>1, WithoutLast DEF TypeOK, PopState
<1> QED
  BY <1>1, <1>2 DEF SizesOK

\* A pop leaves the memory alone (pop_and_restore_state_from_snapshot).
LEMMA PopStateStep ==
    ASSUME MemoryInv, NEW t \in Threads, PopState(t)
    PROVE  MemoryInv'
<1> USE NamesAssumption, BytesAssumption, SizesAssumption DEF MemoryInv
<1>1. TypeOK'
  <2>1. snapshots' \in Seq(Seq(Bytes))
    BY PopSnapshots
  <2> QED
    BY <2>1, ZenonT(40) DEF TypeOK, PopState
<1>2. LockOK'
  BY DEF TypeOK, LockOK, HandlesOK, PopState, Holder
<1>3. HandlesOK'
  BY DEF TypeOK, HandlesOK, PopState, Holder
<1>4. SizesOK'
  <2>1. \A n \in 1..Len(snapshots') : Len(snapshots'[n]) = Len(mem)
    BY PopSnapshots
  <2>2. mapping # "none"
    BY DEF HandlesOK, PopState, Holder
  <2> QED
    BY <2>1, <2>2 DEF TypeOK, SizesOK, PopState
<1>5. SnapshotIsOneInstant'
  <2>1. access'[t].op = "popped" /\ \A u \in Threads \ {t} : access'[u] = access[u]
    BY DEF TypeOK, PopState
  <2> QED
    BY <2>1 DEF SnapshotIsOneInstant, PopState
<1> QED
  BY <1>1, <1>2, <1>3, <1>4, <1>5

\* The last snapshot has the size of the memory.
LEMMA LastSnapshot ==
    ASSUME MemoryInv, snapshots # <<>>
    PROVE  snapshots[Len(snapshots)] \in Seq(Bytes) /\ Len(snapshots[Len(snapshots)]) = Len(mem)
<1>1. Len(snapshots) \in Nat \ {0}
  BY EmptySeq DEF MemoryInv, TypeOK
<1> QED
  BY <1>1, ElementOfSeq DEF MemoryInv, TypeOK, SizesOK

\* A restoration begins with the lock taken for writing.
LEMMA RestoreBeginsStep ==
    ASSUME MemoryInv, NEW t \in Threads, RestoreBegins(t)
    PROVE  MemoryInv'
<1> USE NamesAssumption, BytesAssumption, SizesAssumption DEF MemoryInv
<1>1. TypeOK'
  <2>1. [Idle EXCEPT !.op = "restore", !.bytes = snapshots[Len(snapshots)]] \in
          [op : {"restore"}, offset : Nat, len : Nat, i : Nat, bytes : Seq(Bytes)]
    BY LastSnapshot DEF Idle, RestoreBegins
  <2> QED
    BY <2>1 DEF TypeOK, RestoreBegins, BeginExclusive
<1>2. LockOK'
  BY DEF TypeOK, LockOK, HandlesOK, RestoreBegins, MayRestore, BeginExclusive, TryWrite, Idle
<1>3. HandlesOK'
  BY DEF TypeOK, HandlesOK, RestoreBegins, MayRestore, BeginExclusive, TryWrite, Idle
<1>4. SizesOK'
  <2>1. access'[t].i = 0 /\ access'[t].bytes = snapshots[Len(snapshots)]
    BY DEF TypeOK, RestoreBegins, BeginExclusive, Idle
  <2>2. \A u \in Threads \ {t} : access'[u] = access[u]
    BY DEF TypeOK, RestoreBegins, BeginExclusive
  <2>3. Len(mem) \in Nat
    BY LenProperties DEF TypeOK
  <2> QED
    BY <2>1, <2>2, <2>3, LastSnapshot, SMTT(40) DEF SizesOK, TypeOK, RestoreBegins, BeginExclusive, Idle
<1>5. SnapshotIsOneInstant'
  BY SMTT(40) DEF TypeOK, LockOK, HandlesOK, SizesOK, SnapshotIsOneInstant, RestoreBegins, MayRestore, BeginExclusive, TryWrite, Idle
<1> QED
  BY <1>1, <1>2, <1>3, <1>4, <1>5

\* A restoration that cannot begin changes nothing in the memory.
LEMMA RestoreFailsStep ==
    ASSUME MemoryInv, NEW t \in Threads, RestoreFails(t)
    PROVE  MemoryInv'
<1> USE NamesAssumption, BytesAssumption, SizesAssumption DEF MemoryInv
<1>1. TypeOK'
  BY DEF TypeOK, LockOK, HandlesOK, SizesOK, RestoreFails, MayRestore, Idle
<1>2. LockOK'
  BY DEF TypeOK, LockOK, HandlesOK, RestoreFails, MayRestore, Idle
<1>3. HandlesOK'
  BY DEF TypeOK, HandlesOK, RestoreFails, MayRestore, Idle
<1>4. SizesOK'
  BY <1>1 DEF TypeOK, HandlesOK, SizesOK, RestoreFails, MayRestore, Idle
<1>5. SnapshotIsOneInstant'
  BY SMTT(40) DEF TypeOK, LockOK, HandlesOK, SizesOK, SnapshotIsOneInstant, RestoreFails, MayRestore, Idle
<1> QED
  BY <1>1, <1>2, <1>3, <1>4, <1>5

\* One more byte of the memory agrees with the snapshot (restore_from_snapshot).
LEMMA RestoreByteStep ==
    ASSUME MemoryInv, NEW t \in Threads, RestoreByte(t)
    PROVE  MemoryInv'
<1> USE NamesAssumption, BytesAssumption, SizesAssumption DEF MemoryInv
<1>1. TypeOK'
  <2>1. mem' \in Seq(Bytes)
    <3>1. access[t].i + 1 \in 1..Len(mem) /\ access[t].i + 1 \in 1..Len(access[t].bytes)
      BY LenProperties, SMTT(40) DEF TypeOK, SizesOK, RestoreByte, mem_size
    <3>2. access[t].bytes[access[t].i + 1] \in Bytes
      BY <3>1, ElementOfSeq DEF TypeOK
    <3> QED
      BY <3>1, <3>2, ExceptSeq DEF TypeOK, RestoreByte
  <2>2. access' \in [Threads -> [op : {"idle", "exclusive", "read", "write", "snapshot", "popped", "restore"},
                                 offset : Nat, len : Nat, i : Nat, bytes : Seq(Bytes)]]
    <3>1. access' = [access EXCEPT ![t].i = @ + 1]
      BY DEF RestoreByte
    <3>2. access[t].i + 1 \in Nat
      BY DEF TypeOK
    <3> QED
      BY <3>1, <3>2, Zenon DEF TypeOK
  <2>3. UNCHANGED <<mapping, guards, holders, readers, writer, guest, snapshots, snaplock, crashed, torn>>
    BY DEF RestoreByte
  <2> QED
    BY <2>1, <2>2, <2>3 DEF TypeOK
<1>2. LockOK'
  <2>1. \A u \in Threads : access'[u].op = access[u].op
    BY DEF TypeOK, RestoreByte
  <2> QED
    BY <2>1 DEF LockOK, RestoreByte
<1>3. HandlesOK'
  BY DEF TypeOK, HandlesOK, RestoreByte, mem_size
<1>4. SizesOK'
  BY <1>1, SMTT(40) DEF TypeOK, HandlesOK, SizesOK, RestoreByte, mem_size
<1>5. SnapshotIsOneInstant'
  BY SMTT(40) DEF TypeOK, LockOK, HandlesOK, SizesOK, SnapshotIsOneInstant, RestoreByte, mem_size
<1> QED
  BY <1>1, <1>2, <1>3, <1>4, <1>5

\* A restoration ends by giving the lock back.
LEMMA RestoreEndsStep ==
    ASSUME MemoryInv, NEW t \in Threads, RestoreEnds(t)
    PROVE  MemoryInv'
<1> USE NamesAssumption, BytesAssumption, SizesAssumption DEF MemoryInv
<1>1. TypeOK'
  BY SMTT(90) DEF TypeOK, LockOK, HandlesOK, SizesOK, RestoreEnds, EndExclusive, Idle, mem_size
<1>2. LockOK'
  BY DEF TypeOK, LockOK, HandlesOK, RestoreEnds, EndExclusive, Idle, mem_size
<1>3. HandlesOK'
  BY DEF TypeOK, HandlesOK, RestoreEnds, EndExclusive, Idle, mem_size
<1>4. SizesOK'
  BY <1>1 DEF TypeOK, HandlesOK, SizesOK, RestoreEnds, EndExclusive, Idle, mem_size
<1>5. SnapshotIsOneInstant'
  BY DEF TypeOK, LockOK, HandlesOK, SizesOK, SnapshotIsOneInstant, RestoreEnds, EndExclusive, Idle, mem_size
<1> QED
  BY <1>1, <1>2, <1>3, <1>4, <1>5

-----------------------------------------------------------------------------
(* The theorems                                                            *)

\* The invariant holds before anything is allocated.
LEMMA MemoryInvInit == Init => MemoryInv
<1> USE NamesAssumption, BytesAssumption, SizesAssumption
<1> SUFFICES ASSUME Init PROVE MemoryInv
  OBVIOUS
<1>1. TypeOK
  BY EmptySeq DEF Init, TypeOK, Idle
<1>2. LockOK /\ HandlesOK
  BY DEF Init, LockOK, HandlesOK, Idle
<1>3. SizesOK /\ SnapshotIsOneInstant
  BY EmptySeq DEF Init, SizesOK, SnapshotIsOneInstant, Idle
<1> QED
  BY <1>1, <1>2, <1>3 DEF MemoryInv

\* Every step of a thread, of the guest or of a drop keeps the invariant.
LEMMA MemoryInvStep == MemoryInv /\ [Next]_vars => MemoryInv'
<1> SUFFICES ASSUME MemoryInv, [Next]_vars PROVE MemoryInv'
  OBVIOUS
<1>1. CASE UNCHANGED vars
  BY <1>1, SMTT(90) DEF MemoryInv, TypeOK, LockOK, HandlesOK, SizesOK, SnapshotIsOneInstant, vars
<1>2. ASSUME NEW t \in Threads, ThreadNext(t) PROVE MemoryInv'
  <2>1. ASSUME NEW n \in Requests, New(t, n) \/ NewFails(t, n) PROVE MemoryInv'
    BY <2>1, NewStep, NewFailsStep
  <2>2. ASSUME MakeExecutable(t) \/ Build(t) \/ \E u \in Threads : Clone(t, u) PROVE MemoryInv'
    BY <2>2, MakeExecutableStep, BuildStep, CloneStep
  <2>3. ASSUME NEW offset \in Offsets, NEW len \in Lengths,
               \/ AccessBegins(t, "read", offset, len, ZeroByte)
               \/ AccessFails(t, offset, len)
               \/ \E b \in Bytes : \/ ExclusiveWrite(t, offset, len, b)
                                  \/ AccessBegins(t, "write", offset, len, b)
        PROVE  MemoryInv'
    BY <1>1, <2>3, AccessBeginsStep, ExclusiveWriteStep, BytesAssumption DEF AccessFails
  <2>4. ASSUME AccessByte(t) \/ AccessEnds(t) PROVE MemoryInv'
    BY <2>4, AccessByteStep, AccessEndsStep
  <2>5. ASSUME PushStateBegins(t) \/ SnapshotByte(t) \/ PushStateEnds(t) \/ PopState(t)
        PROVE  MemoryInv'
    BY <2>5, PushStateBeginsStep, SnapshotByteStep, PushStateEndsStep, PopStateStep
  <2>6. ASSUME RestoreBegins(t) \/ RestoreFails(t) \/ RestoreByte(t) \/ RestoreEnds(t)
        PROVE  MemoryInv'
    BY <2>6, RestoreBeginsStep, RestoreFailsStep, RestoreByteStep, RestoreEndsStep
  <2> QED
    BY <1>2, <2>1, <2>2, <2>3, <2>4, <2>5, <2>6 DEF ThreadNext
<1>3. CASE GuestNext
  BY <1>3, GuestEntersStep, GuestExitsStep, GuestWritesStep DEF GuestNext
<1>4. ASSUME NEW h \in Threads \cup {Guest}, DropHandle(h) PROVE MemoryInv'
  BY <1>4, DropHandleStep
<1> QED
  BY <1>1, <1>2, <1>3, <1>4 DEF Next

\* The invariant of the lock, the handles, the sizes and the snapshots holds always.
THEOREM MemoryInvariance == Spec => []MemoryInv
  BY MemoryInvInit, MemoryInvStep, PTL DEF Spec

\* SharedMemorySnapshot: a snapshot is the memory of one instant, and a
\* restoration leaves just the snapshot, for any number of threads, any size
\* of memory and any accesses, unless a guest runs without the lock.
THEOREM SnapshotsAreInstants == Spec => []SnapshotIsOneInstant
<1>1. MemoryInv => SnapshotIsOneInstant
  BY DEF MemoryInv
<1> QED
  BY <1>1, MemoryInvariance, PTL

\* Drop for HostMapping: memory that an access, a snapshot or the guest uses
\* is mapped, and it is mapped as long as there is a handle.
THEOREM UsedMemoryIsMapped == Spec => []MappedWhileUsed
<1>1. MemoryInv => MappedWhileUsed
  BY DEF MemoryInv, HandlesOK, MappedWhileUsed
<1> QED
  BY <1>1, MemoryInvariance, PTL
=============================================================================
