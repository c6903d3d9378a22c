------------------------------ MODULE IoStack ------------------------------
(***************************************************************************)
(* One of the two I/O buffers of a sandbox, byte by byte.  The first bytes *)
(* hold the stack pointer: the offset of the next free byte.  A push       *)
(* writes the message, after it the offset where the message begins, and   *)
(* then the new stack pointer; a pop follows that offset back.  The host   *)
(* pushes onto the input buffer and pops from the output buffer            *)
(* (push_buffer, try_pop_buffer_into), the guest does the converse         *)
(* (push_shared_output_data, try_pop_shared_input_data_into).              *)
(***************************************************************************)
EXTENDS Integers, Sequences

CONSTANTS
    Msgs, Size, Kind, NoMsg,
    PtrSize,        \* STACK_POINTER_SIZE_BYTES
    BufferSize      \* the configured size of the buffer

ASSUME SizeAssumption == Size \in [Msgs -> Nat \ {0}]
ASSUME PtrSizeAssumption == PtrSize \in Nat \ {0}
ASSUME BufferSizeAssumption == BufferSize \in Nat /\ BufferSize >= PtrSize
ASSUME NoMsgAssumption == NoMsg \notin Msgs

VARIABLES
    dir,            \* "input" or "output"
    mem,            \* the bytes of the buffer
    saved,          \* its bytes in the last snapshot
    ret,            \* the result of the last operation
    \* history: the messages in the buffer and in the snapshot, each with
    \* the offset where it was written
    frames, saved_frames

vars == <<dir, mem, saved, ret, frames, saved_frames>>

-----------------------------------------------------------------------------
Addr == 0..(BufferSize - 1)
\* Byte number k of the integer v, of the message m, and a zero byte.
WordByte(v, k) == [of |-> "word", val |-> v, k |-> k]
MsgByte(m, k) == [of |-> "msg", val |-> m, k |-> k]
Zero == [of |-> "zero", val |-> 0, k |-> 0]

Kinds == {Kind[m] : m \in Msgs}
Result(out, m) == [out |-> out, msg |-> m]

\* The integer v is stored at a; the message m is stored at a.
HasWord(b, a, v) == \A k \in 0..(PtrSize - 1) : b[a + k] = WordByte(v, k)
HasMsg(b, a, m) == \A k \in 0..(Size[m] - 1) : b[a + k] = MsgByte(m, k)

\* read::<u64> and the conversion of the bytes of a message.
ReadWord(a) == CHOOSE v \in 0..BufferSize : HasWord(mem, a, v)
ReadMsg(a) == CHOOSE m \in Msgs : HasMsg(mem, a, m)

\* SandboxMemoryLayout::write sets the stack pointer behind itself.
EmptyBuffer ==
    [a \in Addr |-> IF a < PtrSize THEN WordByte(PtrSize, a) ELSE Zero]

Init ==
    /\ dir \in {"input", "output"}
    /\ mem = EmptyBuffer /\ saved = EmptyBuffer
    /\ ret = Result("none", NoMsg)
    /\ frames = <<>> /\ saved_frames = <<>>

-----------------------------------------------------------------------------
\* The bytes after a push of m with the stack pointer at sp.
Pushed(m, sp) ==
    [a \in Addr |->
        IF a \in sp..(sp + Size[m] - 1) THEN MsgByte(m, a - sp)
        ELSE IF a \in (sp + Size[m])..(sp + Size[m] + PtrSize - 1)
             THEN WordByte(sp, a - sp - Size[m])
        ELSE IF a < PtrSize THEN WordByte(sp + Size[m] + PtrSize, a)
        ELSE mem[a]]

\* Mutant: the popped bytes stay in the buffer.
PoppedNotZeroed(last, sp) ==
    [a \in Addr |-> IF a < PtrSize THEN WordByte(last, a) ELSE mem[a]]

\* The bytes after a pop of what lies between last and sp.
Popped(last, sp) ==
    [a \in Addr |->
        IF a \in last..(sp - 1) THEN Zero
        ELSE IF a < PtrSize THEN WordByte(last, a)
        ELSE mem[a]]

Push(m) ==
    LET sp == ReadWord(0) IN
    \/ /\ sp <= BufferSize /\ sp >= PtrSize
       /\ Size[m] + PtrSize <= BufferSize - sp
       /\ mem' = Pushed(m, sp)
       /\ frames' = Append(frames, [at |-> sp, msg |-> m])
       /\ ret' = Result("pushed", m)
       /\ UNCHANGED <<dir, saved, saved_frames>>
    \/ /\ \/ sp > BufferSize \/ sp < PtrSize
          \/ Size[m] + PtrSize > BufferSize - sp
       /\ ret' = Result("full", NoMsg)
       /\ UNCHANGED <<dir, mem, saved, frames, saved_frames>>

\* Mutant: a message that cannot be converted is dropped.
PopDropsMismatch(kind) ==
    LET sp == ReadWord(0)
        last == ReadWord(sp - PtrSize)
        m == ReadMsg(last)
        inBounds == sp <= BufferSize /\ sp >= 2 * PtrSize
    IN
    \/ /\ ~inBounds
       /\ ret' = Result("empty", NoMsg)
       /\ UNCHANGED <<dir, mem, saved, frames, saved_frames>>
    \/ /\ inBounds
       /\ ret' = IF Kind[m] = kind THEN Result("popped", m) ELSE Result("mismatch", NoMsg)
       /\ mem' = Popped(last, sp)
       /\ frames' = SubSeq(frames, 1, Len(frames) - 1)
       /\ UNCHANGED <<dir, saved, saved_frames>>

Pop(kind) ==
    LET sp == ReadWord(0)
        last == ReadWord(sp - PtrSize)
        m == ReadMsg(last)
        inBounds == sp <= BufferSize /\ sp >= 2 * PtrSize
    IN
    \/ /\ ~inBounds
       /\ ret' = Result("empty", NoMsg)
       /\ UNCHANGED <<dir, mem, saved, frames, saved_frames>>
    \/ /\ inBounds /\ Kind[m] # kind
       /\ ret' = Result("mismatch", NoMsg)
       /\ UNCHANGED <<dir, mem, saved, frames, saved_frames>>
    \/ /\ inBounds /\ Kind[m] = kind
       /\ ret' = Result("popped", m)
       /\ mem' = Popped(last, sp)
       /\ frames' = SubSeq(frames, 1, Len(frames) - 1)
       /\ UNCHANGED <<dir, saved, saved_frames>>

HostPush(m) == dir = "input" /\ Push(m)
HostPop(kind) == dir = "output" /\ Pop(kind)
GuestPush(m) == dir = "output" /\ Push(m)
GuestPop(kind) == dir = "input" /\ Pop(kind)

\* A snapshot of the whole memory is taken; it is copied back.
Snapshot ==
    /\ saved' = mem /\ saved_frames' = frames
    /\ UNCHANGED <<dir, mem, ret, frames>>

Restore ==
    /\ mem' = saved /\ frames' = saved_frames
    /\ UNCHANGED <<dir, saved, ret, saved_frames>>

Next ==
    \/ \E m \in Msgs : HostPush(m) \/ GuestPush(m)
    \/ \E kind \in Kinds : HostPop(kind) \/ GuestPop(kind)
    \/ Snapshot
    \/ Restore

Spec == Init /\ [][Next]_vars

-----------------------------------------------------------------------------
(* Properties.                                                             *)

Frame == [at : Nat, msg : Msgs]
Byte == [of : {"word"}, val : Nat, k : Nat]
        \cup [of : {"msg"}, val : Msgs, k : Nat] \cup {Zero}

\* The buffers are arrays of bytes and the messages have offsets.
TypeOK ==
    /\ dir \in {"input", "output"}
    /\ mem \in [Addr -> Byte] /\ saved \in [Addr -> Byte]
    /\ frames \in Seq(Frame) /\ saved_frames \in Seq(Frame)
    /\ ret \in [out : {"none", "pushed", "full", "popped", "empty", "mismatch"},
                msg : Msgs \cup {NoMsg}]

\* The first offset behind a message and its back pointer.
EndOf(f) == f.at + Size[f.msg] + PtrSize
\* The next free offset.
Free(fs) == IF fs = <<>> THEN PtrSize ELSE EndOf(fs[Len(fs)])

\* The bytes b of a buffer hold the messages fs: messages and back pointers
\* are intact, they follow each other without gaps or overlaps inside the
\* buffer, the stack pointer is behind the last one, and all bytes behind
\* it are zero, so that nothing that was popped can be read again.
Encodes(b, fs) ==
    /\ Free(fs) <= BufferSize
    /\ HasWord(b, 0, Free(fs))
    /\ \A i \in 1..Len(fs) :
          /\ fs[i].at >= PtrSize
          /\ EndOf(fs[i]) <= Free(fs)
          /\ HasMsg(b, fs[i].at, fs[i].msg)
          /\ HasWord(b, fs[i].at + Size[fs[i].msg], fs[i].at)
    /\ Len(fs) >= 1 => fs[1].at = PtrSize
    /\ \A i \in 2..Len(fs) : fs[i].at = EndOf(fs[i - 1])
    /\ \A i, j \in 1..Len(fs) : i < j => EndOf(fs[i]) <= fs[j].at
    /\ \A a \in Addr : a >= Free(fs) => b[a] = Zero

\* Every push, pop, snapshot and restore leaves the buffer and the snapshot
\* well formed.
WellFormed == Encodes(mem, frames) /\ Encodes(saved, saved_frames)

\* The messages without their offsets.
Stack(fs) == [i \in 1..Len(fs) |-> fs[i].msg]

\* The byte buffer behaves like a stack of messages of bounded total size:
\* what a pop reads by following the back pointer is the last message that
\* was pushed, and an operation fails exactly when the stack is empty, full,
\* or has another kind of message on top.
Abstract == INSTANCE Lifo WITH
    Header <- PtrSize, Capacity <- BufferSize,
    stack <- Stack(frames), used <- Free(frames),
    saved_stack <- Stack(saved_frames), saved_used <- Free(saved_frames)

IsLifo == Abstract!Spec

=============================================================================
