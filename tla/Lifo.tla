-------------------------------- MODULE Lifo --------------------------------
(***************************************************************************)
(* What the input and the output buffer of a sandbox promise: a stack of   *)
(* messages of bounded total size.  A message costs its size and a header; *)
(* an operation that fails changes nothing; a pop names the kind of        *)
(* message it expects and leaves a message of another kind on the stack.   *)
(* Snapshots of the sandbox memory save and restore the whole stack.       *)
(***************************************************************************)
EXTENDS Integers, Sequences

CONSTANTS
    Msgs,       \* messages (size-prefixed flatbuffers)
    Size,       \* their sizes in bytes
    Kind,       \* their kinds
    NoMsg,      \* no message
    Header,     \* bytes of a stack pointer
    Capacity    \* bytes of the buffer

VARIABLES
    stack, used,                \* the messages and the bytes in use
    saved_stack, saved_used,    \* the same in the last snapshot
    ret                         \* the result of the last operation

vars == <<stack, used, saved_stack, saved_used, ret>>

Kinds == {Kind[m] : m \in Msgs}
Result(out, m) == [out |-> out, msg |-> m]

Init ==
    /\ stack = <<>> /\ used = Header
    /\ saved_stack = <<>> /\ saved_used = Header
    /\ ret = Result("none", NoMsg)

Push(m) ==
    \/ /\ used + Size[m] + Header <= Capacity
       /\ stack' = Append(stack, m)
       /\ used' = used + Size[m] + Header
       /\ ret' = Result("pushed", m)
       /\ UNCHANGED <<saved_stack, saved_used>>
    \/ /\ used + Size[m] + Header > Capacity
       /\ ret' = Result("full", NoMsg)
       /\ UNCHANGED <<stack, used, saved_stack, saved_used>>

Pop(kind) ==
    \/ /\ stack = <<>>
       /\ ret' = Result("empty", NoMsg)
       /\ UNCHANGED <<stack, used, saved_stack, saved_used>>
    \/ /\ stack # <<>> /\ Kind[stack[Len(stack)]] # kind
       /\ ret' = Result("mismatch", NoMsg)
       /\ UNCHANGED <<stack, used, saved_stack, saved_used>>
    \/ /\ stack # <<>> /\ Kind[stack[Len(stack)]] = kind
       /\ ret' = Result("popped", stack[Len(stack)])
       /\ stack' = SubSeq(stack, 1, Len(stack) - 1)
       /\ used' = used - Size[stack[Len(stack)]] - Header
       /\ UNCHANGED <<saved_stack, saved_used>>

Snapshot ==
    /\ saved_stack' = stack /\ saved_used' = used
    /\ UNCHANGED <<stack, used, ret>>

Restore ==
    /\ stack' = saved_stack /\ used' = saved_used
    /\ UNCHANGED <<saved_stack, saved_used, ret>>

Next ==
    \/ \E m \in Msgs : Push(m)
    \/ \E kind \in Kinds : Pop(kind)
    \/ Snapshot
    \/ Restore

Spec == Init /\ [][Next]_vars

=============================================================================
