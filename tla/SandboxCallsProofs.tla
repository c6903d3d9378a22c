------------------------ MODULE SandboxCallsProofs --------------------------
(***************************************************************************)
(* Proofs about SandboxCalls, for any number of calls and exits, any size  *)
(* of the two buffers and of the guest's stack, and any depth of evolve:   *)
(* first the operations on the memory and on its stacks, the types, the    *)
(* handles and the error buffer, then the output stack and the properties. *)
(***************************************************************************)
EXTENDS SandboxCalls, SequenceTheorems, TLAPS

\* A message pushed on a stack is on top of what was there.
LEMMA AppendFacts ==
    ASSUME NEW S, NEW s \in Seq(S), NEW x \in S
    PROVE  /\ Append(s, x) \in Seq(S)
           /\ Len(Append(s, x)) = Len(s) + 1 /\ Len(s) \in Nat
           /\ Top(Append(s, x)) = x
           /\ Append(s, x) # << >>
           /\ \A i \in 1..Len(s) : Append(s, x)[i] = s[i]
<1>1. Len(s) \in Nat /\ Len(Append(s, x)) = Len(s) + 1
    BY LenProperties, AppendProperties
<1>2. QED BY <1>1, AppendProperties, EmptySeq DEF Top

\* A pop takes the top and leaves what was below it.
LEMMA PopFacts ==
    ASSUME NEW S, NEW s \in Seq(S), s # << >>
    PROVE  /\ Pop(s) \in Seq(S) /\ Top(s) \in S
           /\ Len(Pop(s)) = Len(s) - 1 /\ Len(s) \in Nat /\ Len(s) >= 1
           /\ \A i \in 1..Len(Pop(s)) : Pop(s)[i] = s[i]
           /\ Len(s) = 1 => Pop(s) = << >>
<1>1. Len(s) \in Nat /\ Len(s) > 0
    BY EmptySeq, LenProperties
<1>2. Top(s) \in S
    BY <1>1, ElementOfSeq DEF Top
<1>3. \A i \in 1..(Len(s) - 1) : s[i] \in S
    BY <1>1, ElementOfSeq
<1>4. /\ Pop(s) \in Seq(S) /\ Len(Pop(s)) = Len(s) - 1
      /\ \A i \in 1..(Len(s) - 1) : Pop(s)[i] = s[i]
    <2>1. \A i \in 1..(Len(s) - 1) : s[i] \in S /\ 1 + i - 1 = i
        BY <1>1, <1>3
    <2> DEFINE n == Len(s) - 1
    <2>a. n \in Nat /\ 1 \in Int /\ \A i \in 1..n : s[i] \in S
        BY <1>1, <1>3
    <2> HIDE DEF n
    <2>b. SubSeq(s, 1, n) \in Seq(S)
        BY <2>a, SubSeqProperties
    <2>c. Len(SubSeq(s, 1, n)) = n
        BY <2>a
    <2>2. /\ SubSeq(s, 1, Len(s) - 1) \in Seq(S)
          /\ Len(SubSeq(s, 1, Len(s) - 1)) = Len(s) - 1
        BY <2>b, <2>c DEF n
    <2>3. \A i \in 1..(Len(s) - 1) : SubSeq(s, 1, Len(s) - 1)[i] = s[i]
        BY <1>1, <2>1
    <2>4. QED BY <2>2, <2>3 DEF Pop
<1>5. Len(s) = 1 => Pop(s) = << >>
    BY <1>4, EmptySeq
<1>6. QED BY <1>1, <1>2, <1>4, <1>5

\* The fields of a memory.
LEMMA MemoryFields ==
    ASSUME NEW m \in Memory
    PROVE  /\ m.input \in Seq(Msg) /\ m.output \in Seq(Msg)
           /\ m.error \in Nat /\ m.cookie \in BOOLEAN /\ m.data \in Nat
BY DEF Memory

\* A memory with another stack.
LEMMA WithFacts ==
    ASSUME NEW m \in Memory, NEW s \in Seq(Msg)
    PROVE  /\ WithInput(m, s) \in Memory /\ WithOutput(m, s) \in Memory
           /\ WithInput(m, s).input = s /\ WithInput(m, s).output = m.output
           /\ WithInput(m, s).error = m.error
           /\ WithOutput(m, s).output = s /\ WithOutput(m, s).input = m.input
           /\ WithOutput(m, s).error = m.error
BY MemoryFields DEF WithInput, WithOutput, Memory

\* Messages are made of a kind and a number.
LEMMA MsgFacts ==
    ASSUME NEW k \in MsgKinds, NEW i \in Nat
    PROVE  /\ [kind |-> k, id |-> i] \in Msg
           /\ [kind |-> k, id |-> i].kind = k
           /\ [kind |-> k, id |-> i].id = i
BY DEF Msg, MsgKinds

\* What pushing on a stack of the memory does.
LEMMA PushFacts ==
    ASSUME NEW m \in Memory, NEW k \in MsgKinds, NEW i \in Nat
    PROVE  /\ PushInput(m, k, i) \in Memory
           /\ Holds(PushInput(m, k, i).input, k)
           /\ Top(PushInput(m, k, i).input).id = i
           /\ PushInput(m, k, i).output = m.output
           /\ PushInput(m, k, i).error = m.error
           /\ PushOutput(m, k, i) \in Memory
           /\ Holds(PushOutput(m, k, i).output, k)
           /\ Top(PushOutput(m, k, i).output).id = i
           /\ PushOutput(m, k, i).error = m.error
<1> DEFINE x == [kind |-> k, id |-> i]
<1>1. x \in Msg /\ x.kind = k /\ x.id = i
    BY MsgFacts
<1> HIDE DEF x
<1>2. m.input \in Seq(Msg) /\ m.output \in Seq(Msg)
    BY MemoryFields
<1>3. /\ Append(m.input, x) \in Seq(Msg) /\ Append(m.output, x) \in Seq(Msg)
      /\ Top(Append(m.input, x)) = x /\ Top(Append(m.output, x)) = x
      /\ Append(m.input, x) # << >> /\ Append(m.output, x) # << >>
    BY <1>1, <1>2, AppendFacts
<1>4. PushInput(m, k, i) = WithInput(m, Append(m.input, x))
    BY DEF PushInput, x
<1>5. PushOutput(m, k, i) = WithOutput(m, Append(m.output, x))
    BY DEF PushOutput, x
<1>6. /\ WithInput(m, Append(m.input, x)) \in Memory
      /\ WithInput(m, Append(m.input, x)).input = Append(m.input, x)
      /\ WithInput(m, Append(m.input, x)).output = m.output
      /\ WithInput(m, Append(m.input, x)).error = m.error
    BY <1>3, WithFacts
<1>7. /\ WithOutput(m, Append(m.output, x)) \in Memory
      /\ WithOutput(m, Append(m.output, x)).output = Append(m.output, x)
      /\ WithOutput(m, Append(m.output, x)).error = m.error
    BY <1>3, WithFacts
<1>8. QED BY <1>1, <1>3, <1>4, <1>5, <1>6, <1>7, Zenon DEF Holds

\* What popping from a stack of the memory does.
LEMMA PopsFacts ==
    ASSUME NEW m \in Memory
    PROVE  /\ m.input # << >> =>
                /\ PopInput(m) \in Memory /\ Top(m.input) \in Msg
                /\ PopInput(m).output = m.output /\ PopInput(m).error = m.error
           /\ m.output # << >> =>
                /\ PopOutput(m) \in Memory /\ Top(m.output) \in Msg
                /\ PopOutput(m).output = Pop(m.output)
                /\ PopOutput(m).input = m.input /\ PopOutput(m).error = m.error
<1>1. m.input \in Seq(Msg) /\ m.output \in Seq(Msg)
    BY MemoryFields
<1>2. QED BY <1>1, PopFacts, WithFacts DEF PopInput, PopOutput

-----------------------------------------------------------------------------
(* The type invariant *)

\* The snapshots are memories.
LEMMA SnapshotFacts ==
    ASSUME TypeOK, snapshots # << >>
    PROVE  Top(snapshots) \in Memory /\ Pop(snapshots) \in Seq(Memory)
BY PopFacts DEF TypeOK

\* Every step keeps the types.
LEMMA TypeStep ==
    ASSUME TypeOK, HandlesOK, [Next]_vars
    PROVE  TypeOK'
<1> USE CallsAssumption DEF owner, MsgKinds
<1>m. /\ mem \in Memory /\ call \in Nat /\ exits \in Nat
      /\ call + 1 \in Nat /\ exits + 1 \in Nat
    BY DEF TypeOK
<1>f. /\ mem.input \in Seq(Msg) /\ mem.output \in Seq(Msg)
      /\ mem.error \in Nat /\ mem.cookie \in BOOLEAN /\ mem.data \in Nat
    BY <1>m, MemoryFields
<1>i. mem.input # << >> => /\ Top(mem.input) \in Msg /\ Pop(mem.input) \in Seq(Msg)
                           /\ PopInput(mem) \in Memory
    BY <1>m, <1>f, PopFacts, PopsFacts
<1>o. mem.output # << >> => /\ Top(mem.output) \in Msg /\ PopOutput(mem) \in Memory
                            /\ Top(mem.output).id \in Nat
    BY <1>m, PopsFacts DEF Msg
<1>s. snapshots # << >> => Top(snapshots) \in Memory /\ Pop(snapshots) \in Seq(Memory)
    BY SnapshotFacts
<1>1. ASSUME NEW kind \in {"toMulti", "toSingle"}, EvolveUninitialized(kind)
      PROVE  TypeOK'
    BY <1>1, <1>m, <1>s DEF EvolveUninitialized, TypeOK, Lives
<1>2. CASE NewCallContext
    BY <1>2, <1>m, <1>s DEF NewCallContext, TypeOK, Lives
<1>3. CASE Finish
    BY <1>3, <1>m, <1>s DEF Finish, RestoreState, TypeOK, Lives
<1>4. CASE EvolveMulti
    BY <1>4, <1>m, <1>s DEF EvolveMulti, TypeOK, Lives
<1>5. ASSUME NEW ok \in BOOLEAN, EvolveReturns(ok)
      PROVE  TypeOK'
    BY <1>5, <1>m, AppendFacts DEF EvolveReturns, TypeOK, Lives
<1>6. CASE Devolve
    <2>1. snapshots # << >>
        BY <1>6 DEF Devolve, HandlesOK, Reusable
    <2>2. snapshots' \in Seq(Memory)
        BY <1>6, <2>1, <1>s DEF Devolve
    <2>3. snapshots' # << >> => Top(snapshots') \in Memory
        BY <2>2, PopFacts
    <2>4. mem' \in Memory
        BY <1>6, <2>3, <1>m DEF Devolve
    <2>5. QED BY <1>6, <2>2, <2>4 DEF Devolve, TypeOK, Lives
<1>7. CASE CallFromFunc
    BY <1>7, <1>m, <1>s DEF CallFromFunc, TypeOK, Lives
<1>8. CASE DropSandbox
    BY <1>8, <1>m, <1>s DEF DropSandbox, TypeOK, Lives
<1>9. ASSUME NEW fits \in BOOLEAN, CallFunctionOnGuest(fits)
      PROVE  TypeOK'
    <2>1. PushInput(mem, "call", call + 1) \in Memory
        BY <1>m, PushFacts
    <2>2. mem' \in Memory /\ call' \in Nat
        BY <1>9, <2>1, <1>m DEF CallFunctionOnGuest
    <2>3. QED BY <1>9, <2>2, <1>m, SMTT(40) DEF CallFunctionOnGuest, Consumed, Released, Callable,
                                   Outcomes, TypeOK, Lives
<1>10. CASE Dispatch
    <2>1. mem' \in Memory /\ popped' \in Msg
        BY <1>10, <1>f, <1>i, <1>m DEF Dispatch, Holds, Memory
    <2>2. QED BY <1>10, <2>1 DEF Dispatch, TypeOK
<1>11. CASE StackExhausted
    BY <1>11, <1>m, <1>s DEF StackExhausted, TypeOK, Lives
<1>12. ASSUME NEW reads \in BOOLEAN, CallHostFunction(reads)
      PROVE  TypeOK'
    <2>1. PushOutput(mem, "host", exits + 1) \in Memory
        BY <1>m, PushFacts
    <2>2. QED BY <1>12, <2>1, <1>m DEF CallHostFunction, Send, TypeOK
<1>13. CASE LogMessage
    <2>1. PushOutput(mem, "log", exits + 1) \in Memory
        BY <1>m, PushFacts
    <2>2. QED BY <1>13, <2>1, <1>m DEF LogMessage, Send, TypeOK
<1>14. CASE Abort
    BY <1>14, <1>m, <1>s DEF Abort, TypeOK, Lives
<1>15. CASE ReadReply
    BY <1>15, <1>i DEF ReadReply, Holds, TypeOK
<1>16. CASE OverwriteCookie
    <2>1. mem' \in Memory
        BY <1>16, <1>f DEF OverwriteCookie, Memory
    <2>2. QED BY <1>16, <2>1 DEF OverwriteCookie, TypeOK
<1>17. ASSUME NEW fits \in BOOLEAN, NEW kind \in {"result", "garbled"},
             ReturnOk(fits, kind)
      PROVE  TypeOK'
    <2>1. PushOutput(mem, kind, call) \in Memory
        BY <1>m, PushFacts
    <2>2. mem' \in Memory
        BY <1>17, <2>1, <1>m DEF ReturnOk
    <2>3. QED BY <1>17, <2>2 DEF ReturnOk, TypeOK
<1>18. CASE ReturnErr
    <2>1. mem' \in Memory
        BY <1>18, <1>f, <1>m DEF ReturnErr, Memory
    <2>2. QED BY <1>18, <2>1 DEF ReturnErr, TypeOK
<1>19. ASSUME NEW fails \in BOOLEAN, OutbCallFunction(fails)
      PROVE  TypeOK'
    <2>1. popped' = Top(mem.output) /\ mem.output # << >>
        BY <1>19 DEF OutbCallFunction, Holds
    <2>2. PushInput(PopOutput(mem), "ret", Top(mem.output).id) \in Memory
        BY <2>1, <1>o, PushFacts
    <2>3. mem' \in Memory
        BY <1>19, <2>1, <2>2, <1>o DEF OutbCallFunction
    <2>4. QED BY <1>19, <2>1, <2>3, <1>o DEF OutbCallFunction, TypeOK
<1>20. CASE OutbLog
    BY <1>20, <1>o DEF OutbLog, Holds, TypeOK
<1>21. CASE OutbAbort
    BY <1>21, <1>m, <1>s DEF OutbAbort, TypeOK, Lives
<1>22. CASE Fault
    BY <1>22, <1>m, <1>s DEF Fault, TypeOK, Lives
<1>23. CASE Initialised
    BY <1>23, <1>m DEF Initialised, TypeOK, Lives
<1>24. CASE InitialiseFails
    BY <1>24, <1>m, <1>s DEF InitialiseFails, TypeOK, Lives
<1>25. CASE ReturnsResult
    <2>1. mem' \in Memory /\ popped' \in Msg /\ popped'.id \in Nat
        BY <1>25, <1>o, <1>s DEF ReturnsResult, Holds, RestoreState
    <2>2. QED BY <1>25, <2>1, <1>m DEF ReturnsResult, Returns, Released, Outcomes, TypeOK, Lives
<1>26. CASE ReturnsGuestError
    BY <1>26, <1>m, <1>f DEF ReturnsGuestError, Returns, Released, Outcomes, TypeOK, Lives
<1>27. CASE NoResult
    BY <1>27, <1>m DEF NoResult, Returns, Released, Outcomes, TypeOK, Lives
<1>28. CASE RunFailed
    BY <1>28, <1>m DEF RunFailed, Interrupted, Returns, Released, Outcomes, TypeOK, Lives
<1>29. ASSUME NEW inStep \in BOOLEAN, Cancel(inStep)
      PROVE  TypeOK'
    <2>1. mem' \in Memory /\ rsp' \in 0..StackFrames
        BY <1>29, <1>m, <1>s DEF Cancel, RestoreState, Interrupted, TypeOK
    <2>2. outcome' \in Outcomes
        BY <1>29, <1>m DEF Cancel, Returns, Outcomes
    <2>3. QED BY <1>29, <2>1, <2>2 DEF Cancel, Returns, Released, TypeOK, Lives
<1>30. CASE Hung
    BY <1>30, <1>m DEF Hung, Outcomes, TypeOK, Lives
<1>31. CASE FinishedWhileCancelling
    <2>1. mem' \in Memory /\ popped' \in Msg
        <3>1. CASE UNCHANGED <<mem, popped>>
            BY <3>1 DEF TypeOK
        <3>2. CASE Holds(mem.output, "result") /\ popped' = Top(mem.output)
                   /\ (RestoreState \/ mem' = PopOutput(mem))
            BY <3>2, <1>o, <1>s DEF Holds, RestoreState
        <3>3. QED BY <1>31, <3>1, <3>2 DEF FinishedWhileCancelling
    <2>2. outcome' \in Outcomes
        <3>1. popped'.id \in Nat
            BY <2>1 DEF Msg
        <3>2. QED BY <1>31, <3>1, <1>f, <1>m, SMTT(30) DEF FinishedWhileCancelling, Outcomes
    <2>3. rsp' \in 0..StackFrames
        BY <1>31 DEF FinishedWhileCancelling, Interrupted, TypeOK
    <2>4. QED BY <1>31, <2>1, <2>2, <2>3 DEF FinishedWhileCancelling, TypeOK, Lives
<1>32. CASE ReplyUnread
    <2>1. rsp' \in 0..StackFrames
        BY <1>32 DEF ReplyUnread, Interrupted, TypeOK
    <2>2. QED BY <1>32, <2>1 DEF ReplyUnread, TypeOK
<1>33. CASE UNCHANGED vars
    BY <1>33 DEF vars, TypeOK, Lives
<1>34. QED
    BY <1>1, <1>2, <1>3, <1>4, <1>5, <1>6, <1>7, <1>8, <1>9, <1>10, <1>11, <1>12,
       <1>13, <1>14, <1>15, <1>16, <1>17, <1>18, <1>19, <1>20, <1>21, <1>22, <1>23,
       <1>24, <1>25, <1>26, <1>27, <1>28, <1>29, <1>30, <1>31, <1>32, <1>33,
       ZenonT(30) DEF Next, OwnerNext, GuestNext, HostNext

-----------------------------------------------------------------------------
(* Handles and snapshots *)

\* Every step keeps the relation between the handle, the snapshots and the
\* call in progress.
LEMMA HandlesStep ==
    ASSUME TypeOK, HandlesOK, HandOver, [Next]_vars
    PROVE  HandlesOK'
<1> USE DEF owner, Reusable, OneShot, MsgKinds
<1>s. snapshots \in Seq(Memory) /\ Len(snapshots) \in Nat /\ mem \in Memory
    BY LenProperties DEF TypeOK
<1>1. ASSUME NEW kind \in {"toMulti", "toSingle"}, EvolveUninitialized(kind)
      PROVE  HandlesOK'
    BY <1>1, <1>s DEF EvolveUninitialized, HandlesOK
<1>2. CASE NewCallContext
    BY <1>2, <1>s DEF NewCallContext, HandlesOK
<1>3. CASE Finish
    BY <1>3, <1>s DEF Finish, RestoreState, HandlesOK
<1>4. CASE EvolveMulti
    BY <1>4, <1>s DEF EvolveMulti, HandlesOK
<1>5. ASSUME NEW ok \in BOOLEAN, EvolveReturns(ok)
      PROVE  HandlesOK'
    <2>1. Leftover(mem.output) /\ snapshots # << >>
        BY <1>5 DEF EvolveReturns, HandlesOK, HandOver, Leftover
    <2>2. CASE ok
        <3>1. snapshots' = Append(snapshots, mem) /\ snapshots' # << >>
            BY <1>5, <2>2, <1>s, AppendFacts DEF EvolveReturns
        <3>2. Len(snapshots') = Len(snapshots) + 1 /\ Top(snapshots') = mem
            BY <3>1, <1>s, AppendFacts
        <3>3. \A i \in 1..Len(snapshots) : snapshots'[i] = snapshots[i]
            BY <3>1, <1>s, AppendFacts
        <3>4. \A i \in 1..Len(snapshots') : Leftover(snapshots'[i].output)
            BY <3>2, <3>3, <2>1, <1>s DEF HandlesOK, Top
        <3>5. QED BY <1>5, <2>2, <3>1, <3>4 DEF EvolveReturns, HandlesOK
    <2>3. CASE ~ok
        BY <1>5, <2>3 DEF EvolveReturns, HandlesOK
    <2>4. QED BY <2>2, <2>3
<1>6. CASE Devolve
    <2>1. snapshots # << >>
        BY <1>6 DEF Devolve, HandlesOK
    <2>2. /\ snapshots' = Pop(snapshots) /\ Len(snapshots') = Len(snapshots) - 1
          /\ \A i \in 1..Len(snapshots') : snapshots'[i] = snapshots[i]
        BY <1>6, <2>1, <1>s, PopFacts DEF Devolve
    <2>3. \A i \in 1..Len(snapshots') : Leftover(snapshots'[i].output)
        BY <2>2, <1>s DEF HandlesOK
    <2>4. snapshots' = << >> => life' = "gone"
        BY <1>6 DEF Devolve
    <2>5. snapshots' # << >> => life' = "multi"
        BY <1>6 DEF Devolve
    <2>6. QED BY <1>6, <2>3, <2>4, <2>5 DEF Devolve, HandlesOK
<1>7. CASE CallFromFunc
    BY <1>7, <1>s DEF CallFromFunc, HandlesOK
<1>8. CASE DropSandbox
    BY <1>8, <1>s DEF DropSandbox, HandlesOK
<1>9. ASSUME NEW fits \in BOOLEAN, CallFunctionOnGuest(fits)
      PROVE  HandlesOK'
    BY <1>9 DEF CallFunctionOnGuest, Consumed, Released, Callable, HandlesOK
<1>10. CASE Dispatch
    BY <1>10, <1>s DEF Dispatch, HandlesOK
<1>11. CASE StackExhausted
    BY <1>11, <1>s DEF StackExhausted, HandlesOK
<1>12. ASSUME NEW reads \in BOOLEAN, CallHostFunction(reads)
      PROVE  HandlesOK'
    BY <1>12, <1>s DEF CallHostFunction, Send, HandlesOK
<1>13. CASE LogMessage
    BY <1>13, <1>s DEF LogMessage, Send, HandlesOK
<1>14. CASE Abort
    BY <1>14, <1>s DEF Abort, HandlesOK
<1>15. CASE ReadReply
    BY <1>15, <1>s DEF ReadReply, HandlesOK
<1>16. CASE OverwriteCookie
    BY <1>16, <1>s DEF OverwriteCookie, HandlesOK
<1>17. ASSUME NEW fits \in BOOLEAN, NEW kind \in {"result", "garbled"},
             ReturnOk(fits, kind)
      PROVE  HandlesOK'
    BY <1>17, <1>s DEF ReturnOk, HandlesOK
<1>18. CASE ReturnErr
    BY <1>18, <1>s DEF ReturnErr, HandlesOK
<1>19. ASSUME NEW fails \in BOOLEAN, OutbCallFunction(fails)
      PROVE  HandlesOK'
    BY <1>19, <1>s DEF OutbCallFunction, HandlesOK
<1>20. CASE OutbLog
    BY <1>20, <1>s DEF OutbLog, HandlesOK
<1>21. CASE OutbAbort
    BY <1>21, <1>s DEF OutbAbort, HandlesOK
<1>22. CASE Fault
    BY <1>22, <1>s DEF Fault, HandlesOK
<1>23. CASE Initialised
    <2>1. CASE life = "toMulti"
        <3>1. Leftover(mem.output)
            BY <1>23, <2>1 DEF Initialised, HandOver, Leftover
        <3>2. snapshots' = <<mem>> /\ Len(snapshots') = 1 /\ snapshots'[1] = mem
            BY <1>23, <2>1 DEF Initialised
        <3>3. snapshots' # << >>
            BY <3>2
        <3>4. QED BY <1>23, <2>1, <3>1, <3>2, <3>3 DEF Initialised, HandlesOK
    <2>2. CASE life = "toSingle"
        BY <1>23, <2>2 DEF Initialised, HandlesOK
    <2>3. QED BY <1>23, <2>1, <2>2 DEF Initialised
<1>24. CASE InitialiseFails
    BY <1>24, <1>s DEF InitialiseFails, HandlesOK
<1>25. CASE ReturnsResult
    <2>1. /\ life' = Released(life) /\ at' = "idle" /\ snapshots' = snapshots /\ Called
          /\ at # "idle"
        BY <1>25 DEF ReturnsResult, Returns
    <2>2. QED BY <2>1 DEF Released, Called, HandlesOK
<1>26. CASE ReturnsGuestError
    <2>1. /\ life' = Released(life) /\ at' = "idle" /\ snapshots' = snapshots /\ Called
          /\ at # "idle"
        BY <1>26 DEF ReturnsGuestError, Returns
    <2>2. QED BY <2>1 DEF Released, Called, HandlesOK
<1>27. CASE NoResult
    <2>1. /\ life' = Released(life) /\ at' = "idle" /\ snapshots' = snapshots /\ Called
          /\ at # "idle"
        BY <1>27 DEF NoResult, Returns
    <2>2. QED BY <2>1 DEF Released, Called, HandlesOK
<1>28. CASE RunFailed
    <2>1. /\ life' = Released(life) /\ at' = "idle" /\ snapshots' = snapshots /\ Called
          /\ at # "idle"
        BY <1>28 DEF RunFailed, Returns
    <2>2. QED BY <2>1 DEF Released, Called, HandlesOK
<1>29. ASSUME NEW inStep \in BOOLEAN, Cancel(inStep)
      PROVE  HandlesOK'
    <2>1. /\ life' \in {Released(life), "adrift"} /\ at' = "idle"
          /\ snapshots' = snapshots /\ Called /\ at # "idle"
        BY <1>29 DEF Cancel, Returns
    <2>2. QED BY <2>1 DEF Released, Called, HandlesOK
<1>30. CASE Hung
    BY <1>30 DEF Hung, HandlesOK
<1>31. CASE FinishedWhileCancelling
    BY <1>31 DEF FinishedWhileCancelling, HandlesOK
<1>32. CASE ReplyUnread
    BY <1>32 DEF ReplyUnread, HandlesOK
<1>33. CASE UNCHANGED vars
    BY <1>33 DEF vars, HandlesOK
<1>34. QED
    BY <1>1, <1>2, <1>3, <1>4, <1>5, <1>6, <1>7, <1>8, <1>9, <1>10, <1>11, <1>12,
       <1>13, <1>14, <1>15, <1>16, <1>17, <1>18, <1>19, <1>20, <1>21, <1>22, <1>23,
       <1>24, <1>25, <1>26, <1>27, <1>28, <1>29, <1>30, <1>31, <1>32, <1>33,
       ZenonT(30) DEF Next, OwnerNext, GuestNext, HostNext

-----------------------------------------------------------------------------
(* The error buffer *)

\* Every step keeps the error buffer in step with the call.
LEMMA ErrorsStep ==
    ASSUME TypeOK, HandlesOK, ErrorsOK, StacksMatch, [Next]_vars
    PROVE  ErrorsOK'
<1> USE DEF owner, MsgKinds
<1>m. /\ mem \in Memory /\ call \in Nat /\ exits \in Nat
      /\ call + 1 \in Nat /\ exits + 1 \in Nat
      /\ mem.input \in Seq(Msg) /\ mem.output \in Seq(Msg)
    BY MemoryFields DEF TypeOK
<1>1. ASSUME NEW kind \in {"toMulti", "toSingle"}, EvolveUninitialized(kind)
      PROVE  ErrorsOK'
    <2>1. mem.error = 0
        BY <1>1 DEF EvolveUninitialized, HandlesOK
    <2>2. QED BY <1>1, <2>1 DEF EvolveUninitialized, ErrorsOK
<1>2. CASE NewCallContext
    BY <1>2, <1>m DEF NewCallContext, ErrorsOK
<1>3. CASE Finish
    BY <1>3, <1>m DEF Finish, RestoreState, ErrorsOK
<1>4. CASE EvolveMulti
    BY <1>4, <1>m DEF EvolveMulti, ErrorsOK
<1>5. ASSUME NEW ok \in BOOLEAN, EvolveReturns(ok)
      PROVE  ErrorsOK'
    BY <1>5, <1>m DEF EvolveReturns, ErrorsOK
<1>6. CASE Devolve
    BY <1>6, <1>m DEF Devolve, ErrorsOK
<1>7. CASE CallFromFunc
    BY <1>7, <1>m DEF CallFromFunc, ErrorsOK
<1>8. CASE DropSandbox
    BY <1>8, <1>m DEF DropSandbox, ErrorsOK
<1>9. ASSUME NEW fits \in BOOLEAN, CallFunctionOnGuest(fits)
      PROVE  ErrorsOK'
    BY <1>9 DEF CallFunctionOnGuest, ErrorsOK
<1>10. CASE Dispatch
    BY <1>10, <1>m DEF Dispatch, ErrorsOK
<1>11. CASE StackExhausted
    BY <1>11, <1>m DEF StackExhausted, ErrorsOK
<1>12. ASSUME NEW reads \in BOOLEAN, CallHostFunction(reads)
      PROVE  ErrorsOK'
    <2>1. PushOutput(mem, "host", exits + 1).error = mem.error
        BY <1>m, PushFacts
    <2>2. QED BY <1>12, <2>1 DEF CallHostFunction, Send, ErrorsOK
<1>13. CASE LogMessage
    <2>1. PushOutput(mem, "log", exits + 1).error = mem.error
        BY <1>m, PushFacts
    <2>2. QED BY <1>13, <2>1 DEF LogMessage, Send, ErrorsOK
<1>14. CASE Abort
    BY <1>14, <1>m DEF Abort, ErrorsOK
<1>15. CASE ReadReply
    BY <1>15, <1>m, PopsFacts DEF ReadReply, Holds, ErrorsOK
<1>16. CASE OverwriteCookie
    BY <1>16, <1>m DEF OverwriteCookie, ErrorsOK
<1>17. ASSUME NEW fits \in BOOLEAN, NEW kind \in {"result", "garbled"},
             ReturnOk(fits, kind)
      PROVE  ErrorsOK'
    <2>k. kind \in MsgKinds
        OBVIOUS
    <2>1. PushOutput(mem, kind, call).error = mem.error
        <3> HIDE DEF MsgKinds
        <3>1. QED BY <2>k, <1>m, PushFacts
    <2>2. mem'.error = mem.error
        BY <1>17, <2>1 DEF ReturnOk
    <2>3. QED BY <1>17, <2>2 DEF ReturnOk, ErrorsOK
<1>18. CASE ReturnErr
    BY <1>18, <1>m DEF ReturnErr, ErrorsOK
<1>19. ASSUME NEW fails \in BOOLEAN, OutbCallFunction(fails)
      PROVE  ErrorsOK'
    <2>1. popped' = Top(mem.output) /\ mem.output # << >>
        BY <1>19 DEF OutbCallFunction, Holds
    <2>2. PopOutput(mem) \in Memory /\ Top(mem.output).id \in Nat
        BY <2>1, <1>m, PopsFacts DEF Msg
    <2>3. PushInput(PopOutput(mem), "ret", Top(mem.output).id).error = PopOutput(mem).error
        BY <2>2, PushFacts
    <2>4. mem'.error = mem.error
        BY <1>19, <2>1, <2>3, <1>m, PopsFacts DEF OutbCallFunction
    <2>5. QED BY <1>19, <2>4 DEF OutbCallFunction, ErrorsOK
<1>20. CASE OutbLog
    BY <1>20, <1>m, PopsFacts DEF OutbLog, Holds, ErrorsOK
<1>21. CASE OutbAbort
    BY <1>21, <1>m DEF OutbAbort, ErrorsOK
<1>22. CASE Fault
    BY <1>22, <1>m DEF Fault, ErrorsOK
<1>23. CASE Initialised
    BY <1>23, <1>m DEF Initialised, ErrorsOK
<1>24. CASE InitialiseFails
    BY <1>24, <1>m DEF InitialiseFails, ErrorsOK
<1>25. CASE ReturnsResult
    BY <1>25, <1>m DEF ReturnsResult, RestoreState, Returns, ErrorsOK
<1>26. CASE ReturnsGuestError
    BY <1>26, <1>m DEF ReturnsGuestError, Returns, ErrorsOK
<1>27. CASE NoResult
    BY <1>27, <1>m DEF NoResult, Returns, ErrorsOK
<1>28. CASE RunFailed
    BY <1>28, <1>m DEF RunFailed, Returns, Interrupted, ErrorsOK
<1>29. ASSUME NEW inStep \in BOOLEAN, Cancel(inStep)
      PROVE  ErrorsOK'
    BY <1>29, <1>m DEF Cancel, RestoreState, Returns, Interrupted, ErrorsOK
<1>30. CASE Hung
    BY <1>30 DEF Hung, ErrorsOK
<1>31. CASE FinishedWhileCancelling
    BY <1>31 DEF FinishedWhileCancelling, ErrorsOK
<1>32. CASE ReplyUnread
    BY <1>32 DEF ReplyUnread, ErrorsOK
<1>33. CASE UNCHANGED vars
    BY <1>33 DEF vars, ErrorsOK
<1>34. QED
    BY <1>1, <1>2, <1>3, <1>4, <1>5, <1>6, <1>7, <1>8, <1>9, <1>10, <1>11, <1>12,
       <1>13, <1>14, <1>15, <1>16, <1>17, <1>18, <1>19, <1>20, <1>21, <1>22, <1>23,
       <1>24, <1>25, <1>26, <1>27, <1>28, <1>29, <1>30, <1>31, <1>32, <1>33,
       ZenonT(30) DEF Next, OwnerNext, GuestNext, HostNext

-----------------------------------------------------------------------------
(* The output stack *)

\* Every snapshot was taken with nothing but leftovers on the output stack.
LEMMA RestoredOutput ==
    ASSUME TypeOK, HandlesOK, RestoreState
    PROVE  mem' = Top(snapshots) /\ Leftover(mem'.output)
<1>1. snapshots \in Seq(Memory) /\ snapshots # << >> /\ mem' = Top(snapshots)
    BY DEF TypeOK, RestoreState
<1>2. Len(snapshots) \in 1..Len(snapshots)
    BY <1>1, PopFacts
<1>3. QED BY <1>1, <1>2 DEF HandlesOK, Top

\* A devolved sandbox has a snapshot's memory, with leftovers on its stack.
LEMMA DevolvedOutput ==
    ASSUME TypeOK, HandlesOK, Devolve, snapshots' # << >>
    PROVE  Leftover(mem'.output)
<1>1. snapshots # << >> /\ snapshots \in Seq(Memory)
    BY DEF Devolve, HandlesOK, Reusable, TypeOK
<1>2. snapshots' = Pop(snapshots) /\ snapshots' \in Seq(Memory)
    BY <1>1, PopFacts DEF Devolve
<1>3. /\ Len(snapshots') = Len(snapshots) - 1 /\ Len(snapshots) \in Nat
      /\ \A i \in 1..Len(snapshots') : snapshots'[i] = snapshots[i]
    BY <1>1, <1>2, PopFacts
<1>4. Len(snapshots') \in 1..Len(snapshots')
    BY <1>2, PopFacts
<1>5. QED BY <1>3, <1>4 DEF Devolve, HandlesOK, Top

\* What a push on the output stack leaves there.
LEMMA PushedOutput ==
    ASSUME TypeOK, NEW k \in MsgKinds, NEW n \in Nat,
           mem' = PushOutput(mem, k, n)
    PROVE  /\ mem'.output \in Seq(Msg)
           /\ Len(mem'.output) = Len(mem.output) + 1 /\ Len(mem.output) \in Nat
           /\ mem'.output # << >>
           /\ mem'.output[Len(mem.output) + 1].kind = k
           /\ mem'.output[Len(mem.output) + 1].id = n
           /\ \A i \in 1..Len(mem.output) : mem'.output[i] = mem.output[i]
           /\ mem'.error = mem.error
<1>1. mem \in Memory /\ mem.output \in Seq(Msg)
    BY MemoryFields DEF TypeOK
<1> DEFINE x == [kind |-> k, id |-> n]
<1>2. x \in Msg /\ x.kind = k /\ x.id = n
    BY MsgFacts
<1> HIDE DEF x
<1>a. mem' = WithOutput(mem, Append(mem.output, x))
    BY DEF PushOutput, x
<1>b. Append(mem.output, x) \in Seq(Msg)
    BY <1>1, <1>2, AppendFacts
<1>c. /\ WithOutput(mem, Append(mem.output, x)).output = Append(mem.output, x)
      /\ WithOutput(mem, Append(mem.output, x)).error = mem.error
    BY <1>1, <1>b, WithFacts
<1>3. mem'.output = Append(mem.output, x) /\ mem'.error = mem.error
    BY <1>a, <1>c, Zenon
<1>4. QED BY <1>1, <1>2, <1>3, AppendFacts DEF Top

\* What a pop from the output stack leaves there.
LEMMA PoppedOutput ==
    ASSUME TypeOK, mem.output # << >>
    PROVE  /\ PopOutput(mem) \in Memory
           /\ PopOutput(mem).output = Pop(mem.output)
           /\ Pop(mem.output) \in Seq(Msg)
           /\ Len(Pop(mem.output)) = Len(mem.output) - 1
           /\ Len(mem.output) \in Nat /\ Len(mem.output) >= 1
           /\ \A i \in 1..Len(Pop(mem.output)) : Pop(mem.output)[i] = mem.output[i]
           /\ Len(mem.output) = 1 => Pop(mem.output) = << >>
           /\ PopOutput(mem).error = mem.error /\ PopOutput(mem).input = mem.input
           /\ Top(mem.output) \in Msg
<1>1. mem \in Memory /\ mem.output \in Seq(Msg)
    BY MemoryFields DEF TypeOK
<1>2. QED BY <1>1, PopFacts, PopsFacts

\* What the outb handler does to the output stack.
LEMMA OutbOutput ==
    ASSUME TypeOK, NEW fails \in BOOLEAN, OutbCallFunction(fails)
    PROVE  /\ mem.output # << >> /\ popped' = Top(mem.output)
           /\ mem'.output = Pop(mem.output) /\ mem'.error = mem.error
           /\ at' # "failed" => /\ Holds(mem'.input, "ret")
                                /\ Top(mem'.input).id = Top(mem.output).id
<1>1. popped' = Top(mem.output) /\ mem.output # << >>
    BY DEF OutbCallFunction, Holds
<1>2. Top(mem.output).id \in Nat
    BY <1>1, PoppedOutput DEF Msg
<1> DEFINE r == PushInput(PopOutput(mem), "ret", Top(mem.output).id)
<1>3. /\ r.output = PopOutput(mem).output /\ r.error = PopOutput(mem).error
      /\ Holds(r.input, "ret") /\ Top(r.input).id = Top(mem.output).id
    BY <1>1, <1>2, PoppedOutput, PushFacts DEF MsgKinds
<1>4. (mem' = PopOutput(mem) /\ at' = "failed") \/ mem' = r
    BY <1>1 DEF OutbCallFunction
<1> HIDE DEF r
<1>5. QED BY <1>1, <1>3, <1>4, PoppedOutput

\* A stack of leftovers satisfies what is said of the output stack.
LEMMA LeftoverFacts ==
    ASSUME Leftover(mem'.output)
    PROVE  ResultsOK' /\ HandOver'
<1>1. \A i \in 1..Len(mem'.output) : mem'.output[i].kind = "garbled"
    BY DEF Leftover
<1>2. QED BY <1>1 DEF ResultsOK, HandOver

\* A sandbox whose guest was cut short is not made intact again.
LEMMA IntactStep ==
    ASSUME TypeOK, HandlesOK, [Next]_vars
    PROVE  Intact' => Intact
<1>1. rsp \in Nat /\ Interrupted # 0
    BY CallsAssumption DEF TypeOK, Interrupted
<1>2. CASE UNCHANGED <<snapshots, rsp>> \/ snapshots # << >>
    BY <1>2 DEF Intact
<1>3. CASE OwnerNext
    <2>1. CASE \E ok \in BOOLEAN : EvolveReturns(ok)
        BY <2>1, <1>2 DEF EvolveReturns, HandlesOK, Reusable
    <2>2. CASE Devolve
        BY <2>2, <1>2 DEF Devolve, HandlesOK, Reusable
    <2>3. CASE \/ \E kind \in {"toMulti", "toSingle"} : EvolveUninitialized(kind)
               \/ NewCallContext \/ EvolveMulti \/ CallFromFunc \/ DropSandbox
        BY <2>3, <1>2, ZenonT(30)
        DEF EvolveUninitialized, NewCallContext, EvolveMulti, CallFromFunc, DropSandbox
    <2>4. CASE Finish \/ \E fits \in BOOLEAN : CallFunctionOnGuest(fits)
        BY <2>4, <1>2, ZenonT(30) DEF Finish, CallFunctionOnGuest
    <2>5. QED BY <1>3, <2>1, <2>2, <2>3, <2>4, ZenonT(30) DEF OwnerNext
<1>4. CASE GuestNext
    <2>1. UNCHANGED owner
        BY <1>4, ZenonT(30)
        DEF GuestNext, Dispatch, StackExhausted, CallHostFunction, LogMessage, Send,
            Abort, ReadReply, OverwriteCookie, ReturnOk, ReturnErr
    <2>2. QED BY <2>1, <1>2 DEF owner
<1>5. CASE HostNext
    <2>1. CASE Initialised
        BY <2>1 DEF Initialised, HandlesOK, Intact
    <2>2. CASE \E inStep \in BOOLEAN : Cancel(inStep)
        BY <2>2, <1>1, <1>2 DEF Cancel, RestoreState, Intact
    <2>3. CASE RunFailed \/ FinishedWhileCancelling \/ ReplyUnread
        <3>1. snapshots' = snapshots /\ (rsp' = rsp \/ rsp' = Interrupted)
            BY <2>3 DEF RunFailed, FinishedWhileCancelling, ReplyUnread
        <3>2. QED BY <3>1, <1>1 DEF Intact
    <2>4. CASE \/ OutbLog \/ OutbAbort \/ Fault
               \/ \E fails \in BOOLEAN : OutbCallFunction(fails)
        BY <2>4, <1>2, ZenonT(30) DEF OutbLog, OutbAbort, Fault, OutbCallFunction, owner
    <2>5. CASE \/ InitialiseFails \/ ReturnsResult \/ ReturnsGuestError
               \/ NoResult \/ Hung
        BY <2>5, <1>2, ZenonT(30)
        DEF InitialiseFails, ReturnsResult, ReturnsGuestError, NoResult, Hung
    <2>6. QED BY <1>5, <2>1, <2>2, <2>3, <2>4, <2>5, ZenonT(30) DEF HostNext
<1>6. CASE UNCHANGED vars
    BY <1>6, <1>2 DEF vars
<1>7. QED BY <1>3, <1>4, <1>5, <1>6 DEF Next

\* Every step keeps results where they belong.
LEMMA ResultsStep ==
    ASSUME TypeOK, HandlesOK, ErrorsOK, ResultsOK, [Next]_vars
    PROVE  ResultsOK'
<1> USE DEF owner, MsgKinds
<1>m. /\ mem \in Memory /\ call \in Nat /\ exits \in Nat
      /\ call + 1 \in Nat /\ exits + 1 \in Nat
      /\ mem.input \in Seq(Msg) /\ mem.output \in Seq(Msg)
    BY MemoryFields DEF TypeOK
<1>n. Len(mem.output) \in Nat
    BY <1>m, LenProperties
<1>i. Intact' => Intact
    BY IntactStep
<1>1. ASSUME NEW kind \in {"toMulti", "toSingle"}, EvolveUninitialized(kind)
      PROVE  ResultsOK'
    BY <1>1, <1>n, <1>i DEF EvolveUninitialized, ResultsOK
<1>2. CASE NewCallContext
    BY <1>2, <1>n, <1>i DEF NewCallContext, ResultsOK
<1>3. CASE Finish
    <2>1. Leftover(mem'.output)
        BY <1>3, RestoredOutput DEF Finish
    <2>2. QED BY <2>1, LeftoverFacts
<1>4. CASE EvolveMulti
    BY <1>4, <1>n, <1>i DEF EvolveMulti, ResultsOK
<1>5. ASSUME NEW ok \in BOOLEAN, EvolveReturns(ok)
      PROVE  ResultsOK'
    BY <1>5, <1>n, <1>i DEF EvolveReturns, ResultsOK
<1>6. CASE Devolve
    <2>1. CASE snapshots' = << >>
        BY <1>6, <2>1, <1>i DEF Devolve, ResultsOK
    <2>2. CASE snapshots' # << >>
        <3>1. Leftover(mem'.output)
            BY <1>6, <2>2, DevolvedOutput
        <3>2. QED BY <3>1, LeftoverFacts
    <2>3. QED BY <2>1, <2>2
<1>7. CASE CallFromFunc
    BY <1>7, <1>n, <1>i DEF CallFromFunc, ResultsOK
<1>8. CASE DropSandbox
    BY <1>8, <1>n, <1>i DEF DropSandbox, Callable, ResultsOK
<1>9. ASSUME NEW fits \in BOOLEAN, CallFunctionOnGuest(fits)
      PROVE  ResultsOK'
    <2>1. PushInput(mem, "call", call + 1).output = mem.output
        BY <1>m, PushFacts
    <2>2. mem'.output = mem.output /\ at # "halted" /\ life # "adrift"
        BY <1>9, <2>1 DEF CallFunctionOnGuest, Callable
    <2>3. QED BY <2>2, <1>n, <1>i DEF ResultsOK
<1>10. CASE Dispatch
    <2>1. mem'.output = mem.output /\ at # "halted" /\ life' = life
        BY <1>10 DEF Dispatch
    <2>2. QED BY <2>1, <1>n, <1>i DEF ResultsOK
<1>11. CASE StackExhausted
    BY <1>11, <1>n, <1>i DEF StackExhausted, ResultsOK
<1>12. ASSUME NEW reads \in BOOLEAN, CallHostFunction(reads)
      PROVE  ResultsOK'
    <2>1. mem' = PushOutput(mem, "host", exits + 1) /\ at # "halted" /\ life' = life
        BY <1>12 DEF CallHostFunction, Send
    <2>a. /\ Len(mem'.output) = Len(mem.output) + 1
          /\ mem'.output[Len(mem.output) + 1].kind = "host"
          /\ \A i \in 1..Len(mem.output) : mem'.output[i] = mem.output[i]
        BY <2>1, <1>m, PushedOutput
    <2>2. \A i \in 1..Len(mem'.output) :
             life' # "adrift" /\ Intact' => mem'.output[i].kind # "result"
        BY <2>1, <2>a, <1>n, <1>i, SMTT(30) DEF ResultsOK
    <2>3. QED BY <2>2 DEF ResultsOK
<1>13. CASE LogMessage
    <2>1. mem' = PushOutput(mem, "log", exits + 1) /\ at # "halted" /\ life' = life
        BY <1>13 DEF LogMessage, Send
    <2>a. /\ Len(mem'.output) = Len(mem.output) + 1
          /\ mem'.output[Len(mem.output) + 1].kind = "log"
          /\ \A i \in 1..Len(mem.output) : mem'.output[i] = mem.output[i]
        BY <2>1, <1>m, PushedOutput
    <2>2. \A i \in 1..Len(mem'.output) :
             life' # "adrift" /\ Intact' => mem'.output[i].kind # "result"
        BY <2>1, <2>a, <1>n, <1>i, SMTT(40) DEF ResultsOK
    <2>3. QED BY <2>2 DEF ResultsOK
<1>14. CASE Abort
    BY <1>14, <1>n, <1>i DEF Abort, ResultsOK
<1>15. CASE ReadReply
    <2>1. mem'.output = mem.output /\ at # "halted" /\ life' = life
        BY <1>15, <1>m, PopsFacts DEF ReadReply, Holds
    <2>2. QED BY <2>1, <1>n, <1>i DEF ResultsOK
<1>16. CASE OverwriteCookie
    <2>1. mem'.output = mem.output /\ at # "halted" /\ life' = life
        BY <1>16 DEF OverwriteCookie
    <2>2. QED BY <2>1, <1>n, <1>i DEF ResultsOK
<1>17. ASSUME NEW fits \in BOOLEAN, NEW kind \in {"result", "garbled"},
             ReturnOk(fits, kind)
      PROVE  ResultsOK'
    <2>1. /\ at = "guest" /\ at' = "halted" /\ call' = call /\ mem.error = 0
          /\ life' = life
        BY <1>17 DEF ReturnOk, ErrorsOK
    <2>2. CASE call > 1 /\ mem' = PushOutput(mem, kind, call)
        <3>1. /\ Len(mem'.output) = Len(mem.output) + 1 /\ mem'.error = mem.error
              /\ mem'.output[Len(mem.output) + 1].id = call
              /\ \A i \in 1..Len(mem.output) : mem'.output[i] = mem.output[i]
            BY <2>2, <1>m, PushedOutput
        <3>2. \A i \in 1..Len(mem.output) :
                 life # "adrift" /\ Intact' => mem'.output[i].kind # "result"
            BY <2>1, <3>1, <1>i DEF ResultsOK
        <3>3. QED BY <2>1, <2>2, <3>1, <3>2, <1>n, <1>i DEF ResultsOK
    <2>3. CASE mem' = mem
        BY <2>1, <2>3, <1>n, <1>i DEF ResultsOK
    <2>4. QED BY <1>17, <2>2, <2>3 DEF ReturnOk
<1>18. CASE ReturnErr
    <2>1. mem'.output = mem.output /\ at # "halted" /\ life' = life
        BY <1>18 DEF ReturnErr
    <2>2. QED BY <2>1, <1>n, <1>i DEF ResultsOK
<1>19. ASSUME NEW fails \in BOOLEAN, OutbCallFunction(fails)
      PROVE  ResultsOK'
    <2>1. mem.output # << >> /\ mem'.output = Pop(mem.output) /\ at # "halted" /\ life' = life
        BY <1>19, OutbOutput DEF OutbCallFunction
    <2>2. QED BY <2>1, <1>n, <1>i, PoppedOutput DEF ResultsOK
<1>20. CASE OutbLog
    <2>1. mem.output # << >> /\ mem' = PopOutput(mem) /\ at # "halted" /\ life' = life
        BY <1>20 DEF OutbLog, Holds
    <2>2. QED BY <2>1, <1>n, <1>i, PoppedOutput DEF ResultsOK
<1>21. CASE OutbAbort
    BY <1>21, <1>n, <1>i DEF OutbAbort, ResultsOK
<1>22. CASE Fault
    BY <1>22, <1>n, <1>i DEF Fault, ResultsOK
<1>23. CASE Initialised
    <2>1. mem' = mem /\ call = 1 /\ call' = call /\ life # "adrift"
        BY <1>23 DEF Initialised, HandlesOK
    <2>2. QED BY <2>1, <1>i DEF ResultsOK
<1>24. CASE InitialiseFails
    BY <1>24, <1>n, <1>i DEF InitialiseFails, HandlesOK, ResultsOK
<1>25. CASE ReturnsResult
    <2>1. CASE life = "multi"
        <3>1. Leftover(mem'.output)
            BY <1>25, <2>1, RestoredOutput DEF ReturnsResult
        <3>2. QED BY <3>1, LeftoverFacts
    <2>2. CASE life # "multi"
        <3>1. /\ mem.output # << >> /\ mem' = PopOutput(mem) /\ life # "adrift"
              /\ call' = call
            BY <1>25, <2>2 DEF ReturnsResult, Returns, Called, Holds
        <3>2. QED BY <3>1, <1>n, <1>i, PoppedOutput DEF ResultsOK
    <2>3. QED BY <2>1, <2>2
<1>26. CASE ReturnsGuestError
    BY <1>26, <1>n, <1>i DEF ReturnsGuestError, Called, ResultsOK
<1>27. CASE NoResult
    <2>1. /\ mem' = mem /\ ~ Holds(mem.output, "result")
          /\ life # "adrift"
        BY <1>27 DEF NoResult, Called
    <2>2. mem.output # << >> => mem.output[Len(mem.output)].kind # "result"
        BY <2>1 DEF Holds, Top
    <2>3. mem.output = << >> => Len(mem.output) = 0
        BY <1>m, EmptySeq
    <2>4. QED BY <2>1, <2>2, <2>3, <1>n, <1>i DEF ResultsOK
<1>28. CASE RunFailed
    BY <1>28, <1>n, <1>i DEF RunFailed, Called, ResultsOK
<1>29. ASSUME NEW inStep \in BOOLEAN, Cancel(inStep)
      PROVE  ResultsOK'
    <2>1. CASE RestoreState
        <3>1. Leftover(mem'.output)
            BY <2>1, RestoredOutput
        <3>2. QED BY <3>1, LeftoverFacts
    <2>2. CASE /\ snapshots = << >> \/ ~inStep
               /\ rsp' = Interrupted /\ Returns("notRestored", 0, inStep)
        <3>1. ~inStep => life' = "adrift"
            BY <2>2 DEF Returns
        <3>2. inStep => ~Intact'
            BY <1>29, <2>2, CallsAssumption DEF Cancel, Interrupted, Intact, TypeOK
        <3>3. QED BY <3>1, <3>2 DEF ResultsOK
    <2>3. QED BY <1>29, <2>1, <2>2 DEF Cancel
<1>30. CASE Hung
    BY <1>30 DEF Hung, ResultsOK
<1>31. CASE FinishedWhileCancelling
    BY <1>31 DEF FinishedWhileCancelling, ResultsOK
<1>32. CASE ReplyUnread
    BY <1>32 DEF ReplyUnread, ResultsOK
<1>33. CASE UNCHANGED vars
    BY <1>33, <1>i DEF vars, ResultsOK
<1>34. QED
    BY <1>1, <1>2, <1>3, <1>4, <1>5, <1>6, <1>7, <1>8, <1>9, <1>10, <1>11, <1>12,
       <1>13, <1>14, <1>15, <1>16, <1>17, <1>18, <1>19, <1>20, <1>21, <1>22, <1>23,
       <1>24, <1>25, <1>26, <1>27, <1>28, <1>29, <1>30, <1>31, <1>32, <1>33,
       ZenonT(30) DEF Next, OwnerNext, GuestNext, HostNext

\* A step that leaves the output stack alone, while nothing is handed over.
LEMMA KeptOutput ==
    ASSUME HandOver, mem'.output = mem.output, at \notin {"outb", "halted"},
           life' \in Reusable \cup {"toMulti"} => life \in Reusable \cup {"toMulti"}
    PROVE  HandOver'
BY DEF HandOver

\* The message on top is handed over, and what is below it is left over.
LEMMA TakenOutput ==
    ASSUME TypeOK, HandOver, mem.output # << >>, mem'.output = Pop(mem.output),
           life' \in Reusable \cup {"toMulti"} => life \in Reusable \cup {"toMulti"}
    PROVE  HandOver'
<1>1. /\ Len(mem'.output) = Len(mem.output) - 1 /\ Len(mem.output) \in Nat
      /\ \A i \in 1..Len(mem'.output) : mem'.output[i] = mem.output[i]
    BY PoppedOutput
<1>2. QED BY <1>1 DEF HandOver

\* The guest hands a message over.
LEMMA SentOutput ==
    ASSUME TypeOK, HandOver, NEW k \in MsgKinds, NEW n \in Nat,
           mem' = PushOutput(mem, k, n), at = "guest", life' = life,
           at' = "outb", port' # "Abort"
    PROVE  HandOver'
<1>1. /\ Len(mem'.output) = Len(mem.output) + 1 /\ Len(mem.output) \in Nat
      /\ \A i \in 1..Len(mem.output) : mem'.output[i] = mem.output[i]
    BY PushedOutput
<1>2. QED BY <1>1, SMTT(30) DEF HandOver

\* Every step keeps on the output stack of a multi-use sandbox nothing but
\* leftovers and the message that is being handed over.
LEMMA HandOverStep ==
    ASSUME TypeOK, HandlesOK, ErrorsOK, HandOver, [Next]_vars
    PROVE  HandOver'
<1> USE DEF owner, MsgKinds
<1>m. /\ mem \in Memory /\ call \in Nat /\ exits + 1 \in Nat /\ call + 1 \in Nat
    BY DEF TypeOK
<1>1. ASSUME NEW kind \in {"toMulti", "toSingle"}, EvolveUninitialized(kind)
      PROVE  HandOver'
    <2>1. mem'.output = << >>
        BY <1>1 DEF EvolveUninitialized, HandlesOK
    <2>2. QED BY <2>1, LeftoverFacts DEF Leftover
<1>2. CASE NewCallContext
    <2>1. /\ mem'.output = mem.output /\ at \notin {"outb", "halted"}
          /\ life' \in Reusable \cup {"toMulti"} => life \in Reusable \cup {"toMulti"}
        BY <1>2 DEF NewCallContext, Reusable
    <2>2. QED BY <2>1, KeptOutput
<1>3. CASE Finish
    <2>1. Leftover(mem'.output)
        BY <1>3, RestoredOutput DEF Finish
    <2>2. QED BY <2>1, LeftoverFacts
<1>4. CASE EvolveMulti
    <2>1. /\ mem'.output = mem.output /\ at \notin {"outb", "halted"}
          /\ life' \in Reusable \cup {"toMulti"} => life \in Reusable \cup {"toMulti"}
        BY <1>4 DEF EvolveMulti, Reusable
    <2>2. QED BY <2>1, KeptOutput
<1>5. ASSUME NEW ok \in BOOLEAN, EvolveReturns(ok)
      PROVE  HandOver'
    <2>1. /\ mem'.output = mem.output /\ at \notin {"outb", "halted"}
          /\ life \in Reusable
        BY <1>5 DEF EvolveReturns, Reusable
    <2>2. QED BY <2>1, KeptOutput
<1>6. CASE Devolve
    <2>1. CASE snapshots' = << >>
        BY <1>6, <2>1 DEF Devolve, HandOver, Reusable
    <2>2. CASE snapshots' # << >>
        <3>1. Leftover(mem'.output)
            BY <1>6, <2>2, DevolvedOutput
        <3>2. QED BY <3>1, LeftoverFacts
    <2>3. QED BY <2>1, <2>2
<1>7. CASE CallFromFunc
    <2>1. /\ mem'.output = mem.output /\ at \notin {"outb", "halted"}
          /\ life' \in Reusable \cup {"toMulti"} => life \in Reusable \cup {"toMulti"}
        BY <1>7 DEF CallFromFunc, Reusable
    <2>2. QED BY <2>1, KeptOutput
<1>8. CASE DropSandbox
    <2>1. /\ mem'.output = mem.output /\ at \notin {"outb", "halted"}
          /\ life' \in Reusable \cup {"toMulti"} => life \in Reusable \cup {"toMulti"}
        BY <1>8 DEF DropSandbox, Reusable, Callable
    <2>2. QED BY <2>1, KeptOutput
<1>9. ASSUME NEW fits \in BOOLEAN, CallFunctionOnGuest(fits)
      PROVE  HandOver'
    <2>1. PushInput(mem, "call", call + 1).output = mem.output
        BY <1>m, PushFacts
    <2>2. /\ mem'.output = mem.output /\ at \notin {"outb", "halted"}
          /\ life' \in Reusable \cup {"toMulti"} => life \in Reusable \cup {"toMulti"}
        BY <1>9, <2>1 DEF CallFunctionOnGuest, Callable, Consumed, Released, Reusable
    <2>3. QED BY <2>2, KeptOutput
<1>10. CASE Dispatch
    <2>1. /\ mem'.output = mem.output /\ at \notin {"outb", "halted"}
          /\ life' \in Reusable \cup {"toMulti"} => life \in Reusable \cup {"toMulti"}
        BY <1>10 DEF Dispatch, Reusable
    <2>2. QED BY <2>1, KeptOutput
<1>11. CASE StackExhausted
    <2>1. /\ mem'.output = mem.output /\ at \notin {"outb", "halted"}
          /\ life' \in Reusable \cup {"toMulti"} => life \in Reusable \cup {"toMulti"}
        BY <1>11 DEF StackExhausted, Reusable
    <2>2. QED BY <2>1, KeptOutput
<1>12. ASSUME NEW reads \in BOOLEAN, CallHostFunction(reads)
      PROVE  HandOver'
    <2>1. /\ mem' = PushOutput(mem, "host", exits + 1) /\ at = "guest"
          /\ at' = "outb" /\ port' # "Abort" /\ life' = life
        BY <1>12 DEF CallHostFunction, Send
    <2>2. QED BY <2>1, <1>m, SentOutput
<1>13. CASE LogMessage
    <2>1. /\ mem' = PushOutput(mem, "log", exits + 1) /\ at = "guest"
          /\ at' = "outb" /\ port' # "Abort" /\ life' = life
        BY <1>13 DEF LogMessage, Send
    <2>2. QED BY <2>1, <1>m, SentOutput
<1>14. CASE Abort
    <2>1. /\ mem'.output = mem.output /\ at \notin {"outb", "halted"}
          /\ life' \in Reusable \cup {"toMulti"} => life \in Reusable \cup {"toMulti"}
        BY <1>14 DEF Abort, Reusable
    <2>2. QED BY <2>1, KeptOutput
<1>15. CASE ReadReply
    <2>1. mem'.output = mem.output /\ at = "reply" /\ life' = life
        BY <1>15, <1>m, PopsFacts DEF ReadReply, Holds
    <2>2. QED BY <2>1, KeptOutput
<1>16. CASE OverwriteCookie
    <2>1. /\ mem'.output = mem.output /\ at \notin {"outb", "halted"}
          /\ life' \in Reusable \cup {"toMulti"} => life \in Reusable \cup {"toMulti"}
        BY <1>16 DEF OverwriteCookie, Reusable
    <2>2. QED BY <2>1, KeptOutput
<1>17. ASSUME NEW fits \in BOOLEAN, NEW kind \in {"result", "garbled"},
             ReturnOk(fits, kind)
      PROVE  HandOver'
    <2>1. at = "guest" /\ at' = "halted" /\ mem.error = 0 /\ life' = life
        BY <1>17 DEF ReturnOk, ErrorsOK
    <2>2. CASE call > 1 /\ mem' = PushOutput(mem, kind, call)
        <3>1. /\ Len(mem'.output) = Len(mem.output) + 1 /\ Len(mem.output) \in Nat
              /\ mem'.error = mem.error
              /\ mem'.output[Len(mem.output) + 1].kind = kind
              /\ \A i \in 1..Len(mem.output) : mem'.output[i] = mem.output[i]
            BY <2>2, <1>m, PushedOutput
        <3>2. life # "toMulti"
            BY <2>2, <1>m DEF HandlesOK
        <3>3. life \in Reusable \cup {"toMulti"} =>
                 \A i \in 1..Len(mem.output) : mem'.output[i].kind = "garbled"
            BY <2>1, <3>1 DEF HandOver
        <3>4. QED BY <2>1, <3>1, <3>2, <3>3 DEF HandOver
    <2>3. CASE mem' = mem
        BY <2>1, <2>3, KeptOutput
    <2>4. QED BY <1>17, <2>2, <2>3 DEF ReturnOk
<1>18. CASE ReturnErr
    <2>1. /\ mem'.output = mem.output /\ at \notin {"outb", "halted"}
          /\ life' \in Reusable \cup {"toMulti"} => life \in Reusable \cup {"toMulti"}
        BY <1>18 DEF ReturnErr, Reusable
    <2>2. QED BY <2>1, KeptOutput
<1>19. ASSUME NEW fails \in BOOLEAN, OutbCallFunction(fails)
      PROVE  HandOver'
    <2>1. mem.output # << >> /\ mem'.output = Pop(mem.output) /\ life' = life
        BY <1>19, OutbOutput DEF OutbCallFunction
    <2>2. QED BY <2>1, TakenOutput
<1>20. CASE OutbLog
    <2>1. mem.output # << >> /\ mem' = PopOutput(mem) /\ life' = life
        BY <1>20 DEF OutbLog, Holds
    <2>2. mem'.output = Pop(mem.output)
        BY <2>1, PoppedOutput
    <2>3. QED BY <2>1, <2>2, TakenOutput
<1>21. CASE OutbAbort
    BY <1>21 DEF OutbAbort, HandOver
<1>22. CASE Fault
    <2>1. /\ mem'.output = mem.output /\ at \notin {"outb", "halted"}
          /\ life' \in Reusable \cup {"toMulti"} => life \in Reusable \cup {"toMulti"}
        BY <1>22 DEF Fault, Reusable
    <2>2. QED BY <2>1, KeptOutput
<1>23. CASE Initialised
    <2>1. life = "toMulti" => Leftover(mem'.output)
        BY <1>23 DEF Initialised, HandOver, Leftover
    <2>2. life # "toMulti" => life' = "single"
        BY <1>23 DEF Initialised
    <2>3. QED BY <2>1, <2>2, LeftoverFacts DEF HandOver, Reusable
<1>24. CASE InitialiseFails
    BY <1>24 DEF InitialiseFails, HandOver, Reusable
<1>25. CASE ReturnsResult
    <2>1. CASE life = "multi"
        <3>1. Leftover(mem'.output)
            BY <1>25, <2>1, RestoredOutput DEF ReturnsResult
        <3>2. QED BY <3>1, LeftoverFacts
    <2>2. CASE life # "multi"
        <3>1. mem.output # << >> /\ mem' = PopOutput(mem)
            BY <1>25, <2>2 DEF ReturnsResult, Holds
        <3>2. mem'.output = Pop(mem.output)
            BY <3>1, PoppedOutput
        <3>3. life' \in Reusable \cup {"toMulti"} => life \in Reusable \cup {"toMulti"}
            BY <1>25 DEF ReturnsResult, Returns, Released, Reusable
        <3>4. QED BY <3>1, <3>2, <3>3, TakenOutput
    <2>3. QED BY <2>1, <2>2
<1>26. CASE ReturnsGuestError
    BY <1>26 DEF ReturnsGuestError, Returns, Released, Reusable, HandOver
<1>27. CASE NoResult
    <2>1. /\ mem' = mem /\ at = "halted" /\ ~ Holds(mem.output, "result")
          /\ life' \in Reusable \cup {"toMulti"} => life \in Reusable \cup {"toMulti"}
        BY <1>27 DEF NoResult, Returns, Released, Reusable
    <2>2. mem.output = << >> => Len(mem.output) = 0
        BY <1>m, MemoryFields, EmptySeq
    <2>3. QED BY <2>1, <2>2 DEF HandOver, Holds, Top
<1>28. CASE RunFailed
    BY <1>28 DEF RunFailed, Returns, Released, Reusable, HandOver
<1>29. ASSUME NEW inStep \in BOOLEAN, Cancel(inStep)
      PROVE  HandOver'
    <2>1. CASE RestoreState
        <3>1. Leftover(mem'.output)
            BY <2>1, RestoredOutput
        <3>2. QED BY <3>1, LeftoverFacts
    <2>2. CASE snapshots = << >> \/ ~inStep
        <3>1. life' \in Reusable \cup {"toMulti"} => life \in Reusable /\ inStep
            BY <1>29 DEF Cancel, Called, Returns, Released, Reusable
        <3>2. life \notin Reusable \/ ~inStep
            BY <2>2 DEF HandlesOK
        <3>3. QED BY <3>1, <3>2 DEF HandOver
    <2>3. QED BY <1>29, <2>1, <2>2 DEF Cancel
<1>30. CASE Hung
    BY <1>30, SMTT(30) DEF Hung, HandOver, Reusable
<1>31. CASE FinishedWhileCancelling
    BY <1>31 DEF FinishedWhileCancelling, HandOver, Reusable
<1>32. CASE ReplyUnread
    BY <1>32 DEF ReplyUnread, HandOver, Reusable
<1>33. CASE UNCHANGED vars
    BY <1>33 DEF vars, HandOver
<1>34. QED
    BY <1>1, <1>2, <1>3, <1>4, <1>5, <1>6, <1>7, <1>8, <1>9, <1>10, <1>11, <1>12, <1>13, <1>14, <1>15,
       <1>16, <1>17, <1>18, <1>19, <1>20, <1>21, <1>22, <1>23, <1>24, <1>25, <1>26, <1>27, <1>28, <1>29, <1>30, <1>31, <1>32, <1>33,
       ZenonT(30) DEF Next, OwnerNext, GuestNext, HostNext

-----------------------------------------------------------------------------
(* The properties *)

\* Every step leaves for its reader the message it is meant to find.
LEMMA StacksStep ==
    ASSUME TypeOK, HandlesOK, ResultsOK, StacksMatch, [Next]_vars
    PROVE  StacksMatch'
<1> USE DEF owner, MsgKinds
<1>m. /\ mem \in Memory /\ call \in Nat /\ exits \in Nat
      /\ call + 1 \in Nat /\ exits + 1 \in Nat
      /\ mem.input \in Seq(Msg) /\ mem.output \in Seq(Msg)
    BY MemoryFields DEF TypeOK
<1>1. ASSUME NEW kind \in {"toMulti", "toSingle"}, EvolveUninitialized(kind)
      PROVE  StacksMatch'
    BY <1>1 DEF EvolveUninitialized, StacksMatch
<1>2. CASE NewCallContext
    BY <1>2 DEF NewCallContext, StacksMatch
<1>3. CASE Finish
    BY <1>3 DEF Finish, RestoreState, StacksMatch
<1>4. CASE EvolveMulti
    BY <1>4 DEF EvolveMulti, StacksMatch
<1>5. ASSUME NEW ok \in BOOLEAN, EvolveReturns(ok)
      PROVE  StacksMatch'
    BY <1>5 DEF EvolveReturns, StacksMatch
<1>6. CASE Devolve
    BY <1>6 DEF Devolve, StacksMatch
<1>7. CASE CallFromFunc
    BY <1>7 DEF CallFromFunc, StacksMatch
<1>8. CASE DropSandbox
    BY <1>8 DEF DropSandbox, StacksMatch
<1>9. ASSUME NEW fits \in BOOLEAN, CallFunctionOnGuest(fits)
      PROVE  StacksMatch'
    <2>1. /\ Holds(PushInput(mem, "call", call + 1).input, "call")
          /\ Top(PushInput(mem, "call", call + 1).input).id = call + 1
        BY <1>m, PushFacts, ZenonT(30)
    <2>2. \/ /\ mem' = PushInput(mem, "call", call + 1) /\ at' = "dispatch"
             /\ call' = call + 1
          \/ at' = "idle"
        BY <1>9 DEF CallFunctionOnGuest
    <2>3. QED BY <2>1, <2>2 DEF StacksMatch
<1>10. CASE Dispatch
    BY <1>10 DEF Dispatch, StacksMatch
<1>11. CASE StackExhausted
    BY <1>11 DEF StackExhausted, StacksMatch
<1>12. ASSUME NEW reads \in BOOLEAN, CallHostFunction(reads)
      PROVE  StacksMatch'
    <2>1. /\ mem' = PushOutput(mem, "host", exits + 1) /\ exits' = exits + 1
          /\ at' = "outb" /\ port' = "CallFunction"
        BY <1>12 DEF CallHostFunction, Send
    <2>2. /\ Holds(PushOutput(mem, "host", exits + 1).output, "host")
          /\ Top(PushOutput(mem, "host", exits + 1).output).id = exits + 1
        BY <1>m, PushFacts, ZenonT(30)
    <2>3. QED BY <2>1, <2>2 DEF StacksMatch
<1>13. CASE LogMessage
    <2>1. /\ mem' = PushOutput(mem, "log", exits + 1) /\ exits' = exits + 1
          /\ at' = "outb" /\ port' = "Log"
        BY <1>13 DEF LogMessage, Send
    <2>2. /\ Holds(PushOutput(mem, "log", exits + 1).output, "log")
          /\ Top(PushOutput(mem, "log", exits + 1).output).id = exits + 1
        BY <1>m, PushFacts, ZenonT(30)
    <2>3. QED BY <2>1, <2>2 DEF StacksMatch
<1>14. CASE Abort
    BY <1>14 DEF Abort, StacksMatch
<1>15. CASE ReadReply
    BY <1>15 DEF ReadReply, StacksMatch
<1>16. CASE OverwriteCookie
    BY <1>16 DEF OverwriteCookie, StacksMatch
<1>17. ASSUME NEW fits \in BOOLEAN, NEW kind \in {"result", "garbled"},
             ReturnOk(fits, kind)
      PROVE  StacksMatch'
    BY <1>17 DEF ReturnOk, StacksMatch
<1>18. CASE ReturnErr
    BY <1>18 DEF ReturnErr, StacksMatch
<1>19. ASSUME NEW fails \in BOOLEAN, OutbCallFunction(fails)
      PROVE  StacksMatch'
    <2>1. /\ popped' = Top(mem.output)
          /\ at' # "failed" => /\ Holds(mem'.input, "ret")
                               /\ Top(mem'.input).id = Top(mem.output).id
        BY <1>19, OutbOutput
    <2>2. /\ at' \in {"failed", "reply", "guest"} /\ asked' = asked
          /\ at' = "reply" => asked = popped'.id
        BY <1>19 DEF OutbCallFunction
    <2>3. QED BY <2>1, <2>2 DEF StacksMatch
<1>20. CASE OutbLog
    BY <1>20 DEF OutbLog, StacksMatch
<1>21. CASE OutbAbort
    BY <1>21 DEF OutbAbort, StacksMatch
<1>22. CASE Fault
    BY <1>22 DEF Fault, StacksMatch
<1>23. CASE Initialised
    BY <1>23 DEF Initialised, StacksMatch
<1>24. CASE InitialiseFails
    BY <1>24, SMTT(30) DEF InitialiseFails, StacksMatch
<1>25. CASE ReturnsResult
    BY <1>25 DEF ReturnsResult, RestoreState, Returns, StacksMatch
<1>26. CASE ReturnsGuestError
    BY <1>26 DEF ReturnsGuestError, Returns, StacksMatch
<1>27. CASE NoResult
    BY <1>27 DEF NoResult, Returns, StacksMatch
<1>28. CASE RunFailed
    BY <1>28 DEF RunFailed, Returns, Interrupted, StacksMatch
<1>29. ASSUME NEW inStep \in BOOLEAN, Cancel(inStep)
      PROVE  StacksMatch'
    BY <1>29, SMTT(30) DEF Cancel, RestoreState, Returns, Interrupted, StacksMatch
<1>30. CASE Hung
    BY <1>30 DEF Hung, StacksMatch
<1>31. CASE FinishedWhileCancelling
    <2>1. CASE at = "dispatch"
        <3>1. life # "adrift" /\ at' = at /\ call' = call
            BY <1>31, <2>1 DEF FinishedWhileCancelling, Called
        <3>2. Intact => ~ Holds(mem.output, "result")
            BY <2>1, <3>1, PoppedOutput, SMTT(30) DEF ResultsOK, Holds, Top
        <3>3. life = "multi" => Intact
            BY DEF HandlesOK, Reusable, Intact
        <3>4. mem' = mem \/ (mem.output # << >> /\ mem' = PopOutput(mem))
            BY <1>31, <3>2, <3>3, SMTT(30) DEF FinishedWhileCancelling, Holds
        <3>5. mem'.input = mem.input
            BY <3>4, PoppedOutput
        <3>6. QED BY <2>1, <3>1, <3>5 DEF StacksMatch
    <2>2. CASE at # "dispatch"
        BY <1>31, <2>2 DEF FinishedWhileCancelling, StacksMatch
    <2>3. QED BY <2>1, <2>2
<1>32. CASE ReplyUnread
    BY <1>32 DEF ReplyUnread, StacksMatch
<1>33. CASE UNCHANGED vars
    BY <1>33, SMTT(30) DEF vars, StacksMatch
<1>34. QED
    BY <1>1, <1>2, <1>3, <1>4, <1>5, <1>6, <1>7, <1>8, <1>9, <1>10, <1>11, <1>12,
       <1>13, <1>14, <1>15, <1>16, <1>17, <1>18, <1>19, <1>20, <1>21, <1>22, <1>23,
       <1>24, <1>25, <1>26, <1>27, <1>28, <1>29, <1>30, <1>31, <1>32, <1>33,
       ZenonT(30) DEF Next, OwnerNext, GuestNext, HostNext

\* Every step keeps what was returned the answer of the call that returned.
LEMMA AnswerStep ==
    ASSUME TypeOK, HandlesOK, ErrorsOK, ResultsOK, AnswerOfThisCall, [Next]_vars
    PROVE  AnswerOfThisCall'
<1> USE DEF owner, MsgKinds
<1>m. /\ mem \in Memory /\ call \in Nat /\ exits \in Nat
      /\ call + 1 \in Nat /\ exits + 1 \in Nat
      /\ mem.input \in Seq(Msg) /\ mem.output \in Seq(Msg)
    BY MemoryFields DEF TypeOK
<1>i. Intact' => Intact
    BY IntactStep
<1>1. ASSUME NEW kind \in {"toMulti", "toSingle"}, EvolveUninitialized(kind)
      PROVE  AnswerOfThisCall'
    BY <1>1, <1>i DEF EvolveUninitialized, AnswerOfThisCall
<1>2. CASE NewCallContext
    BY <1>2, <1>i DEF NewCallContext, AnswerOfThisCall
<1>3. CASE Finish
    BY <1>3, <1>i DEF Finish, RestoreState, AnswerOfThisCall
<1>4. CASE EvolveMulti
    BY <1>4, <1>i DEF EvolveMulti, AnswerOfThisCall
<1>5. ASSUME NEW ok \in BOOLEAN, EvolveReturns(ok)
      PROVE  AnswerOfThisCall'
    BY <1>5, <1>i DEF EvolveReturns, AnswerOfThisCall
<1>6. CASE Devolve
    BY <1>6, <1>i DEF Devolve, AnswerOfThisCall
<1>7. CASE CallFromFunc
    BY <1>7, <1>i DEF CallFromFunc, AnswerOfThisCall
<1>8. CASE DropSandbox
    BY <1>8, <1>i DEF DropSandbox, Callable, AnswerOfThisCall
<1>9. ASSUME NEW fits \in BOOLEAN, CallFunctionOnGuest(fits)
      PROVE  AnswerOfThisCall'
    BY <1>9, <1>i DEF CallFunctionOnGuest, Consumed, Callable, AnswerOfThisCall
<1>10. CASE Dispatch
    BY <1>10, <1>i DEF Dispatch, AnswerOfThisCall
<1>11. CASE StackExhausted
    BY <1>11, <1>i DEF StackExhausted, AnswerOfThisCall
<1>12. ASSUME NEW reads \in BOOLEAN, CallHostFunction(reads)
      PROVE  AnswerOfThisCall'
    BY <1>12, <1>i DEF CallHostFunction, Send, AnswerOfThisCall
<1>13. CASE LogMessage
    BY <1>13, <1>i DEF LogMessage, Send, AnswerOfThisCall
<1>14. CASE Abort
    BY <1>14, <1>i DEF Abort, AnswerOfThisCall
<1>15. CASE ReadReply
    BY <1>15, <1>i DEF ReadReply, AnswerOfThisCall
<1>16. CASE OverwriteCookie
    BY <1>16, <1>i DEF OverwriteCookie, AnswerOfThisCall
<1>17. ASSUME NEW fits \in BOOLEAN, NEW kind \in {"result", "garbled"},
             ReturnOk(fits, kind)
      PROVE  AnswerOfThisCall'
    BY <1>17, <1>i DEF ReturnOk, AnswerOfThisCall
<1>18. CASE ReturnErr
    BY <1>18, <1>i DEF ReturnErr, AnswerOfThisCall
<1>19. ASSUME NEW fails \in BOOLEAN, OutbCallFunction(fails)
      PROVE  AnswerOfThisCall'
    BY <1>19, <1>i DEF OutbCallFunction, AnswerOfThisCall
<1>20. CASE OutbLog
    BY <1>20, <1>i DEF OutbLog, AnswerOfThisCall
<1>21. CASE OutbAbort
    BY <1>21, <1>i DEF OutbAbort, AnswerOfThisCall
<1>22. CASE Fault
    BY <1>22, <1>i DEF Fault, AnswerOfThisCall
<1>23. CASE Initialised
    BY <1>23, <1>i DEF Initialised, AnswerOfThisCall
<1>24. CASE InitialiseFails
    BY <1>24, <1>i DEF InitialiseFails, AnswerOfThisCall
<1>25. CASE ReturnsResult
    <2>1. /\ at = "halted" /\ mem.output # << >> /\ Top(mem.output).kind = "result"
          /\ life # "adrift"
        BY <1>25, <1>i DEF ReturnsResult, Holds, Called
    <2>2. Len(mem.output) \in 1..Len(mem.output)
        BY <2>1, PoppedOutput
    <2>3. Intact => Top(mem.output).id = call
        BY <2>1, <2>2 DEF ResultsOK, Top
    <2>4. outcome' = [call |-> call, kind |-> "ok", of |-> Top(mem.output).id]
        BY <1>25, <1>i DEF ReturnsResult, Returns
    <2>5. QED BY <2>3, <2>4, <1>i DEF AnswerOfThisCall
<1>26. CASE ReturnsGuestError
    BY <1>26, <1>i DEF ReturnsGuestError, Returns, ErrorsOK, AnswerOfThisCall
<1>27. CASE NoResult
    BY <1>27, <1>i DEF NoResult, Returns, AnswerOfThisCall
<1>28. CASE RunFailed
    BY <1>28, <1>i DEF RunFailed, Returns, Interrupted, AnswerOfThisCall
<1>29. ASSUME NEW inStep \in BOOLEAN, Cancel(inStep)
      PROVE  AnswerOfThisCall'
    BY <1>29, <1>i DEF Cancel, RestoreState, Returns, Interrupted, AnswerOfThisCall
<1>30. CASE Hung
    BY <1>30, <1>i DEF Hung, AnswerOfThisCall
<1>31. CASE FinishedWhileCancelling
    <2>1. CASE Holds(mem.output, "result")
        <3>1. mem.output # << >> /\ Top(mem.output).kind = "result" /\ life # "adrift"
            BY <1>31, <2>1 DEF FinishedWhileCancelling, Holds, Called
        <3>2. Len(mem.output) \in 1..Len(mem.output)
            BY <3>1, PoppedOutput
        <3>3. Intact => Top(mem.output).id = call
            BY <3>1, <3>2, SMTT(30) DEF ResultsOK, Top
        <3>4. /\ life' = "adrift"
              /\ \/ outcome' = [call |-> call, kind |-> "guestError", of |-> mem.error]
                 \/ outcome' = [call |-> call, kind |-> "ok", of |-> Top(mem.output).id]
            BY <1>31, <2>1, SMTT(30) DEF FinishedWhileCancelling
        <3>5. QED BY <3>3, <3>4, <1>i, SMTT(30) DEF AnswerOfThisCall
    <2>2. CASE ~ Holds(mem.output, "result")
        BY <1>31, <2>2 DEF FinishedWhileCancelling, AnswerOfThisCall
    <2>3. QED BY <2>1, <2>2
<1>32. CASE ReplyUnread
    BY <1>32, <1>i DEF ReplyUnread, AnswerOfThisCall
<1>33. CASE UNCHANGED vars
    BY <1>33, <1>i DEF vars, AnswerOfThisCall
<1>34. QED
    BY <1>1, <1>2, <1>3, <1>4, <1>5, <1>6, <1>7, <1>8, <1>9, <1>10, <1>11, <1>12,
       <1>13, <1>14, <1>15, <1>16, <1>17, <1>18, <1>19, <1>20, <1>21, <1>22, <1>23,
       <1>24, <1>25, <1>26, <1>27, <1>28, <1>29, <1>30, <1>31, <1>32, <1>33,
       ZenonT(30) DEF Next, OwnerNext, GuestNext, HostNext

\* Every step keeps a multi-use sandbox clean between its calls.
LEMMA CleanStep ==
    ASSUME TypeOK, HandlesOK, CleanBetweenCalls, [Next]_vars
    PROVE  CleanBetweenCalls'
<1> USE DEF owner, MsgKinds
<1>s. snapshots \in Seq(Memory) /\ mem \in Memory
    BY DEF TypeOK
<1>1. ASSUME NEW kind \in {"toMulti", "toSingle"}, EvolveUninitialized(kind)
      PROVE  CleanBetweenCalls'
    BY <1>1 DEF EvolveUninitialized, CleanBetweenCalls
<1>2. CASE NewCallContext
    BY <1>2 DEF NewCallContext, CleanBetweenCalls
<1>3. CASE Finish
    BY <1>3 DEF Finish, RestoreState, CleanBetweenCalls
<1>4. CASE EvolveMulti
    BY <1>4 DEF EvolveMulti, CleanBetweenCalls
<1>5. ASSUME NEW ok \in BOOLEAN, EvolveReturns(ok)
      PROVE  CleanBetweenCalls'
    <2>1. ok => Top(snapshots') = mem
        BY <1>5, <1>s, AppendFacts DEF EvolveReturns
    <2>2. QED BY <1>5, <2>1 DEF EvolveReturns, CleanBetweenCalls
<1>6. CASE Devolve
    BY <1>6 DEF Devolve, CleanBetweenCalls
<1>7. CASE CallFromFunc
    BY <1>7 DEF CallFromFunc, CleanBetweenCalls
<1>8. CASE DropSandbox
    BY <1>8 DEF DropSandbox, CleanBetweenCalls
<1>9. ASSUME NEW fits \in BOOLEAN, CallFunctionOnGuest(fits)
      PROVE  CleanBetweenCalls'
    BY <1>9 DEF CallFunctionOnGuest, CleanBetweenCalls
<1>10. CASE Dispatch
    BY <1>10 DEF Dispatch, CleanBetweenCalls
<1>11. CASE StackExhausted
    BY <1>11 DEF StackExhausted, CleanBetweenCalls
<1>12. ASSUME NEW reads \in BOOLEAN, CallHostFunction(reads)
      PROVE  CleanBetweenCalls'
    BY <1>12 DEF CallHostFunction, Send, CleanBetweenCalls
<1>13. CASE LogMessage
    BY <1>13 DEF LogMessage, Send, CleanBetweenCalls
<1>14. CASE Abort
    BY <1>14 DEF Abort, CleanBetweenCalls
<1>15. CASE ReadReply
    BY <1>15 DEF ReadReply, CleanBetweenCalls
<1>16. CASE OverwriteCookie
    BY <1>16 DEF OverwriteCookie, CleanBetweenCalls
<1>17. ASSUME NEW fits \in BOOLEAN, NEW kind \in {"result", "garbled"},
             ReturnOk(fits, kind)
      PROVE  CleanBetweenCalls'
    BY <1>17 DEF ReturnOk, CleanBetweenCalls
<1>18. CASE ReturnErr
    BY <1>18 DEF ReturnErr, CleanBetweenCalls
<1>19. ASSUME NEW fails \in BOOLEAN, OutbCallFunction(fails)
      PROVE  CleanBetweenCalls'
    BY <1>19 DEF OutbCallFunction, CleanBetweenCalls
<1>20. CASE OutbLog
    BY <1>20 DEF OutbLog, CleanBetweenCalls
<1>21. CASE OutbAbort
    BY <1>21 DEF OutbAbort, CleanBetweenCalls
<1>22. CASE Fault
    BY <1>22 DEF Fault, CleanBetweenCalls
<1>23. CASE Initialised
    <2>1. life = "toMulti" => Top(snapshots') = mem
        BY <1>23 DEF Initialised, Top
    <2>2. QED BY <1>23, <2>1 DEF Initialised, CleanBetweenCalls
<1>24. CASE InitialiseFails
    BY <1>24 DEF InitialiseFails, CleanBetweenCalls
<1>25. CASE ReturnsResult
    <2>1. life' = "multi" => life = "multi"
        BY <1>25 DEF ReturnsResult, Returns, Released
    <2>2. QED BY <1>25, <2>1 DEF ReturnsResult, RestoreState, CleanBetweenCalls
<1>26. CASE ReturnsGuestError
    BY <1>26 DEF ReturnsGuestError, Returns, CleanBetweenCalls
<1>27. CASE NoResult
    BY <1>27 DEF NoResult, Returns, CleanBetweenCalls
<1>28. CASE RunFailed
    BY <1>28 DEF RunFailed, Returns, Interrupted, CleanBetweenCalls
<1>29. ASSUME NEW inStep \in BOOLEAN, Cancel(inStep)
      PROVE  CleanBetweenCalls'
    <2>1. life' = "multi" => life = "multi"
        BY <1>29 DEF Cancel, Returns, Released
    <2>2. life' = "multi" => RestoreState
        BY <1>29 DEF Cancel, Returns, Released, HandlesOK, Reusable
    <2>3. snapshots' = snapshots
        BY <1>29 DEF Cancel
    <2>4. QED BY <2>1, <2>2, <2>3 DEF RestoreState, CleanBetweenCalls
<1>30. CASE Hung
    BY <1>30 DEF Hung, CleanBetweenCalls
<1>31. CASE FinishedWhileCancelling
    BY <1>31 DEF FinishedWhileCancelling, CleanBetweenCalls
<1>32. CASE ReplyUnread
    BY <1>32 DEF ReplyUnread, CleanBetweenCalls
<1>33. CASE UNCHANGED vars
    BY <1>33 DEF vars, CleanBetweenCalls
<1>34. QED
    BY <1>1, <1>2, <1>3, <1>4, <1>5, <1>6, <1>7, <1>8, <1>9, <1>10, <1>11, <1>12,
       <1>13, <1>14, <1>15, <1>16, <1>17, <1>18, <1>19, <1>20, <1>21, <1>22, <1>23,
       <1>24, <1>25, <1>26, <1>27, <1>28, <1>29, <1>30, <1>31, <1>32, <1>33,
       ZenonT(30) DEF Next, OwnerNext, GuestNext, HostNext

-----------------------------------------------------------------------------
(* The theorems *)

\* The invariant holds when the sandbox is created.
LEMMA InitInv == Init => CallsInv
<1> SUFFICES ASSUME Init
             PROVE  CallsInv
    OBVIOUS
<1>1. /\ << >> \in Seq(Msg) /\ << >> \in Seq(Memory)
      /\ [kind |-> "call", id |-> 0] \in Msg
      /\ [call |-> 0, kind |-> "none", of |-> 0] \in Outcomes
    BY DEF Msg, MsgKinds, Outcomes
<1>2. mem \in Memory
    BY <1>1 DEF Init, Memory
<1>3. TypeOK
    BY <1>1, <1>2, CallsAssumption, SMTT(30) DEF Init, TypeOK, Lives
<1>4. StacksMatch /\ AnswerOfThisCall /\ CleanBetweenCalls /\ ErrorsOK /\ ResultsOK
    BY SMTT(40) DEF Init, StacksMatch, AnswerOfThisCall, CleanBetweenCalls, ErrorsOK, ResultsOK
<1>5. HandlesOK /\ HandOver
    BY SMTT(40) DEF Init, HandlesOK, HandOver, Reusable, OneShot
<1>6. QED BY <1>3, <1>4, <1>5 DEF CallsInv

\* The invariant holds for ever, whatever the owner, the guest and the host
\* functions do.
THEOREM Invariance == Spec => []CallsInv
<1>1. CallsInv /\ [Next]_vars => CallsInv'
    <2> SUFFICES ASSUME CallsInv, [Next]_vars
                 PROVE  CallsInv'
        OBVIOUS
    <2>1. TypeOK' /\ HandlesOK'
        BY TypeStep, HandlesStep DEF CallsInv
    <2>2. ErrorsOK' /\ ResultsOK' /\ HandOver'
        BY ErrorsStep, ResultsStep, HandOverStep DEF CallsInv
    <2>3. StacksMatch' /\ AnswerOfThisCall' /\ CleanBetweenCalls'
        BY StacksStep, AnswerStep, CleanStep DEF CallsInv
    <2>4. QED BY <2>1, <2>2, <2>3 DEF CallsInv
<1>2. QED BY InitInv, <1>1, PTL DEF Spec

\* Every variable always has its type.
THEOREM TypeCorrect == Spec => []TypeOK
<1>1. CallsInv => TypeOK
    BY DEF CallsInv
<1>2. QED BY Invariance, <1>1, PTL

\* The dispatcher, the guest and the outb handler always find on top of their
\* stack the message that is meant for them.
THEOREM ReadersFindTheirMessage == Spec => []StacksMatch
<1>1. CallsInv => StacksMatch
    BY DEF CallsInv
<1>2. QED BY Invariance, <1>1, PTL

\* A value returned by call_function_on_guest was produced by the guest in that
\* call, and so was a guest error if the handler's reply was received.
THEOREM AnswersAreOwn == Spec => []AnswerOfThisCall
<1>1. CallsInv => AnswerOfThisCall
    BY DEF CallsInv
<1>2. QED BY Invariance, <1>1, PTL

\* Between the calls of a multi-use sandbox only results that could not be
\* decoded are on its output stack, however its calls ended.
THEOREM NothingLeftInOutput == Spec => []OutputDrained
<1>1. CallsInv => OutputDrained
    BY DEF CallsInv, HandOver, OutputDrained, Leftover
<1>2. QED BY Invariance, <1>1, PTL

\* A multi-use sandbox whose last call did not fail holds the memory of its last
\* snapshot between calls.
THEOREM SandboxIsClean == Spec => []CleanBetweenCalls
<1>1. CallsInv => CleanBetweenCalls
    BY DEF CallsInv
<1>2. QED BY Invariance, <1>1, PTL
=============================================================================
