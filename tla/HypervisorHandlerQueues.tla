---------------------- MODULE HypervisorHandlerQueues ----------------------
(***************************************************************************)
(* Proofs about HypervisorHandler, first part: types, the two channels, how*)
(* far the received replies lag behind the actions sent, and the parameters*)
(* the guest finds, for any number of guest calls, any length of the signal*)
(* loop and any size of the input buffer.                                  *)
(***************************************************************************)
EXTENDS HypervisorHandler, SequenceTheorems, TLAPS

\* Popping a non-empty stack of the memory model leaves a stack.
LEMMA PopType ==
    ASSUME NEW s \in Seq(Nat), s # <<>>
    PROVE  Pop(s) \in Seq(Nat) /\ Top(s) \in Nat
<1>1. Len(s) \in Nat /\ Len(s) > 0
    BY EmptySeq, LenProperties
<1>2. Top(s) \in Nat
    BY <1>1, ElementOfSeq DEF Top
<1>3. \A i \in 1..(Len(s) - 1) : s[i] \in Nat
    BY <1>1, ElementOfSeq
<1>4. Pop(s) \in Seq(Nat)
    BY <1>1, <1>3, SubSeqProperties DEF Pop
<1>5. QED BY <1>2, <1>4

\* The first and the remaining messages of a non-empty channel.
LEMMA ChannelType ==
    ASSUME NEW S, NEW s \in Seq(S), s # <<>>
    PROVE  /\ Head(s) \in S /\ Tail(s) \in Seq(S)
           /\ Head(s) = s[1] /\ Len(s) \in Nat /\ Len(s) >= 1
           /\ Len(Tail(s)) = Len(s) - 1
           /\ \A i \in 1..Len(Tail(s)) : Tail(s)[i] = s[i + 1]
BY HeadTailProperties, EmptySeq, LenProperties, ElementOfSeq

-----------------------------------------------------------------------------
(* The type invariant.                                                     *)

\* Receiving a message leaves a channel.
LEMMA ReceiveType ==
    ASSUME DataOK, NEW r, Receive(r)
    PROVE  from_handler' \in Seq([res : Results, id : Nat]) /\ consumed' \in Nat
BY ChannelType DEF DataOK, Receive

\* Sending an action leaves a channel.
LEMMA SendType ==
    ASSUME DataOK, NEW kind \in Kinds, Send(kind)
    PROVE  to_handler' \in Seq([kind : Kinds, id : Nat]) /\ sent' \in Nat
BY DEF DataOK, Send

\* Pushing a number on a stack of the memory model leaves a stack.
LEMMA PushType ==
    ASSUME NEW s \in Seq(Nat), NEW x \in Nat
    PROVE  Push(s, x) \in Seq(Nat)
BY DEF Push

\* What the guest pushes leaves a stack.
LEMMA PushedType ==
    ASSUME DataOK, GuestPushes
    PROVE  output' \in Seq(Nat)
<1>1. output \in Seq(Nat) /\ gcall \in Nat /\ 0 \in Nat
    BY DEF DataOK
<1>2. CASE UNCHANGED output
    BY <1>1, <1>2
<1>3. CASE \E r \in {gcall, 0} : output' = Push(output, r)
    <2>1. PICK r \in {gcall, 0} : output' = Push(output, r)
        BY <1>3
    <2>2. r \in Nat
        BY <1>1
    <2>3. QED BY <1>1, <2>1, <2>2, PushType
<1>4. QED BY <1>2, <1>3 DEF GuestPushes

\* Every step of the caller and of the handler thread preserves the types of
\* the channels, of the memory and of the threads' states.
LEMMA DataStep == DataOK /\ [Next]_vars => DataOK'
<1> SUFFICES ASSUME DataOK, [Next]_vars
             PROVE  DataOK'
    OBVIOUS
<1> USE DEF Busy, Waiting, CallerPlaces,
            channels, flags, lock, memory, shared, handler, locals, sandbox, caller,
            history
<1>p. /\ input # <<>> => Top(input) \in Nat /\ Pop(input) \in Seq(Nat)
      /\ output # <<>> => Top(output) \in Nat /\ Pop(output) \in Seq(Nat)
    BY PopType DEF DataOK
<1>t. to_handler # <<>> =>
        /\ Head(to_handler) \in [kind : Kinds, id : Nat]
        /\ Tail(to_handler) \in Seq([kind : Kinds, id : Nat])
    BY ChannelType DEF DataOK
<1>k. {"Initialise", "Dispatch", "Terminate"} = Kinds
    BY DEF Kinds
<1>1. CASE EvolveFails
    BY <1>1 DEF EvolveFails, DataOK
<1>2. CASE Evolve
    BY <1>2, <1>k, SendType DEF Evolve, DataOK
<1>3. CASE EvolveDone
    BY <1>3, ReceiveType DEF EvolveDone, DataOK
<1>4. CASE EvolveFailsLate
    BY <1>4, ReceiveType DEF EvolveFailsLate, DataOK
<1>5. CASE InitFails
    <2>1. (\E r : Receive(r)) \/ UNCHANGED <<from_handler, consumed>>
        BY <1>5 DEF InitFails
    <2>2. from_handler' \in Seq([res : Results, id : Nat]) /\ consumed' \in Nat
        BY <2>1, ReceiveType DEF DataOK
    <2>3. QED BY <1>5, <2>2, <1>k, SendType DEF InitFails, DataOK
<1>6. CASE StartCall
    <2>1. to_handler' \in Seq([kind : Kinds, id : Nat]) /\ sent' \in Nat
        BY <1>6, <1>k, SendType DEF StartCall
    <2>2. input' \in Seq(Nat)
        BY <1>6, PushType DEF StartCall, DataOK
    <2>3. QED BY <1>6, <2>1, <2>2 DEF StartCall, Outcomes, DataOK
<1>7. CASE StartCallFails
    BY <1>7 DEF StartCallFails, Return, Outcomes, DataOK
<1>8. CASE CallReplied
    <2>1. \E r : Receive(r)
        BY <1>8 DEF CallReplied
    <2>2. from_handler' \in Seq([res : Results, id : Nat]) /\ consumed' \in Nat
        BY <2>1, ReceiveType
    <2>3. QED BY <1>8, <2>2 DEF CallReplied, Return, Outcomes, DataOK
<1>9. CASE CallTimesOut
    BY <1>9 DEF CallTimesOut, DataOK
<1>10. CASE ReadResult
    <2>1. HasResult => output # <<>>
        BY DEF HasResult
    <2>2. QED BY <1>p, <1>10, <2>1, SMTT(40) DEF ReadResult, Return, Outcomes, DataOK
<1>11. CASE CheckRunning
    BY <1>11 DEF CheckRunning, DataOK
<1>12. CASE SignalCheck
    BY <1>12 DEF SignalCheck, DataOK
<1>13. CASE SignalSend
    BY <1>13 DEF SignalSend, DataOK
<1>14. CASE SignalDone
    BY <1>14 DEF SignalDone, Return, Outcomes, DataOK
<1>15. CASE Slept
    BY <1>15 DEF Slept, Return, Outcomes, DataOK
<1>16. CASE CancelReplied
    <2>1. (\E r : Receive(r)) \/ UNCHANGED <<from_handler, consumed>>
        BY <1>16 DEF CancelReplied
    <2>2. from_handler' \in Seq([res : Results, id : Nat]) /\ consumed' \in Nat
        BY <2>1, ReceiveType DEF DataOK
    <2>3. QED BY <1>16, <2>2 DEF CancelReplied, DataOK
<1>17. CASE Reinitialised
    <2>1. (\E r : Receive(r)) \/ UNCHANGED <<from_handler, consumed>>
        BY <1>17 DEF Reinitialised
    <2>2. from_handler' \in Seq([res : Results, id : Nat]) /\ consumed' \in Nat
        BY <2>1, ReceiveType DEF DataOK
    <2>3. QED BY <1>17, <2>2 DEF Reinitialised, Return, Outcomes, DataOK
<1>18. CASE FinishContext
    BY <1>18 DEF FinishContext, DataOK
<1>19. CASE RestoreFails
    BY <1>19 DEF RestoreFails, Return, Outcomes, DataOK
<1>20. CASE FinishFails
    BY <1>20, <1>k, SendType DEF FinishFails, DataOK
<1>21. CASE RestoreBegins
    BY <1>21 DEF RestoreBegins, DataOK
<1>22. CASE RestoreEnds
    <2>1. Send("Initialise") \/ UNCHANGED <<to_handler, sent>>
        BY <1>22 DEF RestoreEnds
    <2>2. to_handler' \in Seq([kind : Kinds, id : Nat]) /\ sent' \in Nat
        BY <2>1, <1>k, SendType DEF DataOK
    <2>3. QED BY <1>22, <2>2 DEF RestoreEnds, Outcomes, DataOK
<1>23. CASE Drop
    BY <1>23, <1>k, SendType DEF Drop, DataOK
<1>24. CASE KillReplied
    <2>1. (\E r : Receive(r)) \/ UNCHANGED <<from_handler, consumed>>
        BY <1>24 DEF KillReplied
    <2>2. from_handler' \in Seq([res : Results, id : Nat]) /\ consumed' \in Nat
        BY <2>1, ReceiveType DEF DataOK
    <2>3. QED BY <1>24, <2>2 DEF KillReplied, DataOK
<1>25. CASE Join
    BY <1>25 DEF Join, DataOK
<1>26. CASE TakeAction
    BY <1>t, <1>26 DEF TakeAction, DataOK
<1>27. CASE SetRunning
    BY <1>27 DEF SetRunning, DataOK
<1>28. CASE ClearCancelled
    BY <1>28 DEF ClearCancelled, DataOK
<1>29. CASE LockMemory
    BY <1>29 DEF LockMemory, DataOK
<1>30. CASE EnterVcpu
    BY <1>30 DEF EnterVcpu, DataOK
<1>31. CASE GuestPops
    BY <1>p, <1>31 DEF GuestPops, DataOK
<1>32. CASE ExitHalt
    <2>1. GuestPushes \/ UNCHANGED output
        BY <1>32 DEF ExitHalt
    <2>2. output' \in Seq(Nat)
        BY <2>1, PushedType DEF DataOK
    <2>3. QED BY <1>32, <2>2 DEF ExitHalt, Results, DataOK
<1>33. CASE ExitIoOut
    BY <1>33 DEF ExitIoOut, DataOK
<1>34. CASE OutbReturns
    BY <1>34 DEF OutbReturns, Fault, Results, DataOK
<1>35. CASE ExitRetry
    BY <1>35 DEF ExitRetry, DataOK
<1>36. CASE ExitError
    BY <1>36 DEF ExitError, Fault, Results, DataOK
<1>37. CASE ExitCancelled
    <2>1. GuestPushes \/ UNCHANGED output
        BY <1>37 DEF ExitCancelled
    <2>2. output' \in Seq(Nat)
        BY <2>1, PushedType DEF DataOK
    <2>3. QED BY <1>37, <2>2 DEF ExitCancelled, DataOK
<1>38. CASE SetRunCancelled
    BY <1>38 DEF SetRunCancelled, Results, DataOK
<1>39. CASE UnlockMemory
    BY <1>39 DEF UnlockMemory, DataOK
<1>40. CASE ClearRunning
    BY <1>40 DEF ClearRunning, DataOK
<1>41. CASE Reply
    BY <1>41 DEF Reply, DataOK
<1>42. CASE Exit
    BY <1>42 DEF Exit, Results, DataOK
<1>43. CASE UNCHANGED vars
    BY <1>43 DEF vars, DataOK
<1>44. QED
    BY <1>1, <1>2, <1>3, <1>4, <1>5, <1>6, <1>7, <1>8, <1>9, <1>10, <1>11,
       <1>12, <1>13, <1>14, <1>15, <1>16, <1>17, <1>18, <1>19, <1>20, <1>21,
       <1>22, <1>23, <1>24, <1>25, <1>26, <1>27, <1>28, <1>29, <1>30, <1>31,
       <1>32, <1>33, <1>34, <1>35, <1>36, <1>37, <1>38, <1>39, <1>40, <1>41,
       <1>42, <1>43, Zenon
    DEF Next, CallerNext, HandlerNext

\* Every step preserves the types of the flags and of the memory lock.
LEMMA FlagsStep == FlagsOK /\ [Next]_vars => FlagsOK'
<1> SUFFICES ASSUME FlagsOK, [Next]_vars
             PROVE  FlagsOK'
    OBVIOUS
<1> USE DEF FlagsOK, channels, flags, lock, memory, shared, handler, locals, sandbox, caller,
            history
<1>1. CASE EvolveFails
    BY <1>1, Zenon DEF EvolveFails
<1>2. CASE Evolve
    BY <1>2, Zenon DEF Evolve, Send
<1>3. CASE EvolveDone
    BY <1>3, Zenon DEF EvolveDone
<1>4. CASE EvolveFailsLate
    BY <1>4, Zenon DEF EvolveFailsLate
<1>5. CASE InitFails
    BY <1>5, ZenonT(40) DEF InitFails, Send, Receive, TimesOut
<1>6. CASE StartCall
    BY <1>6, Zenon DEF StartCall, Send
<1>7. CASE StartCallFails
    BY <1>7, Zenon DEF StartCallFails
<1>8. CASE CallReplied
    BY <1>8, Zenon DEF CallReplied
<1>9. CASE CallTimesOut
    BY <1>9, Zenon DEF CallTimesOut
<1>10. CASE ReadResult
    BY <1>10, Zenon DEF ReadResult
<1>11. CASE CheckRunning
    BY <1>11, Zenon DEF CheckRunning
<1>12. CASE SignalCheck
    BY <1>12, Zenon DEF SignalCheck
<1>13. CASE SignalSend
    BY <1>13, Zenon DEF SignalSend
<1>14. CASE SignalDone
    BY <1>14, Zenon DEF SignalDone
<1>15. CASE Slept
    BY <1>15, Zenon DEF Slept
<1>16. CASE CancelReplied
    BY <1>16, ZenonT(40) DEF CancelReplied
<1>17. CASE Reinitialised
    BY <1>17, ZenonT(40) DEF Reinitialised
<1>18. CASE FinishContext
    BY <1>18, Zenon DEF FinishContext
<1>19. CASE RestoreFails
    BY <1>19, Zenon DEF RestoreFails
<1>20. CASE FinishFails
    BY <1>20, Zenon DEF FinishFails, Send
<1>21. CASE RestoreBegins
    BY <1>21, Zenon DEF RestoreBegins
<1>22. CASE RestoreEnds
    BY <1>22, Zenon DEF RestoreEnds, Send
<1>23. CASE Drop
    BY <1>23, Zenon DEF Drop, Send
<1>24. CASE KillReplied
    BY <1>24, ZenonT(40) DEF KillReplied
<1>25. CASE Join
    BY <1>25, Zenon DEF Join
<1>26. CASE TakeAction
    BY <1>26, Zenon DEF TakeAction
<1>27. CASE SetRunning
    BY <1>27, Zenon DEF SetRunning
<1>28. CASE ClearCancelled
    BY <1>28, Zenon DEF ClearCancelled
<1>29. CASE LockMemory
    BY <1>29, Zenon DEF LockMemory
<1>30. CASE EnterVcpu
    BY <1>30, Zenon DEF EnterVcpu
<1>31. CASE GuestPops
    BY <1>31, Zenon DEF GuestPops
<1>32. CASE ExitHalt
    BY <1>32, Zenon DEF ExitHalt
<1>33. CASE ExitIoOut
    BY <1>33, Zenon DEF ExitIoOut
<1>34. CASE OutbReturns
    BY <1>34, Zenon DEF OutbReturns, Fault
<1>35. CASE ExitRetry
    BY <1>35, Zenon DEF ExitRetry
<1>36. CASE ExitError
    BY <1>36, Zenon DEF ExitError, Fault
<1>37. CASE ExitCancelled
    BY <1>37, Zenon DEF ExitCancelled
<1>38. CASE SetRunCancelled
    BY <1>38, Zenon DEF SetRunCancelled
<1>39. CASE UnlockMemory
    BY <1>39, Zenon DEF UnlockMemory
<1>40. CASE ClearRunning
    BY <1>40, Zenon DEF ClearRunning
<1>41. CASE Reply
    BY <1>41, Zenon DEF Reply
<1>42. CASE Exit
    BY <1>42, Zenon DEF Exit
<1>43. CASE UNCHANGED vars
    BY <1>43, Zenon DEF vars
<1>44. QED
    BY <1>1, <1>2, <1>3, <1>4, <1>5, <1>6, <1>7, <1>8, <1>9, <1>10, <1>11,
       <1>12, <1>13, <1>14, <1>15, <1>16, <1>17, <1>18, <1>19, <1>20, <1>21,
       <1>22, <1>23, <1>24, <1>25, <1>26, <1>27, <1>28, <1>29, <1>30, <1>31,
       <1>32, <1>33, <1>34, <1>35, <1>36, <1>37, <1>38, <1>39, <1>40, <1>41,
       <1>42, <1>43, Zenon
    DEF Next, CallerNext, HandlerNext

\* The initial states have the right types.
LEMMA InitType == Init => TypeOK
<1>1. Init => FlagsOK
    BY Zenon DEF Init, FlagsOK
<1>2. Init => DataOK
    BY DEF Init, DataOK, Kinds, Results, Outcomes, Busy, Waiting, CallerPlaces
<1>3. QED BY <1>1, <1>2 DEF TypeOK

\* All variables always have their types, however many calls are made.
THEOREM TypeCorrect == Spec => []TypeOK
<1>1. TypeOK /\ [Next]_vars => TypeOK'
    BY DataStep, FlagsStep DEF TypeOK
<1>2. QED BY <1>1, InitType, PTL DEF Spec

-----------------------------------------------------------------------------
(* The bookkeeping of actions and replies.                                 *)

\* A step that at most receives one reply and sends one action, and that
\* neither begins nor ends an action, keeps the queues in order.
LEMMA QueueStep ==
    ASSUME DataOK, OneReplyPerAction, UNCHANGED hact,
           (\E r : Receive(r)) \/ UNCHANGED <<from_handler, consumed>>,
           (\E k \in Kinds : Send(k)) \/ UNCHANGED <<to_handler, sent>>,
           hpc' \in Busy \cup {"bye"} <=> hpc \in Busy \cup {"bye"}
    PROVE  OneReplyPerAction'
<1> DEFINE work == IF hpc \in Busy \cup {"bye"} THEN 1 ELSE 0
<1>w. work \in Nat /\ work' = work
    OBVIOUS
<1>l. Len(from_handler) \in Nat /\ Len(to_handler) \in Nat /\ consumed \in Nat
      /\ sent \in Nat
    BY LenProperties DEF DataOK
<1>1. /\ consumed' + Len(from_handler') = consumed + Len(from_handler)
      /\ consumed' \in Nat /\ Len(from_handler') \in Nat
      /\ \A i \in 1..Len(from_handler') : from_handler'[i].id = consumed' + i
    <2>1. CASE UNCHANGED <<from_handler, consumed>>
        BY <2>1, <1>l DEF OneReplyPerAction
    <2>2. CASE \E r : Receive(r)
        <3>1. /\ Len(from_handler') = Len(from_handler) - 1
              /\ Len(from_handler) >= 1 /\ consumed' = consumed + 1
              /\ \A i \in 1..Len(from_handler') : from_handler'[i] = from_handler[i + 1]
            BY <2>2, ChannelType DEF Receive, DataOK
        <3>2. ASSUME NEW i \in 1..Len(from_handler')
              PROVE  from_handler'[i].id = consumed' + i
            <4>1. i + 1 \in 1..Len(from_handler)
                BY <3>1, <1>l
            <4>2. from_handler[i + 1].id = consumed + (i + 1)
                BY <4>1 DEF OneReplyPerAction
            <4>3. QED BY <4>2, <3>1, <1>l
        <3>3. QED BY <3>1, <3>2, <1>l
    <2>3. QED BY <2>1, <2>2
<1>2. Taken' = Taken /\ Taken \in Nat
    <2>1. /\ Taken = consumed + Len(from_handler) + work
          /\ Taken' = consumed' + Len(from_handler') + work'
        BY DEF Taken
    <2>2. QED BY <2>1, <1>1, <1>w, <1>l
<1>3. /\ sent' = Taken + Len(to_handler')
      /\ \A i \in 1..Len(to_handler') : to_handler'[i].id = Taken + i
    <2>1. CASE UNCHANGED <<to_handler, sent>>
        BY <2>1 DEF OneReplyPerAction
    <2>2. CASE \E k \in Kinds : Send(k)
        <3>1. PICK k \in Kinds : Send(k)
            BY <2>2
        <3>2. /\ Len(to_handler') = Len(to_handler) + 1
              /\ \A i \in 1..Len(to_handler) : to_handler'[i] = to_handler[i]
              /\ to_handler'[Len(to_handler) + 1] = [kind |-> k, id |-> sent + 1]
            BY <3>1, AppendProperties DEF Send, DataOK
        <3>3. to_handler'[Len(to_handler) + 1].id = Taken + Len(to_handler) + 1
            BY <3>2 DEF OneReplyPerAction
        <3>4. sent' = Taken + Len(to_handler')
            BY <3>1, <3>2, <1>l, <1>2 DEF Send, OneReplyPerAction
        <3>5. ASSUME NEW i \in 1..Len(to_handler')
              PROVE  to_handler'[i].id = Taken + i
            <4>1. CASE i \in 1..Len(to_handler)
                BY <4>1, <3>2 DEF OneReplyPerAction
            <4>2. CASE i = Len(to_handler) + 1
                BY <4>2, <3>3, <1>l, <1>2
            <4>3. QED BY <4>1, <4>2, <3>2, <1>l
        <3>6. QED BY <3>4, <3>5
    <2>3. QED BY <2>1, <2>2
<1>4. hpc' \in Busy \cup {"bye"} => hact'.id = consumed' + Len(from_handler') + 1
    BY <1>1 DEF OneReplyPerAction
<1>5. QED BY <1>1, <1>2, <1>3, <1>4 DEF OneReplyPerAction

\* Taking the next action keeps the queues in order.
LEMMA TakeStep ==
    ASSUME DataOK, OneReplyPerAction, TakeAction
    PROVE  OneReplyPerAction'
<1>1. /\ hpc \notin Busy \cup {"bye"} /\ hpc' \in Busy \cup {"bye"}
      /\ UNCHANGED <<from_handler, consumed, sent>>
      /\ hact' = Head(to_handler) /\ to_handler # <<>>
      /\ to_handler' = Tail(to_handler)
    BY DEF TakeAction, Busy, history
<1>2. /\ to_handler \in Seq([kind : Kinds, id : Nat])
      /\ Len(from_handler) \in Nat /\ consumed \in Nat
    BY LenProperties DEF DataOK
<1>3. /\ hact' = to_handler[1] /\ Len(to_handler) \in Nat /\ Len(to_handler) >= 1
      /\ Len(to_handler') = Len(to_handler) - 1
      /\ \A i \in 1..Len(to_handler') : to_handler'[i] = to_handler[i + 1]
    BY <1>1, <1>2, ChannelType
<1>4. Taken = consumed + Len(from_handler) /\ Taken' = Taken + 1
    BY <1>1, <1>2 DEF Taken
<1>5. /\ hact'.id = Taken + 1 /\ sent' = Taken' + Len(to_handler')
      /\ \A i \in 1..Len(to_handler') : to_handler'[i].id = Taken' + i
    BY <1>1, <1>2, <1>3, <1>4 DEF OneReplyPerAction
<1>6. QED BY <1>1, <1>4, <1>5 DEF OneReplyPerAction

\* Replying to the action being executed keeps the queues in order.
LEMMA ReplyStep ==
    ASSUME DataOK, OneReplyPerAction, Reply \/ Exit
    PROVE  OneReplyPerAction'
<1>1. /\ hpc \in Busy \cup {"bye"} /\ hpc' \notin Busy \cup {"bye"}
      /\ UNCHANGED <<to_handler, consumed, sent, hact>>
      /\ \E m \in [res : Results, id : Nat] :
            m.id = hact.id /\ from_handler' = Append(from_handler, m)
    BY DEF Reply, Exit, Busy, history, DataOK, Results
<1>2. PICK m \in [res : Results, id : Nat] :
            m.id = hact.id /\ from_handler' = Append(from_handler, m)
    BY <1>1
<1>3. /\ from_handler \in Seq([res : Results, id : Nat]) /\ consumed \in Nat
      /\ Len(from_handler) \in Nat /\ Len(to_handler) \in Nat
    BY LenProperties DEF DataOK
<1>4. /\ Len(from_handler') = Len(from_handler) + 1
      /\ \A i \in 1..Len(from_handler) : from_handler'[i] = from_handler[i]
      /\ from_handler'[Len(from_handler) + 1] = m
    BY <1>2, <1>3, AppendProperties
<1>5. \A i \in 1..Len(from_handler') : from_handler'[i].id = consumed' + i
    <2>1. m.id = consumed' + (Len(from_handler) + 1)
        BY <1>1, <1>2, <1>3 DEF OneReplyPerAction
    <2>2. QED BY <2>1, <1>1, <1>3, <1>4 DEF OneReplyPerAction
<1>6. Taken' = Taken
    BY <1>1, <1>3, <1>4 DEF Taken
<1>7. QED BY <1>1, <1>5, <1>6 DEF OneReplyPerAction

\* Every step keeps the queues in order.
LEMMA QueuesKept ==
    ASSUME DataOK, StepInv, OneReplyPerAction, [Next]_vars
    PROVE  OneReplyPerAction'
<1> USE DEF Busy, Kinds,
            channels, flags, lock, memory, shared, handler, locals, sandbox, caller,
            history
<1>1. CASE EvolveFails
    BY <1>1, QueueStep DEF EvolveFails
<1>2. CASE Evolve
    BY <1>2, QueueStep DEF Evolve, StepInv
<1>3. CASE EvolveDone
    BY <1>3, QueueStep DEF EvolveDone
<1>4. CASE EvolveFailsLate
    BY <1>4, QueueStep DEF EvolveFailsLate
<1>5. CASE InitFails
    BY <1>5, QueueStep DEF InitFails
<1>6. CASE StartCall
    BY <1>6, QueueStep DEF StartCall
<1>7. CASE StartCallFails
    BY <1>7, QueueStep DEF StartCallFails
<1>8. CASE CallReplied
    BY <1>8, QueueStep DEF CallReplied
<1>9. CASE CallTimesOut
    BY <1>9, QueueStep DEF CallTimesOut
<1>10. CASE ReadResult
    BY <1>10, QueueStep DEF ReadResult
<1>11. CASE CheckRunning
    BY <1>11, QueueStep DEF CheckRunning
<1>12. CASE SignalCheck
    BY <1>12, QueueStep DEF SignalCheck
<1>13. CASE SignalSend
    BY <1>13, QueueStep DEF SignalSend
<1>14. CASE SignalDone
    BY <1>14, QueueStep DEF SignalDone
<1>15. CASE Slept
    BY <1>15, QueueStep DEF Slept
<1>16. CASE CancelReplied
    BY <1>16, QueueStep DEF CancelReplied
<1>17. CASE Reinitialised
    BY <1>17, QueueStep DEF Reinitialised
<1>18. CASE FinishContext
    BY <1>18, QueueStep DEF FinishContext
<1>19. CASE RestoreFails
    BY <1>19, QueueStep DEF RestoreFails
<1>20. CASE FinishFails
    BY <1>20, QueueStep DEF FinishFails
<1>21. CASE RestoreBegins
    BY <1>21, QueueStep DEF RestoreBegins
<1>22. CASE RestoreEnds
    BY <1>22, QueueStep DEF RestoreEnds
<1>23. CASE Drop
    BY <1>23, QueueStep DEF Drop
<1>24. CASE KillReplied
    BY <1>24, QueueStep DEF KillReplied
<1>25. CASE Join
    BY <1>25, QueueStep DEF Join
<1>26. CASE TakeAction
    BY <1>26, TakeStep
<1>27. CASE SetRunning
    BY <1>27, QueueStep DEF SetRunning
<1>28. CASE ClearCancelled
    BY <1>28, QueueStep DEF ClearCancelled
<1>29. CASE LockMemory
    BY <1>29, QueueStep DEF LockMemory
<1>30. CASE EnterVcpu
    BY <1>30, QueueStep DEF EnterVcpu
<1>31. CASE GuestPops
    BY <1>31, QueueStep DEF GuestPops
<1>32. CASE ExitHalt
    BY <1>32, QueueStep DEF ExitHalt
<1>33. CASE ExitIoOut
    BY <1>33, QueueStep DEF ExitIoOut
<1>34. CASE OutbReturns
    BY <1>34, QueueStep DEF OutbReturns
<1>35. CASE ExitRetry
    BY <1>35, QueueStep DEF ExitRetry
<1>36. CASE ExitError
    BY <1>36, QueueStep DEF ExitError
<1>37. CASE ExitCancelled
    BY <1>37, QueueStep DEF ExitCancelled
<1>38. CASE SetRunCancelled
    BY <1>38, QueueStep DEF SetRunCancelled
<1>39. CASE UnlockMemory
    BY <1>39, QueueStep DEF UnlockMemory
<1>40. CASE ClearRunning
    BY <1>40, QueueStep DEF ClearRunning
<1>41. CASE Reply
    BY <1>41, ReplyStep
<1>42. CASE Exit
    BY <1>42, ReplyStep
<1>43. CASE UNCHANGED vars
    BY <1>43, QueueStep DEF vars
<1>44. QED
    BY <1>1, <1>2, <1>3, <1>4, <1>5, <1>6, <1>7, <1>8, <1>9, <1>10, <1>11,
       <1>12, <1>13, <1>14, <1>15, <1>16, <1>17, <1>18, <1>19, <1>20, <1>21,
       <1>22, <1>23, <1>24, <1>25, <1>26, <1>27, <1>28, <1>29, <1>30, <1>31,
       <1>32, <1>33, <1>34, <1>35, <1>36, <1>37, <1>38, <1>39, <1>40, <1>41,
       <1>42, <1>43, Zenon
    DEF Next, CallerNext, HandlerNext

\* Every step keeps the count of the replies a caller has received in step
\* with the place where the caller is.
LEMMA StepKept ==
    ASSUME DataOK, StepInv, [Next]_vars
    PROVE  StepInv'
<1>n. sent \in Nat /\ consumed \in Nat /\ cpc \in CallerPlaces
    BY DEF DataOK
<1> USE DEF StepInv, Owing, Settled, Waiting, CallerPlaces,
            channels, flags, lock, memory, shared, handler, locals, sandbox, caller,
            history
<1>1. CASE EvolveFails
    BY <1>1, <1>n DEF EvolveFails
<1>2. CASE Evolve
    BY <1>2, <1>n DEF Evolve, Send
<1>3. CASE EvolveDone
    BY <1>3, <1>n DEF EvolveDone, Receive
<1>4. CASE EvolveFailsLate
    BY <1>4, <1>n DEF EvolveFailsLate, Receive
<1>5. CASE InitFails
    BY <1>5, <1>n DEF InitFails, Send, Receive, TimesOut
<1>6. CASE StartCall
    BY <1>6, <1>n DEF StartCall, Send, Push
<1>7. CASE StartCallFails
    BY <1>7, <1>n DEF StartCallFails, Return
<1>8. CASE CallReplied
    BY <1>8, <1>n DEF CallReplied, Receive, Return
<1>9. CASE CallTimesOut
    BY <1>9, <1>n DEF CallTimesOut, TimesOut
<1>10. CASE ReadResult
    BY <1>10, <1>n DEF ReadResult, Return
<1>11. CASE CheckRunning
    BY <1>11, <1>n DEF CheckRunning
<1>12. CASE SignalCheck
    BY <1>12, <1>n DEF SignalCheck
<1>13. CASE SignalSend
    BY <1>13, <1>n DEF SignalSend
<1>14. CASE SignalDone
    BY <1>14, <1>n DEF SignalDone, Return
<1>15. CASE Slept
    BY <1>15, <1>n DEF Slept, Return
<1>16. CASE CancelReplied
    BY <1>16, <1>n DEF CancelReplied, Receive, TimesOut
<1>17. CASE Reinitialised
    BY <1>17, <1>n DEF Reinitialised, Receive, TimesOut, Return
<1>18. CASE FinishContext
    BY <1>18, <1>n DEF FinishContext
<1>19. CASE RestoreFails
    BY <1>19, <1>n DEF RestoreFails, Return
<1>20. CASE FinishFails
    BY <1>20, <1>n DEF FinishFails, Send
<1>21. CASE RestoreBegins
    BY <1>21, <1>n DEF RestoreBegins
<1>22. CASE RestoreEnds
    BY <1>22, <1>n DEF RestoreEnds, Send
<1>23. CASE Drop
    BY <1>23, <1>n DEF Drop, Send
<1>24. CASE KillReplied
    BY <1>24, <1>n DEF KillReplied, Receive, TimesOut
<1>25. CASE Join
    BY <1>25, <1>n DEF Join
<1>26. CASE TakeAction
    BY <1>26, <1>n DEF TakeAction
<1>27. CASE SetRunning
    BY <1>27, <1>n DEF SetRunning
<1>28. CASE ClearCancelled
    BY <1>28, <1>n DEF ClearCancelled
<1>29. CASE LockMemory
    BY <1>29, <1>n DEF LockMemory
<1>30. CASE EnterVcpu
    BY <1>30, <1>n DEF EnterVcpu
<1>31. CASE GuestPops
    BY <1>31, <1>n DEF GuestPops
<1>32. CASE ExitHalt
    BY <1>32, <1>n DEF ExitHalt, Push
<1>33. CASE ExitIoOut
    BY <1>33, <1>n DEF ExitIoOut
<1>34. CASE OutbReturns
    BY <1>34, <1>n DEF OutbReturns, Fault
<1>35. CASE ExitRetry
    BY <1>35, <1>n DEF ExitRetry
<1>36. CASE ExitError
    BY <1>36, <1>n DEF ExitError, Fault
<1>37. CASE ExitCancelled
    BY <1>37, <1>n DEF ExitCancelled
<1>38. CASE SetRunCancelled
    BY <1>38, <1>n DEF SetRunCancelled
<1>39. CASE UnlockMemory
    BY <1>39, <1>n DEF UnlockMemory
<1>40. CASE ClearRunning
    BY <1>40, <1>n DEF ClearRunning
<1>41. CASE Reply
    BY <1>41, <1>n DEF Reply
<1>42. CASE Exit
    BY <1>42, <1>n DEF Exit
<1>43. CASE UNCHANGED vars
    BY <1>43 DEF vars
<1>44. QED
    BY <1>1, <1>2, <1>3, <1>4, <1>5, <1>6, <1>7, <1>8, <1>9, <1>10, <1>11,
       <1>12, <1>13, <1>14, <1>15, <1>16, <1>17, <1>18, <1>19, <1>20, <1>21,
       <1>22, <1>23, <1>24, <1>25, <1>26, <1>27, <1>28, <1>29, <1>30, <1>31,
       <1>32, <1>33, <1>34, <1>35, <1>36, <1>37, <1>38, <1>39, <1>40, <1>41,
       <1>42, <1>43, Zenon
    DEF Next, CallerNext, HandlerNext

-----------------------------------------------------------------------------
(* Where the outstanding replies are.                                      *)

\* With no reply outstanding, the channels are empty and the thread is idle.
LEMMA Quiet ==
    ASSUME DataOK, OneReplyPerAction, consumed = sent
    PROVE  /\ to_handler = <<>> /\ from_handler = <<>>
           /\ hpc \notin Busy \cup {"bye"}
<1>1. Len(from_handler) \in Nat /\ Len(to_handler) \in Nat /\ consumed \in Nat
    BY LenProperties DEF DataOK
<1>2. consumed = consumed + Len(from_handler)
                 + (IF hpc \in Busy \cup {"bye"} THEN 1 ELSE 0) + Len(to_handler)
    BY DEF OneReplyPerAction, Taken
<1>3. Len(from_handler) = 0 /\ Len(to_handler) = 0 /\ hpc \notin Busy \cup {"bye"}
    BY <1>1, <1>2
<1>4. QED BY <1>3, EmptySeq DEF DataOK

\* With one reply outstanding, it is in the channel, or its action is being
\* executed, or its action has not been taken yet.
LEMMA OneOutstanding ==
    ASSUME DataOK, OneReplyPerAction, consumed = sent - 1
    PROVE  \/ /\ to_handler = <<>> /\ from_handler = <<>>
              /\ hpc \in Busy \cup {"bye"}
           \/ /\ to_handler = <<>> /\ Len(from_handler) = 1
              /\ hpc \notin Busy \cup {"bye"}
           \/ /\ Len(to_handler) = 1 /\ from_handler = <<>>
              /\ hpc \notin Busy \cup {"bye"}
<1>1. Len(from_handler) \in Nat /\ Len(to_handler) \in Nat /\ consumed \in Nat
      /\ sent \in Nat
    BY LenProperties DEF DataOK
<1>2. consumed + 1 = consumed + Len(from_handler)
                     + (IF hpc \in Busy \cup {"bye"} THEN 1 ELSE 0) + Len(to_handler)
    BY <1>1 DEF OneReplyPerAction, Taken
<1>3. /\ Len(from_handler) = 0 => from_handler = <<>>
      /\ Len(to_handler) = 0 => to_handler = <<>>
    BY EmptySeq DEF DataOK
<1>4. CASE hpc \in Busy \cup {"bye"}
    <2>1. 1 = Len(from_handler) + 1 + Len(to_handler)
        BY <1>1, <1>2, <1>4
    <2>2. QED BY <2>1, <1>1, <1>3, <1>4
<1>5. CASE hpc \notin Busy \cup {"bye"}
    <2>1. 1 = Len(from_handler) + Len(to_handler)
        BY <1>1, <1>2, <1>5
    <2>2. \/ Len(from_handler) = 0 /\ Len(to_handler) = 1
          \/ Len(from_handler) = 1 /\ Len(to_handler) = 0
        <3>1. \A a, b \in Nat : 1 = a + b => (a = 0 /\ b = 1) \/ (a = 1 /\ b = 0)
            OBVIOUS
        <3>2. QED BY <2>1, <1>1, <3>1
    <2>3. QED BY <2>2, <1>3, <1>5
<1>6. QED BY <1>4, <1>5

\* Nothing follows the only message of a channel.
LEMMA SingleMessage ==
    ASSUME NEW S, NEW s \in Seq(S), Len(s) = 1
    PROVE  Tail(s) = <<>>
<1>1. s # <<>>
    BY EmptySeq
<1>2. Tail(s) \in Seq(S) /\ Len(Tail(s)) = 0
    BY <1>1, ChannelType
<1>3. QED BY <1>2, EmptySeq

\* What the place of a caller that has not given up a reply says about the
\* channels and the handler thread.
LEMMA Places ==
    ASSUME DataOK, OneReplyPerAction, StepInv, ~abandoned
    PROVE  /\ cpc \in Settled =>
                /\ to_handler = <<>> /\ from_handler = <<>>
                /\ hpc \notin Busy \cup {"bye"}
           /\ cpc \in Owing /\ hpc \in Busy \cup {"bye"} =>
                to_handler = <<>> /\ from_handler = <<>>
           /\ cpc \in Owing /\ from_handler # <<>> => to_handler = <<>>
           /\ cpc \in Owing /\ from_handler # <<>> => Tail(from_handler) = <<>>
           /\ cpc \in Owing /\ to_handler # <<>> => Tail(to_handler) = <<>>
<1>1. cpc \in Settled =>
        to_handler = <<>> /\ from_handler = <<>> /\ hpc \notin Busy \cup {"bye"}
    BY Quiet DEF StepInv
<1>2. ASSUME cpc \in Owing
      PROVE  \/ /\ to_handler = <<>> /\ from_handler = <<>>
                /\ hpc \in Busy \cup {"bye"}
             \/ /\ to_handler = <<>> /\ Len(from_handler) = 1
                /\ hpc \notin Busy \cup {"bye"}
             \/ /\ Len(to_handler) = 1 /\ from_handler = <<>>
                /\ hpc \notin Busy \cup {"bye"}
    BY <1>2, OneOutstanding DEF StepInv
<1>3. /\ Len(from_handler) = 1 => Tail(from_handler) = <<>>
      /\ Len(to_handler) = 1 => Tail(to_handler) = <<>>
    <2>1. /\ to_handler \in Seq([kind : Kinds, id : Nat])
          /\ from_handler \in Seq([res : Results, id : Nat])
        BY DEF DataOK
    <2>2. QED BY <2>1, SingleMessage, ZenonT(30)
<1>4. QED BY <1>1, <1>2, <1>3

-----------------------------------------------------------------------------
(* The call each action was sent for.                                      *)

\* The top of a stack is what was pushed last.
LEMMA PushTop ==
    ASSUME NEW s \in Seq(Nat), NEW x \in Nat
    PROVE  Push(s, x) # <<>> /\ Top(Push(s, x)) = x
BY DEF Push, Top

\* Every step of the caller keeps the parameters of the current call where the
\* guest looks for them, and nothing is dispatched without a call.
LEMMA AskedKeptByCaller ==
    ASSUME TypeOK, OneReplyPerAction, StepInv, AskedInv, CallerNext
    PROVE  AskedInv'
<1>d. DataOK
    BY DEF TypeOK
<1>s. ~abandoned /\ cpc \in Settled =>
        /\ to_handler = <<>> /\ from_handler = <<>>
        /\ hpc \notin Busy \cup {"bye"}
    BY <1>d, Places, Zenon
<1>o. ~abandoned /\ cpc \in Owing =>
        /\ hpc \in Busy \cup {"bye"} => to_handler = <<>> /\ from_handler = <<>>
        /\ to_handler # <<>> => Tail(to_handler) = <<>>
        /\ from_handler # <<>> => to_handler = <<>> /\ Tail(from_handler) = <<>>
    BY <1>d, Places, Zenon
<1>h. \A m : Head(Append(<<>>, m)) = m /\ Append(<<>>, m) # <<>>
    OBVIOUS
<1>e. cpc = "uninit" => ~abandoned /\ to_handler = <<>> /\ hpc = "none"
    BY <1>d, Quiet DEF StepInv
<1>l. ~abandoned /\ hpc = "recv" /\ to_handler # <<>> => Tail(to_handler) = <<>>
    BY <1>d, <1>e, <1>s, <1>o, SMTT(30)
    DEF DataOK, CallerPlaces, Owing, Settled, Waiting
<1>n. ~abandoned /\ cpc \in Owing => sent # 0
    BY DEF StepInv, TypeOK, DataOK
<1>t. /\ input \in Seq(Nat) /\ output \in Seq(Nat) /\ gcall \in Nat /\ sent \in Nat
    BY DEF TypeOK, DataOK
<1> USE DEF AskedInv, InCall, Signalling, Asked, Busy, InRun,
            channels, flags, lock, memory, shared, handler, locals, sandbox, caller,
            history
<1>1. CASE EvolveFails
    BY <1>1, SMTT(30) DEF EvolveFails
<1>2. CASE Evolve
    BY <1>2, <1>h, <1>e, SMTT(30) DEF Evolve, Send
<1>3. CASE EvolveDone
    BY <1>3, SMTT(30) DEF EvolveDone
<1>4. CASE EvolveFailsLate
    BY <1>4, SMTT(30) DEF EvolveFailsLate
<1>5. CASE InitFails
    <2>1. ~abandoned' => to_handler = <<>> /\ hpc \notin Busy
        BY <1>5, <1>o, SMTT(30) DEF InitFails, Receive, Owing, Waiting
    <2>2. QED BY <1>5, <2>1, <1>h, SMTT(30) DEF InitFails, Send
<1>6. CASE StartCall
    <2>1. Asked(sent)' /\ UNCHANGED <<from_handler, hpc>>
        BY <1>6, <1>t, PushTop, SMTT(30) DEF StartCall, Send
    <2>2. ~abandoned => Head(to_handler').kind = "Dispatch" /\ from_handler = <<>>
                        /\ hpc \notin Busy \cup {"bye"}
        BY <1>6, <1>s, <1>h, SMTT(30) DEF StartCall, Send, Settled
    <2>3. QED BY <1>6, <2>1, <2>2, SMTT(30) DEF StartCall
<1>7. CASE StartCallFails
    BY <1>7, SMTT(30) DEF StartCallFails, Return
<1>8. CASE CallReplied
    <2>1. ~abandoned => to_handler = <<>> /\ hpc \notin Busy
        BY <1>8, <1>o, SMTT(30) DEF CallReplied, Receive, Owing, Waiting
    <2>2. QED BY <1>8, <2>1, SMTT(30) DEF CallReplied, Return
<1>9. CASE CallTimesOut
    BY <1>9, SMTT(30) DEF CallTimesOut
<1>10. CASE ReadResult
    BY <1>10, SMTT(30) DEF ReadResult, Return
<1>11. CASE CheckRunning
    BY <1>11, SMTT(30) DEF CheckRunning
<1>12. CASE SignalCheck
    BY <1>12, SMTT(30) DEF SignalCheck
<1>13. CASE SignalSend
    BY <1>13, SMTT(30) DEF SignalSend
<1>14. CASE SignalDone
    BY <1>14, SMTT(30) DEF SignalDone, Return
<1>15. CASE Slept
    BY <1>15, SMTT(30) DEF Slept, Return
<1>16. CASE CancelReplied
    <2>1. ~abandoned' => to_handler = <<>> /\ hpc \notin Busy
        BY <1>16, <1>o, SMTT(30) DEF CancelReplied, Receive, Owing, Waiting
    <2>2. QED BY <1>16, <2>1, SMTT(30) DEF CancelReplied
<1>17. CASE Reinitialised
    BY <1>17, SMTT(30) DEF Reinitialised, Return
<1>18. CASE FinishContext
    BY <1>18, SMTT(30) DEF FinishContext
<1>19. CASE RestoreFails
    BY <1>19, SMTT(30) DEF RestoreFails, Return
<1>20. CASE FinishFails
    BY <1>20, <1>s, <1>h, SMTT(30) DEF FinishFails, Send, Settled
<1>21. CASE RestoreBegins
    BY <1>21, SMTT(30) DEF RestoreBegins
<1>22. CASE RestoreEnds
    BY <1>22, <1>s, <1>h, SMTT(30) DEF RestoreEnds, Send, Settled
<1>23. CASE Drop
    BY <1>23, <1>s, <1>h, SMTT(30) DEF Drop, Send, Settled
<1>24. CASE KillReplied
    BY <1>24, SMTT(30) DEF KillReplied
<1>25. CASE Join
    BY <1>25, SMTT(30) DEF Join
<1>43. QED
    BY <1>1, <1>2, <1>3, <1>4, <1>5, <1>6, <1>7, <1>8, <1>9, <1>10, <1>11,
       <1>12, <1>13, <1>14, <1>15, <1>16, <1>17, <1>18, <1>19, <1>20, <1>21,
       <1>22, <1>23, <1>24, <1>25, Zenon
    DEF CallerNext

\* So does every step of the handler thread.
LEMMA AskedKeptByHandler ==
    ASSUME TypeOK, OneReplyPerAction, StepInv, AskedInv, HandlerNext
    PROVE  AskedInv'
<1>d. DataOK
    BY DEF TypeOK
<1>s. ~abandoned /\ cpc \in Settled =>
        /\ to_handler = <<>> /\ from_handler = <<>>
        /\ hpc \notin Busy \cup {"bye"}
    BY <1>d, Places, Zenon
<1>o. ~abandoned /\ cpc \in Owing =>
        /\ hpc \in Busy \cup {"bye"} => to_handler = <<>> /\ from_handler = <<>>
        /\ to_handler # <<>> => Tail(to_handler) = <<>>
        /\ from_handler # <<>> => to_handler = <<>> /\ Tail(from_handler) = <<>>
    BY <1>d, Places, Zenon
<1>h. \A m : Head(Append(<<>>, m)) = m /\ Append(<<>>, m) # <<>>
    OBVIOUS
<1>e. cpc = "uninit" => ~abandoned /\ to_handler = <<>> /\ hpc = "none"
    BY <1>d, Quiet DEF StepInv
<1>l. ~abandoned /\ hpc = "recv" /\ to_handler # <<>> => Tail(to_handler) = <<>>
    BY <1>d, <1>e, <1>s, <1>o, SMTT(30)
    DEF DataOK, CallerPlaces, Owing, Settled, Waiting
<1>n. ~abandoned /\ cpc \in Owing => sent # 0
    BY DEF StepInv, TypeOK, DataOK
<1>t. /\ input \in Seq(Nat) /\ output \in Seq(Nat) /\ gcall \in Nat /\ sent \in Nat
    BY DEF TypeOK, DataOK
<1> USE DEF AskedInv, InCall, Signalling, Asked, Busy, InRun,
            channels, flags, lock, memory, shared, handler, locals, sandbox, caller,
            history
<1>26. CASE TakeAction
    BY <1>26, <1>l, SMTT(30) DEF TakeAction
<1>27. CASE SetRunning
    BY <1>27, SMTT(30) DEF SetRunning
<1>28. CASE ClearCancelled
    BY <1>28, SMTT(30) DEF ClearCancelled
<1>29. CASE LockMemory
    BY <1>29, SMTT(30) DEF LockMemory
<1>30. CASE EnterVcpu
    BY <1>30, SMTT(30) DEF EnterVcpu
<1>31. CASE GuestPops
    BY <1>31, <1>n, <1>o, SMTT(30) DEF GuestPops, Owing, Waiting
<1>32. CASE ExitHalt
    BY <1>32, SMTT(30) DEF ExitHalt
<1>33. CASE ExitIoOut
    BY <1>33, SMTT(30) DEF ExitIoOut
<1>34. CASE OutbReturns
    BY <1>34, SMTT(30) DEF OutbReturns
<1>35. CASE ExitRetry
    BY <1>35, SMTT(30) DEF ExitRetry
<1>36. CASE ExitError
    BY <1>36, SMTT(30) DEF ExitError
<1>37. CASE ExitCancelled
    BY <1>37, SMTT(30) DEF ExitCancelled
<1>38. CASE SetRunCancelled
    BY <1>38, SMTT(30) DEF SetRunCancelled
<1>39. CASE UnlockMemory
    BY <1>39, SMTT(30) DEF UnlockMemory
<1>40. CASE ClearRunning
    BY <1>40, SMTT(30) DEF ClearRunning
<1>41. CASE Reply
    BY <1>41, SMTT(30) DEF Reply
<1>42. CASE Exit
    BY <1>42, SMTT(30) DEF Exit
<1>43. QED
    BY <1>26, <1>27, <1>28, <1>29, <1>30, <1>31, <1>32, <1>33, <1>34, <1>35,
       <1>36, <1>37, <1>38, <1>39, <1>40, <1>41, <1>42, Zenon
    DEF HandlerNext

\* So does every step.
LEMMA AskedKept ==
    ASSUME TypeOK, OneReplyPerAction, StepInv, AskedInv, [Next]_vars
    PROVE  AskedInv'
<1> USE DEF AskedInv, InCall, Signalling, Asked, Busy, InRun,
            channels, flags, lock, memory, shared, handler, locals, sandbox, caller,
            history
<1>1. CASE UNCHANGED vars
    BY <1>1, SMTT(30) DEF vars
<1>2. QED BY <1>1, AskedKeptByCaller, AskedKeptByHandler DEF Next

=============================================================================
