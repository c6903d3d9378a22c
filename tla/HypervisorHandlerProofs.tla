---------------------- MODULE HypervisorHandlerProofs -----------------------
(***************************************************************************)
(* Proofs of the safety properties of HypervisorHandler, for any number of *)
(* guest calls, any length of the signal loop and any size of the input    *)
(* buffer.  The inductive invariant has three parts.  The one about types, *)
(* channels, outstanding replies and the parameters of a call is proved in *)
(* HypervisorHandlerQueues; here follow who holds the memory lock, the     *)
(* handshake between a caller that cancels an execution and the handler    *)
(* thread, and the results of the calls.                                   *)
(***************************************************************************)
EXTENDS HypervisorHandlerQueues

-----------------------------------------------------------------------------
(* The memory lock.                                                        *)

\* Every step keeps the guest under the lock while no reply is given up.
LEMMA LockKept ==
    ASSUME TypeOK, OneReplyPerAction, StepInv, LockInv, [Next]_vars
    PROVE  LockInv'
<1>q. ~abandoned /\ cpc \in Settled => hpc \notin Busy
    BY Quiet DEF StepInv, TypeOK
<1>f. FlagsOK
    BY DEF TypeOK
<1> USE DEF LockInv, GuestRunsUnderLock, InRun,
            channels, flags, lock, memory, shared, handler, locals, sandbox, caller,
            history
<1>1. CASE EvolveFails
    BY <1>1 DEF EvolveFails
<1>2. CASE Evolve
    BY <1>2 DEF Evolve, StepInv
<1>3. CASE EvolveDone
    BY <1>3 DEF EvolveDone
<1>4. CASE EvolveFailsLate
    BY <1>4 DEF EvolveFailsLate
<1>5. CASE InitFails
    BY <1>5 DEF InitFails
<1>6. CASE StartCall
    BY <1>6 DEF StartCall
<1>7. CASE StartCallFails
    BY <1>7 DEF StartCallFails, Return
<1>8. CASE CallReplied
    BY <1>8 DEF CallReplied, Return
<1>9. CASE CallTimesOut
    BY <1>9 DEF CallTimesOut
<1>10. CASE ReadResult
    BY <1>10 DEF ReadResult, Return
<1>11. CASE CheckRunning
    BY <1>11 DEF CheckRunning
<1>12. CASE SignalCheck
    BY <1>12 DEF SignalCheck
<1>13. CASE SignalSend
    BY <1>13 DEF SignalSend
<1>14. CASE SignalDone
    BY <1>14 DEF SignalDone, Return
<1>15. CASE Slept
    BY <1>15 DEF Slept, Return
<1>16. CASE CancelReplied
    BY <1>16 DEF CancelReplied
<1>17. CASE Reinitialised
    BY <1>17 DEF Reinitialised, Return
<1>18. CASE FinishContext
    BY <1>18 DEF FinishContext
<1>19. CASE RestoreFails
    BY <1>19 DEF RestoreFails, Return
<1>20. CASE FinishFails
    BY <1>20 DEF FinishFails
<1>21. CASE RestoreBegins
    BY <1>21, <1>q DEF RestoreBegins, Settled, Busy
<1>22. CASE RestoreEnds
    BY <1>22 DEF RestoreEnds
<1>23. CASE Drop
    BY <1>23 DEF Drop
<1>24. CASE KillReplied
    BY <1>24 DEF KillReplied
<1>25. CASE Join
    BY <1>25 DEF Join
<1>26. CASE TakeAction
    BY <1>26 DEF TakeAction
<1>27. CASE SetRunning
    BY <1>27 DEF SetRunning
<1>28. CASE ClearCancelled
    BY <1>28 DEF ClearCancelled
<1>29. CASE LockMemory
    BY <1>29, <1>q, <1>f DEF LockMemory, FlagsOK, Settled, Busy
<1>30. CASE EnterVcpu
    BY <1>30 DEF EnterVcpu
<1>31. CASE GuestPops
    BY <1>31 DEF GuestPops
<1>32. CASE ExitHalt
    BY <1>32 DEF ExitHalt
<1>33. CASE ExitIoOut
    BY <1>33 DEF ExitIoOut
<1>34. CASE OutbReturns
    BY <1>34 DEF OutbReturns
<1>35. CASE ExitRetry
    BY <1>35 DEF ExitRetry
<1>36. CASE ExitError
    BY <1>36 DEF ExitError
<1>37. CASE ExitCancelled
    BY <1>37 DEF ExitCancelled
<1>38. CASE SetRunCancelled
    BY <1>38 DEF SetRunCancelled
<1>39. CASE UnlockMemory
    BY <1>39 DEF UnlockMemory
<1>40. CASE ClearRunning
    BY <1>40 DEF ClearRunning
<1>41. CASE Reply
    BY <1>41 DEF Reply
<1>42. CASE Exit
    BY <1>42 DEF Exit
<1>43. CASE UNCHANGED vars
    BY <1>43 DEF vars
<1>44. QED
    BY <1>1, <1>2, <1>3, <1>4, <1>5, <1>6, <1>7, <1>8, <1>9, <1>10, <1>11,
       <1>12, <1>13, <1>14, <1>15, <1>16, <1>17, <1>18, <1>19, <1>20, <1>21,
       <1>22, <1>23, <1>24, <1>25, <1>26, <1>27, <1>28, <1>29, <1>30, <1>31,
       <1>32, <1>33, <1>34, <1>35, <1>36, <1>37, <1>38, <1>39, <1>40, <1>41,
       <1>42, <1>43, Zenon
    DEF Next, CallerNext, HandlerNext

-----------------------------------------------------------------------------
(* Cancellation.                                                           *)

\* Every step keeps the signal where the caller expects it.
LEMMA SignalKept ==
    ASSUME StepInv, SignalInv, [Next]_vars
    PROVE  SignalInv'
<1> USE DEF SignalInv, Signalling,
            channels, flags, lock, memory, shared, handler, locals, sandbox, caller,
            history
<1>1. CASE EvolveFails
    BY <1>1, Zenon DEF EvolveFails
<1>2. CASE Evolve
    BY <1>2 DEF Evolve, StepInv
<1>3. CASE EvolveDone
    BY <1>3, Zenon DEF EvolveDone
<1>4. CASE EvolveFailsLate
    BY <1>4, Zenon DEF EvolveFailsLate
<1>5. CASE InitFails
    BY <1>5 DEF InitFails
<1>6. CASE StartCall
    BY <1>6, Zenon DEF StartCall
<1>7. CASE StartCallFails
    BY <1>7, Zenon DEF StartCallFails, Return
<1>8. CASE CallReplied
    BY <1>8, Zenon DEF CallReplied, Return
<1>9. CASE CallTimesOut
    BY <1>9, Zenon DEF CallTimesOut
<1>10. CASE ReadResult
    BY <1>10, Zenon DEF ReadResult, Return
<1>11. CASE CheckRunning
    BY <1>11, Zenon DEF CheckRunning
<1>12. CASE SignalCheck
    BY <1>12, Zenon DEF SignalCheck
<1>13. CASE SignalSend
    BY <1>13, Zenon DEF SignalSend
<1>14. CASE SignalDone
    BY <1>14, Zenon DEF SignalDone, Return
<1>15. CASE Slept
    BY <1>15, Zenon DEF Slept, Return
<1>16. CASE CancelReplied
    BY <1>16, Zenon DEF CancelReplied
<1>17. CASE Reinitialised
    BY <1>17, Zenon DEF Reinitialised, Return
<1>18. CASE FinishContext
    BY <1>18, Zenon DEF FinishContext
<1>19. CASE RestoreFails
    BY <1>19, Zenon DEF RestoreFails, Return
<1>20. CASE FinishFails
    BY <1>20, Zenon DEF FinishFails
<1>21. CASE RestoreBegins
    BY <1>21, Zenon DEF RestoreBegins
<1>22. CASE RestoreEnds
    BY <1>22, Zenon DEF RestoreEnds
<1>23. CASE Drop
    BY <1>23, Zenon DEF Drop
<1>24. CASE KillReplied
    BY <1>24, Zenon DEF KillReplied
<1>25. CASE Join
    BY <1>25, Zenon DEF Join
<1>26. CASE TakeAction
    BY <1>26, Zenon DEF TakeAction
<1>27. CASE SetRunning
    BY <1>27, Zenon DEF SetRunning
<1>28. CASE ClearCancelled
    BY <1>28, Zenon DEF ClearCancelled
<1>29. CASE LockMemory
    BY <1>29, Zenon DEF LockMemory
<1>30. CASE EnterVcpu
    BY <1>30, Zenon DEF EnterVcpu
<1>31. CASE GuestPops
    BY <1>31, Zenon DEF GuestPops
<1>32. CASE ExitHalt
    BY <1>32, Zenon DEF ExitHalt
<1>33. CASE ExitIoOut
    BY <1>33, Zenon DEF ExitIoOut
<1>34. CASE OutbReturns
    BY <1>34, Zenon DEF OutbReturns
<1>35. CASE ExitRetry
    BY <1>35, Zenon DEF ExitRetry
<1>36. CASE ExitError
    BY <1>36, Zenon DEF ExitError
<1>37. CASE ExitCancelled
    BY <1>37, Zenon DEF ExitCancelled
<1>38. CASE SetRunCancelled
    BY <1>38, Zenon DEF SetRunCancelled
<1>39. CASE UnlockMemory
    BY <1>39, Zenon DEF UnlockMemory
<1>40. CASE ClearRunning
    BY <1>40, Zenon DEF ClearRunning
<1>41. CASE Reply
    BY <1>41, Zenon DEF Reply
<1>42. CASE Exit
    BY <1>42, Zenon DEF Exit
<1>43. CASE UNCHANGED vars
    BY <1>43 DEF vars
<1>44. QED
    BY <1>1, <1>2, <1>3, <1>4, <1>5, <1>6, <1>7, <1>8, <1>9, <1>10, <1>11,
       <1>12, <1>13, <1>14, <1>15, <1>16, <1>17, <1>18, <1>19, <1>20, <1>21,
       <1>22, <1>23, <1>24, <1>25, <1>26, <1>27, <1>28, <1>29, <1>30, <1>31,
       <1>32, <1>33, <1>34, <1>35, <1>36, <1>37, <1>38, <1>39, <1>40, <1>41,
       <1>42, <1>43, Zenon
    DEF Next, CallerNext, HandlerNext

\* Every step keeps the re-initialisation the only action asked for.
LEMMA ReinitKept ==
    ASSUME DataOK, OneReplyPerAction, StepInv, ReinitInv, [Next]_vars
    PROVE  ReinitInv'
<1>p. ~abandoned /\ cpc = "restoring" => to_handler = <<>> /\ hpc \notin Busy
    BY Places DEF Settled
<1>h. \A m : Head(Append(<<>>, m)) = m
    OBVIOUS
<1>w. ~abandoned /\ cpc = "waitReinit" /\ to_handler # <<>> => Tail(to_handler) = <<>>
    BY Places DEF Owing, Waiting
<1> USE DEF ReinitInv, Busy,
            channels, flags, lock, memory, shared, handler, locals, sandbox, caller,
            history
<1>1. CASE EvolveFails
    BY <1>1 DEF EvolveFails
<1>2. CASE Evolve
    BY <1>2 DEF Evolve
<1>3. CASE EvolveDone
    BY <1>3 DEF EvolveDone
<1>4. CASE EvolveFailsLate
    BY <1>4 DEF EvolveFailsLate
<1>5. CASE InitFails
    BY <1>5 DEF InitFails
<1>6. CASE StartCall
    BY <1>6 DEF StartCall
<1>7. CASE StartCallFails
    BY <1>7 DEF StartCallFails, Return
<1>8. CASE CallReplied
    BY <1>8 DEF CallReplied, Return
<1>9. CASE CallTimesOut
    BY <1>9 DEF CallTimesOut
<1>10. CASE ReadResult
    BY <1>10 DEF ReadResult, Return
<1>11. CASE CheckRunning
    BY <1>11 DEF CheckRunning
<1>12. CASE SignalCheck
    BY <1>12 DEF SignalCheck
<1>13. CASE SignalSend
    BY <1>13 DEF SignalSend
<1>14. CASE SignalDone
    BY <1>14 DEF SignalDone, Return
<1>15. CASE Slept
    BY <1>15 DEF Slept, Return
<1>16. CASE CancelReplied
    BY <1>16 DEF CancelReplied
<1>17. CASE Reinitialised
    BY <1>17 DEF Reinitialised, Return
<1>18. CASE FinishContext
    BY <1>18 DEF FinishContext
<1>19. CASE RestoreFails
    BY <1>19 DEF RestoreFails, Return
<1>20. CASE FinishFails
    BY <1>20 DEF FinishFails
<1>21. CASE RestoreBegins
    BY <1>21 DEF RestoreBegins
<1>22. CASE RestoreEnds
    <2>1. ~abandoned /\ why = "cancel" =>
            Head(to_handler').kind = "Initialise" /\ hpc' \notin Busy
        BY <1>22, <1>p, <1>h DEF RestoreEnds, Send
    <2>2. QED BY <1>22, <2>1 DEF RestoreEnds
<1>23. CASE Drop
    BY <1>23 DEF Drop
<1>24. CASE KillReplied
    BY <1>24 DEF KillReplied
<1>25. CASE Join
    BY <1>25 DEF Join
<1>26. CASE TakeAction
    BY <1>26, <1>w DEF TakeAction
<1>27. CASE SetRunning
    BY <1>27 DEF SetRunning
<1>28. CASE ClearCancelled
    BY <1>28 DEF ClearCancelled
<1>29. CASE LockMemory
    BY <1>29 DEF LockMemory
<1>30. CASE EnterVcpu
    BY <1>30 DEF EnterVcpu
<1>31. CASE GuestPops
    BY <1>31 DEF GuestPops
<1>32. CASE ExitHalt
    BY <1>32 DEF ExitHalt
<1>33. CASE ExitIoOut
    BY <1>33 DEF ExitIoOut
<1>34. CASE OutbReturns
    BY <1>34 DEF OutbReturns
<1>35. CASE ExitRetry
    BY <1>35 DEF ExitRetry
<1>36. CASE ExitError
    BY <1>36 DEF ExitError
<1>37. CASE ExitCancelled
    BY <1>37 DEF ExitCancelled
<1>38. CASE SetRunCancelled
    BY <1>38 DEF SetRunCancelled
<1>39. CASE UnlockMemory
    BY <1>39 DEF UnlockMemory
<1>40. CASE ClearRunning
    BY <1>40 DEF ClearRunning
<1>41. CASE Reply
    BY <1>41 DEF Reply
<1>42. CASE Exit
    BY <1>42 DEF Exit
<1>43. CASE UNCHANGED vars
    BY <1>43 DEF vars
<1>44. QED
    BY <1>1, <1>2, <1>3, <1>4, <1>5, <1>6, <1>7, <1>8, <1>9, <1>10, <1>11,
       <1>12, <1>13, <1>14, <1>15, <1>16, <1>17, <1>18, <1>19, <1>20, <1>21,
       <1>22, <1>23, <1>24, <1>25, <1>26, <1>27, <1>28, <1>29, <1>30, <1>31,
       <1>32, <1>33, <1>34, <1>35, <1>36, <1>37, <1>38, <1>39, <1>40, <1>41,
       <1>42, <1>43, Zenon
    DEF Next, CallerNext, HandlerNext

\* Every step keeps the two threads of a MultiUseSandbox in the order that
\* the cancellation prescribes.
LEMMA HandshakeKept ==
    ASSUME TypeOK, OneReplyPerAction, StepInv, LockInv, CancelInv, [Next]_vars
    PROVE  HandshakeInv'
<1>d. DataOK
    BY DEF TypeOK
<1>s. ~abandoned /\ cpc \in {"restore", "restoring"} =>
        /\ to_handler = <<>> /\ from_handler = <<>>
        /\ hpc \notin Busy \cup {"bye"} /\ ~guard
    <2>1. {"restore", "restoring"} \subseteq Settled
        BY DEF Settled
    <2>2. ~abandoned /\ cpc \in Settled =>
            /\ to_handler = <<>> /\ from_handler = <<>>
            /\ hpc \notin Busy \cup {"bye"}
        BY <1>d, Places, Zenon
    <2>3. hpc \notin Busy \cup {"bye"} => ~guard
        BY DEF LockInv, InRun, Busy
    <2>4. QED BY <2>1, <2>2, <2>3, Zenon
<1>o. ~abandoned /\ cpc \in Owing /\ hpc \in Busy =>
        to_handler = <<>> /\ from_handler = <<>>
    BY <1>d, Places, Zenon
<1>i. SignalInv /\ ReinitInv /\ HandshakeInv
    BY DEF CancelInv
<1>h. \A m : Head(Append(<<>>, m)) = m /\ Append(<<>>, m) # <<>>
    OBVIOUS
<1> USE <1>i DEF HandshakeInv, JustCancelled, Signalling, Busy,
            channels, flags, lock, memory, shared, handler, locals, sandbox, caller,
            history
<1>1. CASE EvolveFails
    BY <1>1, SMTT(30) DEF EvolveFails
<1>2. CASE Evolve
    BY <1>2, SMTT(30) DEF Evolve, StepInv
<1>3. CASE EvolveDone
    BY <1>3, SMTT(30) DEF EvolveDone
<1>4. CASE EvolveFailsLate
    BY <1>4, SMTT(30) DEF EvolveFailsLate
<1>5. CASE InitFails
    BY <1>5, SMTT(30) DEF InitFails
<1>6. CASE StartCall
    BY <1>6, SMTT(30) DEF StartCall
<1>7. CASE StartCallFails
    BY <1>7, SMTT(30) DEF StartCallFails, Return
<1>8. CASE CallReplied
    BY <1>8, SMTT(30) DEF CallReplied, Return
<1>9. CASE CallTimesOut
    BY <1>9, SMTT(30) DEF CallTimesOut
<1>10. CASE ReadResult
    BY <1>10, SMTT(30) DEF ReadResult, Return
<1>11. CASE CheckRunning
    BY <1>11, SMTT(30) DEF CheckRunning
<1>12. CASE SignalCheck
    BY <1>12, SMTT(30) DEF SignalCheck
<1>13. CASE SignalSend
    BY <1>13, SMTT(30) DEF SignalSend
<1>14. CASE SignalDone
    BY <1>14, SMTT(30) DEF SignalDone, Return
<1>15. CASE Slept
    BY <1>15, SMTT(30) DEF Slept, Return
<1>16. CASE CancelReplied
    BY <1>16, SMTT(30) DEF CancelReplied
<1>17. CASE Reinitialised
    BY <1>17, <1>o, SMTT(30) DEF Reinitialised, Return, Receive, Owing, Waiting
<1>18. CASE FinishContext
    BY <1>18, SMTT(30) DEF FinishContext
<1>19. CASE RestoreFails
    BY <1>19, <1>s, SMTT(30) DEF RestoreFails, Return
<1>20. CASE FinishFails
    BY <1>20, SMTT(30) DEF FinishFails
<1>21. CASE RestoreBegins
    BY <1>21, SMTT(30) DEF RestoreBegins
<1>22. CASE RestoreEnds
    BY <1>22, <1>s, SMTT(30) DEF RestoreEnds
<1>23. CASE Drop
    BY <1>23, SMTT(30) DEF Drop
<1>24. CASE KillReplied
    BY <1>24, SMTT(30) DEF KillReplied
<1>25. CASE Join
    BY <1>25, SMTT(30) DEF Join
<1>26. CASE TakeAction
    BY <1>26, <1>s, SMTT(30) DEF TakeAction, ReinitInv
<1>27. CASE SetRunning
    BY <1>27, SMTT(30) DEF SetRunning
<1>28. CASE ClearCancelled
    BY <1>28, <1>s, SMTT(30) DEF ClearCancelled
<1>29. CASE LockMemory
    BY <1>29, SMTT(30) DEF LockMemory, SignalInv, ReinitInv
<1>30. CASE EnterVcpu
    BY <1>30, SMTT(30) DEF EnterVcpu, SignalInv
<1>31. CASE GuestPops
    BY <1>31, SMTT(30) DEF GuestPops
<1>32. CASE ExitHalt
    BY <1>32, SMTT(30) DEF ExitHalt, SignalInv
<1>33. CASE ExitIoOut
    BY <1>33, SMTT(30) DEF ExitIoOut, SignalInv
<1>34. CASE OutbReturns
    BY <1>34, SMTT(30) DEF OutbReturns, SignalInv, Fault
<1>35. CASE ExitRetry
    BY <1>35, SMTT(30) DEF ExitRetry, SignalInv
<1>36. CASE ExitError
    BY <1>36, SMTT(30) DEF ExitError, SignalInv, Fault
<1>37. CASE ExitCancelled
    BY <1>37, SMTT(30) DEF ExitCancelled, SignalInv
<1>38. CASE SetRunCancelled
    BY <1>38, <1>o, SMTT(30) DEF SetRunCancelled, SignalInv, Owing
<1>39. CASE UnlockMemory
    BY <1>39, SMTT(30) DEF UnlockMemory
<1>40. CASE ClearRunning
    BY <1>40, SMTT(30) DEF ClearRunning
<1>41. CASE Reply
    BY <1>41, <1>o, <1>h, SMTT(30) DEF Reply, Owing, Waiting
<1>42. CASE Exit
    BY <1>42, SMTT(30) DEF Exit
<1>43. CASE UNCHANGED vars
    BY <1>43, SMTT(30) DEF vars
<1>44. QED
    BY <1>1, <1>2, <1>3, <1>4, <1>5, <1>6, <1>7, <1>8, <1>9, <1>10, <1>11,
       <1>12, <1>13, <1>14, <1>15, <1>16, <1>17, <1>18, <1>19, <1>20, <1>21,
       <1>22, <1>23, <1>24, <1>25, <1>26, <1>27, <1>28, <1>29, <1>30, <1>31,
       <1>32, <1>33, <1>34, <1>35, <1>36, <1>37, <1>38, <1>39, <1>40, <1>41,
       <1>42, <1>43, Zenon
    DEF Next, CallerNext, HandlerNext

-----------------------------------------------------------------------------
(* Results.                                                                *)

\* Every step of the caller keeps what a cancellation leaves of a single-use sandbox.
LEMMA CutKeptByCaller ==
    ASSUME TypeOK, OneReplyPerAction, StepInv, SignalInv, AskedInv, CutInv, CallerNext
    PROVE  CutInv'
<1>d. DataOK
    BY DEF TypeOK
<1>s. ~abandoned /\ cpc \in Settled =>
        /\ to_handler = <<>> /\ from_handler = <<>>
        /\ hpc \notin Busy \cup {"bye"}
    BY <1>d, Places, Zenon
<1>o. ~abandoned /\ cpc \in Owing =>
        /\ hpc \in Busy \cup {"bye"} => to_handler = <<>> /\ from_handler = <<>>
        /\ to_handler # <<>> => Tail(to_handler) = <<>>
        /\ from_handler # <<>> => to_handler = <<>> /\ Tail(from_handler) = <<>>
    BY <1>d, Places, Zenon
<1>h. \A m : Head(Append(<<>>, m)) = m /\ Append(<<>>, m) # <<>>
    OBVIOUS
<1>e. cpc = "uninit" => ~abandoned /\ to_handler = <<>> /\ hpc = "none"
    BY <1>d, Quiet DEF StepInv
<1>l. ~abandoned /\ hpc = "recv" /\ to_handler # <<>> => Tail(to_handler) = <<>>
    BY <1>d, <1>e, <1>s, <1>o
    DEF DataOK, CallerPlaces, Owing, Settled, Waiting
<1>k. to_handler # <<>> => Head(to_handler).kind \in Kinds
    <2>1. to_handler # <<>> => Head(to_handler) \in [kind : Kinds, id : Nat]
        BY <1>d, ChannelType DEF DataOK
    <2>2. QED BY <2>1
<1> USE DEF CutInv, InCall, Signalling, Busy, Kinds,
            channels, flags, lock, memory, shared, handler, locals, sandbox, caller,
            history
<1>1. CASE EvolveFails
    BY <1>1, SMTT(30) DEF EvolveFails
<1>2. CASE Evolve
    BY <1>2, <1>e, SMTT(30) DEF Evolve, Send
<1>3. CASE EvolveDone
    BY <1>3, SMTT(30) DEF EvolveDone
<1>4. CASE EvolveFailsLate
    BY <1>4, SMTT(30) DEF EvolveFailsLate
<1>5. CASE InitFails
    BY <1>5, SMTT(30) DEF InitFails
<1>6. CASE StartCall
    BY <1>6, <1>s, <1>h, SMTT(30) DEF StartCall, Send, Settled
<1>7. CASE StartCallFails
    BY <1>7, SMTT(30) DEF StartCallFails, Return
<1>8. CASE CallReplied
    BY <1>8, <1>o, SMTT(30) DEF CallReplied, Receive, Return, Owing, Waiting
<1>9. CASE CallTimesOut
    BY <1>9, SMTT(30) DEF CallTimesOut
<1>10. CASE ReadResult
    BY <1>10, SMTT(30) DEF ReadResult, Return
<1>11. CASE CheckRunning
    BY <1>11, SMTT(30) DEF CheckRunning
<1>12. CASE SignalCheck
    BY <1>12, SMTT(30) DEF SignalCheck
<1>13. CASE SignalSend
    BY <1>13, SMTT(30) DEF SignalSend
<1>14. CASE SignalDone
    BY <1>14, SMTT(30) DEF SignalDone, Return
<1>15. CASE Slept
    BY <1>15, SMTT(30) DEF Slept, Return
<1>16. CASE CancelReplied
    BY <1>16, SMTT(30) DEF CancelReplied
<1>17. CASE Reinitialised
    BY <1>17, SMTT(30) DEF Reinitialised, Return
<1>18. CASE FinishContext
    BY <1>18, SMTT(30) DEF FinishContext
<1>19. CASE RestoreFails
    BY <1>19, SMTT(30) DEF RestoreFails, Return
<1>20. CASE FinishFails
    BY <1>20, <1>s, <1>h, SMTT(30) DEF FinishFails, Send, Settled
<1>21. CASE RestoreBegins
    BY <1>21, SMTT(30) DEF RestoreBegins
<1>22. CASE RestoreEnds
    BY <1>22, SMTT(30) DEF RestoreEnds
<1>23. CASE Drop
    BY <1>23, <1>s, <1>h, SMTT(30) DEF Drop, Send, Settled
<1>24. CASE KillReplied
    BY <1>24, SMTT(30) DEF KillReplied
<1>25. CASE Join
    BY <1>25, SMTT(30) DEF Join
<1>43. QED
    BY <1>1, <1>2, <1>3, <1>4, <1>5, <1>6, <1>7, <1>8, <1>9, <1>10, <1>11,
       <1>12, <1>13, <1>14, <1>15, <1>16, <1>17, <1>18, <1>19, <1>20, <1>21,
       <1>22, <1>23, <1>24, <1>25, Zenon
    DEF CallerNext

\* So does every step of the handler thread.
LEMMA CutKeptByHandler ==
    ASSUME TypeOK, OneReplyPerAction, StepInv, SignalInv, AskedInv, CutInv, HandlerNext
    PROVE  CutInv'
<1>d. DataOK
    BY DEF TypeOK
<1>s. ~abandoned /\ cpc \in Settled =>
        /\ to_handler = <<>> /\ from_handler = <<>>
        /\ hpc \notin Busy \cup {"bye"}
    BY <1>d, Places, Zenon
<1>o. ~abandoned /\ cpc \in Owing =>
        /\ hpc \in Busy \cup {"bye"} => to_handler = <<>> /\ from_handler = <<>>
        /\ to_handler # <<>> => Tail(to_handler) = <<>>
        /\ from_handler # <<>> => to_handler = <<>> /\ Tail(from_handler) = <<>>
    BY <1>d, Places, Zenon
<1>h. \A m : Head(Append(<<>>, m)) = m /\ Append(<<>>, m) # <<>>
    OBVIOUS
<1>e. cpc = "uninit" => ~abandoned /\ to_handler = <<>> /\ hpc = "none"
    BY <1>d, Quiet DEF StepInv
<1>l. ~abandoned /\ hpc = "recv" /\ to_handler # <<>> => Tail(to_handler) = <<>>
    BY <1>d, <1>e, <1>s, <1>o
    DEF DataOK, CallerPlaces, Owing, Settled, Waiting
<1>k. to_handler # <<>> => Head(to_handler).kind \in Kinds
    <2>1. to_handler # <<>> => Head(to_handler) \in [kind : Kinds, id : Nat]
        BY <1>d, ChannelType DEF DataOK
    <2>2. QED BY <2>1
<1> USE DEF CutInv, InCall, Signalling, Busy, Kinds,
            channels, flags, lock, memory, shared, handler, locals, sandbox, caller,
            history
<1>26. CASE TakeAction
    BY <1>26, <1>l, <1>k, SMTT(30) DEF TakeAction
<1>27. CASE SetRunning
    BY <1>27, SMTT(30) DEF SetRunning
<1>28. CASE ClearCancelled
    BY <1>28, SMTT(30) DEF ClearCancelled
<1>29. CASE LockMemory
    BY <1>29, <1>s, SMTT(30) DEF LockMemory, SignalInv, AskedInv, Settled
<1>30. CASE EnterVcpu
    BY <1>30, SMTT(30) DEF EnterVcpu
<1>31. CASE GuestPops
    BY <1>31, SMTT(30) DEF GuestPops
<1>32. CASE ExitHalt
    BY <1>32, SMTT(30) DEF ExitHalt
<1>33. CASE ExitIoOut
    BY <1>33, SMTT(30) DEF ExitIoOut
<1>34. CASE OutbReturns
    BY <1>34, SMTT(30) DEF OutbReturns, Fault
<1>35. CASE ExitRetry
    BY <1>35, SMTT(30) DEF ExitRetry
<1>36. CASE ExitError
    BY <1>36, SMTT(30) DEF ExitError, Fault
<1>37. CASE ExitCancelled
    BY <1>37, <1>o, SMTT(30) DEF ExitCancelled, SignalInv, AskedInv, Owing, Waiting
<1>38. CASE SetRunCancelled
    BY <1>38, SMTT(30) DEF SetRunCancelled
<1>39. CASE UnlockMemory
    BY <1>39, SMTT(30) DEF UnlockMemory
<1>40. CASE ClearRunning
    BY <1>40, SMTT(30) DEF ClearRunning
<1>41. CASE Reply
    BY <1>41, <1>o, <1>h, SMTT(30) DEF Reply, Owing, Waiting
<1>42. CASE Exit
    BY <1>42, SMTT(30) DEF Exit, AskedInv
<1>43. QED
    BY <1>26, <1>27, <1>28, <1>29, <1>30, <1>31, <1>32, <1>33, <1>34, <1>35,
       <1>36, <1>37, <1>38, <1>39, <1>40, <1>41, <1>42, Zenon
    DEF HandlerNext

\* So does every step.
LEMMA CutKept ==
    ASSUME TypeOK, OneReplyPerAction, StepInv, SignalInv, AskedInv, CutInv, [Next]_vars
    PROVE  CutInv'
<1> USE DEF CutInv, InCall, Signalling, Busy, Kinds,
            channels, flags, lock, memory, shared, handler, locals, sandbox, caller,
            history
<1>1. CASE UNCHANGED vars
    BY <1>1, SMTT(30) DEF vars
<1>2. QED BY <1>1, CutKeptByCaller, CutKeptByHandler DEF Next

\* The step is in no call that ends by it, and makes none give up a reply.
Unaffected ==
    ~abandoned' =>
        /\ ~abandoned
        /\ \/ sent' = sent /\ guest_error' = guest_error /\ (Returning => Returning')
           \/ ~Returning

\* A step that leaves the output stack alone, and after which a result may be
\* there if one may be there before it, keeps the results where they are.
LEMMA SameOutput ==
    ASSUME OutputInv, UNCHANGED output, Unaffected, Uncut' => Uncut
    PROVE  OutputInv'
<1>1. Spent => Spent' /\ OnlyLast'
    BY DEF Spent, OnlyLast
<1>2. sent' = sent /\ guest_error' = guest_error => OnlyLast' = OnlyLast
    BY DEF OnlyLast
<1>3. QED BY <1>1, <1>2 DEF OutputInv, Unaffected

\* A step of the caller that takes no result.
LEMMA CallerLeaves ==
    ASSUME ResultInv, UNCHANGED <<output, vcpu, multi>>, Unaffected,
           ret'.out = "ok" => ret' = ret,
           cpc' \in {"restore", "restoring"} /\ why' = "call" =>
                cpc = "restore" /\ why = "call" /\ ret' = ret /\ sent' = sent
    PROVE  ResultInv'
<1>1. Uncut' = Uncut /\ (~abandoned' => ~abandoned)
    BY DEF Uncut, Unaffected
<1>2. OutputInv'
    BY <1>1, SameOutput DEF ResultInv
<1>3. OwnResult' /\ TakenInv'
    BY <1>1 DEF ResultInv, OwnResult, TakenInv
<1>4. QED BY <1>2, <1>3 DEF ResultInv

\* A step of the handler thread in which the guest pushes nothing.
LEMMA HandlerLeaves ==
    ASSUME ResultInv, UNCHANGED <<output, cpc, why, ret, sent, abandoned>>, Unaffected,
           ~abandoned => (Uncut' => Uncut)
    PROVE  ResultInv'
<1>1. CASE abandoned
    BY <1>1 DEF ResultInv, OwnResult, OutputInv, TakenInv
<1>2. CASE Uncut' => Uncut
    <2>1. OutputInv'
        BY <1>2, SameOutput DEF ResultInv
    <2>2. OwnResult' /\ TakenInv'
        BY <1>2 DEF ResultInv, OwnResult, TakenInv
    <2>3. QED BY <2>1, <2>2 DEF ResultInv
<1>3. QED BY <1>1, <1>2

\* While results are being pushed or have been pushed, the stack grows by what
\* the guest pushes for the last call.
LEMMA PushedLast ==
    ASSUME DataOK, Spent, GuestPushes, gcall = sent, ~guest_error, UNCHANGED guest_error,
           UNCHANGED sent
    PROVE  OnlyLast'
<1>1. output \in Seq(Nat) /\ gcall \in Nat /\ 0 \in Nat
    BY DEF DataOK
<1>2. CASE UNCHANGED output
    BY <1>2 DEF Spent, OnlyLast
<1>3. CASE \E r \in {gcall, 0} : output' = Push(output, r)
    <2>1. PICK r \in {gcall, 0} : output' = Push(output, r)
        BY <1>3
    <2>2. r \in Nat
        BY <1>1
    <2>3. /\ Len(output') = Len(output) + 1
          /\ output'[Len(output) + 1] = r
          /\ \A i \in 1..Len(output) : output'[i] = output[i]
        BY <1>1, <2>1, <2>2, AppendProperties DEF Push
    <2>4. Len(output) \in Nat
        BY <1>1, LenProperties
    <2>5. \A i \in 1..Len(output') : i \in 1..Len(output) \/ i = Len(output')
        BY <2>3, <2>4
    <2>6. QED BY <2>1, <2>3, <2>4, <2>5 DEF Spent, OnlyLast
<1>4. QED BY <1>2, <1>3 DEF GuestPushes

\* Taking the result of the last call leaves only results that cannot be decoded.
LEMMA TakenLast ==
    ASSUME DataOK, OnlyLast, HasResult
    PROVE  /\ Top(output) = sent
           /\ \A i \in 1..Len(Pop(output)) : Pop(output)[i] = 0
<1>1. output \in Seq(Nat) /\ output # <<>>
    BY DEF DataOK, HasResult
<1>2. Len(output) \in Nat /\ Len(output) > 0
    BY <1>1, EmptySeq, LenProperties
<1>3. Top(output) = sent
    BY <1>2 DEF OnlyLast, HasResult, Top
<1>4. \A i \in 1..(Len(output) - 1) : output[i] = 0
    BY <1>2 DEF OnlyLast
<1>5. /\ Len(Pop(output)) = Len(output) - 1
      /\ \A i \in 1..(Len(output) - 1) : Pop(output)[i] = output[i]
    <2>1. PICK n \in Nat : n = Len(output) - 1
        BY <1>2
    <2>2. 1 \in Int /\ n \in Int /\ \A i \in 1..n : output[i] \in Nat
        BY <1>1, <1>2, <2>1, ElementOfSeq
    <2>3. /\ Len(SubSeq(output, 1, n)) = IF 1 <= n THEN n - 1 + 1 ELSE 0
          /\ \A i \in 1..(n - 1 + 1) : SubSeq(output, 1, n)[i] = output[1 + i - 1]
        BY <2>2, SubSeqProperties
    <2>4. n - 1 + 1 = n /\ \A i \in 1..n : 1 + i - 1 = i
        OBVIOUS
    <2>5. Len(SubSeq(output, 1, n)) = n
        BY <2>3, <2>4
    <2>6. \A i \in 1..n : SubSeq(output, 1, n)[i] = output[i]
        BY <2>3, <2>4
    <2>7. QED BY <2>1, <2>5, <2>6 DEF Pop
<1>6. QED BY <1>3, <1>4, <1>5

\* Every step of the caller keeps the results of calls where the caller looks for them.
LEMMA ResultKeptByCaller ==
    ASSUME TypeOK, OneReplyPerAction, StepInv, LockInv, CancelInv, AskedInv, CutInv,
           ResultInv, CallerNext
    PROVE  ResultInv'
<1>d. DataOK
    BY DEF TypeOK
<1>s. ~abandoned /\ cpc \in Settled =>
        /\ to_handler = <<>> /\ from_handler = <<>>
        /\ hpc \notin Busy \cup {"bye"}
    BY <1>d, Places, Zenon
<1>o. ~abandoned /\ cpc \in Owing =>
        /\ hpc \in Busy \cup {"bye"} => to_handler = <<>> /\ from_handler = <<>>
        /\ to_handler # <<>> => Tail(to_handler) = <<>>
        /\ from_handler # <<>> => to_handler = <<>> /\ Tail(from_handler) = <<>>
    BY <1>d, Places, Zenon
<1>h. \A m : Head(Append(<<>>, m)) = m /\ Append(<<>>, m) # <<>>
    OBVIOUS
<1>e. cpc = "uninit" => ~abandoned /\ to_handler = <<>> /\ hpc = "none"
    BY <1>d, Quiet DEF StepInv
<1>l. ~abandoned /\ hpc = "recv" /\ to_handler # <<>> => Tail(to_handler) = <<>>
    BY <1>d, <1>e, <1>s, <1>o, SMTT(30)
    DEF DataOK, CallerPlaces, Owing, Settled, Waiting
<1>g. guard => hpc \in Busy
    BY DEF LockInv, InRun, Busy
<1>v. ~HasResult => output = <<>> \/ output[Len(output)] = 0
    BY DEF HasResult, Top
<1>c. cause # "ok"
    BY <1>d DEF DataOK
<1>i. OwnResult /\ OutputInv /\ TakenInv
    BY DEF ResultInv
<1> USE <1>i DEF channels, flags, lock, memory, shared, handler, locals, sandbox, caller,
            history
<1>1. CASE EvolveFails
    BY <1>1, CallerLeaves, SMTT(30)
    DEF EvolveFails, Unaffected, Returning, InCall, Signalling
<1>2. CASE Evolve
    BY <1>2, CallerLeaves, SMTT(30)
    DEF Evolve, Unaffected, Returning, InCall, Signalling
<1>3. CASE EvolveDone
    BY <1>3, CallerLeaves, SMTT(30)
    DEF EvolveDone, Unaffected, Returning, InCall, Signalling
<1>4. CASE EvolveFailsLate
    BY <1>4, CallerLeaves, SMTT(30)
    DEF EvolveFailsLate, Unaffected, Returning, InCall, Signalling
<1>5. CASE InitFails
    BY <1>5, CallerLeaves, SMTT(30)
    DEF InitFails, Unaffected, Returning, InCall, Signalling
<1>6. CASE StartCall
    BY <1>6, CallerLeaves, SMTT(30)
    DEF StartCall, Send, Unaffected, Returning, InCall, Signalling
<1>7. CASE StartCallFails
    BY <1>7, CallerLeaves, SMTT(30)
    DEF StartCallFails, Return, Unaffected, Returning, InCall, Signalling
<1>8. CASE CallReplied
    <2>1. ~abandoned /\ Uncut => Head(from_handler).res # "cancelled"
        <3> SUFFICES ASSUME ~abandoned, Uncut, Head(from_handler).res = "cancelled"
                     PROVE  FALSE
            OBVIOUS
        <3>1. cpc = "wait" /\ from_handler # <<>>
            BY <1>8 DEF CallReplied, Receive
        <3>2. hpc \notin Busy
            BY <3>1, <1>o DEF Owing, Waiting
        <3>3. vcpu = "cancelled" /\ multi
            BY <3>1 DEF CutInv, InCall, Uncut
        <3>4. QED BY <3>1, <3>2, <3>3 DEF CancelInv, HandshakeInv, Signalling, Busy
    <2>2. ~abandoned => hpc \notin Busy
        BY <1>8, <1>o DEF CallReplied, Receive, Owing, Waiting
    <2>3. /\ UNCHANGED <<output, guest_error, sent, vcpu, multi, abandoned>>
          /\ ret'.out = "ok" => ret' = ret
          /\ cpc' \in {"idle", "result"}
        BY <1>8, SMTT(30) DEF CallReplied, Return
    <2>4. CASE ~abandoned /\ Uncut
        <3>1. Unaffected
            BY <1>8, <2>1, <2>2, <2>3, <2>4, SMTT(30)
            DEF CallReplied, Receive, Unaffected, Returning, InCall, Signalling, Busy
        <3>2. QED BY <2>3, <3>1, CallerLeaves
    <2>5. CASE abandoned \/ ~Uncut
        <3>1. Uncut' = Uncut
            BY <2>3 DEF Uncut
        <3>2. QED BY <2>3, <2>5, <3>1 DEF ResultInv, OwnResult, OutputInv, TakenInv
    <2>6. QED BY <2>4, <2>5
<1>9. CASE CallTimesOut
    BY <1>9, CallerLeaves, SMTT(30)
    DEF CallTimesOut, Unaffected, Returning, InCall, Signalling
<1>10. CASE ReadResult
    <2>1. ~abandoned /\ Uncut => OnlyLast
        BY <1>10, SMTT(30) DEF ReadResult, OutputInv, Returning
    <2>2. UNCHANGED <<abandoned, multi, vcpu, sent, guest_error>>
        BY <1>10, SMTT(30) DEF ReadResult
    <2>3. \/ /\ guest_error \/ ~HasResult
             /\ UNCHANGED output /\ cpc' = "idle" /\ ret'.out # "ok"
          \/ /\ HasResult /\ output' = Pop(output)
             /\ ret'.of = sent /\ ret'.val = Top(output)
             /\ cpc' = "idle" \/ (cpc' = "restore" /\ why' = "call")
        <3>1. CASE guest_error /\ Return("error", 0) /\ UNCHANGED output
            BY <3>1, SMTT(30) DEF Return
        <3>2. CASE ~HasResult /\ UNCHANGED output
                   /\ Return(IF timedout THEN "hung" ELSE "error", 0)
            <4>1. PICK out \in {"hung", "error"} : Return(out, 0)
                BY <3>2, ZenonT(30)
            <4>2. QED BY <3>2, <4>1, SMTT(30) DEF Return
        <3>3. CASE HasResult /\ output' = Pop(output) /\ Return("ok", Top(output))
            BY <3>3, SMTT(30) DEF Return
        <3>4. CASE /\ HasResult /\ output' = Pop(output)
                   /\ ret' = [of |-> sent, out |-> "none", val |-> Top(output)]
                   /\ why' = "call" /\ cpc' = "restore"
            BY <3>4
        <3>5. QED BY <1>10, <3>1, <3>2, <3>3, <3>4, ZenonT(30) DEF ReadResult
    <2>4. ~Returning' /\ Uncut' = Uncut
        BY <2>2, <2>3, SMTT(30) DEF Returning, InCall, Signalling, Uncut
    <2>5. CASE /\ guest_error \/ ~HasResult
               /\ UNCHANGED output /\ cpc' = "idle" /\ ret'.out # "ok"
        <3>1. ~abandoned /\ Uncut => Spent
            BY <2>1, <2>5, <1>v DEF OnlyLast, Spent
        <3>2. OutputInv'
            BY <2>2, <2>4, <2>5, <3>1 DEF OutputInv, Spent
        <3>3. OwnResult' /\ TakenInv'
            BY <2>5 DEF OwnResult, TakenInv
        <3>4. QED BY <3>2, <3>3 DEF ResultInv
    <2>6. CASE /\ HasResult /\ output' = Pop(output)
               /\ ret'.of = sent /\ ret'.val = Top(output)
               /\ cpc' = "idle" \/ (cpc' = "restore" /\ why' = "call")
        <3>1. ~abandoned /\ Uncut => Top(output) = sent /\ Spent'
            BY <2>1, <2>6, <1>d, TakenLast DEF Spent
        <3>2. OutputInv'
            BY <2>2, <2>4, <3>1 DEF OutputInv
        <3>3. OwnResult' /\ TakenInv'
            BY <2>2, <2>4, <2>6, <3>1 DEF OwnResult, TakenInv
        <3>4. QED BY <3>2, <3>3 DEF ResultInv
    <2>7. QED BY <2>3, <2>5, <2>6, SMTT(30)
<1>11. CASE CheckRunning
    BY <1>11, CallerLeaves, SMTT(30)
    DEF CheckRunning, Unaffected, Returning, InCall, Signalling
<1>12. CASE SignalCheck
    BY <1>12, CallerLeaves, SMTT(30)
    DEF SignalCheck, Unaffected, Returning, InCall, Signalling
<1>13. CASE SignalSend
    BY <1>13, CallerLeaves, SMTT(30)
    DEF SignalSend, Unaffected, Returning, InCall, Signalling
<1>14. CASE SignalDone
    BY <1>14, CallerLeaves, SMTT(30)
    DEF SignalDone, Return, Unaffected, Returning, InCall, Signalling
<1>15. CASE Slept
    BY <1>15, CallerLeaves, SMTT(30)
    DEF Slept, Return, Unaffected, Returning, InCall, Signalling
<1>16. CASE CancelReplied
    BY <1>16, CallerLeaves, SMTT(30)
    DEF CancelReplied, Unaffected, Returning, InCall, Signalling
<1>17. CASE Reinitialised
    BY <1>17, <1>c, CallerLeaves, SMTT(30)
    DEF Reinitialised, Return, Unaffected, Returning, InCall, Signalling
<1>18. CASE FinishContext
    BY <1>18, CallerLeaves, SMTT(30)
    DEF FinishContext, Unaffected, Returning, InCall, Signalling
<1>19. CASE RestoreFails
    <2>1. ~abandoned /\ Uncut => ~Returning
        BY <1>19, <1>s, <1>g, SMTT(30)
        DEF RestoreFails, Returning, InCall, Signalling, Settled, CutInv, Uncut
    <2>2. /\ UNCHANGED <<output, vcpu, multi, abandoned>>
          /\ cpc' = "idle" /\ ret'.out = "error"
        BY <1>19, SMTT(30) DEF RestoreFails, Return
    <2>3. ~abandoned /\ Uncut => Spent'
        BY <2>1, <2>2 DEF OutputInv, Spent
    <2>4. Uncut' = Uncut /\ ~Returning'
        BY <2>2 DEF Uncut, Returning, InCall, Signalling
    <2>5. QED BY <2>2, <2>3, <2>4 DEF ResultInv, OutputInv, OwnResult, TakenInv
<1>20. CASE FinishFails
    BY <1>20, CallerLeaves, SMTT(30)
    DEF FinishFails, Unaffected, Returning, InCall, Signalling
<1>21. CASE RestoreBegins
    BY <1>21, CallerLeaves, SMTT(30)
    DEF RestoreBegins, Unaffected, Returning, InCall, Signalling
<1>22. CASE RestoreEnds
    <2>1. output' = <<>>
        BY <1>22 DEF RestoreEnds
    <2>2. OutputInv'
        BY <2>1, SMTT(30) DEF OutputInv, Spent, OnlyLast
    <2>3. OwnResult' /\ TakenInv'
        BY <1>22, SMTT(30) DEF RestoreEnds, Uncut, OwnResult, TakenInv
    <2>4. QED BY <2>2, <2>3 DEF ResultInv
<1>23. CASE Drop
    BY <1>23, CallerLeaves, SMTT(30)
    DEF Drop, Unaffected, Returning, InCall, Signalling
<1>24. CASE KillReplied
    BY <1>24, CallerLeaves, SMTT(30)
    DEF KillReplied, Unaffected, Returning, InCall, Signalling
<1>25. CASE Join
    BY <1>25, CallerLeaves, SMTT(30)
    DEF Join, Unaffected, Returning, InCall, Signalling
<1>43. QED
    BY <1>1, <1>2, <1>3, <1>4, <1>5, <1>6, <1>7, <1>8, <1>9, <1>10, <1>11,
       <1>12, <1>13, <1>14, <1>15, <1>16, <1>17, <1>18, <1>19, <1>20, <1>21,
       <1>22, <1>23, <1>24, <1>25, Zenon
    DEF CallerNext

\* So does every step of the handler thread.
LEMMA ResultKeptByHandler ==
    ASSUME TypeOK, OneReplyPerAction, StepInv, LockInv, CancelInv, AskedInv, CutInv,
           ResultInv, HandlerNext
    PROVE  ResultInv'
<1>d. DataOK
    BY DEF TypeOK
<1>s. ~abandoned /\ cpc \in Settled =>
        /\ to_handler = <<>> /\ from_handler = <<>>
        /\ hpc \notin Busy \cup {"bye"}
    BY <1>d, Places, Zenon
<1>o. ~abandoned /\ cpc \in Owing =>
        /\ hpc \in Busy \cup {"bye"} => to_handler = <<>> /\ from_handler = <<>>
        /\ to_handler # <<>> => Tail(to_handler) = <<>>
        /\ from_handler # <<>> => to_handler = <<>> /\ Tail(from_handler) = <<>>
    BY <1>d, Places, Zenon
<1>h. \A m : Head(Append(<<>>, m)) = m /\ Append(<<>>, m) # <<>>
    OBVIOUS
<1>e. cpc = "uninit" => ~abandoned /\ to_handler = <<>> /\ hpc = "none"
    BY <1>d, Quiet DEF StepInv
<1>l. ~abandoned /\ hpc = "recv" /\ to_handler # <<>> => Tail(to_handler) = <<>>
    BY <1>d, <1>e, <1>s, <1>o, SMTT(30)
    DEF DataOK, CallerPlaces, Owing, Settled, Waiting
<1>g. guard => hpc \in Busy
    BY DEF LockInv, InRun, Busy
<1>v. ~HasResult => output = <<>> \/ output[Len(output)] = 0
    BY DEF HasResult, Top
<1>i. OwnResult /\ OutputInv /\ TakenInv
    BY DEF ResultInv
<1> USE <1>i DEF channels, flags, lock, memory, shared, handler, locals, sandbox, caller,
            history
<1>26. CASE TakeAction
    BY <1>26, HandlerLeaves, SMTT(30)
    DEF TakeAction, Uncut, Unaffected, Returning, InCall, Signalling
<1>27. CASE SetRunning
    BY <1>27, HandlerLeaves, SMTT(30)
    DEF SetRunning, Uncut, Unaffected, Returning, InCall, Signalling
<1>28. CASE ClearCancelled
    BY <1>28, HandlerLeaves, SMTT(30)
    DEF ClearCancelled, Uncut, Unaffected, Returning, InCall, Signalling
<1>29. CASE LockMemory
    BY <1>29, HandlerLeaves, SMTT(30)
    DEF LockMemory, CutInv, Busy, Uncut, Unaffected, Returning, InCall, Signalling
<1>30. CASE EnterVcpu
    BY <1>30, HandlerLeaves, SMTT(30)
    DEF EnterVcpu, Uncut, Unaffected, Returning, InCall, Signalling
<1>31. CASE GuestPops
    <2>1. /\ UNCHANGED <<output, sent, cpc, why, ret, abandoned, multi, vcpu>>
          /\ UNCHANGED <<hpc, hres, from_handler>> /\ guest_error' = FALSE
        BY <1>31 DEF GuestPops
    <2>2. Uncut' = Uncut /\ Returning' = Returning
        BY <2>1 DEF Uncut, Returning
    <2>3. (Spent => Spent') /\ (OnlyLast => OnlyLast')
        BY <2>1 DEF Spent, OnlyLast
    <2>4. QED BY <2>1, <2>2, <2>3 DEF ResultInv, OwnResult, OutputInv, TakenInv
<1>32. CASE ExitHalt
    <2>1. ~abandoned' /\ Uncut' => ~abandoned /\ Uncut
        BY <1>32, SMTT(30) DEF ExitHalt, Uncut
    <2>2. ~abandoned => ~Returning
        BY <1>32, <1>o, <1>s, SMTT(30)
        DEF ExitHalt, Returning, InCall, Signalling, Owing, Waiting, Settled, Busy
    <2>3. UNCHANGED sent /\ OwnResult' /\ TakenInv'
        BY <1>32, SMTT(30) DEF ExitHalt, Uncut, OwnResult, TakenInv
    <2>4. CASE UNCHANGED output
        BY <2>1, <2>2, <2>3, <2>4, SMTT(30) DEF ResultInv, OutputInv, Spent, OnlyLast
    <2>5. CASE hact.kind = "Dispatch" /\ gcall # 0 /\ GuestPushes /\ UNCHANGED guest_error
        <3>1. ~abandoned => cpc \in InCall /\ gcall = sent /\ ~guest_error
            BY <1>32, <2>5, SMTT(30) DEF ExitHalt, AskedInv, Busy, InRun
        <3>2. cpc \in InCall => Returning'
            BY <1>32 DEF ExitHalt, Returning, InCall, Signalling
        <3>3. ~abandoned' /\ Uncut' => Spent
            BY <2>1, <2>2 DEF OutputInv
        <3>4. ~abandoned' /\ Uncut' => OnlyLast'
            BY <2>1, <2>3, <2>5, <3>1, <3>3, <1>d, PushedLast, SMTT(30)
        <3>5. QED BY <2>1, <2>3, <3>1, <3>2, <3>4, SMTT(30) DEF ResultInv, OutputInv
    <2>6. QED BY <1>32, <2>4, <2>5 DEF ExitHalt
<1>33. CASE ExitIoOut
    BY <1>33, HandlerLeaves, SMTT(30)
    DEF ExitIoOut, Uncut, Unaffected, Returning, InCall, Signalling
<1>34. CASE OutbReturns
    BY <1>34, HandlerLeaves, SMTT(30)
    DEF OutbReturns, Fault, Uncut, Unaffected, Returning, InCall, Signalling
<1>35. CASE ExitRetry
    BY <1>35, HandlerLeaves, SMTT(30)
    DEF ExitRetry, Uncut, Unaffected, Returning, InCall, Signalling
<1>36. CASE ExitError
    BY <1>36, HandlerLeaves, SMTT(30)
    DEF ExitError, Fault, Uncut, Unaffected, Returning, InCall, Signalling
<1>37. CASE ExitCancelled
    <2>1. ~abandoned' /\ Uncut' => ~abandoned /\ Uncut
        BY <1>37, SMTT(30) DEF ExitCancelled, Uncut
    <2>2. UNCHANGED <<sent, guest_error>> /\ OwnResult' /\ TakenInv'
        BY <1>37, <2>1, SMTT(30) DEF ExitCancelled, OwnResult, TakenInv
    <2>3. ~abandoned => cpc \in Signalling /\ Returning' /\ ~Returning
        BY <1>37, <1>o, SMTT(30) DEF ExitCancelled, CancelInv, SignalInv, Returning, InCall,
           Signalling, Owing, Waiting, Busy
    <2>4. CASE UNCHANGED output
        BY <2>1, <2>2, <2>3, <2>4, SMTT(30) DEF ResultInv, OutputInv, Spent, OnlyLast
    <2>5. CASE gcall # 0 /\ GuestPushes
        <3>1. ~abandoned => gcall = sent /\ ~guest_error
            BY <1>37, <2>3, <2>5 DEF ExitCancelled, AskedInv, InRun, InCall
        <3>2. ~abandoned' /\ Uncut' => Spent
            BY <2>1, <2>3 DEF OutputInv
        <3>3. ~abandoned' /\ Uncut' => OnlyLast'
            BY <2>1, <2>2, <2>5, <3>1, <3>2, <1>d, PushedLast, SMTT(30)
        <3>4. QED BY <2>1, <2>2, <2>3, <3>3, SMTT(30) DEF ResultInv, OutputInv
    <2>6. QED BY <1>37, <2>4, <2>5 DEF ExitCancelled
<1>38. CASE SetRunCancelled
    BY <1>38, HandlerLeaves, SMTT(30)
    DEF SetRunCancelled, Uncut, Unaffected, Returning, InCall, Signalling
<1>39. CASE UnlockMemory
    BY <1>39, HandlerLeaves, SMTT(30)
    DEF UnlockMemory, Uncut, Unaffected, Returning, InCall, Signalling
<1>40. CASE ClearRunning
    BY <1>40, HandlerLeaves, SMTT(30)
    DEF ClearRunning, Uncut, Unaffected, Returning, InCall, Signalling
<1>41. CASE Reply
    <2>1. ~abandoned /\ cpc \in InCall =>
            from_handler' # <<>> /\ Head(from_handler').res = hres
        BY <1>41, <1>o, <1>h, SMTT(30)
        DEF Reply, InCall, Signalling, Owing, Waiting, Busy
    <2>2. /\ UNCHANGED <<output, guest_error, sent, cpc, why, ret, abandoned, multi, vcpu>>
          /\ hpc = "reply" /\ hpc' = "recv"
        BY <1>41 DEF Reply
    <2>3. ~abandoned /\ cpc \in InCall => from_handler = <<>>
        BY <2>2, <1>o, SMTT(30) DEF InCall, Signalling, Owing, Waiting, Busy
    <2>4. Unaffected /\ Uncut' = Uncut
        BY <2>1, <2>2, <2>3, SMTT(30) DEF Unaffected, Returning, Uncut
    <2>5. QED BY <2>2, <2>4, HandlerLeaves
<1>42. CASE Exit
    BY <1>42, HandlerLeaves, SMTT(30)
    DEF Exit, AskedInv, Uncut, Unaffected, Returning, InCall, Signalling
<1>43. QED
    BY <1>26, <1>27, <1>28, <1>29, <1>30, <1>31, <1>32, <1>33, <1>34, <1>35,
       <1>36, <1>37, <1>38, <1>39, <1>40, <1>41, <1>42, Zenon
    DEF HandlerNext

\* So does every step.
LEMMA ResultKept ==
    ASSUME TypeOK, OneReplyPerAction, StepInv, LockInv, CancelInv, AskedInv, CutInv,
           ResultInv, [Next]_vars
    PROVE  ResultInv'
<1>i. OwnResult /\ OutputInv /\ TakenInv
    BY DEF ResultInv
<1> USE <1>i DEF channels, flags, lock, memory, shared, handler, locals, sandbox, caller,
            history
<1>1. CASE UNCHANGED vars
    <2>1. /\ UNCHANGED <<output, guest_error, sent, cpc, why, ret, abandoned, multi, vcpu>>
          /\ UNCHANGED <<hpc, hres, from_handler>>
        BY <1>1 DEF vars
    <2>2. Uncut' = Uncut /\ Returning' = Returning
        BY <2>1 DEF Uncut, Returning
    <2>3. QED BY <2>1, <2>2, HandlerLeaves DEF Unaffected
<1>2. QED BY <1>1, ResultKeptByCaller, ResultKeptByHandler DEF Next

-----------------------------------------------------------------------------
(* The theorems.                                                           *)

\* HandlerInv holds in every state that the caller and the handler reach.
THEOREM Invariance == Spec => []HandlerInv
<1>1. Init => HandlerInv
    <2>1. Init => OneReplyPerAction
        BY SMTT(30) DEF Init, OneReplyPerAction, Taken, Busy
    <2>2. Init => StepInv
        BY SMTT(30) DEF Init, StepInv, Owing, Settled, Waiting
    <2>3. Init => LockInv
        BY SMTT(30) DEF Init, LockInv, GuestRunsUnderLock, InRun
    <2>4. Init => CancelInv
        BY SMTT(30) DEF Init, CancelInv, SignalInv, ReinitInv, HandshakeInv
    <2>5. Init => CutInv /\ AskedInv
        BY SMTT(30) DEF Init, CutInv, AskedInv, InCall, Signalling, Busy
    <2>6. Init => ResultInv
        BY DEF Init, ResultInv, OwnResult, OutputInv, TakenInv, Returning, Spent,
           OnlyLast, InCall, Signalling
    <2>7. QED BY <2>1, <2>2, <2>3, <2>4, <2>5, <2>6, InitType, SMTT(30) DEF HandlerInv, CallInv
<1>2. HandlerInv /\ [Next]_vars => HandlerInv'
    <2> SUFFICES ASSUME HandlerInv, [Next]_vars
                 PROVE  HandlerInv'
        OBVIOUS
    <2> USE DEF HandlerInv
    <2>1. TypeOK' /\ DataOK
        BY DataStep, FlagsStep DEF TypeOK
    <2>2. OneReplyPerAction' /\ StepInv'
        BY <2>1, QueuesKept, StepKept
    <2>3. LockInv'
        BY LockKept
    <2>4. CancelInv'
        BY <2>1, SignalKept, ReinitKept, HandshakeKept DEF CancelInv
    <2>5. CallInv'
        BY <2>1, AskedKept, CutKept, ResultKept DEF CallInv, CancelInv
    <2>6. QED BY <2>1, <2>2, <2>3, <2>4, <2>5
<1>3. QED BY <1>1, <1>2, PTL DEF Spec

\* No action or reply is lost, duplicated or overtaken, in any behaviour.
THEOREM QueuesInOrder == Spec => []OneReplyPerAction
BY Invariance, PTL DEF HandlerInv

\* A caller that once gave up a reply stays behind for ever.
THEOREM NeverCatchesUp == Spec => []OutOfStepForever
<1>1. HandlerInv => OutOfStepForever
    <2> SUFFICES ASSUME HandlerInv, abandoned
                 PROVE  consumed < sent
        BY DEF OutOfStepForever
    <2>1. /\ sent \in Nat /\ consumed \in Nat /\ cpc \in CallerPlaces /\ StepInv
        BY DEF HandlerInv, TypeOK, DataOK
    <2>2. cpc \in Owing \cup Settled
        BY <2>1 DEF StepInv, CallerPlaces, Owing, Settled, Waiting
    <2>3. QED BY <2>1, <2>2 DEF StepInv
<1>2. QED BY <1>1, Invariance, PTL

\* The guest never runs without the lock while no reply has been given up.
THEOREM GuestLocked == Spec => []GuestRunsUnderLock
BY Invariance, PTL DEF HandlerInv, LockInv

\* A call that returns a value returns the one computed for it.
THEOREM ResultOfThisCall == Spec => []OwnResult
BY Invariance, PTL DEF HandlerInv, CallInv, ResultInv

\* After terminate_execution the flags and the reply are what the caller of
\* a MultiUseSandbox expects of a cancelled execution.
THEOREM HandshakeCorrect == Spec => []CancelHandshake
<1>1. HandlerInv => CancelHandshake
    <2> SUFFICES ASSUME HandlerInv, multi, ~abandoned
                 PROVE  /\ cpc = "slept" => ~running
                        /\ cpc = "waitCancel" /\ from_handler # <<>> =>
                              Head(from_handler).res = "cancelled"
        BY DEF CancelHandshake
    <2>1. cpc \in {"slept", "waitCancel"} => JustCancelled
        BY DEF HandlerInv, CancelInv, HandshakeInv
    <2>2. cpc = "waitCancel" /\ from_handler # <<>> => hpc \notin Busy
        BY Places DEF HandlerInv, TypeOK, Owing, Waiting
    <2>3. QED BY <2>1, <2>2 DEF JustCancelled, Busy
<1>2. QED BY <1>1, Invariance, PTL

\* A MultiUseSandbox never dispatches on a vCPU that was cancelled and not
\* re-initialised, while no reply has been given up.
THEOREM ReinitialisedFirst == Spec => []ReinitialisedBeforeDispatch
<1>1. HandlerInv => ReinitialisedBeforeDispatch
    BY DEF HandlerInv, CancelInv, SignalInv, HandshakeInv, ReinitialisedBeforeDispatch
<1>2. QED BY <1>1, Invariance, PTL
=============================================================================
