------------------------ MODULE SurrogatePoolProofs ------------------------
(***************************************************************************)
(* Proofs of the safety properties of SurrogatePool, for any number of     *)
(* sandboxes, processes and failures of the Windows API.                   *)
(***************************************************************************)
EXTENDS SurrogatePool, SequenceTheorems, FiniteSetTheorems, TLAPS

-----------------------------------------------------------------------------
(* The channel.                                                            *)

\* The pool is filled with every process, once.
LEMMA InitialPool ==
    /\ SetToSeq(Processes) \in Seq(Processes)
    /\ IsInjective(SetToSeq(Processes))
    /\ Range(SetToSeq(Processes)) = Processes
<1> DEFINE n == Cardinality(Processes)
           f == SetToSeq(Processes)
<1>1. n \in Nat /\ ExistsBijection(1..n, Processes)
    BY FS_CardinalityType, PoolAssumption
<1>2. \E g \in [1..n -> Processes] : IsInjective(g)
    BY <1>1 DEF ExistsBijection, Bijection, Injection, IsInjective
<1>3. f \in [1..n -> Processes] /\ IsInjective(f)
    BY <1>2 DEF SetToSeq
<1>4. f \in Seq(Processes)
    BY <1>1, <1>3
<1>5. f \in Injection(1..n, Processes)
    BY <1>3 DEF Injection, IsInjective
<1>6. Cardinality(1..n) = Cardinality(Processes)
    BY <1>1, FS_Interval
<1>7. f \in Surjection(1..n, Processes)
    BY <1>5, <1>6, FS_Injection, PoolAssumption
<1>8. Range(f) = Processes
    BY <1>3, <1>7 DEF Surjection, Range
<1>9. QED BY <1>3, <1>4, <1>8

\* What recv takes from the pool, and what it leaves.
LEMMA TakenFromPool ==
    ASSUME NEW s \in Seq(Processes), s # <<>>, IsInjective(s)
    PROVE  /\ Head(s) \in Range(s) /\ Head(s) \in Processes
           /\ Tail(s) \in Seq(Processes) /\ IsInjective(Tail(s))
           /\ Range(Tail(s)) = Range(s) \ {Head(s)}
<1>1. /\ Len(s) \in Nat \ {0} /\ DOMAIN s = 1..Len(s)
      /\ Head(s) = s[1] /\ Head(s) \in Processes
      /\ Tail(s) \in Seq(Processes) /\ DOMAIN Tail(s) = 1..(Len(s) - 1)
      /\ \A i \in 1..(Len(s) - 1) : Tail(s)[i] = s[i + 1]
    BY EmptySeq, LenProperties, HeadTailProperties
<1>2. Head(s) \in Range(s)
    BY <1>1 DEF Range
<1>3. IsInjective(Tail(s))
    BY <1>1 DEF IsInjective
<1>4. ASSUME NEW p \in Range(Tail(s))
      PROVE  p \in Range(s) \ {Head(s)}
    BY <1>1 DEF Range, IsInjective
<1>5. ASSUME NEW p \in Range(s) \ {Head(s)}
      PROVE  p \in Range(Tail(s))
    <2>1. PICK i \in 1..Len(s) : p = s[i]
        BY <1>1 DEF Range
    <2>2. i - 1 \in 1..(Len(s) - 1) /\ Tail(s)[i - 1] = p
        BY <1>1, <2>1
    <2>3. QED BY <1>1, <2>2 DEF Range
<1>6. QED BY <1>1, <1>2, <1>3, <1>4, <1>5

\* What send adds to the pool.
LEMMA ReturnedToPool ==
    ASSUME NEW s \in Seq(Processes), IsInjective(s), NEW p \in Processes, p \notin Range(s)
    PROVE  /\ Append(s, p) \in Seq(Processes) /\ IsInjective(Append(s, p))
           /\ Range(Append(s, p)) = Range(s) \cup {p}
<1>1. /\ Len(s) \in Nat /\ DOMAIN s = 1..Len(s)
      /\ Append(s, p) \in Seq(Processes) /\ DOMAIN Append(s, p) = 1..(Len(s) + 1)
      /\ \A i \in 1..Len(s) : Append(s, p)[i] = s[i]
      /\ Append(s, p)[Len(s) + 1] = p
    BY LenProperties
<1>2. \A i \in 1..(Len(s) + 1) : i \in 1..Len(s) \/ i = Len(s) + 1
    BY <1>1
<1>3. \A i \in 1..Len(s) : i \in 1..(Len(s) + 1) /\ s[i] # p
    BY <1>1 DEF Range
<1>4. Len(s) + 1 \in 1..(Len(s) + 1)
    BY <1>1
<1>5. IsInjective(Append(s, p))
    BY <1>1, <1>2, <1>3 DEF IsInjective
<1>6. Range(Append(s, p)) = Range(s) \cup {p}
    BY <1>1, <1>2, <1>3, <1>4 DEF Range
<1>7. QED BY <1>1, <1>5, <1>6

-----------------------------------------------------------------------------
(* Where the processes are.                                                *)

\* A driver takes a process nobody holds.
LEMMA Takes ==
    ASSUME TypeOK, EveryProcessAccounted, NEW s \in Sandboxes, NEW p \in Processes \ Held,
           process[s] = None, process' = [process EXCEPT ![s] = p]
    PROVE  /\ process' \in [Sandboxes -> Processes \cup {None}]
           /\ Held' = Held \cup {p}
           /\ \A t, u \in Sandboxes : process'[t] = process'[u] /\ process'[t] # None => t = u
<1>1. \A t \in Sandboxes : process'[t] = IF t = s THEN p ELSE process[t]
    BY DEF TypeOK
<1>2. \A t \in Sandboxes : process[t] # p
    BY PoolAssumption DEF Held
<1>3. Held' = Held \cup {p}
    BY <1>1, PoolAssumption DEF Held
<1>4. QED BY <1>1, <1>2, <1>3 DEF TypeOK, EveryProcessAccounted

\* A driver gives up the process it holds.
LEMMA GivesUp ==
    ASSUME TypeOK, EveryProcessAccounted, NEW s \in Sandboxes,
           process[s] # None, process' = [process EXCEPT ![s] = None]
    PROVE  /\ process' \in [Sandboxes -> Processes \cup {None}]
           /\ process[s] \in Processes /\ process[s] \in Held
           /\ Held' = Held \ {process[s]}
           /\ \A t, u \in Sandboxes : process'[t] = process'[u] /\ process'[t] # None => t = u
<1>1. \A t \in Sandboxes : process'[t] = IF t = s THEN None ELSE process[t]
    BY DEF TypeOK
<1>2. process[s] \in Processes /\ process[s] \in Held
    BY DEF TypeOK, Held
<1>3. \A t \in Sandboxes : process[t] = process[s] => t = s
    BY DEF EveryProcessAccounted
<1>4. Held' = Held \ {process[s]}
    BY <1>1, <1>3 DEF Held
<1>5. QED BY <1>1, <1>2, <1>4 DEF TypeOK, EveryProcessAccounted

\* Every step keeps the types, and leaves every process at one place.
LEMMA AccountedKept ==
    ASSUME PoolInv, NEW s \in Sandboxes,
           CreatePartition(s) \/ ReceiveProcess(s) \/ Advance(s)
    PROVE  TypeOK' /\ EveryProcessAccounted'
<1> USE DEF Goto
<1>p. TypeOK /\ EveryProcessAccounted /\ PlaceOK(s) /\ process[s] \in Processes \cup {None}
    BY DEF PoolInv, TypeOK
<1>u. UNCHANGED <<pool, process, lost>> => EveryProcessAccounted'
    BY <1>p DEF EveryProcessAccounted, InPool, Held
<1>f. Fault => faults' \in Nat
    BY <1>p DEF Fault, TypeOK
<1>l. ASSUME LoseProcess(s), UNCHANGED pool, process[s] # None
      PROVE  /\ EveryProcessAccounted' /\ lost' \subseteq Processes
             /\ process' \in [Sandboxes -> Processes \cup {None}]
    <2>1. process' = [process EXCEPT ![s] = None] /\ lost' = lost \cup {process[s]}
        BY <1>l DEF LoseProcess
    <2>2. /\ process' \in [Sandboxes -> Processes \cup {None}]
          /\ process[s] \in Processes /\ process[s] \in Held
          /\ Held' = Held \ {process[s]}
          /\ \A t, u \in Sandboxes : process'[t] = process'[u] /\ process'[t] # None => t = u
        BY <1>l, <2>1, <1>p, GivesUp
    <2>3. EveryProcessAccounted'
        BY <1>l, <2>1, <2>2, <1>p DEF EveryProcessAccounted, InPool
    <2>4. QED BY <2>1, <2>2, <2>3, <1>p DEF TypeOK
<1>1. CASE CreatePartition(s)
    BY <1>1, <1>p, <1>u DEF CreatePartition, TypeOK
<1>2. CASE ReceiveProcess(s)
    <2>1. pool # <<>> /\ process[s] = None
        BY <1>2, <1>p DEF ReceiveProcess, PlaceOK
    <2>2. /\ Head(pool) \in Range(pool) /\ Head(pool) \in Processes
          /\ pool' \in Seq(Processes) /\ IsInjective(pool')
          /\ Range(pool') = Range(pool) \ {Head(pool)}
        BY <1>2, <2>1, <1>p, TakenFromPool DEF ReceiveProcess, TypeOK, EveryProcessAccounted
    <2>3. Head(pool) \in Processes \ Held
        BY <2>2, <1>p DEF EveryProcessAccounted, InPool
    <2>4. /\ process' \in [Sandboxes -> Processes \cup {None}]
          /\ Held' = Held \cup {Head(pool)}
          /\ \A t, u \in Sandboxes : process'[t] = process'[u] /\ process'[t] # None => t = u
        BY <1>2, <2>1, <2>3, <1>p, Takes DEF ReceiveProcess
    <2>5. EveryProcessAccounted'
        BY <1>2, <2>2, <2>4, <1>p DEF ReceiveProcess, EveryProcessAccounted, InPool
    <2>6. QED BY <1>2, <2>2, <2>4, <2>5, <1>p DEF ReceiveProcess, TypeOK
<1>3. CASE AllocateMemory(s)
    BY <1>3, <1>p, <1>u DEF AllocateMemory, TypeOK, PlaceOK, Holding
<1>4. CASE AllocateMemoryFails(s)
    <2>1. process[s] # None
        BY <1>4, <1>p DEF AllocateMemoryFails, PlaceOK, Holding
    <2>2. QED BY <1>4, <2>1, <1>p, <1>l, <1>f DEF AllocateMemoryFails, LoseProcess, TypeOK
<1>5. CASE ProtectGuards(s)
    BY <1>5, <1>p, <1>u DEF ProtectGuards, TypeOK
<1>6. CASE ProtectGuardsFails(s)
    <2>1. process[s] # None
        BY <1>6, <1>p DEF ProtectGuardsFails, PlaceOK, Holding
    <2>2. QED BY <1>6, <2>1, <1>p, <1>l, <1>f DEF ProtectGuardsFails, LoseProcess, TypeOK
<1>7. CASE map_gpa_range(s)
    BY <1>7, <1>p, <1>u DEF map_gpa_range, TypeOK
<1>8. CASE map_gpa_range_fails(s)
    BY <1>8, <1>p, <1>u, <1>f DEF map_gpa_range_fails, TypeOK
<1>9. CASE CreateProcessor(s)
    BY <1>9, <1>p, <1>u DEF CreateProcessor, TypeOK
<1>10. CASE CreateProcessorFails(s)
    BY <1>10, <1>p, <1>u, <1>f DEF CreateProcessorFails, TypeOK
<1>11. CASE DropDriver(s)
    BY <1>11, <1>p, <1>u DEF DropDriver, TypeOK
<1>12. CASE DeletePartition(s)
    <2>1. orphans' \subseteq Processes /\ faults' \in Nat
        BY <1>12, <1>p, <1>f DEF DeletePartition, TypeOK
    <2>2. QED BY <1>12, <2>1, <1>p, <1>u DEF DeletePartition, TypeOK
<1>13. CASE DropSurrogate(s)
    <2>1. process[s] # None /\ process' = [process EXCEPT ![s] = None]
        BY <1>13, <1>p DEF DropSurrogate, PlaceOK, Holding
    <2>2. /\ process' \in [Sandboxes -> Processes \cup {None}]
          /\ process[s] \in Processes /\ process[s] \in Held
          /\ Held' = Held \ {process[s]}
          /\ \A t, u \in Sandboxes : process'[t] = process'[u] /\ process'[t] # None => t = u
        BY <2>1, <1>p, GivesUp
    <2>3. process[s] \notin Range(pool)
        BY <2>2, <1>p DEF EveryProcessAccounted, InPool
    <2>4. /\ pool' \in Seq(Processes) /\ IsInjective(pool')
          /\ Range(pool') = Range(pool) \cup {process[s]}
        BY <1>13, <2>2, <2>3, <1>p, ReturnedToPool
        DEF DropSurrogate, TypeOK, EveryProcessAccounted
    <2>5. EveryProcessAccounted'
        BY <1>13, <2>2, <2>4, <1>p DEF DropSurrogate, EveryProcessAccounted, InPool
    <2>6. memory' \in [Processes -> SUBSET Sandboxes] /\ faults' \in Nat
        BY <1>13, <1>p, <1>f DEF DropSurrogate, TypeOK
    <2>7. QED BY <1>13, <2>2, <2>4, <2>5, <2>6, <1>p DEF DropSurrogate, TypeOK
<1>14. QED
    BY <1>1, <1>2, <1>3, <1>4, <1>5, <1>6, <1>7, <1>8, <1>9, <1>10, <1>11, <1>12, <1>13
    DEF Advance

-----------------------------------------------------------------------------
(* What the drivers hold and map.                                          *)

\* Every step leaves every driver with the process and the mapping that belong
\* to its place, and its memory in the process it holds.
LEMMA PlacesKept ==
    ASSUME PoolInv, NEW s \in Sandboxes, NEW t \in Sandboxes,
           CreatePartition(s) \/ ReceiveProcess(s) \/ Advance(s)
    PROVE  PlaceOK(t)'
<1> USE DEF Goto, PlaceOK, Holding
<1>p. TypeOK /\ EveryProcessAccounted /\ PlaceOK(s) /\ PlaceOK(t)
    BY DEF PoolInv
<1>d. /\ process[s] \in Processes \cup {None} /\ process[t] \in Processes \cup {None}
      /\ process[t] # None /\ t # s => process[t] # process[s]
    BY <1>p DEF TypeOK, EveryProcessAccounted
<1>f. Fault => faults' > 0
    BY <1>p DEF Fault, TypeOK
<1>1. CASE CreatePartition(s)
    BY <1>1, <1>p DEF CreatePartition, TypeOK
<1>2. CASE ReceiveProcess(s)
    <2>1. Head(pool) \in Processes
        BY <1>2, <1>p, TakenFromPool DEF ReceiveProcess, TypeOK, EveryProcessAccounted
    <2>2. QED BY <1>2, <2>1, <1>p, PoolAssumption DEF ReceiveProcess, TypeOK
<1>3. CASE AllocateMemory(s)
    BY <1>3, <1>p, <1>d DEF AllocateMemory, TypeOK
<1>4. CASE AllocateMemoryFails(s)
    <2>1. faults' > 0
        <3>1. CASE s \in memory[process[s]]
            <4>1. faults # 0
                BY <1>4, <3>1, <1>d DEF AllocateMemoryFails, PoolInv, NothingElsewhere
            <4>2. QED BY <1>4, <3>1, <4>1, <1>p DEF AllocateMemoryFails, TypeOK
        <3>2. CASE s \notin memory[process[s]]
            BY <1>4, <3>2, <1>f DEF AllocateMemoryFails
        <3>3. QED BY <3>1, <3>2
    <2>2. QED BY <1>4, <2>1, <1>p DEF AllocateMemoryFails, LoseProcess, TypeOK
<1>5. CASE ProtectGuards(s)
    BY <1>5, <1>p DEF ProtectGuards, TypeOK
<1>6. CASE ProtectGuardsFails(s)
    BY <1>6, <1>p, <1>f DEF ProtectGuardsFails, LoseProcess, TypeOK
<1>7. CASE map_gpa_range(s)
    BY <1>7, <1>p DEF map_gpa_range, TypeOK
<1>8. CASE map_gpa_range_fails(s)
    BY <1>8, <1>p, <1>f DEF map_gpa_range_fails, TypeOK
<1>9. CASE CreateProcessor(s)
    BY <1>9, <1>p DEF CreateProcessor, TypeOK
<1>10. CASE CreateProcessorFails(s)
    BY <1>10, <1>p, <1>f DEF CreateProcessorFails, TypeOK
<1>11. CASE DropDriver(s)
    BY <1>11, <1>p DEF DropDriver, TypeOK
<1>12. CASE DeletePartition(s)
    <2>1. faults > 0 => faults' > 0
        BY <1>12, <1>f DEF DeletePartition
    <2>2. QED BY <1>12, <2>1, <1>p DEF DeletePartition, TypeOK
<1>13. CASE DropSurrogate(s)
    <2>1. faults > 0 => faults' > 0
        BY <1>13, <1>f DEF DropSurrogate
    <2>2. process[s] \in Processes
        BY <1>13, <1>p, <1>d DEF DropSurrogate
    <2>3. t # s /\ process[t] # None => memory'[process[t]] = memory[process[t]]
        BY <1>13, <1>p, <1>d, <2>2 DEF DropSurrogate, TypeOK
    <2>4. QED BY <1>13, <2>1, <2>3, <1>p DEF DropSurrogate, TypeOK
<1>14. QED
    BY <1>1, <1>2, <1>3, <1>4, <1>5, <1>6, <1>7, <1>8, <1>9, <1>10, <1>11, <1>12, <1>13
    DEF Advance

\* Without failures, every step leaves the memory of a sandbox nowhere but in
\* the process its driver holds.
LEMMA NothingElsewhereKept ==
    ASSUME PoolInv, NEW s \in Sandboxes,
           CreatePartition(s) \/ ReceiveProcess(s) \/ Advance(s)
    PROVE  NothingElsewhere'
<1> SUFFICES ASSUME faults' = 0
             PROVE  /\ lost' = {} /\ orphans' = {}
                    /\ \A t \in Sandboxes, p \in Processes :
                            t \in memory'[p] => process'[t] = p /\ at'[t] # "received"
    BY DEF NothingElsewhere
<1> USE DEF Goto
<1>p. TypeOK /\ PlaceOK(s)
    BY DEF PoolInv
<1>f. ~Fault
    BY <1>p DEF Fault, TypeOK
<1>n. faults = 0 =>
        /\ lost = {} /\ orphans = {}
        /\ \A t \in Sandboxes, p \in Processes :
                t \in memory[p] => process[t] = p /\ at[t] # "received"
    BY DEF PoolInv, NothingElsewhere
<1>1. CASE CreatePartition(s)
    BY <1>1, <1>p, <1>n DEF CreatePartition, TypeOK
<1>2. CASE ReceiveProcess(s)
    <2>1. process[s] = None /\ faults = 0
        BY <1>2, <1>p DEF ReceiveProcess, PlaceOK
    <2>2. \A p \in Processes : s \notin memory[p]
        BY <2>1, <1>n, PoolAssumption
    <2>3. QED BY <1>2, <2>1, <2>2, <1>p, <1>n DEF ReceiveProcess, TypeOK
<1>3. CASE AllocateMemory(s)
    BY <1>3, <1>p, <1>n DEF AllocateMemory, TypeOK
<1>4. CASE AllocateMemoryFails(s)
    <2>1. s \in memory[process[s]] /\ faults = 0 /\ process[s] \in Processes
        BY <1>4, <1>p, <1>f DEF AllocateMemoryFails, TypeOK, PlaceOK, Holding
    <2>2. QED BY <1>4, <2>1, <1>n DEF AllocateMemoryFails
<1>5. CASE ProtectGuards(s)
    BY <1>5, <1>p, <1>n DEF ProtectGuards, TypeOK
<1>6. CASE ProtectGuardsFails(s)
    BY <1>6, <1>f DEF ProtectGuardsFails
<1>7. CASE map_gpa_range(s)
    BY <1>7, <1>p, <1>n DEF map_gpa_range, TypeOK
<1>8. CASE map_gpa_range_fails(s)
    BY <1>8, <1>f DEF map_gpa_range_fails
<1>9. CASE CreateProcessor(s)
    BY <1>9, <1>p, <1>n DEF CreateProcessor, TypeOK
<1>10. CASE CreateProcessorFails(s)
    BY <1>10, <1>f DEF CreateProcessorFails
<1>11. CASE DropDriver(s)
    BY <1>11, <1>p, <1>n DEF DropDriver, TypeOK
<1>12. CASE DeletePartition(s)
    BY <1>12, <1>p, <1>n, <1>f DEF DeletePartition, TypeOK
<1>13. CASE DropSurrogate(s)
    <2>1. /\ faults = 0 /\ process[s] \in Processes
          /\ memory' = [memory EXCEPT ![process[s]] = @ \ {s}]
        BY <1>13, <1>p, <1>f DEF DropSurrogate, TypeOK, PlaceOK, Holding
    <2>2. \A p \in Processes : s \notin memory'[p]
        BY <2>1, <1>p, <1>n DEF TypeOK
    <2>3. QED BY <1>13, <2>1, <2>2, <1>p, <1>n DEF DropSurrogate, TypeOK
<1>14. QED
    BY <1>1, <1>2, <1>3, <1>4, <1>5, <1>6, <1>7, <1>8, <1>9, <1>10, <1>11, <1>12, <1>13
    DEF Advance

-----------------------------------------------------------------------------
(* The theorems.                                                           *)

\* The inductive invariant.
THEOREM Invariance == Spec => []PoolInv
<1>1. Init => PoolInv
    <2> SUFFICES ASSUME Init PROVE PoolInv
        OBVIOUS
    <2>1. TypeOK
        BY InitialPool DEF Init, TypeOK
    <2>2. Held = {}
        BY DEF Init, Held
    <2>3. EveryProcessAccounted
        BY <2>2, InitialPool DEF Init, EveryProcessAccounted, InPool
    <2>4. \A s \in Sandboxes : PlaceOK(s)
        BY DEF Init, PlaceOK, Holding
    <2>5. NothingElsewhere
        BY DEF Init, NothingElsewhere
    <2>6. QED BY <2>1, <2>3, <2>4, <2>5 DEF PoolInv
<1>2. PoolInv /\ [Next]_vars => PoolInv'
    <2> SUFFICES ASSUME PoolInv, [Next]_vars PROVE PoolInv'
        OBVIOUS
    <2>1. CASE Next
        <3>1. PICK s \in Sandboxes : CreatePartition(s) \/ ReceiveProcess(s) \/ Advance(s)
            BY <2>1 DEF Next
        <3>2. TypeOK' /\ EveryProcessAccounted'
            BY <3>1, AccountedKept
        <3>3. \A t \in Sandboxes : PlaceOK(t)'
            BY <3>1, PlacesKept
        <3>4. NothingElsewhere'
            BY <3>1, NothingElsewhereKept
        <3>5. QED BY <3>2, <3>3, <3>4 DEF PoolInv
    <2>2. CASE UNCHANGED vars
        BY <2>2
        DEF vars, PoolInv, TypeOK, EveryProcessAccounted, InPool, Held, PlaceOK,
            NothingElsewhere
    <2>3. QED BY <2>1, <2>2
<1>3. QED BY <1>1, <1>2, PTL DEF Spec

\* No process is ever in two places, and none but the lost ones is away for good,
\* whichever calls of the Windows API fail.
THEOREM Accounted == Spec => []EveryProcessAccounted
<1>1. PoolInv => EveryProcessAccounted
    BY DEF PoolInv
<1>2. QED BY <1>1, Invariance, PTL

\* The memory a guest runs on is that of a process its driver alone holds.
THEOREM OwnMemory == Spec => []GuestMemoryIsItsOwn
<1>1. PoolInv => GuestMemoryIsItsOwn
    <2> SUFFICES ASSUME PoolInv, NEW s \in Sandboxes, at[s] = "running"
                 PROVE  /\ mapped[s] = process[s]
                        /\ s \in memory[process[s]]
                        /\ \A t \in Sandboxes \ {s} :
                                /\ process[t] # process[s]
                                /\ mapped[t] = process[s] =>
                                    faults > 0 /\ at[t] = "dropPartition" /\ process[t] = None
        BY DEF GuestMemoryIsItsOwn
    <2>1. /\ process[s] # None /\ mapped[s] = process[s] /\ s \in memory[process[s]]
        BY DEF PoolInv, PlaceOK, Holding
    <2>2. ASSUME NEW t \in Sandboxes \ {s}
          PROVE  process[t] # process[s]
        BY <2>1 DEF PoolInv, EveryProcessAccounted
    <2>3. ASSUME NEW t \in Sandboxes \ {s}, mapped[t] = process[s]
          PROVE  faults > 0 /\ at[t] = "dropPartition" /\ process[t] = None
        BY <2>1, <2>2, <2>3 DEF PoolInv, PlaceOK
    <2>4. QED BY <2>1, <2>2, <2>3
<1>2. QED BY <1>1, Invariance, PTL

\* As long as no call of the Windows API fails, the processes in the pool are
\* empty and all of them come back.
THEOREM PoolClean == Spec => []NothingLeftWithoutFaults
<1>1. PoolInv => NothingLeftWithoutFaults
    <2> SUFFICES ASSUME PoolInv, faults = 0
                 PROVE  /\ lost = {} /\ orphans = {}
                        /\ \A i \in DOMAIN pool : memory[pool[i]] = {}
        BY DEF NothingLeftWithoutFaults
    <2>1. lost = {} /\ orphans = {}
        BY DEF PoolInv, NothingElsewhere
    <2>2. ASSUME NEW i \in DOMAIN pool
          PROVE  memory[pool[i]] = {}
        <3>1. pool[i] \in InPool /\ pool[i] \in Processes
            BY DEF PoolInv, EveryProcessAccounted, InPool, Range
        <3>2. \A s \in Sandboxes : process[s] # pool[i]
            BY <3>1, PoolAssumption DEF PoolInv, EveryProcessAccounted, Held
        <3>3. \A s \in Sandboxes : s \notin memory[pool[i]]
            BY <3>1, <3>2 DEF PoolInv, NothingElsewhere
        <3>4. memory[pool[i]] \subseteq Sandboxes
            BY <3>1 DEF PoolInv, TypeOK
        <3>5. QED BY <3>3, <3>4
    <2>3. QED BY <2>1, <2>2
<1>2. QED BY <1>1, Invariance, PTL
=============================================================================
