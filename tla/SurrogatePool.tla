---------------------------- MODULE SurrogatePool ----------------------------
(***************************************************************************)
(* The pool of surrogate processes (Windows) and the drivers that use it.  *)
(* A partition of the Windows hypervisor platform gets its memory from a   *)
(* process of its own, and a fixed number of these is shared by all the    *)
(* sandboxes of the program.  A driver creates a partition, takes a        *)
(* process, allocates the sandbox's memory in it, maps that memory into    *)
(* the partition and creates the processor; every step may fail, and what  *)
(* was acquired is then released in the order Rust drops it.  Drivers are  *)
(* created and dropped by the threads of their sandboxes.                  *)
(***************************************************************************)
EXTENDS Integers, Sequences, FiniteSets, SequencesExt

CONSTANTS
    Sandboxes,      \* each stands for its address: its memory has the same in the process
    Processes,      \* NUMBER_OF_SURROGATE_PROCESSES of them
    MaxFaults       \* bound: failures of the Windows API

None == "none"

ASSUME PoolAssumption ==
    /\ IsFiniteSet(Processes) /\ None \notin Processes
    /\ MaxFaults \in Nat

VARIABLES
    pool,       \* the channel process_sender / process_receiver
    at,         \* per sandbox: how far its driver is
    process,    \* per sandbox: the process its driver holds
    mapped,     \* per sandbox: the process whose memory its partition maps
    memory,     \* per process: the addresses allocated in it
    lost,       \* processes that are neither in the pool nor held
    orphans,    \* processes mapped by a partition that could not be deleted
    faults

vars == <<pool, at, process, mapped, memory, lost, orphans, faults>>

Init ==
    /\ pool = SetToSeq(Processes)
    /\ at = [s \in Sandboxes |-> "none"]
    /\ process = [s \in Sandboxes |-> None]
    /\ mapped = [s \in Sandboxes |-> None]
    /\ memory = [p \in Processes |-> {}]
    /\ lost = {}
    /\ orphans = {}
    /\ faults = 0

Goto(s, place) == at' = [at EXCEPT ![s] = place]

Fault ==
    /\ faults < MaxFaults
    /\ faults' = faults + 1

-----------------------------------------------------------------------------
(***************************************************************************)
(* HypervWindowsDriver::new                                                *)
(***************************************************************************)

CreatePartition(s) ==
    /\ at[s] = "none"
    /\ Goto(s, "partition")
    /\ UNCHANGED <<pool, process, mapped, memory, lost, orphans, faults>>

\* recv waits while the pool is empty.
ReceiveProcess(s) ==
    /\ at[s] = "partition"
    /\ pool # <<>>
    /\ process' = [process EXCEPT ![s] = Head(pool)]
    /\ pool' = Tail(pool)
    /\ Goto(s, "received")
    /\ UNCHANGED <<mapped, memory, lost, orphans, faults>>

\* An address that is still in use in the process cannot be allocated again.
AllocateMemory(s) ==
    /\ at[s] = "received"
    /\ s \notin memory[process[s]]
    /\ memory' = [memory EXCEPT ![process[s]] = @ \cup {s}]
    /\ Goto(s, "allocated")
    /\ UNCHANGED <<pool, process, mapped, lost, orphans, faults>>

\* An error return of get_surrogate_process: the handle is a plain value there,
\* which nothing returns to the pool.  The partition is dropped.
LoseProcess(s) ==
    /\ lost' = lost \cup {process[s]}
    /\ process' = [process EXCEPT ![s] = None]
    /\ Goto(s, "dropPartition")

AllocateMemoryFails(s) ==
    /\ at[s] = "received"
    /\ IF s \in memory[process[s]] THEN UNCHANGED faults ELSE Fault
    /\ LoseProcess(s)
    /\ UNCHANGED <<pool, mapped, memory, orphans>>

ProtectGuards(s) ==
    /\ at[s] = "allocated"
    /\ Goto(s, "surrogate")
    /\ UNCHANGED <<pool, process, mapped, memory, lost, orphans, faults>>

ProtectGuardsFails(s) ==
    /\ at[s] = "allocated"
    /\ Fault
    /\ LoseProcess(s)
    /\ UNCHANGED <<pool, mapped, memory, orphans>>

map_gpa_range(s) ==
    /\ at[s] = "surrogate"
    /\ mapped' = [mapped EXCEPT ![s] = process[s]]
    /\ Goto(s, "mapped")
    /\ UNCHANGED <<pool, process, memory, lost, orphans, faults>>

\* Regions before the one that failed stay mapped.  The locals are dropped in
\* the reverse order of their declaration: the process before the partition.
map_gpa_range_fails(s) ==
    /\ at[s] = "surrogate"
    /\ Fault
    /\ \E some \in BOOLEAN :
            mapped' = IF some THEN [mapped EXCEPT ![s] = process[s]] ELSE mapped
    /\ Goto(s, "mapFailed")
    /\ UNCHANGED <<pool, process, memory, lost, orphans>>

CreateProcessor(s) ==
    /\ at[s] = "mapped"
    /\ Goto(s, "running")
    /\ UNCHANGED <<pool, process, mapped, memory, lost, orphans, faults>>

\* The partition was moved into VMProcessor::new, or into the processor whose
\* registers could not be set: it is dropped before the process.
CreateProcessorFails(s) ==
    /\ at[s] = "mapped"
    /\ Fault
    /\ Goto(s, "dropPartition")
    /\ UNCHANGED <<pool, process, mapped, memory, lost, orphans>>

-----------------------------------------------------------------------------
(***************************************************************************)
(* Dropping a driver                                                       *)
(***************************************************************************)

\* Mutant: the fields of the driver in the other order.
DropSurrogateFirst(s) ==
    /\ at[s] = "running"
    /\ Goto(s, "mapFailed")
    /\ UNCHANGED <<pool, process, mapped, memory, lost, orphans, faults>>

\* Fields are dropped in the order of their declaration: the processor, and with
\* it the partition, before the surrogate process.
DropDriver(s) ==
    /\ at[s] = "running"
    /\ Goto(s, "dropPartition")
    /\ UNCHANGED <<pool, process, mapped, memory, lost, orphans, faults>>

\* A failure to delete the partition is only logged.
DeletePartition(s) ==
    /\ at[s] = "dropPartition"
    /\ \/ UNCHANGED <<orphans, faults>>
       \/ /\ mapped[s] # None
          /\ Fault
          /\ orphans' = orphans \cup {mapped[s]}
    /\ mapped' = [mapped EXCEPT ![s] = None]
    /\ Goto(s, IF process[s] # None THEN "dropSurrogate" ELSE "none")
    /\ UNCHANGED <<pool, process, memory, lost>>

\* Mutant: the process is returned only when its memory could be freed.
DropSurrogateIfFreed(s) ==
    /\ at[s] \in {"dropSurrogate", "mapFailed"}
    /\ \/ /\ memory' = [memory EXCEPT ![process[s]] = @ \ {s}]
          /\ pool' = Append(pool, process[s])
          /\ UNCHANGED faults
       \/ Fault /\ UNCHANGED <<memory, pool>>
    /\ process' = [process EXCEPT ![s] = None]
    /\ Goto(s, IF at[s] = "mapFailed" THEN "dropPartition" ELSE "none")
    /\ UNCHANGED <<mapped, lost, orphans>>

\* Mutant: the memory is not freed.
DropSurrogateUnfreed(s) ==
    /\ at[s] \in {"dropSurrogate", "mapFailed"}
    /\ pool' = Append(pool, process[s])
    /\ process' = [process EXCEPT ![s] = None]
    /\ Goto(s, IF at[s] = "mapFailed" THEN "dropPartition" ELSE "none")
    /\ UNCHANGED <<mapped, memory, faults, lost, orphans>>

\* A failure to free the memory is only logged: the process is returned anyway.
DropSurrogate(s) ==
    /\ at[s] \in {"dropSurrogate", "mapFailed"}
    /\ \/ memory' = [memory EXCEPT ![process[s]] = @ \ {s}] /\ UNCHANGED faults
       \/ Fault /\ UNCHANGED memory
    /\ pool' = Append(pool, process[s])
    /\ process' = [process EXCEPT ![s] = None]
    /\ Goto(s, IF at[s] = "mapFailed" THEN "dropPartition" ELSE "none")
    /\ UNCHANGED <<mapped, lost, orphans>>

-----------------------------------------------------------------------------
\* What the thread that creates or drops a driver does by itself.
Advance(s) ==
    \/ AllocateMemory(s)
    \/ AllocateMemoryFails(s)
    \/ ProtectGuards(s)
    \/ ProtectGuardsFails(s)
    \/ map_gpa_range(s)
    \/ map_gpa_range_fails(s)
    \/ CreateProcessor(s)
    \/ CreateProcessorFails(s)
    \/ DropDriver(s)
    \/ DeletePartition(s)
    \/ DropSurrogate(s)

Next ==
    \E s \in Sandboxes :
        \/ CreatePartition(s)
        \/ ReceiveProcess(s)
        \/ Advance(s)

Spec == Init /\ [][Next]_vars

\* Threads are scheduled, calls of the API return, and a sandbox is dropped some
\* day.  A thread that waits in recv is not passed over for ever.
FairSpec ==
    Spec /\ \A s \in Sandboxes : WF_vars(Advance(s)) /\ SF_vars(ReceiveProcess(s))

-----------------------------------------------------------------------------
(***************************************************************************)
(* Properties                                                              *)
(***************************************************************************)

\* Every variable has its type.
TypeOK ==
    /\ pool \in Seq(Processes)
    /\ at \in [Sandboxes -> {"none", "partition", "received", "allocated", "surrogate",
                             "mapFailed", "mapped", "running", "dropPartition",
                             "dropSurrogate"}]
    /\ process \in [Sandboxes -> Processes \cup {None}]
    /\ mapped \in [Sandboxes -> Processes \cup {None}]
    /\ memory \in [Processes -> SUBSET Sandboxes]
    /\ lost \subseteq Processes
    /\ orphans \subseteq Processes
    /\ faults \in Nat

InPool == Range(pool)
Held == {process[s] : s \in Sandboxes} \ {None}

\* Every process is at one place, whatever failed and whoever was dropped when:
\* in the pool, once; held by one driver; or lost, where a driver failed between
\* recv and the SurrogateProcess that would return it.
EveryProcessAccounted ==
    /\ IsInjective(pool)
    /\ \A s, t \in Sandboxes : process[s] = process[t] /\ process[s] # None => s = t
    /\ InPool \cup Held \cup lost = Processes
    /\ InPool \cap Held = {} /\ InPool \cap lost = {} /\ Held \cap lost = {}

\* A guest runs on the memory of a process that its driver alone holds.  Another
\* partition may still map that process in two cases only: it is about to be
\* deleted after a mapping that failed half-way, or it could not be deleted.
GuestMemoryIsItsOwn ==
    \A s \in Sandboxes :
        at[s] = "running" =>
            /\ mapped[s] = process[s]
            /\ s \in memory[process[s]]
            /\ \A t \in Sandboxes \ {s} :
                    /\ process[t] # process[s]
                    /\ mapped[t] = process[s] =>
                            faults > 0 /\ at[t] = "dropPartition" /\ process[t] = None

\* Memory is left behind in a process only where a failure of the API left it:
\* without failures a process in the pool is empty, and none is ever lost.
NothingLeftWithoutFaults ==
    faults = 0 =>
        /\ lost = {}
        /\ orphans = {}
        /\ \A i \in DOMAIN pool : memory[pool[i]] = {}

\* The doc of SurrogateProcessManager says that a sandbox created while the pool
\* is empty waits for a free process: it gets one, unless failed allocations
\* have used up the whole pool.
WaitersServed ==
    \A s \in Sandboxes :
        at[s] = "partition" ~> (at[s] # "partition" \/ lost = Processes)

-----------------------------------------------------------------------------
(***************************************************************************)
(* The inductive invariant behind the safety properties                    *)
(***************************************************************************)

\* The places where a driver holds a process.
Holding == {"received", "allocated", "surrogate", "mapFailed", "mapped", "running",
            "dropSurrogate"}

\* What a driver holds and what its partition maps, by how far it is.
PlaceOK(s) ==
    /\ at[s] \in Holding => process[s] # None
    /\ at[s] \in {"none", "partition"} => process[s] = None
    /\ at[s] \notin {"mapFailed", "mapped", "running", "dropPartition"} => mapped[s] = None
    /\ at[s] \in {"mapped", "running"} => mapped[s] = process[s]
    /\ at[s] = "mapFailed" => faults > 0 /\ mapped[s] \in {None, process[s]}
    /\ at[s] = "dropPartition" => mapped[s] = process[s] \/ (process[s] = None /\ faults > 0)
    /\ process[s] # None /\ at[s] # "received" => s \in memory[process[s]]

\* Without failures the memory of a sandbox is in the process its driver holds.
NothingElsewhere ==
    faults = 0 =>
        /\ lost = {} /\ orphans = {}
        /\ \A s \in Sandboxes, p \in Processes :
                s \in memory[p] => process[s] = p /\ at[s] # "received"

PoolInv ==
    /\ TypeOK
    /\ EveryProcessAccounted
    /\ \A s \in Sandboxes : PlaceOK(s)
    /\ NothingElsewhere
=============================================================================
