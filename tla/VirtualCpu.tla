----------------------------- MODULE VirtualCpu -----------------------------
(***************************************************************************)
(* Running a guest on a virtual CPU: the loop VirtualCPU::run and the      *)
(* three drivers under it, KVM and mshv on Linux and WHP on Windows        *)
(* (hypervisor/mod.rs, kvm.rs, hyperv_linux.rs, hyperv_windows.rs).        *)
(*                                                                         *)
(* The drivers differ in who moves the instruction pointer past an OUT     *)
(* (the KVM kernel module when the vCPU is next entered, handle_io in the  *)
(* other two), in how an access to memory that is not allowed is           *)
(* reported, and in where the guest's memory is: the WHP driver copies the *)
(* host's memory into a surrogate process before each entry and back after *)
(* each exit. GuestMachine is what the three have in common.               *)
(*                                                                         *)
(* driver never changes. hostMem is the host's memory; vmMem the surrogate *)
(* process's, used by WHP only. pio is the OUT the kernel has yet to       *)
(* complete (KVM only, 0 for none). at says where the thread is: outside   *)
(* the loop (idle, failed), about to enter the vCPU, in guest code, back   *)
(* from it with a raw exit (left), or in the loop's match (exit).          *)
(***************************************************************************)
EXTENDS Naturals, Sequences

CONSTANTS Program,   \* the guest's instructions: "store", "out" and "hlt"
          Flags,     \* the permissions of each region of the guest's memory
          Drivers,   \* the drivers to look at, of "kvm", "mshv" and "whp"
          MaxCalls   \* bound: how often the guest is entered from outside

\* Every routine ends in HLT, and the routine a call is dispatched to saves
\* registers before anything else: it does not begin with an OUT.
ASSUME ProgramAssumption ==
    /\ Program \in Seq({"store", "out", "hlt"})
    /\ Len(Program) > 1
    /\ Program[Len(Program)] = "hlt"
    /\ Program[1] = "store"

ASSUME DriversAssumption == Drivers \subseteq {"kvm", "mshv", "whp"}

\* The layout makes writable regions and regions that can only be read.
ASSUME RegionsAssumption ==
    /\ "outside" \notin DOMAIN Flags
    /\ \A r \in DOMAIN Flags :
           "write" \in Flags[r] \/ Flags[r] \cap {"read", "write", "execute"} = {"read"}

ASSUME MaxCallsAssumption == MaxCalls \in Nat

VARIABLES driver, rip, pio, hostMem, vmMem, at, exit, error, calls

vars == << driver, rip, pio, hostMem, vmMem, at, exit, error, calls >>

Regions == DOMAIN Flags

\* A write to memory: what was done, by which instruction, and to which region.
Write == {"store", "out", "call"} \X Nat \X (Regions \cup {"host"})

NoExit == [kind |-> "none", region |-> "outside", access |-> "none"]
Exit(kind) == [kind |-> kind, region |-> "outside", access |-> "none"]

\* The memory guest code works on.
GuestMem == IF driver = "whp" THEN vmMem ELSE hostMem

SetGuestMem(m) ==
    IF driver = "whp" THEN vmMem' = m /\ UNCHANGED hostMem
                      ELSE hostMem' = m /\ UNCHANGED vmMem

-----------------------------------------------------------------------------
(* Memory regions *)

\* Mutant: the region's flags are compared unmasked.
KvmMappedNoMask(r) ==
    IF Flags[r] = {"read"} THEN {"read", "execute"} ELSE {"read", "write", "execute"}

\* What the mapping of a region lets the guest do. KVM knows read-only slots and
\* slots with every permission.
KvmMapped(r) ==
    IF Flags[r] \cap {"read", "write", "execute"} = {"read"}
    THEN {"read", "execute"} ELSE {"read", "write", "execute"}

MshvMapped(r) == Flags[r] \cap {"read", "write", "execute"}

WhpMapped(r) == Flags[r] \ {"stack_guard"}

Mapped(r) ==
    CASE driver = "kvm"  -> KvmMapped(r)
      [] driver = "mshv" -> MshvMapped(r)
      [] driver = "whp"  -> WhpMapped(r)

\* get_memory_access_violation: the region lacks the permission, or guards a stack.
Violation(r, a) ==
    /\ r \in Regions
    /\ \/ a \notin Flags[r]
       \/ "stack_guard" \in Flags[r]

ViolationOrMmio(r, a) == IF Violation(r, a) THEN "AccessViolation" ELSE "Mmio"

\* The exit a driver makes of a refused access. KVM has no exit of its own for a
\* fetch; mshv tells unmapped addresses from refused accesses.
KvmFaultKind(r, a) == IF a = "execute" THEN "Unknown" ELSE ViolationOrMmio(r, a)

\* Mutant: mshv does not look at the region of a refused access.
MshvFaultKindUnchecked(r, a) == "Mmio"

MshvFaultKind(r, a) == IF r \in Regions THEN ViolationOrMmio(r, a) ELSE "Mmio"

WhpFaultKind(r, a) == ViolationOrMmio(r, a)

FaultKind(r, a) ==
    CASE driver = "kvm"  -> KvmFaultKind(r, a)
      [] driver = "mshv" -> MshvFaultKind(r, a)
      [] driver = "whp"  -> WhpFaultKind(r, a)

-----------------------------------------------------------------------------
(* The thread outside guest code *)

Init ==
    /\ driver \in Drivers
    /\ rip = 0 /\ pio = 0
    /\ hostMem = << >> /\ vmMem = << >>
    /\ at = "idle" /\ exit = NoExit /\ error = "none"
    /\ calls = 0

\* dispatch_call_from_host (or initialise) after the host has written the call:
\* the registers are set, RIP to the routine, and the loop begins.
Dispatch ==
    /\ at \in {"idle", "failed"} /\ calls < MaxCalls
    /\ calls' = calls + 1
    /\ hostMem' = Append(hostMem, << "call", 1, "host" >>)
    /\ rip' = 1
    /\ at' = "enter" /\ exit' = NoExit /\ error' = "none"
    /\ UNCHANGED << driver, pio, vmMem >>

\* Entering the vCPU. The KVM kernel module completes the OUT it last reported,
\* if RIP still points at it.
EnterGuest ==
    /\ at = "enter" /\ at' = "guest"
    /\ UNCHANGED << driver, hostMem, exit, error, calls >>

KvmEnter ==
    /\ driver = "kvm" /\ EnterGuest
    /\ rip' = IF pio # 0 /\ pio = rip THEN rip + 1 ELSE rip
    /\ pio' = 0
    /\ UNCHANGED vmMem

MshvEnter ==
    /\ driver = "mshv" /\ EnterGuest
    /\ UNCHANGED << rip, pio, vmMem >>

\* WHP copies the host's memory to the surrogate process first.
WhpEnter ==
    /\ driver = "whp" /\ EnterGuest
    /\ vmMem' = hostMem
    /\ UNCHANGED << rip, pio >>

Enter == KvmEnter \/ MshvEnter \/ WhpEnter

\* Entry is refused: EAGAIN, EINTR for a signal that is already pending, or an
\* error of the copy or of the hypervisor, which ends the run.
EnterRefused ==
    /\ at = "enter"
    /\ \/ /\ driver # "whp"
          /\ exit' \in {Exit("Retry"), Exit("Cancelled")} /\ at' = "exit"
          /\ UNCHANGED << vmMem, error >>
       \/ /\ exit' = NoExit /\ at' = "failed" /\ error' = "Run"
          /\ vmMem' \in IF driver = "whp" THEN {vmMem, hostMem} ELSE {vmMem}
    /\ UNCHANGED << driver, rip, pio, hostMem, calls >>

\* The driver's run returns the exit; WHP reads the surrogate's memory back first.
LinuxReturn ==
    /\ driver # "whp"
    /\ at = "left" /\ at' = "exit"
    /\ UNCHANGED << driver, rip, pio, hostMem, vmMem, exit, error, calls >>

WhpReturn ==
    /\ driver = "whp"
    /\ at = "left" /\ at' = "exit"
    /\ hostMem' = vmMem
    /\ UNCHANGED << driver, rip, pio, vmMem, exit, error, calls >>

Return == LinuxReturn \/ WhpReturn

\* The surrogate's memory cannot be read: the run fails, whatever the exit was.
CopyBackFails ==
    /\ at = "left" /\ driver = "whp"
    /\ at' = "failed" /\ error' = "Run"
    /\ UNCHANGED << driver, rip, pio, hostMem, vmMem, exit, calls >>

-----------------------------------------------------------------------------
(* Guest code (external: the processor and the hypervisor) *)

GuestStore(r) ==
    /\ at = "guest" /\ Program[rip] = "store"
    /\ "write" \in Mapped(r)
    /\ SetGuestMem(Append(GuestMem, << "store", rip, r >>))
    /\ rip' = rip + 1
    /\ UNCHANGED << driver, pio, at, exit, error, calls >>

\* Leaving guest code for the hypervisor, at the instruction RIP points at.
Leave(e) ==
    /\ at = "guest"
    /\ at' = "left" /\ exit' = e
    /\ UNCHANGED << driver, rip, hostMem, vmMem, error, calls >>

GuestOut ==
    /\ at = "guest" /\ Program[rip] = "out"
    /\ Leave(Exit("IoOut"))
    /\ pio' = IF driver = "kvm" THEN rip ELSE pio

GuestHalt ==
    /\ at = "guest" /\ Program[rip] = "hlt"
    /\ Leave(Exit("Halt"))
    /\ UNCHANGED pio

GuestFault(r, a) ==
    /\ r \in Regions => a \notin Mapped(r)
    /\ Leave([kind |-> FaultKind(r, a), region |-> r, access |-> a])
    /\ UNCHANGED pio

\* A signal, WHvCancelRunVirtualProcessor, or an exit nobody expects.
GuestStopped ==
    /\ Leave(Exit("Cancelled")) \/ Leave(Exit("Unknown"))
    /\ UNCHANGED pio

-----------------------------------------------------------------------------
(* The loop's match *)

\* The registers are reset after the loop; that may fail.
OnHalt ==
    /\ at = "exit" /\ exit.kind = "Halt"
    /\ \/ at' = "idle" /\ rip' = 0 /\ UNCHANGED error
       \/ at' = "failed" /\ error' = "Run" /\ UNCHANGED rip
    /\ UNCHANGED << driver, pio, hostMem, vmMem, exit, calls >>

\* handle_io: the handler works on the host's memory, then the drivers other
\* than KVM's move RIP past the instruction.
CallOutb ==
    /\ at = "exit" /\ exit.kind = "IoOut"
    /\ hostMem' = Append(hostMem, << "out", rip, "host" >>)
    /\ at' = "enter" /\ exit' = NoExit
    /\ UNCHANGED << driver, pio, vmMem, error, calls >>

KvmHandleIo == driver = "kvm" /\ CallOutb /\ UNCHANGED rip

\* Mutant: RIP is left at the OUT.
MshvHandleIoRipKept == driver = "mshv" /\ CallOutb /\ UNCHANGED rip

MshvHandleIo == driver = "mshv" /\ CallOutb /\ rip' = rip + 1

WhpHandleIo == driver = "whp" /\ CallOutb /\ rip' = rip + 1

HandleIo == KvmHandleIo \/ MshvHandleIo \/ WhpHandleIo

\* The handler fails, before or after writing, or RIP cannot be set.
HandleIoFails ==
    /\ at = "exit" /\ exit.kind = "IoOut"
    /\ hostMem' \in {hostMem, Append(hostMem, << "out", rip, "host" >>)}
    /\ at' = "failed" /\ error' = "Handler"
    /\ UNCHANGED << driver, rip, pio, vmMem, exit, calls >>

\* An unmapped address: the handler looks at the stack's cookie.
OnMmio ==
    /\ at = "exit" /\ exit.kind = "Mmio"
    /\ at' = "failed" /\ error' \in {"StackOverflow", "Mmio"}
    /\ UNCHANGED << driver, rip, pio, hostMem, vmMem, exit, calls >>

OnAccessViolation ==
    /\ at = "exit" /\ exit.kind = "AccessViolation"
    /\ at' = "failed"
    /\ error' = IF "stack_guard" \in Flags[exit.region]
                THEN "StackOverflow" ELSE "MemoryAccessViolation"
    /\ UNCHANGED << driver, rip, pio, hostMem, vmMem, exit, calls >>

OnCancelled ==
    /\ at = "exit" /\ exit.kind = "Cancelled"
    /\ at' = "failed" /\ error' = "ExecutionCanceledByHost"
    /\ UNCHANGED << driver, rip, pio, hostMem, vmMem, exit, calls >>

OnUnknown ==
    /\ at = "exit" /\ exit.kind = "Unknown"
    /\ at' = "failed" /\ error' = "Unknown"
    /\ UNCHANGED << driver, rip, pio, hostMem, vmMem, exit, calls >>

OnRetry ==
    /\ at = "exit" /\ exit.kind = "Retry"
    /\ at' = "enter" /\ exit' = NoExit
    /\ UNCHANGED << driver, rip, pio, hostMem, vmMem, error, calls >>

-----------------------------------------------------------------------------

GuestStep ==
    \/ \E r \in Regions : GuestStore(r)
    \/ GuestOut \/ GuestHalt \/ GuestStopped
    \/ \E r \in Regions \cup {"outside"}, a \in {"read", "write", "execute"} : GuestFault(r, a)

LoopStep ==
    \/ Enter \/ EnterRefused \/ Return \/ CopyBackFails
    \/ OnHalt \/ HandleIo \/ HandleIoFails \/ OnMmio \/ OnAccessViolation
    \/ OnCancelled \/ OnUnknown \/ OnRetry

Next == Dispatch \/ GuestStep \/ LoopStep

Spec == Init /\ [][Next]_vars

-----------------------------------------------------------------------------
(* Properties *)

\* The kernel has an OUT to complete that the host has handled: the guest will
\* go on behind it although RIP still points at it.
OutHandled == driver = "kvm" /\ pio # 0 /\ pio = rip /\ exit.kind # "IoOut"

\* The guest as the trait Hypervisor shows it.
GuestPc == IF OutHandled THEN rip + 1 ELSE rip
SharedMem == IF driver = "whp" /\ at \in {"guest", "left"} THEN vmMem ELSE hostMem
Status == IF at \in {"idle", "failed"} THEN at ELSE "running"

Machine == INSTANCE GuestMachine WITH pc <- GuestPc, mem <- SharedMem, status <- Status

TypeOK ==
    /\ driver \in Drivers
    /\ rip \in 0..Len(Program) /\ pio \in 0..Len(Program)
    /\ hostMem \in Seq(Write) /\ vmMem \in Seq(Write)
    /\ at \in {"idle", "failed", "enter", "guest", "left", "exit"}
    /\ exit \in [kind : {"none", "Halt", "IoOut", "Mmio", "AccessViolation", "Cancelled",
                         "Unknown", "Retry"},
                 region : Regions \cup {"outside"},
                 access : {"none", "read", "write", "execute"}]
    /\ error \in {"none", "Run", "Handler", "StackOverflow", "Mmio", "MemoryAccessViolation",
                  "ExecutionCanceledByHost", "Unknown"}
    /\ calls \in 0..MaxCalls

AheadByStores(h, m) ==
    /\ Len(h) <= Len(m)
    /\ \A i \in 1..Len(h) : h[i] = m[i]
    /\ \A i \in 1..Len(m) : i > Len(h) => m[i][1] = "store"

\* What holds of the pending OUT, of the exit and of the two memories.
LoopOK ==
    /\ pio # 0 => driver = "kvm" /\ Program[pio] = "out"
    /\ at \notin {"idle", "failed"} => rip # 0
    /\ at = "idle" => rip = 0
    /\ at \in {"enter", "guest"} => exit.kind = "none"
    /\ at = "guest" => pio = 0
    /\ at = "left" /\ exit.kind # "IoOut" => pio = 0
    /\ at \in {"left", "exit"} /\ exit.kind = "IoOut" =>
           /\ Program[rip] = "out"
           /\ driver = "kvm" => pio = rip
    /\ at \in {"left", "exit"} /\ exit.kind = "Halt" => Program[rip] = "hlt" /\ pio = 0
    /\ driver = "whp" /\ at \in {"guest", "left"} =>
           AheadByStores(hostMem, vmMem)

\* Each of the three drivers runs a guest as GuestMachine says: no OUT is
\* handled twice or left out, whoever moves RIP, also when entries are retried,
\* cancelled or fail in between; the handler finds the guest's stores in memory
\* and the guest the handler's; a failed run loses no write of the host
\* (VirtualCPU::run, handle_io, the copies in HypervWindowsDriver::run).
ImplementsGuestMachine == Machine!Spec

\* A refused access to the page that guards the stack ends in StackOverflow,
\* whichever exit the hypervisor reports it with, and StackOverflow is reported
\* for nothing else but an access outside every region
\* (get_memory_access_violation, VirtualCPU::run).
GuardMeansOverflow ==
    at = "failed" =>
        /\ exit.region \in Regions /\ "stack_guard" \in Flags[exit.region]
               => error \in {"StackOverflow", "Run"}
        /\ error = "StackOverflow" /\ exit.region \in Regions
               => "stack_guard" \in Flags[exit.region]

\* No store of the guest reaches a region that is not writable, in the host's
\* memory or in the surrogate's, on any driver (the mapping of the regions).
OnlyWritableRegionsChange ==
    \A m \in {hostMem, vmMem} : \A i \in 1..Len(m) :
        m[i][1] = "store" => "write" \in Flags[m[i][3]]
=============================================================================
