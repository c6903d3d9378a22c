-------------------------- MODULE VirtualCpuProofs --------------------------
(***************************************************************************)
(* For every routine of the guest, every set of regions the layout makes   *)
(* and any number of calls, the three drivers implement GuestMachine, and  *)
(* an access to a stack guard is reported as a stack overflow.             *)
(*                                                                         *)
(* The refinement needs LoopOK: the OUT KVM has still to complete is one   *)
(* the routine contains, an exit describes the instruction RIP is at, and  *)
(* the surrogate's memory is ahead of the host's by stores only.           *)
(***************************************************************************)
EXTENDS VirtualCpu, TLAPS

USE ProgramAssumption, DriversAssumption, MaxCallsAssumption DEF Regions,
    KvmEnter, MshvEnter, WhpEnter, EnterGuest, LinuxReturn, WhpReturn,
    KvmHandleIo, MshvHandleIo, WhpHandleIo, CallOutb

Inv == TypeOK /\ LoopOK

-----------------------------------------------------------------------------
(* Sequences and records *)

LEMMA AppendFacts ==
    ASSUME NEW S, NEW s \in Seq(S), NEW x \in S
    PROVE  /\ Append(s, x) \in Seq(S)
           /\ Len(Append(s, x)) = Len(s) + 1
           /\ \A i \in 1..Len(s) : Append(s, x)[i] = s[i]
           /\ Append(s, x)[Len(s) + 1] = x
OBVIOUS

\* A memory is ahead of itself by no store, and a store keeps it ahead.
LEMMA Ahead ==
    ASSUME NEW m \in Seq(Write)
    PROVE  AheadByStores(m, m)
BY DEF AheadByStores

LEMMA AheadByStore ==
    ASSUME NEW h \in Seq(Write), NEW m \in Seq(Write),
           NEW w \in Write, w[1] = "store",
           AheadByStores(h, m)
    PROVE  AheadByStores(h, Append(m, w))
<1> DEFINE a == Append(m, w)
<1>1. /\ Len(a) = Len(m) + 1 /\ Len(m) \in Nat /\ Len(h) \in Nat
      /\ \A i \in 1..Len(m) : a[i] = m[i]
      /\ a[Len(m) + 1] = w
    BY AppendFacts
<1> HIDE DEF a
<1>2. /\ Len(h) <= Len(m)
      /\ \A i \in 1..Len(h) : h[i] = m[i]
      /\ \A i \in 1..Len(m) : i > Len(h) => m[i][1] = "store"
    BY DEF AheadByStores
<1>3. Len(h) <= Len(a) /\ \A i \in 1..Len(h) : h[i] = a[i]
    BY <1>1, <1>2
<1>4. ASSUME NEW i \in 1..Len(a), i > Len(h) PROVE a[i][1] = "store"
    BY <1>1, <1>2, <1>4
<1>5. AheadByStores(h, a)
    BY <1>3, <1>4 DEF AheadByStores
<1>6. QED BY <1>5 DEF a

\* The exits of the model.
LEMMA Exits ==
    /\ NoExit.kind = "none"
    /\ NoExit \in [kind : {"none", "Halt", "IoOut", "Mmio", "AccessViolation", "Cancelled",
                           "Unknown", "Retry"},
                   region : Regions \cup {"outside"},
                   access : {"none", "read", "write", "execute"}]
    /\ \A k \in {"Halt", "IoOut", "Cancelled", "Unknown", "Retry"} :
           /\ Exit(k).kind = k
           /\ Exit(k).region = "outside"
           /\ Exit(k) \in [kind : {"none", "Halt", "IoOut", "Mmio", "AccessViolation",
                                   "Cancelled", "Unknown", "Retry"},
                           region : Regions \cup {"outside"},
                           access : {"none", "read", "write", "execute"}]
BY DEF NoExit, Exit

-----------------------------------------------------------------------------
(* The invariant *)

LEMMA InvInit == Init => Inv
BY Exits DEF Init, Inv, TypeOK, LoopOK, NoExit

\* Each step keeps the types.
LEMMA TypeStep ==
    ASSUME TypeOK, LoopOK, [Next]_vars
    PROVE  TypeOK'
<1> USE DEF TypeOK
<1>1. CASE Dispatch
  <2>1. << "call", 1, "host" >> \in Write
    BY DEF Write
  <2>2. QED BY <1>1, <2>1, Exits, AppendFacts DEF Dispatch
<1>2. CASE Enter
  <2>1. pio # 0 /\ pio = rip => rip + 1 \in 0..Len(Program)
    BY <1>2 DEF LoopOK
  <2>2. QED BY <1>2, <2>1 DEF Enter
<1>3. CASE EnterRefused
    BY <1>3, Exits DEF EnterRefused
<1>4. CASE Return
    BY <1>4 DEF Return
<1>5. CASE CopyBackFails
    BY <1>5 DEF CopyBackFails
<1>6. ASSUME NEW r \in Regions, GuestStore(r) PROVE TypeOK'
  <2>1. rip \in 1..Len(Program) /\ rip # Len(Program)
    BY <1>6 DEF GuestStore, LoopOK
  <2>2. << "store", rip, r >> \in Write
    BY <2>1 DEF Write
  <2>3. ASSUME NEW m \in Seq(Write) PROVE Append(m, << "store", rip, r >>) \in Seq(Write)
    BY <2>2
  <2> DEFINE w == << "store", rip, r >>
  <2> HIDE DEF w
  <2>a. \/ hostMem' = Append(hostMem, w) /\ vmMem' = vmMem
        \/ vmMem' = Append(vmMem, w) /\ hostMem' = hostMem
    BY <1>6 DEF GuestStore, SetGuestMem, GuestMem, w
  <2>b. hostMem' \in Seq(Write) /\ vmMem' \in Seq(Write)
    BY <2>a, <2>3 DEF w
  <2>4. QED BY <1>6, <2>1, <2>b DEF GuestStore
<1>7. CASE GuestOut
    BY <1>7, Exits DEF GuestOut, Leave
<1>8. CASE GuestHalt
    BY <1>8, Exits DEF GuestHalt, Leave
<1>9. CASE GuestStopped
    BY <1>9, Exits DEF GuestStopped, Leave
<1>10. ASSUME NEW r \in Regions \cup {"outside"}, NEW a \in {"read", "write", "execute"},
              GuestFault(r, a)
       PROVE  TypeOK'
    BY <1>10 DEF GuestFault, Leave, FaultKind, KvmFaultKind, MshvFaultKind, WhpFaultKind, ViolationOrMmio, TypeOK
<1>11. CASE OnHalt
    BY <1>11 DEF OnHalt
<1>12. CASE HandleIo
  <2>1. rip \in 1..Len(Program) /\ rip # Len(Program)
    BY <1>12 DEF HandleIo, LoopOK
  <2>2. << "out", rip, "host" >> \in Write
    BY <2>1 DEF Write
  <2>3. Append(hostMem, << "out", rip, "host" >>) \in Seq(Write)
    BY <2>2
  <2>4. hostMem' = Append(hostMem, << "out", rip, "host" >>)
    BY <1>12 DEF HandleIo
  <2>5. QED BY <1>12, <2>1, <2>3, <2>4, Exits, SMTT(40) DEF HandleIo
<1>13. CASE HandleIoFails
  <2>1. << "out", rip, "host" >> \in Write
    BY DEF Write
  <2>2. Append(hostMem, << "out", rip, "host" >>) \in Seq(Write)
    BY <2>1
  <2>3. hostMem' \in Seq(Write)
    BY <1>13, <2>2 DEF HandleIoFails
  <2>4. QED BY <1>13, <2>3 DEF HandleIoFails
<1>14. CASE OnMmio \/ OnAccessViolation \/ OnCancelled \/ OnUnknown
    BY <1>14 DEF OnMmio, OnAccessViolation, OnCancelled, OnUnknown
<1>15. CASE OnRetry
    BY <1>15, Exits DEF OnRetry
<1>16. CASE UNCHANGED vars
    BY <1>16 DEF vars
<1>17. QED
    BY <1>1, <1>2, <1>3, <1>4, <1>5, <1>6, <1>7, <1>8, <1>9, <1>10, <1>11, <1>12, <1>13,
       <1>14, <1>15, <1>16 DEF Next, GuestStep, LoopStep

\* A store of the guest keeps the surrogate's memory ahead by stores.
LEMMA StoreStep ==
    ASSUME TypeOK, LoopOK, NEW r \in Regions, GuestStore(r)
    PROVE  /\ driver = "whp" => AheadByStores(hostMem', vmMem')
           /\ SharedMem' = Append(SharedMem, << "store", rip, r >>)
<1> DEFINE w == << "store", rip, r >>
<1>1. w \in Write /\ w[1] = "store"
    BY DEF Write, TypeOK
<1> HIDE DEF w
<1>2. /\ at = "guest" /\ at' = "guest" /\ driver' = driver
      /\ hostMem \in Seq(Write) /\ vmMem \in Seq(Write)
    BY DEF GuestStore, TypeOK
<1>3. CASE driver = "whp"
  <2>1. vmMem' = Append(vmMem, w) /\ hostMem' = hostMem
    BY <1>3 DEF GuestStore, SetGuestMem, GuestMem, w
  <2>2. AheadByStores(hostMem, vmMem)
    BY <1>2, <1>3 DEF LoopOK
  <2>3. AheadByStores(hostMem, Append(vmMem, w))
    BY <1>1, <1>2, <2>2, AheadByStore
  <2>4. QED BY <1>2, <1>3, <2>1, <2>3 DEF SharedMem, w
<1>4. CASE driver # "whp"
  <2>1. hostMem' = Append(hostMem, w)
    BY <1>4 DEF GuestStore, SetGuestMem, GuestMem, w
  <2>2. QED BY <1>2, <1>4, <2>1 DEF SharedMem, w
<1>5. QED BY <1>3, <1>4

\* Each step keeps the relations between RIP, the exit and the memories.
LEMMA LoopOKStep ==
    ASSUME TypeOK, LoopOK, [Next]_vars
    PROVE  LoopOK'
<1> USE DEF LoopOK
<1>1. CASE Dispatch
    BY <1>1, Exits DEF Dispatch, TypeOK
<1>2. CASE Enter
  <2>1. driver = "whp" => AheadByStores(hostMem', vmMem')
    BY <1>2, Ahead DEF Enter, TypeOK
  <2>2. QED BY <1>2, <2>1 DEF Enter, TypeOK
<1>3. CASE EnterRefused
    BY <1>3, Exits DEF EnterRefused, TypeOK
<1>4. CASE Return
    BY <1>4 DEF Return, TypeOK
<1>5. CASE CopyBackFails
    BY <1>5 DEF CopyBackFails, TypeOK
<1>6. ASSUME NEW r \in Regions, GuestStore(r) PROVE LoopOK'
  <2>1. driver = "whp" => AheadByStores(hostMem', vmMem')
    BY <1>6, StoreStep
  <2>2. QED BY <1>6, <2>1 DEF GuestStore, TypeOK
<1>7. CASE GuestOut
    BY <1>7, Exits DEF GuestOut, Leave, TypeOK
<1>8. CASE GuestHalt
    BY <1>8, Exits DEF GuestHalt, Leave, TypeOK
<1>9. CASE GuestStopped
    BY <1>9, Exits DEF GuestStopped, Leave, TypeOK
<1>10. ASSUME NEW r \in Regions \cup {"outside"}, NEW a \in {"read", "write", "execute"},
              GuestFault(r, a)
       PROVE  LoopOK'
  <2>1. exit'.kind \in {"Unknown", "Mmio", "AccessViolation"}
    BY <1>10 DEF GuestFault, Leave, FaultKind, KvmFaultKind, MshvFaultKind, WhpFaultKind, ViolationOrMmio, TypeOK
  <2>2. QED BY <1>10, <2>1 DEF GuestFault, Leave, TypeOK
<1>11. CASE OnHalt
    BY <1>11 DEF OnHalt, TypeOK
<1>12. CASE HandleIo
    BY <1>12, Exits DEF HandleIo, TypeOK
<1>13. CASE HandleIoFails
    BY <1>13 DEF HandleIoFails, TypeOK
<1>14. CASE OnMmio \/ OnAccessViolation \/ OnCancelled \/ OnUnknown
    BY <1>14 DEF OnMmio, OnAccessViolation, OnCancelled, OnUnknown, TypeOK
<1>15. CASE OnRetry
    BY <1>15, Exits DEF OnRetry, TypeOK
<1>16. CASE UNCHANGED vars
    BY <1>16 DEF vars
<1>17. QED
    BY <1>1, <1>2, <1>3, <1>4, <1>5, <1>6, <1>7, <1>8, <1>9, <1>10, <1>11, <1>12, <1>13,
       <1>14, <1>15, <1>16 DEF Next, GuestStep, LoopStep

\* TypeOK and LoopOK hold of every run of a guest.
THEOREM Invariance == Spec => [](TypeOK /\ LoopOK)
<1>1. Inv /\ [Next]_vars => Inv'
    BY TypeStep, LoopOKStep DEF Inv
<1>2. QED BY InvInit, <1>1, PTL DEF Spec, Inv

-----------------------------------------------------------------------------
(* The drivers implement GuestMachine *)

\* What a driver's mapping lets the guest write, the layout lets it write.
LEMMA WritableRegions ==
    ASSUME TypeOK, NEW r \in Regions, "write" \in Mapped(r)
    PROVE  "write" \in Flags[r]
BY RegionsAssumption DEF Mapped, KvmMapped, MshvMapped, WhpMapped, TypeOK

\* A step that leaves the guest where it is and its memory as it was.
LEMMA SameMachine ==
    ASSUME TypeOK, LoopOK,
           \/ Enter \/ Return \/ OnRetry \/ GuestOut \/ GuestHalt \/ GuestStopped
           \/ \E r \in Regions \cup {"outside"}, a \in {"read", "write", "execute"} :
                  GuestFault(r, a)
    PROVE  GuestPc' = GuestPc /\ SharedMem' = SharedMem /\ Status' = Status
<1> USE DEF GuestPc, SharedMem, Status, OutHandled, TypeOK, LoopOK
<1>1. CASE Enter
    BY <1>1 DEF Enter
<1>2. CASE Return
    BY <1>2 DEF Return
<1>3. CASE OnRetry
    BY <1>3, Exits DEF OnRetry
<1>4. CASE GuestOut
    BY <1>4, Exits DEF GuestOut, Leave
<1>5. CASE GuestHalt
    BY <1>5, Exits DEF GuestHalt, Leave
<1>6. CASE GuestStopped
    BY <1>6, Exits DEF GuestStopped, Leave
<1>7. ASSUME NEW r \in Regions \cup {"outside"}, NEW a \in {"read", "write", "execute"},
             GuestFault(r, a)
      PROVE  GuestPc' = GuestPc /\ SharedMem' = SharedMem /\ Status' = Status
    BY <1>7 DEF GuestFault, Leave
<1>8. QED BY <1>1, <1>2, <1>3, <1>4, <1>5, <1>6, <1>7

\* A run that ends badly with the host's memory as it is: what is lost is what
\* the surrogate's memory is ahead.
LEMMA FailMachine ==
    ASSUME TypeOK, LoopOK,
           at \in {"enter", "guest", "left", "exit"}, at' = "failed",
           driver' = driver, rip' = rip, pio' = pio, hostMem' = hostMem,
           exit'.kind = exit.kind
    PROVE  Machine!Fail
<1>1. GuestPc' = GuestPc
    BY DEF GuestPc, OutHandled
<1>2. Status = "running" /\ Status' = "failed"
    BY DEF Status
<1>3. SharedMem' = hostMem
    BY DEF SharedMem
<1>4. AheadByStores(hostMem, SharedMem)
    BY Ahead DEF SharedMem, LoopOK, TypeOK
<1>5. QED BY <1>1, <1>2, <1>3, <1>4 DEF Machine!Fail, Machine!OnlyStoresSince, AheadByStores

\* Every step of a driver is a step of the machine, or none.
LEMMA MachineStep ==
    ASSUME TypeOK, LoopOK, [Next]_vars
    PROVE  Machine!Next \/ UNCHANGED << GuestPc, SharedMem, Status >>
<1>1. CASE Dispatch
  <2>1. GuestPc' = 1
    BY <1>1 DEF Dispatch, GuestPc, OutHandled, LoopOK, TypeOK
  <2>2. Status \in {"idle", "failed"} /\ Status' = "running"
    BY <1>1 DEF Dispatch, Status
  <2>3. SharedMem' = Append(SharedMem, << "call", 1, "host" >>)
    BY <1>1 DEF Dispatch, SharedMem
  <2>4. QED BY <2>1, <2>2, <2>3 DEF Machine!Next, Machine!Call
<1>2. ASSUME NEW r \in Regions, GuestStore(r) PROVE Machine!Next
  <2>1. GuestPc = rip /\ GuestPc' = rip + 1
    BY <1>2 DEF GuestStore, GuestPc, OutHandled, LoopOK
  <2>2. Status = "running" /\ Status' = "running" /\ Program[rip] = "store"
    BY <1>2 DEF GuestStore, Status
  <2>3. "write" \in Flags[r]
    BY <1>2, WritableRegions DEF GuestStore
  <2>4. SharedMem' = Append(SharedMem, << "store", GuestPc, r >>)
    BY <1>2, <2>1, StoreStep
  <2>5. QED BY <2>1, <2>2, <2>3, <2>4 DEF Machine!Next, Machine!Store, Machine!Regions
<1>3. CASE HandleIo
  <2>1. GuestPc = rip /\ GuestPc' = rip + 1
    BY <1>3, Exits DEF HandleIo, GuestPc, OutHandled, LoopOK, TypeOK
  <2>2. Status = "running" /\ Status' = "running" /\ Program[rip] = "out"
    BY <1>3 DEF HandleIo, Status, LoopOK
  <2>3. SharedMem' = Append(SharedMem, << "out", GuestPc, "host" >>)
    BY <1>3, <2>1 DEF HandleIo, SharedMem
  <2>4. QED BY <2>1, <2>2, <2>3 DEF Machine!Next, Machine!Out
<1>4. CASE HandleIoFails
  <2>1. GuestPc = rip /\ GuestPc' = rip
    BY <1>4 DEF HandleIoFails, GuestPc, OutHandled, LoopOK, TypeOK
  <2>2. Status = "running" /\ Status' = "failed" /\ Program[rip] = "out"
    BY <1>4 DEF HandleIoFails, Status, LoopOK
  <2>3. SharedMem = hostMem /\ SharedMem' = hostMem'
    BY <1>4 DEF HandleIoFails, SharedMem
  <2>4. AheadByStores(hostMem, hostMem)
    BY Ahead DEF TypeOK
  <2>5. \/ hostMem' = hostMem
        \/ hostMem' = Append(hostMem, << "out", rip, "host" >>)
    BY <1>4 DEF HandleIoFails
  <2>6. Machine!Fail
    BY <2>1, <2>2, <2>3, <2>4, <2>5
    DEF Machine!Fail, Machine!OnlyStoresSince, AheadByStores
  <2>7. QED BY <2>6 DEF Machine!Next
<1>5. CASE OnHalt
  <2>1. CASE at' = "idle"
    <3>1. GuestPc = rip /\ GuestPc' = 0
      BY <1>5, <2>1 DEF OnHalt, GuestPc, OutHandled, LoopOK, TypeOK
    <3>2. Status = "running" /\ Status' = "idle" /\ Program[rip] = "hlt"
      BY <1>5, <2>1 DEF OnHalt, Status, LoopOK
    <3>3. SharedMem' = SharedMem
      BY <1>5, <2>1 DEF OnHalt, SharedMem
    <3>4. QED BY <3>1, <3>2, <3>3 DEF Machine!Next, Machine!Halt
  <2>2. CASE at' # "idle"
    BY <1>5, <2>2, FailMachine DEF OnHalt, Machine!Next
  <2>3. QED BY <2>1, <2>2
<1>6. CASE EnterRefused
  <2>1. CASE at' = "failed"
    BY <1>6, <2>1, FailMachine, Exits DEF EnterRefused, Machine!Next, LoopOK
  <2>2. CASE at' # "failed"
    BY <1>6, <2>2, Exits
    DEF EnterRefused, GuestPc, SharedMem, Status, OutHandled, LoopOK
  <2>3. QED BY <2>1, <2>2
<1>7. CASE CopyBackFails
    BY <1>7, FailMachine DEF CopyBackFails, Machine!Next
<1>8. CASE OnMmio \/ OnAccessViolation \/ OnCancelled \/ OnUnknown
    BY <1>8, FailMachine DEF OnMmio, OnAccessViolation, OnCancelled, OnUnknown, Machine!Next
<1>9. CASE \/ Enter \/ Return \/ OnRetry \/ GuestOut \/ GuestHalt \/ GuestStopped
           \/ \E r \in Regions \cup {"outside"}, a \in {"read", "write", "execute"} :
                  GuestFault(r, a)
    BY <1>9, SameMachine
<1>10. CASE UNCHANGED vars
    BY <1>10 DEF vars, GuestPc, SharedMem, Status, OutHandled
<1>11. QED
    BY <1>1, <1>2, <1>3, <1>4, <1>5, <1>6, <1>7, <1>8, <1>9, <1>10
    DEF Next, GuestStep, LoopStep

\* Every driver implements GuestMachine, whatever the guest's routine, the
\* regions of its memory and the number of calls.
THEOREM Refinement == Spec => ImplementsGuestMachine
<1>1. Init => Machine!Init
    BY DEF Init, Machine!Init, GuestPc, SharedMem, Status, OutHandled
<1>2. TypeOK /\ LoopOK /\ [Next]_vars => [Machine!Next]_(Machine!gmvars)
    BY MachineStep DEF Machine!gmvars
<1>3. QED BY Invariance, <1>1, <1>2, PTL DEF Spec, ImplementsGuestMachine, Machine!Spec

-----------------------------------------------------------------------------
(* Faults and permissions *)

\* An exit that names a region is an access violation in it.
ExitsNameViolations == exit.region \in Regions => exit.kind = "AccessViolation"

LEMMA FaultStep ==
    ASSUME TypeOK, LoopOK, ExitsNameViolations, GuardMeansOverflow, [Next]_vars
    PROVE  ExitsNameViolations' /\ GuardMeansOverflow'
<1> USE RegionsAssumption DEF ExitsNameViolations, GuardMeansOverflow
<1>1. CASE Dispatch
    BY <1>1, Exits DEF Dispatch, NoExit
<1>2. CASE EnterRefused
    BY <1>2, Exits DEF EnterRefused, NoExit
<1>3. ASSUME NEW r \in Regions \cup {"outside"}, NEW a \in {"read", "write", "execute"},
             GuestFault(r, a)
      PROVE  ExitsNameViolations' /\ GuardMeansOverflow'
  <2>1. at' = "left" /\ exit'.region = r /\ exit'.kind = FaultKind(r, a)
    BY <1>3 DEF GuestFault, Leave
  <2>2. ASSUME r \in Regions PROVE FaultKind(r, a) = "AccessViolation"
    BY <1>3, <2>2 DEF GuestFault, FaultKind, KvmFaultKind, MshvFaultKind, WhpFaultKind,
        ViolationOrMmio, Violation, Mapped, KvmMapped, MshvMapped, WhpMapped, TypeOK
  <2>3. QED BY <2>1, <2>2
<1>4. CASE OnAccessViolation
    BY <1>4 DEF OnAccessViolation
<1>5. CASE HandleIoFails \/ OnMmio \/ OnCancelled \/ OnUnknown \/ OnHalt \/ CopyBackFails
    BY <1>5 DEF HandleIoFails, OnMmio, OnCancelled, OnUnknown, OnHalt, CopyBackFails
<1>6. CASE HandleIo \/ OnRetry
    BY <1>6, Exits DEF HandleIo, OnRetry, NoExit
<1>7. CASE GuestOut \/ GuestHalt \/ GuestStopped
    BY <1>7, Exits DEF GuestOut, GuestHalt, GuestStopped, Leave
<1>8. CASE Enter \/ Return \/ \E r \in Regions : GuestStore(r)
    BY <1>8 DEF Enter, Return, GuestStore
<1>9. CASE UNCHANGED vars
    BY <1>9 DEF vars
<1>10. QED
    BY <1>1, <1>2, <1>3, <1>4, <1>5, <1>6, <1>7, <1>8, <1>9 DEF Next, GuestStep, LoopStep

\* An access to a stack's guard is reported as a stack overflow, and no access
\* to another region is.
THEOREM StackOverflowReported == Spec => []GuardMeansOverflow
<1>1. Init => ExitsNameViolations /\ GuardMeansOverflow
    BY RegionsAssumption DEF Init, NoExit, ExitsNameViolations, GuardMeansOverflow
<1>2. QED BY Invariance, <1>1, FaultStep, PTL DEF Spec

\* Memory without a store to a region that cannot be written.
Permitted(m) == \A i \in 1..Len(m) : m[i][1] = "store" => "write" \in Flags[m[i][3]]

LEMMA AppendPermitted ==
    ASSUME NEW m \in Seq(Write), Permitted(m), NEW w \in Write,
           w[1] = "store" => "write" \in Flags[w[3]]
    PROVE  Permitted(Append(m, w))
<1> DEFINE a == Append(m, w)
<1>1. /\ Len(a) = Len(m) + 1 /\ Len(m) \in Nat
      /\ \A i \in 1..Len(m) : a[i] = m[i]
      /\ a[Len(m) + 1] = w
    BY AppendFacts
<1> HIDE DEF a
<1>2. Permitted(a)
    BY <1>1 DEF Permitted
<1>3. QED BY <1>2 DEF a

LEMMA PermittedStep ==
    ASSUME TypeOK, LoopOK, Permitted(hostMem), Permitted(vmMem), [Next]_vars
    PROVE  Permitted(hostMem') /\ Permitted(vmMem')
<1> USE DEF TypeOK
<1>1. ASSUME NEW n \in Nat, NEW k \in {"call", "out"}
      PROVE  Permitted(Append(hostMem, << k, n, "host" >>))
  <2> DEFINE w == << k, n, "host" >>
  <2>1. w \in Write /\ w[1] # "store"
    BY DEF Write
  <2> HIDE DEF w
  <2>2. Permitted(Append(hostMem, w))
    BY <2>1, AppendPermitted
  <2>3. QED BY <2>2 DEF w
<1>2. CASE Dispatch
    BY <1>1, <1>2 DEF Dispatch
<1>3. CASE HandleIo \/ HandleIoFails
  <2>1. rip \in Nat
    OBVIOUS
  <2>a. Permitted(Append(hostMem, << "out", rip, "host" >>))
    BY <1>1, <2>1, Zenon
  <2>2. hostMem' = hostMem \/ hostMem' = Append(hostMem, << "out", rip, "host" >>)
    BY <1>3 DEF HandleIo, HandleIoFails
  <2>3. vmMem' = vmMem
    BY <1>3 DEF HandleIo, HandleIoFails
  <2>4. QED BY <2>a, <2>2, <2>3
<1>4. ASSUME NEW r \in Regions, GuestStore(r)
      PROVE  Permitted(hostMem') /\ Permitted(vmMem')
  <2> DEFINE w == << "store", rip, r >>
  <2>1. w \in Write /\ "write" \in Flags[w[3]]
    BY <1>4, WritableRegions DEF Write, GuestStore
  <2> HIDE DEF w
  <2>2. Permitted(Append(hostMem, w)) /\ Permitted(Append(vmMem, w))
    BY <2>1, AppendPermitted
  <2>3. \/ hostMem' = Append(hostMem, w) /\ vmMem' = vmMem
        \/ vmMem' = Append(vmMem, w) /\ hostMem' = hostMem
    BY <1>4 DEF GuestStore, SetGuestMem, GuestMem, w
  <2>4. QED BY <2>2, <2>3
<1>5. CASE Enter \/ Return \/ EnterRefused
    BY <1>5 DEF Enter, Return, EnterRefused
<1>6. CASE CopyBackFails \/ OnHalt \/ OnMmio \/ OnAccessViolation \/ OnCancelled \/ OnUnknown
           \/ OnRetry
    BY <1>6 DEF CopyBackFails, OnHalt, OnMmio, OnAccessViolation, OnCancelled, OnUnknown, OnRetry
<1>7. CASE \/ GuestOut \/ GuestHalt \/ GuestStopped
           \/ \E r \in Regions \cup {"outside"}, a \in {"read", "write", "execute"} :
                  GuestFault(r, a)
    BY <1>7 DEF GuestOut, GuestHalt, GuestStopped, GuestFault, Leave
<1>8. CASE UNCHANGED vars
    BY <1>8 DEF vars
<1>9. QED
    BY <1>2, <1>3, <1>4, <1>5, <1>6, <1>7, <1>8 DEF Next, GuestStep, LoopStep

\* The guest writes to no region the layout makes read-only.
THEOREM WriteProtection == Spec => []OnlyWritableRegionsChange
<1>1. Init => Permitted(hostMem) /\ Permitted(vmMem)
    BY DEF Init, Permitted
<1>2. Permitted(hostMem) /\ Permitted(vmMem) => OnlyWritableRegionsChange
    BY DEF Permitted, OnlyWritableRegionsChange
<1>3. TypeOK /\ LoopOK /\ Permitted(hostMem) /\ Permitted(vmMem) /\ [Next]_vars
          => Permitted(hostMem)' /\ Permitted(vmMem)'
    BY PermittedStep DEF Permitted
<1>4. QED BY Invariance, <1>1, <1>2, <1>3, PTL DEF Spec
=============================================================================
