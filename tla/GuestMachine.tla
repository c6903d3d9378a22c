---------------------------- MODULE GuestMachine ----------------------------
(***************************************************************************)
(* What the trait Hypervisor promises whoever dispatches a call into a     *)
(* guest, whatever the driver behind it: the guest's instructions are      *)
(* carried out one after the other, each once, on one memory that guest    *)
(* and host share, until the guest halts or the run fails.                 *)
(*                                                                         *)
(* mem is the shared memory, as the sequence of the writes made to it: by  *)
(* the host for a new call, by a store of the guest, and by the host's     *)
(* handler of an OUT instruction.                                          *)
(***************************************************************************)
EXTENDS Naturals, Sequences

CONSTANTS Program,  \* the guest's instructions: "store", "out" and "hlt"
          Flags     \* the permissions of each region of the guest's memory

VARIABLES pc, mem, status

gmvars == << pc, mem, status >>

Regions == DOMAIN Flags

\* later holds what earlier holds, and then stores of the guest only.
OnlyStoresSince(earlier, later) ==
    /\ Len(earlier) <= Len(later)
    /\ \A i \in 1..Len(earlier) : earlier[i] = later[i]
    /\ \A i \in 1..Len(later) : i > Len(earlier) => later[i][1] = "store"

Init ==
    /\ pc = 0
    /\ mem = << >>
    /\ status = "idle"

\* The host writes a call into memory and has it dispatched.
Call ==
    /\ status \in {"idle", "failed"}
    /\ pc' = 1
    /\ mem' = Append(mem, << "call", 1, "host" >>)
    /\ status' = "running"

Store ==
    /\ status = "running" /\ Program[pc] = "store"
    /\ \E r \in Regions : /\ "write" \in Flags[r]
                          /\ mem' = Append(mem, << "store", pc, r >>)
    /\ pc' = pc + 1
    /\ UNCHANGED status

\* The host handles the OUT with the guest's memory before it, and the guest
\* goes on with the host's reply in memory.
Out ==
    /\ status = "running" /\ Program[pc] = "out"
    /\ mem' = Append(mem, << "out", pc, "host" >>)
    /\ pc' = pc + 1
    /\ UNCHANGED status

Halt ==
    /\ status = "running" /\ Program[pc] = "hlt"
    /\ status' = "idle"
    /\ pc' = 0
    /\ UNCHANGED mem

\* A run may fail anywhere: a fault, a cancellation, a handler's error, which
\* may come after the handler's writes. What a failed run may lose is stores
\* that the host has not seen, never a write of the host.
Fail ==
    /\ status = "running"
    /\ status' = "failed"
    /\ \/ OnlyStoresSince(mem', mem)
       \/ Program[pc] = "out" /\ mem' = Append(mem, << "out", pc, "host" >>)
    /\ UNCHANGED pc

Next == Call \/ Store \/ Out \/ Halt \/ Fail

Spec == Init /\ [][Next]_gmvars
=============================================================================
