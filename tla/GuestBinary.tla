---------------------------- MODULE GuestBinary ----------------------------
(***************************************************************************)
(* From an executable to a virtual machine: the file is parsed, the layout *)
(* is made for its size and its stack and heap, the binary is loaded and   *)
(* relocated at the address the layout has for it, and, once memory is     *)
(* filled and mapped as MemoryLayout has it, the virtual CPU gets the      *)
(* addresses it starts from.                                               *)
(***************************************************************************)
EXTENDS MemoryLayout, SandboxConfiguration, Executables

CONSTANTS
    Files,          \* executables, with what their linker meant them to be
    UserConfigs     \* what users ask for

VARIABLES
    file,       \* the executable
    stage,      \* how far it is: "buffer", "parsed", "loaded", "vm", or why it is not
    image,      \* the cells of memory from the start of the code on
    vm          \* the registers the virtual machine is created with, if there is one

binary_vars == <<file, stage, image, vm>>

Exe == FromBuf(file).val

\* Sizes in a file are in cells of so many bytes.
ExeSizes(f) ==
    LET exe == FromBuf(f) IN
    IF exe.ok
    THEN [code |-> f.cell * loaded_size(exe.val), stack |-> stack_reserve(exe.val),
          heap |-> heap_reserve(exe.val)]
    ELSE [code |-> 0, stack |-> 0, heap |-> 0]
ASSUME SizesAssumption ==
    {LayoutSizes(cfg, ExeSizes(f)) : cfg \in UserConfigs, f \in Files} \subseteq Configs

LoadAddr == BaseAddress + Layout(c).code

\* The cells behind those of the binary that a run looks at.
Beyond == 8

\* The layout is only looked at if there is an executable to load.
GInit ==
    /\ file \in Files
    /\ \E cfg \in UserConfigs : c = LayoutSizes(cfg, ExeSizes(file))
    /\ NothingDone
    /\ stage = "buffer"
    /\ image = [at \in 0..(c.code \div file.cell + Beyond - 1) |-> Zero]
    /\ vm = <<>>

\* ExeInfo::from_buf.
Parse ==
    /\ stage = "buffer"
    /\ stage' = IF FromBuf(file).ok THEN "parsed" ELSE FromBuf(file).why
    /\ UNCHANGED <<vars, file, image, vm>>

Loaded == LoadExe(Exe, LoadAddr \div file.cell, image)

\* load_guest_binary_into_memory, in a virtual machine.
TooBig ==
    /\ stage = "parsed" /\ LoadTooBig
    /\ stage' = "error"
    /\ UNCHANGED <<file, image, vm>>

LoadBinary ==
    /\ stage = "parsed" /\ Loaded.ok
    /\ Load
    /\ image' = Loaded.val
    /\ stage' = "loaded"
    /\ UNCHANGED <<file, vm>>

LoadBinaryFails ==
    /\ stage = "parsed" /\ pc = "load" /\ MemorySize(c) <= MaxMemorySize
    /\ ~Loaded.ok
    /\ stage' = Loaded.why
    /\ UNCHANGED <<vars, file, image, vm>>

\* The rest of what MemoryLayout does to the memory.
FillMemory ==
    /\ stage = "loaded"
    /\ \/ SetStackGuard \/ WriteLayout
       \/ \E len \in {1, c.hostFunctionDefinitions} : RegisterHostFunctions(len)
       \/ PushRegion \/ WriteDirectories \/ WriteTable
    /\ UNCHANGED binary_vars

\* Ptr::from_raw_ptr and Ptr::absolute, in the guest's address space.
FromRawPtr(raw) == IF raw < BaseAddress THEN Err ELSE Ok(raw - BaseAddress)
Absolute(ptr) == IF BaseAddress + ptr < AddressEnd THEN Ok(BaseAddress + ptr) ELSE Err

\* Mutant: the entry point is taken relative to the memory.
EntrypointInMemory == FromRawPtr(BaseAddress + file.cell * entrypoint(Exe))

\* set_up_hypervisor_partition: the pointers, and what is checked of them.
EntrypointPtr == FromRawPtr(LoadAddr + file.cell * entrypoint(Exe))
Pml4Ptr == 0
PointersFit ==
    /\ EntrypointPtr.ok /\ FromRawPtr(rsp).ok
    /\ EntrypointPtr.val > Pml4Ptr
    /\ Absolute(EntrypointPtr.val).ok

CreateVm ==
    /\ stage = "loaded" /\ pc = "done" /\ PointersFit
    /\ vm' = <<[rip |-> Absolute(EntrypointPtr.val).val,
                rsp |-> Absolute(FromRawPtr(rsp).val).val,
                cr3 |-> Absolute(Pml4Ptr).val]>>
    /\ stage' = "vm"
    /\ UNCHANGED <<vars, file, image>>

\* There is no hypervisor, it refuses one of the requests, or the pointers
\* do not fit.
CreateVmFails ==
    /\ stage = "loaded" /\ pc = "done"
    /\ stage' = "error"
    /\ UNCHANGED <<vars, file, image, vm>>

GNext ==
    \/ Parse \/ TooBig \/ LoadBinary \/ LoadBinaryFails \/ FillMemory
    \/ CreateVm \/ CreateVmFails

GSpec == GInit /\ [][GNext]_<<vars, binary_vars>>

-----------------------------------------------------------------------------
(* Properties.  file.linked has the cells of the program as its linker     *)
(* placed them: where a cell goes, relative to the image, and whether it   *)
(* is the address of another one.  Those below file.flat a loader like     *)
(* this one can get right: in a PE file those up to the end of .data, if   *)
(* that section has raw data, in an ELF file all of them, if the first     *)
(* segment is linked at 0.                                                 *)

AsLinked(w) ==
    Word(IF w.ptr THEN LoadAddr \div file.cell + w.v ELSE w.v)

\* A binary that is loaded is, cell by cell, what its linker made of it,
\* with every address in it relocated to the place it is loaded at, zeroes
\* where the program has uninitialised data, and nothing of it behind the
\* room the layout has left for the code, however the sections and segments
\* are stored in the file and wherever they prefer to be loaded.
LoadedAsLinked ==
    stage \in {"loaded", "vm"} =>
        /\ \A w \in file.linked : w.at < file.flat =>
              w.at < c.code \div file.cell /\ image[w.at] = AsLinked(w)
        /\ file.flat > 0 => \A at \in DOMAIN image :
              at >= c.code \div file.cell => image[at] = Zero

\* The virtual CPU starts at the program's entry point, on a page that the
\* page tables and the regions both let it execute, with its stack pointer
\* in the user stack and its page tables where they have been written.
VmStartsInPlace ==
    stage = "vm" =>
        LET start == vm[1]
            in(addr, type) == \E i \in DOMAIN regions :
                /\ regions[i].type = type
                /\ regions[i].from <= addr /\ addr < regions[i].to
        IN
        /\ file.flat > 0 =>
              /\ in(start.rip, "Code")
              /\ image[(start.rip - LoadAddr) \div file.cell] = AsLinked(file.start)
              /\ \A e \in Entries(PageSize * (start.rip \div PageSize)) :
                    "PRESENT" \in e.flags /\ "NX" \notin e.flags
        /\ in(start.rsp, "Stack")
        /\ \E w \in written : w.data = "pml4" /\ BaseAddress + w.at = start.cr3

=============================================================================
