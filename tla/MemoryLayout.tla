---------------------------- MODULE MemoryLayout ----------------------------
(***************************************************************************)
(* How the memory of a sandbox is laid out, filled and mapped before its   *)
(* guest runs.  Three computations have to agree: the offsets of           *)
(* SandboxMemoryLayout::new, the regions of get_memory_regions, and the    *)
(* size of the page tables, which is estimated before the layout is known  *)
(* and used after it.  The sandbox runs in a virtual machine, not in the   *)
(* host process.  Sizes and offsets are in bytes.                          *)
(***************************************************************************)
EXTENDS Integers, Sequences

CONSTANT Configs    \* the configurations: a set of records of sizes

Sizes == {"code", "stack", "heap", "hostFunctionDefinitions", "hostException",
          "guestError", "inputData", "outputData", "panicContext", "kernelStack"}

ASSUME ConfigsAssumption == Configs \subseteq [Sizes -> Nat]

PageSize == 4096
BaseAddress == 2097152                          \* 0x200000
AmountOfMemoryPerPt == 2097152
MaxMemorySize == 1073741824 - BaseAddress
PdptOffset == 4096
PdOffset == 8192
PtOffset == 12288
StackCookieLen == 16
StackPointerSize == 8

\* The fields of the PEB, all of 8 bytes, in order.
PebFields ==
    <<"security_cookie_seed", "guest_function_dispatch_ptr",
      "hostFunctionDetailsSize", "hostFunctionDetails", "hostExceptionSize",
      "guestErrorSize", "guestErrorBuffer", "pCode", "pOutb", "pOutbContext",
      "runMode", "inputDataSize", "inputDataBuffer", "outputDataSize",
      "outputDataBuffer", "guestPanicContextDataSize",
      "guestPanicContextDataBuffer", "guestHeapSize", "guestHeapBuffer",
      "minUserStackAddress", "userStackAddress", "kernelStackAddress",
      "bootStackAddress">>
PebSize == 184
StackDataOffset == 152
StackDataSize == 32

VARIABLES
    c,          \* the configuration of this sandbox
    pc,         \* the next step of its creation
    peb,        \* the values of the PEB fields that have been written
    written,    \* what the host has written where: a set of Put below
    regions,    \* the memory regions, by guest address
    tables,     \* the number of page tables filled in
    rsp         \* the initial stack pointer

vars == <<c, pc, peb, written, regions, tables, rsp>>

-----------------------------------------------------------------------------
(* The offsets.                                                            *)

\* Mutant: a multiple of the page size is rounded up, too.
RoundUpAlways(v) == (v \div PageSize + 1) * PageSize

RoundUp(v) == ((v + PageSize - 1) \div PageSize) * PageSize

\* get_total_page_table_size: estimated from the configured sizes.
PageTableSize(s) ==
    LET mapped ==
            RoundUp(s.code) + RoundUp(s.stack) + RoundUp(s.heap)
            + RoundUp(s.hostException) + RoundUp(s.hostFunctionDefinitions)
            + RoundUp(s.guestError) + RoundUp(s.inputData)
            + RoundUp(s.outputData) + RoundUp(s.panicContext) + RoundUp(PebSize)
            + BaseAddress + 3 * PageSize + 512 * PageSize
    IN (((mapped + AmountOfMemoryPerPt - 1) \div AmountOfMemoryPerPt) + 1 + 3)
       * PageSize

\* SandboxMemoryLayout::new.
Layout(s) ==
    LET code == PageTableSize(s)
        pebAt == code + RoundUp(s.code)
        hostFunctionDefinitions == RoundUp(pebAt + StackDataOffset + StackDataSize)
        hostException == RoundUp(hostFunctionDefinitions + s.hostFunctionDefinitions)
        guestError == RoundUp(hostException + s.hostException)
        inputData == RoundUp(guestError + s.guestError)
        outputData == RoundUp(inputData + s.inputData)
        panicContext == RoundUp(outputData + s.outputData)
        heap == RoundUp(panicContext + s.panicContext)
        guard == RoundUp(heap + s.heap)
        stack == guard + PageSize
        userGuard == stack + RoundUp(s.stack)
        kernelStack == userGuard + PageSize
        kernelGuard == kernelStack + RoundUp(s.kernelStack)
        bootStack == kernelGuard + PageSize
    IN [code |-> code, peb |-> pebAt,
        hostFunctionDefinitions |-> hostFunctionDefinitions,
        hostException |-> hostException, guestError |-> guestError,
        inputData |-> inputData, outputData |-> outputData,
        panicContext |-> panicContext, heap |-> heap, guard |-> guard,
        stack |-> stack, userGuard |-> userGuard, kernelStack |-> kernelStack,
        kernelGuard |-> kernelGuard, bootStack |-> bootStack]

\* get_memory_size, before it is compared with the maximum.
MemorySize(s) == RoundUp(Layout(s).bootStack + PageSize)

\* The regions get_memory_regions pushes, with their access flags and the
\* offset that must follow each of them.
Section(type, size, flags, next) ==
    [type |-> type, size |-> size, flags |-> flags, next |-> next]
RW == {"READ", "WRITE"}
Guard == {"READ", "STACK_GUARD"}
Sections(s) ==
    LET l == Layout(s) IN
    << Section("PageTables", l.code, RW, l.code),
       Section("Code", s.code, RW \cup {"EXECUTE"}, l.peb),
       Section("Peb", PebSize, RW, l.hostFunctionDefinitions),
       Section("HostFunctionDefinitions", s.hostFunctionDefinitions, {"READ"},
               l.hostException),
       Section("HostExceptionData", s.hostException, RW, l.guestError),
       Section("GuestErrorData", s.guestError, RW, l.inputData),
       Section("InputData", s.inputData, RW, l.outputData),
       Section("OutputData", s.outputData, RW, l.panicContext),
       Section("PanicContext", s.panicContext, RW, l.heap),
       Section("Heap", s.heap, RW, l.guard),
       Section("GuardPage", PageSize, Guard, l.stack),
       Section("Stack", RoundUp(s.stack), RW, l.stack + RoundUp(s.stack)),
       Section("GuardPage", PageSize, Guard, l.kernelStack),
       Section("KernelStack", RoundUp(s.kernelStack), RW, l.kernelGuard),
       Section("GuardPage", PageSize, Guard, l.bootStack),
       Section("BootStack", PageSize, RW, MemorySize(s)) >>

-----------------------------------------------------------------------------
(* Creating a sandbox.                                                     *)

NothingDone ==
    /\ pc = "load"
    /\ peb = [pCode |-> 0]
    /\ written = {}
    /\ regions = <<>>
    /\ tables = 0
    /\ rsp = 0

Init == c \in Configs /\ NothingDone

\* len bytes of data, which belong in a region of type what, at offset at.
Put(what, data, at, len) == [what |-> what, data |-> data, at |-> at, len |-> len]
FieldOffset(f) == 8 * ((CHOOSE i \in 1..Len(PebFields) : PebFields[i] = f) - 1)
Field(f) == Put("Peb", f, Layout(c).peb + FieldOffset(f), 8)

\* load_guest_binary: the memory is allocated, the code pointer is written
\* and the binary is copied behind the space for the page tables.
LoadTooBig ==
    /\ pc = "load" /\ MemorySize(c) > MaxMemorySize
    /\ pc' = "too_big"
    /\ UNCHANGED <<c, peb, written, regions, tables, rsp>>

Load ==
    /\ pc = "load" /\ MemorySize(c) <= MaxMemorySize
    /\ peb' = [pCode |-> BaseAddress + Layout(c).code]
    /\ written' = {Field("pCode"), Put("Code", "binary", Layout(c).code, c.code)}
    /\ pc' = "guard"
    /\ UNCHANGED <<c, regions, tables, rsp>>

\* set_stack_guard.
SetStackGuard ==
    /\ pc = "guard"
    /\ written' = written \cup {Put("Stack", "cookie", Layout(c).stack, StackCookieLen)}
    /\ pc' = "write"
    /\ UNCHANGED <<c, peb, regions, tables, rsp>>

\* SandboxMemoryLayout::write: the fields of the PEB but for those the guest
\* or the loader sets, and the stack pointers of the I/O buffers.
WriteLayout ==
    LET l == Layout(c)
        minUserStack == BaseAddress + MemorySize(c) - RoundUp(c.stack)
                        - RoundUp(c.kernelStack) - 3 * PageSize
        userStack == minUserStack + RoundUp(c.stack)
        kernelStack == userStack + PageSize + RoundUp(c.kernelStack)
        new == [pCode |-> peb.pCode,
                hostFunctionDetailsSize |-> c.hostFunctionDefinitions,
                hostFunctionDetails |-> BaseAddress + l.hostFunctionDefinitions,
                hostExceptionSize |-> c.hostException,
                guestErrorBuffer |-> BaseAddress + l.guestError,
                guestErrorSize |-> c.guestError,
                runMode |-> 1,
                inputDataSize |-> c.inputData,
                inputDataBuffer |-> BaseAddress + l.inputData,
                outputDataSize |-> c.outputData,
                outputDataBuffer |-> BaseAddress + l.outputData,
                guestPanicContextDataSize |-> c.panicContext,
                guestPanicContextDataBuffer |-> BaseAddress + l.panicContext,
                guestHeapSize |-> c.heap,
                guestHeapBuffer |-> BaseAddress + l.heap,
                minUserStackAddress |-> minUserStack,
                userStackAddress |-> userStack,
                kernelStackAddress |-> kernelStack,
                bootStackAddress |-> kernelStack + 2 * PageSize]
    IN
    /\ pc = "write"
    /\ peb' = new
    /\ written' = written
         \cup {Field(f) : f \in DOMAIN new \cup {"security_cookie_seed"}}
         \cup {Put("InputData", "sp", l.inputData, StackPointerSize),
               Put("OutputData", "sp", l.outputData, StackPointerSize)}
    /\ pc' = "functions"
    /\ UNCHANGED <<c, regions, tables, rsp>>

\* write_buffer_host_function_details: every registration of a host function
\* writes the list of all of them over the last one; this is the longest. A
\* list that does not fit the buffer fails, and the memory stays as it is.
RegisterHostFunctions(len) ==
    /\ pc = "functions" /\ len <= peb.hostFunctionDetailsSize
    /\ written' = written \cup
         {Put("HostFunctionDefinitions", "functions", Layout(c).hostFunctionDefinitions, len)}
    /\ pc' = "regions"
    /\ UNCHANGED <<c, peb, regions, tables, rsp>>

\* push_page_aligned, and the comparison of the offset it returns with the
\* offset of the layout.
PushRegion ==
    LET n == Len(regions) + 1
        s == Sections(c)[n]
        from == IF regions = <<>> THEN BaseAddress ELSE regions[Len(regions)].to
        to == from + RoundUp(s.size)
    IN
    /\ pc = "regions"
    /\ regions' = Append(regions,
         [type |-> s.type, from |-> from, to |-> to, flags |-> s.flags])
    /\ pc' = IF to - BaseAddress # s.next THEN "mismatch"
             ELSE IF n = Len(Sections(c)) THEN "paging"
             ELSE "regions"
    /\ UNCHANGED <<c, peb, written, tables, rsp>>

\* Mutant: the memory below the base address is not counted.
TablesNeededFromBase ==
    (MemorySize(c) + AmountOfMemoryPerPt - 1) \div AmountOfMemoryPerPt

\* set_up_shared_memory: the stack pointer, one entry each in the PML4 and
\* the PDPT, all 512 entries of the page directory, and then page table
\* after page table.
TablesNeeded ==
    ((MemorySize(c) + AmountOfMemoryPerPt - 1) \div AmountOfMemoryPerPt) + 1

\* Mutant: the stack pointer is the end of the stack.
WriteDirectoriesStackEnd ==
    /\ pc = "paging"
    /\ rsp' = Layout(c).stack + BaseAddress + RoundUp(c.stack)
    /\ written' = written \cup
         {Put("PageTables", "pml4", 0, 8), Put("PageTables", "pdpt", PdptOffset, 8),
          Put("PageTables", "pd", PdOffset, PageSize)}
    /\ pc' = "tables"
    /\ UNCHANGED <<c, peb, regions, tables>>

WriteDirectories ==
    /\ pc = "paging"
    /\ rsp' = Layout(c).stack + BaseAddress + RoundUp(c.stack) - 40
    /\ written' = written \cup
         {Put("PageTables", "pml4", 0, 8), Put("PageTables", "pdpt", PdptOffset, 8),
          Put("PageTables", "pd", PdOffset, PageSize)}
    /\ pc' = "tables"
    /\ UNCHANGED <<c, peb, regions, tables>>

\* Mutant: the tables are written from the page directory on.
WriteTableFromPd ==
    /\ pc = "tables"
    /\ written' = written \cup
         {Put("PageTables", "pt", PdOffset + tables * PageSize, PageSize)}
    /\ tables' = tables + 1
    /\ pc' = IF tables + 1 = TablesNeeded THEN "done" ELSE "tables"
    /\ UNCHANGED <<c, peb, regions, rsp>>

WriteTable ==
    /\ pc = "tables"
    /\ written' = written \cup
         {Put("PageTables", "pt", PtOffset + tables * PageSize, PageSize)}
    /\ tables' = tables + 1
    /\ pc' = IF tables + 1 = TablesNeeded THEN "done" ELSE "tables"
    /\ UNCHANGED <<c, peb, regions, rsp>>

Next ==
    \/ LoadTooBig \/ Load \/ SetStackGuard \/ WriteLayout
    \/ \E len \in {1, c.hostFunctionDefinitions} : RegisterHostFunctions(len)
    \/ PushRegion \/ WriteDirectories \/ WriteTable

Spec == Init /\ [][Next]_vars

-----------------------------------------------------------------------------
(* The entries of the page tables.                                         *)

\* binary_search_by over the regions: the index of the one that contains
\* the address, or 0.
BinarySearch(rs, addr) ==
    LET find[lo \in 1..(Len(rs) + 1), hi \in 1..(Len(rs) + 1)] ==
            LET mid == (lo + hi) \div 2 IN
            IF lo >= hi THEN 0
            ELSE IF rs[mid].from <= addr /\ addr < rs[mid].to THEN mid
            ELSE IF rs[mid].from > addr THEN find[lo, mid]
            ELSE find[mid + 1, hi]
    IN find[1, Len(rs) + 1]

\* The flags set_up_shared_memory gives a page by the type of its region.
PageFlags(type) ==
    CASE type = "Code" -> {"PRESENT", "RW", "USER"}
      [] type \in {"Stack", "Heap", "GuardPage"} -> {"PRESENT", "RW", "USER", "NX"}
      [] type \in {"HostFunctionDefinitions", "HostExceptionData"} -> {"PRESENT", "NX"}
      [] OTHER -> {"PRESENT", "RW", "NX"}

\* The page directory: all of its entries are present, and the one for the
\* i-th 2 MB leads to the table at this offset, filled in or not.
DirectoryEntries == 512
Directory(i) == PtOffset + i * PageSize
Filled(i) == Put("PageTables", "pt", Directory(i), PageSize) \in written

\* What a page walk for addr may find. Beyond the one entry of the PDPT nothing
\* is present. Where the directory leads to memory that was not filled in as a
\* table, the entry is whatever that memory holds: addr or another page, with
\* any flags.
Entries(addr) ==
    LET p == addr \div AmountOfMemoryPerPt
        i == BinarySearch(regions, addr)
    IN
    IF p >= DirectoryEntries THEN {[to |-> addr, flags |-> {}]}
    ELSE IF Filled(p)
    THEN {[to |-> addr,
           flags |-> IF p = 0 \/ i = 0 THEN {} ELSE PageFlags(regions[i].type)]}
    ELSE [to : {addr, addr + PageSize}, flags : SUBSET {"PRESENT", "RW", "USER", "NX"}]

-----------------------------------------------------------------------------
(* Properties.                                                             *)

Types == {"PageTables", "Code", "Peb", "HostFunctionDefinitions",
          "HostExceptionData", "GuestErrorData", "InputData", "OutputData",
          "PanicContext", "Heap", "GuardPage", "Stack", "KernelStack", "BootStack"}
Region == [type : Types, from : Nat, to : Nat,
           flags : SUBSET {"READ", "WRITE", "EXECUTE", "STACK_GUARD"}]
Data == {PebFields[i] : i \in 1..Len(PebFields)}
        \cup {"binary", "cookie", "sp", "functions", "pml4", "pdpt", "pd", "pt"}
Write == [what : Types, data : Data, at : Nat, len : Nat]

\* Regions, writes and counters have their types.
TypeOK ==
    /\ c \in Configs
    /\ pc \in {"load", "too_big", "guard", "write", "functions", "regions",
               "mismatch", "paging", "tables", "done"}
    /\ written \subseteq Write
    /\ regions \in Seq(Region)
    /\ tables \in Nat /\ rsp \in Int

\* The regions that are pushed one after the other, each rounded up by
\* itself, begin and end exactly where the layout, which rounds up sums of
\* offsets and sizes, says: none of the sixteen comparisons of
\* get_memory_regions ever fails, and the regions cover the memory.
RegionsAgree ==
    /\ pc # "mismatch"
    /\ \A i \in 1..Len(regions) : regions[i].to = BaseAddress + Sections(c)[i].next
    /\ pc \in {"paging", "tables", "done"} =>
          /\ Len(regions) = Len(Sections(c))
          /\ regions[Len(regions)].to = BaseAddress + MemorySize(c)

\* The largest kernel stack for which the estimate of the size of the page
\* tables is sure to suffice: the estimate leaves the kernel stack, the
\* guard pages and the boot stack out, but adds 2 MB for the page tables.
KernelStackLimit == AmountOfMemoryPerPt - 6 * PageSize

\* Everything the host writes while it creates a sandbox, page tables
\* included, lies in the region it is meant for, and no two writes touch the
\* same byte, if the kernel stack is not larger than the limit above.
NothingOverwritten ==
    c.kernelStack <= KernelStackLimit /\ pc = "done" =>
        /\ \A w \in written : \E i \in 1..Len(regions) :
              /\ regions[i].type = w.what
              /\ regions[i].from <= BaseAddress + w.at
              /\ BaseAddress + w.at + w.len <= regions[i].to
        /\ \A v, w \in written :
              v # w => v.at + v.len <= w.at \/ w.at + w.len <= v.at

\* The pointers and sizes in the PEB, computed from the offsets or backwards
\* from the end of memory, describe the mapped regions; the initial stack
\* pointer is in the user stack, 8 bytes off a multiple of 16.
PointersAgree ==
    pc = "done" =>
        LET at(i) == regions[i].from
            fits(ptr, size, i) == ptr = at(i) /\ ptr + size <= regions[i].to
        IN
        /\ peb.pCode = at(2)
        /\ fits(peb.hostFunctionDetails, peb.hostFunctionDetailsSize, 4)
        /\ peb.hostExceptionSize <= regions[5].to - at(5)
        /\ fits(peb.guestErrorBuffer, peb.guestErrorSize, 6)
        /\ fits(peb.inputDataBuffer, peb.inputDataSize, 7)
        /\ fits(peb.outputDataBuffer, peb.outputDataSize, 8)
        /\ fits(peb.guestPanicContextDataBuffer, peb.guestPanicContextDataSize, 9)
        /\ fits(peb.guestHeapBuffer, peb.guestHeapSize, 10)
        /\ peb.minUserStackAddress = at(12) /\ peb.userStackAddress = regions[12].to
        /\ peb.kernelStackAddress = regions[14].to
        /\ peb.bootStackAddress = regions[16].to
        /\ at(12) <= rsp /\ rsp < regions[12].to /\ rsp % 16 = 8

\* Pages at which a search or a table could go wrong: the first and the last
\* page of every region and the first page of every page table.
EdgePages ==
    {a \in UNION {{regions[i].from, regions[i].to - PageSize} : i \in 1..Len(regions)}
           \cup {p * AmountOfMemoryPerPt : p \in 1..(tables - 1)} :
        a < BaseAddress + MemorySize(c)}

\* Once the tables are written, a walk for any page of the memory, the last one
\* included, passes through a table that was filled in: the page translates to
\* itself, and is accessible no further than the mapping of its region is,
\* except that guard pages are left writable. Below the base address nothing is
\* present, and neither is anything behind the memory as far as the last table
\* that was filled in reaches, nor from 1 GB on. In between the page directory
\* leads to memory that is not a table, and nothing is promised.
PagesMapped ==
    pc = "done" =>
        LET end == BaseAddress + MemorySize(c)
            reach == tables * AmountOfMemoryPerPt
            behind == {a \in {end, reach - PageSize} : end <= a /\ a < reach}
        IN
        /\ \A a \in EdgePages : \E i \in 1..Len(regions) :
              LET r == regions[i] IN
              /\ r.from <= a /\ a < r.to
              /\ \A e \in Entries(a) :
                    /\ e.to = a /\ "PRESENT" \in e.flags
                    /\ "RW" \in e.flags => r.flags \cap {"WRITE", "STACK_GUARD"} # {}
                    /\ "NX" \in e.flags <=> "EXECUTE" \notin r.flags
        /\ \A a \in {0, BaseAddress - PageSize, MaxMemorySize + BaseAddress} \cup behind :
              \A e \in Entries(a) : "PRESENT" \notin e.flags

-----------------------------------------------------------------------------
(* What a comment says without conditions.                                 *)

\* get_total_page_table_size gives the total size of the page tables
\* required for the sandbox, whatever the configuration.
PageTablesSuffice ==
    \A w \in written : w.what = "PageTables" => w.at + w.len <= Layout(c).code

=============================================================================
