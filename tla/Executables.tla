----------------------------- MODULE Executables -----------------------------
(***************************************************************************)
(* What ExeInfo makes of a guest executable: a PE file is patched in place *)
(* and copied as it is, an ELF file is copied segment by segment and then  *)
(* patched.  A file is a sequence of cells, the first one at offset 0.     *)
(* Everything that has an offset takes one cell: a word of code or data, a *)
(* block header of the relocation table, an entry of the table.            *)
(***************************************************************************)
EXTENDS Integers, Sequences, FiniteSetsExt

\* Addresses wrap around at this one, which stands for 2^64.
AddressEnd == 1073741824

Word(v) == [k |-> "word", v |-> v]
Block(rva, size) == [k |-> "block", rva |-> rva, size |-> size]
Entry16(typ, off) == [k |-> "entry", typ |-> typ, off |-> off]
Zero == Word(0)

Ok(x) == [ok |-> TRUE, val |-> x]
Err == [ok |-> FALSE, why |-> "error"]
Panic == [ok |-> FALSE, why |-> "panic"]

\* The cell at offset at, and the cells of a file from one offset to another.
At(cells, at) == cells[at + 1]
Slice(cells, from, to) == SubSeq(cells, from + 1, to)

-----------------------------------------------------------------------------
(* PE files.                                                               *)

\* The sections whose virtual size exceeds what is on disk.
Short(pe) == {i \in DOMAIN pe.sections :
                 pe.sections[i].virtual_size > pe.sections[i].size_of_raw_data}

\* Those that PEInfo::new cannot deal with: it extends one .data section.
Unfit(pe) == {i \in Short(pe) :
                 pe.sections[i].name # ".data" \/ \E j \in Short(pe) : j < i}

\* The pointers of the sections behind .data once zeroes are inserted.
Moved(section, data) ==
    IF section.pointer_to_raw_data > data.pointer_to_raw_data
    THEN [section EXCEPT !.pointer_to_raw_data =
              @ + (data.virtual_size - data.size_of_raw_data)]
    ELSE section

\* Zeroes go where the raw data of the section ends.
Extended(payload, data) ==
    LET end == data.pointer_to_raw_data + data.size_of_raw_data IN
    Slice(payload, 0, end)
        \o [i \in 1..(data.virtual_size - data.size_of_raw_data) |-> Zero]
        \o Slice(payload, end, Len(payload))

\* The first section of this name, if there is one.
SectionNamed(sections, name) ==
    LET named == {i \in DOMAIN sections : sections[i].name = name} IN
    IF named = {} THEN <<>> ELSE <<sections[Min(named)]>>

\* PEInfo::new.  The header must say that the image is one of 64 bits that
\* can be executed and relocated, and that its sections are aligned in the
\* file as they are in memory.
PEInfoNew(file) ==
    LET header == file.optional_header[1]
        data == file.sections[Min(Short(file))]
        info(payload, sections) ==
            [kind |-> "PE", payload |-> payload, optional_header |-> header,
             reloc_section |-> SectionNamed(sections, ".reloc")]
    IN IF file.kind # "PE" \/ file.machine # "AMD64" \/ ~file.is_64
             \/ "EXECUTABLE_IMAGE" \notin file.characteristics
       THEN Err
       ELSE IF file.optional_header = <<>> THEN Panic
       ELSE IF "DYNAMICBASE" \notin header.dll_characteristics
             \/ header.section_alignment # header.file_alignment
             \/ "RELOCS_STRIPPED" \in file.characteristics
       THEN Err
       ELSE IF Unfit(file) # {}
       THEN IF file.sections[Min(Unfit(file))].name = ".data" THEN Panic ELSE Err
       ELSE IF Short(file) = {} THEN Ok(info(file.payload, file.sections))
       ELSE Ok(info(Extended(file.payload, data),
                    [i \in DOMAIN file.sections |-> Moved(file.sections[i], data)]))

\* get_base_relocations: the entries of the blocks, each with the address of
\* the page of its block, until as many cells as the section has are used
\* up.  A block that does not lie within the file ends the program.
GetBaseRelocations(payload, reloc_section) ==
    LET table == reloc_section[1]
        from[at \in 0..(Len(payload) + 1)] ==
            LET block == At(payload, at)
                entries == Slice(payload, at + 1, at + block.size)
                rs == [i \in DOMAIN entries |->
                          [typ |-> entries[i].typ, page_offset |-> entries[i].off,
                           page_base_rva |-> block.rva]]
                rest == from[at + block.size]
            IN IF at - table.pointer_to_raw_data >= table.virtual_size THEN Ok(<<>>)
               ELSE IF at >= Len(payload) \/ at + block.size > Len(payload) THEN Panic
               ELSE IF rest.ok THEN Ok(rs \o rest.val) ELSE rest
    IN IF reloc_section = <<>> THEN Ok(<<>>) ELSE from[table.pointer_to_raw_data]

\* What a cell holds when it is read as an address; no program is meant to
\* read the cells of the relocation table like that.
ReadAddress(cell) == IF cell.k = "word" THEN cell.v ELSE 0

\* Mutant: the difference saturates at zero.
SaturatingDiff(load_addr, image_base) ==
    IF load_addr < image_base THEN 0 ELSE load_addr - image_base

\* Negative differences are represented by wrapping around.
AddressDiff(load_addr, image_base) == (load_addr - image_base) % AddressEnd

\* get_exe_relocation_patches: what to write where to load the file at this
\* address.  The address of a word, relative to that of the image, is taken
\* for its offset in the payload.
GetExeRelocationPatches(pe, load_addr) ==
    LET diff == AddressDiff(load_addr, pe.optional_header.image_base)
        relocs == GetBaseRelocations(pe.payload, pe.reloc_section)
        used == SelectSeq(relocs.val, LAMBDA r : r.typ # "ABSOLUTE")
        offset(i) == used[i].page_base_rva + used[i].page_offset
    IN IF diff = 0 THEN Ok(<<>>)
       ELSE IF ~relocs.ok THEN relocs
       ELSE IF \E i \in DOMAIN used :
                   used[i].typ # "DIR64" \/ offset(i) >= Len(pe.payload)
       THEN Err
       ELSE Ok([i \in DOMAIN used |->
                   [offset |-> offset(i),
                    relocated_virtual_address |->
                        (ReadAddress(At(pe.payload, offset(i))) + diff) % AddressEnd]])

\* apply_relocation_patches.
ApplyRelocationPatches(payload, patches) ==
    [i \in DOMAIN payload |->
        LET of == {p \in DOMAIN patches : patches[p].offset = i - 1} IN
        IF of = {} THEN payload[i]
        ELSE Word(patches[Max(of)].relocated_virtual_address)]

-----------------------------------------------------------------------------
(* ELF files.                                                              *)

\* ElfInfo::new.
ElfInfoNew(file) ==
    LET loaded == SelectSeq(file.phdrs, LAMBDA h : h.p_type = "PT_LOAD") IN
    IF file.kind # "Elf" \/ loaded = <<>> THEN Err
    ELSE Ok([kind |-> "Elf", payload |-> file.payload, phdrs |-> loaded,
             entry |-> file.entry, relocs |-> file.relocs])

\* get_base_va and get_va_size: from the first segment to the last one.
BaseVa(elf) == elf.phdrs[1].p_vaddr
VaSize(elf) ==
    LET last == elf.phdrs[Len(elf.phdrs)]
    IN  last.p_vaddr + last.p_memsz - BaseVa(elf)

\* The segment whose cells end up at this offset of the target.
SegmentsAt(elf, at) ==
    {i \in DOMAIN elf.phdrs : LET h == elf.phdrs[i] IN
        at >= h.p_vaddr - BaseVa(elf) /\ at < h.p_vaddr - BaseVa(elf) + h.p_memsz}

\* load_at: the segments, with zeroes where they are longer in memory.
CopySegments(elf, target) ==
    [at \in DOMAIN target |->
        IF SegmentsAt(elf, at) = {} THEN target[at]
        ELSE LET h == elf.phdrs[Max(SegmentsAt(elf, at))]
                 i == at - (h.p_vaddr - BaseVa(elf))
             IN IF i < h.p_filesz THEN At(elf.payload, h.p_offset + i) ELSE Zero]

\* load_at: the relocations.  A word is found by its address as it is, which
\* is its offset in the target if the first segment is linked at 0.
RelocateElf(elf, load_addr, target) ==
    LET used == SelectSeq(elf.relocs, LAMBDA r : r.r_type # "NONE")
        of(at) == {i \in DOMAIN used : used[i].r_offset = at}
        wrong == {i \in DOMAIN used : used[i].r_type # "RELATIVE" \/ used[i].r_addend = <<>>}
        outside == {i \in DOMAIN used : used[i].r_offset \notin DOMAIN target}
    IN IF wrong \cup outside # {}
       THEN IF Min(wrong \cup outside) \in wrong THEN Err ELSE Panic
       ELSE Ok([at \in DOMAIN target |->
                   IF of(at) = {} THEN target[at]
                   ELSE Word(load_addr + used[Max(of(at))].r_addend[1])])

-----------------------------------------------------------------------------
(* Either.                                                                 *)

DEFAULT_ELF_STACK_RESERVE == 65536
DEFAULT_ELF_HEAP_RESERVE == 131072

\* from_buf.  A panic in PEInfo::new is not an error that ElfInfo::new gets
\* to see.
FromBuf(file) ==
    LET pe == PEInfoNew(file) IN
    IF pe.ok \/ pe.why = "panic" THEN pe ELSE ElfInfoNew(file)

stack_reserve(exe) ==
    IF exe.kind = "PE" THEN exe.optional_header.size_of_stack_reserve
    ELSE DEFAULT_ELF_STACK_RESERVE
heap_reserve(exe) ==
    IF exe.kind = "PE" THEN exe.optional_header.size_of_heap_reserve
    ELSE DEFAULT_ELF_HEAP_RESERVE
entrypoint(exe) ==
    IF exe.kind = "PE" THEN exe.optional_header.address_of_entry_point ELSE exe.entry
loaded_size(exe) == IF exe.kind = "PE" THEN Len(exe.payload) ELSE VaSize(exe)

\* load, into a target that is larger than the executable.
LoadExe(exe, load_addr, target) ==
    LET patches == GetExeRelocationPatches(exe, load_addr)
        payload == ApplyRelocationPatches(exe.payload, patches.val)
    IN IF exe.kind = "Elf" THEN RelocateElf(exe, load_addr, CopySegments(exe, target))
       ELSE IF ~patches.ok THEN patches
       ELSE Ok([at \in DOMAIN target |->
                   IF at < Len(payload) THEN At(payload, at) ELSE target[at]])

=============================================================================
