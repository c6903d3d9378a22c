--------------------------- MODULE MCMemoryLayout ---------------------------
(* Configurations and executables for GuestBinary: sizes just below, at    *)
(* and above page and page table boundaries, requests below the minimum or *)
(* left to the executable, memories that just fit or do not fit the 1 GB   *)
(* address space; files as linkers make them, and files with one defect.   *)
EXTENDS GuestBinary, SequencesExt

\* What a user asks for.
Config(stack, heap, kernelStack, io, err) ==
    set(set(set(set(set(set(default_configuration,
        "stack", stack), "heap", heap), "kernelStack", kernelStack),
        "inputData", io), "guestError", err), "outputData", 1)

Small ==
    {Config(stack, heap, kernelStack, io, err) :
        stack \in {0, 4096}, heap \in {0, 1, 4194304},
        kernelStack \in {0, KernelStackLimit}, io \in {8192, 16385}, err \in {0, 4096}}
Large ==
    {Config(65536, heap, 16384, 16384, 256) :
        heap \in {1069000000 + k * 4096 : k \in {90, 91, 500}}}
MCUserConfigs == Small \cup Large
MCBigKernelStack == {Config(65536, 131072, 8388608, 16384, 256)}

-----------------------------------------------------------------------------
(* A linker.  A cell of a program is a value or the address of a cell.     *)

V(v) == [ptr |-> FALSE, v |-> v]
P(at) == [ptr |-> TRUE, v |-> at]
Align == 2
Page == 4
Up(n) == ((n + Align - 1) \div Align) * Align
Zeroes(n) == [i \in 1..n |-> Zero]
Cells(at, ws) == {[at |-> at + i - 1, ptr |-> ws[i].ptr, v |-> ws[i].v] : i \in DOMAIN ws}
Stored(ws, base) ==
    [i \in DOMAIN ws |-> Word(IF ws[i].ptr THEN (base + ws[i].v) % AddressEnd ELSE ws[i].v)]
Padded(cells) == cells \o Zeroes(Up(Len(cells)) - Len(cells))
Sorted(S) == SetToSortSeq(S, LAMBDA a, b : a < b)

\* The relocation table, a block for each page, padded to an even size.
RelocTable(rvas, typ) ==
    LET pages == Sorted({r \div Page : r \in rvas})
        entries(p) == LET rs == Sorted({r \in rvas : r \div Page = p})
                      IN  [i \in DOMAIN rs |-> Entry16(typ, rs[i] % Page)]
        pad(p) == IF Len(entries(p)) % 2 = 0 THEN <<Entry16("ABSOLUTE", 0)>> ELSE <<>>
        block(p) == <<Block(Page * p, 1 + Len(entries(p)) + Len(pad(p)))>>
                    \o entries(p) \o pad(p)
    IN  FlattenSeq([i \in DOMAIN pages |-> block(pages[i])])

PeSection(name, vsize, va, raw, at) ==
    [name |-> name, virtual_size |-> vsize, virtual_address |-> va,
     size_of_raw_data |-> raw, pointer_to_raw_data |-> at]

\* A PE file: headers, .text, .data with bss cells of uninitialised data,
\* .pdata, and .reloc.  A section without raw data has no place in the file.
LinkPe(cell, text, data, bss, tail, base, typ) ==
    LET textAt == Align
        dataAt == textAt + Up(Len(text))
        tailAt == dataAt + Up(Len(data) + bss)
        relocAt == tailAt + Up(Len(tail))
        linked == Cells(textAt, text)
                  \cup Cells(dataAt, data \o [i \in 1..bss |-> V(0)])
                  \cup Cells(tailAt, tail)
        table == RelocTable({w.at : w \in {x \in linked : x.ptr}}, typ)
        body == Zeroes(Align) \o Padded(Stored(text, base)) \o Padded(Stored(data, base))
        rest == body \o Padded(Stored(tail, base))
    IN [kind |-> "PE", cell |-> cell, machine |-> "AMD64", is_64 |-> TRUE,
        characteristics |-> {"EXECUTABLE_IMAGE"},
        optional_header |->
           <<[dll_characteristics |-> {"DYNAMICBASE"}, section_alignment |-> Align,
              file_alignment |-> Align, image_base |-> base,
              address_of_entry_point |-> textAt,
              size_of_stack_reserve |-> 65535, size_of_heap_reserve |-> 131072]>>,
        sections |->
           <<PeSection(".text", Len(text), textAt, Up(Len(text)), textAt),
             PeSection(".data", Len(data) + bss, dataAt, Up(Len(data)),
                       IF data = <<>> THEN 0 ELSE dataAt),
             PeSection(".pdata", Len(tail), tailAt, Up(Len(tail)), Len(body)),
             PeSection(".reloc", Len(table), relocAt, Up(Len(table)), Len(rest))>>,
        payload |-> rest \o Padded(table),
        linked |-> linked, start |-> text[1],
        flat |-> IF data = <<>> /\ bss > 0 THEN 0 ELSE dataAt + Len(data) + bss]

\* An ELF file: a header of its own, text and data from address base on.
LinkElf(cell, text, data, bss, base, typ, addend) ==
    LET dataAt == base + Up(Len(text)) + Align
        linked == Cells(base, text) \cup Cells(dataAt, data \o [i \in 1..bss |-> V(0)])
        ptrs == SetToSeq({w \in linked : w.ptr})
        phdr(type, va, at, filesz, memsz) ==
            [p_type |-> type, p_vaddr |-> va, p_offset |-> at, p_filesz |-> filesz,
             p_memsz |-> memsz]
    IN [kind |-> "Elf", cell |-> cell, machine |-> "AMD64", is_64 |-> TRUE,
        characteristics |-> {}, optional_header |-> <<>>, sections |-> <<>>,
        phdrs |-> <<phdr("PT_NOTE", 0, 0, 1, 1),
                    phdr("PT_LOAD", base, 1, Len(text), Len(text)),
                    phdr("PT_LOAD", dataAt, 1 + Len(text), Len(data), Len(data) + bss)>>,
        entry |-> base,
        relocs |-> [i \in DOMAIN ptrs |->
                       [r_type |-> typ, r_offset |-> ptrs[i].at,
                        r_addend |-> IF addend THEN <<ptrs[i].v>> ELSE <<>>]],
        payload |-> <<Zero>> \o [i \in DOMAIN text |-> Word(IF text[i].ptr THEN 0 ELSE text[i].v)]
                    \o [i \in DOMAIN data |-> Word(IF data[i].ptr THEN 0 ELSE data[i].v)],
        linked |-> linked, start |-> text[1],
        flat |-> IF base = 0 THEN dataAt + Len(data) + bss ELSE 0]

-----------------------------------------------------------------------------
(* The executables.                                                        *)

\* Where most of the small memories have their code.
Preferred(cell) ==
    (BaseAddress + PageTableSize(LayoutSizes(Config(0, 0, 0, 8192, 0),
        [code |-> 4096, stack |-> 65535, heap |-> 131072]))) \div cell

Text == <<V(1), P(6), V(3)>>
GoodPe ==
    {LinkPe(8, Text, data, bss, tail, base, "DIR64") :
        data \in {<<V(5)>>, <<P(2), V(6), P(7)>>}, bss \in {0, 2, 3},
        tail \in {<<>>, <<P(2), V(7)>>}, base \in {0, 671088640, Preferred(8)}}
    \cup {LinkPe(cell, Text, <<V(5)>>, 2, <<>>, 0, "DIR64") : cell \in {409, 410, 262144}}
    \cup {LinkPe(8, <<V(1)>>, <<V(5)>>, 0, <<>>, 0, "DIR64")}
GoodElf ==
    {LinkElf(8, Text, data, bss, 0, "RELATIVE", TRUE) :
        data \in {<<>>, <<P(2), V(6), P(7)>>}, bss \in {0, 3}}

\* A sample, what is wrong with it in turn, and what does not fit the loader.
Pe == LinkPe(8, Text, <<V(5)>>, 2, <<V(7)>>, 0, "DIR64")
BadFiles ==
    {[Pe EXCEPT !.kind = "text"], [Pe EXCEPT !.machine = "I386"], [Pe EXCEPT !.is_64 = FALSE],
     [Pe EXCEPT !.characteristics = {}], [Pe EXCEPT !.optional_header = <<>>],
     [Pe EXCEPT !.optional_header[1].dll_characteristics = {}],
     [Pe EXCEPT !.optional_header[1].section_alignment = 1],
     [Pe EXCEPT !.characteristics = {"EXECUTABLE_IMAGE", "RELOCS_STRIPPED"}],
     [Pe EXCEPT !.sections[1].virtual_size = 9],
     [Pe EXCEPT !.sections[3] = [Pe.sections[2] EXCEPT !.virtual_size = 9]],
     [Pe EXCEPT !.payload = SubSeq(@, 1, Len(@) - 2)],
     LinkPe(8, Text, <<V(5)>>, 2, <<V(7)>>, 0, "HIGHLOW"),
     LinkPe(8, Text, <<>>, 2, <<V(7)>>, 0, "DIR64"),
     [LinkElf(8, Text, <<>>, 0, 0, "RELATIVE", TRUE) EXCEPT !.phdrs = <<Head(@)>>],
     LinkElf(8, Text, <<>>, 0, 0, "GLOB_DAT", TRUE),
     LinkElf(8, Text, <<>>, 0, 0, "RELATIVE", FALSE),
     LinkElf(8, Text, <<P(6)>>, 2, 4, "RELATIVE", TRUE)}

MCFiles == GoodPe \cup GoodElf \cup BadFiles
MCConfigs == {LayoutSizes(cfg, ExeSizes(f)) : cfg \in MCUserConfigs, f \in MCFiles}
MCOneFile == {LinkPe(8, Text, <<V(5)>>, 2, <<>>, 0, "DIR64")}
MCConfigsBigKernelStack == {LayoutSizes(cfg, ExeSizes(f)) : cfg \in MCBigKernelStack, f \in MCOneFile}

=============================================================================
