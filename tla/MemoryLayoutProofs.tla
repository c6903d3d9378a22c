------------------------- MODULE MemoryLayoutProofs -------------------------
(***************************************************************************)
(* Proofs about the memory of a sandbox, for every configuration.          *)
(***************************************************************************)
EXTENDS MemoryLayout, SequenceTheorems, TLAPS

-----------------------------------------------------------------------------
(* Rounding.                                                               *)

\* Rounding up yields a multiple of the page size that is not smaller, and
\* less than a page larger; it commutes with adding to a multiple.
LEMMA RoundUpFacts ==
    /\ \A v \in Nat : /\ RoundUp(v) \in Nat /\ RoundUp(v) % PageSize = 0
                      /\ v <= RoundUp(v) /\ RoundUp(v) < v + PageSize
    /\ \A u, v \in Nat : u % PageSize = 0 => RoundUp(u + v) = u + RoundUp(v)
    /\ \A u, v \in Nat : u % PageSize = 0 /\ v % PageSize = 0 => (u + v) % PageSize = 0
    /\ RoundUp(PageSize) = PageSize
<1> USE DEF PageSize
<1>1. \A v \in Nat : /\ RoundUp(v) \in Nat /\ RoundUp(v) % PageSize = 0
                     /\ v <= RoundUp(v) /\ RoundUp(v) < v + PageSize
    BY DEF RoundUp
<1>2. \A u, v \in Nat : u % PageSize = 0 => RoundUp(u + v) = u + RoundUp(v)
    BY DEF RoundUp
<1>3. \A u, v \in Nat : u % PageSize = 0 /\ v % PageSize = 0 => (u + v) % PageSize = 0
    OBVIOUS
<1>4. RoundUp(PageSize) = PageSize
    BY DEF RoundUp
<1>5. QED BY <1>1, <1>2, <1>3, <1>4

\* A multiple of the page size.
Aligned(v) == v \in Nat /\ v % PageSize = 0

\* The next offset, for the three ways in which the layout computes it.
LEMMA NextOffset ==
    ASSUME NEW u, Aligned(u), NEW v \in Nat
    PROVE  /\ u \in Nat
           /\ Aligned(RoundUp(u + v)) /\ RoundUp(u + v) = u + RoundUp(v)
           /\ Aligned(u + RoundUp(v)) /\ RoundUp(v) \in Nat
           /\ Aligned(u + PageSize) /\ RoundUp(u + PageSize) = u + PageSize
<1> PageSize \in Nat /\ PageSize % PageSize = 0 /\ u \in Nat /\ u % PageSize = 0
    BY DEF PageSize, Aligned
<1>1. RoundUp(u + v) = u + RoundUp(v) /\ RoundUp(v) \in Nat /\ RoundUp(v) % PageSize = 0
    BY RoundUpFacts
<1>2. (u + RoundUp(v)) % PageSize = 0 /\ u + RoundUp(v) \in Nat
    <2> DEFINE w == RoundUp(v)
    <2>1. w \in Nat /\ w % PageSize = 0
        BY <1>1
    <2> HIDE DEF w
    <2>2. (u + w) % PageSize = 0 /\ u + w \in Nat
        BY <2>1 DEF PageSize
    <2>3. QED BY <2>2 DEF w
<1>3. (u + PageSize) % PageSize = 0 /\ u + PageSize \in Nat
    BY RoundUpFacts
<1>4. RoundUp(u + PageSize) = u + PageSize
    BY RoundUpFacts
<1>5. QED BY <1>1, <1>2, <1>3, <1>4 DEF Aligned

LEMMA RoundedNext ==
    ASSUME NEW u, Aligned(u), NEW v \in Nat, NEW w, w = RoundUp(u + v)
    PROVE  Aligned(w) /\ w = u + RoundUp(v)
BY NextOffset

LEMMA AddedNext ==
    ASSUME NEW u, Aligned(u), NEW v \in Nat, NEW w, w = u + RoundUp(v)
    PROVE  Aligned(w)
BY NextOffset

\* A configuration's sizes are natural numbers.
LEMMA ConfigType ==
    ASSUME NEW s \in [Sizes -> Nat]
    PROVE  /\ s.code \in Nat /\ s.stack \in Nat /\ s.heap \in Nat
           /\ s.hostFunctionDefinitions \in Nat /\ s.hostException \in Nat
           /\ s.guestError \in Nat /\ s.inputData \in Nat /\ s.outputData \in Nat
           /\ s.panicContext \in Nat /\ s.kernelStack \in Nat
BY DEF Sizes

\* The offsets of the layout, each from the one before it.
LEMMA LayoutFields ==
    ASSUME NEW s
    PROVE  LET l == Layout(s) IN
           /\ l.code = PageTableSize(s)
           /\ l.peb = l.code + RoundUp(s.code)
           /\ l.hostFunctionDefinitions = RoundUp(l.peb + StackDataOffset + StackDataSize)
           /\ l.hostException = RoundUp(l.hostFunctionDefinitions + s.hostFunctionDefinitions)
           /\ l.guestError = RoundUp(l.hostException + s.hostException)
           /\ l.inputData = RoundUp(l.guestError + s.guestError)
           /\ l.outputData = RoundUp(l.inputData + s.inputData)
           /\ l.panicContext = RoundUp(l.outputData + s.outputData)
           /\ l.heap = RoundUp(l.panicContext + s.panicContext)
           /\ l.guard = RoundUp(l.heap + s.heap)
           /\ l.stack = l.guard + PageSize
           /\ l.userGuard = l.stack + RoundUp(s.stack)
           /\ l.kernelStack = l.userGuard + PageSize
           /\ l.kernelGuard = l.kernelStack + RoundUp(s.kernelStack)
           /\ l.bootStack = l.kernelGuard + PageSize
BY Zenon DEF Layout

\* The size reserved for the page tables is a number of pages.
LEMMA PageTableSizeType ==
    ASSUME NEW s \in [Sizes -> Nat]
    PROVE  PageTableSize(s) \in Nat /\ PageTableSize(s) % PageSize = 0
<1> DEFINE m == RoundUp(s.code) + RoundUp(s.stack) + RoundUp(s.heap)
                + RoundUp(s.hostException) + RoundUp(s.hostFunctionDefinitions)
                + RoundUp(s.guestError) + RoundUp(s.inputData)
                + RoundUp(s.outputData) + RoundUp(s.panicContext) + RoundUp(PebSize)
                + BaseAddress + 3 * PageSize + 512 * PageSize
<1>1. PebSize \in Nat /\ BaseAddress \in Nat /\ PageSize \in Nat
    BY DEF PebSize, BaseAddress, PageSize
<1>2. m \in Nat
    <2>1. \A v \in Nat : RoundUp(v) \in Nat
        BY RoundUpFacts
    <2>2. /\ RoundUp(s.code) \in Nat /\ RoundUp(s.stack) \in Nat
          /\ RoundUp(s.heap) \in Nat /\ RoundUp(s.hostException) \in Nat
          /\ RoundUp(s.hostFunctionDefinitions) \in Nat
          /\ RoundUp(s.guestError) \in Nat /\ RoundUp(s.inputData) \in Nat
          /\ RoundUp(s.outputData) \in Nat /\ RoundUp(s.panicContext) \in Nat
          /\ RoundUp(PebSize) \in Nat
        BY <1>1, <2>1, ConfigType, Zenon
    <2>3. 3 * PageSize \in Nat /\ 512 * PageSize \in Nat
        BY DEF PageSize
    <2>4. QED BY <1>1, <2>2, <2>3, SMTT(40)
<1>3. PageTableSize(s) = (((m + AmountOfMemoryPerPt - 1) \div AmountOfMemoryPerPt) + 1 + 3) * PageSize
    BY DEF PageTableSize
<1> HIDE DEF m
<1>4. QED BY <1>2, <1>3 DEF AmountOfMemoryPerPt, PageSize

\* Each offset is a multiple of the page size and follows from the one
\* before it by adding a size that was rounded up by itself.
LEMMA LayoutChain ==
    ASSUME NEW s \in [Sizes -> Nat]
    PROVE  LET l == Layout(s) IN
           /\ l.code \in Nat /\ l.peb \in Nat /\ l.peb = l.code + RoundUp(s.code)
           /\ l.hostFunctionDefinitions \in Nat
           /\ l.hostFunctionDefinitions = l.peb + RoundUp(PebSize)
           /\ l.hostException \in Nat
           /\ l.hostException = l.hostFunctionDefinitions + RoundUp(s.hostFunctionDefinitions)
           /\ l.guestError \in Nat
           /\ l.guestError = l.hostException + RoundUp(s.hostException)
           /\ l.inputData \in Nat
           /\ l.inputData = l.guestError + RoundUp(s.guestError)
           /\ l.outputData \in Nat
           /\ l.outputData = l.inputData + RoundUp(s.inputData)
           /\ l.panicContext \in Nat
           /\ l.panicContext = l.outputData + RoundUp(s.outputData)
           /\ l.heap \in Nat
           /\ l.heap = l.panicContext + RoundUp(s.panicContext)
           /\ l.guard \in Nat /\ l.guard = l.heap + RoundUp(s.heap)
           /\ l.stack \in Nat /\ l.stack = l.guard + PageSize
           /\ l.userGuard \in Nat /\ l.userGuard = l.stack + RoundUp(s.stack)
           /\ l.kernelStack \in Nat /\ l.kernelStack = l.userGuard + PageSize
           /\ l.kernelGuard \in Nat /\ l.kernelGuard = l.kernelStack + RoundUp(s.kernelStack)
           /\ l.bootStack \in Nat /\ l.bootStack = l.kernelGuard + PageSize
           /\ MemorySize(s) \in Nat /\ MemorySize(s) = l.bootStack + PageSize
           /\ Aligned(l.stack)
<1> DEFINE l == Layout(s)
<1>c1. s.code \in Nat
    BY ConfigType, Zenon
<1>c2. s.stack \in Nat
    BY ConfigType, Zenon
<1>c3. s.heap \in Nat
    BY ConfigType, Zenon
<1>c4. s.hostFunctionDefinitions \in Nat
    BY ConfigType, Zenon
<1>c5. s.hostException \in Nat
    BY ConfigType, Zenon
<1>c6. s.guestError \in Nat
    BY ConfigType, Zenon
<1>c7. s.inputData \in Nat
    BY ConfigType, Zenon
<1>c8. s.outputData \in Nat
    BY ConfigType, Zenon
<1>c9. s.panicContext \in Nat
    BY ConfigType, Zenon
<1>c10. s.kernelStack \in Nat
    BY ConfigType, Zenon
<1>f1. l.code = PageTableSize(s)
    BY LayoutFields, Zenon
<1>f2. l.peb = l.code + RoundUp(s.code)
    BY LayoutFields, Zenon
<1>f3. l.hostFunctionDefinitions = RoundUp(l.peb + StackDataOffset + StackDataSize)
    BY LayoutFields, Zenon
<1>f4. l.hostException = RoundUp(l.hostFunctionDefinitions + s.hostFunctionDefinitions)
    BY LayoutFields, Zenon
<1>f5. l.guestError = RoundUp(l.hostException + s.hostException)
    BY LayoutFields, Zenon
<1>f6. l.inputData = RoundUp(l.guestError + s.guestError)
    BY LayoutFields, Zenon
<1>f7. l.outputData = RoundUp(l.inputData + s.inputData)
    BY LayoutFields, Zenon
<1>f8. l.panicContext = RoundUp(l.outputData + s.outputData)
    BY LayoutFields, Zenon
<1>f9. l.heap = RoundUp(l.panicContext + s.panicContext)
    BY LayoutFields, Zenon
<1>f10. l.guard = RoundUp(l.heap + s.heap)
    BY LayoutFields, Zenon
<1>f11. l.stack = l.guard + PageSize
    BY LayoutFields, Zenon
<1>f12. l.userGuard = l.stack + RoundUp(s.stack)
    BY LayoutFields, Zenon
<1>f13. l.kernelStack = l.userGuard + PageSize
    BY LayoutFields, Zenon
<1>f14. l.kernelGuard = l.kernelStack + RoundUp(s.kernelStack)
    BY LayoutFields, Zenon
<1>f15. l.bootStack = l.kernelGuard + PageSize
    BY LayoutFields, Zenon
<1>0. /\ PageSize \in Nat
      /\ StackDataOffset + StackDataSize = PebSize /\ PebSize \in Nat
      /\ StackDataOffset \in Nat /\ StackDataSize \in Nat
    BY DEF PageSize, PebSize, StackDataOffset, StackDataSize
<1>1. Aligned(l.code)
    BY <1>f1, PageTableSizeType DEF Aligned
<1> HIDE DEF l
<1>2. Aligned(l.peb) /\ l.peb = l.code + RoundUp(s.code)
    BY <1>1, <1>c1, <1>f2, AddedNext, Zenon
<1>3. /\ Aligned(l.hostFunctionDefinitions)
      /\ l.hostFunctionDefinitions = l.peb + RoundUp(PebSize)
    <2>1. l.peb + StackDataOffset + StackDataSize = l.peb + PebSize
        BY <1>0, <1>2 DEF Aligned
    <2>2. l.hostFunctionDefinitions = RoundUp(l.peb + PebSize)
        BY <2>1, <1>f3
    <2>3. QED BY <2>2, <1>0, <1>2, RoundedNext
<1>4. /\ Aligned(l.hostException)
      /\ l.hostException = l.hostFunctionDefinitions + RoundUp(s.hostFunctionDefinitions)
    BY <1>3, <1>c4, <1>f4, RoundedNext, Zenon
<1>5. /\ Aligned(l.guestError)
      /\ l.guestError = l.hostException + RoundUp(s.hostException)
    BY <1>4, <1>c5, <1>f5, RoundedNext, Zenon
<1>6. /\ Aligned(l.inputData)
      /\ l.inputData = l.guestError + RoundUp(s.guestError)
    BY <1>5, <1>c6, <1>f6, RoundedNext, Zenon
<1>7. /\ Aligned(l.outputData)
      /\ l.outputData = l.inputData + RoundUp(s.inputData)
    BY <1>6, <1>c7, <1>f7, RoundedNext, Zenon
<1>8. /\ Aligned(l.panicContext)
      /\ l.panicContext = l.outputData + RoundUp(s.outputData)
    BY <1>7, <1>c8, <1>f8, RoundedNext, Zenon
<1>9. /\ Aligned(l.heap)
      /\ l.heap = l.panicContext + RoundUp(s.panicContext)
    BY <1>8, <1>c9, <1>f9, RoundedNext, Zenon
<1>10. Aligned(l.guard) /\ l.guard = l.heap + RoundUp(s.heap)
    BY <1>9, <1>c3, <1>f10, RoundedNext, Zenon
<1>11. Aligned(l.stack) /\ l.stack = l.guard + PageSize
    BY <1>10, <1>0, <1>f11, NextOffset
<1>12. /\ Aligned(l.userGuard)
       /\ l.userGuard = l.stack + RoundUp(s.stack)
    BY <1>11, <1>c2, <1>f12, AddedNext, Zenon
<1>13. /\ Aligned(l.kernelStack)
       /\ l.kernelStack = l.userGuard + PageSize
    BY <1>12, <1>0, <1>f13, NextOffset
<1>14. /\ Aligned(l.kernelGuard)
       /\ l.kernelGuard = l.kernelStack + RoundUp(s.kernelStack)
    BY <1>13, <1>c10, <1>f14, AddedNext, Zenon
<1>15. /\ Aligned(l.bootStack)
       /\ l.bootStack = l.kernelGuard + PageSize
    BY <1>14, <1>0, <1>f15, NextOffset
<1>16. MemorySize(s) \in Nat /\ MemorySize(s) = l.bootStack + PageSize
    BY <1>15, <1>0, NextOffset DEF MemorySize, Aligned, l
<1>17. QED
    BY <1>1, <1>2, <1>3, <1>4, <1>5, <1>6, <1>7, <1>8, <1>9, <1>10, <1>11,
       <1>12, <1>13, <1>14, <1>15, <1>16 DEF l, Aligned

-----------------------------------------------------------------------------
(* The regions follow the layout.                                          *)

\* What get_memory_regions pushes, and the offset it compares with.
LEMMA SectionFields ==
    ASSUME NEW s
    PROVE  LET l == Layout(s)
               t == Sections(s)
           IN
           /\ Len(t) = 16
           /\ t[1].size = l.code /\ t[1].next = l.code
           /\ t[2].size = s.code /\ t[2].next = l.peb
           /\ t[3].size = PebSize /\ t[3].next = l.hostFunctionDefinitions
           /\ t[4].size = s.hostFunctionDefinitions /\ t[4].next = l.hostException
           /\ t[5].size = s.hostException /\ t[5].next = l.guestError
           /\ t[6].size = s.guestError /\ t[6].next = l.inputData
           /\ t[7].size = s.inputData /\ t[7].next = l.outputData
           /\ t[8].size = s.outputData /\ t[8].next = l.panicContext
           /\ t[9].size = s.panicContext /\ t[9].next = l.heap
           /\ t[10].size = s.heap /\ t[10].next = l.guard
           /\ t[11].size = PageSize /\ t[11].next = l.stack
           /\ t[12].size = RoundUp(s.stack) /\ t[12].next = l.stack + RoundUp(s.stack)
           /\ t[13].size = PageSize /\ t[13].next = l.kernelStack
           /\ t[14].size = RoundUp(s.kernelStack) /\ t[14].next = l.kernelGuard
           /\ t[15].size = PageSize /\ t[15].next = l.bootStack
           /\ t[16].size = PageSize /\ t[16].next = MemorySize(s)
BY Zenon DEF Sections, Section

\* Rounding up what has been rounded up, or a page, changes nothing.
LEMMA RoundUpAgain ==
    ASSUME NEW v, Aligned(v)
    PROVE  RoundUp(v) = v
BY DEF Aligned, RoundUp, PageSize

LEMMA RoundUpPage == RoundUp(PageSize) = PageSize /\ PageSize \in Nat
BY DEF RoundUp, PageSize


\* Each of these offsets is the one before plus the rounded size of the
\* section between them, and the last one is the size of the memory.
LEMMA SectionChain ==
    ASSUME NEW s \in [Sizes -> Nat]
    PROVE  LET t == Sections(s) IN
           /\ \A i \in 1..16 : t[i].size \in Nat /\ t[i].next \in Nat
           /\ t[1].next = RoundUp(t[1].size)
           /\ \A i \in 2..16 : t[i].next = t[i - 1].next + RoundUp(t[i].size)
           /\ t[16].next = MemorySize(s)
<1> DEFINE t == Sections(s)
           l == Layout(s)
<1>c. s.code \in Nat /\ s.stack \in Nat /\ s.heap \in Nat
      /\ s.hostFunctionDefinitions \in Nat /\ s.hostException \in Nat
      /\ s.guestError \in Nat /\ s.inputData \in Nat /\ s.outputData \in Nat
      /\ s.panicContext \in Nat /\ s.kernelStack \in Nat
    BY ConfigType, Zenon
<1>r. \A v \in Nat : RoundUp(v) \in Nat /\ Aligned(RoundUp(v))
    BY RoundUpFacts DEF Aligned
<1>p. PebSize \in Nat
    BY DEF PebSize
<1>f1. t[1].size = l.code /\ t[1].next = l.code
    BY SectionFields, Zenon
<1>f2. t[2].size = s.code /\ t[2].next = l.peb
    BY SectionFields, Zenon
<1>f3. t[3].size = PebSize /\ t[3].next = l.hostFunctionDefinitions
    BY SectionFields, Zenon
<1>f4. t[4].size = s.hostFunctionDefinitions /\ t[4].next = l.hostException
    BY SectionFields, Zenon
<1>f5. t[5].size = s.hostException /\ t[5].next = l.guestError
    BY SectionFields, Zenon
<1>f6. t[6].size = s.guestError /\ t[6].next = l.inputData
    BY SectionFields, Zenon
<1>f7. t[7].size = s.inputData /\ t[7].next = l.outputData
    BY SectionFields, Zenon
<1>f8. t[8].size = s.outputData /\ t[8].next = l.panicContext
    BY SectionFields, Zenon
<1>f9. t[9].size = s.panicContext /\ t[9].next = l.heap
    BY SectionFields, Zenon
<1>f10. t[10].size = s.heap /\ t[10].next = l.guard
    BY SectionFields, Zenon
<1>f11. t[11].size = PageSize /\ t[11].next = l.stack
    BY SectionFields, Zenon
<1>f12. t[12].size = RoundUp(s.stack) /\ t[12].next = l.stack + RoundUp(s.stack)
    BY SectionFields, Zenon
<1>f13. t[13].size = PageSize /\ t[13].next = l.kernelStack
    BY SectionFields, Zenon
<1>f14. t[14].size = RoundUp(s.kernelStack) /\ t[14].next = l.kernelGuard
    BY SectionFields, Zenon
<1>f15. t[15].size = PageSize /\ t[15].next = l.bootStack
    BY SectionFields, Zenon
<1>f16. t[16].size = PageSize /\ t[16].next = MemorySize(s)
    BY SectionFields, Zenon
<1>g1. l.code \in Nat
    BY LayoutChain, Zenon
<1>g2. l.peb \in Nat /\ l.peb = l.code + RoundUp(s.code)
    BY LayoutChain, Zenon
<1>g3. l.hostFunctionDefinitions \in Nat
      /\ l.hostFunctionDefinitions = l.peb + RoundUp(PebSize)
    BY LayoutChain, Zenon
<1>g4. l.hostException \in Nat /\ l.hostException = l.hostFunctionDefinitions + RoundUp(s.hostFunctionDefinitions)
    BY LayoutChain, Zenon
<1>g5. l.guestError \in Nat /\ l.guestError = l.hostException + RoundUp(s.hostException)
    BY LayoutChain, Zenon
<1>g6. l.inputData \in Nat /\ l.inputData = l.guestError + RoundUp(s.guestError)
    BY LayoutChain, Zenon
<1>g7. l.outputData \in Nat /\ l.outputData = l.inputData + RoundUp(s.inputData)
    BY LayoutChain, Zenon
<1>g8. l.panicContext \in Nat /\ l.panicContext = l.outputData + RoundUp(s.outputData)
    BY LayoutChain, Zenon
<1>g9. l.heap \in Nat /\ l.heap = l.panicContext + RoundUp(s.panicContext)
    BY LayoutChain, Zenon
<1>g10. l.guard \in Nat /\ l.guard = l.heap + RoundUp(s.heap)
    BY LayoutChain, Zenon
<1>g11. l.stack \in Nat /\ l.stack = l.guard + PageSize
    BY LayoutChain, Zenon
<1>g12. l.userGuard \in Nat /\ l.userGuard = l.stack + RoundUp(s.stack)
    BY LayoutChain, Zenon
<1>g13. l.kernelStack \in Nat /\ l.kernelStack = l.userGuard + PageSize
    BY LayoutChain, Zenon
<1>g14. l.kernelGuard \in Nat /\ l.kernelGuard = l.kernelStack + RoundUp(s.kernelStack)
    BY LayoutChain, Zenon
<1>g15. l.bootStack \in Nat /\ l.bootStack = l.kernelGuard + PageSize
    BY LayoutChain, Zenon
<1>g16. MemorySize(s) \in Nat /\ MemorySize(s) = l.bootStack + PageSize
    BY LayoutChain, Zenon
<1>a. Aligned(l.code)
    BY PageTableSizeType, LayoutFields DEF Aligned
<1> HIDE DEF t, l
<1>1. t[1].size \in Nat /\ t[1].next \in Nat /\ t[1].next = RoundUp(t[1].size)
    BY <1>a, <1>f1, <1>g1, RoundUpAgain
<1>2. /\ t[2].size \in Nat /\ t[2].next \in Nat
      /\ t[2].next = t[1].next + RoundUp(t[2].size)
    BY <1>f1, <1>f2, <1>g1, <1>g2, <1>c
<1>3. /\ t[3].size \in Nat /\ t[3].next \in Nat
      /\ t[3].next = t[2].next + RoundUp(t[3].size)
    BY <1>f2, <1>f3, <1>g2, <1>g3, <1>p
<1>4. /\ t[4].size \in Nat /\ t[4].next \in Nat
      /\ t[4].next = t[3].next + RoundUp(t[4].size)
    BY <1>f3, <1>f4, <1>g3, <1>g4, <1>c
<1>5. /\ t[5].size \in Nat /\ t[5].next \in Nat
      /\ t[5].next = t[4].next + RoundUp(t[5].size)
    BY <1>f4, <1>f5, <1>g4, <1>g5, <1>c
<1>6. /\ t[6].size \in Nat /\ t[6].next \in Nat
      /\ t[6].next = t[5].next + RoundUp(t[6].size)
    BY <1>f5, <1>f6, <1>g5, <1>g6, <1>c
<1>7. /\ t[7].size \in Nat /\ t[7].next \in Nat
      /\ t[7].next = t[6].next + RoundUp(t[7].size)
    BY <1>f6, <1>f7, <1>g6, <1>g7, <1>c
<1>8. /\ t[8].size \in Nat /\ t[8].next \in Nat
      /\ t[8].next = t[7].next + RoundUp(t[8].size)
    BY <1>f7, <1>f8, <1>g7, <1>g8, <1>c
<1>9. /\ t[9].size \in Nat /\ t[9].next \in Nat
      /\ t[9].next = t[8].next + RoundUp(t[9].size)
    BY <1>f8, <1>f9, <1>g8, <1>g9, <1>c
<1>10. /\ t[10].size \in Nat /\ t[10].next \in Nat
      /\ t[10].next = t[9].next + RoundUp(t[10].size)
    BY <1>f9, <1>f10, <1>g9, <1>g10, <1>c
<1>11. /\ t[11].size \in Nat /\ t[11].next \in Nat
      /\ t[11].next = t[10].next + RoundUp(t[11].size)
    BY <1>f10, <1>f11, <1>g10, <1>g11, RoundUpPage
<1>12. /\ t[12].size \in Nat /\ t[12].next \in Nat
      /\ t[12].next = t[11].next + RoundUp(t[12].size)
    BY <1>f11, <1>f12, <1>g11, <1>g12, <1>c, <1>r, RoundUpAgain
<1>13. /\ t[13].size \in Nat /\ t[13].next \in Nat
      /\ t[13].next = t[12].next + RoundUp(t[13].size)
    BY <1>f12, <1>f13, <1>g12, <1>g13, RoundUpPage
<1>14. /\ t[14].size \in Nat /\ t[14].next \in Nat
      /\ t[14].next = t[13].next + RoundUp(t[14].size)
    BY <1>f13, <1>f14, <1>g13, <1>g14, <1>c, <1>r, RoundUpAgain
<1>15. /\ t[15].size \in Nat /\ t[15].next \in Nat
      /\ t[15].next = t[14].next + RoundUp(t[15].size)
    BY <1>f14, <1>f15, <1>g14, <1>g15, RoundUpPage
<1>16. /\ t[16].size \in Nat /\ t[16].next \in Nat
      /\ t[16].next = t[15].next + RoundUp(t[16].size)
    BY <1>f15, <1>f16, <1>g15, <1>g16, RoundUpPage
<1>17. ASSUME NEW i \in 1..16 PROVE t[i].size \in Nat /\ t[i].next \in Nat
    <2>0. \/ i = 1 \/ i = 2 \/ i = 3 \/ i = 4 \/ i = 5 \/ i = 6 \/ i = 7 \/ i = 8
          \/ i = 9 \/ i = 10 \/ i = 11 \/ i = 12 \/ i = 13 \/ i = 14 \/ i = 15 \/ i = 16
        OBVIOUS
    <2>1. CASE i = 1
        BY <1>1, <2>1, Zenon
    <2>2. CASE i = 2
        BY <1>2, <2>2, Zenon
    <2>3. CASE i = 3
        BY <1>3, <2>3, Zenon
    <2>4. CASE i = 4
        BY <1>4, <2>4, Zenon
    <2>5. CASE i = 5
        BY <1>5, <2>5, Zenon
    <2>6. CASE i = 6
        BY <1>6, <2>6, Zenon
    <2>7. CASE i = 7
        BY <1>7, <2>7, Zenon
    <2>8. CASE i = 8
        BY <1>8, <2>8, Zenon
    <2>9. CASE i = 9
        BY <1>9, <2>9, Zenon
    <2>10. CASE i = 10
        BY <1>10, <2>10, Zenon
    <2>11. CASE i = 11
        BY <1>11, <2>11, Zenon
    <2>12. CASE i = 12
        BY <1>12,
                  <2>12, Zenon
    <2>13. CASE i = 13
        BY <1>13, <2>13, Zenon
    <2>14. CASE i = 14
        BY <1>14, <2>14, Zenon
    <2>15. CASE i = 15
        BY <1>15, <2>15, Zenon
    <2>16. CASE i = 16
        BY <1>16, <2>16, Zenon
    <2>17. QED BY <2>0, <2>1, <2>2, <2>3, <2>4, <2>5, <2>6, <2>7, <2>8, <2>9, <2>10, <2>11,
                  <2>12, <2>13, <2>14, <2>15, <2>16
<1>18. ASSUME NEW i \in 2..16 PROVE t[i].next = t[i - 1].next + RoundUp(t[i].size)
    <2>0. \/ i = 2 \/ i = 3 \/ i = 4 \/ i = 5 \/ i = 6 \/ i = 7 \/ i = 8
          \/ i = 9 \/ i = 10 \/ i = 11 \/ i = 12 \/ i = 13 \/ i = 14 \/ i = 15 \/ i = 16
        OBVIOUS
    <2>2. CASE i = 2
        <3>1. i - 1 = 1
            BY <2>2
        <3>2. QED BY <1>2, <2>2, <3>1, Zenon
    <2>3. CASE i = 3
        <3>1. i - 1 = 2
            BY <2>3
        <3>2. QED BY <1>3, <2>3, <3>1, Zenon
    <2>4. CASE i = 4
        <3>1. i - 1 = 3
            BY <2>4
        <3>2. QED BY <1>4, <2>4, <3>1, Zenon
    <2>5. CASE i = 5
        <3>1. i - 1 = 4
            BY <2>5
        <3>2. QED BY <1>5, <2>5, <3>1, Zenon
    <2>6. CASE i = 6
        <3>1. i - 1 = 5
            BY <2>6
        <3>2. QED BY <1>6, <2>6, <3>1, Zenon
    <2>7. CASE i = 7
        <3>1. i - 1 = 6
            BY <2>7
        <3>2. QED BY <1>7, <2>7, <3>1, Zenon
    <2>8. CASE i = 8
        <3>1. i - 1 = 7
            BY <2>8
        <3>2. QED BY <1>8, <2>8, <3>1, Zenon
    <2>9. CASE i = 9
        <3>1. i - 1 = 8
            BY <2>9
        <3>2. QED BY <1>9, <2>9, <3>1, Zenon
    <2>10. CASE i = 10
        <3>1. i - 1 = 9
            BY <2>10
        <3>2. QED BY <1>10, <2>10, <3>1, Zenon
    <2>11. CASE i = 11
        <3>1. i - 1 = 10
            BY <2>11
        <3>2. QED BY <1>11, <2>11, <3>1, Zenon
    <2>12. CASE i = 12
        <3>1. i - 1 = 11
            BY <2>12
        <3>2. QED BY <1>12, <2>12, <3>1, Zenon
    <2>13. CASE i = 13
        <3>1. i - 1 = 12
            BY <2>13
        <3>2. QED BY <1>13, <2>13, <3>1, Zenon
    <2>14. CASE i = 14
        <3>1. i - 1 = 13
            BY <2>14
        <3>2. QED BY <1>14, <2>14, <3>1, Zenon
    <2>15. CASE i = 15
        <3>1. i - 1 = 14
            BY <2>15
        <3>2. QED BY <1>15, <2>15, <3>1, Zenon
    <2>16. CASE i = 16
        <3>1. i - 1 = 15
            BY <2>16
        <3>2. QED BY <1>16, <2>16, <3>1, Zenon
    <2>17. QED BY <2>0, <2>2, <2>3, <2>4, <2>5, <2>6, <2>7, <2>8, <2>9, <2>10, <2>11, <2>12, <2>13, <2>14, <2>15, <2>16
<1>19. QED BY <1>1, <1>17, <1>18, <1>f16, Zenon DEF t


\* The types and flags of the sections are those of regions.
LEMMA SectionTypes ==
    ASSUME NEW s, NEW i \in 1..16
    PROVE  /\ Sections(s)[i].type \in Types
           /\ Sections(s)[i].flags \subseteq {"READ", "WRITE", "EXECUTE", "STACK_GUARD"}
BY DEF Sections, Section, Types, RW, Guard

\* Every field of the PEB has an offset.
FieldNames == {PebFields[i] : i \in 1..Len(PebFields)}

LEMMA FieldOffsetType ==
    ASSUME NEW f \in FieldNames
    PROVE  f \in Data /\ FieldOffset(f) \in Nat
<1> DEFINE k == CHOOSE i \in 1..Len(PebFields) : PebFields[i] = f
<1>1. \E i \in 1..Len(PebFields) : PebFields[i] = f
    BY DEF FieldNames
<1>2. k \in 1..Len(PebFields) /\ PebFields[k] = f
    BY <1>1
<1>3. f \in Data
    BY DEF FieldNames, Data
<1>4. Len(PebFields) \in Nat /\ FieldOffset(f) = 8 * (k - 1)
    BY DEF PebFields, FieldOffset
<1> HIDE DEF k
<1>5. QED BY <1>2, <1>3, <1>4

LEMMA WrittenFields ==
    {"pCode", "security_cookie_seed", "hostFunctionDetailsSize",
     "hostFunctionDetails", "hostExceptionSize", "guestErrorBuffer",
     "guestErrorSize", "runMode", "inputDataSize", "inputDataBuffer",
     "outputDataSize", "outputDataBuffer", "guestPanicContextDataSize",
     "guestPanicContextDataBuffer", "guestHeapSize", "guestHeapBuffer",
     "minUserStackAddress", "userStackAddress", "kernelStackAddress",
     "bootStackAddress"} \subseteq FieldNames
<1>1. /\ Len(PebFields) = 23
      /\ PebFields[1] = "security_cookie_seed"
      /\ PebFields[3] = "hostFunctionDetailsSize"
      /\ PebFields[4] = "hostFunctionDetails" /\ PebFields[5] = "hostExceptionSize"
      /\ PebFields[6] = "guestErrorSize" /\ PebFields[7] = "guestErrorBuffer"
      /\ PebFields[8] = "pCode" /\ PebFields[11] = "runMode"
      /\ PebFields[12] = "inputDataSize" /\ PebFields[13] = "inputDataBuffer"
      /\ PebFields[14] = "outputDataSize" /\ PebFields[15] = "outputDataBuffer"
      /\ PebFields[16] = "guestPanicContextDataSize"
      /\ PebFields[17] = "guestPanicContextDataBuffer"
      /\ PebFields[18] = "guestHeapSize" /\ PebFields[19] = "guestHeapBuffer"
      /\ PebFields[20] = "minUserStackAddress" /\ PebFields[21] = "userStackAddress"
      /\ PebFields[22] = "kernelStackAddress" /\ PebFields[23] = "bootStackAddress"
    BY DEF PebFields
<1>2. \A i \in 1..23 : PebFields[i] \in FieldNames
    BY <1>1 DEF FieldNames
<1>3. QED BY <1>1, <1>2


-----------------------------------------------------------------------------
(* The inductive invariant.                                                *)

\* How far the regions have been pushed at each step, and that each one ends
\* where the layout says.
PushedSoFar ==
    /\ pc # "mismatch"
    /\ \A i \in 1..Len(regions) : regions[i].to = BaseAddress + Sections(c)[i].next
    /\ pc \in {"load", "too_big", "guard", "write", "functions"} => regions = <<>>
    /\ pc = "regions" => Len(regions) < 16
    /\ pc \in {"paging", "tables", "done"} => Len(regions) = 16

LEMMA InitPushed == Init => TypeOK /\ PushedSoFar
BY DEF Init, NothingDone, TypeOK, PushedSoFar

\* The offsets and sizes a configuration gives rise to are natural numbers.
LEMMA Offsets ==
    ASSUME c \in Configs
    PROVE  /\ Layout(c).code \in Nat /\ Layout(c).peb \in Nat
           /\ Layout(c).inputData \in Nat /\ Layout(c).outputData \in Nat
           /\ Layout(c).stack \in Nat /\ c.code \in Nat /\ RoundUp(c.stack) \in Nat
           /\ Layout(c).hostFunctionDefinitions \in Nat
           /\ c.hostFunctionDefinitions \in Nat
<1>1. c \in [Sizes -> Nat]
    BY ConfigsAssumption
<1>2. c.stack \in Nat /\ c.code \in Nat /\ c.hostFunctionDefinitions \in Nat
    BY <1>1, ConfigType
<1>3. RoundUp(c.stack) \in Nat
    BY <1>2, RoundUpFacts
<1>4. QED BY <1>1, <1>2, <1>3, LayoutChain, Zenon

\* What the host writes has its type.
LEMMA PutType ==
    ASSUME NEW w \in Types, NEW d \in Data, NEW a \in Nat, NEW n \in Nat
    PROVE  Put(w, d, a, n) \in Write
BY DEF Put, Write

LEMMA FieldType ==
    ASSUME c \in Configs, NEW f \in FieldNames
    PROVE  Field(f) \in Write
<1>1. Layout(c).peb + FieldOffset(f) \in Nat
    BY Offsets, FieldOffsetType
<1>2. QED BY <1>1, FieldOffsetType, PutType DEF Field, Types

\* push_page_aligned adds a region that ends where the layout says.
LEMMA PushAgrees ==
    TypeOK /\ PushedSoFar /\ PushRegion => (TypeOK /\ PushedSoFar)'
<1> SUFFICES ASSUME TypeOK, PushedSoFar, PushRegion
             PROVE  (TypeOK /\ PushedSoFar)'
    OBVIOUS
<1> DEFINE n == Len(regions) + 1
           t == Sections(c)
           from == IF regions = <<>> THEN BaseAddress ELSE regions[Len(regions)].to
           to == from + RoundUp(t[n].size)
           r == [type |-> t[n].type, from |-> from, to |-> to, flags |-> t[n].flags]
<1>1. /\ pc = "regions" /\ regions \in Seq(Region) /\ Len(regions) < 16
      /\ c \in [Sizes -> Nat]
    BY ConfigsAssumption DEF PushRegion, TypeOK, PushedSoFar
<1>2. n \in 1..16 /\ n - 1 = Len(regions) /\ Len(regions) \in Nat
    BY <1>1
<1>3. /\ regions' = Append(regions, r)
      /\ pc' = IF to - BaseAddress # t[n].next THEN "mismatch"
               ELSE IF n = Len(t) THEN "paging" ELSE "regions"
      /\ UNCHANGED <<c, peb, written, tables, rsp>>
    BY DEF PushRegion
<1>4. Len(t) = 16
    BY SectionFields, Zenon
<1>5. t[n].next \in Nat /\ t[n].size \in Nat
    BY <1>1, <1>2, SectionChain, Zenon
<1>6. RoundUp(t[n].size) \in Nat
    BY <1>5, RoundUpFacts
<1>7. BaseAddress \in Nat
    BY DEF BaseAddress
<1>8. from \in Nat /\ to = BaseAddress + t[n].next
    <2>1. CASE regions = <<>>
        <3>1. n = 1 /\ from = BaseAddress
            BY <2>1
        <3>2. t[1].next = RoundUp(t[1].size)
            BY <1>1, SectionChain, Zenon
        <3>3. QED BY <3>1, <3>2, <1>7
    <2>2. CASE regions # <<>>
        <3>0. Len(regions) # 0
            BY <1>1, <2>2, EmptySeq
        <3>1. n \in 2..16 /\ n - 1 \in 1..Len(regions) /\ n - 1 \in 1..16
            <4> DEFINE k == Len(regions)
            <4>1. k \in Nat /\ k # 0 /\ k < 16
                BY <1>1, <1>2, <3>0
            <4> HIDE DEF k
            <4>2. k + 1 \in 2..16 /\ (k + 1) - 1 \in 1..k /\ (k + 1) - 1 \in 1..16
                BY <4>1
            <4>3. QED BY <4>2, Zenon DEF k
        <3>2. t[n].next = t[n - 1].next + RoundUp(t[n].size) /\ t[n - 1].next \in Nat
            BY <1>1, <3>1, SectionChain, Zenon
        <3>3. from = BaseAddress + t[n - 1].next
            BY <1>2, <2>2, <3>1 DEF PushedSoFar
        <3> HIDE DEF n, t, from
        <3>4. QED BY <1>5, <1>6, <1>7, <3>2, <3>3
    <2>3. QED BY <2>1, <2>2
<1>9. to \in Nat /\ to - BaseAddress = t[n].next
    BY <1>5, <1>7, <1>8
<1>10. t[n].type \in Types /\ t[n].flags \subseteq {"READ", "WRITE", "EXECUTE", "STACK_GUARD"}
    BY <1>2, SectionTypes
<1> HIDE DEF to, from, t
<1>11. r \in Region
    BY <1>8, <1>9, <1>10 DEF Region
<1>12. r.to = BaseAddress + t[n].next
    BY <1>8
<1> HIDE DEF r, n
<1>13. /\ regions' \in Seq(Region) /\ Len(regions') = n /\ regions'[n] = r
       /\ \A i \in 1..Len(regions) : regions'[i] = regions[i]
    BY <1>1, <1>2, <1>3, <1>11
<1>14. TypeOK'
    BY <1>3, <1>9, <1>13 DEF TypeOK
<1>15. \A i \in 1..Len(regions') : regions'[i].to = BaseAddress + Sections(c')[i].next
    <2> SUFFICES ASSUME NEW i \in 1..Len(regions')
                 PROVE  regions'[i].to = BaseAddress + t[i].next
        BY <1>3 DEF t
    <2>1. CASE i = n
        BY <2>1, <1>12, <1>13
    <2>2. CASE i # n
        BY <2>2, <1>2, <1>13 DEF PushedSoFar, t
    <2>3. QED BY <2>1, <2>2
<1>16. QED BY <1>2, <1>3, <1>4, <1>9, <1>13, <1>14, <1>15, SMTT(40) DEF PushedSoFar



LEMMA StepPushed ==
    TypeOK /\ PushedSoFar /\ [Next]_vars => (TypeOK /\ PushedSoFar)'
<1> SUFFICES ASSUME TypeOK, PushedSoFar, [Next]_vars
             PROVE  (TypeOK /\ PushedSoFar)'
    OBVIOUS
<1>c. c \in Configs
    BY DEF TypeOK
<1>n. /\ StackCookieLen \in Nat /\ StackPointerSize \in Nat /\ PageSize \in Nat
      /\ PdptOffset \in Nat /\ PdOffset \in Nat /\ PtOffset \in Nat
      /\ BaseAddress \in Nat /\ 0 \in Nat /\ 8 \in Nat
    BY DEF StackCookieLen, StackPointerSize, PageSize, PdptOffset, PdOffset,
           PtOffset, BaseAddress
<1>t. {"binary", "cookie", "sp", "functions", "pml4", "pdpt", "pd", "pt"} \subseteq Data
    BY DEF Data
<1>1. CASE LoadTooBig
    BY <1>1 DEF LoadTooBig, TypeOK, PushedSoFar
<1>2. CASE Load
    <2>1. Field("pCode") \in Write
        BY <1>c, FieldType, WrittenFields
    <2>2. Put("Code", "binary", Layout(c).code, c.code) \in Write
        BY <1>c, <1>t, Offsets, PutType DEF Types
    <2>3. QED BY <1>2, <2>1, <2>2 DEF Load, TypeOK, PushedSoFar
<1>3. CASE SetStackGuard
    <2>1. Put("Stack", "cookie", Layout(c).stack, StackCookieLen) \in Write
        BY <1>c, <1>n, <1>t, Offsets, PutType DEF Types
    <2>2. QED BY <1>3, <2>1 DEF SetStackGuard, TypeOK, PushedSoFar
<1>4. CASE WriteLayout
    <2>1. \A x \in written' :
             \/ x \in written
             \/ \E f \in FieldNames : x = Field(f)
             \/ x = Put("InputData", "sp", Layout(c).inputData, StackPointerSize)
             \/ x = Put("OutputData", "sp", Layout(c).outputData, StackPointerSize)
        BY <1>4, WrittenFields DEF WriteLayout
    <2>2. /\ Put("InputData", "sp", Layout(c).inputData, StackPointerSize) \in Write
          /\ Put("OutputData", "sp", Layout(c).outputData, StackPointerSize) \in Write
        BY <1>c, <1>n, <1>t, Offsets, PutType DEF Types
    <2>3. written' \subseteq Write
        BY <1>c, <2>1, <2>2, FieldType DEF TypeOK
    <2>4. pc = "write" /\ pc' = "functions" /\ UNCHANGED <<c, regions, tables, rsp>>
        BY <1>4 DEF WriteLayout
    <2>5. QED BY <2>3, <2>4 DEF TypeOK, PushedSoFar
<1>5. CASE PushRegion
    BY <1>5, PushAgrees
<1>6. CASE WriteDirectories
    <2>1. /\ Put("PageTables", "pml4", 0, 8) \in Write
          /\ Put("PageTables", "pdpt", PdptOffset, 8) \in Write
          /\ Put("PageTables", "pd", PdOffset, PageSize) \in Write
        BY <1>n, <1>t, PutType DEF Types
    <2>2. Layout(c).stack + BaseAddress + RoundUp(c.stack) - 40 \in Int
        BY <1>c, <1>n, Offsets
    <2>3. QED BY <1>6, <2>1, <2>2 DEF WriteDirectories, TypeOK, PushedSoFar
<1>7. CASE WriteTable
    <2>1. tables \in Nat /\ PtOffset + tables * PageSize \in Nat
        BY DEF TypeOK, PtOffset, PageSize
    <2>2. Put("PageTables", "pt", PtOffset + tables * PageSize, PageSize) \in Write
        BY <1>n, <1>t, <2>1, PutType DEF Types
    <2>3. pc = "tables" /\ pc' \in {"done", "tables"} /\ UNCHANGED <<c, regions, rsp>>
        BY <1>7 DEF WriteTable
    <2>4. QED BY <1>7, <2>1, <2>2, <2>3 DEF WriteTable, TypeOK, PushedSoFar
<1>8. ASSUME NEW len \in {1, c.hostFunctionDefinitions}, RegisterHostFunctions(len)
      PROVE  (TypeOK /\ PushedSoFar)'
    <2>1. len \in Nat
        BY <1>c, Offsets
    <2>2. Put("HostFunctionDefinitions", "functions",
              Layout(c).hostFunctionDefinitions, len) \in Write
        BY <1>c, <1>t, <2>1, Offsets, PutType DEF Types
    <2>3. QED BY <1>8, <2>2 DEF RegisterHostFunctions, TypeOK, PushedSoFar
<1>9. CASE UNCHANGED vars
    BY <1>9 DEF vars, TypeOK, PushedSoFar
<1>10. QED BY <1>1, <1>2, <1>3, <1>4, <1>5, <1>6, <1>7, <1>8, <1>9 DEF Next

\* For every set of configurations, what a sandbox is created from keeps its
\* types: no offset that SandboxMemoryLayout::new computes is negative and
\* no region is pushed beyond the sixteen.
THEOREM TypeCorrect == Spec => []TypeOK
<1>1. Init => TypeOK /\ PushedSoFar
    BY InitPushed
<1>2. TypeOK /\ PushedSoFar /\ [Next]_vars => (TypeOK /\ PushedSoFar)'
    BY StepPushed
<1>3. QED BY <1>1, <1>2, PTL DEF Spec

\* For every configuration, none of the comparisons of get_memory_regions
\* fails: sections rounded up one by one end exactly where rounding up the
\* running sum puts them, and the last region ends where the memory does.
THEOREM RegionsAlwaysAgree == Spec => []RegionsAgree
<1>1. Init => TypeOK /\ PushedSoFar
    BY InitPushed
<1>2. TypeOK /\ PushedSoFar /\ [Next]_vars => (TypeOK /\ PushedSoFar)'
    BY StepPushed
<1>3. TypeOK /\ PushedSoFar => RegionsAgree
    <2> SUFFICES ASSUME TypeOK, PushedSoFar PROVE RegionsAgree
        OBVIOUS
    <2>1. Len(Sections(c)) = 16
        BY SectionFields, Zenon
    <2>2. Sections(c)[16].next = MemorySize(c)
        BY ConfigsAssumption, SectionChain, Zenon DEF TypeOK
    <2>3. ASSUME Len(regions) = 16
          PROVE  regions[Len(regions)].to = BaseAddress + MemorySize(c)
        BY <2>2, <2>3 DEF PushedSoFar
    <2>4. QED BY <2>1, <2>3 DEF RegionsAgree, PushedSoFar
<1>4. QED BY <1>1, <1>2, <1>3, PTL DEF Spec


-----------------------------------------------------------------------------
(* The page tables fit in the space that was estimated for them.           *)

\* The estimate in numbers: x is what the estimate counts in full, k the
\* kernel stack it leaves out, p the space it reserves, m the memory's size.
LEMMA EstimateSuffices ==
    ASSUME NEW x \in Nat, NEW k \in Nat, k <= 2072576, NEW p, NEW m,
           p = (((x + 4206592 + 2097152 - 1) \div 2097152) + 4) * 4096,
           m = p + x + k + 16384, m <= 1071644672
    PROVE  p \in Nat /\ 12288 + (((m + 2097152 - 1) \div 2097152) + 1) * 4096 <= p
<1> DEFINE q == (x + 4206592 + 2097152 - 1) \div 2097152
           y == (m + 2097152 - 1) \div 2097152
<1>1. /\ q \in Nat /\ q * 2097152 <= x + 4206592 + 2097151
      /\ x + 4206592 + 2097151 < (q + 1) * 2097152
    OBVIOUS
<1>2. p = (q + 4) * 4096
    OBVIOUS
<1>3. m \in Nat
    BY <1>1, <1>2
<1>4. /\ y \in Nat /\ y * 2097152 <= m + 2097151
      /\ m + 2097151 < (y + 1) * 2097152
    BY <1>3
<1> HIDE DEF q, y
<1>5. q <= 512
    BY <1>1, <1>2
<1>6. m <= x + 4206592
    BY <1>2, <1>5, <1>1
<1>7. y <= q
    BY <1>1, <1>4, <1>6
<1>8. 12288 + (y + 1) * 4096 <= p
    BY <1>1, <1>2, <1>4, <1>7
<1>9. QED BY <1>1, <1>2, <1>8 DEF y

\* The same for the definitions of the model.
LEMMA TablesFit ==
    ASSUME c \in Configs, c.kernelStack <= KernelStackLimit,
           MemorySize(c) <= MaxMemorySize
    PROVE  /\ TablesNeeded \in Nat /\ Layout(c).code \in Nat
           /\ PtOffset + TablesNeeded * PageSize <= Layout(c).code
<1> DEFINE l == Layout(c)
           x == RoundUp(c.code) + RoundUp(c.stack) + RoundUp(c.heap)
                + RoundUp(c.hostException) + RoundUp(c.hostFunctionDefinitions)
                + RoundUp(c.guestError) + RoundUp(c.inputData)
                + RoundUp(c.outputData) + RoundUp(c.panicContext) + RoundUp(PebSize)
           k == RoundUp(c.kernelStack)
           p == l.code
           m == MemorySize(c)
<1>1. c \in [Sizes -> Nat]
    BY ConfigsAssumption
<1>2. c.kernelStack \in Nat /\ c.kernelStack <= 2072576
    BY <1>1, ConfigType DEF KernelStackLimit, AmountOfMemoryPerPt, PageSize
<1>3. k \in Nat /\ k <= 2072576
    BY <1>2 DEF RoundUp, PageSize
<1>4. /\ RoundUp(c.code) \in Nat /\ RoundUp(c.stack) \in Nat
      /\ RoundUp(c.heap) \in Nat /\ RoundUp(c.hostException) \in Nat
      /\ RoundUp(c.hostFunctionDefinitions) \in Nat
      /\ RoundUp(c.guestError) \in Nat /\ RoundUp(c.inputData) \in Nat
      /\ RoundUp(c.outputData) \in Nat /\ RoundUp(c.panicContext) \in Nat
      /\ RoundUp(PebSize) \in Nat
    <2>1. \A v \in Nat : RoundUp(v) \in Nat
        BY RoundUpFacts
    <2>2. PebSize \in Nat
        BY DEF PebSize
    <2>3. QED BY <1>1, <2>1, <2>2, ConfigType, Zenon
<1>5. x \in Nat
    BY <1>4
<1>6. l.code = PageTableSize(c)
    BY LayoutFields, Zenon
<1>7. p = (((x + 4206592 + 2097152 - 1) \div 2097152) + 4) * 4096
    <2>1. p = (((x + BaseAddress + 3 * PageSize + 512 * PageSize + AmountOfMemoryPerPt - 1)
                 \div AmountOfMemoryPerPt) + 1 + 3) * PageSize
        BY <1>6 DEF PageTableSize
    <2> HIDE DEF x, p
    <2>2. QED BY <2>1, <1>5 DEF BaseAddress, PageSize, AmountOfMemoryPerPt
<1>8. m = p + x + k + 16384
    <2>1. l.code \in Nat /\ l.peb = l.code + RoundUp(c.code)
        BY <1>1, LayoutChain, Zenon
    <2>2. /\ l.hostFunctionDefinitions = l.peb + RoundUp(PebSize)
          /\ l.hostException = l.hostFunctionDefinitions + RoundUp(c.hostFunctionDefinitions)
          /\ l.guestError = l.hostException + RoundUp(c.hostException)
          /\ l.inputData = l.guestError + RoundUp(c.guestError)
        BY <1>1, LayoutChain, Zenon
    <2>3. /\ l.outputData = l.inputData + RoundUp(c.inputData)
          /\ l.panicContext = l.outputData + RoundUp(c.outputData)
          /\ l.heap = l.panicContext + RoundUp(c.panicContext)
          /\ l.guard = l.heap + RoundUp(c.heap)
        BY <1>1, LayoutChain, Zenon
    <2>4. /\ l.stack = l.guard + PageSize
          /\ l.userGuard = l.stack + RoundUp(c.stack)
          /\ l.kernelStack = l.userGuard + PageSize
          /\ l.kernelGuard = l.kernelStack + RoundUp(c.kernelStack)
          /\ l.bootStack = l.kernelGuard + PageSize
          /\ m = l.bootStack + PageSize
        BY <1>1, LayoutChain, Zenon
    <2>5. k \in Nat /\ k = RoundUp(c.kernelStack)
        BY <1>3
    <2> DEFINE a == RoundUp(c.code) + RoundUp(PebSize) + RoundUp(c.hostFunctionDefinitions)
                    + RoundUp(c.hostException) + RoundUp(c.guestError)
               b == RoundUp(c.inputData) + RoundUp(c.outputData)
                    + RoundUp(c.panicContext) + RoundUp(c.heap)
    <2>6. a \in Nat /\ b \in Nat /\ x = a + b + RoundUp(c.stack)
        BY <1>4
    <2> HIDE DEF l, m, k, x
    <2>7. l.inputData = l.code + a
        BY <1>4, <2>1, <2>2
    <2>8. l.guard = l.inputData + b
        <3>1. l.inputData \in Nat
            BY <2>1, <2>6, <2>7
        <3>2. QED BY <1>4, <3>1, <2>3
    <2>9. l.guard \in Nat /\ l.guard = l.code + a + b
        <3> HIDE DEF a, b
        <3>1. QED BY <2>1, <2>6, <2>7, <2>8
    <2>10. m = l.guard + RoundUp(c.stack) + k + 16384
        BY <1>4, <2>4, <2>5, <2>9 DEF PageSize
    <2> HIDE DEF a, b
    <2>11. QED BY <1>4, <2>1, <2>5, <2>6, <2>9, <2>10
<1>9. m <= 1071644672
    BY DEF MaxMemorySize, BaseAddress
<1>10. TablesNeeded = ((m + 2097152 - 1) \div 2097152) + 1
    BY DEF TablesNeeded, AmountOfMemoryPerPt
<1> HIDE DEF x, k, p, m
<1>11. p \in Nat /\ 12288 + (((m + 2097152 - 1) \div 2097152) + 1) * 4096 <= p
    BY <1>3, <1>5, <1>7, <1>8, <1>9, EstimateSuffices
<1>12. m \in Nat
    BY <1>3, <1>5, <1>8, <1>11
<1>13. QED BY <1>10, <1>11, <1>12 DEF p, PtOffset, PageSize


\* How many page tables have been written at each step.
TablesSoFar ==
    /\ pc \notin {"load", "too_big"} => MemorySize(c) <= MaxMemorySize
    /\ pc \notin {"tables", "done"} =>
          tables = 0 /\ \A w \in written : w.what # "PageTables"
    /\ pc = "tables" => tables < TablesNeeded
    /\ c.kernelStack <= KernelStackLimit => PageTablesSuffice

LEMMA InitTables == Init => TablesSoFar
BY DEF Init, NothingDone, TablesSoFar, PageTablesSuffice

\* TablesNeeded is at least one, so that the loop over tables ends.
LEMMA OneTable ==
    ASSUME c \in Configs
    PROVE  TablesNeeded \in Nat /\ 0 < TablesNeeded
<1> DEFINE m == MemorySize(c)
<1>1. m \in Nat
    BY ConfigsAssumption, LayoutChain, Zenon
<1>2. TablesNeeded = ((m + AmountOfMemoryPerPt - 1) \div AmountOfMemoryPerPt) + 1
    BY DEF TablesNeeded
<1> HIDE DEF m
<1>3. QED BY <1>1, <1>2 DEF AmountOfMemoryPerPt

LEMMA StepTables ==
    TypeOK /\ TablesSoFar /\ [Next]_vars => TablesSoFar'
<1> SUFFICES ASSUME TypeOK, TablesSoFar, [Next]_vars
             PROVE  TablesSoFar'
    OBVIOUS
<1>c. c \in Configs /\ tables \in Nat
    BY DEF TypeOK
<1>1. CASE LoadTooBig
    BY <1>1 DEF LoadTooBig, TablesSoFar, PageTablesSuffice
<1>2. CASE Load
    BY <1>2 DEF Load, TablesSoFar, PageTablesSuffice, Field, Put
<1>3. CASE SetStackGuard
    BY <1>3 DEF SetStackGuard, TablesSoFar, PageTablesSuffice, Put
<1>4. CASE WriteLayout
    <2>1. \A x \in written' : x \in written \/ x.what # "PageTables"
        BY <1>4, SMTT(40) DEF WriteLayout, Field, Put
    <2>2. pc = "write" /\ pc' = "functions" /\ UNCHANGED <<c, tables>>
        BY <1>4 DEF WriteLayout
    <2>3. QED BY <2>1, <2>2 DEF TablesSoFar, PageTablesSuffice
<1>5. CASE PushRegion
    <2>1. pc = "regions" /\ pc' \in {"mismatch", "paging", "regions"}
          /\ UNCHANGED <<c, written, tables>>
        BY <1>5 DEF PushRegion
    <2>2. QED BY <2>1 DEF TablesSoFar, PageTablesSuffice
<1>6. CASE WriteDirectories
    <2>1. MemorySize(c) <= MaxMemorySize /\ tables = 0
          /\ \A w \in written : w.what # "PageTables"
        BY <1>6 DEF WriteDirectories, TablesSoFar
    <2>2. pc' = "tables" /\ UNCHANGED <<c, tables>>
        BY <1>6 DEF WriteDirectories
    <2>3. \A w \in written' : w.what = "PageTables" =>
             w.at + w.len \in Nat /\ w.at + w.len <= PtOffset
        BY <1>6, <2>1 DEF WriteDirectories, Put, PdptOffset, PdOffset, PtOffset, PageSize
    <2>4. ASSUME c.kernelStack <= KernelStackLimit
          PROVE  PageTablesSuffice'
        <3>1. Layout(c).code \in Nat /\ PtOffset <= Layout(c).code
            BY <1>c, <2>1, <2>4, TablesFit, OneTable DEF PtOffset, PageSize
        <3>2. QED BY <2>2, <2>3, <3>1 DEF PageTablesSuffice, PtOffset
    <2>5. QED BY <1>c, <2>1, <2>2, <2>4, OneTable DEF TablesSoFar, TablesNeeded
<1>7. CASE WriteTable
    <2> DEFINE new == Put("PageTables", "pt", PtOffset + tables * PageSize, PageSize)
    <2>1. /\ pc = "tables" /\ written' = written \cup {new} /\ tables' = tables + 1
          /\ pc' = IF tables + 1 = TablesNeeded THEN "done" ELSE "tables"
          /\ UNCHANGED c
        BY <1>7 DEF WriteTable
    <2>2. MemorySize(c) <= MaxMemorySize /\ tables < TablesNeeded
        BY <2>1 DEF TablesSoFar
    <2>3. TablesNeeded \in Nat /\ TablesNeeded' = TablesNeeded
        BY <1>c, <2>1, OneTable DEF TablesNeeded
    <2>4. pc' = "tables" => tables' < TablesNeeded'
        BY <1>c, <2>1, <2>2, <2>3
    <2>5. ASSUME c.kernelStack <= KernelStackLimit
          PROVE  PageTablesSuffice'
        <3>1. /\ Layout(c).code \in Nat
              /\ PtOffset + TablesNeeded * PageSize <= Layout(c).code
            BY <1>c, <2>2, <2>5, TablesFit
        <3>2. new.at + new.len = PtOffset + (tables + 1) * PageSize
            BY <1>c DEF Put, PtOffset, PageSize
        <3>3. PtOffset + (tables + 1) * PageSize <= Layout(c).code
            BY <1>c, <2>2, <2>3, <3>1 DEF PtOffset, PageSize
        <3>4. QED BY <2>1, <2>5, <3>2, <3>3 DEF TablesSoFar, PageTablesSuffice
    <2>6. QED BY <2>1, <2>2, <2>4, <2>5 DEF TablesSoFar
<1>8. ASSUME NEW len \in {1, c.hostFunctionDefinitions}, RegisterHostFunctions(len)
      PROVE  TablesSoFar'
    BY <1>8 DEF RegisterHostFunctions, TablesSoFar, PageTablesSuffice, Put
<1>9. CASE UNCHANGED vars
    BY <1>9 DEF vars, TablesSoFar, PageTablesSuffice, TablesNeeded
<1>10. QED BY <1>1, <1>2, <1>3, <1>4, <1>5, <1>6, <1>7, <1>8, <1>9 DEF Next

\* For every configuration whose kernel stack is at most 24 KB below 2 MB,
\* the space get_total_page_table_size reserves, although it is computed
\* before the layout and without the kernel stack and the guard pages, is
\* enough for every table set_up_shared_memory writes.
THEOREM PageTablesFit ==
    Spec => [](c.kernelStack <= KernelStackLimit => PageTablesSuffice)
<1>1. Init => TypeOK /\ TablesSoFar
    BY InitPushed, InitTables
<1>2. TypeOK /\ TablesSoFar /\ [Next]_vars => TablesSoFar'
    BY StepTables
<1>3. TablesSoFar => (c.kernelStack <= KernelStackLimit => PageTablesSuffice)
    BY DEF TablesSoFar
<1>4. QED BY <1>1, <1>2, <1>3, TypeCorrect, PTL DEF Spec

=============================================================================
