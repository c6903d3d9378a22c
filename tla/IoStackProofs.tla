--------------------------- MODULE IoStackProofs ---------------------------
(***************************************************************************)
(* Proofs that an I/O buffer stays well formed and that it implements the  *)
(* stack of messages Lifo, for any buffer size, any pointer size and any   *)
(* set of messages.                                                        *)
(***************************************************************************)
EXTENDS IoStack, SequenceTheorems, TLAPS

USE SizeAssumption, PtrSizeAssumption, BufferSizeAssumption

-----------------------------------------------------------------------------
(* Reading back what the bytes encode.                                     *)

\* Reading an integer yields the integer that was stored.
LEMMA ReadsWord ==
    ASSUME NEW a, NEW v \in 0..BufferSize, HasWord(mem, a, v)
    PROVE  ReadWord(a) = v
<1>1. \A w \in 0..BufferSize : HasWord(mem, a, w) => w = v
    <2> SUFFICES ASSUME NEW w \in 0..BufferSize, HasWord(mem, a, w)
                 PROVE  w = v
        OBVIOUS
    <2>1. 0 \in 0..(PtrSize - 1)
        OBVIOUS
    <2>2. WordByte(w, 0) = WordByte(v, 0)
        BY <2>1 DEF HasWord
    <2>3. QED BY <2>2 DEF WordByte
<1>2. QED BY <1>1 DEF ReadWord

\* Reading a message yields the message that was stored.
LEMMA ReadsMsg ==
    ASSUME NEW a, NEW m \in Msgs, HasMsg(mem, a, m)
    PROVE  ReadMsg(a) = m
<1>1. \A n \in Msgs : HasMsg(mem, a, n) => n = m
    <2> SUFFICES ASSUME NEW n \in Msgs, HasMsg(mem, a, n)
                 PROVE  n = m
        OBVIOUS
    <2>1. 0 \in 0..(Size[m] - 1) /\ 0 \in 0..(Size[n] - 1)
        OBVIOUS
    <2>2. MsgByte(n, 0) = MsgByte(m, 0)
        BY <2>1 DEF HasMsg
    <2>3. QED BY <2>2 DEF MsgByte
<1>2. QED BY <1>1 DEF ReadMsg

\* Offsets are natural numbers.
LEMMA FreeNat ==
    ASSUME NEW fs \in Seq(Frame)
    PROVE  /\ Len(fs) \in Nat
           /\ \A i \in 1..Len(fs) : fs[i] \in Frame /\ EndOf(fs[i]) \in Nat
           /\ Free(fs) \in Nat
<1>1. Len(fs) \in Nat /\ \A i \in 1..Len(fs) : fs[i] \in Frame
    BY ElementOfSeq, LenProperties
<1>2. \A f \in Frame : EndOf(f) \in Nat
    BY DEF Frame, EndOf
<1>3. fs # <<>> => Len(fs) \in 1..Len(fs)
    BY <1>1, EmptySeq
<1>4. QED BY <1>1, <1>2, <1>3 DEF Free

\* The stack pointer and the top message of a well-formed buffer.
LEMMA TopRead ==
    ASSUME frames \in Seq(Frame), Encodes(mem, frames)
    PROVE  /\ ReadWord(0) = Free(frames)
           /\ Free(frames) \in PtrSize..BufferSize
           /\ frames = <<>> => Free(frames) = PtrSize
           /\ frames # <<>> =>
                LET f == frames[Len(frames)] IN
                /\ Len(frames) >= 1 /\ f \in Frame
                /\ Free(frames) = f.at + Size[f.msg] + PtrSize
                /\ f.at >= PtrSize
                /\ ReadWord(Free(frames) - PtrSize) = f.at
                /\ ReadMsg(f.at) = f.msg
<1>1. Free(frames) \in 0..BufferSize /\ HasWord(mem, 0, Free(frames))
    BY FreeNat DEF Encodes
<1>2. ReadWord(0) = Free(frames)
    BY <1>1, ReadsWord
<1>3. ASSUME frames # <<>>
      PROVE  LET f == frames[Len(frames)] IN
             /\ Len(frames) >= 1 /\ f \in Frame
             /\ Free(frames) = f.at + Size[f.msg] + PtrSize
             /\ f.at >= PtrSize
             /\ ReadWord(Free(frames) - PtrSize) = f.at
             /\ ReadMsg(f.at) = f.msg
    <2> DEFINE f == frames[Len(frames)]
    <2>1. Len(frames) \in 1..Len(frames) /\ Len(frames) >= 1 /\ f \in Frame
        BY <1>3, FreeNat, EmptySeq
    <2>2. Free(frames) = EndOf(f)
        BY <1>3 DEF Free
    <2>3. /\ f.at >= PtrSize /\ HasMsg(mem, f.at, f.msg)
          /\ HasWord(mem, f.at + Size[f.msg], f.at)
        BY <2>1 DEF Encodes
    <2>4. /\ f.at \in Nat /\ f.msg \in Msgs /\ Size[f.msg] \in Nat
          /\ EndOf(f) = f.at + Size[f.msg] + PtrSize
        BY <2>1 DEF Frame, EndOf
    <2>5. f.at \in 0..BufferSize /\ Free(frames) - PtrSize = f.at + Size[f.msg]
        BY <2>2, <2>4, <1>1
    <2>6. ReadWord(Free(frames) - PtrSize) = f.at
        BY <2>3, <2>5, ReadsWord
    <2>7. ReadMsg(f.at) = f.msg
        BY <2>3, <2>4, ReadsMsg
    <2>8. QED BY <2>1, <2>2, <2>3, <2>4, <2>6, <2>7
<1>4. Free(frames) >= PtrSize
    <2>1. CASE frames = <<>>
        BY <2>1 DEF Free
    <2>2. CASE frames # <<>>
        BY <2>2, <1>3 DEF Frame
    <2>3. QED BY <2>1, <2>2
<1>5. QED BY <1>1, <1>2, <1>3, <1>4 DEF Free

-----------------------------------------------------------------------------
(* A push and a pop keep the buffer well formed.                           *)

\* The bytes of a message and of its back pointer depend on nothing outside
\* the range from the message to its end.
LEMMA SameFrame ==
    ASSUME NEW b, NEW c, NEW f \in Frame,
           \A a \in Nat : f.at <= a /\ a < EndOf(f) => c[a] = b[a],
           HasMsg(b, f.at, f.msg), HasWord(b, f.at + Size[f.msg], f.at)
    PROVE  HasMsg(c, f.at, f.msg) /\ HasWord(c, f.at + Size[f.msg], f.at)
<1>1. f.at \in Nat /\ f.msg \in Msgs /\ Size[f.msg] \in Nat
    BY DEF Frame
<1>2. \A k \in 0..(Size[f.msg] - 1) : c[f.at + k] = b[f.at + k]
    BY <1>1 DEF EndOf
<1>3. \A k \in 0..(PtrSize - 1) : c[f.at + Size[f.msg] + k] = b[f.at + Size[f.msg] + k]
    <2> SUFFICES ASSUME NEW k \in 0..(PtrSize - 1)
                 PROVE  c[f.at + Size[f.msg] + k] = b[f.at + Size[f.msg] + k]
        OBVIOUS
    <2>1. /\ f.at + Size[f.msg] + k \in Nat
          /\ f.at <= f.at + Size[f.msg] + k /\ f.at + Size[f.msg] + k < EndOf(f)
        BY <1>1 DEF EndOf
    <2>2. QED BY <2>1
<1>4. QED BY <1>1, <1>2, <1>3 DEF HasMsg, HasWord

\* A push that fits keeps the buffer well formed.
LEMMA PushEncodes ==
    ASSUME frames \in Seq(Frame), Encodes(mem, frames), NEW m \in Msgs,
           NEW sp, sp = Free(frames), Size[m] + PtrSize <= BufferSize - sp
    PROVE  LET fs == Append(frames, [at |-> sp, msg |-> m]) IN
           fs \in Seq(Frame) /\ Encodes(Pushed(m, sp), fs)
<1> DEFINE f == [at |-> sp, msg |-> m]
           fs == Append(frames, f)
           b == Pushed(m, sp)
           n == Len(frames)
<1>1. /\ sp \in Nat /\ sp >= PtrSize /\ sp <= BufferSize /\ n \in Nat
      /\ Size[m] \in Nat /\ Size[m] >= 1
    BY TopRead, FreeNat
<1>2. f \in Frame /\ fs \in Seq(Frame) /\ EndOf(f) = sp + Size[m] + PtrSize
    BY <1>1, AppendProperties DEF Frame, EndOf
<1>3. /\ Len(fs) = n + 1 /\ fs # <<>> /\ fs[n + 1] = f
      /\ \A i \in 1..n : fs[i] = frames[i] /\ fs[i] \in Frame
    BY <1>2, AppendProperties, EmptySeq, FreeNat
<1>4. Free(fs) = EndOf(f) /\ Free(fs) <= BufferSize
    BY <1>1, <1>2, <1>3 DEF Free
<1>5. /\ \A a \in Addr : a \in sp..(sp + Size[m] - 1) => b[a] = MsgByte(m, a - sp)
      /\ \A a \in Addr : a \in (sp + Size[m])..(sp + Size[m] + PtrSize - 1) =>
            b[a] = WordByte(sp, a - sp - Size[m])
      /\ \A a \in Addr : a < PtrSize => b[a] = WordByte(EndOf(f), a)
      /\ \A a \in Addr : a >= PtrSize /\ a < sp => b[a] = mem[a]
      /\ \A a \in Addr : a >= EndOf(f) => b[a] = mem[a]
    <2> SUFFICES ASSUME NEW a \in Addr
                 PROVE  /\ a \in sp..(sp + Size[m] - 1) => b[a] = MsgByte(m, a - sp)
                        /\ a \in (sp + Size[m])..(sp + Size[m] + PtrSize - 1) =>
                              b[a] = WordByte(sp, a - sp - Size[m])
                        /\ a < PtrSize => b[a] = WordByte(EndOf(f), a)
                        /\ a >= PtrSize /\ a < sp => b[a] = mem[a]
                        /\ a >= EndOf(f) => b[a] = mem[a]
        BY Zenon
    <2>1. b[a] = IF a \in sp..(sp + Size[m] - 1) THEN MsgByte(m, a - sp)
                 ELSE IF a \in (sp + Size[m])..(sp + Size[m] + PtrSize - 1)
                      THEN WordByte(sp, a - sp - Size[m])
                 ELSE IF a < PtrSize THEN WordByte(sp + Size[m] + PtrSize, a)
                 ELSE mem[a]
        BY DEF Pushed
    <2>2. a \in Int
        BY DEF Addr
    <2> HIDE DEF b
    <2>3. QED BY <2>1, <2>2, <1>1, <1>2
<1> HIDE DEF f, fs, b
<1>6. HasWord(b, 0, Free(fs))
    <2> SUFFICES ASSUME NEW k \in 0..(PtrSize - 1)
                 PROVE  b[0 + k] = WordByte(Free(fs), k)
        BY DEF HasWord
    <2>1. 0 + k = k /\ k \in Addr /\ k < PtrSize
        BY DEF Addr
    <2>2. QED BY <2>1, <1>4, <1>5
<1>7. HasMsg(b, f.at, f.msg) /\ HasWord(b, f.at + Size[f.msg], f.at)
    <2>1. f.at = sp /\ f.msg = m
        BY DEF f
    <2>2. \A k \in 0..(Size[m] - 1) : b[sp + k] = MsgByte(m, k)
        <3> SUFFICES ASSUME NEW k \in 0..(Size[m] - 1)
                     PROVE  b[sp + k] = MsgByte(m, k)
            OBVIOUS
        <3>1. sp + k \in Addr /\ sp + k \in sp..(sp + Size[m] - 1) /\ (sp + k) - sp = k
            BY <1>1 DEF Addr
        <3>2. QED BY <3>1, <1>5
    <2>3. \A k \in 0..(PtrSize - 1) : b[sp + Size[m] + k] = WordByte(sp, k)
        <3> SUFFICES ASSUME NEW k \in 0..(PtrSize - 1)
                     PROVE  b[sp + Size[m] + k] = WordByte(sp, k)
            OBVIOUS
        <3>1. /\ sp + Size[m] + k \in Addr
              /\ sp + Size[m] + k \in (sp + Size[m])..(sp + Size[m] + PtrSize - 1)
              /\ (sp + Size[m] + k) - sp - Size[m] = k
            BY <1>1 DEF Addr
        <3>2. QED BY <3>1, <1>5
    <2>4. QED BY <2>1, <2>2, <2>3 DEF HasMsg, HasWord
<1>8. \A i \in 1..n :
        /\ fs[i].at >= PtrSize /\ EndOf(fs[i]) <= sp /\ EndOf(fs[i]) \in Nat
        /\ HasMsg(b, fs[i].at, fs[i].msg)
        /\ HasWord(b, fs[i].at + Size[fs[i].msg], fs[i].at)
    <2> SUFFICES ASSUME NEW i \in 1..n
                 PROVE  /\ fs[i].at >= PtrSize /\ EndOf(fs[i]) <= sp
                        /\ EndOf(fs[i]) \in Nat
                        /\ HasMsg(b, fs[i].at, fs[i].msg)
                        /\ HasWord(b, fs[i].at + Size[fs[i].msg], fs[i].at)
        OBVIOUS
    <2>1. /\ fs[i] = frames[i] /\ fs[i] \in Frame /\ EndOf(fs[i]) \in Nat
          /\ fs[i].at \in Nat
        BY <1>3, FreeNat DEF Frame
    <2>2. /\ fs[i].at >= PtrSize /\ EndOf(fs[i]) <= sp
          /\ HasMsg(mem, fs[i].at, fs[i].msg)
          /\ HasWord(mem, fs[i].at + Size[fs[i].msg], fs[i].at)
        BY <2>1 DEF Encodes
    <2>3. \A a \in Nat : fs[i].at <= a /\ a < EndOf(fs[i]) => b[a] = mem[a]
        BY <2>1, <2>2, <1>1, <1>5 DEF Addr
    <2>4. QED BY <2>1, <2>2, <2>3, SameFrame
<1>9. fs[1].at = PtrSize
    <2>1. CASE n = 0
        BY <2>1, <1>3, EmptySeq DEF f, Free
    <2>2. CASE n > 0
        BY <2>2, <1>1, <1>3 DEF Encodes
    <2>3. QED BY <2>1, <2>2, <1>1
<1>10. \A i \in 2..Len(fs) : fs[i].at = EndOf(fs[i - 1])
    <2> SUFFICES ASSUME NEW i \in 2..(n + 1)
                 PROVE  fs[i].at = EndOf(fs[i - 1])
        BY <1>3
    <2>1. CASE i \in 2..n
        <3>1. i \in 1..n /\ i - 1 \in 1..n
            BY <2>1, <1>1
        <3>2. QED BY <3>1, <2>1, <1>3 DEF Encodes
    <2>2. CASE i = n + 1
        <3>1. n \in 1..n /\ frames # <<>>
            BY <2>2, <1>1, EmptySeq
        <3>2. fs[i - 1] = frames[n] /\ sp = EndOf(frames[n])
            BY <3>1, <2>2, <1>1, <1>3 DEF Free
        <3>3. QED BY <3>2, <2>2, <1>3 DEF f
    <2>3. QED BY <2>1, <2>2, <1>1
<1>11. \A i, j \in 1..Len(fs) : i < j => EndOf(fs[i]) <= fs[j].at
    <2> SUFFICES ASSUME NEW i \in 1..(n + 1), NEW j \in 1..(n + 1), i < j
                 PROVE  EndOf(fs[i]) <= fs[j].at
        BY <1>3
    <2>1. i \in 1..n
        BY <1>1
    <2>2. CASE j \in 1..n
        BY <2>1, <2>2, <1>3 DEF Encodes
    <2>3. CASE j = n + 1
        BY <2>1, <2>3, <1>3, <1>8 DEF f
    <2>4. QED BY <2>2, <2>3, <1>1
<1>12. \A a \in Addr : a >= Free(fs) => b[a] = Zero
    <2> SUFFICES ASSUME NEW a \in Addr, a >= Free(fs)
                 PROVE  b[a] = Zero
        OBVIOUS
    <2>1. a >= sp /\ b[a] = mem[a]
        BY <1>1, <1>2, <1>4, <1>5 DEF Addr
    <2>2. QED BY <2>1 DEF Encodes
<1>13. \A i \in 1..Len(fs) :
        /\ fs[i].at >= PtrSize
        /\ EndOf(fs[i]) <= Free(fs)
        /\ HasMsg(b, fs[i].at, fs[i].msg)
        /\ HasWord(b, fs[i].at + Size[fs[i].msg], fs[i].at)
    <2> SUFFICES ASSUME NEW i \in 1..(n + 1)
                 PROVE  /\ fs[i].at >= PtrSize
                        /\ EndOf(fs[i]) <= Free(fs)
                        /\ HasMsg(b, fs[i].at, fs[i].msg)
                        /\ HasWord(b, fs[i].at + Size[fs[i].msg], fs[i].at)
        BY <1>3
    <2>1. CASE i \in 1..n
        BY <2>1, <1>1, <1>2, <1>4, <1>8
    <2>2. CASE i = n + 1
        <3>1. fs[i] = f /\ f.at = sp
            BY <2>2, <1>3 DEF f
        <3>2. QED BY <3>1, <1>1, <1>2, <1>4, <1>7
    <2>3. QED BY <2>1, <2>2, <1>1
<1>14. Encodes(b, fs)
    BY <1>4, <1>6, <1>9, <1>10, <1>11, <1>12, <1>13 DEF Encodes
<1>15. QED BY <1>2, <1>14 DEF fs, f, b

\* The first elements of a sequence.
LEMMA PrefixProperties ==
    ASSUME NEW S, NEW s, NEW m \in Nat, \A i \in 1..m : s[i] \in S
    PROVE  /\ SubSeq(s, 1, m) \in Seq(S)
           /\ Len(SubSeq(s, 1, m)) = m
           /\ \A i \in 1..m : SubSeq(s, 1, m)[i] = s[i] /\ SubSeq(s, 1, m)[i] \in S
<1> DEFINE t == SubSeq(s, 1, m)
<1>1. /\ t \in Seq(S)
      /\ Len(t) = IF 1 <= m THEN m - 1 + 1 ELSE 0
      /\ \A i \in 1..(m - 1 + 1) : t[i] = s[1 + i - 1]
    BY SubSeqProperties
<1> HIDE DEF t
<1>2. Len(t) = m
    BY <1>1
<1>3. \A i \in 1..m : t[i] = s[i]
    <2> SUFFICES ASSUME NEW i \in 1..m
                 PROVE  t[i] = s[i]
        OBVIOUS
    <2>1. i \in 1..(m - 1 + 1) /\ 1 + i - 1 = i
        OBVIOUS
    <2>2. QED BY <2>1, <1>1
<1>4. QED BY <1>1, <1>2, <1>3 DEF t

\* After a pop the free space begins where the popped message began.
LEMMA PopFree ==
    ASSUME frames \in Seq(Frame), Encodes(mem, frames), frames # <<>>
    PROVE  /\ SubSeq(frames, 1, Len(frames) - 1) \in Seq(Frame)
           /\ Len(SubSeq(frames, 1, Len(frames) - 1)) = Len(frames) - 1
           /\ \A i \in 1..(Len(frames) - 1) :
                 /\ SubSeq(frames, 1, Len(frames) - 1)[i] = frames[i]
                 /\ SubSeq(frames, 1, Len(frames) - 1)[i] \in Frame
           /\ Free(SubSeq(frames, 1, Len(frames) - 1)) = frames[Len(frames)].at
<1> DEFINE n == Len(frames)
           fs == SubSeq(frames, 1, n - 1)
           last == frames[n].at
<1>1. n \in Nat /\ n >= 1
    BY TopRead, FreeNat
<1>2. /\ fs \in Seq(Frame) /\ Len(fs) = n - 1
      /\ \A i \in 1..(n - 1) : fs[i] = frames[i] /\ fs[i] \in Frame
    <2>1. \A i \in 1..n : frames[i] \in Frame
        BY FreeNat
    <2>2. \A i \in 1..(n - 1) : frames[i] \in Frame
        BY <2>1, <1>1
    <2> DEFINE m == n - 1
    <2>3. m \in Nat
        BY <1>1
    <2>4. \A i \in 1..m : frames[i] \in Frame
        BY <2>2
    <2> HIDE DEF m
    <2>5. /\ SubSeq(frames, 1, m) \in Seq(Frame)
          /\ Len(SubSeq(frames, 1, m)) = m
          /\ \A i \in 1..m : /\ SubSeq(frames, 1, m)[i] = frames[i]
                            /\ SubSeq(frames, 1, m)[i] \in Frame
        BY <2>3, <2>4, PrefixProperties
    <2>6. QED BY <2>5, Zenon DEF m
<1>3. Free(fs) = last
    <2> HIDE DEF fs
    <2>1. CASE n = 1
        BY <2>1, <1>2, EmptySeq DEF Free, Encodes
    <2>2. CASE n > 1
        <3>1. n - 1 \in 1..(n - 1) /\ n \in 2..n /\ fs # <<>>
            <4>1. Len(fs) # 0
                BY <2>2, <1>1, <1>2
            <4>2. QED BY <4>1, <2>2, <1>1
        <3>2. Free(fs) = EndOf(frames[n - 1])
            BY <3>1, <1>2 DEF Free
        <3>3. frames[n].at = EndOf(frames[n - 1])
            BY <3>1 DEF Encodes
        <3>4. QED BY <3>2, <3>3
    <2>3. n = 1 \/ n > 1
        <3> HIDE DEF n
        <3>1. QED BY <1>1
    <2>4. QED BY <2>1, <2>2, <2>3
<1>4. QED BY <1>2, <1>3, Zenon

\* A pop of the top message keeps the buffer well formed.
LEMMA PopEncodes ==
    ASSUME frames \in Seq(Frame), Encodes(mem, frames), frames # <<>>,
           NEW sp, sp = Free(frames), NEW last, last = frames[Len(frames)].at
    PROVE  LET fs == SubSeq(frames, 1, Len(frames) - 1) IN
           fs \in Seq(Frame) /\ Encodes(Popped(last, sp), fs)
<1> DEFINE n == Len(frames)
           fs == SubSeq(frames, 1, n - 1)
           b == Popped(last, sp)
<1>1. /\ sp \in Nat /\ sp <= BufferSize /\ n \in Nat /\ n >= 1
      /\ last \in Nat /\ last >= PtrSize /\ last < sp
    BY TopRead, FreeNat DEF Frame
<1>2. /\ fs \in Seq(Frame) /\ Len(fs) = n - 1
      /\ \A i \in 1..(n - 1) : fs[i] = frames[i] /\ fs[i] \in Frame
    BY PopFree, Zenon
<1>3. Free(fs) = last
    BY PopFree, Zenon
<1>4. /\ \A a \in Addr : a \in last..(sp - 1) => b[a] = Zero
      /\ \A a \in Addr : a < PtrSize => b[a] = WordByte(last, a)
      /\ \A a \in Addr : a >= PtrSize /\ a < last => b[a] = mem[a]
      /\ \A a \in Addr : a >= sp => b[a] = mem[a]
    <2> SUFFICES ASSUME NEW a \in Addr
                 PROVE  /\ a \in last..(sp - 1) => b[a] = Zero
                        /\ a < PtrSize => b[a] = WordByte(last, a)
                        /\ a >= PtrSize /\ a < last => b[a] = mem[a]
                        /\ a >= sp => b[a] = mem[a]
        BY Zenon
    <2>1. b[a] = IF a \in last..(sp - 1) THEN Zero
                 ELSE IF a < PtrSize THEN WordByte(last, a)
                 ELSE mem[a]
        BY DEF Popped
    <2>2. a \in Int
        BY DEF Addr
    <2> HIDE DEF b
    <2>3. QED BY <2>1, <2>2, <1>1
<1> HIDE DEF fs, b
<1>5. HasWord(b, 0, Free(fs))
    <2> SUFFICES ASSUME NEW k \in 0..(PtrSize - 1)
                 PROVE  b[0 + k] = WordByte(Free(fs), k)
        BY DEF HasWord
    <2>1. 0 + k = k /\ k \in Addr /\ k < PtrSize
        BY DEF Addr
    <2>2. QED BY <2>1, <1>3, <1>4
<1>6. \A i \in 1..Len(fs) :
        /\ fs[i].at >= PtrSize
        /\ EndOf(fs[i]) <= Free(fs)
        /\ HasMsg(b, fs[i].at, fs[i].msg)
        /\ HasWord(b, fs[i].at + Size[fs[i].msg], fs[i].at)
    <2> SUFFICES ASSUME NEW i \in 1..(n - 1)
                 PROVE  /\ fs[i].at >= PtrSize
                        /\ EndOf(fs[i]) <= Free(fs)
                        /\ HasMsg(b, fs[i].at, fs[i].msg)
                        /\ HasWord(b, fs[i].at + Size[fs[i].msg], fs[i].at)
        BY <1>2
    <2>1. /\ fs[i] = frames[i] /\ fs[i] \in Frame /\ fs[i].at \in Nat
          /\ i \in 1..n /\ n \in 1..n /\ i < n
        <3> HIDE DEF n
        <3>1. i \in 1..n /\ n \in 1..n /\ i < n
            BY <1>1
        <3>2. fs[i] = frames[i] /\ fs[i] \in Frame
            BY <1>2
        <3>3. QED BY <3>1, <3>2 DEF Frame
    <2>2. /\ fs[i].at >= PtrSize /\ EndOf(fs[i]) <= last
          /\ HasMsg(mem, fs[i].at, fs[i].msg)
          /\ HasWord(mem, fs[i].at + Size[fs[i].msg], fs[i].at)
        BY <2>1 DEF Encodes
    <2>3. EndOf(fs[i]) \in Nat
        BY <2>1, FreeNat
    <2>4. \A a \in Nat : fs[i].at <= a /\ a < EndOf(fs[i]) => b[a] = mem[a]
        BY <2>1, <2>2, <2>3, <1>1, <1>4, SMTT(40) DEF Addr
    <2>5. QED BY <2>1, <2>2, <2>4, <1>3, SameFrame
<1>7. Len(fs) >= 1 => fs[1].at = PtrSize
    BY <1>1, <1>2 DEF Encodes
<1>8. \A i \in 2..Len(fs) : fs[i].at = EndOf(fs[i - 1])
    <2> SUFFICES ASSUME NEW i \in 2..(n - 1)
                 PROVE  fs[i].at = EndOf(fs[i - 1])
        BY <1>2
    <2>1. i \in 1..(n - 1) /\ i - 1 \in 1..(n - 1) /\ i \in 2..n
        BY <1>1
    <2>2. QED BY <2>1, <1>2 DEF Encodes
<1>9. \A i, j \in 1..Len(fs) : i < j => EndOf(fs[i]) <= fs[j].at
    <2> SUFFICES ASSUME NEW i \in 1..(n - 1), NEW j \in 1..(n - 1), i < j
                 PROVE  EndOf(fs[i]) <= fs[j].at
        BY <1>2
    <2>1. i \in 1..n /\ j \in 1..n
        BY <1>1
    <2>2. QED BY <2>1, <1>2 DEF Encodes
<1>10. \A a \in Addr : a >= Free(fs) => b[a] = Zero
    <2> SUFFICES ASSUME NEW a \in Addr, a >= last
                 PROVE  b[a] = Zero
        BY <1>3
    <2>1. CASE a < sp
        BY <2>1, <1>1, <1>4 DEF Addr
    <2>2. CASE a >= sp
        BY <2>2, <1>4 DEF Encodes
    <2>3. QED BY <2>1, <2>2, <1>1 DEF Addr
<1>11. Free(fs) <= BufferSize
    BY <1>1, <1>3
<1>12. Encodes(b, fs)
    BY <1>5, <1>6, <1>7, <1>8, <1>9, <1>10, <1>11 DEF Encodes
<1>13. QED BY <1>2, <1>12 DEF fs, b

-----------------------------------------------------------------------------
(* The invariant.                                                          *)

\* What the proofs need of the types.
FramesOK == frames \in Seq(Frame) /\ saved_frames \in Seq(Frame)

\* A well-formed buffer is kept so by every operation.
LEMMA StepEncodes ==
    ASSUME FramesOK, WellFormed, [Next]_vars
    PROVE  FramesOK' /\ WellFormed'
<1> USE DEF FramesOK, WellFormed
<1>1. ASSUME NEW m \in Msgs, Push(m)
      PROVE  FramesOK' /\ WellFormed'
    <2>1. ReadWord(0) = Free(frames)
        BY TopRead
    <2>2. CASE UNCHANGED <<mem, saved, frames, saved_frames>>
        BY <2>2
    <2>3. CASE /\ Size[m] + PtrSize <= BufferSize - Free(frames)
               /\ mem' = Pushed(m, Free(frames))
               /\ frames' = Append(frames, [at |-> Free(frames), msg |-> m])
               /\ UNCHANGED <<saved, saved_frames>>
        BY <2>3, PushEncodes
    <2>4. QED BY <1>1, <2>1, <2>2, <2>3 DEF Push
<1>2. ASSUME NEW kind, Pop(kind)
      PROVE  FramesOK' /\ WellFormed'
    <2>1. CASE UNCHANGED <<mem, saved, frames, saved_frames>>
        BY <2>1
    <2>2. CASE /\ ReadWord(0) >= 2 * PtrSize
               /\ mem' = Popped(ReadWord(ReadWord(0) - PtrSize), ReadWord(0))
               /\ frames' = SubSeq(frames, 1, Len(frames) - 1)
               /\ UNCHANGED <<saved, saved_frames>>
        <3>1. ReadWord(0) = Free(frames) /\ (frames = <<>> => Free(frames) = PtrSize)
            BY TopRead
        <3>2. frames # <<>>
            BY <3>1, <2>2
        <3>3. ReadWord(Free(frames) - PtrSize) = frames[Len(frames)].at
            BY <3>2, TopRead
        <3>4. QED BY <2>2, <3>1, <3>2, <3>3, PopEncodes
    <2>3. QED BY <1>2, <2>1, <2>2 DEF Pop
<1>3. CASE Snapshot
    BY <1>3 DEF Snapshot
<1>4. CASE Restore
    BY <1>4 DEF Restore
<1>5. CASE UNCHANGED vars
    BY <1>5 DEF vars
<1>6. QED
    BY <1>1, <1>2, <1>3, <1>4, <1>5
    DEF Next, HostPush, HostPop, GuestPush, GuestPop

\* A new buffer is well formed.
LEMMA InitEncodes == Init => FramesOK /\ WellFormed
<1> SUFFICES ASSUME Init
             PROVE  FramesOK /\ WellFormed
    OBVIOUS
<1>1. /\ mem = EmptyBuffer /\ saved = EmptyBuffer
      /\ frames = <<>> /\ saved_frames = <<>>
    BY DEF Init
<1>2. Len(<<>>) = 0 /\ <<>> \in Seq(Frame) /\ Free(<<>>) = PtrSize
    BY DEF Free
<1>3. \A a \in Addr : EmptyBuffer[a] = IF a < PtrSize THEN WordByte(PtrSize, a) ELSE Zero
    BY DEF EmptyBuffer
<1>4. HasWord(EmptyBuffer, 0, PtrSize)
    BY <1>3 DEF HasWord, Addr
<1>5. \A a \in Addr : a >= PtrSize => EmptyBuffer[a] = Zero
    BY <1>3 DEF Addr
<1>6. Encodes(EmptyBuffer, <<>>)
    BY <1>2, <1>4, <1>5 DEF Encodes
<1>7. QED BY <1>1, <1>2, <1>6 DEF FramesOK, WellFormed

\* Every buffer that pushes, pops, snapshots and restores can produce is
\* well formed.
THEOREM AlwaysWellFormed == Spec => []WellFormed
<1>1. FramesOK /\ WellFormed /\ [Next]_vars => (FramesOK /\ WellFormed)'
    BY StepEncodes
<1>2. QED BY <1>1, InitEncodes, PTL DEF Spec

\* The bytes of integers and messages are bytes.
LEMMA Bytes ==
    /\ \A v \in Nat, k \in Nat : WordByte(v, k) \in Byte
    /\ \A m \in Msgs, k \in Nat : MsgByte(m, k) \in Byte
    /\ Zero \in Byte
BY DEF WordByte, MsgByte, Zero, Byte

\* A push and a pop write bytes.
LEMMA BufferType ==
    ASSUME mem \in [Addr -> Byte], NEW m \in Msgs, NEW sp \in Nat, NEW last \in Nat
    PROVE  Pushed(m, sp) \in [Addr -> Byte] /\ Popped(last, sp) \in [Addr -> Byte]
<1>0. Size[m] \in Nat
    OBVIOUS
<1>1. ASSUME NEW a \in Addr
      PROVE  /\ (IF a \in sp..(sp + Size[m] - 1) THEN MsgByte(m, a - sp)
                 ELSE IF a \in (sp + Size[m])..(sp + Size[m] + PtrSize - 1)
                      THEN WordByte(sp, a - sp - Size[m])
                 ELSE IF a < PtrSize THEN WordByte(sp + Size[m] + PtrSize, a)
                 ELSE mem[a]) \in Byte
             /\ (IF a \in last..(sp - 1) THEN Zero
                 ELSE IF a < PtrSize THEN WordByte(last, a)
                 ELSE mem[a]) \in Byte
    <2>1. a \in Nat /\ sp + Size[m] + PtrSize \in Nat
        BY <1>0 DEF Addr
    <2>2. a \in sp..(sp + Size[m] - 1) => MsgByte(m, a - sp) \in Byte
        <3>1. a \in sp..(sp + Size[m] - 1) => a - sp \in Nat
            BY <2>1, <1>0
        <3>2. QED BY <3>1, Bytes
    <2>3. a \in (sp + Size[m])..(sp + Size[m] + PtrSize - 1)
              => WordByte(sp, a - sp - Size[m]) \in Byte
        <3>1. a \in (sp + Size[m])..(sp + Size[m] + PtrSize - 1)
                  => a - sp - Size[m] \in Nat
            BY <2>1, <1>0
        <3>2. QED BY <3>1, Bytes
    <2>4. /\ WordByte(sp + Size[m] + PtrSize, a) \in Byte
          /\ WordByte(last, a) \in Byte /\ Zero \in Byte /\ mem[a] \in Byte
        BY <2>1, Bytes
    <2>5. QED BY <2>2, <2>3, <2>4, Zenon
<1>2. QED BY <1>1 DEF Pushed, Popped

\* The buffers are arrays of bytes.
THEOREM TypeCorrect == Spec => []TypeOK
<1>1. Init => TypeOK
    <2> SUFFICES ASSUME Init
                 PROVE  TypeOK
        OBVIOUS
    <2>1. EmptyBuffer \in [Addr -> Byte]
        <3>1. \A a \in Addr : a \in Nat /\ PtrSize \in Nat
            BY DEF Addr
        <3>2. \A a \in Addr : WordByte(PtrSize, a) \in Byte /\ Zero \in Byte
            BY <3>1, Bytes, Zenon
        <3>3. QED BY <3>2 DEF EmptyBuffer
    <2>2. QED BY <2>1, EmptySeq DEF Init, TypeOK, Result
<1>2. TypeOK => FramesOK
    BY DEF TypeOK, FramesOK
<1>3. ASSUME TypeOK, WellFormed, [Next]_vars
      PROVE  TypeOK'
    <2>1. FramesOK'
        BY <1>2, <1>3, StepEncodes
    <2>2. ReadWord(0) = Free(frames) /\ Free(frames) \in Nat
        BY <1>2, <1>3, TopRead DEF FramesOK, WellFormed
    <2>3. ASSUME NEW m \in Msgs, Push(m)
          PROVE  TypeOK'
        <3>1. mem' \in [Addr -> Byte]
            BY <2>2, <2>3, <1>3, BufferType DEF Push, TypeOK
        <3>2. dir' = dir /\ saved' = saved
            BY <2>3 DEF Push
        <3>3. ret' \in {Result("pushed", m), Result("full", NoMsg)}
            BY <2>3 DEF Push
        <3>4. QED BY <2>1, <3>1, <3>2, <3>3, <1>3 DEF TypeOK, FramesOK, Result
    <2>4. ASSUME NEW kind \in Kinds, Pop(kind)
          PROVE  TypeOK'
        <3> DEFINE sp == ReadWord(0)
                   last == ReadWord(sp - PtrSize)
        <3>1. sp >= 2 * PtrSize => last \in Nat /\ ReadMsg(last) \in Msgs
            <4>1. ASSUME sp >= 2 * PtrSize
                  PROVE  last \in Nat /\ ReadMsg(last) \in Msgs
                <5>1. frames # <<>>
                    BY <4>1, <2>2, <1>2, <1>3, TopRead DEF FramesOK, WellFormed
                <5>2. LET f == frames[Len(frames)] IN
                      f \in Frame /\ last = f.at /\ ReadMsg(f.at) = f.msg
                    BY <5>1, <2>2, <1>2, <1>3, TopRead DEF FramesOK, WellFormed
                <5>3. QED BY <5>2 DEF Frame
            <4>2. QED BY <4>1
        <3>2. mem' \in [Addr -> Byte]
            <4>1. CASE mem' = mem
                BY <4>1, <1>3 DEF TypeOK
            <4>2. CASE sp >= 2 * PtrSize /\ mem' = Popped(last, sp)
                BY <4>2, <3>1, <2>2, <1>3, BufferType DEF TypeOK
            <4>3. QED BY <2>4, <4>1, <4>2 DEF Pop
        <3>3. dir' = dir /\ saved' = saved
            BY <2>4 DEF Pop
        <3>4. \/ ret' \in {Result("empty", NoMsg), Result("mismatch", NoMsg)}
              \/ sp >= 2 * PtrSize /\ ret' = Result("popped", ReadMsg(last))
            BY <2>4 DEF Pop
        <3>5. QED BY <2>1, <3>1, <3>2, <3>3, <3>4, <1>3 DEF TypeOK, FramesOK, Result
    <2>5. CASE Snapshot
        BY <2>5, <1>3 DEF Snapshot, TypeOK
    <2>6. CASE Restore
        BY <2>6, <1>3 DEF Restore, TypeOK
    <2>7. CASE UNCHANGED vars
        BY <2>7, <1>3 DEF vars, TypeOK
    <2>8. QED
        BY <1>3, <2>3, <2>4, <2>5, <2>6, <2>7
        DEF Next, HostPush, HostPop, GuestPush, GuestPop
<1>4. QED BY <1>1, <1>3, AlwaysWellFormed, PTL DEF Spec

-----------------------------------------------------------------------------
(* The buffer implements the stack.                                        *)

\* What the messages of a longer and a shorter sequence of frames are.
LEMMA StackOf ==
    ASSUME NEW fs \in Seq(Frame)
    PROVE  /\ Stack(fs) \in Seq(Msgs) /\ Len(Stack(fs)) = Len(fs)
           /\ \A i \in 1..Len(fs) : Stack(fs)[i] = fs[i].msg
           /\ Stack(fs) = <<>> <=> fs = <<>>
<1>1. Len(fs) \in Nat /\ \A i \in 1..Len(fs) : fs[i].msg \in Msgs
    BY FreeNat DEF Frame
<1>2. Stack(fs) \in [1..Len(fs) -> Msgs]
    BY <1>1 DEF Stack
<1>3. Stack(fs) \in Seq(Msgs) /\ Len(Stack(fs)) = Len(fs)
    BY <1>1, <1>2
<1>4. QED BY <1>3, <1>1, EmptySeq DEF Stack

\* A push of a frame is a push of its message.
LEMMA StackPush ==
    ASSUME NEW fs \in Seq(Frame), NEW f \in Frame
    PROVE  /\ Stack(Append(fs, f)) = Append(Stack(fs), f.msg)
           /\ Free(Append(fs, f)) = EndOf(f)
<1> DEFINE g == Append(fs, f)
           s == Append(Stack(fs), f.msg)
<1>1. /\ g \in Seq(Frame) /\ Len(g) = Len(fs) + 1 /\ g[Len(fs) + 1] = f
      /\ \A i \in 1..Len(fs) : g[i] = fs[i]
      /\ Len(fs) \in Nat /\ g # <<>>
    BY AppendProperties, FreeNat
<1>2. f.msg \in Msgs
    BY DEF Frame
<1>3. /\ s \in Seq(Msgs) /\ Len(s) = Len(fs) + 1 /\ s[Len(fs) + 1] = f.msg
      /\ \A i \in 1..Len(fs) : s[i] = fs[i].msg
    BY <1>2, AppendProperties, StackOf
<1> HIDE DEF g, s
<1>4. /\ Stack(g) \in Seq(Msgs) /\ Len(Stack(g)) = Len(fs) + 1
      /\ \A i \in 1..(Len(fs) + 1) : Stack(g)[i] = g[i].msg
    BY <1>1, StackOf
<1>5. \A i \in 1..(Len(fs) + 1) : Stack(g)[i] = s[i]
    <2> SUFFICES ASSUME NEW i \in 1..(Len(fs) + 1)
                 PROVE  Stack(g)[i] = s[i]
        OBVIOUS
    <2>1. i \in 1..Len(fs) \/ i = Len(fs) + 1
        BY <1>1
    <2>2. QED BY <2>1, <1>1, <1>3, <1>4
<1>6. Stack(g) = s
    BY <1>3, <1>4, <1>5, SeqEqual
<1>7. Free(g) = EndOf(f)
    BY <1>1 DEF Free
<1>8. QED BY <1>6, <1>7 DEF g, s

\* A pop of a frame is a pop of its message.
LEMMA StackPop ==
    ASSUME NEW fs \in Seq(Frame), fs # <<>>
    PROVE  LET n == Len(fs) IN
           Stack(SubSeq(fs, 1, n - 1)) = SubSeq(Stack(fs), 1, n - 1)
<1> DEFINE m == Len(fs) - 1
           g == SubSeq(fs, 1, m)
           s == SubSeq(Stack(fs), 1, m)
<1>1. m \in Nat /\ Len(fs) = m + 1
    BY FreeNat, EmptySeq
<1>2. \A i \in 1..m : fs[i] \in Frame /\ Stack(fs)[i] = fs[i].msg /\ Stack(fs)[i] \in Msgs
    <2> SUFFICES ASSUME NEW i \in 1..m
                 PROVE  fs[i] \in Frame /\ Stack(fs)[i] = fs[i].msg /\ Stack(fs)[i] \in Msgs
        OBVIOUS
    <2>1. i \in 1..Len(fs)
        BY <1>1
    <2>2. fs[i] \in Frame /\ Stack(fs)[i] = fs[i].msg
        BY <2>1, FreeNat, StackOf
    <2>3. QED BY <2>2 DEF Frame
<1> HIDE DEF m
<1>3. g \in Seq(Frame) /\ Len(g) = m /\ \A i \in 1..m : g[i] = fs[i]
    BY <1>1, <1>2, PrefixProperties
<1>4. s \in Seq(Msgs) /\ Len(s) = m /\ \A i \in 1..m : s[i] = Stack(fs)[i]
    BY <1>1, <1>2, PrefixProperties
<1> HIDE DEF g, s
<1>5. Stack(g) \in Seq(Msgs) /\ Len(Stack(g)) = m /\ \A i \in 1..m : Stack(g)[i] = g[i].msg
    BY <1>3, StackOf
<1>6. \A i \in 1..m : Stack(g)[i] = s[i]
    BY <1>2, <1>3, <1>4, <1>5
<1>7. Stack(g) = s
    BY <1>4, <1>5, <1>6, SeqEqual
<1>8. QED BY <1>7 DEF g, s, m

\* A push into the bytes is a push onto the stack.
LEMMA PushRefines ==
    ASSUME FramesOK, WellFormed, NEW m \in Msgs, Push(m)
    PROVE  Abstract!Push(m)
<1>1. ReadWord(0) = Free(frames) /\ Free(frames) \in PtrSize..BufferSize
    BY TopRead DEF FramesOK, WellFormed
<1>2. Size[m] \in Nat /\ Free(frames) \in Nat
    BY <1>1
<1>3. CASE /\ Size[m] + PtrSize <= BufferSize - Free(frames)
           /\ frames' = Append(frames, [at |-> Free(frames), msg |-> m])
           /\ ret' = Result("pushed", m)
           /\ UNCHANGED saved_frames
    <2> DEFINE f == [at |-> Free(frames), msg |-> m]
    <2>1. f \in Frame /\ f.msg = m /\ EndOf(f) = Free(frames) + Size[m] + PtrSize
        BY <1>2 DEF Frame, EndOf
    <2>2. Stack(frames') = Append(Stack(frames), m) /\ Free(frames') = EndOf(f)
        BY <1>3, <2>1, StackPush DEF FramesOK
    <2>3. Free(frames) + Size[m] + PtrSize <= BufferSize
        BY <1>2, <1>3
    <2>4. QED BY <1>3, <2>1, <2>2, <2>3 DEF Abstract!Push, Abstract!Result, Result
<1>4. CASE /\ Size[m] + PtrSize > BufferSize - Free(frames)
           /\ ret' = Result("full", NoMsg)
           /\ UNCHANGED <<frames, saved_frames>>
    <2>1. Free(frames) + Size[m] + PtrSize > BufferSize
        BY <1>2, <1>4
    <2>2. QED BY <1>4, <2>1 DEF Abstract!Push, Abstract!Result, Result
<1>5. QED
    <2>1. ~(Free(frames) > BufferSize) /\ ~(Free(frames) < PtrSize)
        BY <1>1
    <2>2. QED BY <2>1, <1>1, <1>3, <1>4 DEF Push

\* A pop from the bytes is a pop from the stack.
LEMMA PopRefines ==
    ASSUME FramesOK, WellFormed, NEW kind \in Kinds, Pop(kind)
    PROVE  Abstract!Pop(kind)
<1>1. ReadWord(0) = Free(frames) /\ Free(frames) \in PtrSize..BufferSize
    BY TopRead DEF FramesOK, WellFormed
<1>2. CASE frames = <<>>
    <2>1. Free(frames) = PtrSize /\ ~(PtrSize >= 2 * PtrSize)
        BY <1>2 DEF Free
    <2>2. ret' = Result("empty", NoMsg) /\ UNCHANGED <<frames, saved_frames>>
        BY <1>1, <2>1 DEF Pop
    <2>3. Stack(frames) = <<>>
        BY <1>2, StackOf DEF FramesOK
    <2>4. QED BY <2>2, <2>3 DEF Abstract!Pop, Abstract!Result, Result
<1>3. CASE frames # <<>>
    <2> DEFINE n == Len(frames)
               f == frames[n]
               s == Stack(frames)
    <2>1. /\ n >= 1 /\ n \in Nat /\ f \in Frame
          /\ Free(frames) = f.at + Size[f.msg] + PtrSize /\ f.at >= PtrSize
          /\ ReadWord(Free(frames) - PtrSize) = f.at
          /\ ReadMsg(f.at) = f.msg
        BY <1>3, TopRead, FreeNat DEF FramesOK, WellFormed
    <2>2. /\ s # <<>> /\ Len(s) = n /\ s[n] = f.msg
        BY <1>3, <2>1, StackOf DEF FramesOK
    <2>3. Free(frames) <= BufferSize /\ Free(frames) >= 2 * PtrSize
        BY <2>1, <1>1 DEF Frame
    <2>4. \/ /\ Kind[f.msg] # kind /\ ret' = Result("mismatch", NoMsg)
             /\ UNCHANGED <<frames, saved_frames>>
          \/ /\ Kind[f.msg] = kind /\ ret' = Result("popped", f.msg)
             /\ frames' = SubSeq(frames, 1, n - 1)
             /\ UNCHANGED saved_frames
        BY <1>1, <2>1, <2>3 DEF Pop
    <2>5. CASE /\ Kind[f.msg] # kind /\ ret' = Result("mismatch", NoMsg)
               /\ UNCHANGED <<frames, saved_frames>>
        BY <2>2, <2>5 DEF Abstract!Pop, Abstract!Result, Result
    <2>6. CASE /\ Kind[f.msg] = kind /\ ret' = Result("popped", f.msg)
               /\ frames' = SubSeq(frames, 1, n - 1)
               /\ UNCHANGED saved_frames
        <3>1. Stack(frames') = SubSeq(s, 1, n - 1)
            BY <1>3, <2>6, StackPop DEF FramesOK
        <3>2. Free(frames') = f.at
            BY <1>3, <2>6, PopFree DEF FramesOK, WellFormed
        <3>3. f.at = Free(frames) - Size[f.msg] - PtrSize
            BY <2>1 DEF Frame
        <3>4. QED BY <2>2, <2>6, <3>1, <3>2, <3>3 DEF Abstract!Pop, Abstract!Result, Result
    <2>7. QED BY <2>4, <2>5, <2>6
<1>4. QED BY <1>2, <1>3

\* The byte-level buffer implements the stack of messages: the initial
\* buffer is the empty stack and every operation on the bytes is the same
\* operation on the stack, for every size of buffer, pointer and message.
THEOREM ImplementsLifo == Spec => IsLifo
<1>1. Init => Abstract!Init
    <2> SUFFICES ASSUME Init
                 PROVE  Abstract!Init
        OBVIOUS
    <2>1. frames = <<>> /\ saved_frames = <<>> /\ ret = Result("none", NoMsg)
        BY DEF Init
    <2>2. Stack(<<>>) = <<>> /\ Free(<<>>) = PtrSize
        <3>1. <<>> \in Seq(Frame)
            BY EmptySeq
        <3>2. Stack(<<>>) = <<>>
            BY <3>1, StackOf
        <3>3. QED BY <3>2 DEF Free
    <2>3. QED BY <2>1, <2>2 DEF Abstract!Init, Abstract!Result, Result
<1>2. ASSUME FramesOK, WellFormed, [Next]_vars
      PROVE  [Abstract!Next]_(Abstract!vars)
    <2>1. ASSUME NEW m \in Msgs, Push(m)
          PROVE  Abstract!Next
        BY <1>2, <2>1, PushRefines DEF Abstract!Next
    <2>2. ASSUME NEW kind \in Kinds, Pop(kind)
          PROVE  Abstract!Next
        BY <1>2, <2>2, PopRefines DEF Abstract!Next, Abstract!Kinds, Kinds
    <2>3. CASE Snapshot
        BY <2>3 DEF Snapshot, Abstract!Next, Abstract!Snapshot
    <2>4. CASE Restore
        BY <2>4 DEF Restore, Abstract!Next, Abstract!Restore
    <2>5. CASE UNCHANGED vars
        BY <2>5 DEF vars, Abstract!vars
    <2>6. QED
        BY <1>2, <2>1, <2>2, <2>3, <2>4, <2>5
        DEF Next, HostPush, HostPop, GuestPush, GuestPop
<1>3. FramesOK /\ WellFormed /\ [Next]_vars => (FramesOK /\ WellFormed)'
    BY StepEncodes
<1>4. QED BY <1>1, <1>2, <1>3, InitEncodes, PTL DEF Spec, IsLifo, Abstract!Spec

=============================================================================
